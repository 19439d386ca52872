------------------------------ MODULE ShmRing ------------------------------
(***************************************************************************)
(* What the two rings of wanix/vm/v86/shm have in common.  A ring is a     *)
(* block of BufferSize bytes and two uint32 positions, head and tail, that *)
(* only grow (modulo 2^32) and are reduced modulo BufferSize to find a     *)
(* byte.  A frame is a header that holds the length, and the payload; it   *)
(* never straddles the end of the block: a writer that does not find room  *)
(* before the end starts at the next cycle and leaves a gap.               *)
(*                                                                         *)
(* A byte is modelled by its origin: the message it was written for, the   *)
(* length in that message's header, and its offset in the frame.  Bytes    *)
(* never written are zero in the guest's memory.                           *)
(***************************************************************************)
EXTENDS Integers, Sequences

CONSTANTS
  BufferSize,    \* bytes of one ring
  Header,        \* bytes of the length field (4 in the code)
  SafetyMargin,  \* bytes a writer never counts as available (16384)
  Uint,          \* number of values of a position (2^32)
  Lens,          \* payload lengths that are sent
  Garbage,       \* lengths that bytes which are no header may spell
  MaxMsgs        \* bound: messages sent in one session

ASSUME RingAssumption ==
  /\ BufferSize \in Nat \ {0}
  /\ Header \in 1 .. BufferSize
  /\ SafetyMargin \in 0 .. BufferSize
  /\ Uint \in Nat \ {0} /\ BufferSize < Uint \div 2
  /\ Lens \subseteq 0 .. BufferSize
  /\ Garbage \subseteq 0 .. BufferSize
  /\ MaxMsgs \in Nat

-----------------------------------------------------------------------------
(* Positions.                                                              *)

Uint32(x) == x % Uint

\* chan.js builds a position with | and <<, which yields a signed number.
Int32(x) == IF x >= Uint \div 2 THEN x - Uint ELSE x

\* The remainder of JavaScript takes the sign of the dividend.
JsPos(x) == IF x < 0 THEN -((-x) % BufferSize) ELSE x % BufferSize

Pos(x) == x % BufferSize

NextCycle(x) == ((x \div BufferSize) + 1) * BufferSize

FrameSize(len) == Header + len

AfterMargin(room) == IF room > SafetyMargin THEN room - SafetyMargin ELSE 0

-----------------------------------------------------------------------------
(* Memory.                                                                 *)

Byte  == [msg : 0 .. MaxMsgs, len : 0 .. BufferSize, off : 0 .. BufferSize]
Blank == [msg |-> 0, len |-> 0, off |-> 0]
Offsets == 0 .. BufferSize - 1

ByteOf(id, len, off) == [msg |-> id, len |-> len, off |-> off]

\* The block after the frame of message id was copied to position p.
PutFrame(mem, p, id, len) ==
  [q \in Offsets |->
     IF q >= p /\ q < p + FrameSize(len) THEN ByteOf(id, len, q - p) ELSE mem[q]]

\* Bytes p .. p + n - 1 are the first n bytes of one and the same frame.
FrameBytes(mem, p, n) ==
  /\ mem[p].msg # 0
  /\ \A k \in 0 .. n - 1 : mem[p + k] = ByteOf(mem[p].msg, mem[p].len, k)

\* The values the header at p may decode to.  Bytes that are the header of no
\* frame are payload, so any length the payloads can spell.
LengthsAt(mem, p) ==
  IF p < 0 THEN Garbage
  ELSE IF FrameBytes(mem, p, Header) THEN {mem[p].len}
  ELSE IF \A k \in 0 .. Header - 1 : mem[p + k] = Blank THEN {0}
  ELSE Garbage

\* The message whose whole frame stands at p, 0 for bytes that are no frame.
MessageAt(mem, p, len) ==
  IF p >= 0 /\ FrameBytes(mem, p, FrameSize(len)) /\ mem[p].len = len
  THEN mem[p].msg ELSE 0
=============================================================================
