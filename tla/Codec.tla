-------------------------------- MODULE Codec -------------------------------
(***************************************************************************)
(* The encoder of a worker over many calls.  encode() returns a view of a  *)
(* buffer that later calls go on filling.  There are two copies of the     *)
(* codec: the RPC library's ("rpc", release 1.4.1) hands the view to a     *)
(* channel, which sends it piece by piece while other calls encode; the    *)
(* WASI worker's ("shm", release 1.6) copies it into a CallBuffer's shared *)
(* memory, where the guest decodes it.  They differ where a bigint is      *)
(* beyond 64 bits, which the RPC's refuses.                                *)
(*                                                                         *)
(* views is history: the bytes each call handed out, and whether decode()  *)
(* gives the value back.  Bound: MaxEncodes, the length of views.          *)
(***************************************************************************)
EXTENDS Cbor

CONSTANTS
  Values,       \* what the programs send
  BufferLength, \* the bytes of a CallBuffer's SharedArrayBuffer
  MaxEncodes

VARIABLES
  copy,         \* "rpc" or "shm"
  target,       \* the encoder's buffer, its size and how far it is filled
  views

codecVars == <<copy, target, views>>

CodecInit ==
  /\ copy \in {"rpc", "shm"}
  /\ target = [buf |-> 0, size |-> FirstSize, pos |-> 0]
  /\ views = <<>>

\* A new buffer at the first call and whenever little is left of the old one.
Reserved ==
  IF target.buf = 0 \/ target.size - Spare - target.pos < LeastLeft
  THEN [target EXCEPT !.buf = @ + 1, !.pos = 0] ELSE target

View(e, v) ==
  [buf |-> e.buf, from |-> e.start, to |-> Pos(e), bytes |-> v.t = "bytes",
   sound |-> LET r == Decode(e.out) IN r.ok /\ r.v = Canonical(v)]

Encoded(v) ==
  LET e == Encode([buf |-> Reserved.buf, size |-> Reserved.size,
                   start |-> Reserved.pos, out |-> <<>>], v)
  IN /\ target' = [buf |-> e.buf, size |-> e.size, pos |-> Pos(e)]
     /\ views' = Append(views, View(e, v))
     /\ UNCHANGED copy

\* CBOREncoder's encode, of a call's arguments, a header or a result.
EncodeCall(v) == copy = "rpc" /\ ~Beyond64(v) /\ Encoded(v)

Largest == BufferLength - 8 - 16
FitAnswer(b) == SubSeq(b, 1, IF Len(b) < Largest THEN Len(b) ELSE Largest)

\* CallBuffer.respond: of bytes, what does not fit is left out.
EncodeAnswer(v) ==
  copy = "shm" /\ Encoded(IF v.t = "bytes" THEN Bytes(FitAnswer(v.b)) ELSE v)

CodecNext ==
  /\ Len(views) < MaxEncodes
  /\ \E v \in Values : EncodeCall(v) \/ EncodeAnswer(v)

(***************************************************************************)
(* Properties                                                              *)
(***************************************************************************)

\* Every value comes back from its bytes, wherever in the buffer it was
\* encoded and though the buffer was exchanged on the way; no later call
\* touches a view that was handed out; and an answer of bytes fits the shared
\* memory it is copied to.
ValuesArrive ==
  /\ \A i \in DOMAIN views : views[i].sound
  /\ \A i, j \in DOMAIN views :
       i < j /\ views[i].buf = views[j].buf => views[i].to <= views[j].from
  /\ \A i \in DOMAIN views :
       copy = "shm" /\ views[i].bytes => views[i].to - views[i].from <= BufferLength - 8
=============================================================================
