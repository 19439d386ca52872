-------------------------- MODULE ShmGoToJsProofs --------------------------
(***************************************************************************)
(* The ring from the guest to the page, for every size of block, header    *)
(* and margin and every set of lengths: its space is never given out       *)
(* twice, what is not read stays intact and is met by the loop, and the    *)
(* ring is a channel, which posts nothing else when its frames have one    *)
(* size; for sessions without empty messages in which the positions do not *)
(* wrap (ShmRingLemmas).                                                   *)
(***************************************************************************)
EXTENDS ShmGoToJs, ShmRingLemmas, SequenceTheorems

-----------------------------------------------------------------------------
(* The invariant                                                           *)

\* The frames stand in a row, each inside the block, up to the head.
InLine ==
  /\ \A i \in 1 .. Len(sent) :
       Pos(sent[i].at) + FrameSize(sent[i].len) <= BufferSize
  /\ \A i \in 1 .. Len(sent) : FrameEnd(i) <= goJsHead
  /\ \A i, j \in 1 .. Len(sent) : i < j => FrameEnd(i) <= sent[j].at
  /\ \A i \in 1 .. Len(sent) :
       IF i = Len(sent) THEN goJsHead = FrameEnd(i)
       ELSE Follows(FrameEnd(i), sent[i + 1].at)

\* What Write copies goes where the head will be moved from.
InPlace ==
  writer.pc \in {"copy", "publish"} =>
    Follows(goJsHead, writer.at) /\ writer.pos = Pos(writer.at)

Copied ==
  writer.pc = "publish" =>
    \A k \in 0 .. FrameSize(writer.len) - 1 :
      goJsBuffer[writer.pos + k] = ByteOf(Len(sent) + 1, writer.len, k)

\* What the loop has still to read lies between tail and head.
Ahead == \A i \in taken + 1 .. Len(sent) : goJsTail <= sent[i].at

InOrder == \A i \in 1 .. taken : received[i] = i

BelowWrap == goJsHead <= Reach(Len(sent))

RingInv ==
  /\ RingSpace /\ UnreadIntact
  /\ InLine /\ InPlace /\ Copied /\ Ahead /\ InOrder /\ BelowWrap

\* What every step uses: positions are numbers far from the wrap, so the page
\* reads them as they are.
LEMMA Positions ==
  ASSUME RingInv, NoWrap
  PROVE /\ goJsHead \in Nat /\ goJsTail \in Nat /\ taken \in Nat /\ Len(sent) \in 0 .. MaxMsgs
        /\ BufferSize \in Nat \ {0} /\ Header \in 1 .. BufferSize
        /\ JsHead = goJsHead /\ JsTail = goJsTail
        /\ DataAvailable = goJsHead - goJsTail
        /\ goJsHead < Uint
        /\ Len(sent) < MaxMsgs => goJsHead + BufferSize + BufferSize < Uint
<1>1. /\ goJsHead \in Nat /\ goJsTail \in Nat /\ taken \in Nat /\ Len(sent) \in 0 .. MaxMsgs
      /\ goJsTail <= goJsHead /\ goJsHead <= Reach(Len(sent)) /\ Reach(MaxMsgs) < Uint \div 2
  BY DEF RingInv, RingSpace, TypeOK, BelowWrap, taken, NoWrap
<1>2. BufferSize \in Nat \ {0} /\ Header \in 1 .. BufferSize /\ MaxMsgs \in Nat /\ Uint \in Nat \ {0}
  BY RingAssumption
<1>3. /\ Reach(Len(sent)) \in Nat /\ Reach(MaxMsgs) \in Nat
      /\ Reach(Len(sent)) <= Reach(MaxMsgs)
  BY <1>1, <1>2, ReachGrows
<1>4. goJsHead < Uint \div 2 /\ goJsTail < Uint \div 2 /\ Uint \div 2 <= Uint /\ Uint \div 2 \in Nat
  BY <1>1, <1>2, <1>3
<1>5. JsHead = goJsHead /\ JsTail = goJsTail
  BY <1>1, <1>4 DEF JsHead, JsTail, Int32
<1>6. DataAvailable = goJsHead - goJsTail
  <2>1. goJsHead - goJsTail \in Nat /\ goJsHead - goJsTail < Uint
    BY <1>1, <1>2, <1>4
  <2> QED BY <1>2, <1>5, <2>1, ModSmall DEF DataAvailable, Uint32
<1>7. ASSUME Len(sent) < MaxMsgs PROVE goJsHead + BufferSize + BufferSize < Uint
  <2>1. Reach(Len(sent)) + BufferSize + BufferSize <= Reach(MaxMsgs)
    <3>1. Len(sent) + 1 \in Nat /\ Len(sent) + 1 <= MaxMsgs
      BY <1>1, <1>2, <1>7
    <3>2. Reach(Len(sent) + 1) <= Reach(MaxMsgs)
      BY <1>2, <3>1, ReachGrows
    <3> QED BY <1>1, <3>2, ReachGrows
  <2> QED BY <1>1, <1>2, <1>3, <1>4, <2>1
<1> QED BY <1>1, <1>2, <1>4, <1>5, <1>6, <1>7

\* The calls of Write, of which TypeOK takes the running one.
Calls ==
  [pc : {"idle", "try", "full", "copy", "publish"}, len : 0 .. BufferSize,
   at : 0 .. Uint - 1, pos : Offsets, tail : 0 .. Uint - 1]

\* The empty call is one of them.
LEMMA IdleIsCall == Idle \in Calls
BY RingAssumption DEF Idle, Calls, Offsets

\* What is known of a frame that was sent.
LEMMA SentFrame ==
  ASSUME RingInv, NEW i \in 1 .. Len(sent)
  PROVE /\ sent[i].len \in Lens /\ sent[i].len \in 0 .. BufferSize /\ sent[i].at \in Nat
        /\ FrameSize(sent[i].len) \in Nat \ {0}
<1> DEFINE Sent == [len : Lens, at : 0 .. Uint - 1]
<1>1. sent \in Seq(Sent)
  BY DEF RingInv, RingSpace, TypeOK
<1>2. sent[i] \in Sent
  <2> HIDE DEF Sent
  <2> QED BY <1>1, ElementOfSeq
<1>3. sent[i].len \in Lens /\ sent[i].at \in 0 .. Uint - 1
  BY <1>2
<1>4. /\ Lens \subseteq 0 .. BufferSize /\ BufferSize \in Nat /\ Header \in 1 .. BufferSize
      /\ Uint \in Nat
  BY RingAssumption
<1> HIDE DEF Sent
<1>5. sent[i].len \in 0 .. BufferSize /\ sent[i].at \in Nat
  <2>1. \A n \in 0 .. Uint - 1 : n \in Nat
    BY <1>4
  <2> QED BY <1>3, <1>4, <2>1, Zenon
<1>6. \A n \in 0 .. BufferSize : FrameSize(n) \in Nat \ {0}
  BY <1>4 DEF FrameSize
<1> QED BY <1>3, <1>5, <1>6

\* The invariant holds at the start.
LEMMA RingInit == Init => RingInv
<1> SUFFICES ASSUME Init PROVE RingInv
  OBVIOUS
<1> USE DEF Init
<1>1. RingSpace
  <2>1. /\ 0 \in 0 .. Uint - 1 /\ 0 \in 0 .. BufferSize - 1 /\ 0 \in 0 .. BufferSize
        /\ 0 \in 0 .. MaxMsgs
    BY RingAssumption
  <2>2. goJsBuffer \in [Offsets -> Byte]
    BY <2>1 DEF Blank, Byte
  <2>3. writer \in Calls
    BY IdleIsCall
  <2>4. TypeOK
    BY <2>1, <2>2, <2>3 DEF TypeOK, Idle, Calls
  <2> QED BY <2>1, <2>4 DEF RingSpace, Idle
<1>2. UnreadIntact
  BY DEF UnreadIntact, NothingSkipped, taken
<1>3. InLine /\ InPlace /\ Copied /\ Ahead /\ InOrder
  BY DEF InLine, InPlace, Copied, Ahead, InOrder, taken, Idle
<1>4. BelowWrap
  BY ReachGrows DEF BelowWrap
<1> QED BY <1>1, <1>2, <1>3, <1>4 DEF RingInv

-----------------------------------------------------------------------------
(* The steps of Write                                                      *)

\* A call begins, or ends without a frame.
LEMMA CallKeeps ==
  ASSUME RingInv, (\E len \in Lens : WriteCall(len)) \/ WriteTimeout
  PROVE RingInv'
<1>1. /\ writer' \in Calls
      /\ writer'.pc \in {"idle", "try"}
      /\ writer'.pc # "idle" => writer'.len \in Lens /\ Len(sent) < MaxMsgs
      /\ UNCHANGED <<goJsHead, goJsTail, goJsBuffer, sent, received, stale>>
  <2>1. Idle \in Calls
    BY IdleIsCall
  <2>2. CASE WriteTimeout
    BY <2>1, <2>2 DEF WriteTimeout, Idle
  <2>3. ASSUME NEW len \in Lens, WriteCall(len) PROVE <1>1
    <3>1. len \in 0 .. BufferSize /\ writer' = [Idle EXCEPT !.pc = "try", !.len = len]
      BY <2>3, RingAssumption DEF WriteCall
    <3> QED BY <2>1, <2>3, <3>1 DEF Calls, WriteCall, Idle
  <2> QED BY <2>2, <2>3
<1>2. RingSpace'
  BY <1>1 DEF RingInv, RingSpace, TypeOK, Calls
<1>3. UnreadIntact'
  BY <1>1 DEF RingInv, UnreadIntact, NothingSkipped, taken
<1>4. InLine' /\ InPlace' /\ Copied' /\ Ahead' /\ InOrder' /\ BelowWrap'
  BY <1>1 DEF RingInv, InLine, FrameEnd, InPlace, Copied, Ahead, InOrder, BelowWrap, taken
<1> QED BY <1>2, <1>3, <1>4 DEF RingInv

\* Room found at a head and tail is room in the ring: the margin only takes
\* away from it.
LEMMA RoomIsRoom ==
  ASSUME NEW head \in Nat, NEW tail \in Nat, NEW len \in Lens,
         tail <= head, head - tail <= BufferSize, HasRoom(head, tail, len)
  PROVE /\ FrameSize(len) \in 1 .. BufferSize
        /\ head - tail + FrameSize(len) <= BufferSize
<1>1. /\ FrameSize(len) \in Nat \ {0} /\ BufferSize \in Nat /\ Uint \in Nat \ {0}
      /\ BufferSize < Uint \div 2 /\ SafetyMargin \in Nat
  BY RingAssumption DEF FrameSize
<1>2. (BufferSize - head) + tail \in Nat /\ (BufferSize - head) + tail < Uint
  BY <1>1
<1>3. Uint32((BufferSize - head) + tail) = (BufferSize - head) + tail
  BY <1>1, <1>2, ModSmall DEF Uint32
<1>4. FrameSize(len) <= AfterMargin((BufferSize - head) + tail)
  BY <1>3 DEF HasRoom, Available
<1>5. FrameSize(len) <= (BufferSize - head) + tail
  BY <1>1, <1>2, <1>4 DEF AfterMargin
<1> QED BY <1>1, <1>5

\* Room that is not before the end of the block is at its start, and there the
\* frame ends before the tail of the cycle before.
LEMMA RoomAtStart ==
  ASSUME NEW head \in Nat, NEW tail \in Nat, NEW len \in Lens,
         tail <= head, head - tail <= BufferSize,
         HasRoom(head, tail, len), ~FitsAt(head, len)
  PROVE NextCycle(head) + FrameSize(len) - tail <= BufferSize
<1>1. /\ FrameSize(len) \in 1 .. BufferSize /\ BufferSize \in Nat \ {0}
      /\ head - tail + FrameSize(len) <= BufferSize
      /\ Pos(tail) >= FrameSize(len) /\ Pos(head) + FrameSize(len) > BufferSize
      /\ Pos(head) \in 0 .. BufferSize - 1 /\ Pos(tail) \in 0 .. BufferSize - 1
      /\ NextCycle(head) = head + BufferSize - Pos(head)
  <2>1. /\ Pos(head) \in 0 .. BufferSize - 1 /\ Pos(tail) \in 0 .. BufferSize - 1
        /\ NextCycle(head) = head + BufferSize - Pos(head)
        /\ BufferSize \in Nat \ {0}
    BY Place, CycleEnds, RingAssumption
  <2>2. FrameSize(len) \in 1 .. BufferSize /\ head - tail + FrameSize(len) <= BufferSize
    BY RoomIsRoom
  <2>3. Pos(tail) >= FrameSize(len) /\ ~(Pos(head) + FrameSize(len) <= BufferSize)
    BY DEF HasRoom, FitsAt
  <2> QED BY <2>1, <2>2, <2>3
<1> QED BY <1>1, StartRoom

\* A pass of the loop decides where the frame goes, or that there is no room.
LEMMA AttemptKeeps ==
  ASSUME RingInv, NoWrap, WriteAttempt
  PROVE RingInv'
<1> DEFINE len == writer.len
           f == FrameSize(len)
<1>1. /\ UNCHANGED <<goJsHead, goJsTail, goJsBuffer, sent, received, stale>>
      /\ writer \in Calls /\ len \in Lens /\ Len(sent) < MaxMsgs
      /\ goJsTail <= goJsHead /\ goJsHead - goJsTail <= BufferSize
  BY DEF WriteAttempt, RingInv, RingSpace, TypeOK, Calls
<1>2. /\ goJsHead \in Nat /\ goJsTail \in Nat /\ BufferSize \in Nat \ {0}
      /\ goJsHead + BufferSize + BufferSize < Uint /\ Uint \in Nat \ {0}
  BY <1>1, Positions, RingAssumption
<1>3. /\ NextCycle(goJsHead) \in Nat /\ goJsHead < NextCycle(goJsHead)
      /\ NextCycle(goJsHead) <= goJsHead + BufferSize /\ Pos(NextCycle(goJsHead)) = 0
      /\ Pos(goJsHead) \in Offsets /\ 0 \in Offsets
  <2>1. Pos(goJsHead) \in 0 .. BufferSize - 1
    BY <1>2, Place
  <2>2. /\ NextCycle(goJsHead) \in Nat /\ Pos(NextCycle(goJsHead)) = 0
        /\ NextCycle(goJsHead) = goJsHead + BufferSize - Pos(goJsHead)
    BY <1>2, CycleEnds
  <2> QED BY <1>2, <2>1, <2>2 DEF Offsets
<1>4. Uint32(NextCycle(goJsHead)) = NextCycle(goJsHead)
  BY <1>2, <1>3, ModSmall DEF Uint32
<1>a. /\ goJsHead \in 0 .. Uint - 1 /\ goJsTail \in 0 .. Uint - 1
      /\ NextCycle(goJsHead) \in 0 .. Uint - 1
  BY <1>1, <1>2, <1>3
<1>5. /\ writer' \in Calls /\ writer'.len = len /\ writer'.pc \in {"copy", "full"}
      /\ writer'.pc = "copy" =>
           /\ Follows(goJsHead, writer'.at) /\ writer'.pos = Pos(writer'.at)
           /\ writer'.pos + f <= BufferSize
           /\ writer'.at + f - goJsTail <= BufferSize
  <2>1. CASE ~HasRoom(goJsHead, goJsTail, len)
    <3>1. writer' = [writer EXCEPT !.pc = "full", !.tail = goJsTail]
      BY <2>1 DEF WriteAttempt
    <3> QED BY <1>1, <1>a, <3>1 DEF Calls
  <2>2. CASE HasRoom(goJsHead, goJsTail, len) /\ FitsAt(goJsHead, len)
    <3>1. writer' = [writer EXCEPT !.pc = "copy", !.at = goJsHead,
                                   !.pos = Pos(goJsHead), !.tail = goJsTail]
      BY <2>2 DEF WriteAttempt
    <3>2. Pos(goJsHead) + f <= BufferSize
      BY <2>2 DEF FitsAt
    <3>3. f \in 1 .. BufferSize /\ goJsHead - goJsTail + f <= BufferSize
      BY <1>1, <1>2, <2>2, RoomIsRoom
    <3>4. writer'.at = goJsHead /\ writer'.pos = Pos(goJsHead) /\ writer' \in Calls /\ writer'.len = len
      BY <1>1, <1>3, <1>a, <3>1 DEF Calls
    <3>5. goJsHead + f - goJsTail <= BufferSize
      BY <1>2, <3>3
    <3> QED BY <3>1, <3>2, <3>4, <3>5 DEF Follows
  <2>3. CASE HasRoom(goJsHead, goJsTail, len) /\ ~FitsAt(goJsHead, len)
    <3>1. writer' = [writer EXCEPT !.pc = "copy", !.at = NextCycle(goJsHead),
                                   !.pos = 0, !.tail = goJsTail]
      BY <1>4, <2>3 DEF WriteAttempt
    <3>2. f \in 1 .. BufferSize
      BY <1>1, <1>2, <2>3, RoomIsRoom
    <3>3. NextCycle(goJsHead) + f - goJsTail <= BufferSize
      BY <1>1, <1>2, <2>3, RoomAtStart
    <3>4. writer'.at = NextCycle(goJsHead) /\ writer'.pos = 0 /\ writer' \in Calls /\ writer'.len = len
      BY <1>1, <1>3, <1>a, <3>1 DEF Calls
    <3>5. Follows(goJsHead, NextCycle(goJsHead))
      BY <1>3 DEF Follows
    <3>6. 0 + f <= BufferSize
      BY <3>2
    <3>7. writer'.pc = "copy"
      BY <1>1, <3>1 DEF Calls
    <3> QED BY <1>3, <3>3, <3>4, <3>5, <3>6, <3>7
  <2> QED BY <2>1, <2>2, <2>3
<1> HIDE DEF len, f
<1>6. RingSpace'
  BY <1>1, <1>5 DEF RingInv, RingSpace, TypeOK, Calls, len, f
<1>7. UnreadIntact'
  BY <1>1 DEF RingInv, UnreadIntact, NothingSkipped, taken
<1>8. InPlace' /\ Copied'
  BY <1>1, <1>5 DEF InPlace, Copied
<1>9. InLine' /\ Ahead' /\ InOrder' /\ BelowWrap'
  BY <1>1 DEF RingInv, InLine, FrameEnd, Ahead, InOrder, BelowWrap, taken
<1> QED BY <1>6, <1>7, <1>8, <1>9 DEF RingInv

\* The copy touches no byte of a frame that is not read yet.
LEMMA CopyKeeps ==
  ASSUME RingInv, NoWrap, WriteCopy
  PROVE RingInv'
<1> DEFINE len == writer.len
           f == FrameSize(len)
           id == Len(sent) + 1
<1>1. /\ UNCHANGED <<goJsHead, goJsTail, sent, received, stale>>
      /\ goJsBuffer' = PutFrame(goJsBuffer, writer.pos, id, len)
      /\ writer' = [writer EXCEPT !.pc = "publish"] /\ writer.pc = "copy"
      /\ writer \in Calls /\ len \in Lens /\ Len(sent) < MaxMsgs
      /\ writer.at + f - goJsTail <= BufferSize
      /\ writer.pos = Pos(writer.at) /\ Follows(goJsHead, writer.at)
      /\ writer.pos + f <= BufferSize
  BY DEF WriteCopy, RingInv, RingSpace, TypeOK, Calls, InPlace
<1>2. /\ writer' \in Calls /\ writer'.pc = "publish" /\ writer'.len = len
      /\ writer'.pos = writer.pos /\ writer'.at = writer.at
  BY <1>1 DEF Calls
<1>3. /\ goJsHead \in Nat /\ goJsTail \in Nat /\ taken \in Nat /\ Len(sent) \in Nat
      /\ BufferSize \in Nat \ {0} /\ Header \in 1 .. BufferSize
      /\ f \in Nat \ {0} /\ f <= BufferSize /\ len \in 0 .. BufferSize
      /\ writer.pos \in Nat /\ writer.at \in Nat /\ goJsHead <= writer.at
      /\ id \in 1 .. MaxMsgs
  <2>1. /\ goJsHead \in Nat /\ goJsTail \in Nat /\ taken \in Nat /\ Len(sent) \in 0 .. MaxMsgs
        /\ BufferSize \in Nat \ {0} /\ Header \in 1 .. BufferSize
    BY Positions
  <2>2. writer.at \in Nat /\ writer.pos \in Nat
    BY <1>1, <2>1, RingAssumption DEF Calls, Offsets
  <2>3. len \in 0 .. BufferSize /\ f \in Nat \ {0}
    <3>1. len \in 0 .. BufferSize
      BY <1>1, RingAssumption
    <3> QED BY <2>1, <3>1 DEF FrameSize
  <2>4. goJsHead <= writer.at
    BY <1>1, <2>1, FollowsWithin
  <2>5. f <= BufferSize
    BY <1>1, <2>1, <2>2, <2>3
  <2>6. id \in 1 .. MaxMsgs
    BY <1>1, <2>1, RingAssumption
  <2> QED BY <2>1, <2>2, <2>3, <2>4, <2>5, <2>6
<1> HIDE DEF len, f, id
<1>a. /\ goJsHead \in Nat /\ goJsTail \in Nat /\ BufferSize \in Nat /\ f \in Nat
      /\ writer.at \in Nat /\ goJsHead <= writer.at
      /\ writer.at + f <= goJsTail + BufferSize
  BY <1>1, <1>3, SMTT(30)
<1>b. writer.pos \in Nat /\ writer.pos + f <= BufferSize /\ f \in Nat /\ BufferSize \in Nat
  BY <1>1, <1>3
<1>4. goJsBuffer' \in [Offsets -> Byte]
  <2>1. goJsBuffer \in [Offsets -> Byte]
    BY DEF RingInv, RingSpace, TypeOK
  <2>2. ASSUME NEW q \in Offsets, q >= writer.pos, q < writer.pos + f
        PROVE ByteOf(id, len, q - writer.pos) \in Byte
    <3>1. q - writer.pos \in 0 .. BufferSize
      BY <1>3, <2>2 DEF Offsets
    <3> QED BY <1>3, <3>1 DEF Byte, ByteOf
  <2> QED BY <1>1, <2>1, <2>2 DEF PutFrame, f
<1>5. RingSpace'
  BY <1>1, <1>2, <1>4 DEF RingInv, RingSpace, TypeOK, Calls, len, f
<1>6. ASSUME NEW i \in taken + 1 .. Len(sent), NEW k \in 0 .. FrameSize(sent[i].len) - 1
      PROVE goJsBuffer'[Pos(sent[i].at) + k] = goJsBuffer[Pos(sent[i].at) + k]
  <2>1. i \in 1 .. Len(sent)
    BY <1>3
  <2>2. PICK at \in Nat, g \in Nat : at = sent[i].at /\ g = FrameSize(sent[i].len)
    BY <2>1, SentFrame
  <2>3. Pos(at) + g <= BufferSize /\ at + g <= goJsHead /\ goJsTail <= at
    BY <1>3, <2>1, <2>2 DEF RingInv, InLine, Ahead, FrameEnd
  <2>4. at + g <= writer.at
    <3>1. goJsHead \in Nat /\ writer.at \in Nat /\ goJsHead <= writer.at /\ at + g \in Nat
      BY <1>a
    <3>2. at + g <= goJsHead
      BY <2>3
    <3> QED BY <3>1, <3>2
  <2>5. k \in 0 .. g - 1
    BY <2>2
  <2>6. Pos(writer.at) + f <= BufferSize
    BY <1>1
  <2>7. /\ Pos(at) + k \in Offsets
        /\ ~(Pos(at) + k >= Pos(writer.at) /\ Pos(at) + k < Pos(writer.at) + f)
    BY <1>a, <2>2, <2>3, <2>4, <2>5, <2>6, Untouched
  <2> QED BY <1>1, <2>2, <2>7 DEF PutFrame, f
<1>7. UnreadIntact'
  BY <1>1, <1>6 DEF RingInv, UnreadIntact, NothingSkipped, taken
<1>8. Copied'
  <2> SUFFICES ASSUME NEW k \in 0 .. f - 1
               PROVE goJsBuffer'[writer.pos + k] = ByteOf(id, len, k)
    BY <1>1, <1>2 DEF Copied, f, id
  <2>1. writer.pos + k \in Offsets /\ writer.pos + k >= writer.pos /\ writer.pos + k < writer.pos + f
        /\ (writer.pos + k) - writer.pos = k
    BY <1>b DEF Offsets
  <2> QED BY <1>1, <2>1 DEF PutFrame, f
<1>9. InPlace' /\ InLine' /\ Ahead' /\ InOrder' /\ BelowWrap'
  BY <1>1, <1>2 DEF RingInv, InPlace, InLine, FrameEnd, Ahead, InOrder, BelowWrap, taken
<1> QED BY <1>5, <1>7, <1>8, <1>9 DEF RingInv

\* The frame becomes the last in the row.
LEMMA PublishKeeps ==
  ASSUME RingInv, NoWrap, WritePublish
  PROVE RingInv'
<1> DEFINE at == writer.at
           len == writer.len
           f == FrameSize(len)
<1>0. PICK n \in Nat : n = Len(sent)
  <2>1. Len(sent) \in Nat
    BY Positions
  <2> QED BY <2>1
<1>1. /\ UNCHANGED <<goJsTail, goJsBuffer, received, stale>>
      /\ goJsHead' = Uint32(at + f) /\ writer' = Idle
      /\ sent' = Append(sent, [len |-> len, at |-> at])
      /\ writer.pc = "publish" /\ writer \in Calls /\ len \in Lens /\ n < MaxMsgs
      /\ writer.pos = Pos(at) /\ Follows(goJsHead, at)
      /\ sent \in Seq([len : Lens, at : 0 .. Uint - 1])
  BY <1>0 DEF WritePublish, RingInv, RingSpace, TypeOK, Calls, InPlace
<1>2. /\ at + f - goJsTail <= BufferSize /\ Pos(at) + f <= BufferSize
      /\ goJsTail <= goJsHead
  BY <1>1 DEF RingInv, RingSpace, TypeOK
<1>3. /\ goJsHead \in Nat /\ goJsTail \in Nat /\ taken \in Nat /\ n \in Nat
      /\ BufferSize \in Nat \ {0} /\ goJsHead + BufferSize + BufferSize < Uint
      /\ n \in 0 .. MaxMsgs
  BY <1>0, <1>1, Positions
<1>4. at \in Nat /\ goJsHead <= at /\ at <= goJsHead + BufferSize /\ at \in 0 .. Uint - 1
  <2>1. at \in Nat /\ goJsHead <= at /\ at <= goJsHead + BufferSize
    BY <1>1, <1>3, FollowsWithin
  <2>2. at \in 0 .. Uint - 1
    BY <1>1 DEF Calls
  <2> QED BY <2>1, <2>2
<1>5. f \in Nat \ {0} /\ f <= BufferSize
  <2>1. len \in 0 .. BufferSize /\ Header \in 1 .. BufferSize
    BY <1>1, RingAssumption
  <2>2. f \in Nat \ {0}
    BY <1>3, <2>1 DEF FrameSize
  <2>3. Pos(at) \in Nat
    BY <1>4, Place
  <2> QED BY <1>2, <1>3, <2>2, <2>3
<1>6. goJsHead' = at + f /\ goJsHead' \in 0 .. Uint - 1
  <2>1. at + f \in Nat /\ at + f < Uint /\ Uint \in Nat
    BY <1>3, <1>4, <1>5, RingAssumption
  <2>2. Uint32(at + f) = at + f
    BY <2>1, ModSmall DEF Uint32
  <2>3. at + f \in 0 .. Uint - 1
    BY <2>1
  <2> QED BY <1>1, <2>2, <2>3
<1>7. /\ Len(sent') = n + 1
      /\ \A i \in 1 .. n : sent'[i] = sent[i]
      /\ sent'[n + 1].len = len /\ sent'[n + 1].at = at
      /\ sent' \in Seq([len : Lens, at : 0 .. Uint - 1])
  BY <1>0, <1>1, <1>4
<1>8. \A i \in 1 .. n : FrameEnd(i)' = FrameEnd(i)
  BY <1>7 DEF FrameEnd
<1>9. FrameEnd(n + 1)' = at + f
  BY <1>7 DEF FrameEnd
<1>10. \A i \in 1 .. n : FrameEnd(i) \in Nat /\ FrameEnd(i) <= goJsHead
  <2> SUFFICES ASSUME NEW i \in 1 .. n PROVE FrameEnd(i) \in Nat /\ FrameEnd(i) <= goJsHead
    OBVIOUS
  <2>1. sent[i].at \in Nat /\ FrameSize(sent[i].len) \in Nat
    BY <1>0, SentFrame
  <2> QED BY <1>0, <2>1 DEF FrameEnd, RingInv, InLine
<1> HIDE DEF at, len, f
<1>a. \A i \in 1 .. n + 1 : i \in 1 .. n \/ i = n + 1
  BY <1>3
<1>11. InLine'
  <2>1. \A i \in 1 .. n + 1 : Pos(sent'[i].at) + FrameSize(sent'[i].len) <= BufferSize
    <3>1. \A i \in 1 .. n : Pos(sent'[i].at) + FrameSize(sent'[i].len) <= BufferSize
      BY <1>0, <1>7 DEF RingInv, InLine
    <3> QED BY <1>2, <1>7, <1>a, <3>1 DEF f
  <2>2. \A i \in 1 .. n + 1 : FrameEnd(i)' <= goJsHead'
    <3>1. \A i \in 1 .. n : FrameEnd(i)' <= goJsHead'
      BY <1>3, <1>4, <1>5, <1>6, <1>8, <1>10
    <3> QED BY <1>3, <1>4, <1>5, <1>6, <1>9, <1>a, <3>1
  <2>3. \A i, j \in 1 .. n + 1 : i < j => FrameEnd(i)' <= sent'[j].at
    <3> SUFFICES ASSUME NEW i \in 1 .. n + 1, NEW j \in 1 .. n + 1, i < j
                 PROVE FrameEnd(i)' <= sent'[j].at
      OBVIOUS
    <3>1. i \in 1 .. n
      BY <1>3
    <3>2. CASE j \in 1 .. n
      BY <1>0, <1>7, <1>8, <3>1, <3>2 DEF RingInv, InLine
    <3>3. CASE j = n + 1
      <4>1. FrameEnd(i) \in Nat /\ FrameEnd(i) <= goJsHead /\ goJsHead <= at
        BY <1>4, <1>10, <3>1
      <4>2. FrameEnd(i) <= at
        BY <1>3, <1>4, <4>1
      <4>3. FrameEnd(i)' = FrameEnd(i) /\ sent'[j].at = at
        BY <1>7, <1>8, <3>1, <3>3
      <4> QED BY <4>2, <4>3
    <3> QED BY <1>a, <3>2, <3>3
  <2>4. \A i \in 1 .. n + 1 :
          IF i = n + 1 THEN goJsHead' = FrameEnd(i)'
          ELSE Follows(FrameEnd(i)', sent'[i + 1].at)
    <3> SUFFICES ASSUME NEW i \in 1 .. n + 1, i # n + 1
                 PROVE Follows(FrameEnd(i)', sent'[i + 1].at)
      BY <1>6, <1>9
    <3>1. i \in 1 .. n
      BY <1>a
    <3>2. CASE i = n
      <4>1. FrameEnd(i) = goJsHead
        BY <1>0, <3>1, <3>2 DEF RingInv, InLine
      <4> QED BY <1>1, <1>7, <1>8, <3>1, <3>2, <4>1 DEF at
    <3>3. CASE i # n
      <4>1. i + 1 \in 1 .. n
        BY <1>3, <3>1, <3>3
      <4>2. Follows(FrameEnd(i), sent[i + 1].at)
        BY <1>0, <3>1, <3>3 DEF RingInv, InLine
      <4> QED BY <1>7, <1>8, <3>1, <4>1, <4>2
    <3> QED BY <3>2, <3>3
  <2> QED BY <1>7, <2>1, <2>2, <2>3, <2>4 DEF InLine
<1>12. RingSpace'
  <2>1. goJsTail <= goJsHead' /\ goJsHead' - goJsTail <= BufferSize
    BY <1>2, <1>3, <1>4, <1>5, <1>6 DEF at, f
  <2>2. writer' \in Calls /\ writer'.pc = "idle"
    BY <1>1, IdleIsCall DEF Idle
  <2>3. Len(sent') <= MaxMsgs /\ Len(received) <= Len(sent')
    <3>1. Len(received) <= n /\ Len(received) \in Nat /\ MaxMsgs \in Nat /\ n < MaxMsgs
      BY <1>0, <1>1, <1>3, RingAssumption DEF RingInv, RingSpace, TypeOK, taken
    <3> QED BY <1>3, <1>7, <3>1
  <2> QED BY <1>1, <1>6, <1>7, <2>1, <2>2, <2>3 DEF RingInv, RingSpace, TypeOK, Calls
<1>13. UnreadIntact'
  <2>1. NothingSkipped'
    <3>1. CASE taken < n
      <4>1. taken + 1 \in 1 .. n
        BY <1>3, <3>1
      <4>2. taken < n + 1
        BY <1>3, <3>1
      <4> QED BY <1>0, <1>1, <1>7, <3>1, <4>1, <4>2 DEF RingInv, UnreadIntact, NothingSkipped, taken
    <3>2. CASE taken = n
      <4>1. goJsTail = goJsHead
        BY <1>0, <1>3, <3>2 DEF RingInv, UnreadIntact, NothingSkipped
      <4>2. taken < n + 1
        BY <1>3, <3>2
      <4> QED BY <1>1, <1>7, <3>2, <4>1, <4>2 DEF NothingSkipped, taken, Follows, at
    <3>3. taken <= n
      BY <1>0 DEF RingInv, RingSpace, TypeOK, taken
    <3> QED BY <1>3, <3>1, <3>2, <3>3
  <2>2. ASSUME NEW i \in taken + 1 .. n + 1, NEW k \in 0 .. FrameSize(sent'[i].len) - 1
        PROVE goJsBuffer[Pos(sent'[i].at) + k] = ByteOf(i, sent'[i].len, k)
    <3>1. CASE i = n + 1
      BY <1>0, <1>1, <1>7, <2>2, <3>1 DEF RingInv, Copied, f, len, at
    <3>2. CASE i # n + 1
      <4>1. i \in taken + 1 .. n /\ i \in 1 .. n
        BY <1>3, <3>2
      <4> QED BY <1>0, <1>7, <2>2, <4>1 DEF RingInv, UnreadIntact
    <3> QED BY <3>1, <3>2
  <2> QED BY <1>1, <1>7, <2>1, <2>2 DEF UnreadIntact, taken
<1>14. Ahead'
  <2> SUFFICES ASSUME NEW i \in taken + 1 .. n + 1 PROVE goJsTail <= sent'[i].at
    BY <1>1, <1>7 DEF Ahead, taken
  <2>1. CASE i = n + 1
    BY <1>2, <1>3, <1>4, <1>7, <2>1
  <2>2. CASE i # n + 1
    <3>1. i \in taken + 1 .. n /\ i \in 1 .. n
      BY <1>3, <2>2
    <3> QED BY <1>0, <1>7, <3>1 DEF RingInv, Ahead
  <2> QED BY <2>1, <2>2
<1>15. BelowWrap'
  <2>1. goJsHead <= Reach(n) /\ Reach(n) \in Nat
        /\ Reach(n + 1) = Reach(n) + BufferSize + BufferSize
    BY <1>0, <1>3, ReachGrows DEF RingInv, BelowWrap
  <2>2. goJsHead' <= Reach(n + 1)
    BY <1>3, <1>4, <1>5, <1>6, <2>1
  <2> QED BY <1>7, <2>2 DEF BelowWrap
<1>16. InPlace' /\ Copied' /\ InOrder'
  BY <1>1 DEF RingInv, InPlace, Copied, InOrder, Idle, taken
<1> QED BY <1>11, <1>12, <1>13, <1>14, <1>15, <1>16 DEF RingInv

-----------------------------------------------------------------------------
(* The loop                                                                *)

\* What the header at the tail decodes to when a frame begins there.
LEMMA HeaderDecodes ==
  ASSUME RingInv, NEW i \in taken + 1 .. Len(sent), i \in 1 .. Len(sent), i \in 1 .. MaxMsgs,
         goJsTail = sent[i].at
  PROVE /\ LengthsAt(goJsBuffer, Pos(goJsTail)) = {sent[i].len}
        /\ MessageAt(goJsBuffer, Pos(goJsTail), sent[i].len) = i
<1> DEFINE len == sent[i].len
           p == Pos(goJsTail)
<1>1. /\ len \in 0 .. BufferSize /\ FrameSize(len) \in Nat \ {0} /\ sent[i].at \in Nat
      /\ Header \in 1 .. BufferSize /\ BufferSize \in Nat
  BY SentFrame, RingAssumption
<1>2. \A k \in 0 .. FrameSize(len) - 1 : goJsBuffer[p + k] = ByteOf(i, len, k)
  BY DEF RingInv, UnreadIntact
<1>3. p \in Nat /\ p >= 0
  <2>1. goJsTail \in Nat
    BY <1>1
  <2>2. p \in 0 .. BufferSize - 1
    BY <2>1, Place
  <2> QED BY <2>2
<1>4. goJsBuffer[p] = ByteOf(i, len, 0) /\ goJsBuffer[p].msg = i /\ goJsBuffer[p].len = len
  <2>1. 0 \in 0 .. FrameSize(len) - 1 /\ p + 0 = p
    BY <1>1, <1>3
  <2>2. goJsBuffer[p] = ByteOf(i, len, 0)
    BY <1>2, <2>1
  <2> QED BY <2>2 DEF ByteOf
<1> HIDE DEF len, p
<1>5. i # 0
  OBVIOUS
<1>6. FrameBytes(goJsBuffer, p, FrameSize(len))
  BY <1>2, <1>4, <1>5 DEF FrameBytes
<1>7. FrameBytes(goJsBuffer, p, Header)
  <2>1. \A k \in 0 .. Header - 1 : k \in 0 .. FrameSize(len) - 1
    BY <1>1 DEF FrameSize
  <2> QED BY <1>2, <1>4, <1>5, <2>1 DEF FrameBytes
<1> QED BY <1>3, <1>4, <1>6, <1>7 DEF LengthsAt, MessageAt, len, p

\* An iteration posts the next message, and its number, or moves through a gap.
LEMMA PollCases ==
  ASSUME RingInv, NoWrap, NoEmptyMessage, JsPoll
  PROVE /\ taken < Len(sent)
        /\ UNCHANGED <<goJsHead, goJsBuffer, writer, sent>>
        /\ \/ /\ goJsTail = sent[taken + 1].at /\ goJsTail' = FrameEnd(taken + 1)
              /\ received' = Append(received, taken + 1) /\ UNCHANGED stale
           \/ /\ goJsTail < sent[taken + 1].at
              /\ goJsTail' \in Nat /\ goJsTail <= goJsTail'
              /\ Follows(goJsTail', sent[taken + 1].at)
              /\ UNCHANGED received /\ stale' \in BOOLEAN
<1>1. /\ goJsHead \in Nat /\ goJsTail \in Nat /\ taken \in Nat /\ Len(sent) \in 0 .. MaxMsgs
      /\ BufferSize \in Nat \ {0} /\ Header \in 1 .. BufferSize
      /\ JsTail = goJsTail /\ DataAvailable = goJsHead - goJsTail
      /\ goJsHead < Uint /\ goJsTail <= goJsHead /\ MaxMsgs \in Nat /\ Uint \in Nat
      /\ taken <= Len(sent)
  BY Positions, RingAssumption DEF RingInv, RingSpace, TypeOK, taken
<1>2. UNCHANGED <<goJsHead, goJsBuffer, writer, sent>> /\ goJsTail # goJsHead
  BY <1>1 DEF JsPoll
<1>3. taken < Len(sent)
  BY <1>1, <1>2 DEF RingInv, UnreadIntact, NothingSkipped
<1>4. PICK i \in 1 .. Len(sent) : i = taken + 1
  BY <1>1, <1>3
<1>5. i \in taken + 1 .. Len(sent) /\ i \in 1 .. MaxMsgs
  BY <1>1, <1>4
<1>6. /\ sent[i].len \in Lens /\ sent[i].len \in 0 .. BufferSize /\ sent[i].at \in Nat
      /\ FrameSize(sent[i].len) \in Nat \ {0}
  BY <1>4, SentFrame
<1>7. /\ Pos(sent[i].at) + FrameSize(sent[i].len) <= BufferSize
      /\ FrameEnd(i) = sent[i].at + FrameSize(sent[i].len)
      /\ FrameEnd(i) <= goJsHead
  BY <1>4 DEF RingInv, InLine, FrameEnd
<1>8. Follows(goJsTail, sent[i].at)
  BY <1>3, <1>4 DEF RingInv, UnreadIntact, NothingSkipped, Follows
<1>9. JsPos(JsTail) = Pos(goJsTail)
  BY <1>1 DEF JsPos, Pos
<1>10. Pos(goJsTail) \in 0 .. BufferSize - 1
  BY <1>1, Place
<1>11. CASE goJsTail = sent[i].at
  <2> DEFINE len == sent[i].len
  <2>1. LengthsAt(goJsBuffer, Pos(goJsTail)) = {len} /\ MessageAt(goJsBuffer, Pos(goJsTail), len) = i
    BY <1>4, <1>5, <1>11, HeaderDecodes
  <2>2. /\ len > 0 /\ len < BufferSize /\ Pos(goJsTail) + FrameSize(len) <= BufferSize
        /\ ~(Pos(goJsTail) + Header > BufferSize)
    <3>1. len # 0
      BY <1>6 DEF NoEmptyMessage
    <3>2. FrameSize(len) = Header + len
      BY DEF FrameSize
    <3>3. Pos(goJsTail) + FrameSize(len) <= BufferSize
      BY <1>7, <1>11
    <3> HIDE DEF len
    <3>4. len \in Nat /\ len > 0 /\ Header \in Nat /\ Header > 0
      BY <1>1, <1>6, <3>1 DEF len
    <3> QED BY <1>1, <1>10, <3>2, <3>3, <3>4
  <2>3. Deliver(len)
    BY <1>9, <2>1, <2>2 DEF JsPoll
  <2>4. goJsTail + FrameSize(len) \in Nat /\ goJsTail + FrameSize(len) < Uint
    <3>1. goJsTail + FrameSize(len) = FrameEnd(i) /\ FrameEnd(i) <= goJsHead
      BY <1>7, <1>11
    <3>2. goJsTail + FrameSize(len) \in Nat
      BY <1>1, <1>6
    <3> HIDE DEF len
    <3> QED BY <1>1, <3>1, <3>2
  <2>5. goJsTail' = FrameEnd(i)
    BY <1>1, <1>7, <1>11, <2>3, <2>4, ModSmall DEF Deliver, Uint32
  <2>6. received' = Append(received, i) /\ UNCHANGED stale
    BY <1>3, <1>4, <1>9, <1>11, <2>1, <2>3 DEF Deliver, Post, AtNextFrame
  <2> QED BY <1>2, <1>3, <1>4, <1>11, <2>5, <2>6
<1>12. CASE goJsTail # sent[i].at
  <2>1. goJsTail < sent[i].at /\ NextCycle(goJsTail) = sent[i].at
    BY <1>8, <1>12 DEF Follows
  <2>2. sent[i].at < Uint
    BY <1>1, <1>6, <1>7
  <2>3. ~AtNextFrame
    BY <1>4, <1>12 DEF AtNextFrame
  <2>4. CASE SkipToNextCycle
    <3>1. goJsTail' = sent[i].at /\ UNCHANGED <<received, stale>>
      BY <1>1, <1>6, <2>1, <2>2, <2>4, ModSmall DEF SkipToNextCycle, Uint32
    <3>2. goJsTail <= goJsTail' /\ Follows(goJsTail', sent[i].at)
      BY <1>1, <1>6, <2>1, <3>1 DEF Follows
    <3>3. stale' \in BOOLEAN
      BY <3>1 DEF RingInv, RingSpace, TypeOK
    <3> QED BY <1>2, <1>3, <1>4, <1>6, <2>1, <3>1, <3>2, <3>3
  <2>5. ASSUME NEW len \in LengthsAt(goJsBuffer, Pos(goJsTail)), len > 0, len < BufferSize,
               Pos(goJsTail) + FrameSize(len) <= BufferSize, Deliver(len)
        PROVE /\ goJsTail' \in Nat /\ goJsTail <= goJsTail' /\ Follows(goJsTail', sent[i].at)
              /\ UNCHANGED received /\ stale' = TRUE
    <3>1. FrameSize(len) \in Nat
      <4>1. len \in 0 .. BufferSize
        BY <1>10, <1>1, <2>5, RingAssumption DEF LengthsAt, RingInv, RingSpace, TypeOK, Byte, Offsets
      <4> QED BY <1>1, <4>1 DEF FrameSize
    <3>2. /\ goJsTail + FrameSize(len) <= sent[i].at
          /\ Follows(goJsTail + FrameSize(len), sent[i].at)
      BY <1>1, <2>1, <2>5, <3>1, GapStep
    <3>3. goJsTail' = goJsTail + FrameSize(len)
      <4>1. goJsTail + FrameSize(len) \in Nat /\ goJsTail + FrameSize(len) < Uint
        BY <1>1, <1>6, <2>2, <3>1, <3>2
      <4> QED BY <1>1, <2>5, <4>1, ModSmall DEF Deliver, Uint32
    <3>4. UNCHANGED received /\ stale' = TRUE
      BY <2>3, <2>5 DEF Deliver, Post
    <3> QED BY <1>1, <3>1, <3>2, <3>3, <3>4
  <2> QED BY <1>2, <1>3, <1>4, <1>9, <2>1, <2>4, <2>5 DEF JsPoll
<1> QED BY <1>11, <1>12

\* The loop moves to the end of a frame or of a gap, never past the next frame.
LEMMA PollKeeps ==
  ASSUME RingInv, NoWrap, NoEmptyMessage, JsPoll
  PROVE RingInv'
<1>1. /\ taken < Len(sent)
      /\ UNCHANGED <<goJsHead, goJsBuffer, writer, sent>>
  BY PollCases
<1>2. /\ goJsHead \in Nat /\ goJsTail \in Nat /\ taken \in Nat /\ Len(sent) \in 0 .. MaxMsgs
      /\ goJsHead < Uint /\ BufferSize \in Nat /\ MaxMsgs \in Nat
      /\ received \in Seq(0 .. MaxMsgs) /\ Uint \in Nat
  BY Positions, RingAssumption DEF RingInv, RingSpace, TypeOK
<1>3. PICK n \in Nat : n = taken /\ n + 1 \in 1 .. Len(sent) /\ n + 1 \in 0 .. MaxMsgs
  BY <1>1, <1>2
<1>4. /\ sent[n + 1].at \in Nat /\ FrameSize(sent[n + 1].len) \in Nat \ {0}
      /\ FrameEnd(n + 1) = sent[n + 1].at + FrameSize(sent[n + 1].len)
      /\ FrameEnd(n + 1) <= goJsHead
  BY <1>3, SentFrame DEF RingInv, InLine, FrameEnd
<1>5. /\ goJsTail' \in Nat /\ goJsTail <= goJsTail' /\ goJsTail' <= goJsHead
      /\ received' \in Seq(0 .. MaxMsgs) /\ Len(received') <= Len(sent) /\ stale' \in BOOLEAN
      /\ NothingSkipped' /\ Ahead' /\ InOrder'
      /\ taken' \in {n, n + 1}
  <2>1. CASE /\ goJsTail = sent[n + 1].at /\ goJsTail' = FrameEnd(n + 1)
             /\ received' = Append(received, n + 1) /\ UNCHANGED stale
    <3>1. goJsTail' \in Nat /\ goJsTail <= goJsTail' /\ goJsTail' <= goJsHead
      BY <1>2, <1>4, <2>1
    <3>2. /\ received' \in Seq(0 .. MaxMsgs) /\ taken' = n + 1
          /\ \A i \in 1 .. n : received'[i] = received[i]
          /\ received'[n + 1] = n + 1
      BY <1>2, <1>3, <2>1 DEF taken
    <3>3. Len(received') <= Len(sent) /\ stale' \in BOOLEAN
      BY <1>3, <2>1, <3>2 DEF taken, RingInv, RingSpace, TypeOK
    <3>4. InOrder'
      <4>1. \A i \in 1 .. n + 1 : i \in 1 .. n \/ i = n + 1
        BY <1>3
      <4> QED BY <1>3, <3>2, <4>1 DEF InOrder, RingInv
    <3>5. NothingSkipped'
      <4>1. CASE n + 1 = Len(sent)
        <5>1. goJsHead = FrameEnd(n + 1)
          BY <1>3, <4>1 DEF RingInv, InLine
        <5> QED BY <1>1, <1>3, <2>1, <3>2, <4>1, <5>1 DEF NothingSkipped
      <4>2. CASE n + 1 # Len(sent)
        <5>1. n + 1 < Len(sent)
          BY <1>2, <1>3, <4>2
        <5>2. Follows(FrameEnd(n + 1), sent[(n + 1) + 1].at)
          BY <1>3, <4>2 DEF RingInv, InLine
        <5> QED BY <1>1, <2>1, <3>2, <5>1, <5>2 DEF NothingSkipped, Follows
      <4> QED BY <4>1, <4>2
    <3>6. Ahead'
      <4> SUFFICES ASSUME NEW i \in n + 2 .. Len(sent) PROVE FrameEnd(n + 1) <= sent[i].at
        BY <1>1, <2>1, <3>2 DEF Ahead
      <4>1. i \in 1 .. Len(sent) /\ n + 1 < i
        BY <1>2, <1>3
      <4> QED BY <1>3, <4>1 DEF RingInv, InLine
    <3> QED BY <3>1, <3>2, <3>3, <3>4, <3>5, <3>6
  <2>2. CASE /\ goJsTail < sent[n + 1].at /\ goJsTail' \in Nat /\ goJsTail <= goJsTail'
             /\ Follows(goJsTail', sent[n + 1].at)
             /\ UNCHANGED received /\ stale' \in BOOLEAN
    <3>1. goJsTail' \in Nat /\ goJsTail <= goJsTail' /\ goJsTail' <= sent[n + 1].at
      BY <1>4, <2>2 DEF Follows
    <3>2. goJsTail' <= goJsHead
      BY <1>2, <1>4, <3>1
    <3>3. NothingSkipped'
      BY <1>1, <1>3, <2>2 DEF NothingSkipped, Follows, taken
    <3>4. Ahead'
      <4> SUFFICES ASSUME NEW i \in n + 1 .. Len(sent) PROVE goJsTail' <= sent[i].at
        BY <1>1, <1>3, <2>2 DEF Ahead, taken
      <4>1. CASE i = n + 1
        BY <3>1, <4>1
      <4>2. CASE i # n + 1
        <5>1. i \in 1 .. Len(sent) /\ n + 1 < i
          BY <1>2, <1>3, <4>2
        <5>2. FrameEnd(n + 1) <= sent[i].at /\ sent[i].at \in Nat
          BY <1>3, <5>1, SentFrame DEF RingInv, InLine
        <5> QED BY <1>4, <3>1, <5>2
      <4> QED BY <4>1, <4>2
    <3>5. Len(received') <= Len(sent) /\ InOrder' /\ taken' = n
      BY <1>3, <2>2 DEF RingInv, RingSpace, TypeOK, InOrder, taken
    <3> QED BY <1>2, <2>2, <3>1, <3>2, <3>3, <3>4, <3>5
  <2> QED BY <1>3, <2>1, <2>2, PollCases
<1>6. RingSpace'
  <2>1. goJsTail' \in 0 .. Uint - 1
    BY <1>2, <1>5
  <2>2. PICK t \in Nat : t = goJsTail' /\ goJsTail <= t
    BY <1>5
  <2>3. goJsHead - t <= BufferSize
    <3>1. goJsHead - goJsTail <= BufferSize
      BY DEF RingInv, RingSpace
    <3>2. goJsHead \in Nat /\ goJsTail \in Nat /\ BufferSize \in Nat
      BY <1>2
    <3>3. goJsTail <= t
      BY <2>2
    <3> QED BY <3>1, <3>2, <3>3
  <2>4. writer.pc \in {"copy", "publish"} =>
          writer.at + FrameSize(writer.len) - t <= BufferSize
    <3> SUFFICES ASSUME writer.pc \in {"copy", "publish"}
                 PROVE writer.at + FrameSize(writer.len) - t <= BufferSize
      OBVIOUS
    <3>1. writer \in Calls /\ writer.at + FrameSize(writer.len) - goJsTail <= BufferSize
      BY DEF RingInv, RingSpace, TypeOK, Calls
    <3>2. writer.at \in Nat /\ FrameSize(writer.len) \in Nat
      <4>1. writer.at \in 0 .. Uint - 1 /\ writer.len \in 0 .. BufferSize
        BY <3>1 DEF Calls
      <4> QED BY <1>2, <4>1, RingAssumption DEF FrameSize
    <3>3. goJsTail <= t /\ goJsTail \in Nat /\ BufferSize \in Nat
      BY <1>2, <2>2
    <3> QED BY <3>1, <3>2, <3>3
  <2> QED BY <1>1, <1>5, <2>1, <2>2, <2>3, <2>4 DEF RingInv, RingSpace, TypeOK
<1>7. UnreadIntact'
  <2>1. \A i \in taken' + 1 .. Len(sent) : i \in taken + 1 .. Len(sent)
    <3>1. PICK m \in {n, n + 1} : m = taken'
      BY <1>5
    <3>2. PICK l \in Nat : l = Len(sent)
      BY <1>2
    <3>3. \A i \in m + 1 .. l : i \in n + 1 .. l
      OBVIOUS
    <3> QED BY <1>3, <3>1, <3>2, <3>3, Zenon
  <2> QED BY <1>1, <1>5, <2>1 DEF RingInv, UnreadIntact, taken
<1>8. InLine' /\ InPlace' /\ Copied' /\ BelowWrap'
  BY <1>1 DEF RingInv, InLine, FrameEnd, InPlace, Copied, BelowWrap
<1> QED BY <1>5, <1>6, <1>7, <1>8 DEF RingInv

-----------------------------------------------------------------------------
(* The theorems                                                            *)

\* Every step keeps the invariant.
LEMMA RingStep ==
  ASSUME NoWrap, NoEmptyMessage, RingInv, [Next]_vars
  PROVE RingInv'
<1>1. CASE \E len \in Lens : WriteCall(len)
  BY <1>1, CallKeeps
<1>2. CASE WriteTimeout
  BY <1>2, CallKeeps
<1>3. CASE WriteAttempt
  BY <1>3, AttemptKeeps
<1>4. CASE WriteCopy
  BY <1>4, CopyKeeps
<1>5. CASE WritePublish
  BY <1>5, PublishKeeps
<1>6. CASE JsPoll
  BY <1>6, PollKeeps
<1>7. CASE UNCHANGED vars
  BY <1>7 DEF vars, RingInv, RingSpace, TypeOK, UnreadIntact, NothingSkipped, InLine, FrameEnd,
              InPlace, Copied, Ahead, InOrder, BelowWrap, taken
<1> QED BY <1>1, <1>2, <1>3, <1>4, <1>5, <1>6, <1>7 DEF Next, Write

\* Together: the invariant always holds.
LEMMA RingAlways ==
  ASSUME NoWrap, NoEmptyMessage
  PROVE Spec => []RingInv
BY RingInit, RingStep, PTL DEF Spec

\* The bytes in use never exceed the block, though Write looks at a tail that
\* may be old and at two conditions that are not this one.
THEOREM SpaceCorrect ==
  ASSUME NoWrap, NoEmptyMessage
  PROVE Spec => []RingSpace
<1>1. RingInv => RingSpace
  BY DEF RingInv
<1> QED BY <1>1, RingAlways, PTL

\* A published frame that is not read yet stands untouched in memory, and the
\* loop comes upon it, whatever the bytes of a gap spell.
THEOREM UnreadCorrect ==
  ASSUME NoWrap, NoEmptyMessage
  PROVE Spec => []UnreadIntact
<1>1. RingInv => UnreadIntact
  BY DEF RingInv
<1> QED BY <1>1, RingAlways, PTL

\* The ring implements the channel: a step of Write or of the loop accepts the
\* next message, delivers the next one, or changes neither.
LEMMA StepIsChannelStep ==
  ASSUME NoWrap, NoEmptyMessage, RingInv, [Next]_vars
  PROVE [Channel!Next]_(Channel!vars)
<1> USE DEF Channel!Next, Channel!Accept, Channel!Deliver, Channel!vars
<1>1. CASE WritePublish
  <2>1. sent' = Append(sent, [len |-> writer.len, at |-> writer.at]) /\ UNCHANGED received
    BY <1>1 DEF WritePublish
  <2>2. Len(sent') = Len(sent) + 1
    BY <2>1 DEF RingInv, RingSpace, TypeOK
  <2> QED BY <2>1, <2>2
<1>2. CASE JsPoll
  BY <1>2, PollCases DEF taken
<1>3. CASE ~WritePublish /\ ~JsPoll
  BY <1>3 DEF Next, Write, WriteCall, WriteAttempt, WriteCopy, WriteTimeout, vars
<1> QED BY <1>1, <1>2, <1>3

\* The safety part of RingIsChannel, for every instance.
THEOREM RingImplementsChannel ==
  ASSUME NoWrap, NoEmptyMessage
  PROVE Spec => Channel!Init /\ [][Channel!Next]_(Channel!vars)
<1>1. Init => Channel!Init
  BY DEF Init, Channel!Init
<1> QED BY <1>1, RingAlways, StepIsChannelStep, PTL DEF Spec

-----------------------------------------------------------------------------
(* Frames of one size                                                      *)

OneSize == \A i, j \in 1 .. Len(sent) : sent[i].len = sent[j].len

\* Only frames are ever written, the one being published included.
Written ==
  \A q \in Offsets :
    \/ goJsBuffer[q] = Blank
    \/ \E i \in 1 .. Len(sent) : Covers(Pos(sent[i].at), FrameSize(sent[i].len), q)
    \/ writer.pc = "publish" /\ Covers(writer.pos, FrameSize(writer.len), q)

\* A gap is left only before a frame that does not fit into it.
OnlyWhenFull ==
  /\ writer.pc \in {"copy", "publish"} =>
       writer.at = goJsHead \/ Pos(goJsHead) + FrameSize(writer.len) > BufferSize
  /\ \A i \in 1 .. Len(sent) : i # Len(sent) =>
       sent[i + 1].at = FrameEnd(i) \/ Pos(FrameEnd(i)) + FrameSize(sent[i + 1].len) > BufferSize

\* Frames of one size stand at multiples of it.
Slots == \A i \in 1 .. Len(sent) : Multiple(Pos(sent[i].at), FrameSize(sent[i].len))

\* The loop stands at the next frame or where it left the one before.
AtEnds ==
  taken < Len(sent) =>
    goJsTail = sent[taken + 1].at \/ (taken > 0 /\ goJsTail = FrameEnd(taken))

SizeInv ==
  /\ RingInv /\ Written /\ OnlyWhenFull
  /\ OneSize => ~stale /\ Slots /\ AtEnds

\* The header the loop finds in a gap was never written.
LEMMA GapIsBlank ==
  ASSUME SizeInv, NoWrap, OneSize, taken < Len(sent), goJsTail # sent[taken + 1].at,
         Pos(goJsTail) + Header <= BufferSize
  PROVE LengthsAt(goJsBuffer, Pos(goJsTail)) = {0}
<1>1. /\ goJsHead \in Nat /\ goJsTail \in Nat /\ taken \in Nat /\ Len(sent) \in Nat
      /\ BufferSize \in Nat \ {0} /\ Header \in 1 .. BufferSize
  BY Positions DEF SizeInv
<1>2. PICK i \in 1 .. Len(sent) : i = taken /\ i # Len(sent) /\ i + 1 \in 1 .. Len(sent)
  BY <1>1 DEF SizeInv, AtEnds
<1> DEFINE f == FrameSize(sent[i].len)
           p == Pos(goJsTail)
<1>3. f = FrameSize(sent[i + 1].len) /\ \A j \in 1 .. Len(sent) : FrameSize(sent[j].len) = f
  BY <1>2 DEF OneSize
<1>4. /\ f \in Nat \ {0} /\ sent[i].at \in Nat /\ sent[i + 1].at \in Nat
      /\ \A j \in 1 .. Len(sent) : sent[j].at \in Nat
  BY <1>2, SentFrame DEF SizeInv
<1>5. goJsTail = sent[i].at + f /\ goJsTail < sent[i + 1].at /\ NextCycle(goJsTail) = sent[i + 1].at
  BY <1>1, <1>2 DEF SizeInv, AtEnds, FrameEnd, RingInv, UnreadIntact, NothingSkipped
<1>6. \A j \in 1 .. Len(sent) : Pos(sent[j].at) + f <= BufferSize /\ Multiple(Pos(sent[j].at), f)
  BY <1>3 DEF SizeInv, RingInv, InLine, Slots
<1>7. p + f > BufferSize
  BY <1>2, <1>3, <1>5 DEF SizeInv, OnlyWhenFull, FrameEnd
<1> HIDE DEF f
<1>8. Multiple(p, f)
  BY <1>2, <1>4, <1>5, <1>6, SlotAfter
<1>9. p \in Nat /\ p < BufferSize
  <2>1. p \in 0 .. BufferSize - 1
    BY <1>1, Place
  <2> HIDE DEF p
  <2> QED BY <1>1, <2>1
<1>a. ASSUME NEW x \in Nat PROVE Pos(x) \in Nat
  <2>1. Pos(x) \in 0 .. BufferSize - 1
    BY Place
  <2> QED BY <1>1, <2>1
<1> HIDE DEF p
<1>10. \A j \in 1 .. Len(sent) : Pos(sent[j].at) + f <= p
  <2> SUFFICES ASSUME NEW j \in 1 .. Len(sent) PROVE Pos(sent[j].at) + f <= p
    OBVIOUS
  <2>1. Pos(sent[j].at) \in Nat /\ Pos(sent[j].at) + f <= BufferSize /\ Multiple(Pos(sent[j].at), f)
    BY <1>4, <1>6, <1>a
  <2>2. Pos(sent[j].at) < p
    BY <1>1, <1>4, <1>7, <1>9, <2>1
  <2> QED BY <1>4, <1>8, <1>9, <2>1, <2>2, LastSlot
<1>11. ASSUME NEW k \in 0 .. Header - 1 PROVE goJsBuffer[p + k] = Blank
  <2>1. p + k \in Offsets /\ k \in Nat
    BY <1>1, <1>9 DEF Offsets, p
  <2>2. ASSUME NEW j \in 1 .. Len(sent), Covers(Pos(sent[j].at), FrameSize(sent[j].len), p + k)
        PROVE FALSE
    <3>1. Pos(sent[j].at) \in Nat /\ Pos(sent[j].at) + f <= p /\ p + k < Pos(sent[j].at) + f
      BY <1>3, <1>4, <1>a, <1>10, <2>2 DEF Covers
    <3> QED BY <1>4, <1>9, <2>1, <3>1
  <2>3. ASSUME writer.pc = "publish", Covers(writer.pos, FrameSize(writer.len), p + k)
        PROVE FALSE
    <3>1. /\ writer.pos = Pos(writer.at) /\ Follows(goJsHead, writer.at)
          /\ writer.pos + FrameSize(writer.len) <= BufferSize
          /\ writer.at + FrameSize(writer.len) - goJsTail <= BufferSize
          /\ writer.len \in 0 .. BufferSize
      BY <2>3 DEF SizeInv, RingInv, RingSpace, TypeOK, InPlace
    <3>2. writer.at \in Nat /\ goJsHead <= writer.at /\ FrameSize(writer.len) \in Nat
      <4>1. writer.at \in Nat /\ goJsHead <= writer.at
        BY <1>1, <3>1, FollowsWithin
      <4>2. writer.len \in Nat /\ Header \in Nat
        BY <1>1, <3>1
      <4> QED BY <4>1, <4>2 DEF FrameSize
    <3>3. goJsTail + Header <= goJsHead
      <4>1. goJsTail + Header <= sent[i + 1].at
        BY <1>1, <1>5, GapStep
      <4>2. FrameEnd(i + 1) <= goJsHead /\ FrameEnd(i + 1) = sent[i + 1].at + f
        BY <1>2, <1>3 DEF SizeInv, RingInv, InLine, FrameEnd
      <4> QED BY <1>1, <1>4, <4>1, <4>2
    <3>4. goJsTail + Header <= writer.at /\ writer.at + FrameSize(writer.len) <= goJsTail + BufferSize
      BY <1>1, <3>1, <3>2, <3>3
    <3>5. ~(p + k >= Pos(writer.at) /\ p + k < Pos(writer.at) + FrameSize(writer.len))
      <4>1. k \in 0 .. Header - 1 /\ Header \in Nat /\ goJsTail <= goJsTail
        BY <1>1
      <4> QED BY <1>1, <3>1, <3>2, <3>4, <4>1, Untouched DEF p
    <3>6. Pos(writer.at) \in Nat /\ p + k \in Nat
      <4>1. Pos(writer.at) \in Nat
        BY <1>a, <3>2
      <4> QED BY <1>9, <2>1, <4>1
    <3> QED BY <2>3, <3>1, <3>5, <3>6 DEF Covers
  <2> QED BY <2>1, <2>2, <2>3 DEF SizeInv, Written
<1>12. goJsBuffer[p] = Blank
  BY <1>1, <1>9, <1>11
<1>13. ~FrameBytes(goJsBuffer, p, Header) /\ ~(p < 0)
  BY <1>9, <1>12 DEF FrameBytes, Blank
<1> QED BY <1>11, <1>13 DEF LengthsAt, p

\* Publishing puts the next frame into the next slot.
LEMMA PublishKeepsSize ==
  ASSUME SizeInv, RingInv', NoWrap, WritePublish
  PROVE Written' /\ OnlyWhenFull' /\ (OneSize' => ~stale' /\ Slots' /\ AtEnds')
<1> DEFINE at == writer.at
           f == FrameSize(writer.len)
<1>0. PICK n \in Nat : n = Len(sent)
  <2>1. Len(sent) \in Nat
    BY Positions DEF SizeInv
  <2> QED BY <2>1
<1>1. /\ UNCHANGED <<goJsTail, goJsBuffer, received, stale>> /\ writer.pc = "publish" /\ writer'.pc = "idle"
      /\ sent' = Append(sent, [len |-> writer.len, at |-> at])
      /\ sent \in Seq([len : Lens, at : 0 .. Uint - 1])
      /\ writer.pos = Pos(at) /\ Follows(goJsHead, at) /\ Pos(at) + f <= BufferSize
      /\ writer.len \in 0 .. BufferSize
      /\ at = goJsHead \/ Pos(goJsHead) + f > BufferSize
  BY DEF WritePublish, SizeInv, RingInv, RingSpace, TypeOK, InPlace, OnlyWhenFull, Idle
<1>2. /\ goJsHead \in Nat /\ goJsTail \in Nat /\ taken \in Nat /\ taken <= n
      /\ BufferSize \in Nat \ {0} /\ Header \in 1 .. BufferSize
  BY <1>0, Positions DEF SizeInv, RingInv, RingSpace, TypeOK, taken
<1>3. /\ Len(sent') = n + 1
      /\ \A i \in 1 .. n : sent'[i] = sent[i]
      /\ sent'[n + 1].len = writer.len /\ sent'[n + 1].at = at
  BY <1>0, <1>1
<1>4. \A i \in 1 .. n : FrameEnd(i)' = FrameEnd(i)
  BY <1>3 DEF FrameEnd
<1>5. n > 0 => goJsHead = FrameEnd(n)
  <2>1. n > 0 => n \in 1 .. Len(sent)
    BY <1>0
  <2> QED BY <1>0, <2>1 DEF SizeInv, RingInv, InLine
<1>6. \A i \in 1 .. n + 1 : i \in 1 .. n \/ i = n + 1
  OBVIOUS
<1>7. f \in Nat \ {0} /\ at \in Nat
  <2>1. writer.len \in Nat /\ Header \in Nat \ {0}
    BY <1>1, <1>2
  <2>2. at \in Nat
    BY <1>1, <1>2, FollowsWithin
  <2> QED BY <2>1, <2>2 DEF FrameSize
<1>8. n = 0 => goJsHead = 0 /\ at = 0 /\ Pos(at) = 0
  <2> SUFFICES ASSUME n = 0 PROVE goJsHead = 0 /\ at = 0 /\ Pos(at) = 0
    OBVIOUS
  <2> HIDE DEF at, f
  <2>1. goJsHead = 0
    BY <1>0, <1>2 DEF SizeInv, RingInv, BelowWrap, Reach
  <2>2. Pos(0) = 0
    BY <1>2, ModSmall DEF Pos
  <2>3. Pos(at) \in Nat
    <3>1. Pos(at) \in 0 .. BufferSize - 1
      BY <1>7, Place
    <3> QED BY <1>2, <3>1
  <2>4. f <= BufferSize
    BY <1>1, <1>2, <1>7, <2>3 DEF at, f
  <2>5. at = 0
    BY <1>1, <1>2, <1>7, <2>1, <2>2, <2>4 DEF at, f
  <2> QED BY <2>1, <2>2, <2>5
<1>9. Written'
  <2> SUFFICES ASSUME NEW q \in Offsets, goJsBuffer[q] # Blank
               PROVE \E i \in 1 .. n + 1 : Covers(Pos(sent'[i].at), FrameSize(sent'[i].len), q)
    BY <1>1, <1>3 DEF Written
  <2>1. CASE \E i \in 1 .. n : Covers(Pos(sent[i].at), FrameSize(sent[i].len), q)
    <3>1. \A i \in 1 .. n : i \in 1 .. n + 1
      OBVIOUS
    <3> QED BY <1>3, <2>1, <3>1
  <2>2. CASE Covers(Pos(at), f, q)
    <3>1. n + 1 \in 1 .. n + 1
      OBVIOUS
    <3> QED BY <1>3, <2>2, <3>1
  <2> QED BY <1>0, <1>1, <2>1, <2>2 DEF SizeInv, Written
<1>10. OnlyWhenFull'
  <2> SUFFICES ASSUME NEW i \in 1 .. n + 1, i # n + 1
               PROVE sent'[i + 1].at = FrameEnd(i)' \/ Pos(FrameEnd(i)') + FrameSize(sent'[i + 1].len) > BufferSize
    BY <1>1, <1>3 DEF OnlyWhenFull
  <2>1. i \in 1 .. n
    BY <1>6
  <2>2. CASE i = n
    <3>1. FrameEnd(i)' = goJsHead
      BY <1>4, <1>5, <2>1, <2>2
    <3> QED BY <1>1, <1>3, <2>2, <3>1
  <2>3. CASE i # n
    <3>1. i + 1 \in 1 .. n
      BY <2>1, <2>3
    <3> QED BY <1>0, <1>3, <1>4, <2>1, <2>3, <3>1 DEF SizeInv, OnlyWhenFull
  <2> QED BY <2>2, <2>3
<1>11. ASSUME OneSize' PROVE ~stale' /\ Slots' /\ AtEnds'
  <2>1. \A i, j \in 1 .. n + 1 : sent'[i].len = sent'[j].len
    BY <1>3, <1>11 DEF OneSize
  <2>2. OneSize
    BY <1>0, <1>3, <2>1 DEF OneSize
  <2>3. ~stale /\ Slots /\ AtEnds
    BY <2>2 DEF SizeInv
  <2>4. Multiple(Pos(at), f)
    <3>1. CASE n = 0
      <4>1. Pos(at) = f * 0
        BY <1>7, <1>8, <3>1
      <4> QED BY <4>1 DEF Multiple
    <3>2. CASE n # 0 /\ at = goJsHead
      <4>1. n \in 1 .. n /\ n \in 1 .. n + 1 /\ n + 1 \in 1 .. n + 1 /\ n > 0
        BY <3>2
      <4>2. FrameSize(sent[n].len) = f
        BY <1>3, <2>1, <4>1
      <4>3. Multiple(Pos(sent[n].at), f) /\ Pos(sent[n].at) + f <= BufferSize /\ goJsHead = sent[n].at + f
        BY <1>0, <1>5, <2>3, <4>1, <4>2 DEF Slots, SizeInv, RingInv, InLine, FrameEnd
      <4>4. sent[n].at \in Nat
        BY <1>0, <4>1, SentFrame DEF SizeInv
      <4> QED BY <1>7, <3>2, <4>3, <4>4, SlotAfter
    <3>3. CASE at # goJsHead
      <4>1. Pos(at) = 0
        BY <1>1, <1>2, <3>3, CycleEnds DEF Follows
      <4>2. 0 = f * 0
        BY <1>7
      <4> QED BY <4>1, <4>2 DEF Multiple
    <3> QED BY <3>1, <3>2, <3>3
  <2>5. Slots'
    BY <1>0, <1>3, <1>6, <2>3, <2>4 DEF Slots
  <2>6. AtEnds'
    <3>1. CASE taken < n
      <4>1. taken + 1 \in 1 .. n /\ (taken > 0 => taken \in 1 .. n)
        BY <1>2, <3>1
      <4> QED BY <1>0, <1>1, <1>3, <1>4, <2>3, <3>1, <4>1 DEF AtEnds, taken
    <3>2. CASE taken = n
      <4>1. goJsTail = goJsHead
        BY <1>0, <1>2, <3>2 DEF SizeInv, RingInv, UnreadIntact, NothingSkipped
      <4>2. taken' = n
        BY <1>1, <3>2 DEF taken
      <4>3. n > 0 => FrameEnd(n)' = goJsHead
        BY <1>4, <1>5
      <4> QED BY <1>1, <1>3, <1>8, <4>1, <4>2, <4>3 DEF AtEnds
    <3> QED BY <1>2, <3>1, <3>2
  <2> QED BY <1>1, <2>3, <2>5, <2>6
<1> QED BY <1>9, <1>10, <1>11

\* The steps of Write and of the loop.
LEMMA SizeStep ==
  ASSUME SizeInv, NoWrap, NoEmptyMessage, [Next]_vars
  PROVE SizeInv'
<1>0. /\ RingInv /\ RingInv' /\ Written /\ OnlyWhenFull
      /\ goJsHead \in Nat /\ goJsTail \in Nat /\ taken \in Nat /\ Len(sent) \in Nat
  BY RingStep, Positions DEF SizeInv
<1>1. CASE (\E len \in Lens : WriteCall(len)) \/ WriteTimeout
  <2>1. /\ writer.pc # "publish" /\ writer'.pc \in {"try", "idle"}
        /\ UNCHANGED <<goJsHead, goJsTail, goJsBuffer, sent, received, stale>>
    <3>1. ASSUME NEW len \in Lens, WriteCall(len) PROVE <2>1
      BY <3>1 DEF WriteCall, Idle
    <3>2. CASE WriteTimeout
      BY <3>2 DEF WriteTimeout, Idle
    <3> QED BY <1>1, <3>1, <3>2
  <2> QED BY <1>0, <2>1 DEF SizeInv, Written, OnlyWhenFull, OneSize, Slots, AtEnds, FrameEnd, taken
<1>2. CASE WriteAttempt
  <2>1. /\ writer.pc # "publish" /\ writer \in Calls
        /\ UNCHANGED <<goJsHead, goJsTail, goJsBuffer, sent, received, stale>>
    BY <1>0, <1>2 DEF WriteAttempt, RingInv, RingSpace, TypeOK, Calls
  <2>2. /\ writer'.pc \in {"copy", "full"} /\ writer'.len = writer.len
        /\ writer'.pc = "copy" => writer'.at = goJsHead \/ ~FitsAt(goJsHead, writer.len)
    BY <1>2, <2>1 DEF WriteAttempt, Calls
  <2>3. ~FitsAt(goJsHead, writer.len) => Pos(goJsHead) + FrameSize(writer.len) > BufferSize
    <3>1. writer.len \in 0 .. BufferSize
      BY <2>1 DEF Calls
    <3>2. Pos(goJsHead) \in 0 .. BufferSize - 1 /\ BufferSize \in Nat /\ Header \in 1 .. BufferSize
      BY <1>0, Place, RingAssumption
    <3> QED BY <3>1, <3>2 DEF FitsAt, FrameSize
  <2> QED BY <1>0, <2>1, <2>2, <2>3 DEF SizeInv, Written, OnlyWhenFull, OneSize, Slots, AtEnds, FrameEnd, taken
<1>3. CASE WriteCopy
  <2>1. /\ writer.pc = "copy" /\ writer'.pc = "publish" /\ writer'.len = writer.len
        /\ writer'.at = writer.at /\ writer'.pos = writer.pos
        /\ goJsBuffer' = PutFrame(goJsBuffer, writer.pos, Len(sent) + 1, writer.len)
        /\ UNCHANGED <<goJsHead, goJsTail, sent, received, stale>>
    BY <1>0, <1>3 DEF WriteCopy, RingInv, RingSpace, TypeOK
  <2>2. Written'
    <3> SUFFICES ASSUME NEW q \in Offsets, goJsBuffer'[q] # Blank,
                        ~Covers(writer.pos, FrameSize(writer.len), q)
                 PROVE \E i \in 1 .. Len(sent) : Covers(Pos(sent[i].at), FrameSize(sent[i].len), q)
      BY <2>1 DEF Written
    <3>1. ~(q >= writer.pos /\ q < writer.pos + FrameSize(writer.len))
      <4>1. q \in Int /\ writer.pos \in Int
        BY <1>0, RingAssumption DEF RingInv, RingSpace, TypeOK, Offsets
      <4> QED BY <4>1 DEF Covers
    <3>2. goJsBuffer'[q] = goJsBuffer[q]
      BY <2>1, <3>1 DEF PutFrame
    <3> QED BY <1>0, <2>1, <3>2 DEF Written
  <2> QED BY <1>0, <2>1, <2>2 DEF SizeInv, OnlyWhenFull, OneSize, Slots, AtEnds, FrameEnd, taken
<1>4. CASE WritePublish
  BY <1>0, <1>4, PublishKeepsSize DEF SizeInv
<1>5. CASE JsPoll
  <2>1. /\ taken < Len(sent) /\ UNCHANGED <<goJsHead, goJsBuffer, writer, sent>>
        /\ \/ goJsTail = sent[taken + 1].at /\ goJsTail' = FrameEnd(taken + 1) /\ taken' = taken + 1 /\ UNCHANGED stale
           \/ goJsTail # sent[taken + 1].at /\ taken' = taken
    <3>1. \/ /\ goJsTail = sent[taken + 1].at /\ goJsTail' = FrameEnd(taken + 1)
             /\ received' = Append(received, taken + 1) /\ UNCHANGED stale
          \/ goJsTail < sent[taken + 1].at /\ UNCHANGED received
      BY <1>0, <1>5, PollCases
    <3>2. taken < Len(sent) /\ UNCHANGED <<goJsHead, goJsBuffer, writer, sent>>
      BY <1>0, <1>5, PollCases
    <3>3. received \in Seq(0 .. MaxMsgs)
      BY <1>0 DEF RingInv, RingSpace, TypeOK
    <3> QED BY <1>0, <3>1, <3>2, <3>3 DEF taken
  <2>2. Written' /\ OnlyWhenFull' /\ (OneSize' <=> OneSize) /\ (Slots' <=> Slots)
    BY <1>0, <2>1 DEF Written, OnlyWhenFull, OneSize, Slots, FrameEnd
  <2>3. ASSUME OneSize PROVE ~stale' /\ AtEnds'
    <3>1. CASE goJsTail = sent[taken + 1].at
      <4>1. PICK n \in Nat : n = taken + 1
        BY <1>0
      <4>2. goJsTail' = FrameEnd(n) /\ taken' = n /\ n > 0 /\ stale' = stale
        BY <1>0, <2>1, <3>1, <4>1
      <4>3. FrameEnd(n)' = FrameEnd(n)
        BY <2>1 DEF FrameEnd
      <4> QED BY <2>3, <4>2, <4>3 DEF AtEnds, SizeInv
    <3>2. CASE goJsTail # sent[taken + 1].at
      <4>1. JsTail = goJsTail /\ JsPos(JsTail) = Pos(goJsTail)
        BY <1>0, Positions DEF JsPos, Pos
      <4>2. SkipToNextCycle
        <5>1. CASE Pos(goJsTail) + Header > BufferSize
          BY <1>5, <4>1, <5>1 DEF JsPoll
        <5>2. CASE ~(Pos(goJsTail) + Header > BufferSize)
          <6>1. Pos(goJsTail) + Header <= BufferSize
            <7>1. Pos(goJsTail) \in 0 .. BufferSize - 1 /\ Header \in 1 .. BufferSize /\ BufferSize \in Nat
              BY <1>0, Place, RingAssumption
            <7> QED BY <5>2, <7>1
          <6>2. LengthsAt(goJsBuffer, Pos(goJsTail)) = {0}
            BY <2>1, <2>3, <3>2, <6>1, GapIsBlank
          <6> QED BY <1>5, <4>1, <5>2, <6>2 DEF JsPoll
        <5> QED BY <5>1, <5>2
      <4>3. NextCycle(goJsTail) = sent[taken + 1].at
        BY <1>0, <2>1, <3>2 DEF RingInv, UnreadIntact, NothingSkipped
      <4>4. goJsTail' = sent[taken + 1].at /\ stale' = stale
        <5>1. PICK i \in 1 .. Len(sent) : i = taken + 1
          BY <1>0, <2>1
        <5>2. sent[i].at \in Nat /\ FrameSize(sent[i].len) \in Nat
          BY <1>0, SentFrame
        <5>3. sent[i].at <= goJsHead /\ goJsHead < Uint /\ Uint \in Nat
          <6>1. FrameEnd(i) <= goJsHead /\ FrameEnd(i) = sent[i].at + FrameSize(sent[i].len)
            BY <1>0 DEF RingInv, InLine, FrameEnd
          <6> QED BY <1>0, <5>2, <6>1, Positions, RingAssumption
        <5>4. Uint32(sent[i].at) = sent[i].at
          BY <1>0, <5>2, <5>3, ModSmall DEF Uint32
        <5> QED BY <4>1, <4>2, <4>3, <5>1, <5>4 DEF SkipToNextCycle
      <4> QED BY <1>0, <2>1, <2>3, <3>2, <4>4 DEF AtEnds, SizeInv
    <3> QED BY <3>1, <3>2
  <2> QED BY <1>0, <2>2, <2>3 DEF SizeInv
<1>6. CASE UNCHANGED vars
  BY <1>0, <1>6 DEF vars, SizeInv, Written, OnlyWhenFull, OneSize, Slots, AtEnds, FrameEnd, taken
<1> QED BY <1>1, <1>2, <1>3, <1>4, <1>5, <1>6 DEF Next, Write

\* With frames of one size the loop posts nothing out of a gap: the bytes of a
\* gap were never written, and it takes no frame for one.
THEOREM NothingStale ==
  ASSUME NoWrap, NoEmptyMessage
  PROVE Spec => []OneSizeNothingStale
<1>1. Init => SizeInv
  <2> SUFFICES ASSUME Init PROVE SizeInv
    OBVIOUS
  <2>1. RingInv
    BY RingInit
  <2> QED BY <2>1 DEF Init, SizeInv, Written, OnlyWhenFull, Slots, AtEnds, Idle, taken
<1>2. SizeInv /\ [Next]_vars => SizeInv'
  BY SizeStep
<1>3. SizeInv => OneSizeNothingStale
  BY DEF SizeInv, OneSize, OneSizeNothingStale
<1> QED BY <1>1, <1>2, <1>3, PTL DEF Spec
=============================================================================
