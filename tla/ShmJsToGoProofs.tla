-------------------------- MODULE ShmJsToGoProofs --------------------------
(***************************************************************************)
(* The ring from the page to the guest, for every size of block, header    *)
(* and margin, every set of lengths and any number of calls of write()     *)
(* that wait for room: no two frames share a byte of what is not read, and *)
(* with frames of one size the guest reads the payloads one after the      *)
(* other; for sessions without empty messages in which the positions do    *)
(* not wrap (ShmRingLemmas).                                               *)
(***************************************************************************)
EXTENDS ShmJsToGo, ShmRingLemmas, SequenceTheorems, FiniteSetTheorems

-----------------------------------------------------------------------------
(* The invariant                                                           *)

FrameEnd(i) == accepted[i].at + FrameSize(LenOf(i))

\* The frames stand in a row, each inside the block, up to the head.
InLine ==
  /\ \A i \in 1 .. Len(accepted) :
       Pos(accepted[i].at) + FrameSize(LenOf(i)) <= BufferSize
  /\ \A i \in 1 .. Len(accepted) : FrameEnd(i) <= jsGoHead
  /\ \A i, j \in 1 .. Len(accepted) : i < j => FrameEnd(i) <= accepted[j].at
  /\ \A i \in 1 .. Len(accepted) :
       IF i = Len(accepted) THEN jsGoHead = FrameEnd(i)
       ELSE Follows(FrameEnd(i), accepted[i + 1].at)

\* The guest has taken the first n frames: the others stand in memory, and its
\* tail comes upon the next one.
Unread(n) ==
  /\ \A i \in n + 1 .. Len(accepted) : jsGoTail <= accepted[i].at
  /\ \A i \in n + 1 .. Len(accepted) : \A k \in 0 .. FrameSize(LenOf(i)) - 1 :
       jsGoBuffer[Pos(accepted[i].at) + k] = ByteOf(accepted[i].msg, LenOf(i), k)
  /\ IF n = Len(accepted) THEN jsGoTail = jsGoHead
     ELSE Follows(jsGoTail, accepted[n + 1].at)

\* No more than a block is in use, and Read moves the tail only behind data.
InBlock ==
  /\ jsGoTail <= jsGoHead /\ jsGoHead - jsGoTail <= BufferSize
  /\ reader.pc = "take" => jsGoTail # jsGoHead

BelowWrap == Len(posted) <= MaxMsgs /\ jsGoHead <= Reach(Len(accepted))

RingInv ==
  /\ TypeOK /\ InLine /\ InBlock /\ BelowWrap
  /\ \E n \in 0 .. Len(accepted) : Unread(n)

-----------------------------------------------------------------------------
(* Types                                                                   *)

RingType ==
  /\ jsGoHead \in 0 .. Uint - 1
  /\ jsGoTail \in 0 .. Uint - 1
  /\ jsGoBuffer \in [Offsets -> Byte]

ReaderType ==
  /\ reader \in [pc : {"idle", "poll", "take"}, size : ReadSizes \cup {0}]
  /\ readBuffer \in Seq(Byte)
  /\ stream \in Seq(Byte)

\* Of total messages, those that wait, those given up and the frames.
Sorted(total, waits, drops, frames) ==
  /\ waits \subseteq 1 .. total
  /\ drops \subseteq (1 .. total) \ waits
  /\ frames \in Seq([msg : (1 .. total) \ (waits \cup drops), at : 0 .. Uint - 1])
  /\ Cardinality(waits) + Cardinality(drops) + Len(frames) = total

\* The three parts of TypeOK, which most steps change one at a time.
LEMMA TypeParts ==
  TypeOK <=> /\ RingType /\ ReaderType
             /\ posted \in Seq(Lens) /\ Sorted(Len(posted), waiting, dropped, accepted)
BY DEF TypeOK, RingType, ReaderType, Sorted

\* A message more waits.
LEMMA OneMore ==
  ASSUME NEW total \in Nat, NEW waits, NEW drops, NEW frames,
         Sorted(total, waits, drops, frames)
  PROVE Sorted(total + 1, waits \cup {total + 1}, drops, frames)
<1> DEFINE Old == [msg : (1 .. total) \ (waits \cup drops), at : 0 .. Uint - 1]
           New == [msg : (1 .. total + 1) \ ((waits \cup {total + 1}) \cup drops),
                   at : 0 .. Uint - 1]
<1>1. Old \subseteq New
  OBVIOUS
<1>2. frames \in Seq(Old)
  BY DEF Sorted
<1>3. frames \in Seq(New)
  <2> HIDE DEF Old, New
  <2> QED BY <1>1, <1>2, SeqMonotonic
<1>4. /\ waits \subseteq 1 .. total /\ drops \subseteq (1 .. total) \ waits
      /\ Cardinality(waits) + Cardinality(drops) + Len(frames) = total
  BY DEF Sorted
<1>5. IsFiniteSet(waits) /\ Cardinality(waits) \in Nat
      /\ Cardinality(drops) \in Nat /\ Len(frames) \in Nat
  <2>1. IsFiniteSet(1 .. total)
    BY FS_Interval
  <2>2. IsFiniteSet(waits) /\ IsFiniteSet(drops)
    BY <1>4, <2>1, FS_Subset
  <2>3. Len(frames) \in Nat
    <3> HIDE DEF New
    <3> QED BY <1>3, LenProperties
  <2> QED BY <2>2, <2>3, FS_CardinalityType
<1>6. total + 1 \notin waits
  BY <1>4
<1>7. Cardinality(waits \cup {total + 1}) = Cardinality(waits) + 1
  BY <1>5, <1>6, FS_AddElement
<1>8. Cardinality(waits \cup {total + 1}) + Cardinality(drops) + Len(frames) = total + 1
  BY <1>4, <1>5, <1>7
<1>9. /\ waits \cup {total + 1} \subseteq 1 .. total + 1
      /\ drops \subseteq (1 .. total + 1) \ (waits \cup {total + 1})
  BY <1>4
<1> QED BY <1>3, <1>8, <1>9 DEF Sorted

\* A message that waits is put or given up.
LEMMA OneLess ==
  ASSUME NEW total \in Nat, NEW waits, NEW drops, NEW frames,
         Sorted(total, waits, drops, frames),
         NEW id \in waits, NEW at \in 0 .. Uint - 1
  PROVE /\ Sorted(total, waits \ {id}, drops, Append(frames, [msg |-> id, at |-> at]))
        /\ Sorted(total, waits \ {id}, drops \cup {id}, frames)
<1> DEFINE Old == [msg : (1 .. total) \ (waits \cup drops), at : 0 .. Uint - 1]
           New == [msg : (1 .. total) \ ((waits \ {id}) \cup drops), at : 0 .. Uint - 1]
           frame == [msg |-> id, at |-> at]
<1>1. /\ waits \subseteq 1 .. total /\ drops \subseteq (1 .. total) \ waits
      /\ frames \in Seq(Old)
      /\ Cardinality(waits) + Cardinality(drops) + Len(frames) = total
  BY DEF Sorted
<1>2. Old \subseteq New /\ frame \in New
  BY <1>1
<1>3. Append(frames, frame) \in Seq(New) /\ Len(Append(frames, frame)) = Len(frames) + 1
  <2> HIDE DEF Old, New, frame
  <2>1. frames \in Seq(New)
    BY <1>1, <1>2, SeqMonotonic
  <2> QED BY <1>2, <2>1, AppendProperties
<1>4. /\ IsFiniteSet(waits) /\ IsFiniteSet(drops)
      /\ Cardinality(waits) \in Nat /\ Cardinality(drops) \in Nat /\ Len(frames) \in Nat
  <2>1. IsFiniteSet(1 .. total)
    BY FS_Interval
  <2>2. IsFiniteSet(waits) /\ IsFiniteSet(drops)
    BY <1>1, <2>1, FS_Subset
  <2>3. Len(frames) \in Nat
    <3> HIDE DEF Old
    <3> QED BY <1>1, LenProperties
  <2> QED BY <2>2, <2>3, FS_CardinalityType
<1>5. /\ Cardinality(waits \ {id}) = Cardinality(waits) - 1
      /\ Cardinality(drops \cup {id}) = Cardinality(drops) + 1
  <2>1. id \notin drops
    BY <1>1
  <2> QED BY <1>4, <2>1, FS_AddElement, FS_RemoveElement
<1>6. Sorted(total, waits \ {id}, drops, Append(frames, frame))
  <2>1. Cardinality(waits \ {id}) + Cardinality(drops) + Len(Append(frames, frame)) = total
    BY <1>1, <1>3, <1>4, <1>5
  <2> HIDE DEF frame
  <2> QED BY <1>1, <1>3, <2>1 DEF Sorted
<1>7. Sorted(total, waits \ {id}, drops \cup {id}, frames)
  <2>1. Cardinality(waits \ {id}) + Cardinality(drops \cup {id}) + Len(frames) = total
    BY <1>1, <1>4, <1>5
  <2>2. (waits \ {id}) \cup (drops \cup {id}) = waits \cup drops
    OBVIOUS
  <2>3. frames \in Seq([msg : (1 .. total) \ ((waits \ {id}) \cup (drops \cup {id})),
                        at : 0 .. Uint - 1])
    BY <1>1, <2>2
  <2>4. drops \cup {id} \subseteq (1 .. total) \ (waits \ {id})
    BY <1>1
  <2> QED BY <1>1, <2>1, <2>3, <2>4 DEF Sorted
<1> QED BY <1>6, <1>7

\* There are no more frames than messages, each frame of a message that was posted.
LEMMA Counted ==
  ASSUME NEW total \in Nat, NEW waits, NEW drops, NEW frames,
         Sorted(total, waits, drops, frames)
  PROVE /\ Len(frames) \in 0 .. total
        /\ waits # {} => Len(frames) < total
        /\ \A i \in 1 .. Len(frames) :
             frames[i].msg \in 1 .. total /\ frames[i].at \in 0 .. Uint - 1
<1> DEFINE Frames == [msg : (1 .. total) \ (waits \cup drops), at : 0 .. Uint - 1]
<1>1. /\ waits \subseteq 1 .. total /\ drops \subseteq (1 .. total) \ waits
      /\ frames \in Seq(Frames)
      /\ Cardinality(waits) + Cardinality(drops) + Len(frames) = total
  BY DEF Sorted
<1>2. /\ Cardinality(waits) \in Nat /\ Cardinality(drops) \in Nat
      /\ waits # {} => Cardinality(waits) # 0
  <2>1. IsFiniteSet(1 .. total)
    BY FS_Interval
  <2>2. IsFiniteSet(waits) /\ IsFiniteSet(drops)
    BY <1>1, <2>1, FS_Subset
  <2> QED BY <2>2, FS_CardinalityType, FS_EmptySet
<1>3. Len(frames) \in Nat
  <2> HIDE DEF Frames
  <2> QED BY <1>1, LenProperties
<1>4. Len(frames) \in 0 .. total /\ (waits # {} => Len(frames) < total)
  BY <1>1, <1>2, <1>3
<1>5. \A i \in 1 .. Len(frames) : frames[i] \in Frames
  <2> HIDE DEF Frames
  <2> QED BY <1>1, ElementOfSeq
<1> QED BY <1>4, <1>5

\* What every step uses: positions are numbers far from the wrap, so the page
\* reads them as they are.
LEMMA Positions ==
  ASSUME RingInv, NoWrap
  PROVE /\ jsGoHead \in Nat /\ jsGoTail \in Nat /\ jsGoHead < Uint
        /\ Len(posted) \in 0 .. MaxMsgs /\ Len(accepted) \in 0 .. Len(posted)
        /\ BufferSize \in Nat \ {0} /\ Header \in 1 .. BufferSize
        /\ Uint \in Nat \ {0} /\ MaxMsgs \in Nat
        /\ JsHead = jsGoHead /\ JsTail = jsGoTail
        /\ Uint32(JsHead - JsTail) = jsGoHead - jsGoTail
        /\ Len(accepted) < MaxMsgs => jsGoHead + BufferSize + BufferSize < Uint
<1>1. /\ BufferSize \in Nat \ {0} /\ Header \in 1 .. BufferSize /\ MaxMsgs \in Nat
      /\ Uint \in Nat \ {0}
  BY RingAssumption
<1>2. /\ Len(posted) \in Nat /\ Sorted(Len(posted), waiting, dropped, accepted)
      /\ jsGoHead \in 0 .. Uint - 1 /\ jsGoTail \in 0 .. Uint - 1
  <2>1. TypeOK
    BY DEF RingInv
  <2>2. posted \in Seq(Lens) /\ RingType /\ Sorted(Len(posted), waiting, dropped, accepted)
    BY <2>1, TypeParts
  <2> QED BY <2>2, LenProperties DEF RingType
<1>3. Len(accepted) \in 0 .. Len(posted)
  BY <1>2, Counted
<1>4. /\ Len(posted) <= MaxMsgs /\ jsGoHead <= Reach(Len(accepted))
      /\ jsGoTail <= jsGoHead /\ Reach(MaxMsgs) < Uint \div 2
  BY DEF RingInv, BelowWrap, InBlock, NoWrap
<1>5. PICK n \in Nat : n = Len(accepted) /\ n <= MaxMsgs
  BY <1>1, <1>2, <1>3, <1>4
<1>6. /\ jsGoHead \in Nat /\ jsGoTail \in Nat /\ Reach(n) \in Nat /\ Reach(MaxMsgs) \in Nat
      /\ Reach(n) <= Reach(MaxMsgs) /\ Uint \div 2 \in Nat /\ Uint \div 2 <= Uint
  <2>1. jsGoHead \in Nat /\ jsGoTail \in Nat /\ Uint \div 2 \in Nat /\ Uint \div 2 <= Uint
    BY <1>1, <1>2
  <2>2. Reach(n) \in Nat /\ Reach(MaxMsgs) \in Nat /\ Reach(n) <= Reach(MaxMsgs)
    BY <1>1, <1>5, ReachGrows
  <2> QED BY <2>1, <2>2
<1>7. jsGoHead < Uint \div 2 /\ jsGoTail < Uint \div 2
  BY <1>4, <1>5, <1>6
<1>8. JsHead = jsGoHead /\ JsTail = jsGoTail
  <2>1. ~(jsGoHead >= Uint \div 2) /\ ~(jsGoTail >= Uint \div 2)
    BY <1>6, <1>7
  <2> QED BY <2>1 DEF JsHead, JsTail, Int32
<1>9. Uint32(JsHead - JsTail) = jsGoHead - jsGoTail
  <2>1. jsGoHead \in Nat /\ jsGoTail \in Nat /\ jsGoTail <= jsGoHead
    BY <1>4, <1>6
  <2>2. jsGoHead < Uint
    BY <1>1, <1>6, <1>7
  <2>3. jsGoHead - jsGoTail \in Nat /\ jsGoHead - jsGoTail < Uint
    BY <1>1, <2>1, <2>2
  <2> QED BY <1>1, <1>8, <2>3, ModSmall DEF Uint32
<1>10. ASSUME n < MaxMsgs PROVE jsGoHead + BufferSize + BufferSize < Uint
  <2>1. n + 1 \in Nat /\ n + 1 <= MaxMsgs
    BY <1>1, <1>10
  <2>2. Reach(n + 1) <= Reach(MaxMsgs) /\ Reach(n + 1) = Reach(n) + BufferSize + BufferSize
    BY <1>1, <2>1, ReachGrows
  <2> QED BY <1>1, <1>4, <1>5, <1>6, <2>2
<1>11. Len(posted) \in 0 .. MaxMsgs /\ jsGoHead < Uint
  BY <1>1, <1>2, <1>4, <1>6, <1>7
<1> QED BY <1>1, <1>3, <1>5, <1>6, <1>8, <1>9, <1>10, <1>11

\* What is known of a frame in the ring.
LEMMA FrameInRing ==
  ASSUME RingInv, NEW i \in 1 .. Len(accepted)
  PROVE /\ accepted[i].at \in Nat /\ accepted[i].msg \in 1 .. Len(posted)
        /\ LenOf(i) \in Lens /\ LenOf(i) \in 0 .. BufferSize
        /\ FrameSize(LenOf(i)) \in Nat \ {0}
<1>1. posted \in Seq(Lens) /\ Sorted(Len(posted), waiting, dropped, accepted)
  BY TypeParts DEF RingInv
<1>2. Len(posted) \in Nat
  BY <1>1, LenProperties
<1>3. accepted[i].msg \in 1 .. Len(posted) /\ accepted[i].at \in 0 .. Uint - 1
  BY <1>1, <1>2, Counted
<1>4. LenOf(i) \in Lens
  BY <1>1, <1>3, ElementOfSeq DEF LenOf
<1>5. accepted[i].at \in Nat /\ LenOf(i) \in 0 .. BufferSize
  <2>1. Lens \subseteq 0 .. BufferSize /\ \A at \in 0 .. Uint - 1 : at \in Nat
    BY RingAssumption
  <2> QED BY <1>3, <1>4, <2>1, Zenon
<1>6. FrameSize(LenOf(i)) \in Nat \ {0}
  <2>1. PICK l \in 0 .. BufferSize : l = LenOf(i)
    BY <1>5
  <2>2. FrameSize(l) \in Nat \ {0}
    BY RingAssumption DEF FrameSize
  <2> QED BY <2>1, <2>2
<1> QED BY <1>3, <1>4, <1>5, <1>6

\* The invariant holds at the start.
LEMMA RingInit == Init => RingInv
<1> SUFFICES ASSUME Init PROVE RingInv
  OBVIOUS
<1> USE DEF Init
<1>1. RingType
  <2>1. 0 \in 0 .. Uint - 1 /\ 0 \in 0 .. BufferSize /\ 0 \in 0 .. MaxMsgs
    BY RingAssumption
  <2> QED BY <2>1 DEF RingType, Blank, Byte
<1>2. ReaderType
  BY DEF ReaderType
<1>3. posted \in Seq(Lens) /\ Sorted(Len(posted), waiting, dropped, accepted)
  <2>1. Len(posted) = 0 /\ Cardinality({}) = 0
    BY FS_EmptySet
  <2> QED BY <2>1 DEF Sorted
<1>4. TypeOK
  BY <1>1, <1>2, <1>3, TypeParts
<1>5. InLine /\ InBlock /\ Unread(0)
  BY RingAssumption DEF InLine, InBlock, Unread
<1>6. BelowWrap
  BY RingAssumption, ReachGrows DEF BelowWrap
<1>7. 0 \in 0 .. Len(accepted)
  OBVIOUS
<1> QED BY <1>4, <1>5, <1>6, <1>7 DEF RingInv

-----------------------------------------------------------------------------
(* The calls of write()                                                    *)

\* Room that is counted is room in the ring: the margin only takes from it.
LEMMA RoomIsRoom ==
  ASSUME RingInv, NoWrap, NEW len \in Lens, Enough(len)
  PROVE FrameSize(len) \in 1 .. BufferSize /\ jsGoHead - jsGoTail + FrameSize(len) <= BufferSize
<1>1. PICK f : f = FrameSize(len)
  OBVIOUS
<1>2. /\ f \in Nat \ {0} /\ BufferSize \in Nat /\ SafetyMargin \in Nat
  BY <1>1, RingAssumption DEF FrameSize
<1>3. PICK room \in Nat : room = BufferSize - (jsGoHead - jsGoTail) /\ room <= BufferSize
  BY <1>2, Positions DEF RingInv, InBlock
<1>4. f <= AfterMargin(room)
  BY <1>1, <1>3, Positions DEF Enough, Available
<1>5. f <= room
  BY <1>2, <1>4 DEF AfterMargin
<1>6. jsGoHead \in Nat /\ jsGoTail \in Nat
  BY Positions
<1> QED BY <1>1, <1>2, <1>3, <1>5, <1>6

\* Where a try puts the frame, it follows the last one and stays within a block
\* of the tail.
LEMMA TryCases ==
  ASSUME RingInv, NoWrap, Len(accepted) < MaxMsgs, NEW id, NEW len \in Lens, Try(id, len)
  PROVE \/ /\ UNCHANGED <<jsGoHead, jsGoBuffer, accepted>>
           /\ \/ waiting' = waiting \ {id} /\ dropped' = dropped \cup {id}
              \/ waiting' = waiting \cup {id} /\ UNCHANGED dropped
        \/ \E at \in 0 .. Uint - 1 :
              /\ Follows(jsGoHead, at) /\ Pos(at) + FrameSize(len) <= BufferSize
              /\ at = jsGoHead \/ Pos(jsGoHead) + FrameSize(len) > BufferSize
              /\ at + FrameSize(len) - jsGoTail <= BufferSize
              /\ jsGoBuffer' = PutFrame(jsGoBuffer, Pos(at), id, len)
              /\ jsGoHead' = at + FrameSize(len) /\ jsGoHead' \in 0 .. Uint - 1
              /\ accepted' = Append(accepted, [msg |-> id, at |-> at])
              /\ waiting' = waiting \ {id} /\ UNCHANGED dropped
<1> DEFINE f == FrameSize(len)
<1>1. /\ jsGoHead \in Nat /\ jsGoTail \in Nat /\ BufferSize \in Nat \ {0}
      /\ JsHead = jsGoHead /\ JsTail = jsGoTail /\ Uint \in Nat \ {0}
      /\ jsGoHead + BufferSize + BufferSize < Uint
      /\ jsGoTail <= jsGoHead /\ jsGoHead - jsGoTail <= BufferSize
  BY Positions DEF RingInv, InBlock
<1>2. JsPos(JsHead) = Pos(jsGoHead) /\ JsPos(JsTail) = Pos(jsGoTail)
  BY <1>1 DEF JsPos, Pos
<1>3. /\ NextCycle(jsGoHead) \in Nat /\ jsGoHead < NextCycle(jsGoHead)
      /\ NextCycle(jsGoHead) <= jsGoHead + BufferSize /\ Pos(NextCycle(jsGoHead)) = 0
  <2>1. Pos(jsGoHead) \in 0 .. BufferSize - 1
    BY <1>1, Place
  <2>2. /\ NextCycle(jsGoHead) \in Nat /\ Pos(NextCycle(jsGoHead)) = 0
        /\ NextCycle(jsGoHead) = jsGoHead + BufferSize - Pos(jsGoHead)
    BY <1>1, CycleEnds
  <2> QED BY <1>1, <2>1, <2>2
<1>4. ASSUME NEW at \in Nat, jsGoHead <= at, at <= jsGoHead + BufferSize, f \in 1 .. BufferSize
      PROVE /\ Uint32(at) = at /\ Uint32(at + f) = at + f
            /\ at \in 0 .. Uint - 1 /\ at + f \in 0 .. Uint - 1
  <2> HIDE DEF f
  <2>1. at < Uint /\ at + f \in Nat /\ at + f < Uint
    BY <1>1, <1>4
  <2> QED BY <1>1, <1>4, <2>1, ModSmall DEF Uint32
<1>5. CASE Enough(len) /\ FitsAtHead(len) /\ Put(id, JsHead, JsPos(JsHead), len)
           /\ waiting' = waiting \ {id} /\ UNCHANGED dropped
  <2>1. f \in 1 .. BufferSize /\ jsGoHead - jsGoTail + f <= BufferSize
    BY <1>5, RoomIsRoom
  <2>2. Pos(jsGoHead) + f <= BufferSize
    BY <1>2, <1>5 DEF FitsAtHead
  <2>3. /\ Uint32(jsGoHead) = jsGoHead /\ Uint32(jsGoHead + f) = jsGoHead + f
        /\ jsGoHead \in 0 .. Uint - 1 /\ jsGoHead + f \in 0 .. Uint - 1
    BY <1>1, <1>4, <2>1
  <2>4. jsGoHead + f - jsGoTail <= BufferSize
    <3> HIDE DEF f
    <3> QED BY <1>1, <2>1
  <2>5. /\ jsGoBuffer' = PutFrame(jsGoBuffer, Pos(jsGoHead), id, len)
        /\ jsGoHead' = jsGoHead + f
        /\ accepted' = Append(accepted, [msg |-> id, at |-> jsGoHead])
    BY <1>1, <1>2, <1>5, <2>3 DEF Put
  <2>6. Follows(jsGoHead, jsGoHead)
    BY DEF Follows
  <2> QED BY <1>5, <2>2, <2>3, <2>4, <2>5, <2>6
<1>6. CASE Enough(len) /\ ~FitsAtHead(len) /\ FitsAtStart(len)
           /\ Put(id, NextCycle(JsHead), 0, len)
           /\ waiting' = waiting \ {id} /\ UNCHANGED dropped
  <2> DEFINE start == NextCycle(jsGoHead)
  <2>1. f \in 1 .. BufferSize /\ jsGoHead - jsGoTail + f <= BufferSize
    BY <1>6, RoomIsRoom
  <2>2. Pos(jsGoTail) >= f /\ Pos(jsGoHead) + f > BufferSize
    <3>1. Pos(jsGoHead) \in 0 .. BufferSize - 1
      BY <1>1, Place
    <3> HIDE DEF f
    <3> QED BY <1>1, <1>2, <1>6, <2>1, <3>1 DEF FitsAtStart, FitsAtHead, f
  <2>3. start + f - jsGoTail <= BufferSize
    BY <1>1, <2>1, <2>2, StartRoom
  <2>4. /\ Uint32(start) = start /\ Uint32(start + f) = start + f
        /\ start \in 0 .. Uint - 1 /\ start + f \in 0 .. Uint - 1
    BY <1>1, <1>3, <1>4, <2>1
  <2>5. /\ jsGoBuffer' = PutFrame(jsGoBuffer, Pos(start), id, len)
        /\ jsGoHead' = start + f
        /\ accepted' = Append(accepted, [msg |-> id, at |-> start])
    BY <1>1, <1>3, <1>6, <2>4 DEF Put
  <2>6. Follows(jsGoHead, start) /\ Pos(start) + f <= BufferSize
    BY <1>3, <2>1 DEF Follows
  <2> QED BY <1>6, <2>2, <2>3, <2>4, <2>5, <2>6
<1> QED BY <1>5, <1>6 DEF Try

\* A frame put at the end of the row leaves the frames alone that are not read,
\* and is the next to be read when there are none.
LEMMA PutKeeps ==
  ASSUME RingInv, NoWrap, Len(accepted) < MaxMsgs,
         NEW id, NEW len \in Lens, NEW at \in 0 .. Uint - 1,
         Follows(jsGoHead, at), Pos(at) + FrameSize(len) <= BufferSize,
         at + FrameSize(len) - jsGoTail <= BufferSize,
         jsGoBuffer' = PutFrame(jsGoBuffer, Pos(at), id, len),
         jsGoHead' = at + FrameSize(len),
         accepted' = Append(accepted, [msg |-> id, at |-> at]),
         posted'[id] = len, Len(posted') <= MaxMsgs, id \in 1 .. MaxMsgs,
         \A m \in 1 .. Len(posted) : posted'[m] = posted[m],
         UNCHANGED <<jsGoTail, reader>>,
         NEW t \in 0 .. Len(accepted), Unread(t)
  PROVE /\ InLine' /\ InBlock' /\ BelowWrap'
        /\ jsGoBuffer' \in [Offsets -> Byte]
        /\ t \in 0 .. Len(accepted') /\ Unread(t)'
<1> DEFINE f == FrameSize(len)
<1>0. PICK n \in Nat : n = Len(accepted) /\ n < MaxMsgs
  <2>1. Len(accepted) \in Nat
    BY Positions
  <2> QED BY <2>1
<1>1. /\ jsGoHead \in Nat /\ jsGoTail \in Nat /\ BufferSize \in Nat \ {0}
      /\ jsGoTail <= jsGoHead /\ jsGoHead - jsGoTail <= BufferSize
  BY Positions DEF RingInv, InBlock
<1>2. at \in Nat /\ jsGoHead <= at /\ at <= jsGoHead + BufferSize
  BY <1>1, FollowsWithin
<1>3. f \in Nat \ {0} /\ f <= BufferSize
  <2>1. len \in 0 .. BufferSize /\ Header \in 1 .. BufferSize
    BY RingAssumption
  <2>2. f \in Nat \ {0}
    BY <1>1, <2>1 DEF FrameSize
  <2>3. Pos(at) \in 0 .. BufferSize - 1
    BY <1>2, Place
  <2> HIDE DEF f
  <2>4. Pos(at) + f <= BufferSize
    BY DEF f
  <2> QED BY <1>1, <2>2, <2>3, <2>4
<1>4. /\ Len(accepted') = n + 1
      /\ \A i \in 1 .. n : accepted'[i] = accepted[i]
      /\ accepted'[n + 1].msg = id /\ accepted'[n + 1].at = at
  <2>1. PICK S : accepted \in Seq(S)
    BY TypeParts DEF RingInv, Sorted
  <2>2. accepted' = Append(accepted, [msg |-> id, at |-> at]) /\ Len(accepted) = n
    BY <1>0
  <2> QED BY <2>1, <2>2
<1>5. \A i \in 1 .. n : LenOf(i)' = LenOf(i) /\ FrameEnd(i)' = FrameEnd(i)
  <2> SUFFICES ASSUME NEW i \in 1 .. n
               PROVE LenOf(i)' = LenOf(i) /\ FrameEnd(i)' = FrameEnd(i)
    OBVIOUS
  <2>1. accepted[i].msg \in 1 .. Len(posted)
    BY <1>0, FrameInRing
  <2> QED BY <1>4, <2>1 DEF LenOf, FrameEnd
<1>6. LenOf(n + 1)' = len /\ FrameEnd(n + 1)' = at + f
  BY <1>4 DEF LenOf, FrameEnd
<1>7. \A i \in 1 .. n :
        /\ FrameEnd(i) \in Nat /\ FrameEnd(i) <= jsGoHead
        /\ FrameSize(LenOf(i)) \in Nat /\ accepted[i].at \in Nat
  <2> SUFFICES ASSUME NEW i \in 1 .. n
               PROVE /\ FrameEnd(i) \in Nat /\ FrameEnd(i) <= jsGoHead
                     /\ FrameSize(LenOf(i)) \in Nat /\ accepted[i].at \in Nat
    OBVIOUS
  <2>1. accepted[i].at \in Nat /\ FrameSize(LenOf(i)) \in Nat
    BY <1>0, FrameInRing
  <2> QED BY <1>0, <2>1 DEF FrameEnd, RingInv, InLine
<1>8. \A i \in 1 .. n + 1 : i \in 1 .. n \/ i = n + 1
  BY <1>0
<1>9. jsGoHead' = at + f /\ Pos(at) + f <= BufferSize /\ at + f <= jsGoTail + BufferSize
  <2>1. jsGoHead' = at + f /\ Pos(at) + f <= BufferSize /\ at + f - jsGoTail <= BufferSize
    OBVIOUS
  <2> HIDE DEF f
  <2> QED BY <1>1, <1>2, <1>3, <2>1
<1> HIDE DEF f
<1>10. InLine'
  <2>1. \A i \in 1 .. n + 1 : Pos(accepted'[i].at) + FrameSize(LenOf(i)') <= BufferSize
    <3>1. \A i \in 1 .. n : Pos(accepted'[i].at) + FrameSize(LenOf(i)') <= BufferSize
      BY <1>0, <1>4, <1>5 DEF RingInv, InLine
    <3> QED BY <1>4, <1>6, <1>8, <1>9, <3>1 DEF f
  <2>2. \A i \in 1 .. n + 1 : FrameEnd(i)' <= jsGoHead'
    <3>1. \A i \in 1 .. n : FrameEnd(i) <= at + f
      <4> SUFFICES ASSUME NEW i \in 1 .. n PROVE FrameEnd(i) <= at + f
        OBVIOUS
      <4>1. PICK e \in Nat : e = FrameEnd(i) /\ e <= jsGoHead
        BY <1>7
      <4> QED BY <1>1, <1>2, <1>3, <4>1
    <3>2. at + f <= at + f
      BY <1>2, <1>3
    <3> QED BY <1>5, <1>6, <1>8, <1>9, <3>1, <3>2
  <2>3. \A i, j \in 1 .. n + 1 : i < j => FrameEnd(i)' <= accepted'[j].at
    <3> SUFFICES ASSUME NEW i \in 1 .. n + 1, NEW j \in 1 .. n + 1, i < j
                 PROVE FrameEnd(i)' <= accepted'[j].at
      OBVIOUS
    <3>1. i \in 1 .. n
      BY <1>0
    <3>2. CASE j \in 1 .. n
      BY <1>0, <1>4, <1>5, <3>1, <3>2 DEF RingInv, InLine
    <3>3. CASE j = n + 1
      <4>1. FrameEnd(i) <= at
        BY <1>1, <1>2, <1>7, <3>1
      <4> QED BY <1>4, <1>5, <3>1, <3>3, <4>1
    <3> QED BY <1>8, <3>2, <3>3
  <2>4. \A i \in 1 .. n + 1 :
          IF i = n + 1 THEN jsGoHead' = FrameEnd(i)'
          ELSE Follows(FrameEnd(i)', accepted'[i + 1].at)
    <3> SUFFICES ASSUME NEW i \in 1 .. n + 1, i # n + 1
                 PROVE Follows(FrameEnd(i)', accepted'[i + 1].at)
      BY <1>6, <1>9
    <3>1. i \in 1 .. n
      BY <1>8
    <3>2. CASE i = n
      <4>1. FrameEnd(i) = jsGoHead
        BY <1>0, <3>1, <3>2 DEF RingInv, InLine
      <4> QED BY <1>4, <1>5, <3>1, <3>2, <4>1
    <3>3. CASE i # n
      <4>1. i + 1 \in 1 .. n
        BY <1>0, <3>1, <3>3
      <4>2. Follows(FrameEnd(i), accepted[i + 1].at)
        BY <1>0, <3>1, <3>3 DEF RingInv, InLine
      <4> QED BY <1>4, <1>5, <3>1, <4>1, <4>2
    <3> QED BY <3>2, <3>3
  <2> QED BY <1>4, <2>1, <2>2, <2>3, <2>4 DEF InLine
<1>11. InBlock'
  <2>1. PICK h : h = jsGoHead'
    OBVIOUS
  <2>2. jsGoTail <= h /\ h - jsGoTail <= BufferSize /\ jsGoTail # h
    BY <1>1, <1>2, <1>3, <1>9, <2>1
  <2> QED BY <2>1, <2>2 DEF InBlock
<1>12. BelowWrap'
  <2>1. jsGoHead <= Reach(n) /\ Reach(n) \in Nat
        /\ Reach(n + 1) = Reach(n) + BufferSize + BufferSize
    BY <1>0, <1>1, ReachGrows DEF RingInv, BelowWrap
  <2>2. at + f <= Reach(n + 1)
    BY <1>1, <1>2, <1>3, <2>1
  <2> QED BY <1>4, <1>9, <2>2 DEF BelowWrap
<1>13. jsGoBuffer' \in [Offsets -> Byte]
  <2>1. jsGoBuffer \in [Offsets -> Byte]
    BY DEF RingInv, TypeOK
  <2>2. Pos(at) \in 0 .. BufferSize - 1
    BY <1>2, Place
  <2>3. ASSUME NEW q \in Offsets, q >= Pos(at), q < Pos(at) + f
        PROVE ByteOf(id, len, q - Pos(at)) \in Byte
    <3>1. q - Pos(at) \in 0 .. BufferSize
      BY <1>1, <2>2, <2>3 DEF Offsets
    <3>2. id \in 0 .. MaxMsgs /\ len \in 0 .. BufferSize
      BY RingAssumption
    <3> QED BY <3>1, <3>2 DEF Byte, ByteOf
  <2> QED BY <2>1, <2>3 DEF PutFrame, f
<1>14. t \in 0 .. n /\ Unread(t)
  BY <1>0
<1>15. ASSUME NEW i \in t + 1 .. n, NEW k \in 0 .. FrameSize(LenOf(i)) - 1
       PROVE jsGoBuffer'[Pos(accepted[i].at) + k] = jsGoBuffer[Pos(accepted[i].at) + k]
  <2>0. i \in 1 .. n
    BY <1>0, <1>14
  <2>1. PICK a \in Nat : a = accepted[i].at
    BY <1>7, <2>0
  <2>2. PICK g \in Nat : /\ g = FrameSize(LenOf(i)) /\ Pos(a) + g <= BufferSize
                         /\ a + g <= jsGoHead
    BY <1>0, <1>7, <2>0, <2>1 DEF RingInv, InLine, FrameEnd
  <2>3. jsGoTail <= a
    BY <1>0, <1>14, <2>1 DEF Unread
  <2>4. a + g <= at
    BY <1>1, <1>2, <2>2
  <2>5. k \in 0 .. g - 1
    BY <2>2
  <2>6. /\ Pos(a) + k \in Offsets
        /\ ~(Pos(a) + k >= Pos(at) /\ Pos(a) + k < Pos(at) + f)
    BY <1>1, <1>2, <1>3, <1>9, <2>2, <2>3, <2>4, <2>5, Untouched
  <2> QED BY <2>1, <2>6 DEF PutFrame, f
<1>16. \A k \in 0 .. f - 1 : jsGoBuffer'[Pos(at) + k] = ByteOf(id, len, k)
  <2> SUFFICES ASSUME NEW k \in 0 .. f - 1
               PROVE jsGoBuffer'[Pos(at) + k] = ByteOf(id, len, k)
    OBVIOUS
  <2>1. PICK p \in 0 .. BufferSize - 1 : p = Pos(at)
    BY <1>2, Place
  <2>2. p + k \in Offsets /\ p + k >= p /\ p + k < p + f /\ (p + k) - p = k
    <3>1. f \in Nat /\ p + f <= BufferSize /\ BufferSize \in Nat
      BY <1>1, <1>3, <1>9, <2>1
    <3> HIDE DEF f
    <3> QED BY <3>1 DEF Offsets
  <2> QED BY <2>1, <2>2 DEF PutFrame, f
<1>17. \A i \in t + 1 .. n + 1 : (i \in t + 1 .. n /\ i \in 1 .. n) \/ i = n + 1
  BY <1>0, <1>14
<1>18. Unread(t)'
  <2>1. \A i \in t + 1 .. n + 1 : jsGoTail <= accepted'[i].at
    <3>1. \A i \in t + 1 .. n : jsGoTail <= accepted[i].at
      BY <1>0, <1>14 DEF Unread
    <3>2. jsGoTail <= at
      BY <1>1, <1>2
    <3> QED BY <1>4, <1>17, <3>1, <3>2
  <2>2. \A i \in t + 1 .. n + 1 : \A k \in 0 .. FrameSize(LenOf(i)') - 1 :
          jsGoBuffer'[Pos(accepted'[i].at) + k] = ByteOf(accepted'[i].msg, LenOf(i)', k)
    <3> SUFFICES ASSUME NEW i \in t + 1 .. n + 1
                 PROVE \A k \in 0 .. FrameSize(LenOf(i)') - 1 :
                         jsGoBuffer'[Pos(accepted'[i].at) + k]
                           = ByteOf(accepted'[i].msg, LenOf(i)', k)
      OBVIOUS
    <3>1. CASE i = n + 1
      BY <1>4, <1>6, <1>16, <3>1 DEF f
    <3>2. CASE i \in t + 1 .. n /\ i \in 1 .. n
      <4>1. \A k \in 0 .. FrameSize(LenOf(i)) - 1 :
              jsGoBuffer'[Pos(accepted[i].at) + k] = ByteOf(accepted[i].msg, LenOf(i), k)
        BY <1>0, <1>14, <1>15, <3>2 DEF Unread
      <4> QED BY <1>4, <1>5, <3>2, <4>1
    <3> QED BY <1>17, <3>1, <3>2
  <2>3. t # n + 1 /\ Follows(jsGoTail, accepted'[t + 1].at)
    <3>1. CASE t = n
      BY <1>0, <1>4, <1>14, <3>1 DEF Unread
    <3>2. CASE t # n
      <4>1. t + 1 \in 1 .. n
        BY <1>0, <1>14, <3>2
      <4> QED BY <1>0, <1>4, <1>14, <3>2, <4>1 DEF Unread
    <3> QED BY <1>0, <1>14, <3>1, <3>2
  <2> QED BY <1>4, <2>1, <2>2, <2>3 DEF Unread
<1>19. t \in 0 .. Len(accepted')
  BY <1>0, <1>4, <1>14
<1> QED BY <1>10, <1>11, <1>12, <1>13, <1>18, <1>19

\* A step that moves neither head nor tail.
LEMMA StillKeeps ==
  ASSUME RingInv, UNCHANGED <<ring, accepted>>, Len(posted') <= MaxMsgs,
         \A m \in 1 .. Len(posted) : posted'[m] = posted[m],
         reader'.pc = "take" => jsGoTail # jsGoHead,
         NEW n \in 0 .. Len(accepted), Unread(n)
  PROVE InLine' /\ InBlock' /\ BelowWrap' /\ n \in 0 .. Len(accepted') /\ Unread(n)'
<1>1. \A i \in 1 .. Len(accepted) : LenOf(i)' = LenOf(i) /\ FrameEnd(i)' = FrameEnd(i)
  BY FrameInRing DEF LenOf, FrameEnd
<1>2. InLine' /\ InBlock' /\ BelowWrap'
  BY <1>1 DEF RingInv, InLine, InBlock, BelowWrap, ring
<1>4. \A i \in n + 1 .. Len(accepted) : i \in 1 .. Len(accepted)
  <2>1. PICK l \in Nat : l = Len(accepted)
    <3>1. Len(accepted) \in Nat
      BY Counted, LenProperties, TypeParts DEF RingInv
    <3> QED BY <3>1
  <2> QED BY <2>1
<1>5. Unread(n)'
  BY <1>1, <1>4 DEF Unread, ring
<1> QED BY <1>2, <1>5 DEF ring

\* A try of a message that waits, or that has just come.
LEMMA TryKeeps ==
  ASSUME RingInv, NoWrap, NEW len \in Lens, NEW id \in 1 .. MaxMsgs, Try(id, len),
         posted' \in Seq(Lens), Len(posted') \in 0 .. MaxMsgs, posted'[id] = len,
         \A m \in 1 .. Len(posted) : posted'[m] = posted[m],
         Sorted(Len(posted'), waiting \cup {id}, dropped, accepted),
         UNCHANGED <<jsGoTail, reader, readBuffer, stream>>,
         NEW n \in 0 .. Len(accepted), Unread(n)
  PROVE RingInv' /\ n \in 0 .. Len(accepted') /\ Unread(n)'
<1> DEFINE total == Len(posted')
           waits == waiting \cup {id}
<1>1. id \in waits /\ waits \ {id} = waiting \ {id} /\ total \in Nat /\ total <= MaxMsgs
      /\ Sorted(total, waits, dropped, accepted)
  BY RingAssumption
<1> HIDE DEF total, waits
<1>2. Len(accepted) < MaxMsgs
  <2>1. waits # {} /\ MaxMsgs \in Nat
    BY <1>1, RingAssumption
  <2>2. Len(accepted) \in 0 .. total /\ Len(accepted) < total
    BY <1>1, <2>1, Counted
  <2> QED BY <1>1, <2>1, <2>2
<1>3. RingType /\ ReaderType
  BY TypeParts DEF RingInv
<1>4. CASE /\ UNCHANGED <<jsGoHead, jsGoBuffer, accepted>>
           /\ \/ waiting' = waiting \ {id} /\ dropped' = dropped \cup {id}
              \/ waiting' = waiting \cup {id} /\ UNCHANGED dropped
  <2>1. Sorted(total, waiting', dropped', accepted')
    <3>1. CASE waiting' = waiting \ {id} /\ dropped' = dropped \cup {id}
      <4>1. 0 \in 0 .. Uint - 1
        BY RingAssumption
      <4> QED BY <1>1, <1>4, <3>1, <4>1, OneLess
    <3>2. CASE waiting' = waits /\ UNCHANGED dropped
      BY <1>1, <1>4, <3>2
    <3> QED BY <1>4, <3>1, <3>2 DEF waits
  <2>2. TypeOK'
    BY <1>3, <1>4, <2>1 DEF TypeOK, RingType, ReaderType, Sorted, total
  <2>3. reader'.pc = "take" => jsGoTail # jsGoHead
    BY DEF RingInv, InBlock
  <2>4. UNCHANGED <<ring, accepted>> /\ Len(posted') <= MaxMsgs
    BY <1>1, <1>4 DEF ring, total
  <2>5. InLine' /\ InBlock' /\ BelowWrap' /\ n \in 0 .. Len(accepted') /\ Unread(n)'
    BY <2>3, <2>4, StillKeeps
  <2> QED BY <2>2, <2>5 DEF RingInv
<1>5. ASSUME NEW at \in 0 .. Uint - 1,
             Follows(jsGoHead, at), Pos(at) + FrameSize(len) <= BufferSize,
             at + FrameSize(len) - jsGoTail <= BufferSize,
             jsGoBuffer' = PutFrame(jsGoBuffer, Pos(at), id, len),
             jsGoHead' = at + FrameSize(len), jsGoHead' \in 0 .. Uint - 1,
             accepted' = Append(accepted, [msg |-> id, at |-> at]),
             waiting' = waiting \ {id}, UNCHANGED dropped
      PROVE RingInv' /\ n \in 0 .. Len(accepted') /\ Unread(n)'
  <2>1. Sorted(total, waiting', dropped', accepted')
    BY <1>1, <1>5, OneLess
  <2>2. Len(posted') <= MaxMsgs
    BY <1>1 DEF total
  <2>3. /\ InLine' /\ InBlock' /\ BelowWrap'
        /\ jsGoBuffer' \in [Offsets -> Byte]
        /\ n \in 0 .. Len(accepted') /\ Unread(n)'
    BY <1>2, <1>5, <2>2, PutKeeps
  <2>4. TypeOK'
    BY <1>3, <1>5, <2>1, <2>3 DEF TypeOK, RingType, ReaderType, Sorted, total
  <2> QED BY <2>3, <2>4 DEF RingInv
<1>6. \/ /\ UNCHANGED <<jsGoHead, jsGoBuffer, accepted>>
         /\ \/ waiting' = waiting \ {id} /\ dropped' = dropped \cup {id}
            \/ waiting' = waiting \cup {id} /\ UNCHANGED dropped
      \/ \E at \in 0 .. Uint - 1 :
            /\ Follows(jsGoHead, at) /\ Pos(at) + FrameSize(len) <= BufferSize
            /\ at + FrameSize(len) - jsGoTail <= BufferSize
            /\ jsGoBuffer' = PutFrame(jsGoBuffer, Pos(at), id, len)
            /\ jsGoHead' = at + FrameSize(len) /\ jsGoHead' \in 0 .. Uint - 1
            /\ accepted' = Append(accepted, [msg |-> id, at |-> at])
            /\ waiting' = waiting \ {id} /\ UNCHANGED dropped
  BY <1>2, TryCases
<1> QED BY <1>4, <1>5, <1>6

\* A post, a try and the end of a call.
LEMMA WriteKeeps ==
  ASSUME RingInv, NoWrap, Write, NEW n \in 0 .. Len(accepted), Unread(n)
  PROVE RingInv' /\ n \in 0 .. Len(accepted') /\ Unread(n)'
<1>1. /\ posted \in Seq(Lens) /\ RingType /\ ReaderType
      /\ Sorted(Len(posted), waiting, dropped, accepted)
      /\ Len(posted) \in 0 .. MaxMsgs /\ MaxMsgs \in Nat
  BY TypeParts, Positions DEF RingInv
<1>2. ASSUME NEW len \in Lens, JsPost(len) PROVE RingInv' /\ n \in 0 .. Len(accepted') /\ Unread(n)'
  <2>1. PICK total \in Nat : total = Len(posted) /\ total < MaxMsgs
    BY <1>1, <1>2 DEF JsPost
  <2>2. /\ posted' \in Seq(Lens) /\ Len(posted') = total + 1 /\ posted'[total + 1] = len
        /\ \A m \in 1 .. total : posted'[m] = posted[m]
    BY <1>1, <1>2, <2>1 DEF JsPost
  <2>3. Sorted(total + 1, waiting \cup {total + 1}, dropped, accepted)
    BY <1>1, <2>1, OneMore
  <2>4. total + 1 \in 1 .. MaxMsgs /\ total + 1 \in 0 .. MaxMsgs
    BY <1>1, <2>1
  <2>5. Try(total + 1, len) /\ UNCHANGED <<jsGoTail, reader, readBuffer, stream>>
    BY <1>2, <2>1 DEF JsPost
  <2> QED BY <2>1, <2>2, <2>3, <2>4, <2>5, TryKeeps
<1>3. ASSUME NEW id \in waiting PROVE id \in 1 .. Len(posted) /\ id \in 1 .. MaxMsgs
  BY <1>1, <1>3 DEF Sorted
<1>4. ASSUME NEW id \in waiting, JsRetry(id) PROVE RingInv' /\ n \in 0 .. Len(accepted') /\ Unread(n)'
  <2>1. PICK len \in Lens : len = posted[id]
    BY <1>1, <1>3, ElementOfSeq
  <2>2. waiting \cup {id} = waiting /\ posted' = posted
    BY <1>4 DEF JsRetry
  <2>3. Sorted(Len(posted'), waiting \cup {id}, dropped, accepted)
    BY <1>1, <2>2
  <2>4. Try(id, len) /\ UNCHANGED <<jsGoTail, reader, readBuffer, stream>>
    BY <1>4, <2>1 DEF JsRetry
  <2> QED BY <1>1, <1>3, <2>1, <2>2, <2>3, <2>4, TryKeeps
<1>5. ASSUME NEW id \in waiting, JsGiveUp(id) PROVE RingInv' /\ n \in 0 .. Len(accepted') /\ Unread(n)'
  <2>1. UNCHANGED <<ring, posted, accepted, reader, readBuffer, stream>>
        /\ waiting' = waiting \ {id} /\ dropped' = dropped \cup {id}
    BY <1>5 DEF JsGiveUp
  <2>2. Sorted(Len(posted), waiting', dropped', accepted)
    <3>1. 0 \in 0 .. Uint - 1 /\ Len(posted) \in Nat
      BY <1>1, RingAssumption
    <3> QED BY <1>1, <2>1, <3>1, OneLess
  <2>3. TypeOK'
    BY <1>1, <2>1, <2>2 DEF TypeOK, RingType, ReaderType, Sorted, ring
  <2>4. reader'.pc = "take" => jsGoTail # jsGoHead
    BY <2>1 DEF RingInv, InBlock
  <2>5. InLine' /\ InBlock' /\ BelowWrap' /\ n \in 0 .. Len(accepted') /\ Unread(n)'
    BY <1>1, <2>1, <2>4, StillKeeps
  <2> QED BY <2>3, <2>5 DEF RingInv
<1> QED BY <1>2, <1>4, <1>5 DEF Write

-----------------------------------------------------------------------------
(* Read                                                                    *)

\* The two parts of a message are sequences of bytes.
LEMMA PartsOfMessage ==
  ASSUME NEW s \in Seq(Byte), NEW n \in Nat
  PROVE FirstBytes(s, n) \in Seq(Byte) /\ Rest(s, n) \in Seq(Byte)
<1> HIDE DEF Byte
<1>1. PICK l \in Nat : l = Len(s)
  BY LenProperties
<1>2. PICK m \in Nat : m = (IF n < l THEN n ELSE l) /\ m <= l
  OBVIOUS
<1>3. \A i \in 1 .. m : s[i] \in Byte
  <2>1. \A i \in 1 .. m : i \in 1 .. l
    BY <1>2
  <2> QED BY <1>1, <2>1, ElementOfSeq
<1>4. SubSeq(s, 1, m) \in Seq(Byte)
  <2>1. 1 \in Int /\ m \in Int
    BY <1>2
  <2> QED BY <1>3, <2>1, SubSeqProperties
<1>5. \A i \in n + 1 .. l : s[i] \in Byte
  <2>1. \A i \in n + 1 .. l : i \in 1 .. l
    OBVIOUS
  <2> QED BY <1>1, <2>1, ElementOfSeq
<1>6. SubSeq(s, n + 1, l) \in Seq(Byte)
  <2>1. n + 1 \in Int /\ l \in Int
    OBVIOUS
  <2> QED BY <1>5, <2>1, SubSeqProperties
<1> QED BY <1>1, <1>2, <1>4, <1>6 DEF FirstBytes, Rest

\* The steps of Read that leave the ring alone.
LEMMA ReadKeeps ==
  ASSUME RingInv,
         (\E n \in ReadSizes : GoReadRest(n) \/ GoReadCall(n)) \/ GoReadSeesData,
         NEW n \in 0 .. Len(accepted), Unread(n)
  PROVE RingInv' /\ n \in 0 .. Len(accepted') /\ Unread(n)'
<1>1. /\ RingType /\ ReaderType /\ posted \in Seq(Lens)
      /\ Sorted(Len(posted), waiting, dropped, accepted)
  BY TypeParts DEF RingInv
<1>2. /\ UNCHANGED <<ring, calls>> /\ ReaderType'
      /\ reader'.pc = "take" => jsGoTail # jsGoHead
  <2>1. ASSUME NEW z \in ReadSizes, GoReadRest(z) PROVE <1>2
    <3>1. z \in Nat
      BY ReadSizesAssumption
    <3>2. FirstBytes(readBuffer, z) \in Seq(Byte) /\ Rest(readBuffer, z) \in Seq(Byte)
      BY <1>1, <3>1, PartsOfMessage DEF ReaderType
    <3>3. stream \o FirstBytes(readBuffer, z) \in Seq(Byte)
      <4> HIDE DEF Byte
      <4> QED BY <1>1, <3>2, ConcatProperties DEF ReaderType
    <3> QED BY <1>1, <2>1, <3>2, <3>3 DEF GoReadRest, ReaderType
  <2>2. ASSUME NEW z \in ReadSizes, GoReadCall(z) PROVE <1>2
    BY <1>1, <2>2 DEF GoReadCall, ReaderType
  <2>3. CASE GoReadSeesData
    <3>1. jsGoTail # jsGoHead
      <4> SUFFICES ASSUME jsGoTail = jsGoHead PROVE FALSE
        OBVIOUS
      <4>1. jsGoHead \in Nat /\ Uint \in Nat \ {0}
        BY <1>1, RingAssumption DEF RingType
      <4>2. jsGoHead - jsGoTail = 0 /\ 0 % Uint = 0
        BY <4>1
      <4> QED BY <2>3, <4>2 DEF GoReadSeesData, Uint32
    <3> QED BY <1>1, <2>3, <3>1 DEF GoReadSeesData, ReaderType
  <2> QED BY <2>1, <2>2, <2>3
<1>3. TypeOK'
  BY <1>1, <1>2 DEF TypeOK, RingType, ReaderType, Sorted, ring, calls
<1>4. UNCHANGED <<ring, accepted>> /\ Len(posted') <= MaxMsgs
      /\ \A m \in 1 .. Len(posted) : posted'[m] = posted[m]
  BY <1>2 DEF calls, RingInv, BelowWrap
<1>5. InLine' /\ InBlock' /\ BelowWrap' /\ n \in 0 .. Len(accepted') /\ Unread(n)'
  BY <1>2, <1>4, StillKeeps
<1> QED BY <1>3, <1>5 DEF RingInv

\* What the header at the tail decodes to when a frame begins there.
LEMMA HeaderDecodes ==
  ASSUME RingInv, NEW n \in Nat, Unread(n), NEW i \in 1 .. Len(accepted), i = n + 1,
         i \in n + 1 .. Len(accepted), jsGoTail = accepted[i].at
  PROVE LengthsAt(jsGoBuffer, GoPos) = {LenOf(i)}
<1> DEFINE p == GoPos
<1>1. PICK len \in 0 .. BufferSize : len = LenOf(i)
  BY FrameInRing
<1>2. PICK id : id = accepted[i].msg /\ id # 0
  <2>1. accepted[i].msg \in 1 .. Len(posted)
    BY FrameInRing
  <2> QED BY <2>1
<1>3. \A k \in 0 .. FrameSize(len) - 1 : jsGoBuffer[p + k] = ByteOf(id, len, k)
  BY <1>1, <1>2 DEF Unread, GoPos
<1>4. p \in 0 .. BufferSize - 1
  BY FrameInRing, Place DEF GoPos
<1>5. Header \in 1 .. BufferSize /\ BufferSize \in Nat
  BY RingAssumption
<1> HIDE DEF p
<1>6. \A k \in 0 .. Header - 1 : k \in 0 .. FrameSize(len) - 1
  BY <1>1, <1>5 DEF FrameSize
<1>7. jsGoBuffer[p].msg = id /\ jsGoBuffer[p].len = len
  <2>1. 0 \in 0 .. Header - 1 /\ p + 0 = p
    BY <1>4, <1>5
  <2>2. jsGoBuffer[p] = ByteOf(id, len, 0)
    BY <1>3, <1>6, <2>1
  <2> QED BY <2>2 DEF ByteOf
<1>8. FrameBytes(jsGoBuffer, p, Header)
  BY <1>2, <1>3, <1>6, <1>7 DEF FrameBytes
<1>9. ~(p < 0)
  BY <1>4, <1>5
<1> QED BY <1>1, <1>7, <1>8, <1>9 DEF LengthsAt, p

\* The bytes of a message are bytes, whatever header Read went by.
LEMMA TakeType ==
  ASSUME RingInv, NEW len \in 1 .. BufferSize, GoPos + FrameSize(len) <= BufferSize, Take(len)
  PROVE ReaderType'
<1>1. RingType /\ ReaderType
  BY TypeParts DEF RingInv
<1>2. /\ Header \in 1 .. BufferSize /\ BufferSize \in Nat /\ jsGoTail \in Nat
  BY <1>1, RingAssumption DEF RingType
<1>3. PICK p \in 0 .. BufferSize - 1 : p = GoPos
  BY <1>2, Place DEF GoPos
<1>4. p + Header + len <= BufferSize
  BY <1>2, <1>3 DEF FrameSize
<1> DEFINE message == [k \in 1 .. len |-> jsGoBuffer[p + Header + k - 1]]
<1>5. message \in Seq(Byte)
  <2>1. \A k \in 1 .. len : p + Header + k - 1 \in Offsets
    BY <1>2, <1>3, <1>4 DEF Offsets
  <2>2. \A k \in 1 .. len : jsGoBuffer[p + Header + k - 1] \in Byte
    BY <1>1, <2>1 DEF RingType
  <2>3. len \in Nat
    BY <1>2
  <2> HIDE DEF Byte
  <2> QED BY <2>2, <2>3
<1>6. reader.size \in Nat
  <2>1. reader.size \in ReadSizes \cup {0}
    BY <1>1 DEF ReaderType
  <2>2. 0 \in Nat /\ \A n \in ReadSizes : n \in Nat
    BY ReadSizesAssumption
  <2> QED BY <2>1, <2>2, Zenon
<1> HIDE DEF message
<1>7. FirstBytes(message, reader.size) \in Seq(Byte) /\ Rest(message, reader.size) \in Seq(Byte)
  BY <1>5, <1>6, PartsOfMessage
<1>8. stream \o FirstBytes(message, reader.size) \in Seq(Byte)
  <2> HIDE DEF Byte
  <2> QED BY <1>1, <1>7, ConcatProperties DEF ReaderType
<1> QED BY <1>3, <1>7, <1>8 DEF Take, ReaderType, message

\* Read takes the next frame, or moves through a gap and not past a frame.
LEMMA TakeCases ==
  ASSUME RingInv, NoWrap, NoEmptyMessage, GoReadTake,
         NEW n \in 0 .. Len(accepted), Unread(n)
  PROVE /\ n < Len(accepted)
        /\ UNCHANGED <<jsGoHead, jsGoBuffer, calls>>
        /\ reader'.pc # "take" /\ ReaderType'
        /\ \/ /\ jsGoTail = accepted[n + 1].at /\ jsGoTail' = FrameEnd(n + 1)
              /\ Take(LenOf(n + 1))
           \/ /\ jsGoTail < accepted[n + 1].at /\ jsGoTail' \in Nat
              /\ jsGoTail <= jsGoTail' /\ Follows(jsGoTail', accepted[n + 1].at)
<1>1. /\ jsGoHead \in Nat /\ jsGoTail \in Nat /\ Len(accepted) \in Nat
      /\ BufferSize \in Nat \ {0} /\ Header \in 1 .. BufferSize /\ Uint \in Nat
      /\ jsGoHead < Uint /\ RingType /\ ReaderType
  BY Positions, TypeParts DEF RingInv
<1>2. UNCHANGED <<jsGoHead, jsGoBuffer, calls>> /\ jsGoTail # jsGoHead
  BY DEF GoReadTake, RingInv, InBlock
<1>3. n # Len(accepted)
  BY <1>2 DEF Unread
<1>4. PICK i \in 1 .. Len(accepted) : i = n + 1 /\ i \in n + 1 .. Len(accepted)
  BY <1>1, <1>3
<1>5. PICK at \in Nat : at = accepted[i].at
  BY FrameInRing
<1>6. PICK f \in Nat \ {0} : f = FrameSize(LenOf(i)) /\ Pos(at) + f <= BufferSize
                            /\ FrameEnd(i) = at + f /\ at + f <= jsGoHead
  BY <1>5, FrameInRing DEF RingInv, InLine, FrameEnd
<1>7. Follows(jsGoTail, at)
  BY <1>3, <1>4, <1>5 DEF Unread
<1>8. PICK p \in 0 .. BufferSize - 1 : p = GoPos /\ p = Pos(jsGoTail)
  BY <1>1, Place DEF GoPos
<1>9. ASSUME NEW len \in LengthsAt(jsGoBuffer, GoPos) PROVE len \in 0 .. BufferSize
  <2>1. jsGoBuffer[p].len \in 0 .. BufferSize
    <3>1. p \in Offsets
      BY <1>8 DEF Offsets
    <3> QED BY <1>1, <3>1 DEF RingType, Byte
  <2>2. 0 \in 0 .. BufferSize /\ Garbage \subseteq 0 .. BufferSize
    BY <1>1, RingAssumption
  <2> QED BY <1>8, <1>9, <2>1, <2>2 DEF LengthsAt
<1>10. ASSUME NEW len \in 0 .. BufferSize, len > 0, p + FrameSize(len) <= BufferSize, Take(len)
       PROVE reader'.pc # "take" /\ ReaderType'
  <2>1. len \in 1 .. BufferSize
    BY <1>1, <1>10
  <2> QED BY <1>8, <1>10, <2>1, TakeType DEF Take
<1>11. ASSUME Skip PROVE reader'.pc # "take" /\ ReaderType'
  BY <1>1, <1>11 DEF Skip, ReaderType
<1>12. CASE jsGoTail = at
  <2>1. LengthsAt(jsGoBuffer, GoPos) = {LenOf(i)}
    BY <1>4, <1>5, <1>12, HeaderDecodes
  <2>2. PICK len \in 0 .. BufferSize : len = LenOf(i) /\ len # 0 /\ f = Header + len
    BY <1>4, <1>6, FrameInRing DEF NoEmptyMessage, FrameSize
  <2>3. /\ len > 0 /\ len < BufferSize /\ p + f <= BufferSize
        /\ ~(p + Header > BufferSize)
    <3>1. p + f <= BufferSize /\ p \in Nat /\ BufferSize \in Nat /\ Header \in Nat /\ Header > 0
      BY <1>1, <1>6, <1>8, <1>12
    <3>2. len \in Nat /\ len > 0 /\ f = Header + len
      BY <1>1, <2>2
    <3> QED BY <3>1, <3>2
  <2>4. Take(len)
    BY <1>6, <1>8, <2>1, <2>2, <2>3 DEF GoReadTake
  <2>5. jsGoTail' = at + f
    <3>1. at + f \in Nat /\ at + f < Uint
      BY <1>1, <1>6
    <3> QED BY <1>1, <1>6, <1>12, <2>2, <2>4, <3>1, ModSmall DEF Take, Uint32
  <2>6. n < Len(accepted)
    BY <1>1, <1>3
  <2> QED BY <1>2, <1>4, <1>5, <1>6, <1>10, <1>12, <2>2, <2>3, <2>4, <2>5, <2>6
<1>13. CASE jsGoTail # at
  <2>1. jsGoTail < at /\ NextCycle(jsGoTail) = at /\ at < Uint
    BY <1>1, <1>6, <1>7, <1>13 DEF Follows
  <2>2. n < Len(accepted)
    BY <1>1, <1>3
  <2>3. CASE Skip
    <3>1. jsGoTail' = at
      BY <1>1, <2>1, <2>3, ModSmall DEF Skip, Uint32
    <3>2. jsGoTail <= jsGoTail' /\ Follows(jsGoTail', at)
      BY <1>1, <2>1, <3>1 DEF Follows
    <3> QED BY <1>2, <1>4, <1>5, <1>11, <2>1, <2>2, <2>3, <3>1, <3>2
  <2>4. ASSUME NEW len \in 0 .. BufferSize, len > 0, p + FrameSize(len) <= BufferSize, Take(len)
        PROVE jsGoTail' \in Nat /\ jsGoTail <= jsGoTail' /\ Follows(jsGoTail', at)
    <3>1. PICK g \in Nat : g = FrameSize(len)
      BY <1>1 DEF FrameSize
    <3>2. jsGoTail + g <= at /\ Follows(jsGoTail + g, at)
      BY <1>1, <1>8, <2>1, <2>4, <3>1, GapStep
    <3>3. jsGoTail + g \in Nat /\ jsGoTail + g < Uint
      BY <1>1, <2>1, <3>2
    <3>4. jsGoTail' = jsGoTail + g
      BY <1>1, <2>4, <3>1, <3>3, ModSmall DEF Take, Uint32
    <3>5. jsGoTail <= jsGoTail + g
      BY <1>1
    <3> QED BY <3>2, <3>3, <3>4, <3>5
  <2>5. \/ Skip
        \/ \E len \in LengthsAt(jsGoBuffer, GoPos) :
             len > 0 /\ p + FrameSize(len) <= BufferSize /\ Take(len)
    BY <1>8 DEF GoReadTake
  <2> QED BY <1>2, <1>4, <1>5, <1>9, <1>10, <2>1, <2>2, <2>3, <2>4, <2>5
<1> QED BY <1>12, <1>13

\* A step of Read that moves the tail comes nearer to the next frame.
LEMMA TakeKeeps ==
  ASSUME RingInv, NoWrap, NoEmptyMessage, GoReadTake,
         NEW n \in 0 .. Len(accepted), Unread(n)
  PROVE /\ RingInv'
        /\ \/ /\ jsGoTail = accepted[n + 1].at
              /\ \E m \in 0 .. Len(accepted') : m = n + 1 /\ Unread(m)'
           \/ /\ jsGoTail < accepted[n + 1].at
              /\ n \in 0 .. Len(accepted') /\ Unread(n)'
<1>2. /\ n < Len(accepted)
      /\ UNCHANGED <<jsGoHead, jsGoBuffer, calls>>
      /\ reader'.pc # "take" /\ ReaderType'
      /\ \/ jsGoTail = accepted[n + 1].at /\ jsGoTail' = FrameEnd(n + 1)
         \/ /\ jsGoTail < accepted[n + 1].at /\ jsGoTail' \in Nat
            /\ jsGoTail <= jsGoTail' /\ Follows(jsGoTail', accepted[n + 1].at)
  BY TakeCases
<1>3. PICK l \in Nat : l = Len(accepted) /\ n \in Nat /\ n < l
  <2>1. Len(accepted) \in Nat
    BY Positions
  <2> QED BY <1>2, <2>1
<1>4. /\ jsGoHead \in Nat /\ jsGoTail \in Nat /\ BufferSize \in Nat /\ Uint \in Nat
      /\ jsGoHead < Uint /\ jsGoHead - jsGoTail <= BufferSize /\ jsGoTail <= jsGoHead
  BY Positions DEF RingInv, InBlock
<1>5. PICK at \in Nat, end \in Nat :
        /\ at = accepted[n + 1].at /\ end = FrameEnd(n + 1) /\ at < end /\ end <= jsGoHead
  <2>1. n + 1 \in 1 .. Len(accepted)
    BY <1>3
  <2>2. PICK at \in Nat, f \in Nat \ {0} : at = accepted[n + 1].at /\ f = FrameSize(LenOf(n + 1))
    BY <2>1, FrameInRing
  <2>3. FrameEnd(n + 1) = at + f /\ FrameEnd(n + 1) <= jsGoHead
    BY <2>1, <2>2 DEF RingInv, InLine, FrameEnd
  <2>4. at + f \in Nat /\ at < at + f
    OBVIOUS
  <2> QED BY <2>2, <2>3, <2>4
<1>6. PICK tail : /\ tail = jsGoTail'
                  /\ \/ jsGoTail = at /\ tail = end
                     \/ jsGoTail < at /\ tail \in Nat /\ jsGoTail <= tail /\ Follows(tail, at)
  BY <1>2, <1>5
<1>7. tail \in Nat /\ jsGoTail <= tail /\ tail <= jsGoHead
  BY <1>4, <1>5, <1>6 DEF Follows
<1>8. \A i \in 1 .. l : LenOf(i)' = LenOf(i) /\ FrameEnd(i)' = FrameEnd(i)
  BY <1>2 DEF LenOf, FrameEnd, calls
<1>9. InLine' /\ BelowWrap'
  BY <1>2, <1>3, <1>8 DEF RingInv, InLine, BelowWrap, calls
<1>10. InBlock'
  <2>1. tail <= jsGoHead /\ jsGoHead - tail <= BufferSize
    BY <1>4, <1>7
  <2> QED BY <1>2, <1>6, <2>1 DEF InBlock
<1>11. TypeOK'
  <2>1. tail \in 0 .. Uint - 1
    BY <1>4, <1>7
  <2>2. /\ RingType /\ posted \in Seq(Lens)
        /\ Sorted(Len(posted), waiting, dropped, accepted)
    BY TypeParts DEF RingInv
  <2> QED BY <1>2, <1>6, <2>1, <2>2 DEF TypeOK, RingType, ReaderType, Sorted, calls
<1>12. \A i \in n + 1 .. l : i \in 1 .. l /\ (i = n + 1 \/ i \in n + 2 .. l)
  BY <1>3
<1>13. \A i \in n + 2 .. l : i \in n + 1 .. l /\ end <= accepted[i].at
  <2> SUFFICES ASSUME NEW i \in n + 2 .. l PROVE i \in n + 1 .. l /\ end <= accepted[i].at
    OBVIOUS
  <2>1. n + 1 \in 1 .. l /\ i \in 1 .. l /\ n + 1 < i /\ i \in n + 1 .. l
    BY <1>3
  <2> QED BY <1>3, <1>5, <2>1 DEF RingInv, InLine
<1>14. \A i \in n + 1 .. l : \A k \in 0 .. FrameSize(LenOf(i)') - 1 :
         jsGoBuffer'[Pos(accepted'[i].at) + k] = ByteOf(accepted'[i].msg, LenOf(i)', k)
  BY <1>2, <1>3, <1>8, <1>12 DEF Unread, calls
<1>15. CASE jsGoTail = at /\ tail = end
  <2>0. PICK m \in Nat : m = n + 1
    BY <1>3
  <2>1. m = n + 1 /\ m \in 0 .. l /\ m \in 1 .. l
    BY <1>3, <2>0
  <2>2. IF m = l THEN tail = jsGoHead ELSE Follows(tail, accepted[m + 1].at)
    BY <1>3, <1>5, <1>15, <2>1 DEF RingInv, InLine
  <2>3. \A i \in m + 1 .. l : i \in n + 2 .. l /\ i \in n + 1 .. l
    BY <1>3, <2>1
  <2>4. Unread(m)'
    BY <1>2, <1>3, <1>6, <1>13, <1>14, <1>15, <2>2, <2>3 DEF Unread, calls
  <2>5. m \in 0 .. Len(accepted')
    BY <1>2, <1>3, <2>1 DEF calls
  <2> QED BY <1>5, <1>9, <1>10, <1>11, <1>15, <2>1, <2>4, <2>5 DEF RingInv
<1>16. CASE jsGoTail < at /\ Follows(tail, at)
  <2>1. tail <= at
    BY <1>5, <1>7, <1>16 DEF Follows
  <2>2. \A i \in n + 1 .. l : tail <= accepted[i].at
    <3> SUFFICES ASSUME NEW i \in n + 1 .. l PROVE tail <= accepted[i].at
      OBVIOUS
    <3>1. CASE i = n + 1
      BY <1>5, <2>1, <3>1
    <3>2. CASE i \in n + 2 .. l
      <4>1. PICK b \in Nat : b = accepted[i].at
        BY <1>3, <1>12, FrameInRing
      <4>2. end <= b
        BY <1>13, <3>2, <4>1
      <4> QED BY <1>5, <1>7, <2>1, <4>1, <4>2
    <3> QED BY <1>12, <3>1, <3>2
  <2>3. Unread(n)'
    BY <1>2, <1>3, <1>5, <1>6, <1>14, <1>16, <2>2 DEF Unread, calls
  <2>4. n \in 0 .. Len(accepted')
    BY <1>2, <1>3 DEF calls
  <2> QED BY <1>5, <1>9, <1>10, <1>11, <1>16, <2>3, <2>4 DEF RingInv
<1> QED BY <1>6, <1>15, <1>16

-----------------------------------------------------------------------------
(* The theorem                                                             *)

\* Every step keeps the invariant.
LEMMA RingStep ==
  ASSUME NoWrap, NoEmptyMessage, RingInv, [Next]_vars
  PROVE RingInv'
<1>0. PICK k \in 0 .. Len(accepted) : Unread(k)
  BY DEF RingInv
<1>1. CASE Write
  BY <1>0, <1>1, WriteKeeps
<1>2. CASE (\E n \in ReadSizes : GoReadRest(n) \/ GoReadCall(n)) \/ GoReadSeesData
  BY <1>0, <1>2, ReadKeeps
<1>3. CASE GoReadTake
  BY <1>0, <1>3, TakeKeeps
<1>4. CASE UNCHANGED vars
  BY <1>4 DEF vars, RingInv, TypeOK, InLine, FrameEnd, LenOf, InBlock, BelowWrap, Unread
<1> QED BY <1>1, <1>2, <1>3, <1>4 DEF Next, Read

\* Frames of waiting calls that wake in any order never share a byte of what is
\* not read.
THEOREM FramesStayApart ==
  ASSUME NoWrap, NoEmptyMessage
  PROVE Spec => []FramesDisjoint
<1>1. RingInv => FramesDisjoint
  <2> SUFFICES ASSUME RingInv PROVE FramesDisjoint
    OBVIOUS
  <2> HIDE DEF TypeOK
  <2>1. TypeOK
    BY DEF RingInv
  <2>2. ASSUME NEW i \in 1 .. Len(accepted), NEW j \in 1 .. Len(accepted), i < j
        PROVE accepted[i].at + FrameSize(LenOf(i)) <= accepted[j].at
    BY <2>2 DEF RingInv, InLine, FrameEnd
  <2>3. ASSUME NEW i \in 1 .. Len(accepted), NEW j \in 1 .. Len(accepted),
               jsGoTail <= accepted[i].at
        PROVE accepted[j].at + FrameSize(LenOf(j)) - accepted[i].at <= BufferSize
    <3>1. PICK a \in Nat : a = accepted[i].at
      BY FrameInRing
    <3>2. PICK b \in Nat, f \in Nat : b = accepted[j].at /\ f = FrameSize(LenOf(j))
      BY FrameInRing
    <3>3. /\ jsGoHead \in Nat /\ jsGoTail \in Nat /\ BufferSize \in Nat
          /\ jsGoHead - jsGoTail <= BufferSize /\ b + f <= jsGoHead
      BY <3>2, Positions DEF RingInv, InBlock, InLine, FrameEnd
    <3>4. b + (f - a) <= BufferSize
      BY <2>3, <3>1, <3>3
    <3> QED BY <3>1, <3>2, <3>4
  <2> SUFFICES ASSUME NEW i \in 1 .. Len(accepted), NEW j \in 1 .. Len(accepted), i < j
               PROVE /\ accepted[i].at + FrameSize(LenOf(i)) <= accepted[j].at
                     /\ jsGoTail <= accepted[i].at =>
                          accepted[j].at + FrameSize(LenOf(j)) - accepted[i].at <= BufferSize
    BY <2>1, Zenon DEF FramesDisjoint
  <2> QED BY <2>2, <2>3
<1> QED BY <1>1, RingInit, RingStep, PTL DEF Spec
-----------------------------------------------------------------------------
(* Sequences one after the other                                           *)

\* Induction over the natural numbers: what holds of 0 and, with each number, of
\* the next, holds of all.
LEMMA Induction ==
  ASSUME NEW S, 0 \in S, \A n \in Nat : n \in S => n + 1 \in S
  PROVE Nat \subseteq S
<1> DEFINE less == StrictSubsetOrdering(Nat)
           ends == {0 .. n : n \in Nat \ S}
<1>1. IsWellFoundedOn(less, FiniteSubsetsOf(Nat))
  BY FS_StrictSubsetOrderingWellFounded
<1>2. SUFFICES ASSUME ends # {} PROVE FALSE
  OBVIOUS
<1>3. ends \subseteq FiniteSubsetsOf(Nat)
  <2>1. ASSUME NEW n \in Nat PROVE 0 .. n \in FiniteSubsetsOf(Nat)
    <3>1. IsFiniteSet(0 .. n)
      BY FS_Interval
    <3> QED BY <3>1 DEF FiniteSubsetsOf
  <2> QED BY <2>1
<1>4. PICK X \in ends : \A Y \in ends : ~ (<<Y, X>> \in less)
  <2> HIDE DEF less, ends
  <2> QED BY <1>1, <1>2, <1>3, WFMin
<1>5. PICK x \in Nat \ S : X = 0 .. x
  OBVIOUS
<1>6. x - 1 \in Nat \ S /\ x \in X /\ x \notin 0 .. x - 1 /\ 0 .. x - 1 \subseteq X
  <2>1. x # 0 /\ x \in Nat
    BY <1>5
  <2>2. x - 1 \in Nat /\ (x - 1) + 1 = x
    BY <2>1
  <2> QED BY <1>5, <2>1, <2>2
<1>7. <<0 .. x - 1, X>> \in less
  <2>1. 0 .. x - 1 \in SUBSET Nat /\ X \in SUBSET Nat /\ 0 .. x - 1 # X
    BY <1>5, <1>6
  <2> QED BY <1>6, <2>1 DEF StrictSubsetOrdering
<1> QED BY <1>4, <1>6, <1>7

\* f[i] is the first i of the sequences in s one after the other, for i up to n.
IsFlat(f, n, s) ==
  f = [i \in 1 .. n |-> IF i = 1 THEN s[i] ELSE f[i - 1] \o s[i]]

LEMMA FlatNext ==
  ASSUME NEW s, NEW n \in Nat, NEW f, IsFlat(f, n, s), NEW i \in Nat, i + 1 <= n
  PROVE f[i + 1] = IF i = 0 THEN s[i + 1] ELSE f[i] \o s[i + 1]
<1>1. PICK j \in 1 .. n : j = i + 1 /\ j - 1 = i /\ (j = 1 <=> i = 0)
  OBVIOUS
<1>2. f[j] = IF j = 1 THEN s[j] ELSE f[j - 1] \o s[j]
  BY <1>1 DEF IsFlat
<1> QED BY <1>1, <1>2

\* There is such a function, so the one FlattenSeq chooses is one.
LEMMA FlatExists ==
  ASSUME NEW s
  PROVE \A n \in Nat : \E f : IsFlat(f, n, s)
<1> DEFINE S == {n \in Nat : \E f : IsFlat(f, n, s)}
<1>1. 0 \in S
  <2>1. IsFlat([i \in 1 .. 0 |-> 0], 0, s)
    BY DEF IsFlat
  <2> QED BY <2>1
<1>2. ASSUME NEW n \in Nat, n \in S PROVE n + 1 \in S
  <2>1. PICK f : IsFlat(f, n, s)
    BY <1>2
  <2> DEFINE last == IF n = 0 THEN s[n + 1] ELSE f[n] \o s[n + 1]
             g == [i \in 1 .. n + 1 |-> IF i = n + 1 THEN last ELSE f[i]]
  <2>2. ASSUME NEW i \in 1 .. n + 1
        PROVE g[i] = IF i = 1 THEN s[i] ELSE g[i - 1] \o s[i]
    <3>1. CASE i = n + 1
      <4>1. g[i] = last /\ (i = 1 <=> n = 0) /\ i - 1 = n /\ (n # 0 => g[n] = f[n])
        BY <3>1
      <4> QED BY <4>1, <3>1
    <3>2. CASE i # n + 1
      <4>1. i \in 1 .. n /\ g[i] = f[i]
        BY <3>2
      <4>2. i # 1 => i - 1 \in 1 .. n + 1 /\ i - 1 # n + 1 /\ g[i - 1] = f[i - 1]
        BY <4>1
      <4>3. f[i] = IF i = 1 THEN s[i] ELSE f[i - 1] \o s[i]
        BY <2>1, <4>1 DEF IsFlat
      <4> HIDE DEF g
      <4> QED BY <4>1, <4>2, <4>3
    <3> QED BY <3>1, <3>2
  <2>3. IsFlat(g, n + 1, s)
    <3>1. g = [i \in 1 .. n + 1 |-> g[i]]
      OBVIOUS
    <3> HIDE DEF g
    <3> QED BY <2>2, <3>1 DEF IsFlat
  <2> QED BY <2>3
<1>3. Nat \subseteq S
  <2> HIDE DEF S
  <2> QED BY <1>1, <1>2, Induction
<1> QED BY <1>3

\* There is one such function only, whatever follows in the sequence.
LEMMA FlatUnique ==
  ASSUME NEW s, NEW t, NEW n \in Nat \ {0}, NEW m \in Nat, NEW f, NEW g,
         n <= m, \A i \in 1 .. n : s[i] = t[i],
         IsFlat(f, n, s), IsFlat(g, m, t)
  PROVE f[n] = g[n]
<1> DEFINE S == {i \in Nat : 1 <= i /\ i <= n => f[i] = g[i]}
<1>1. 0 \in S
  OBVIOUS
<1>2. ASSUME NEW i \in Nat, i \in S PROVE i + 1 \in S
  <2>1. SUFFICES ASSUME i + 1 <= n PROVE f[i + 1] = g[i + 1]
    OBVIOUS
  <2>2. i + 1 <= m /\ i + 1 \in 1 .. n /\ i <= n /\ (i # 0 => 1 <= i)
    BY <2>1
  <2>3. (i # 0 => f[i] = g[i]) /\ s[i + 1] = t[i + 1]
    BY <1>2, <2>2
  <2>4. f[i + 1] = IF i = 0 THEN s[i + 1] ELSE f[i] \o s[i + 1]
    BY <2>1, FlatNext
  <2>5. g[i + 1] = IF i = 0 THEN t[i + 1] ELSE g[i] \o t[i + 1]
    BY <2>2, FlatNext
  <2> QED BY <2>3, <2>4, <2>5
<1>3. Nat \subseteq S
  <2> HIDE DEF S
  <2> QED BY <1>1, <1>2, Induction
<1> QED BY <1>3

\* FlattenSeq(s) is what that function comes to at the end.
LEMMA FlattenIsFlat ==
  ASSUME NEW s, Len(s) \in Nat \ {0}
  PROVE \E f : IsFlat(f, Len(s), s) /\ FlattenSeq(s) = f[Len(s)]
<1> DEFINE some == CHOOSE f : IsFlat(f, Len(s), s)
<1>1. FlattenSeq(s) = some[Len(s)]
  BY DEF FlattenSeq, IsFlat
<1>2. IsFlat(some, Len(s), s)
  <2>1. \E f : IsFlat(f, Len(s), s)
    BY FlatExists
  <2> QED BY <2>1
<1> QED BY <1>1, <1>2

\* A sequence more is appended.
LEMMA FlattenNext ==
  ASSUME NEW n \in Nat, NEW s, NEW t, Len(s) = n, Len(t) = n + 1,
         \A i \in 1 .. n : s[i] = t[i]
  PROVE FlattenSeq(t) = IF n = 0 THEN t[n + 1] ELSE FlattenSeq(s) \o t[n + 1]
<1>1. PICK m \in Nat \ {0} : m = n + 1 /\ n <= m
  OBVIOUS
<1>2. PICK g : IsFlat(g, m, t) /\ FlattenSeq(t) = g[m]
  BY <1>1, FlattenIsFlat
<1>3. g[n + 1] = IF n = 0 THEN t[n + 1] ELSE g[n] \o t[n + 1]
  BY <1>1, <1>2, FlatNext
<1>4. CASE n = 0
  BY <1>1, <1>2, <1>3, <1>4
<1>5. CASE n # 0
  <2>1. PICK f : IsFlat(f, n, s) /\ FlattenSeq(s) = f[n]
    BY <1>5, FlattenIsFlat
  <2>2. f[n] = g[n]
    BY <1>1, <1>2, <1>5, <2>1, FlatUnique
  <2> QED BY <1>1, <1>2, <1>3, <1>5, <2>1, <2>2
<1> QED BY <1>4, <1>5
\* A sequence begins with what is left when its end is cut off.
LEMMA Begins ==
  ASSUME NEW S, NEW s \in Seq(S), NEW r \in Seq(S)
  PROVE IsPrefix(s, s \o r)
<1>1. Len(s) \in Nat /\ Len(r) \in Nat /\ Len(s \o r) = Len(s) + Len(r)
  OBVIOUS
<1>2. SubSeq(s, 1, Len(s)) = s /\ SubSeq(s \o r, 1, Len(s)) = s
  <2>1. SubSeq(s, 1, Len(s)) = s
    BY SubSeqFull
  <2>2. SubSeq(s \o r, 1, Len(s)) = s
    OBVIOUS
  <2> QED BY <2>1, <2>2
<1>3. Len(s) <= Len(s \o r)
  BY <1>1
<1> QED BY <1>2, <1>3 DEF IsPrefix

-----------------------------------------------------------------------------
(* Frames of one size                                                      *)

OneSize == \A i, j \in 1 .. Len(accepted) : LenOf(i) = LenOf(j)

\* Only frames are ever written.
Written ==
  \A q \in Offsets :
    \/ jsGoBuffer[q] = Blank
    \/ \E i \in 1 .. Len(accepted) : Covers(Pos(accepted[i].at), FrameSize(LenOf(i)), q)

\* A gap is left only before a frame that does not fit into it.
OnlyWhenFull ==
  \A i \in 1 .. Len(accepted) : i # Len(accepted) =>
    \/ accepted[i + 1].at = FrameEnd(i)
    \/ Pos(FrameEnd(i)) + FrameSize(LenOf(i + 1)) > BufferSize

\* Frames of one size stand at multiples of it.
Slots == \A i \in 1 .. Len(accepted) : Multiple(Pos(accepted[i].at), FrameSize(LenOf(i)))

\* The guest's tail is at the next frame or where the last one it took ends.
AtEnds(n) ==
  n < Len(accepted) =>
    jsGoTail = accepted[n + 1].at \/ (n > 0 /\ jsGoTail = FrameEnd(n))

\* The payloads of the first n frames.
Payloads(n) == FlattenSeq([i \in 1 .. n |-> Payload(i)])

\* The guest has taken n frames, and nothing else.
Taken(n) == Unread(n) /\ AtEnds(n) /\ stream \o readBuffer = Payloads(n)

StreamInv ==
  /\ RingInv /\ Written /\ OnlyWhenFull
  /\ reader.pc # "idle" => readBuffer = <<>>
  /\ OneSize => Slots /\ \E n \in 0 .. Len(accepted) : Taken(n)

\* A payload is as many bytes as its length says.
LEMMA PayloadType ==
  ASSUME RingInv, NEW i \in 1 .. Len(accepted)
  PROVE Payload(i) \in Seq(Byte) /\ Len(Payload(i)) = LenOf(i)
<1>1. PICK len \in 0 .. BufferSize : len = LenOf(i) /\ accepted[i].at \in Nat
  BY FrameInRing
<1>2. PICK id \in 0 .. MaxMsgs : id = accepted[i].msg
  <2>1. accepted[i].msg \in 1 .. Len(posted) /\ Len(posted) <= MaxMsgs
    BY FrameInRing DEF RingInv, BelowWrap
  <2>2. Len(posted) \in Nat /\ MaxMsgs \in Nat
    BY RingAssumption, LenProperties, TypeParts DEF RingInv
  <2> QED BY <2>1, <2>2
<1>3. Header + len <= BufferSize
  <2>1. Pos(accepted[i].at) \in 0 .. BufferSize - 1
        /\ Pos(accepted[i].at) + FrameSize(len) <= BufferSize
    BY <1>1, Place DEF RingInv, InLine
  <2> QED BY <2>1, RingAssumption DEF FrameSize
<1>4. Payload(i) = [k \in 1 .. len |-> ByteOf(id, len, Header + k - 1)]
  BY <1>1, <1>2 DEF Payload
<1>5. \A k \in 1 .. len : ByteOf(id, len, Header + k - 1) \in Byte
  <2> SUFFICES ASSUME NEW k \in 1 .. len PROVE ByteOf(id, len, Header + k - 1) \in Byte
    OBVIOUS
  <2>1. Header + k - 1 \in 0 .. BufferSize
    BY <1>3, RingAssumption
  <2> QED BY <2>1 DEF ByteOf, Byte
<1>6. len \in Nat
  BY RingAssumption
<1> HIDE DEF Byte
<1> QED BY <1>1, <1>4, <1>5, <1>6

\* A frame more is a payload more.
LEMMA PayloadsNext ==
  ASSUME RingInv, NEW n \in Nat, n + 1 \in 1 .. Len(accepted), Payloads(n) \in Seq(Byte)
  PROVE Payloads(n + 1) = Payloads(n) \o Payload(n + 1)
<1> DEFINE s == [i \in 1 .. n |-> Payload(i)]
           t == [i \in 1 .. n + 1 |-> Payload(i)]
<1>1. Len(s) = n /\ Len(t) = n + 1
  OBVIOUS
<1>2. \A i \in 1 .. n : s[i] = t[i]
  OBVIOUS
<1>3. t[n + 1] = Payload(n + 1)
  OBVIOUS
<1>4. n = 0 => s = <<>>
  OBVIOUS
<1> HIDE DEF s, t
<1>5. FlattenSeq(t) = IF n = 0 THEN t[n + 1] ELSE FlattenSeq(s) \o t[n + 1]
  BY <1>1, <1>2, FlattenNext
<1>6. Payloads(n) = FlattenSeq(s) /\ Payloads(n + 1) = FlattenSeq(t)
  BY DEF Payloads, s, t
<1>7. CASE n = 0
  <2>1. FlattenSeq(s) = <<>>
    BY <1>1, <1>4, <1>7 DEF FlattenSeq
  <2>2. Payload(n + 1) \in Seq(Byte)
    BY PayloadType
  <2>3. <<>> \o Payload(n + 1) = Payload(n + 1)
    <3> HIDE DEF Byte
    <3> QED BY <2>2
  <2> QED BY <1>3, <1>5, <1>6, <1>7, <2>1, <2>3
<1>8. CASE n # 0
  BY <1>3, <1>5, <1>6, <1>8
<1> QED BY <1>7, <1>8

LEMMA PayloadsEmpty == Payloads(0) = <<>>
<1>1. [i \in 1 .. 0 |-> Payload(i)] = <<>>
  OBVIOUS
<1>2. Len(<<>>) = 0
  OBVIOUS
<1> QED BY <1>1, <1>2 DEF Payloads, FlattenSeq

\* The payloads of some frames, and those of all, which begin with them.
LEMMA PayloadsType ==
  ASSUME RingInv, NEW n \in 0 .. Len(accepted)
  PROVE Payloads(n) \in Seq(Byte)
<1>1. PICK l \in Nat : l = Len(accepted)
  BY Counted, LenProperties, TypeParts DEF RingInv
<1> DEFINE S == {m \in Nat : m <= l => Payloads(m) \in Seq(Byte)}
<1>2. 0 \in S
  <2>1. <<>> \in Seq(Byte) /\ 0 \in Nat
    OBVIOUS
  <2> QED BY <2>1, PayloadsEmpty, Zenon
<1>3. ASSUME NEW m \in Nat, m \in S PROVE m + 1 \in S
  <2>1. SUFFICES ASSUME m + 1 <= l PROVE Payloads(m + 1) \in Seq(Byte)
    OBVIOUS
  <2>2. Payloads(m) \in Seq(Byte) /\ m + 1 \in 1 .. Len(accepted)
    BY <1>1, <1>3, <2>1
  <2>3. Payload(m + 1) \in Seq(Byte)
    BY <2>2, PayloadType
  <2>4. Payloads(m + 1) = Payloads(m) \o Payload(m + 1)
    BY <2>2, PayloadsNext
  <2> HIDE DEF Byte
  <2> QED BY <2>2, <2>3, <2>4, ConcatProperties
<1>4. Nat \subseteq S
  <2> HIDE DEF S
  <2> QED BY <1>2, <1>3, Induction
<1> QED BY <1>1, <1>4

LEMMA PayloadsBegin ==
  ASSUME RingInv, NEW n \in 0 .. Len(accepted)
  PROVE IsPrefix(Payloads(n), Payloads(Len(accepted)))
<1>1. PICK l \in Nat : l = Len(accepted)
  BY Counted, LenProperties, TypeParts DEF RingInv
<1>2. PICK a \in Seq(Byte) : a = Payloads(n)
  BY PayloadsType
<1> DEFINE S == {m \in Nat : n <= m /\ m <= l =>
                   \E r \in Seq(Byte) : Payloads(m) = a \o r}
<1> HIDE DEF Byte
<1>3. a \o <<>> = a /\ <<>> \in Seq(Byte)
  BY <1>2
<1>4. 0 \in S
  <2>1. ASSUME n <= 0 PROVE \E r \in Seq(Byte) : Payloads(0) = a \o r
    <3>1. n = 0
      BY <1>1, <2>1
    <3>2. Payloads(0) = a \o <<>>
      BY <1>2, <1>3, <3>1
    <3> QED BY <1>3, <3>2
  <2>2. 0 \in Nat
    OBVIOUS
  <2> QED BY <2>1, <2>2, Zenon
<1>5. ASSUME NEW m \in Nat, m \in S PROVE m + 1 \in S
  <2>1. SUFFICES ASSUME n <= m + 1, m + 1 <= l
                 PROVE \E r \in Seq(Byte) : Payloads(m + 1) = a \o r
    OBVIOUS
  <2>2. CASE n = m + 1
    BY <1>2, <1>3, <2>2
  <2>3. CASE n # m + 1
    <3>1. n <= m /\ m <= l /\ m + 1 \in 1 .. Len(accepted) /\ m \in 0 .. Len(accepted)
      BY <1>1, <2>1, <2>3
    <3>2. PICK r \in Seq(Byte) : Payloads(m) = a \o r
      BY <1>5, <3>1
    <3>3. PICK p \in Seq(Byte) : p = Payload(m + 1)
      BY <3>1, PayloadType
    <3>4. Payloads(m) \in Seq(Byte)
      BY <3>1, PayloadsType
    <3>5. Payloads(m + 1) = (a \o r) \o p
      BY <3>1, <3>2, <3>3, <3>4, PayloadsNext
    <3>6. (a \o r) \o p = a \o (r \o p) /\ r \o p \in Seq(Byte)
      OBVIOUS
    <3> QED BY <3>5, <3>6
  <2> QED BY <2>2, <2>3
<1>6. Nat \subseteq S
  <2> HIDE DEF S
  <2> QED BY <1>4, <1>5, Induction
<1>7. PICK r \in Seq(Byte) : Payloads(l) = a \o r
  <2>1. n <= l /\ l <= l
    BY <1>1
  <2> QED BY <1>6, <2>1
<1> QED BY <1>1, <1>2, <1>7, Begins

\* The header the guest finds in a gap was never written.
LEMMA GapIsBlank ==
  ASSUME StreamInv, NoWrap, OneSize, NEW n \in 0 .. Len(accepted), Taken(n),
         n < Len(accepted), jsGoTail # accepted[n + 1].at, GoPos + Header <= BufferSize
  PROVE LengthsAt(jsGoBuffer, GoPos) = {0}
<1>1. /\ jsGoHead \in Nat /\ jsGoTail \in Nat /\ Len(accepted) \in Nat
      /\ BufferSize \in Nat \ {0} /\ Header \in 1 .. BufferSize
  BY Positions DEF StreamInv
<1>2. n \in 1 .. Len(accepted) /\ n # Len(accepted) /\ n + 1 \in 1 .. Len(accepted)
  BY <1>1 DEF Taken, AtEnds
<1> DEFINE f == FrameSize(LenOf(n))
           p == GoPos
<1>3. f = FrameSize(LenOf(n + 1)) /\ \A j \in 1 .. Len(accepted) : FrameSize(LenOf(j)) = f
  BY <1>2 DEF OneSize
<1>4. f \in Nat \ {0} /\ \A j \in 1 .. Len(accepted) : accepted[j].at \in Nat
  BY <1>2, FrameInRing DEF StreamInv
<1>5. jsGoTail = accepted[n].at + f /\ jsGoTail = FrameEnd(n)
  BY <1>2 DEF Taken, AtEnds, FrameEnd
<1>6. \A j \in 1 .. Len(accepted) :
        Pos(accepted[j].at) + f <= BufferSize /\ Multiple(Pos(accepted[j].at), f)
  BY <1>3 DEF StreamInv, RingInv, InLine, Slots
<1>7. p + f > BufferSize
  BY <1>2, <1>3, <1>5 DEF StreamInv, OnlyWhenFull, GoPos
<1> HIDE DEF f
<1>8. Multiple(p, f)
  BY <1>2, <1>4, <1>5, <1>6, SlotAfter DEF GoPos
<1>9. p \in Nat /\ p < BufferSize
  <2>1. p \in 0 .. BufferSize - 1
    BY <1>1, Place DEF GoPos
  <2> HIDE DEF p
  <2> QED BY <1>1, <2>1
<1> HIDE DEF p
<1>10. \A j \in 1 .. Len(accepted) : Pos(accepted[j].at) \in Nat /\ Pos(accepted[j].at) + f <= p
  <2> SUFFICES ASSUME NEW j \in 1 .. Len(accepted)
               PROVE Pos(accepted[j].at) \in Nat /\ Pos(accepted[j].at) + f <= p
    OBVIOUS
  <2>1. PICK x \in Nat : x = Pos(accepted[j].at)
    <3>1. Pos(accepted[j].at) \in 0 .. BufferSize - 1
      BY <1>4, Place
    <3> QED BY <1>1, <3>1
  <2>2. x + f <= BufferSize /\ Multiple(x, f)
    BY <1>6, <2>1
  <2>3. x < p
    BY <1>1, <1>4, <1>7, <1>9, <2>2
  <2>4. x + f <= p
    BY <1>4, <1>8, <1>9, <2>2, <2>3, LastSlot
  <2> QED BY <2>1, <2>4
<1>11. ASSUME NEW k \in 0 .. Header - 1 PROVE jsGoBuffer[p + k] = Blank
  <2>1. p + k \in Offsets /\ k \in Nat
    BY <1>1, <1>9 DEF Offsets, p
  <2>2. ASSUME NEW j \in 1 .. Len(accepted),
               Covers(Pos(accepted[j].at), FrameSize(LenOf(j)), p + k)
        PROVE FALSE
    <3>1. PICK x \in Nat : x = Pos(accepted[j].at) /\ x + f <= p
      BY <1>10
    <3>2. p + k < x + f
      BY <1>3, <2>2, <3>1 DEF Covers
    <3> QED BY <1>4, <1>9, <2>1, <3>1, <3>2
  <2> QED BY <2>1, <2>2 DEF StreamInv, Written
<1>12. jsGoBuffer[p] = Blank
  <2>1. 0 \in 0 .. Header - 1 /\ p + 0 = p
    BY <1>1, <1>9
  <2> QED BY <1>11, <2>1
<1>13. ~FrameBytes(jsGoBuffer, p, Header) /\ ~(p < 0)
  BY <1>9, <1>12 DEF FrameBytes, Blank
<1> QED BY <1>11, <1>13 DEF LengthsAt, p

\* A frame that a try puts, next to the last or at the next cycle.
Puts(id, len, at) ==
  /\ Follows(jsGoHead, at) /\ Pos(at) + FrameSize(len) <= BufferSize
  /\ at = jsGoHead \/ Pos(jsGoHead) + FrameSize(len) > BufferSize
  /\ jsGoBuffer' = PutFrame(jsGoBuffer, Pos(at), id, len)
  /\ accepted' = Append(accepted, [msg |-> id, at |-> at])
  /\ posted'[id] = len

\* What the calls of write() change.
LEMMA WriteCases ==
  ASSUME RingInv, NoWrap, Write
  PROVE /\ UNCHANGED <<jsGoTail, reader, readBuffer, stream>>
        /\ \A m \in 1 .. Len(posted) : posted'[m] = posted[m]
        /\ \/ UNCHANGED <<jsGoHead, jsGoBuffer, accepted>>
           \/ \E id, len, at : len \in Lens /\ Puts(id, len, at)
<1>1. /\ posted \in Seq(Lens) /\ Sorted(Len(posted), waiting, dropped, accepted)
      /\ Len(posted) \in 0 .. MaxMsgs /\ MaxMsgs \in Nat
      /\ Len(accepted) \in 0 .. Len(posted)
  BY TypeParts, Positions DEF RingInv
<1>2. ASSUME Len(accepted) < MaxMsgs, NEW id, NEW len \in Lens, Try(id, len), posted'[id] = len
      PROVE \/ UNCHANGED <<jsGoHead, jsGoBuffer, accepted>>
            \/ \E at : Puts(id, len, at)
  BY <1>2, TryCases DEF Puts
<1>3. ASSUME NEW len \in Lens, JsPost(len)
      PROVE /\ UNCHANGED <<jsGoTail, reader, readBuffer, stream>>
            /\ \A m \in 1 .. Len(posted) : posted'[m] = posted[m]
            /\ \/ UNCHANGED <<jsGoHead, jsGoBuffer, accepted>>
               \/ \E id, l, at : l \in Lens /\ Puts(id, l, at)
  <2>1. PICK total \in Nat : total = Len(posted) /\ total < MaxMsgs
    BY <1>1, <1>3 DEF JsPost
  <2>2. posted'[total + 1] = len /\ \A m \in 1 .. total : posted'[m] = posted[m]
    BY <1>1, <1>3, <2>1 DEF JsPost
  <2>3. Try(total + 1, len) /\ UNCHANGED <<jsGoTail, reader, readBuffer, stream>>
    BY <1>3, <2>1 DEF JsPost
  <2>4. Len(accepted) < MaxMsgs
    BY <1>1, <2>1
  <2>5. \/ UNCHANGED <<jsGoHead, jsGoBuffer, accepted>>
        \/ \E id, l, at : l \in Lens /\ Puts(id, l, at)
    BY <1>2, <2>2, <2>3, <2>4
  <2> QED BY <2>1, <2>2, <2>3, <2>5
<1>4. ASSUME NEW w \in waiting, JsRetry(w)
      PROVE /\ UNCHANGED <<jsGoTail, reader, readBuffer, stream>>
            /\ \A m \in 1 .. Len(posted) : posted'[m] = posted[m]
            /\ \/ UNCHANGED <<jsGoHead, jsGoBuffer, accepted>>
               \/ \E id, l, at : l \in Lens /\ Puts(id, l, at)
  <2>1. w \in 1 .. Len(posted)
    BY <1>1 DEF Sorted
  <2>2. PICK len \in Lens : len = posted[w]
    BY <1>1, <2>1, ElementOfSeq
  <2>3. Try(w, len) /\ UNCHANGED <<posted, jsGoTail, reader, readBuffer, stream>>
    BY <1>4, <2>2 DEF JsRetry
  <2>4. Len(accepted) < MaxMsgs
    <3>1. waiting # {} /\ Len(posted) \in Nat
      BY <1>1
    <3>2. Len(accepted) < Len(posted)
      BY <1>1, <3>1, Counted
    <3> QED BY <1>1, <3>2
  <2>5. \/ UNCHANGED <<jsGoHead, jsGoBuffer, accepted>>
        \/ \E id, l, at : l \in Lens /\ Puts(id, l, at)
    BY <1>2, <2>2, <2>3, <2>4
  <2> QED BY <2>3, <2>5
<1>5. ASSUME NEW w \in waiting, JsGiveUp(w)
      PROVE UNCHANGED <<ring, posted, accepted, reader, readBuffer, stream>>
  BY <1>5 DEF JsGiveUp
<1> QED BY <1>3, <1>4, <1>5 DEF Write, ring

\* A frame more: it is where one of its size fits, and the others stay.
LEMMA PutKeepsSize ==
  ASSUME StreamInv, RingInv', NoWrap, NoEmptyMessage, NEW id, NEW len \in Lens, NEW at,
         Puts(id, len, at),
         UNCHANGED <<jsGoTail, reader, readBuffer, stream>>,
         \A m \in 1 .. Len(posted) : posted'[m] = posted[m]
  PROVE /\ Written' /\ OnlyWhenFull'
        /\ OneSize' => OneSize /\ Slots'
        /\ Len(accepted) \in Nat /\ Len(accepted') = Len(accepted) + 1
        /\ \A i \in 1 .. Len(accepted) :
             accepted'[i] = accepted[i] /\ LenOf(i)' = LenOf(i)
        /\ accepted'[Len(accepted) + 1].at = at
        /\ Len(accepted) = 0 => jsGoHead = 0 /\ at = 0
<1> DEFINE f == FrameSize(len)
<1>0. PICK n \in Nat : n = Len(accepted)
  <2>1. Len(accepted) \in Nat
    BY Positions DEF StreamInv
  <2> QED BY <2>1
<1>1. /\ jsGoHead \in Nat /\ jsGoTail \in Nat
      /\ BufferSize \in Nat \ {0} /\ Header \in 1 .. BufferSize
  BY Positions DEF StreamInv
<1>2. /\ Follows(jsGoHead, at) /\ Pos(at) + f <= BufferSize
      /\ at = jsGoHead \/ Pos(jsGoHead) + f > BufferSize
      /\ jsGoBuffer' = PutFrame(jsGoBuffer, Pos(at), id, len)
  BY DEF Puts
<1>3. /\ Len(accepted') = n + 1
      /\ \A i \in 1 .. n : accepted'[i] = accepted[i]
      /\ accepted'[n + 1].msg = id /\ accepted'[n + 1].at = at
  <2>1. PICK S : accepted \in Seq(S)
    BY TypeParts DEF StreamInv, RingInv, Sorted
  <2>2. accepted' = Append(accepted, [msg |-> id, at |-> at]) /\ Len(accepted) = n
    BY <1>0 DEF Puts
  <2> QED BY <2>1, <2>2
<1>4. \A i \in 1 .. n : LenOf(i)' = LenOf(i) /\ FrameEnd(i)' = FrameEnd(i)
  <2> SUFFICES ASSUME NEW i \in 1 .. n
               PROVE LenOf(i)' = LenOf(i) /\ FrameEnd(i)' = FrameEnd(i)
    OBVIOUS
  <2>1. accepted[i].msg \in 1 .. Len(posted)
    BY <1>0, FrameInRing DEF StreamInv
  <2> QED BY <1>3, <2>1 DEF LenOf, FrameEnd
<1>5. PICK last \in Nat : last = n + 1
  OBVIOUS
<1>6. LenOf(last)' = len
  BY <1>3, <1>5 DEF LenOf, Puts
<1>7. n > 0 => jsGoHead = FrameEnd(n)
  <2>1. n > 0 => n \in 1 .. Len(accepted)
    BY <1>0
  <2> QED BY <1>0, <2>1 DEF StreamInv, RingInv, InLine
<1>8. \A i \in 1 .. last : i \in 1 .. n \/ i = last
  BY <1>5
<1>9. f \in Nat \ {0} /\ at \in Nat
  <2>1. len \in 0 .. BufferSize
    BY RingAssumption
  <2>2. len \in Nat /\ Header \in Nat \ {0}
    BY <1>1, <2>1
  <2>3. at \in Nat
    BY <1>1, <1>2, FollowsWithin
  <2> QED BY <2>2, <2>3 DEF FrameSize
<1> HIDE DEF f
<1>10. PICK p \in Nat : p = Pos(at)
  <2>1. Pos(at) \in 0 .. BufferSize - 1
    BY <1>9, Place
  <2> QED BY <1>1, <2>1
<1>11. n = 0 => jsGoHead = 0 /\ at = 0
  <2> SUFFICES ASSUME n = 0 PROVE jsGoHead = 0 /\ at = 0
    OBVIOUS
  <2>1. jsGoHead = 0
    <3>1. jsGoHead <= Reach(0) /\ Reach(0) = 0
      BY <1>0, <1>1 DEF StreamInv, RingInv, BelowWrap, Reach
    <3> QED BY <1>1, <3>1
  <2>2. Pos(0) = 0
    BY <1>1, ModSmall DEF Pos
  <2>3. f <= BufferSize
    BY <1>1, <1>2, <1>9, <1>10
  <2> QED BY <1>1, <1>2, <1>9, <2>1, <2>2, <2>3
<1>12. Written'
  <2> SUFFICES ASSUME NEW q \in Offsets, jsGoBuffer'[q] # Blank
               PROVE \E i \in 1 .. last : Covers(Pos(accepted'[i].at), FrameSize(LenOf(i)'), q)
    BY <1>3, <1>5 DEF Written
  <2>1. CASE q >= Pos(at) /\ q < Pos(at) + f
    <3>1. last \in 1 .. last /\ FrameSize(LenOf(last)') = f /\ accepted'[last].at = at
      BY <1>3, <1>5, <1>6 DEF f
    <3>2. q \in Int /\ p <= q /\ q < p + f
      BY <1>1, <1>9, <1>10, <2>1 DEF Offsets
    <3> QED BY <1>10, <3>1, <3>2 DEF Covers
  <2>2. CASE ~(q >= Pos(at) /\ q < Pos(at) + f)
    <3>1. jsGoBuffer[q] = jsGoBuffer'[q]
      BY <1>2, <2>2 DEF PutFrame, f
    <3>2. PICK i \in 1 .. n : Covers(Pos(accepted[i].at), FrameSize(LenOf(i)), q)
      BY <1>0, <3>1 DEF StreamInv, Written
    <3>3. i \in 1 .. last
      BY <1>5
    <3> QED BY <1>3, <1>4, <3>2, <3>3
  <2> QED BY <2>1, <2>2
<1>13. OnlyWhenFull'
  <2> SUFFICES ASSUME NEW i \in 1 .. last, i # last
               PROVE \/ accepted'[i + 1].at = FrameEnd(i)'
                     \/ Pos(FrameEnd(i)') + FrameSize(LenOf(i + 1)') > BufferSize
    BY <1>3, <1>5 DEF OnlyWhenFull
  <2>1. i \in 1 .. n
    BY <1>8
  <2>2. PICK j \in Nat : j = i + 1
    BY <2>1
  <2>3. CASE i = n
    <3>1. FrameEnd(i)' = jsGoHead /\ j = last
      BY <1>4, <1>5, <1>7, <2>1, <2>2, <2>3
    <3>2. accepted'[j].at = at /\ FrameSize(LenOf(j)') = f
      BY <1>3, <1>5, <1>6, <3>1 DEF f
    <3> QED BY <1>2, <2>2, <3>1, <3>2
  <2>4. CASE i # n
    <3>1. j \in 1 .. n
      BY <2>1, <2>2, <2>4
    <3>2. \/ accepted[j].at = FrameEnd(i)
          \/ Pos(FrameEnd(i)) + FrameSize(LenOf(j)) > BufferSize
      BY <1>0, <2>1, <2>2, <2>4 DEF StreamInv, OnlyWhenFull
    <3> QED BY <1>3, <1>4, <2>1, <2>2, <3>1, <3>2
  <2> QED BY <2>3, <2>4
<1>14. ASSUME OneSize' PROVE OneSize /\ Slots'
  <2>1. \A i, j \in 1 .. last : LenOf(i)' = LenOf(j)'
    BY <1>3, <1>5, <1>14 DEF OneSize
  <2>2. \A i \in 1 .. n : i \in 1 .. last
    BY <1>5
  <2>3. OneSize
    BY <1>0, <1>4, <2>1, <2>2 DEF OneSize
  <2>4. Slots
    BY <2>3 DEF StreamInv
  <2>5. \A i \in 1 .. n : LenOf(i) = len
    <3>1. last \in 1 .. last
      BY <1>5
    <3> QED BY <1>4, <1>6, <2>1, <2>2, <3>1
  <2>6. Multiple(Pos(at), f)
    <3>1. CASE n = 0
      <4>1. Pos(at) = f * 0
        <5>1. Pos(0) = 0
          BY <1>1, ModSmall DEF Pos
        <5> QED BY <1>9, <1>11, <3>1, <5>1
      <4> QED BY <4>1 DEF Multiple
    <3>2. CASE n # 0 /\ at = jsGoHead
      <4>1. n \in 1 .. n /\ n > 0
        BY <3>2
      <4>2. FrameSize(LenOf(n)) = f /\ accepted[n].at \in Nat
        BY <1>0, <2>5, <4>1, FrameInRing DEF f, StreamInv
      <4>3. Multiple(Pos(accepted[n].at), f) /\ Pos(accepted[n].at) + f <= BufferSize
        BY <1>0, <2>4, <4>1, <4>2 DEF Slots, StreamInv, RingInv, InLine
      <4>4. jsGoHead = accepted[n].at + f
        BY <1>7, <4>1, <4>2 DEF FrameEnd
      <4> QED BY <1>9, <3>2, <4>2, <4>3, <4>4, SlotAfter
    <3>3. CASE at # jsGoHead
      <4>1. Pos(at) = 0
        BY <1>1, <1>2, <3>3, CycleEnds DEF Follows
      <4>2. 0 = f * 0
        BY <1>9
      <4> QED BY <4>1, <4>2 DEF Multiple
    <3> QED BY <3>1, <3>2, <3>3
  <2>7. ASSUME NEW i \in 1 .. last PROVE Multiple(Pos(accepted'[i].at), FrameSize(LenOf(i)'))
    <3>1. CASE i = last
      BY <1>3, <1>5, <1>6, <2>6, <3>1 DEF f
    <3>2. CASE i \in 1 .. n
      BY <1>0, <1>3, <1>4, <2>4, <3>2 DEF Slots
    <3> QED BY <1>8, <3>1, <3>2
  <2> QED BY <1>3, <1>5, <2>3, <2>7 DEF Slots
<1> QED BY <1>0, <1>3, <1>4, <1>11, <1>12, <1>13, <1>14

\* The payloads of frames that stay are the same.
LEMMA PayloadsStay ==
  ASSUME NEW n \in Nat, \A i \in 1 .. n : accepted'[i] = accepted[i] /\ LenOf(i)' = LenOf(i)
  PROVE Payloads(n)' = Payloads(n)
<1>1. \A i \in 1 .. n : Payload(i)' = Payload(i)
  BY DEF Payload
<1>2. [i \in 1 .. n |-> Payload(i)'] = [i \in 1 .. n |-> Payload(i)]
  BY <1>1
<1> QED BY <1>2 DEF Payloads

\* A step that adds no frame.
LEMMA SizeStays ==
  ASSUME StreamInv, NoWrap, UNCHANGED <<jsGoBuffer, accepted>>,
         \A m \in 1 .. Len(posted) : posted'[m] = posted[m]
  PROVE /\ Written' /\ OnlyWhenFull' /\ (OneSize' => OneSize /\ Slots')
        /\ Len(accepted) \in Nat
        /\ \A i \in 1 .. Len(accepted) : LenOf(i)' = LenOf(i) /\ FrameEnd(i)' = FrameEnd(i)
<1>1. PICK n \in Nat : n = Len(accepted)
  <2>1. Len(accepted) \in Nat
    BY Positions DEF StreamInv
  <2> QED BY <2>1
<1>2. \A i \in 1 .. n : LenOf(i)' = LenOf(i) /\ FrameEnd(i)' = FrameEnd(i)
  BY <1>1, FrameInRing DEF LenOf, FrameEnd, StreamInv
<1>3. Written'
  BY <1>1, <1>2 DEF StreamInv, Written
<1>4. OnlyWhenFull'
  <2> SUFFICES ASSUME NEW i \in 1 .. n, i # n
               PROVE \/ accepted[i + 1].at = FrameEnd(i)'
                     \/ Pos(FrameEnd(i)') + FrameSize(LenOf(i + 1)') > BufferSize
    BY <1>1 DEF OnlyWhenFull
  <2>1. PICK j \in 1 .. n : j = i + 1
    OBVIOUS
  <2>2. \/ accepted[j].at = FrameEnd(i)
        \/ Pos(FrameEnd(i)) + FrameSize(LenOf(j)) > BufferSize
    BY <1>1, <2>1 DEF StreamInv, OnlyWhenFull
  <2> QED BY <1>2, <2>1, <2>2
<1>5. ASSUME OneSize' PROVE OneSize /\ Slots'
  <2>1. OneSize
    BY <1>1, <1>2, <1>5 DEF OneSize
  <2>2. Slots
    BY <2>1 DEF StreamInv
  <2> QED BY <1>1, <1>2, <2>1, <2>2 DEF Slots
<1> QED BY <1>1, <1>2, <1>3, <1>4, <1>5

\* What write() does leaves the guest where it is.
LEMMA WriteKeepsStream ==
  ASSUME StreamInv, NoWrap, NoEmptyMessage, Write
  PROVE StreamInv'
<1>1. RingInv /\ (reader.pc # "idle" => readBuffer = <<>>)
  BY DEF StreamInv
<1>2. /\ UNCHANGED <<jsGoTail, reader, readBuffer, stream>>
      /\ \A m \in 1 .. Len(posted) : posted'[m] = posted[m]
      /\ \/ UNCHANGED <<jsGoHead, jsGoBuffer, accepted>>
         \/ \E id, len, at : len \in Lens /\ Puts(id, len, at)
  BY <1>1, WriteCases
<1>3. PICK k \in 0 .. Len(accepted) : Unread(k)
  BY <1>1 DEF RingInv
<1>4. RingInv'
  BY <1>1, <1>3, WriteKeeps
<1>5. Len(accepted) \in Nat
  BY <1>1, Positions
<1>6. ASSUME NEW n \in 0 .. Len(accepted), Taken(n), NEW l \in Nat, l = Len(accepted'),
             \A i \in 1 .. Len(accepted) : accepted'[i] = accepted[i] /\ LenOf(i)' = LenOf(i),
             AtEnds(n)'
      PROVE n \in 0 .. Len(accepted') /\ Taken(n)'
  <2>1. Unread(n)' /\ n \in 0 .. Len(accepted')
    BY <1>1, <1>6, WriteKeeps DEF Taken
  <2>2. Payloads(n)' = Payloads(n)
    <3>1. n \in Nat /\ \A i \in 1 .. n : i \in 1 .. Len(accepted)
      BY <1>5
    <3> QED BY <1>6, <3>1, PayloadsStay
  <2>3. stream \o readBuffer = Payloads(n)
    BY <1>6 DEF Taken
  <2> QED BY <1>2, <1>6, <2>1, <2>2, <2>3 DEF Taken
<1>7. CASE UNCHANGED <<jsGoHead, jsGoBuffer, accepted>>
  <2>1. /\ Written' /\ OnlyWhenFull' /\ (OneSize' => OneSize /\ Slots')
        /\ \A i \in 1 .. Len(accepted) : LenOf(i)' = LenOf(i) /\ FrameEnd(i)' = FrameEnd(i)
    BY <1>2, <1>7, SizeStays
  <2>2. ASSUME OneSize' PROVE \E n \in 0 .. Len(accepted') : Taken(n)'
    <3>1. PICK n \in 0 .. Len(accepted) : Taken(n)
      BY <2>1, <2>2 DEF StreamInv
    <3>2. AtEnds(n)'
      <4>1. n > 0 => n \in 1 .. Len(accepted)
        BY <1>5
      <4> QED BY <1>2, <1>7, <2>1, <3>1, <4>1 DEF Taken, AtEnds
    <3> QED BY <1>5, <1>6, <1>7, <2>1, <3>1, <3>2
  <2> QED BY <1>1, <1>2, <1>4, <2>1, <2>2 DEF StreamInv
<1>8. ASSUME NEW id, NEW len \in Lens, NEW at, Puts(id, len, at) PROVE StreamInv'
  <2>1. /\ Written' /\ OnlyWhenFull'
        /\ OneSize' => OneSize /\ Slots'
        /\ Len(accepted') = Len(accepted) + 1
        /\ \A i \in 1 .. Len(accepted) :
             accepted'[i] = accepted[i] /\ LenOf(i)' = LenOf(i)
        /\ accepted'[Len(accepted) + 1].at = at
        /\ Len(accepted) = 0 => jsGoHead = 0 /\ at = 0
    BY <1>2, <1>4, <1>8, PutKeepsSize
  <2>2. ASSUME OneSize' PROVE \E n \in 0 .. Len(accepted') : Taken(n)'
    <3>1. PICK n \in 0 .. Len(accepted) : Taken(n)
      BY <2>1, <2>2 DEF StreamInv
    <3>2. n > 0 => n \in 1 .. Len(accepted) /\ FrameEnd(n)' = FrameEnd(n)
      BY <1>5, <2>1 DEF FrameEnd
    <3>3. AtEnds(n)'
      <4>1. CASE n < Len(accepted)
        <5>1. PICK j \in 1 .. Len(accepted) : j = n + 1
          BY <1>5, <4>1
        <5>2. jsGoTail = accepted[j].at \/ (n > 0 /\ jsGoTail = FrameEnd(n))
          BY <3>1, <4>1, <5>1 DEF Taken, AtEnds
        <5> QED BY <1>2, <2>1, <3>2, <5>1, <5>2 DEF AtEnds
      <4>2. CASE n = Len(accepted)
        <5>1. jsGoTail = jsGoHead
          BY <3>1, <4>2 DEF Taken, Unread
        <5>2. n > 0 => jsGoHead = FrameEnd(n)
          BY <1>1, <3>2, <4>2 DEF RingInv, InLine
        <5>3. n = 0 => jsGoTail = 0 /\ accepted'[n + 1].at = 0
          BY <2>1, <4>2, <5>1
        <5>4. n > 0 \/ n = 0
          BY <1>5
        <5> QED BY <1>2, <3>2, <5>1, <5>2, <5>3, <5>4 DEF AtEnds
      <4> QED BY <1>5, <4>1, <4>2
    <3>4. Len(accepted') \in Nat
      BY <1>5, <2>1
    <3> QED BY <1>6, <2>1, <3>1, <3>3, <3>4
  <2> QED BY <1>1, <1>2, <1>4, <2>1, <2>2 DEF StreamInv
<1> QED BY <1>2, <1>7, <1>8

\* What the guest is given of a message and what is kept of it are the message.
LEMMA PartsTogether ==
  ASSUME NEW r \in Seq(Byte), NEW s \in Seq(Byte), NEW n \in Nat
  PROVE (r \o FirstBytes(s, n)) \o Rest(s, n) = r \o s
<1>1. FirstBytes(s, n) \in Seq(Byte) /\ Rest(s, n) \in Seq(Byte)
  BY PartsOfMessage
<1> HIDE DEF Byte
<1>2. PICK l \in Nat : l = Len(s)
  BY LenProperties
<1>3. FirstBytes(s, n) \o Rest(s, n) = s
  <2>0. SubSeq(s, 1, l) = s
    BY <1>2, SubSeqFull
  <2>1. CASE n < l
    <3>1. 1 \in 1 .. l + 1 /\ n \in 1 - 1 .. l /\ l \in n .. l
      BY <2>1
    <3>2. SubSeq(s, 1, n) \o SubSeq(s, n + 1, l) = SubSeq(s, 1, l)
      BY <1>2, <3>1, ConcatAdjacentSubSeq
    <3> QED BY <1>2, <2>0, <2>1, <3>2 DEF FirstBytes, Rest
  <2>2. CASE ~(n < l)
    <3>1. SubSeq(s, n + 1, l) = <<>>
      <4>1. n + 1 > l
        BY <2>2
      <4> QED BY <4>1, SubSeqEmpty
    <3>2. s \o <<>> = s
      OBVIOUS
    <3> QED BY <1>2, <2>0, <2>2, <3>1, <3>2 DEF FirstBytes, Rest
  <2> QED BY <2>1, <2>2
<1>4. (r \o FirstBytes(s, n)) \o Rest(s, n) = r \o (FirstBytes(s, n) \o Rest(s, n))
  <2>1. PICK a \in Seq(Byte), b \in Seq(Byte) : a = FirstBytes(s, n) /\ b = Rest(s, n)
    BY <1>1
  <2>2. (r \o a) \o b = r \o (a \o b)
    OBVIOUS
  <2> QED BY <2>1, <2>2
<1> QED BY <1>3, <1>4

\* Reading what is left, or beginning to look, gives no byte twice.
LEMMA ReadKeepsStream ==
  ASSUME StreamInv, NoWrap, NoEmptyMessage,
         (\E z \in ReadSizes : GoReadRest(z) \/ GoReadCall(z)) \/ GoReadSeesData
  PROVE StreamInv'
<1>1. RingInv /\ ReaderType
  BY TypeParts DEF StreamInv, RingInv
<1>2. /\ UNCHANGED <<ring, calls>>
      /\ stream' \o readBuffer' = stream \o readBuffer
      /\ reader'.pc # "idle" => readBuffer' = <<>>
  <2>1. ASSUME NEW z \in ReadSizes, GoReadRest(z) PROVE <1>2
    <3>1. z \in Nat
      BY ReadSizesAssumption
    <3>2. (stream \o FirstBytes(readBuffer, z)) \o Rest(readBuffer, z) = stream \o readBuffer
      BY <1>1, <3>1, PartsTogether DEF ReaderType
    <3> QED BY <2>1, <3>2 DEF GoReadRest
  <2>2. ASSUME NEW z \in ReadSizes, GoReadCall(z) PROVE <1>2
    BY <2>2 DEF GoReadCall
  <2>3. CASE GoReadSeesData
    BY <2>3 DEF GoReadSeesData, StreamInv
  <2> QED BY <2>1, <2>2, <2>3
<1>3. /\ UNCHANGED <<jsGoHead, jsGoTail, jsGoBuffer, posted, accepted>>
      /\ \A m \in 1 .. Len(posted) : posted'[m] = posted[m]
  BY <1>2 DEF ring, calls
<1>4. PICK k \in 0 .. Len(accepted) : Unread(k)
  BY <1>1 DEF RingInv
<1>5. RingInv'
  BY <1>1, <1>4, ReadKeeps
<1>6. /\ Written' /\ OnlyWhenFull' /\ (OneSize' => OneSize /\ Slots') /\ Len(accepted) \in Nat
      /\ \A i \in 1 .. Len(accepted) : LenOf(i)' = LenOf(i) /\ FrameEnd(i)' = FrameEnd(i)
  BY <1>3, SizeStays
<1>7. ASSUME OneSize' PROVE \E n \in 0 .. Len(accepted') : Taken(n)'
  <2>1. PICK n \in 0 .. Len(accepted) : Taken(n)
    BY <1>6, <1>7 DEF StreamInv
  <2>2. n > 0 => n \in 1 .. Len(accepted)
    BY <1>6
  <2>3. AtEnds(n)'
    BY <1>3, <1>6, <2>1, <2>2 DEF Taken, AtEnds
  <2>4. Unread(n)' /\ n \in 0 .. Len(accepted')
    BY <1>1, <2>1, ReadKeeps DEF Taken
  <2>5. Payloads(n)' = Payloads(n)
    <3>1. n \in Nat /\ \A i \in 1 .. n : i \in 1 .. Len(accepted)
      BY <1>6
    <3> QED BY <1>3, <1>6, <3>1, PayloadsStay
  <2> QED BY <1>2, <2>1, <2>3, <2>4, <2>5 DEF Taken
<1> QED BY <1>2, <1>5, <1>6, <1>7 DEF StreamInv

\* The frame at the tail is read as it was sent.
LEMMA TakePayload ==
  ASSUME RingInv, NEW n \in Nat, Unread(n), NEW i \in 1 .. Len(accepted), i = n + 1,
         i \in n + 1 .. Len(accepted), jsGoTail = accepted[i].at
  PROVE [k \in 1 .. LenOf(i) |-> jsGoBuffer[GoPos + Header + k - 1]] = Payload(i)
<1>1. PICK len \in 0 .. BufferSize : len = LenOf(i)
  BY FrameInRing
<1>2. PICK p \in 0 .. BufferSize - 1 : p = GoPos /\ p = Pos(accepted[i].at)
  BY FrameInRing, Place DEF GoPos
<1>3. ASSUME NEW k \in 1 .. len
      PROVE jsGoBuffer[p + Header + k - 1] = ByteOf(accepted[i].msg, len, Header + k - 1)
  <2>1. PICK o \in 0 .. FrameSize(len) - 1 : o = Header + k - 1 /\ p + o = p + Header + k - 1
    BY <1>2, RingAssumption DEF FrameSize
  <2>2. jsGoBuffer[p + o] = ByteOf(accepted[i].msg, len, o)
    BY <1>1, <1>2 DEF Unread
  <2> QED BY <2>1, <2>2
<1> QED BY <1>1, <1>2, <1>3 DEF Payload

\* Read takes the payload of the next frame, or goes through a gap to it.
LEMMA TakeKeepsStream ==
  ASSUME StreamInv, NoWrap, NoEmptyMessage, GoReadTake
  PROVE StreamInv'
<1>1. /\ RingInv /\ ReaderType /\ readBuffer = <<>>
      /\ jsGoHead \in Nat /\ jsGoTail \in Nat /\ jsGoHead < Uint /\ Uint \in Nat
      /\ Len(accepted) \in Nat
  BY TypeParts, Positions DEF StreamInv, RingInv, GoReadTake
<1>2. PICK k \in 0 .. Len(accepted) : Unread(k)
  BY <1>1 DEF RingInv
<1>3. RingInv'
  BY <1>1, <1>2, TakeKeeps
<1>4. /\ UNCHANGED <<jsGoHead, jsGoBuffer, posted, accepted>>
      /\ \A m \in 1 .. Len(posted) : posted'[m] = posted[m]
  BY DEF GoReadTake, calls
<1>5. /\ Written' /\ OnlyWhenFull' /\ (OneSize' => OneSize /\ Slots')
      /\ \A i \in 1 .. Len(accepted) : LenOf(i)' = LenOf(i) /\ FrameEnd(i)' = FrameEnd(i)
  BY <1>4, SizeStays
<1>6. reader'.pc # "idle" => readBuffer' = <<>>
  <2>1. Skip \/ \E len : Take(len)
    BY DEF GoReadTake
  <2>2. ASSUME NEW len, Take(len) PROVE reader'.pc = "idle"
    BY <2>2 DEF Take
  <2>3. CASE Skip
    BY <1>1, <2>3 DEF Skip
  <2> QED BY <2>1, <2>2, <2>3
<1>7. ASSUME NEW m \in 0 .. Len(accepted) PROVE Payloads(m)' = Payloads(m)
  <2>1. m \in Nat /\ \A i \in 1 .. m : i \in 1 .. Len(accepted)
    BY <1>1
  <2> QED BY <1>4, <1>5, <2>1, PayloadsStay
<1>8. ASSUME OneSize' PROVE \E n \in 0 .. Len(accepted') : Taken(n)'
  <2>1. PICK n \in 0 .. Len(accepted) : Taken(n)
    BY <1>5, <1>8 DEF StreamInv
  <2>2. Unread(n) /\ stream \o readBuffer = Payloads(n)
    BY <2>1 DEF Taken
  <2>3. stream = Payloads(n) /\ stream \in Seq(Byte)
    <3>1. stream \in Seq(Byte)
      BY <1>1 DEF ReaderType
    <3>2. stream \o <<>> = stream
      <4> HIDE DEF Byte
      <4> QED BY <3>1
    <3> QED BY <1>1, <2>2, <3>1, <3>2
  <2>4. /\ n < Len(accepted)
        /\ \/ /\ jsGoTail = accepted[n + 1].at /\ jsGoTail' = FrameEnd(n + 1)
              /\ Take(LenOf(n + 1))
           \/ jsGoTail < accepted[n + 1].at
    BY <1>1, <2>2, TakeCases
  <2>5. PICK i \in 1 .. Len(accepted) : i = n + 1 /\ i \in n + 1 .. Len(accepted)
    BY <1>1, <2>4
  <2>6. /\ \/ /\ jsGoTail = accepted[i].at
              /\ \E m \in 0 .. Len(accepted') : m = i /\ Unread(m)'
           \/ /\ jsGoTail < accepted[i].at
              /\ n \in 0 .. Len(accepted') /\ Unread(n)'
    BY <1>1, <2>2, <2>5, TakeKeeps
  <2>7. PICK at \in Nat : at = accepted[i].at
    BY <1>1, <2>5, FrameInRing
  <2>8. CASE jsGoTail = at
    <3>1. jsGoTail' = FrameEnd(i) /\ Take(LenOf(i))
      BY <2>4, <2>5, <2>7, <2>8
    <3>2. i \in 0 .. Len(accepted') /\ Unread(i)'
      BY <2>6, <2>7, <2>8
    <3>3. AtEnds(i)'
      BY <1>5, <2>5, <3>1 DEF AtEnds
    <3>4. PICK s \in Seq(Byte) : s = Payload(i)
      BY <1>1, <2>5, PayloadType
    <3>5. [k1 \in 1 .. LenOf(i) |-> jsGoBuffer[GoPos + Header + k1 - 1]] = s
      <4>1. n \in Nat
        BY <1>1
      <4> QED BY <1>1, <2>2, <2>5, <2>7, <2>8, <3>4, <4>1, TakePayload
    <3>6. stream' = stream \o FirstBytes(s, reader.size) /\ readBuffer' = Rest(s, reader.size)
      BY <3>1, <3>5 DEF Take
    <3>7. reader.size \in Nat
      <4>1. reader.size \in ReadSizes \cup {0}
        BY <1>1 DEF ReaderType
      <4>2. 0 \in Nat /\ \A z \in ReadSizes : z \in Nat
        BY ReadSizesAssumption
      <4> QED BY <4>1, <4>2, Zenon
    <3>8. stream' \o readBuffer' = stream \o s
      BY <2>3, <3>6, <3>7, PartsTogether
    <3>9. Payloads(i) = Payloads(n) \o s
      <4>1. n \in Nat /\ n + 1 \in 1 .. Len(accepted) /\ Payloads(n) \in Seq(Byte)
        BY <1>1, <2>3, <2>5
      <4> QED BY <1>1, <2>5, <3>4, <4>1, PayloadsNext
    <3>10. Payloads(i)' = Payloads(i)
      <4>1. i \in 0 .. Len(accepted)
        BY <1>1, <2>5
      <4> QED BY <1>7, <4>1
    <3>11. Taken(i)'
      BY <2>3, <3>2, <3>3, <3>8, <3>9, <3>10 DEF Taken
    <3> QED BY <3>2, <3>11
  <2>9. CASE jsGoTail < at
    <3>1. n \in 0 .. Len(accepted') /\ Unread(n)'
      BY <1>1, <2>6, <2>7, <2>9
    <3>2. Skip
      <4>1. CASE GoPos + Header > BufferSize
        BY <4>1 DEF GoReadTake
      <4>2. CASE ~(GoPos + Header > BufferSize)
        <5>1. GoPos + Header <= BufferSize
          <6>1. GoPos \in 0 .. BufferSize - 1 /\ Header \in 1 .. BufferSize /\ BufferSize \in Nat
            BY <1>1, Place, RingAssumption DEF GoPos
          <6> QED BY <4>2, <6>1
        <5>2. jsGoTail # at
          BY <1>1, <2>7, <2>9
        <5>3. LengthsAt(jsGoBuffer, GoPos) = {0}
          BY <1>5, <1>8, <2>1, <2>4, <2>5, <2>7, <5>1, <5>2, GapIsBlank
        <5> QED BY <4>2, <5>3 DEF GoReadTake
      <4> QED BY <4>1, <4>2
    <3>3. jsGoTail' = at
      <4>1. NextCycle(jsGoTail) = at
        BY <1>1, <2>2, <2>4, <2>5, <2>7, <2>9 DEF Unread, Follows
      <4>2. at < Uint
        <5>1. PICK f \in Nat : f = FrameSize(LenOf(i))
          BY <1>1, <2>5, FrameInRing
        <5>2. at + f <= jsGoHead
          BY <1>1, <2>5, <2>7, <5>1 DEF RingInv, InLine, FrameEnd
        <5> QED BY <1>1, <5>2
      <4> QED BY <1>1, <3>2, <4>1, <4>2, ModSmall DEF Skip, Uint32
    <3>4. AtEnds(n)'
      BY <1>4, <2>5, <2>7, <3>3 DEF AtEnds
    <3>5. stream' = stream /\ readBuffer' = readBuffer
      BY <3>2 DEF Skip
    <3>6. Taken(n)'
      BY <1>7, <2>2, <3>1, <3>4, <3>5 DEF Taken
    <3> QED BY <3>1, <3>6
  <2> QED BY <2>4, <2>5, <2>7, <2>8, <2>9
<1> QED BY <1>3, <1>5, <1>6, <1>8 DEF StreamInv

\* With frames of one size the guest reads the payloads of the accepted messages
\* one after the other, however its reads are cut and the calls of write() wait.
THEOREM StreamCorrect ==
  ASSUME NoWrap, NoEmptyMessage
  PROVE Spec => []StreamIsPayloads
<1>1. Init => StreamInv
  <2> SUFFICES ASSUME Init PROVE StreamInv
    OBVIOUS
  <2>1. RingInv /\ accepted = <<>> /\ Len(accepted) = 0
    BY RingInit DEF Init
  <2>2. Written /\ OnlyWhenFull /\ Slots
    BY <2>1 DEF Init, Written, OnlyWhenFull, Slots
  <2>3. 0 \in 0 .. Len(accepted) /\ AtEnds(0)
    BY <2>1 DEF AtEnds
  <2>4. Unread(0)
    BY <2>1 DEF Init, Unread
  <2>5. stream \o readBuffer = Payloads(0)
    <3>1. <<>> \o <<>> = <<>>
      OBVIOUS
    <3> QED BY <3>1, PayloadsEmpty DEF Init
  <2> QED BY <2>1, <2>2, <2>3, <2>4, <2>5 DEF Init, StreamInv, Taken
<1>2. ASSUME StreamInv, [Next]_vars PROVE StreamInv'
  <2>1. CASE Write
    BY <1>2, <2>1, WriteKeepsStream
  <2>2. CASE (\E n \in ReadSizes : GoReadRest(n) \/ GoReadCall(n)) \/ GoReadSeesData
    BY <1>2, <2>2, ReadKeepsStream
  <2>3. CASE GoReadTake
    BY <1>2, <2>3, TakeKeepsStream
  <2>4. CASE UNCHANGED vars
    <3>1. RingInv'
      BY <1>2, RingStep DEF StreamInv
    <3> QED BY <1>2, <2>4, <3>1
        DEF vars, StreamInv, Written, OnlyWhenFull, OneSize, Slots, Taken, Unread,
            AtEnds, FrameEnd, LenOf, Payloads, Payload
  <2> QED BY <1>2, <2>1, <2>2, <2>3, <2>4 DEF Next, Read
<1>3. StreamInv => StreamIsPayloads
  <2> SUFFICES ASSUME StreamInv, OneSize
               PROVE IsPrefix(stream \o readBuffer, Payloads(Len(accepted)))
    BY DEF StreamIsPayloads, OneSize, Payloads
  <2>1. PICK n \in 0 .. Len(accepted) : Taken(n)
    BY DEF StreamInv
  <2> QED BY <2>1, PayloadsBegin DEF Taken, StreamInv
<1> QED BY <1>1, <1>2, <1>3, PTL DEF Spec
=============================================================================
