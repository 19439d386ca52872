----------------------------- MODULE ShmJsToGo -----------------------------
(***************************************************************************)
(* The ring from the page to the guest: write() in chan.js is the writer,  *)
(* SharedChannel.Read in chan.go the reader.  write() is an async function *)
(* that every message of the user's port starts anew, so several calls can *)
(* be waiting for room; up to its first await a call runs with nothing in  *)
(* between.  Read is split where it has seen data and where it moves tail. *)
(***************************************************************************)
EXTENDS ShmRing, FiniteSets, SequencesExt

CONSTANT ReadSizes   \* sizes of the buffers Read is called with

ASSUME ReadSizesAssumption == ReadSizes \subseteq Nat \ {0}

VARIABLES
  jsGoHead,    \* written by write()
  jsGoTail,    \* written by Read
  jsGoBuffer,
  posted,      \* history: the lengths of the messages posted, in order
  waiting,     \* messages whose write() awaits its next try
  dropped,     \* history: messages write() gave up
  accepted,    \* history: the frames in the ring, in the order they were put
  reader,      \* the call of Read that is running
  readBuffer,  \* what is left of the message Read took last
  stream       \* history: the bytes Read returned

vars == <<jsGoHead, jsGoTail, jsGoBuffer, posted, waiting, dropped, accepted,
          reader, readBuffer, stream>>

ring == <<jsGoHead, jsGoTail, jsGoBuffer>>
calls == <<posted, waiting, dropped, accepted>>

\* Types; a message is waiting, dropped or in the ring, never two of these.
TypeOK ==
  /\ jsGoHead \in 0 .. Uint - 1
  /\ jsGoTail \in 0 .. Uint - 1
  /\ jsGoBuffer \in [Offsets -> Byte]
  /\ posted \in Seq(Lens)
  /\ waiting \subseteq 1 .. Len(posted)
  /\ dropped \subseteq (1 .. Len(posted)) \ waiting
  /\ accepted \in Seq([msg : (1 .. Len(posted)) \ (waiting \cup dropped),
                       at : 0 .. Uint - 1])
  /\ Cardinality(waiting) + Cardinality(dropped) + Len(accepted) = Len(posted)
  /\ reader \in [pc : {"idle", "poll", "take"}, size : ReadSizes \cup {0}]
  /\ readBuffer \in Seq(Byte)
  /\ stream \in Seq(Byte)

Init ==
  /\ jsGoHead = 0 /\ jsGoTail = 0
  /\ jsGoBuffer = [q \in Offsets |-> Blank]
  /\ posted = <<>> /\ waiting = {} /\ dropped = {} /\ accepted = <<>>
  /\ reader = [pc |-> "idle", size |-> 0]
  /\ readBuffer = <<>> /\ stream = <<>>

-----------------------------------------------------------------------------
(* write() of chan.js                                                      *)

JsHead == Int32(jsGoHead)
JsTail == Int32(jsGoTail)

Available == AfterMargin(BufferSize - Uint32(JsHead - JsTail))

Enough(len) == FrameSize(len) <= Available
FitsAtHead(len) == JsPos(JsHead) + FrameSize(len) <= BufferSize
\* Mutant: a new cycle begins without a look at the tail.
FitsAtStartAlways(len) == TRUE

FitsAtStart(len) == JsPos(JsTail) >= FrameSize(len)

Put(id, at, pos, len) ==
  /\ jsGoBuffer' = PutFrame(jsGoBuffer, pos, id, len)
  /\ jsGoHead' = Uint32(at + FrameSize(len))
  /\ accepted' = Append(accepted, [msg |-> id, at |-> Uint32(at)])

\* One try of the loop: the frame is put, the call awaits its next try, or it
\* ends without a frame.  When the frame does not fit before the end and the
\* tail is too near the start, the loop goes on without an await: the guest,
\* which shares the thread, cannot move the tail and all tries are used up.
Try(id, len) ==
  \/ /\ Enough(len) /\ FitsAtHead(len)
     /\ Put(id, JsHead, JsPos(JsHead), len)
     /\ waiting' = waiting \ {id} /\ UNCHANGED dropped
  \/ /\ Enough(len) /\ ~FitsAtHead(len) /\ FitsAtStart(len)
     /\ Put(id, NextCycle(JsHead), 0, len)
     /\ waiting' = waiting \ {id} /\ UNCHANGED dropped
  \/ /\ Enough(len) /\ ~FitsAtHead(len) /\ ~FitsAtStart(len)
     /\ dropped' = dropped \cup {id} /\ waiting' = waiting \ {id}
     /\ UNCHANGED <<jsGoHead, jsGoBuffer, accepted>>
  \/ /\ ~Enough(len)
     /\ waiting' = waiting \cup {id}
     /\ UNCHANGED <<jsGoHead, jsGoBuffer, accepted, dropped>>

\* port1.onmessage
JsPost(len) ==
  /\ Len(posted) < MaxMsgs
  /\ posted' = Append(posted, len)
  /\ Try(Len(posted) + 1, len)
  /\ UNCHANGED <<jsGoTail, reader, readBuffer, stream>>

\* The timer of a waiting call fires.
JsRetry(id) ==
  /\ id \in waiting
  /\ Try(id, posted[id])
  /\ UNCHANGED <<posted, jsGoTail, reader, readBuffer, stream>>

\* The tries of a waiting call are used up.
JsGiveUp(id) ==
  /\ id \in waiting
  /\ waiting' = waiting \ {id} /\ dropped' = dropped \cup {id}
  /\ UNCHANGED <<ring, posted, accepted, reader, readBuffer, stream>>

-----------------------------------------------------------------------------
(* SharedChannel.Read                                                      *)

GoPos == Pos(jsGoTail)

FirstBytes(s, n) == SubSeq(s, 1, IF n < Len(s) THEN n ELSE Len(s))
\* Mutant: the position in the message is off by one.
RestOffByOne(s, n) == SubSeq(s, n + 2, Len(s))

Rest(s, n) == SubSeq(s, n + 1, Len(s))

\* What is left of the last message goes first, without a look at the ring.
GoReadRest(n) ==
  /\ reader.pc = "idle" /\ readBuffer # <<>>
  /\ stream' = stream \o FirstBytes(readBuffer, n)
  /\ readBuffer' = Rest(readBuffer, n)
  /\ UNCHANGED <<ring, calls, reader>>

GoReadCall(n) ==
  /\ reader.pc = "idle" /\ readBuffer = <<>>
  /\ reader' = [pc |-> "poll", size |-> n]
  /\ UNCHANGED <<ring, calls, readBuffer, stream>>

GoReadSeesData ==
  /\ reader.pc = "poll" /\ Uint32(jsGoHead - jsGoTail) # 0
  /\ reader' = [reader EXCEPT !.pc = "take"]
  /\ UNCHANGED <<ring, calls, readBuffer, stream>>

\* Mutant: the new tail is not stored.
SkipNotStored == reader' = [reader EXCEPT !.pc = "poll"] /\ UNCHANGED <<jsGoTail, readBuffer, stream>>

Skip ==
  /\ jsGoTail' = Uint32(NextCycle(jsGoTail))
  /\ reader' = [reader EXCEPT !.pc = "poll"]
  /\ UNCHANGED <<readBuffer, stream>>

Take(len) ==
  LET message == [k \in 1 .. len |-> jsGoBuffer[GoPos + Header + k - 1]]
  IN  /\ jsGoTail' = Uint32(jsGoTail + FrameSize(len))
      /\ stream' = stream \o FirstBytes(message, reader.size)
      /\ readBuffer' = Rest(message, reader.size)
      /\ reader' = [pc |-> "idle", size |-> 0]

GoReadTake ==
  /\ reader.pc = "take"
  /\ IF GoPos + Header > BufferSize
     THEN Skip
     ELSE \E len \in LengthsAt(jsGoBuffer, GoPos) :
            IF /\ len > 0 /\ len < BufferSize
               /\ GoPos + FrameSize(len) <= BufferSize
            THEN Take(len)
            ELSE Skip
  /\ UNCHANGED <<jsGoHead, jsGoBuffer, calls>>

-----------------------------------------------------------------------------
Write == \/ \E len \in Lens : JsPost(len)
         \/ \E id \in waiting : JsRetry(id) \/ JsGiveUp(id)

Read == \/ \E n \in ReadSizes : GoReadRest(n) \/ GoReadCall(n)
        \/ GoReadSeesData \/ GoReadTake

Next == Write \/ Read

Spec == Init /\ [][Next]_vars

\* The guest program keeps calling Read; a waiting call's timer fires.
FairSpec == Spec /\ WF_vars(Read) /\ \A id \in 1 .. MaxMsgs : WF_vars(JsRetry(id))

-----------------------------------------------------------------------------
(* Properties                                                              *)

LenOf(i) == posted[accepted[i].msg]

Payload(i) ==
  [k \in 1 .. LenOf(i) |-> ByteOf(accepted[i].msg, LenOf(i), Header + k - 1)]

\* However the reads are cut, the guest reads the payloads of the accepted
\* messages one after the other, no byte lost, repeated or torn, as long as the
\* frames have one size.  (If not, a gap may be read as a frame, in this
\* direction as in the other: see OnlyWhatWasSent of ShmGoToJs.)
StreamIsPayloads ==
  (\A i, j \in 1 .. Len(accepted) : LenOf(i) = LenOf(j)) =>
    IsPrefix(stream \o readBuffer,
             FlattenSeq([i \in 1 .. Len(accepted) |-> Payload(i)]))

\* Calls of write() that wait for room all compute from the same head and tail
\* when they wake; no two frames may share a byte of what is not read.
FramesDisjoint ==
  /\ TypeOK
  /\ \A i, j \in 1 .. Len(accepted) :
       i < j => /\ accepted[i].at + FrameSize(LenOf(i)) <= accepted[j].at
                /\ jsGoTail <= accepted[i].at =>
                     accepted[j].at + FrameSize(LenOf(j)) - accepted[i].at <= BufferSize

\* A message that waits gets room, or is given up; it does not wait for ever.
WaitEnds == \A id \in 1 .. MaxMsgs : (id \in waiting) ~> (id \notin waiting)
=============================================================================
