----------------------------- MODULE ShmGoToJs -----------------------------
(***************************************************************************)
(* The ring from the guest to the page: SharedChannel.Write in chan.go is  *)
(* the writer, the polling loop of chan.js the reader.  The page and the   *)
(* emulator share one thread, so an iteration of the loop is one step; the *)
(* guest can be stopped between any two of its instructions, so Write is   *)
(* split where it reads the reader's tail, where it has copied the frame   *)
(* and where it publishes its head.                                        *)
(***************************************************************************)
EXTENDS ShmRing

VARIABLES
  goJsHead,    \* written by Write
  goJsTail,    \* written by the loop
  goJsBuffer,
  writer,      \* the call of Write that is running
  sent,        \* history: the frames published, and where they begin
  received,    \* history: what the loop posted where a frame was due
  stale        \* history: it posted something where none was

vars == <<goJsHead, goJsTail, goJsBuffer, writer, sent, received, stale>>

Idle == [pc |-> "idle", len |-> 0, at |-> 0, pos |-> 0, tail |-> 0]

\* Types, and that the frame being copied lies inside the block: copy() would
\* silently cut it at the end of the slice.
TypeOK ==
  /\ goJsHead \in 0 .. Uint - 1
  /\ goJsTail \in 0 .. Uint - 1
  /\ goJsBuffer \in [Offsets -> Byte]
  /\ writer \in [pc : {"idle", "try", "full", "copy", "publish"}, len : 0 .. BufferSize,
                 at : 0 .. Uint - 1, pos : Offsets, tail : 0 .. Uint - 1]
  /\ sent \in Seq([len : Lens, at : 0 .. Uint - 1])
  /\ Len(sent) <= MaxMsgs
  /\ writer.pc # "idle" => writer.len \in Lens /\ Len(sent) < MaxMsgs
  /\ writer.pc \in {"copy", "publish"} =>
       writer.pos + FrameSize(writer.len) <= BufferSize
  /\ received \in Seq(0 .. MaxMsgs) /\ Len(received) <= Len(sent)
  /\ stale \in BOOLEAN

Init ==
  /\ goJsHead = 0 /\ goJsTail = 0
  /\ goJsBuffer = [q \in Offsets |-> Blank]
  /\ writer = Idle
  /\ sent = <<>> /\ received = <<>> /\ stale = FALSE

-----------------------------------------------------------------------------
(* SharedChannel.Write                                                     *)

\* Mutant: the bytes in use are forgotten.
AvailableWholeBlock(head, tail) == AfterMargin(BufferSize)

Available(head, tail) ==
  AfterMargin(IF head >= tail THEN Uint32((BufferSize - head) + tail) ELSE tail - head)

FitsAt(head, len) == Pos(head) + FrameSize(len) <= BufferSize

\* Mutants: a new cycle begins without a look at the tail, or never.
HasRoomNoTailCheck(head, tail, len) == FrameSize(len) <= Available(head, tail)
HasRoomNoCycle(head, tail, len) ==
  FrameSize(len) <= Available(head, tail) /\ FitsAt(head, len)

HasRoom(head, tail, len) ==
  /\ FrameSize(len) <= Available(head, tail)
  /\ FitsAt(head, len) \/ Pos(tail) >= FrameSize(len)

WriteCall(len) ==
  /\ writer.pc = "idle"
  /\ Len(sent) < MaxMsgs
  /\ writer' = [Idle EXCEPT !.pc = "try", !.len = len]
  /\ UNCHANGED <<goJsHead, goJsTail, goJsBuffer, sent, received, stale>>

\* One pass of the loop up to the copy: head and tail are loaded and the place
\* of the frame is decided, or the pass fails and the loop retries.
WriteAttempt ==
  /\ writer.pc \in {"try", "full"}
  /\ writer' =
       IF HasRoom(goJsHead, goJsTail, writer.len)
       THEN IF FitsAt(goJsHead, writer.len)
            THEN [writer EXCEPT !.pc = "copy", !.at = goJsHead,
                                !.pos = Pos(goJsHead), !.tail = goJsTail]
            ELSE [writer EXCEPT !.pc = "copy", !.at = Uint32(NextCycle(goJsHead)),
                                !.pos = 0, !.tail = goJsTail]
       ELSE [writer EXCEPT !.pc = "full", !.tail = goJsTail]
  /\ UNCHANGED <<goJsHead, goJsTail, goJsBuffer, sent, received, stale>>

\* Mutant: headPos is not reset when the head is moved to the next cycle.
WriteCopyAtHead ==
  /\ writer.pc = "copy"
  /\ goJsBuffer' = PutFrame(goJsBuffer, Pos(goJsHead), Len(sent) + 1, writer.len)
  /\ writer' = [writer EXCEPT !.pc = "publish"]
  /\ UNCHANGED <<goJsHead, goJsTail, sent, received, stale>>

WriteCopy ==
  /\ writer.pc = "copy"
  /\ goJsBuffer' = PutFrame(goJsBuffer, writer.pos, Len(sent) + 1, writer.len)
  /\ writer' = [writer EXCEPT !.pc = "publish"]
  /\ UNCHANGED <<goJsHead, goJsTail, sent, received, stale>>

WritePublish ==
  /\ writer.pc = "publish"
  /\ goJsHead' = Uint32(writer.at + FrameSize(writer.len))
  /\ sent' = Append(sent, [len |-> writer.len, at |-> writer.at])
  /\ writer' = Idle
  /\ UNCHANGED <<goJsTail, goJsBuffer, received, stale>>

\* The deadline passes after a pass that failed; the caller gets the error
\* "buffer full" and nothing was sent.
WriteTimeout ==
  /\ writer.pc = "full"
  /\ writer' = Idle
  /\ UNCHANGED <<goJsHead, goJsTail, goJsBuffer, sent, received, stale>>

-----------------------------------------------------------------------------
(* The loop of pollForMessages                                             *)

JsHead == Int32(goJsHead)
JsTail == Int32(goJsTail)
DataAvailable == Uint32(JsHead - JsTail)

SkipToNextCycle ==
  /\ goJsTail' = Uint32(NextCycle(JsTail))
  /\ UNCHANGED <<received, stale>>

\* Ghost: the frames read so far, and whether the loop stands where the next
\* one was put.
taken == Len(received)
AtNextFrame == taken < Len(sent) /\ goJsTail = sent[taken + 1].at

Post(message) ==
  IF AtNextFrame
  THEN received' = Append(received, message) /\ UNCHANGED stale
  ELSE stale' = TRUE /\ UNCHANGED received

\* Mutant: the header is not counted.
DeliverNoHeader(len) ==
  /\ goJsTail' = Uint32(JsTail + len)
  /\ Post(MessageAt(goJsBuffer, JsPos(JsTail), len))

Deliver(len) ==
  /\ goJsTail' = Uint32(JsTail + FrameSize(len))
  /\ Post(MessageAt(goJsBuffer, JsPos(JsTail), len))

JsPoll ==
  /\ DataAvailable # 0
  /\ IF JsPos(JsTail) + Header > BufferSize
     THEN SkipToNextCycle
     ELSE \E len \in LengthsAt(goJsBuffer, JsPos(JsTail)) :
            IF /\ len > 0 /\ len < BufferSize
               /\ JsPos(JsTail) + FrameSize(len) <= BufferSize
            THEN Deliver(len)
            ELSE SkipToNextCycle
  /\ UNCHANGED <<goJsHead, goJsBuffer, writer, sent>>

-----------------------------------------------------------------------------
Write == \/ \E len \in Lens : WriteCall(len)
         \/ WriteAttempt \/ WriteCopy \/ WritePublish \/ WriteTimeout

Next == Write \/ JsPoll

Spec == Init /\ [][Next]_vars

\* Write spins until its deadline, the loop re-arms itself with setTimeout.
Fairness == WF_vars(WriteAttempt) /\ WF_vars(WriteCopy) /\ WF_vars(WritePublish)
            /\ WF_vars(JsPoll)

FairSpec == Spec /\ Fairness

-----------------------------------------------------------------------------
(* Properties                                                              *)

FrameEnd(i) == sent[i].at + FrameSize(sent[i].len)

\* The bytes between tail and head, the frame being copied included, never
\* exceed the block.  Write checks two conditions on a tail that may already
\* be old (lines 208-251 of chan.go); together they must imply this one.
RingSpace ==
  /\ TypeOK
  /\ goJsTail <= goJsHead
  /\ goJsHead - goJsTail <= BufferSize
  /\ writer.pc \in {"copy", "publish"} =>
       writer.at + FrameSize(writer.len) - goJsTail <= BufferSize

\* The loop never jumps over a frame it has not read: whatever the bytes of a
\* gap spell, it stands at the next frame or before it, and in the latter case
\* the next cycle is where that frame begins.
NothingSkipped ==
  IF taken < Len(sent)
  THEN LET at == sent[taken + 1].at
       IN  goJsTail = at \/ (goJsTail < at /\ NextCycle(goJsTail) = at)
  ELSE goJsTail = goJsHead

\* A frame that was published and not yet read still stands in memory: no
\* later Write, at its place or after a gap, has touched one of its bytes.
\* And the loop comes upon it (NothingSkipped).
UnreadIntact ==
  /\ NothingSkipped
  /\ \A i \in taken + 1 .. Len(sent) :
       \A k \in 0 .. FrameSize(sent[i].len) - 1 :
         goJsBuffer[Pos(sent[i].at) + k] = ByteOf(i, sent[i].len, k)

\* A call of Write finds room or gives up by its deadline; as long as the loop
\* runs, room for a frame of at most half the block is certain to come.
RoomComes == (writer.pc = "full") ~> (writer.pc # "full")

\* The loop takes what stands in a gap for a frame if it can be read as one.
\* With frames of one size it cannot: the bytes of a gap were never written.
OneSizeNothingStale ==
  (\A i, j \in 1 .. Len(sent) : sent[i].len = sent[j].len) => ~stale

\* chan.go:237 and chan.js:108 take every gap to be recognised as one: the
\* loop posts the messages that were sent and nothing else.
OnlyWhatWasSent == ~stale

Channel == INSTANCE MsgChannel WITH accepted <- Len(sent), delivered <- received

\* Leaving aside what it posts out of a gap, the ring is a first-in first-out
\* channel: every message is posted once, whole and in the order of the calls,
\* although Write is stopped anywhere and the loop resynchronises at cycles.
RingIsChannel == Channel!Spec
=============================================================================
