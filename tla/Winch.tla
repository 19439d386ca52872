------------------------------- MODULE Winch -------------------------------
(***************************************************************************)
(* term/winch.go: the window-size file of a terminal.  A hub maps the ids  *)
(* of its subscribers to buffered channels; writing to an open file        *)
(* broadcasts a frame to every channel, reading receives from the file's   *)
(* own.  A file opened read-only, write-only or read-write has its own     *)
(* type and its own way of locking.  One goroutine reads, one writes and   *)
(* one closes each file, all at the same time.                             *)
(*                                                                         *)
(* An open file stands for its id too: it subscribes at most once.  A      *)
(* frame is the pair of the file it was written to and its number there.   *)
(* hub.close is not modelled: only Resource.shutdown calls it, which       *)
(* nothing reaches (the two calls in service.go are commented out).        *)
(***************************************************************************)
EXTENDS Integers, Sequences, FiniteSets

CONSTANTS
  RdOnly, WrOnly, RdWr,  \* the open files, by their flag
  Closers,               \* the files somebody closes
  Eager,                 \* the files whose goroutine calls Read again and again
  Slots,                 \* slots of a channel (64)
  MaxFrames              \* bound: writes to one file

Files == RdOnly \cup WrOnly \cup RdWr
Reading == RdOnly \cup RdWr
Writing == WrOnly \cup RdWr

ASSUME WinchAssumption ==
  /\ RdOnly \cap WrOnly = {} /\ RdOnly \cap RdWr = {} /\ WrOnly \cap RdWr = {}
  /\ Closers \subseteq Files /\ Eager \subseteq Reading
  /\ IsFiniteSet(Files) /\ Slots \in Nat \ {0} /\ MaxFrames \in Nat

Frames == Writing \X (1 .. MaxFrames)
End == <<>>

\* The sequences that list each element of S once.
Orders(S) ==
  {s \in [1 .. Cardinality(S) -> S] : \A i, j \in DOMAIN s : s[i] = s[j] => i = j}

VARIABLES
  hub,         \* the files whose channel is in hub.readers
  subscribed,  \* the files that called addReader
  chan, chanClosed,
  closed,      \* the files marked closed
  rest,        \* the files with the rest of a frame in buf
  locked,      \* the read-only files whose Read holds the mutex
  readPc, closePc, writePc,
  taken,       \* what Read has received: a frame, or End
  targets,     \* the channels a broadcast has still to send to, in map order
  nwritten,    \* history: number of frames broadcast from each file
  due,         \* history: the frames whose broadcast picked the file
  received,    \* history: the frames Read returned
  panicked     \* a send on a closed channel ends the program

vars == <<hub, subscribed, chan, chanClosed, closed, rest, locked, readPc, closePc,
          writePc, taken, targets, nwritten, due, received, panicked>>

\* Types; a file is in the hub exactly while its channel is open.
TypeOK ==
  /\ hub \subseteq subscribed /\ subscribed \subseteq Reading
  /\ chan \in [Reading -> Seq(Frames)]
  /\ chanClosed = subscribed \ hub
  /\ closed \subseteq Files /\ rest \subseteq Reading /\ locked \subseteq RdOnly
  /\ readPc \in [Reading -> {"idle", "lock", "recv", "done"}]
  /\ closePc \in [Files -> {"idle", "lock", "remove"}]
  /\ writePc \in [Writing -> {"idle", "pick", "send"}]
  /\ taken \in [Reading -> Frames \cup {End}]
  /\ targets \in [Writing -> Seq(Reading)]
  /\ nwritten \in [Writing -> 0 .. MaxFrames]
  /\ due \in [Reading -> Seq(Frames)]
  /\ received \in [Reading -> Seq(Frames)]
  /\ panicked \in BOOLEAN

Init ==
  /\ hub = {} /\ subscribed = {} /\ chanClosed = {}
  /\ closed = {} /\ rest = {} /\ locked = {}
  /\ chan = [f \in Reading |-> <<>>]
  /\ readPc = [f \in Reading |-> "idle"]
  /\ closePc = [f \in Files |-> "idle"]
  /\ writePc = [f \in Writing |-> "idle"]
  /\ taken = [f \in Reading |-> End]
  /\ targets = [f \in Writing |-> <<>>]
  /\ nwritten = [f \in Writing |-> 0]
  /\ due = [f \in Reading |-> <<>>]
  /\ received = [f \in Reading |-> <<>>]
  /\ panicked = FALSE

-----------------------------------------------------------------------------
(* The hub                                                                 *)

addReader(f) == hub' = hub \cup {f} /\ subscribed' = subscribed \cup {f}

removeReader(f) ==
  /\ hub' = hub \ {f}
  /\ chanClosed' = IF f \in hub THEN chanClosed \cup {f} ELSE chanClosed

\* sync.Once of a read-only file; ensure() of a read-write file, under its mutex.
MustSubscribe(f) == f \notin subscribed /\ (f \in RdOnly \/ f \notin closed)

Ensure(f) == IF MustSubscribe(f) THEN addReader(f) ELSE UNCHANGED <<hub, subscribed>>

-----------------------------------------------------------------------------
(* Read                                                                    *)

To(pcs, f, where) == [pcs EXCEPT ![f] = where]

ReadCall(f) ==
  /\ ~panicked /\ readPc[f] = "idle"
  /\ Ensure(f)
  /\ readPc' = To(readPc, f, "lock")
  /\ UNCHANGED <<chan, chanClosed, closed, rest, locked, closePc, writePc, taken,
                 targets, nwritten, due, received, panicked>>

\* Mutant: a read-write file keeps its mutex too while it waits.
ReadLockHeld(f) ==
  /\ ~panicked /\ readPc[f] = "lock" /\ f \notin locked
  /\ IF f \in closed \/ f \in rest
     THEN readPc' = To(readPc, f, "idle") /\ rest' = rest \ {f} /\ UNCHANGED locked
     ELSE readPc' = To(readPc, f, "recv") /\ locked' = locked \cup {f} /\ UNCHANGED rest
  /\ UNCHANGED <<hub, subscribed, chan, chanClosed, closed, closePc, writePc, taken,
                 targets, nwritten, due, received, panicked>>

\* Read has the mutex.  A closed file and one with the rest of a frame return
\* at once (a frame is read in at most two parts); otherwise a read-only file
\* keeps the mutex while it waits for its channel.
ReadLock(f) ==
  /\ ~panicked /\ readPc[f] = "lock" /\ f \notin locked
  /\ \/ /\ f \in closed
        /\ readPc' = To(readPc, f, "idle")
        /\ UNCHANGED <<rest, locked>>
     \/ /\ f \notin closed /\ f \in rest
        /\ readPc' = To(readPc, f, "idle")
        /\ rest' = rest \ {f}
        /\ UNCHANGED locked
     \/ /\ f \notin closed /\ f \notin rest
        /\ readPc' = To(readPc, f, "recv")
        /\ locked' = IF f \in RdOnly THEN locked \cup {f} ELSE locked
        /\ UNCHANGED rest
  /\ UNCHANGED <<hub, subscribed, chan, chanClosed, closed, closePc, writePc, taken,
                 targets, nwritten, due, received, panicked>>

\* frame, ok := <-ch
ReadReceive(f) ==
  /\ ~panicked /\ readPc[f] = "recv"
  /\ \/ /\ chan[f] # <<>>
        /\ taken' = [taken EXCEPT ![f] = Head(chan[f])]
        /\ chan' = [chan EXCEPT ![f] = Tail(@)]
     \/ /\ chan[f] = <<>> /\ f \in chanClosed
        /\ taken' = [taken EXCEPT ![f] = End]
        /\ UNCHANGED chan
  /\ readPc' = To(readPc, f, "done")
  /\ UNCHANGED <<hub, subscribed, chanClosed, closed, rest, locked, closePc, writePc,
                 targets, nwritten, due, received, panicked>>

\* Mutants: a frame that is longer than the caller's buffer is lost; a file that
\* was closed meanwhile returns the frame.
ReadReturnLosesLong(f) ==
  /\ ~panicked /\ readPc[f] = "done"
  /\ received' \in {received, [received EXCEPT ![f] = Append(@, taken[f])]}
  /\ taken[f] = End => UNCHANGED received
  /\ readPc' = To(readPc, f, "idle") /\ taken' = [taken EXCEPT ![f] = End]
  /\ locked' = locked \ {f}
  /\ UNCHANGED <<hub, subscribed, chan, chanClosed, closed, rest, closePc, writePc,
                 targets, nwritten, due, panicked>>

ReadReturnNoRecheck(f) ==
  /\ ~panicked /\ readPc[f] = "done"
  /\ received' = IF taken[f] = End THEN received ELSE [received EXCEPT ![f] = Append(@, taken[f])]
  /\ readPc' = To(readPc, f, "idle") /\ taken' = [taken EXCEPT ![f] = End]
  /\ locked' = locked \ {f}
  /\ UNCHANGED <<hub, subscribed, chan, chanClosed, closed, rest, closePc, writePc,
                 targets, nwritten, due, panicked>>

\* The frame is returned, whole or its first part.  A read-write file takes its
\* mutex again here and looks once more whether it was closed meanwhile.
ReadReturn(f) ==
  /\ ~panicked /\ readPc[f] = "done"
  /\ IF taken[f] = End \/ (f \in RdWr /\ f \in closed)
     THEN UNCHANGED <<received, rest>>
     ELSE /\ received' = [received EXCEPT ![f] = Append(@, taken[f])]
          /\ rest' \in {rest, rest \cup {f}}
  /\ readPc' = To(readPc, f, "idle")
  /\ taken' = [taken EXCEPT ![f] = End]
  /\ locked' = locked \ {f}
  /\ UNCHANGED <<hub, subscribed, chan, chanClosed, closed, closePc, writePc,
                 targets, nwritten, due, panicked>>

-----------------------------------------------------------------------------
(* Close                                                                   *)

CloseCall(f) ==
  /\ ~panicked /\ f \in Closers /\ closePc[f] = "idle" /\ f \notin closed
  /\ closePc' = To(closePc, f, "lock")
  /\ UNCHANGED <<hub, subscribed, chan, chanClosed, closed, rest, locked, readPc,
                 writePc, taken, targets, nwritten, due, received, panicked>>

\* The file is marked closed.  A read-only file leaves the hub under the same
\* mutex; a read-write file releases it first.
CloseLock(f) ==
  /\ ~panicked /\ closePc[f] = "lock" /\ f \notin locked
  /\ closed' = closed \cup {f}
  /\ IF f \in RdOnly /\ f \in subscribed THEN removeReader(f) ELSE UNCHANGED <<hub, chanClosed>>
  /\ closePc' = To(closePc, f, IF f \in RdWr /\ f \in subscribed THEN "remove" ELSE "idle")
  /\ UNCHANGED <<subscribed, chan, rest, locked, readPc, writePc, taken, targets,
                 nwritten, due, received, panicked>>

CloseRemove(f) ==
  /\ ~panicked /\ closePc[f] = "remove"
  /\ removeReader(f)
  /\ closePc' = To(closePc, f, "idle")
  /\ UNCHANGED <<subscribed, chan, closed, rest, locked, readPc, writePc, taken,
                 targets, nwritten, due, received, panicked>>

-----------------------------------------------------------------------------
(* Write                                                                   *)

WriteCall(f) ==
  /\ ~panicked /\ writePc[f] = "idle" /\ nwritten[f] < MaxFrames
  /\ IF f \in RdWr THEN Ensure(f) ELSE UNCHANGED <<hub, subscribed>>
  /\ writePc' = To(writePc, f, "pick")
  /\ UNCHANGED <<chan, chanClosed, closed, rest, locked, readPc, closePc, taken,
                 targets, nwritten, due, received, panicked>>

\* broadcast copies the channels under the hub's mutex, without its own ...
WritePick(f) ==
  /\ ~panicked /\ writePc[f] = "pick"
  /\ \E order \in Orders(hub \ {f}) : targets' = [targets EXCEPT ![f] = order]
  /\ nwritten' = [nwritten EXCEPT ![f] = @ + 1]
  /\ due' = [g \in Reading |->
               IF g \in hub \ {f} THEN Append(due[g], <<f, nwritten[f] + 1>>) ELSE due[g]]
  /\ writePc' = To(writePc, f, "send")
  /\ UNCHANGED <<hub, subscribed, chan, chanClosed, closed, rest, locked, readPc,
                 closePc, taken, received, panicked>>

\* Mutant: a frame for a full channel is dropped.
WriteSendOrDrop(f) ==
  /\ ~panicked /\ writePc[f] = "send" /\ targets[f] # <<>>
  /\ LET g == Head(targets[f])
     IN  chan' = IF Len(chan[g]) < Slots
                 THEN [chan EXCEPT ![g] = Append(@, <<f, nwritten[f]>>)] ELSE chan
  /\ targets' = [targets EXCEPT ![f] = Tail(@)]
  /\ UNCHANGED <<hub, subscribed, chanClosed, closed, rest, locked, readPc, closePc,
                 writePc, taken, nwritten, due, received, panicked>>

\* ... and sends without it, in the order the map gave them: to a full channel
\* it waits, on a channel that was closed in the meantime it panics.
WriteSend(f) ==
  /\ ~panicked /\ writePc[f] = "send" /\ targets[f] # <<>>
  /\ LET g == Head(targets[f])
     IN  IF g \in chanClosed
         THEN panicked' = TRUE /\ UNCHANGED <<chan, targets>>
         ELSE /\ Len(chan[g]) < Slots
              /\ chan' = [chan EXCEPT ![g] = Append(@, <<f, nwritten[f]>>)]
              /\ targets' = [targets EXCEPT ![f] = Tail(@)]
              /\ UNCHANGED panicked
  /\ UNCHANGED <<hub, subscribed, chanClosed, closed, rest, locked, readPc, closePc,
                 writePc, taken, nwritten, due, received>>

WriteReturn(f) ==
  /\ ~panicked /\ writePc[f] = "send" /\ targets[f] = <<>>
  /\ writePc' = To(writePc, f, "idle")
  /\ UNCHANGED <<hub, subscribed, chan, chanClosed, closed, rest, locked, readPc,
                 closePc, taken, targets, nwritten, due, received, panicked>>

-----------------------------------------------------------------------------
Read(f) == ReadCall(f) \/ ReadLock(f) \/ ReadReceive(f) \/ ReadReturn(f)
Close(f) == CloseCall(f) \/ CloseLock(f) \/ CloseRemove(f)
Write(f) == WriteCall(f) \/ WritePick(f) \/ WriteSend(f) \/ WriteReturn(f)

Next == \/ \E f \in Reading : Read(f)
        \/ \E f \in Files : Close(f)
        \/ \E f \in Writing : Write(f)

Spec == Init /\ [][Next]_vars

\* The steps that a goroutine takes once its call has begun, and the calls of
\* the goroutines that read in a loop.  A mutex is handed over in turn.
Fairness ==
  /\ \A f \in Reading : WF_vars(readPc[f] # "idle" /\ Read(f))
  /\ \A f \in Eager : WF_vars(Read(f))
  /\ \A f \in Files : SF_vars(closePc[f] # "idle" /\ Close(f))
  /\ \A f \in Writing : WF_vars(writePc[f] # "idle" /\ Write(f))

FairSpec == Spec /\ Fairness

-----------------------------------------------------------------------------
(* Properties                                                              *)

\* The frames of s that were written to w.
From(s, w) ==
  LET some[i \in 0 .. Len(s)] ==
        IF i = 0 THEN <<>>
        ELSE IF s[i][1] = w THEN Append(some[i - 1], s[i]) ELSE some[i - 1]
  IN  some[Len(s)]

\* What a file's Read returned, what it holds and what its channel holds are,
\* for each writer, the first of the frames meant for it, in the order of the
\* writes and without a hole: a subscriber that stays hears every resize once.
FramesInOrder ==
  /\ TypeOK
  /\ \A f \in Reading, w \in Writing :
      f \notin closed =>
        LET held == IF taken[f] = End THEN <<>> ELSE <<taken[f]>>
            some == From(received[f] \o held \o chan[f], w)
        IN  some = SubSeq(From(due[f], w), 1, Len(some))

\* Once a file is closed no Read of it returns a frame, the one that was waiting
\* for its channel when Close came included.
NothingAfterClose ==
  [][\A f \in Reading : f \in closed => received'[f] = received[f]]_vars

\* If the subscribers keep reading, every frame reaches each of those it was
\* meant for, so every Write returns, though channels are bounded and a
\* broadcast waits for one subscriber after the other.  Three things end it: the
\* subscriber is closed, the program has panicked, or a read-only file that was
\* first read after its Close has left a channel in the hub nobody will drain.
EveryFrameArrives ==
  \A f \in Eager, frame \in Frames :
    (\E i \in DOMAIN due[f] : due[f][i] = frame)
      ~> \/ \E i \in DOMAIN received[f] : received[f][i] = frame
         \/ f \in closed \/ panicked
         \/ hub \cap closed \cap RdOnly # {}

\* Closing a read-write file returns even if its Read waits for a frame that
\* never comes (a read-only file's Close waits for the Read).
CloseReturns ==
  \A f \in RdWr : closePc[f] # "idle" ~> (closePc[f] = "idle" \/ panicked)
=============================================================================
