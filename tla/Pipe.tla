-------------------------------- MODULE Pipe --------------------------------
(***************************************************************************)
(* vfs/pipe: the in-memory full-duplex pipe behind file descriptors,       *)
(* terminals and allocated pipes.  Two Buffers are cross-connected between *)
(* two Ports; threads call Read, Write and Close on the port they hold.  A *)
(* Buffer is guarded by its mutex, so each critical section is one step; a *)
(* reader inside dataCond.Wait has left the mutex and is in the wait set   *)
(* until a Signal or a Broadcast lets it compete for the mutex again.      *)
(***************************************************************************)
EXTENDS Integers, Sequences, FiniteSets

CONSTANTS
  Threads,
  Readers,    \* the threads that call Read
  PortOf,     \* the port, 1 or 2, each thread holds
  Blocking,   \* the block argument of New
  WriteSizes, \* numbers of bytes passed to Write
  ReadSizes,  \* sizes of the buffers passed to Read
  MaxBytes    \* bound: bytes written to one Buffer

Ports == {1, 2}

ASSUME PipeAssumption ==
  /\ PortOf \in [Threads -> Ports] /\ Readers \subseteq Threads
  /\ Blocking \in BOOLEAN
  /\ WriteSizes \subseteq Nat
  /\ ReadSizes \subseteq Nat \ {0}
  /\ MaxBytes \in Nat

VARIABLES
  buffer,   \* the bytes in each Buffer, oldest first
  closed,
  pc,       \* per thread: idle, asleep, woken, or between the halves of Close
  size,     \* per thread: the size its Read was called with
  written,  \* history: number of bytes each Buffer accepted
  got,      \* history: the bytes read from each Buffer, in order
  eof       \* history: Buffers a Read returned EOF from

vars == <<buffer, closed, pc, size, written, got, eof>>

\* Port i reads Buffer i and writes the Buffer the other port reads.
ReaderOf(t) == PortOf[t]
WriterOf(t) == 3 - PortOf[t]

Bytes(from, n) == [k \in 1 .. n |-> from + k]
Smaller(m, n) == IF m < n THEN m ELSE n

Asleep(b) == {t \in Threads : pc[t] = "asleep" /\ ReaderOf(t) = b}

\* Types; only a thread inside Read is in the wait set or woken from it.
TypeOK ==
  /\ buffer \in [Ports -> Seq(Nat)]
  /\ closed \in [Ports -> BOOLEAN]
  /\ pc \in [Threads -> {"idle", "asleep", "woken", "closing"}]
  /\ size \in [Threads -> ReadSizes \cup {0}]
  /\ written \in [Ports -> 0 .. MaxBytes]
  /\ got \in [Ports -> Seq(Nat)]
  /\ eof \subseteq Ports
  /\ \A t \in Threads :
       pc[t] \in {"asleep", "woken"} => t \in Readers /\ size[t] \in ReadSizes

Init ==
  /\ buffer = [b \in Ports |-> <<>>]
  /\ closed = [b \in Ports |-> FALSE]
  /\ pc = [t \in Threads |-> "idle"]
  /\ size = [t \in Threads |-> 0]
  /\ written = [b \in Ports |-> 0]
  /\ got = [b \in Ports |-> <<>>]
  /\ eof = {}

-----------------------------------------------------------------------------
(* Buffer.Write                                                            *)

\* Mutant: Write forgets to signal.
SignalNobody(b) == UNCHANGED pc

Signal(b) ==
  IF Asleep(b) = {} THEN UNCHANGED pc
  ELSE \E t \in Asleep(b) : pc' = [pc EXCEPT ![t] = "woken"]

Write(t, n) ==
  LET b == WriterOf(t)
  IN  /\ pc[t] = "idle"
      /\ ~closed[b]
      /\ written[b] + n <= MaxBytes
      /\ buffer' = [buffer EXCEPT ![b] = @ \o Bytes(written[b], n)]
      /\ written' = [written EXCEPT ![b] = @ + n]
      /\ Signal(b)
      /\ UNCHANGED <<closed, size, got, eof>>

(* Buffer.Read                                                             *)

MustWait(b) == Blocking /\ buffer[b] = <<>> /\ ~closed[b]

\* Mutant: the bytes are copied and not consumed.
ReturnPeek(t, n) ==
  LET b == ReaderOf(t)
  IN  /\ got' = [got EXCEPT ![b] = @ \o SubSeq(buffer[b], 1, Smaller(n, Len(buffer[b])))]
      /\ eof' = IF buffer[b] = <<>> THEN eof \cup {b} ELSE eof
      /\ pc' = [pc EXCEPT ![t] = "idle"] /\ size' = [size EXCEPT ![t] = 0]
      /\ UNCHANGED <<buffer, closed, written>>

\* The end of Read, under the mutex.  Of an empty Buffer both the code's own
\* test and bytes.Buffer.Read return EOF.
Return(t, n) ==
  LET b == ReaderOf(t)
      m == Smaller(n, Len(buffer[b]))
  IN  /\ got' = [got EXCEPT ![b] = @ \o SubSeq(buffer[b], 1, m)]
      /\ buffer' = [buffer EXCEPT ![b] = SubSeq(@, m + 1, Len(@))]
      /\ eof' = IF buffer[b] = <<>> THEN eof \cup {b} ELSE eof
      /\ pc' = [pc EXCEPT ![t] = "idle"]
      /\ size' = [size EXCEPT ![t] = 0]
      /\ UNCHANGED <<closed, written>>

Sleep(t, n) ==
  /\ pc' = [pc EXCEPT ![t] = "asleep"]
  /\ size' = [size EXCEPT ![t] = n]
  /\ UNCHANGED <<buffer, closed, written, got, eof>>

Read(t, n) ==
  /\ pc[t] = "idle" /\ t \in Readers
  /\ IF MustWait(ReaderOf(t)) THEN Sleep(t, n) ELSE Return(t, n)

\* Mutant: the condition is tested by an if, not in a loop.
ResumeNoLoop(t) == pc[t] = "woken" /\ Return(t, size[t])

\* A woken reader has the mutex again and tests the loop's condition.
Resume(t) ==
  /\ pc[t] = "woken"
  /\ IF MustWait(ReaderOf(t)) THEN Sleep(t, size[t]) ELSE Return(t, size[t])

(* Port.Close: the Buffer it reads first, then the one it writes, each     *)
(* under its own mutex.                                                    *)

\* Mutant: Close wakes nobody.
BroadcastNobody(b, t, after) == pc' = [pc EXCEPT ![t] = after]

Broadcast(b, t, after) ==
  pc' = [u \in Threads |-> IF u = t THEN after
                           ELSE IF u \in Asleep(b) THEN "woken" ELSE pc[u]]

CloseReader(t) ==
  /\ pc[t] = "idle"
  /\ closed' = [closed EXCEPT ![ReaderOf(t)] = TRUE]
  /\ Broadcast(ReaderOf(t), t, "closing")
  /\ UNCHANGED <<buffer, size, written, got, eof>>

CloseWriter(t) ==
  /\ pc[t] = "closing"
  /\ closed' = [closed EXCEPT ![WriterOf(t)] = TRUE]
  /\ Broadcast(WriterOf(t), t, "idle")
  /\ UNCHANGED <<buffer, size, written, got, eof>>

-----------------------------------------------------------------------------
Next ==
  \E t \in Threads :
    \/ \E n \in WriteSizes : Write(t, n)
    \/ \E n \in ReadSizes : Read(t, n)
    \/ Resume(t) \/ CloseReader(t) \/ CloseWriter(t)

Spec == Init /\ [][Next]_vars

\* A woken goroutine gets the mutex, a Close that began ends.  Nobody is
\* obliged to call Read, Write or Close.
Fairness == \A t \in Threads : WF_vars(Resume(t)) /\ WF_vars(CloseWriter(t))

FairSpec == Spec /\ Fairness

-----------------------------------------------------------------------------
(* Properties                                                              *)

BytesKept == \A b \in Ports : got[b] \o buffer[b] = Bytes(0, written[b])

\* What was read and what is still buffered is what was written, in order:
\* readers and writers that interleave lose, repeat and swap no byte (with the
\* types, and only threads inside Read in the wait set).
StreamKept == TypeOK /\ BytesKept

\* A blocking pipe returns EOF only when it is closed and drained, and from
\* then on for ever: a wakeup without data (a Write of no bytes signals too)
\* never looks like the end of the stream.
EofMeansDrained ==
  Blocking => \A b \in eof : closed[b] /\ buffer[b] = <<>>

\* Each Buffer is read by one thread, as the loops that serve a serial port, a
\* worker or a process do; pipe_test.go:172 takes a second reader to be impossible.
OneReaderPerPort ==
  \A t, u \in Readers : PortOf[t] = PortOf[u] => t = u

\* No lost wakeup: with one reader per Buffer, a reader sleeps only while there
\* is nothing to return, though Write wakes one thread and a Read may leave
\* bytes behind.
NoSleepOverData ==
  OneReaderPerPort =>
    \A t \in Threads : pc[t] = "asleep" => MustWait(ReaderOf(t))

\* A Read that has bytes or the end of the stream to return does return.
ReadReturns ==
  \A t \in Threads :
    (pc[t] \in {"asleep", "woken"} /\ ~MustWait(ReaderOf(t))) ~> pc[t] = "idle"
=============================================================================
