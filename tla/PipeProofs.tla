----------------------------- MODULE PipeProofs -----------------------------
(***************************************************************************)
(* Proofs about the pipe, for every set of threads, both kinds of pipe and *)
(* all sizes of writes and reads.  TypeOK is inductive; each of the other  *)
(* properties is inductive relative to it.                                 *)
(***************************************************************************)
EXTENDS Pipe, TLAPS, SequenceTheorems

-----------------------------------------------------------------------------
(* Sequences of bytes                                                      *)

\* The numbers of n consecutive bytes form a sequence of length n.
LEMMA BytesType ==
  ASSUME NEW from \in Nat, NEW n \in Nat
  PROVE  Bytes(from, n) \in Seq(Nat) /\ Len(Bytes(from, n)) = n
BY DEF Bytes

\* Runs of bytes that follow each other concatenate to one run.
LEMMA BytesConcat ==
  ASSUME NEW m \in Nat, NEW n \in Nat
  PROVE  Bytes(0, m) \o Bytes(m, n) = Bytes(0, m + n)
<1> DEFINE p == Bytes(0, m)
           q == Bytes(m, n)
           t == Bytes(0, m + n)
<1>1. /\ p \in Seq(Nat) /\ Len(p) = m
      /\ q \in Seq(Nat) /\ Len(q) = n
      /\ t \in Seq(Nat) /\ Len(t) = m + n
  BY BytesType
<1>2. /\ \A i \in 1 .. m : p[i] = i
      /\ \A i \in 1 .. n : q[i] = m + i
      /\ \A i \in 1 .. m + n : t[i] = i
  BY DEF Bytes
<1> HIDE DEF p, q, t
<1>3. /\ p \o q \in Seq(Nat) /\ Len(p \o q) = m + n
      /\ \A i \in 1 .. m + n : (p \o q)[i] = IF i <= m THEN p[i] ELSE q[i - m]
  BY <1>1, ConcatProperties
<1>4. \A i \in 1 .. m + n : (p \o q)[i] = t[i]
  BY <1>2, <1>3
<1>5. p \o q = t
  BY <1>1, <1>3, <1>4, SeqEqual
<1> QED BY <1>5 DEF p, q, t

\* Concatenation of sequences of bytes is associative.
LEMMA Associative ==
  ASSUME NEW s \in Seq(Nat), NEW t \in Seq(Nat), NEW u \in Seq(Nat)
  PROVE  (s \o t) \o u = s \o (t \o u)
<1>1. \A S : \A a, b, c \in Seq(S) : (a \o b) \o c = a \o (b \o c)
  BY ConcatAssociative
<1> QED BY <1>1

\* A Read that waits was called with a natural number.
LEMMA SizeIsNat ==
  ASSUME TypeOK, NEW t \in Threads
  PROVE  size[t] \in Nat
<1>1. size[t] \in ReadSizes \cup {0}
  BY DEF TypeOK
<1>2. ReadSizes \cup {0} \subseteq Nat
  BY PipeAssumption
<1> QED BY <1>1, <1>2

\* Reading takes a prefix of the buffer: what is taken and what is left are the
\* buffer again, and of an empty buffer nothing is left.
LEMMA ReadSplits ==
  ASSUME NEW s \in Seq(Nat), NEW n \in Nat, NEW m, m = Smaller(n, Len(s))
  PROVE  /\ SubSeq(s, 1, m) \in Seq(Nat)
         /\ SubSeq(s, m + 1, Len(s)) \in Seq(Nat)
         /\ SubSeq(s, 1, m) \o SubSeq(s, m + 1, Len(s)) = s
         /\ s = <<>> => SubSeq(s, m + 1, Len(s)) = <<>>
<1>1. Len(s) \in Nat /\ m \in 0 .. Len(s)
  BY LenProperties DEF Smaller
<1>2. \A i \in 1 .. Len(s) : s[i] \in Nat
  BY ElementOfSeq
<1>3. SubSeq(s, 1, m) \in Seq(Nat) /\ SubSeq(s, m + 1, Len(s)) \in Seq(Nat)
  BY <1>1, <1>2, SubSeqProperties
<1>4. SubSeq(s, 1, m) \o SubSeq(s, m + 1, Len(s)) = SubSeq(s, 1, Len(s))
  <2>1. 1 \in 1 .. Len(s) + 1 /\ m \in 1 - 1 .. Len(s) /\ Len(s) \in m .. Len(s)
    BY <1>1
  <2> QED BY <2>1, ConcatAdjacentSubSeq
<1>5. SubSeq(s, 1, Len(s)) = s
  BY SubSeqFull
<1>6. s = <<>> => SubSeq(s, m + 1, Len(s)) = <<>>
  BY <1>1, SubSeqEmpty
<1> QED BY <1>3, <1>4, <1>5, <1>6

-----------------------------------------------------------------------------
(* Type correctness                                                        *)

\* The two Buffers of a port are Ports, and they differ.
LEMMA BuffersOfPort ==
  ASSUME NEW t \in Threads
  PROVE  ReaderOf(t) \in Ports /\ WriterOf(t) \in Ports
BY PipeAssumption DEF ReaderOf, WriterOf, Ports

\* What Return does to the buffers, in one place: the bytes move from the front
\* of the Buffer to got, and nothing else happens to the stream.
LEMMA ReturnEffect ==
  ASSUME TypeOK, NEW t \in Threads, NEW n \in Nat, Return(t, n)
  PROVE  /\ buffer' \in [Ports -> Seq(Nat)]
         /\ got' \in [Ports -> Seq(Nat)]
         /\ \A b \in Ports : got'[b] \o buffer'[b] = got[b] \o buffer[b]
         /\ \A b \in Ports : buffer[b] = <<>> => buffer'[b] = <<>>
<1> DEFINE b == ReaderOf(t)
           m == Smaller(n, Len(buffer[b]))
           front == SubSeq(buffer[b], 1, m)
           back == SubSeq(buffer[b], m + 1, Len(buffer[b]))
<1>1. b \in Ports /\ buffer[b] \in Seq(Nat) /\ got[b] \in Seq(Nat)
  BY BuffersOfPort DEF TypeOK
<1>2. /\ front \in Seq(Nat) /\ back \in Seq(Nat)
      /\ front \o back = buffer[b]
      /\ buffer[b] = <<>> => back = <<>>
  BY <1>1, ReadSplits
<1>3. /\ got' = [got EXCEPT ![b] = got[b] \o front]
      /\ buffer' = [buffer EXCEPT ![b] = back]
  BY DEF Return
<1> HIDE DEF b, m, front, back
<1>4. (got[b] \o front) \o back = got[b] \o (front \o back)
  BY <1>1, <1>2, Associative
<1>5. got[b] \o front \in Seq(Nat)
  BY <1>1, <1>2, ConcatProperties
<1>6. \A c \in Ports :
        IF c = b THEN got'[c] = got[c] \o front /\ buffer'[c] = back
                 ELSE got'[c] = got[c] /\ buffer'[c] = buffer[c]
  BY <1>1, <1>3 DEF TypeOK
<1>7. buffer' \in [Ports -> Seq(Nat)] /\ got' \in [Ports -> Seq(Nat)]
  BY <1>1, <1>2, <1>3, <1>5 DEF TypeOK
<1> QED BY <1>2, <1>4, <1>6, <1>7

LEMMA ReturnType ==
  ASSUME TypeOK, NEW t \in Threads, NEW n \in Nat, Return(t, n)
  PROVE  TypeOK'
<1>1. buffer' \in [Ports -> Seq(Nat)] /\ got' \in [Ports -> Seq(Nat)]
  BY ReturnEffect
<1>2. eof' \subseteq Ports
  BY BuffersOfPort DEF TypeOK, Return
<1> QED BY <1>1, <1>2 DEF TypeOK, Return

LEMMA SleepType ==
  ASSUME TypeOK, NEW t \in Readers, t \in Threads, NEW n \in ReadSizes, Sleep(t, n)
  PROVE  TypeOK'
BY DEF TypeOK, Sleep

\* Types are preserved by every step, whoever takes it.
THEOREM TypeCorrect == Spec => []TypeOK
<1>1. Init => TypeOK
  BY PipeAssumption DEF Init, TypeOK, Ports
<1>2. TypeOK /\ [Next]_vars => TypeOK'
  <2> SUFFICES ASSUME TypeOK, [Next]_vars PROVE TypeOK'
    OBVIOUS
  <2> USE PipeAssumption
  <2>1. ASSUME NEW t \in Threads, NEW n \in WriteSizes, Write(t, n)
        PROVE  TypeOK'
    <3>1. WriterOf(t) \in Ports /\ n \in Nat
      BY BuffersOfPort
    <3>2. written[WriterOf(t)] \in Nat /\ buffer[WriterOf(t)] \in Seq(Nat)
      BY <3>1 DEF TypeOK
    <3>3. Bytes(written[WriterOf(t)], n) \in Seq(Nat)
      BY <3>1, <3>2, BytesType
    <3>4. buffer[WriterOf(t)] \o Bytes(written[WriterOf(t)], n) \in Seq(Nat)
      BY <3>2, <3>3, ConcatProperties
    <3>5. buffer' \in [Ports -> Seq(Nat)]
      BY <2>1, <3>1, <3>4 DEF Write, TypeOK
    <3>6. written' \in [Ports -> 0 .. MaxBytes]
      BY <2>1, <3>1, <3>2 DEF Write, TypeOK
    <3>7. /\ pc' \in [Threads -> {"idle", "asleep", "woken", "closing"}]
          /\ \A u \in Threads : pc'[u] \in {"asleep", "woken"} => pc[u] \in {"asleep", "woken"}
      BY <2>1 DEF Write, Signal, Asleep, TypeOK
    <3> QED BY <2>1, <3>5, <3>6, <3>7 DEF Write, TypeOK
  <2>2. ASSUME NEW t \in Threads, NEW n \in ReadSizes, Read(t, n)
        PROVE  TypeOK'
    BY <2>2, ReturnType, SleepType DEF Read
  <2>3. ASSUME NEW t \in Threads, Resume(t)
        PROVE  TypeOK'
    <3>1. t \in Readers /\ size[t] \in ReadSizes
      BY <2>3 DEF Resume, TypeOK
    <3> QED BY <2>3, <3>1, ReturnType, SleepType DEF Resume
  <2>4. ASSUME NEW t \in Threads, CloseReader(t)
        PROVE  TypeOK'
    BY <2>4, BuffersOfPort DEF CloseReader, Broadcast, Asleep, TypeOK
  <2>5. ASSUME NEW t \in Threads, CloseWriter(t)
        PROVE  TypeOK'
    BY <2>5, BuffersOfPort DEF CloseWriter, Broadcast, Asleep, TypeOK
  <2>6. CASE UNCHANGED vars
    BY <2>6 DEF vars, TypeOK
  <2> QED BY <2>1, <2>2, <2>3, <2>4, <2>5, <2>6 DEF Next
<1> QED BY <1>1, <1>2, PTL DEF Spec

-----------------------------------------------------------------------------
(* The stream                                                              *)

\* StreamKept: the pipe loses, repeats and reorders no byte.
THEOREM StreamCorrect == Spec => []StreamKept
<1>1. Init => BytesKept
  <2> SUFFICES ASSUME Init, NEW b \in Ports PROVE got[b] \o buffer[b] = Bytes(0, written[b])
    BY DEF BytesKept
  <2>1. got[b] \o buffer[b] = <<>> /\ written[b] = 0
    BY DEF Init
  <2> QED BY <2>1 DEF Bytes
<1>2. TypeOK /\ BytesKept /\ [Next]_vars => BytesKept'
  <2> SUFFICES ASSUME TypeOK, BytesKept, [Next]_vars PROVE BytesKept'
    OBVIOUS
  <2> USE PipeAssumption
  <2>1. ASSUME NEW t \in Threads, NEW n \in WriteSizes, Write(t, n)
        PROVE  BytesKept'
    <3> DEFINE b == WriterOf(t)
               w == written[b]
    <3>1. /\ b \in Ports /\ n \in Nat /\ w \in Nat
          /\ got[b] \in Seq(Nat) /\ buffer[b] \in Seq(Nat) /\ Bytes(w, n) \in Seq(Nat)
      BY BuffersOfPort, BytesType DEF TypeOK
    <3>2. got[b] \o (buffer[b] \o Bytes(w, n)) = (got[b] \o buffer[b]) \o Bytes(w, n)
      BY <3>1, Associative
    <3>3. (got[b] \o buffer[b]) \o Bytes(w, n) = Bytes(0, w + n)
      BY <3>1, BytesConcat DEF BytesKept
    <3>4. /\ buffer'[b] = buffer[b] \o Bytes(w, n)
          /\ written'[b] = w + n
          /\ got' = got
          /\ \A c \in Ports : c # b => buffer'[c] = buffer[c] /\ written'[c] = written[c]
      BY <2>1, <3>1 DEF Write, TypeOK
    <3> HIDE DEF b, w
    <3>5. got'[b] \o buffer'[b] = Bytes(0, written'[b])
      BY <3>2, <3>3, <3>4
    <3>6. \A c \in Ports : c # b => got'[c] \o buffer'[c] = Bytes(0, written'[c])
      BY <3>4 DEF BytesKept
    <3> QED BY <3>5, <3>6 DEF BytesKept
  <2>2. ASSUME NEW t \in Threads, NEW n \in Nat, Return(t, n)
        PROVE  BytesKept'
    <3>1. \A b \in Ports : got'[b] \o buffer'[b] = got[b] \o buffer[b]
      BY <2>2, ReturnEffect
    <3>2. written' = written
      BY <2>2 DEF Return
    <3> QED BY <3>1, <3>2 DEF BytesKept
  <2>3. CASE UNCHANGED <<buffer, written, got>>
    BY <2>3 DEF BytesKept
  <2>4. ASSUME NEW t \in Threads, NEW n \in ReadSizes, Read(t, n)
        PROVE  BytesKept'
    BY <2>2, <2>3, <2>4 DEF Read, Sleep
  <2>5. ASSUME NEW t \in Threads, Resume(t)
        PROVE  BytesKept'
    <3>1. size[t] \in Nat
      BY SizeIsNat
    <3> QED BY <2>2, <2>3, <2>5, <3>1 DEF Resume, Sleep
  <2> QED BY <2>1, <2>3, <2>4, <2>5 DEF Next, CloseReader, CloseWriter, vars
<1>3. TypeOK /\ BytesKept => StreamKept
  BY DEF StreamKept
<1> QED BY <1>1, <1>2, <1>3, TypeCorrect, PTL DEF Spec

-----------------------------------------------------------------------------
(* The end of the stream                                                   *)

\* EofMeansDrained: a blocking pipe's EOF is final.
THEOREM EofCorrect == Spec => []EofMeansDrained
<1>1. Init => EofMeansDrained
  BY DEF Init, EofMeansDrained
<1>2. TypeOK /\ EofMeansDrained /\ [Next]_vars => EofMeansDrained'
  <2> SUFFICES ASSUME TypeOK, EofMeansDrained, [Next]_vars PROVE EofMeansDrained'
    OBVIOUS
  <2> USE PipeAssumption
  <2>1. ASSUME NEW t \in Threads, NEW n \in WriteSizes, Write(t, n)
        PROVE  EofMeansDrained'
    BY <2>1 DEF Write, EofMeansDrained, TypeOK
  <2>2. ASSUME NEW t \in Threads, NEW n \in Nat, ~MustWait(ReaderOf(t)), Return(t, n)
        PROVE  EofMeansDrained'
    <3>1. \A b \in Ports : buffer[b] = <<>> => buffer'[b] = <<>>
      BY <2>2, ReturnEffect
    <3>2. /\ closed' = closed
          /\ \A b \in eof' : b \in eof \/ (b = ReaderOf(t) /\ buffer[b] = <<>>)
      BY <2>2 DEF Return
    <3> QED BY <2>2, <3>1, <3>2, BuffersOfPort DEF EofMeansDrained, MustWait, TypeOK
  <2>3. CASE UNCHANGED <<buffer, closed, eof>>
    BY <2>3 DEF EofMeansDrained
  <2>4. ASSUME NEW t \in Threads, NEW n \in ReadSizes, Read(t, n)
        PROVE  EofMeansDrained'
    BY <2>2, <2>3, <2>4 DEF Read, Sleep
  <2>5. ASSUME NEW t \in Threads, Resume(t)
        PROVE  EofMeansDrained'
    <3>1. size[t] \in Nat
      BY SizeIsNat
    <3> QED BY <2>2, <2>3, <2>5, <3>1 DEF Resume, Sleep
  <2>6. ASSUME NEW t \in Threads, CloseReader(t) \/ CloseWriter(t)
        PROVE  EofMeansDrained'
    BY <2>6 DEF CloseReader, CloseWriter, EofMeansDrained, TypeOK
  <2>7. CASE UNCHANGED vars
    BY <2>3, <2>7 DEF vars
  <2> QED BY <2>1, <2>4, <2>5, <2>6, <2>7 DEF Next
<1> QED BY <1>1, <1>2, TypeCorrect, PTL DEF Spec

-----------------------------------------------------------------------------
(* The wait set                                                            *)

\* NoSleepOverData: with one reader per Buffer the Signal of a Write wakes just
\* the thread that must wake, so none sleeps over data or over the end.
THEOREM NoLostWakeup == Spec => []NoSleepOverData
<1>1. Init => NoSleepOverData
  BY DEF Init, NoSleepOverData
<1>2. TypeOK /\ NoSleepOverData /\ [Next]_vars => NoSleepOverData'
  <2> SUFFICES ASSUME TypeOK, NoSleepOverData, [Next]_vars, OneReaderPerPort,
                      NEW u \in Threads, pc'[u] = "asleep"
               PROVE  MustWait(ReaderOf(u))'
    BY DEF NoSleepOverData, OneReaderPerPort
  <2> USE PipeAssumption
  <2>1. ASSUME pc[u] = "asleep"
        PROVE  MustWait(ReaderOf(u)) /\ u \in Readers
    BY <2>1 DEF NoSleepOverData, TypeOK
  <2>2. ASSUME NEW t \in Threads, NEW n \in WriteSizes, Write(t, n)
        PROVE  MustWait(ReaderOf(u))'
    <3>1. pc[u] = "asleep"
      BY <2>2 DEF Write, Signal, Asleep, TypeOK
    <3>2. ReaderOf(u) # WriterOf(t)
      <4>1. SUFFICES ASSUME ReaderOf(u) = WriterOf(t) PROVE FALSE
        OBVIOUS
      <4>2. u \in Asleep(WriterOf(t))
        BY <3>1, <4>1 DEF Asleep
      <4>3. PICK v \in Asleep(WriterOf(t)) : pc' = [pc EXCEPT ![v] = "woken"]
        BY <2>2, <4>2 DEF Write, Signal
      <4>4. v \in Readers /\ v \in Threads /\ PortOf[v] = PortOf[u]
        BY <4>1, <4>3 DEF Asleep, TypeOK, ReaderOf
      <4>5. v = u
        BY <2>1, <3>1, <4>4 DEF OneReaderPerPort
      <4> QED BY <4>3, <4>4, <4>5 DEF TypeOK
    <3> QED BY <2>1, <2>2, <3>1, <3>2, BuffersOfPort DEF Write, MustWait, TypeOK
  <2>3. ASSUME NEW t \in Threads, NEW n \in Nat, Return(t, n)
        PROVE  MustWait(ReaderOf(u))'
    <3>1. pc[u] = "asleep"
      BY <2>3 DEF Return, TypeOK
    <3>2. \A b \in Ports : buffer[b] = <<>> => buffer'[b] = <<>>
      BY <2>3, ReturnEffect
    <3> QED BY <2>1, <2>3, <3>1, <3>2, BuffersOfPort DEF Return, MustWait
  <2>4. ASSUME NEW t \in Threads, NEW n, MustWait(ReaderOf(t)), Sleep(t, n)
        PROVE  MustWait(ReaderOf(u))'
    <3>1. u = t \/ pc[u] = "asleep"
      BY <2>4 DEF Sleep, TypeOK
    <3> QED BY <2>1, <2>4, <3>1 DEF Sleep, MustWait
  <2>5. ASSUME NEW t \in Threads, NEW n \in ReadSizes, Read(t, n)
        PROVE  MustWait(ReaderOf(u))'
    BY <2>3, <2>4, <2>5 DEF Read
  <2>6. ASSUME NEW t \in Threads, Resume(t)
        PROVE  MustWait(ReaderOf(u))'
    <3>1. size[t] \in Nat
      BY SizeIsNat
    <3> QED BY <2>3, <2>4, <2>6, <3>1 DEF Resume
  <2>7. ASSUME NEW t \in Threads, NEW b \in Ports, NEW after \in {"closing", "idle"},
               closed' = [closed EXCEPT ![b] = TRUE], Broadcast(b, t, after),
               UNCHANGED buffer
        PROVE  MustWait(ReaderOf(u))'
    <3>1. pc[u] = "asleep" /\ u \notin Asleep(b)
      BY <2>7 DEF Broadcast
    <3>2. ReaderOf(u) # b
      BY <3>1 DEF Asleep
    <3> QED BY <2>1, <2>7, <3>1, <3>2, BuffersOfPort DEF MustWait, TypeOK
  <2>8. ASSUME NEW t \in Threads, CloseReader(t) \/ CloseWriter(t)
        PROVE  MustWait(ReaderOf(u))'
    BY <2>7, <2>8, BuffersOfPort DEF CloseReader, CloseWriter
  <2>9. CASE UNCHANGED vars
    BY <2>1, <2>9 DEF vars, MustWait
  <2> QED BY <2>2, <2>5, <2>6, <2>8, <2>9 DEF Next
<1> QED BY <1>1, <1>2, TypeCorrect, PTL DEF Spec
=============================================================================
