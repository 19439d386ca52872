---------------------------- MODULE TerminalProofs ----------------------------
(***************************************************************************)
(* NothingAfterClose and FramesInOrder for any number of window-size files,*)
(* writers and frames, and SourceFollowed for any sources and any number   *)
(* of connections, chunks and keys.                                        *)
(*                                                                         *)
(* A read-only file returns no frame after its Close since Read keeps the  *)
(* mutex from its look at closed until it returns, and Close waits for it; *)
(* a read-write file since it looks at closed again under the mutex.       *)
(*                                                                         *)
(* No frame is lost on its way to an open file: a broadcast picks the file *)
(* and makes the frame due in one step, the file stays on the list of the  *)
(* broadcast until the frame is in its channel, and only a closed file's   *)
(* channel is closed.  From, which picks the frames of one writer, is      *)
(* recursive; the lemmas about it are proved by induction over sets of     *)
(* numbers (Induction).                                                    *)
(*                                                                         *)
(* The element shows one source and types to one: while no connection      *)
(* overlaps another, only the stream of its own reader delivers, and the   *)
(* handler of the old connection is gone before the new one is registered. *)
(***************************************************************************)
EXTENDS Terminal, WellFoundedInduction, FiniteSetTheorems, SequenceTheorems, TLAPS

-----------------------------------------------------------------------------
(* Silence after Close                                                     *)

\* While a read-only file waits for its channel or holds a frame, its Read has
\* the mutex and it is not closed.
ReadHolds ==
  \A f \in RdOnly :
    readPc[f] \in {"recv", "done"} => f \in locked /\ f \notin closed

ReadInv ==
  /\ readPc \in [Reading -> {"idle", "lock", "recv", "done"}]
  /\ DOMAIN received = Reading
  /\ locked \subseteq RdOnly
  /\ ReadHolds

\* The steps that leave alone what the invariant is about.
LEMMA OthersKeep ==
  ASSUME ReadInv, UNCHANGED <<readPc, received, locked, closed>>
  PROVE ReadInv'
BY DEF ReadInv, ReadHolds

\* Each step of Read keeps it.
LEMMA ReadKeeps ==
  ASSUME ReadInv, NEW f \in Reading, Read(f)
  PROVE ReadInv'
<1> USE DEF ReadInv, ReadHolds, To, Reading
<1>1. CASE ReadCall(f)
  BY <1>1 DEF ReadCall
<1>2. CASE ReadLock(f)
  BY <1>2 DEF ReadLock
<1>3. CASE ReadReceive(f)
  BY <1>3 DEF ReadReceive
<1>4. CASE ReadReturn(f)
  BY <1>4 DEF ReadReturn
<1> QED BY <1>1, <1>2, <1>3, <1>4 DEF Read

\* Close marks a file only when no Read has its mutex.
LEMMA CloseKeeps ==
  ASSUME ReadInv, NEW f \in Files, Close(f)
  PROVE ReadInv'
<1>1. CASE CloseLock(f)
  BY <1>1 DEF CloseLock, ReadInv, ReadHolds
<1>2. CASE CloseCall(f) \/ CloseRemove(f)
  BY <1>2, OthersKeep DEF CloseCall, CloseRemove
<1> QED BY <1>1, <1>2 DEF Close

\* No step breaks the invariant.
LEMMA ReadInvStep == ReadInv /\ [Next]_vars => ReadInv'
<1> SUFFICES ASSUME ReadInv, [Next]_vars PROVE ReadInv'
  OBVIOUS
<1>1. ASSUME NEW f \in Reading, Read(f) PROVE ReadInv'
  BY <1>1, ReadKeeps
<1>2. ASSUME NEW f \in Files, Close(f) PROVE ReadInv'
  BY <1>2, CloseKeeps
<1>3. ASSUME NEW f \in Writing, Write(f) PROVE ReadInv'
  BY <1>3, OthersKeep DEF Write, WriteCall, WritePick, WriteSend, WriteReturn
<1>4. CASE UNCHANGED vars
  BY <1>4, OthersKeep DEF vars
<1> QED BY <1>1, <1>2, <1>3, <1>4 DEF Next

\* A Read of a closed file returns no frame.
LEMMA StepAfterClose ==
  ReadInv /\ [Next]_vars => \A f \in Reading : f \in closed => received'[f] = received[f]
<1> SUFFICES ASSUME ReadInv, [Next]_vars, NEW f \in Reading, f \in closed
             PROVE received'[f] = received[f]
  OBVIOUS
<1>1. ASSUME NEW g \in Reading, ReadReturn(g) PROVE received'[f] = received[f]
  <2>1. CASE g = f
    <3>1. f \in RdWr
      BY <1>1, <2>1 DEF ReadInv, ReadHolds, ReadReturn, Reading
    <3> QED BY <1>1, <2>1, <3>1 DEF ReadReturn
  <2>2. CASE g # f
    BY <1>1, <2>2 DEF ReadReturn, ReadInv
  <2> QED BY <2>1, <2>2
<1>2. CASE UNCHANGED received
  BY <1>2
<1> QED BY <1>1, <1>2 DEF Next, vars, Read, ReadCall, ReadLock, ReadReceive,
                         Close, CloseCall, CloseLock, CloseRemove,
                         Write, WriteCall, WritePick, WriteSend, WriteReturn

\* Once a file is closed no Read of it returns a frame, whatever the files and
\* writers are, the Read that was waiting when Close came included.
THEOREM SilentAfterClose == Spec => NothingAfterClose
<1>1. Init => ReadInv
  BY DEF Init, ReadInv, ReadHolds, Reading
<1>2. ReadInv /\ [Next]_vars =>
        [\A f \in Reading : f \in closed => received'[f] = received[f]]_vars
  BY StepAfterClose
<1> QED BY <1>1, <1>2, ReadInvStep, PTL DEF Spec, NothingAfterClose

-----------------------------------------------------------------------------
(* What From picks                                                         *)

\* A set that contains 0 and the successors of its elements contains Nat: of
\* the intervals that end outside of it none is the smallest.
LEMMA Induction ==
  ASSUME NEW S, 0 \in S, \A n \in Nat : n \in S => n + 1 \in S
  PROVE Nat \subseteq S
<1> DEFINE less == StrictSubsetOrdering(Nat)
           ends == {0 .. n : n \in Nat \ S}
<1>1. IsWellFoundedOn(less, FiniteSubsetsOf(Nat))
  BY FS_StrictSubsetOrderingWellFounded
<1>2. SUFFICES ASSUME ends # {} PROVE FALSE
  OBVIOUS
<1>3. ends \subseteq FiniteSubsetsOf(Nat)
  <2>1. ASSUME NEW n \in Nat PROVE 0 .. n \in FiniteSubsetsOf(Nat)
    <3>1. IsFiniteSet(0 .. n)
      BY FS_Interval
    <3> QED BY <3>1 DEF FiniteSubsetsOf
  <2> QED BY <2>1
<1>4. PICK X \in ends : \A Y \in ends : ~ (<<Y, X>> \in less)
  <2> HIDE DEF less, ends
  <2> QED BY <1>1, <1>2, <1>3, WFMin
<1>5. PICK x \in Nat \ S : X = 0 .. x
  OBVIOUS
<1>6. x - 1 \in Nat \ S /\ x \in X /\ x \notin 0 .. x - 1 /\ 0 .. x - 1 \subseteq X
  <2>1. x # 0 /\ x \in Nat
    BY <1>5
  <2>2. x - 1 \in Nat /\ (x - 1) + 1 = x
    BY <2>1
  <2> QED BY <1>5, <2>1, <2>2
<1>7. <<0 .. x - 1, X>> \in less
  <2>1. 0 .. x - 1 \in SUBSET Nat /\ X \in SUBSET Nat /\ 0 .. x - 1 # X
    BY <1>5, <1>6
  <2> QED BY <1>6, <2>1 DEF StrictSubsetOrdering
<1> QED BY <1>4, <1>6, <1>7

\* f[i] is what From(s, w) keeps of the first i frames, for i up to n.
IsPick(f, n, s, w) ==
  f = [i \in 0 .. n |->
         IF i = 0 THEN <<>>
         ELSE IF s[i][1] = w THEN Append(f[i - 1], s[i]) ELSE f[i - 1]]

\* How f begins and goes on.
LEMMA PickFirst ==
  ASSUME NEW s, NEW w, NEW n \in Nat, NEW f, IsPick(f, n, s, w)
  PROVE f[0] = <<>>
<1>1. 0 \in 0 .. n
  OBVIOUS
<1> QED BY <1>1 DEF IsPick

\* What f keeps of one frame more.
LEMMA PickNext ==
  ASSUME NEW s, NEW w, NEW n \in Nat, NEW f, IsPick(f, n, s, w), NEW i \in 0 .. n - 1
  PROVE f[i + 1] = IF s[i + 1][1] = w THEN Append(f[i], s[i + 1]) ELSE f[i]
<1>1. i + 1 \in 0 .. n /\ i + 1 # 0 /\ (i + 1) - 1 = i
  OBVIOUS
<1>2. PICK j \in 0 .. n : j = i + 1
  BY <1>1
<1>3. f[j] = IF s[j][1] = w THEN Append(f[j - 1], s[j]) ELSE f[j - 1]
  BY <1>1, <1>2 DEF IsPick
<1> QED BY <1>1, <1>2, <1>3

\* There is such a function, so the one From chooses is one.
LEMMA PickExists ==
  ASSUME NEW s, NEW w
  PROVE \A n \in Nat : \E f : IsPick(f, n, s, w)
<1> DEFINE S == {n \in Nat : \E f : IsPick(f, n, s, w)}
<1>1. 0 \in S
  <2>1. IsPick([i \in 0 .. 0 |-> <<>>], 0, s, w)
    BY DEF IsPick
  <2> QED BY <2>1
<1>2. ASSUME NEW n \in Nat, n \in S PROVE n + 1 \in S
  <2>1. PICK f : IsPick(f, n, s, w)
    BY <1>2
  <2> DEFINE last == IF s[n + 1][1] = w THEN Append(f[n], s[n + 1]) ELSE f[n]
             g == [i \in 0 .. n + 1 |-> IF i = n + 1 THEN last ELSE f[i]]
  <2>2. ASSUME NEW i \in 0 .. n + 1
        PROVE g[i] = IF i = 0 THEN <<>>
                     ELSE IF s[i][1] = w THEN Append(g[i - 1], s[i]) ELSE g[i - 1]
    <3>1. CASE i = n + 1
      <4>1. g[i] = last /\ i # 0 /\ i - 1 = n /\ g[n] = f[n]
        BY <3>1
      <4> QED BY <4>1, <3>1
    <3>2. CASE i # n + 1
      <4>1. i \in 0 .. n /\ g[i] = f[i]
        BY <3>2
      <4>2. i # 0 => i - 1 \in 0 .. n + 1 /\ i - 1 # n + 1 /\ g[i - 1] = f[i - 1]
        BY <4>1
      <4>3. f[i] = IF i = 0 THEN <<>>
                   ELSE IF s[i][1] = w THEN Append(f[i - 1], s[i]) ELSE f[i - 1]
        BY <2>1, <4>1 DEF IsPick
      <4> HIDE DEF g
      <4> QED BY <4>1, <4>2, <4>3
    <3> QED BY <3>1, <3>2
  <2>3. IsPick(g, n + 1, s, w)
    <3>1. g = [i \in 0 .. n + 1 |-> g[i]]
      OBVIOUS
    <3> HIDE DEF g
    <3> QED BY <2>2, <3>1 DEF IsPick
  <2> QED BY <2>3
<1>3. Nat \subseteq S
  <2> HIDE DEF S
  <2> QED BY <1>1, <1>2, Induction
<1> QED BY <1>3

\* There is one such function only, whatever follows in the sequence.
LEMMA PickUnique ==
  ASSUME NEW s, NEW t, NEW w, NEW n \in Nat, NEW m \in Nat, NEW f, NEW g,
         n <= m, \A i \in 1 .. n : s[i] = t[i],
         IsPick(f, n, s, w), IsPick(g, m, t, w)
  PROVE f[n] = g[n]
<1> DEFINE S == {i \in Nat : i <= n => f[i] = g[i]}
<1>1. 0 \in S
  <2>1. 0 \in 0 .. n /\ 0 \in 0 .. m
    OBVIOUS
  <2> QED BY <2>1 DEF IsPick
<1>2. ASSUME NEW i \in Nat, i \in S PROVE i + 1 \in S
  <2>1. SUFFICES ASSUME i + 1 <= n PROVE f[i + 1] = g[i + 1]
    OBVIOUS
  <2>2. i \in 0 .. n - 1 /\ i \in 0 .. m - 1 /\ i + 1 \in 1 .. n /\ i <= n
    BY <2>1
  <2>3. f[i] = g[i] /\ s[i + 1] = t[i + 1]
    BY <1>2, <2>2
  <2>4. f[i + 1] = IF s[i + 1][1] = w THEN Append(f[i], s[i + 1]) ELSE f[i]
    BY <2>2, PickNext
  <2>5. g[i + 1] = IF t[i + 1][1] = w THEN Append(g[i], t[i + 1]) ELSE g[i]
    BY <2>2, PickNext
  <2> QED BY <2>3, <2>4, <2>5
<1>3. Nat \subseteq S
  <2> HIDE DEF S
  <2> QED BY <1>1, <1>2, Induction
<1> QED BY <1>3

\* From(s, w) is what that function has kept at the end.
LEMMA FromIsPick ==
  ASSUME NEW s, NEW w, Len(s) \in Nat
  PROVE \E f : IsPick(f, Len(s), s, w) /\ From(s, w) = f[Len(s)]
<1> DEFINE some == CHOOSE f : IsPick(f, Len(s), s, w)
<1>1. From(s, w) = some[Len(s)]
  BY DEF From, IsPick
<1>2. IsPick(some, Len(s), s, w)
  <2>1. \E f : IsPick(f, Len(s), s, w)
    BY PickExists
  <2> QED BY <2>1
<1> QED BY <1>1, <1>2

\* What From does to the empty sequence, to a frame more, and its type.
LEMMA FromEmpty ==
  ASSUME NEW w PROVE From(<<>>, w) = <<>>
<1>1. PICK f : IsPick(f, 0, <<>>, w) /\ From(<<>>, w) = f[0]
  BY FromIsPick
<1> QED BY <1>1 DEF IsPick

\* From looks at the last frame after the others.
LEMMA FromAppend ==
  ASSUME NEW S, NEW s \in Seq(S), NEW x \in S, NEW w
  PROVE From(Append(s, x), w) = IF x[1] = w THEN Append(From(s, w), x) ELSE From(s, w)
<1> DEFINE t == Append(s, x)
           n == Len(s)
<1>1. n \in Nat /\ Len(t) = n + 1 /\ t[n + 1] = x /\ \A i \in 1 .. n : s[i] = t[i]
  OBVIOUS
<1>2. PICK f : IsPick(f, n, s, w) /\ From(s, w) = f[n]
  BY <1>1, FromIsPick
<1>3. PICK g : IsPick(g, n + 1, t, w) /\ From(t, w) = g[n + 1]
  <2> HIDE DEF n, t
  <2>1. Len(t) \in Nat
    BY <1>1
  <2>2. \E g : IsPick(g, Len(t), t, w) /\ From(t, w) = g[Len(t)]
    BY <2>1, FromIsPick
  <2> QED BY <1>1, <2>2
<1>4. f[n] = g[n]
  <2> HIDE DEF n, t
  <2>1. n <= n + 1 /\ n + 1 \in Nat
    BY <1>1
  <2> QED BY <1>1, <1>2, <1>3, <2>1, PickUnique
<1>5. g[n + 1] = IF x[1] = w THEN Append(g[n], x) ELSE g[n]
  <2> HIDE DEF n, t
  <2>1. n + 1 \in Nat /\ n \in 0 .. (n + 1) - 1
    BY <1>1
  <2>2. g[n + 1] = IF t[n + 1][1] = w THEN Append(g[n], t[n + 1]) ELSE g[n]
    <3>1. PICK m \in Nat : m = n + 1
      BY <2>1
    <3>2. IsPick(g, m, t, w)
      BY <1>3, <3>1
    <3>3. n \in 0 .. m - 1
      BY <1>1, <3>1
    <3> QED BY <3>2, <3>3, PickNext
  <2> QED BY <1>1, <2>2
<1> QED BY <1>2, <1>3, <1>4, <1>5

\* What is picked so far is a sequence of frames.
LEMMA PickType ==
  ASSUME NEW S, NEW s, NEW w, NEW n \in Nat, \A i \in 1 .. n : s[i] \in S,
         NEW f, IsPick(f, n, s, w)
  PROVE f[n] \in Seq(S)
<1> DEFINE T == {i \in Nat : i <= n => f[i] \in Seq(S)}
<1>1. 0 \in T
  <2>1. <<>> \in Seq(S)
    OBVIOUS
  <2>2. f[0] = <<>>
    BY PickFirst
  <2> QED BY <2>1, <2>2
<1>2. ASSUME NEW i \in Nat, i \in T PROVE i + 1 \in T
  <2>1. SUFFICES ASSUME i + 1 <= n PROVE f[i + 1] \in Seq(S)
    OBVIOUS
  <2>2. i \in 0 .. n - 1 /\ i + 1 \in 1 .. n /\ i <= n
    BY <2>1
  <2>3. f[i] \in Seq(S) /\ s[i + 1] \in S
    BY <1>2, <2>2
  <2>4. f[i + 1] = IF s[i + 1][1] = w THEN Append(f[i], s[i + 1]) ELSE f[i]
    BY <2>2, PickNext
  <2> QED BY <2>3, <2>4
<1>3. Nat \subseteq T
  <2> HIDE DEF T
  <2> QED BY <1>1, <1>2, Induction
<1> QED BY <1>3

\* From gives a sequence of frames.
LEMMA FromType ==
  ASSUME NEW S, NEW s \in Seq(S), NEW w
  PROVE From(s, w) \in Seq(S)
<1>1. PICK n \in Nat : n = Len(s) /\ \A i \in 1 .. n : s[i] \in S
  OBVIOUS
<1>2. PICK f : IsPick(f, n, s, w) /\ From(s, w) = f[n]
  BY <1>1, FromIsPick
<1>3. f[n] \in Seq(S)
  BY <1>1, <1>2, PickType
<1> QED BY <1>2, <1>3

-----------------------------------------------------------------------------
(* No frame is lost                                                        *)

Held(f) == IF taken[f] = End THEN <<>> ELSE <<taken[f]>>
\* What has come to file f, the frame its Read holds and its channel included.
Heard(f) == received[f] \o Held(f) \o chan[f]

\* The broadcast of writer w has still to send to f.
Meant(f, w) == \E i \in 1 .. Len(targets[w]) : targets[w][i] = f

\* What each stage of a call means; only a closed file's channel is closed.
Stages ==
  /\ \A f \in Reading : readPc[f] # "done" => taken[f] = End
  /\ \A w \in Writing : /\ writePc[w] = "pick" => nwritten[w] < MaxFrames
                        /\ writePc[w] = "send" => nwritten[w] >= 1
                        /\ writePc[w] # "send" => targets[w] = <<>>
                        /\ \A i, j \in 1 .. Len(targets[w]) :
                             targets[w][i] = targets[w][j] => i = j
  /\ \A f \in Files : closePc[f] = "remove" => f \in closed
  /\ chanClosed \subseteq closed

\* What was due to an open file has come, but for the frame a broadcast has
\* still to send to it.
HearsAll ==
  \A f \in Reading, w \in Writing :
    f \notin closed =>
      From(due[f], w) = IF Meant(f, w) THEN Append(From(Heard(f), w), <<w, nwritten[w]>>)
                        ELSE From(Heard(f), w)

OrderInv == TypeOK /\ Stages /\ HearsAll

\* A broadcast lists each subscriber once.
LEMMA PickOrder ==
  ASSUME NEW S, S \subseteq Reading, NEW order \in Orders(S)
  PROVE /\ order \in Seq(S)
        /\ \A i, j \in 1 .. Len(order) : order[i] = order[j] => i = j
        /\ \A x \in S : \E i \in 1 .. Len(order) : order[i] = x
<1>1. IsFiniteSet(S)
  BY WinchAssumption, FS_Subset DEF Reading, Files
<1>2. PICK n \in Nat : n = Cardinality(S)
  BY <1>1, FS_CardinalityType
<1>3. /\ order \in [1 .. n -> S]
      /\ \A i, j \in 1 .. n : order[i] = order[j] => i = j
  BY <1>2 DEF Orders
<1>4. order \in Seq(S) /\ Len(order) = n
  BY <1>3
<1>5. order \in Injection(1 .. n, S)
  BY <1>3 DEF Injection, IsInjective
<1>6. Cardinality(1 .. n) = n /\ IsFiniteSet(1 .. n)
  BY FS_Interval
<1>7. order \in Surjection(1 .. n, S)
  BY <1>1, <1>2, <1>5, <1>6, FS_Injection
<1> QED BY <1>3, <1>4, <1>7 DEF Surjection

\* No step breaks the types.
LEMMA TypeStep == ASSUME TypeOK, Stages, [Next]_vars PROVE TypeOK'
<1> USE WinchAssumption DEF Reading, Writing, Files, End
<1>1. ASSUME NEW f \in Reading, ReadCall(f) PROVE TypeOK'
  BY <1>1 DEF TypeOK, ReadCall, Ensure, addReader, MustSubscribe, To
<1>2. ASSUME NEW f \in Reading, ReadLock(f) PROVE TypeOK'
  BY <1>2 DEF TypeOK, ReadLock, To
<1>3. ASSUME NEW f \in Reading, ReadReceive(f) PROVE TypeOK'
  <2>0. chan[f] # <<>> => Head(chan[f]) \in Frames /\ Tail(chan[f]) \in Seq(Frames)
    BY DEF TypeOK
  <2>1. chan' \in [Reading -> Seq(Frames)]
    <3> HIDE DEF Reading
    <3> QED BY <1>3, <2>0 DEF TypeOK, ReadReceive
  <2>2. taken' \in [Reading -> Frames \cup {End}]
    <3> HIDE DEF Reading, End
    <3> QED BY <1>3, <2>0 DEF TypeOK, ReadReceive
  <2>3. readPc' \in [Reading -> {"idle", "lock", "recv", "done"}]
    BY <1>3 DEF TypeOK, ReadReceive, To
  <2> QED BY <1>3, <2>1, <2>2, <2>3 DEF TypeOK, ReadReceive
<1>4. ASSUME NEW f \in Reading, ReadReturn(f) PROVE TypeOK'
  <2>1. received' \in [Reading -> Seq(Frames)]
    <3> HIDE DEF Reading, End
    <3>1. taken[f] # End => Append(received[f], taken[f]) \in Seq(Frames)
      BY DEF TypeOK
    <3> QED BY <1>4, <3>1 DEF TypeOK, ReadReturn
  <2>2. rest' \subseteq Reading /\ locked' \subseteq RdOnly
    BY <1>4 DEF TypeOK, ReadReturn
  <2>3. taken' \in [Reading -> Frames \cup {End}]
    BY <1>4 DEF TypeOK, ReadReturn
  <2>4. readPc' \in [Reading -> {"idle", "lock", "recv", "done"}]
    BY <1>4 DEF TypeOK, ReadReturn, To
  <2> QED BY <1>4, <2>1, <2>2, <2>3, <2>4 DEF TypeOK, ReadReturn
<1>5. ASSUME NEW f \in Files, CloseCall(f) PROVE TypeOK'
  BY <1>5 DEF TypeOK, CloseCall, To
<1>6. ASSUME NEW f \in Files, CloseLock(f) PROVE TypeOK'
  BY <1>6 DEF TypeOK, CloseLock, removeReader, To
<1>7. ASSUME NEW f \in Files, CloseRemove(f) PROVE TypeOK'
  BY <1>7 DEF TypeOK, CloseRemove, removeReader, To
<1>8. ASSUME NEW f \in Writing, WriteCall(f) PROVE TypeOK'
  BY <1>8 DEF TypeOK, WriteCall, Ensure, addReader, MustSubscribe, To
<1>9. ASSUME NEW f \in Writing, WritePick(f) PROVE TypeOK'
  <2>1. targets' \in [Writing -> Seq(Reading)]
    <3>1. PICK order \in Orders(hub \ {f}) : targets' = [targets EXCEPT ![f] = order]
      BY <1>9 DEF WritePick
    <3>2. hub \ {f} \subseteq Reading
      BY DEF TypeOK
    <3> HIDE DEF Reading
    <3>3. order \in Seq(Reading)
      <4>1. order \in Seq(hub \ {f})
        BY <3>2, PickOrder
      <4> QED BY <3>2, <4>1, SeqMonotonic
    <3> QED BY <3>1, <3>3 DEF TypeOK
  <2>2. nwritten' \in [Writing -> 0 .. MaxFrames]
    BY <1>9 DEF TypeOK, WritePick, Stages
  <2>3. due' \in [Reading -> Seq(Frames)]
    <3>1. <<f, nwritten[f] + 1>> \in Frames
      BY <1>9 DEF TypeOK, WritePick, Stages, Frames
    <3> QED BY <1>9, <3>1 DEF TypeOK, WritePick
  <2> QED BY <1>9, <2>1, <2>2, <2>3 DEF TypeOK, WritePick, To
<1>10. ASSUME NEW f \in Writing, WriteSend(f) PROVE TypeOK'
  <2>1. <<f, nwritten[f]>> \in Frames
    BY <1>10 DEF TypeOK, WriteSend, Stages, Frames
  <2>2. Head(targets[f]) \in Reading /\ Tail(targets[f]) \in Seq(Reading)
    BY <1>10 DEF TypeOK, WriteSend
  <2>3. chan' \in [Reading -> Seq(Frames)]
    <3> DEFINE g == Head(targets[f])
    <3>1. Append(chan[g], <<f, nwritten[f]>>) \in Seq(Frames)
      BY <2>1, <2>2 DEF TypeOK
    <3>2. chan' \in {chan, [chan EXCEPT ![g] = Append(chan[g], <<f, nwritten[f]>>)]}
      BY <1>10 DEF WriteSend
    <3> HIDE DEF Reading, g
    <3> QED BY <3>1, <3>2 DEF TypeOK
  <2>4. targets' \in [Writing -> Seq(Reading)]
    BY <1>10, <2>2 DEF TypeOK, WriteSend
  <2> QED BY <1>10, <2>3, <2>4 DEF TypeOK, WriteSend
<1>11. ASSUME NEW f \in Writing, WriteReturn(f) PROVE TypeOK'
  BY <1>11 DEF TypeOK, WriteReturn, To
<1>12. CASE UNCHANGED vars
  BY <1>12 DEF TypeOK, vars
<1> QED BY <1>1, <1>2, <1>3, <1>4, <1>5, <1>6, <1>7, <1>8, <1>9, <1>10, <1>11, <1>12
        DEF Next, Read, Close, Write

\* No step breaks the stages.
LEMMA StagesStep == ASSUME TypeOK, Stages, [Next]_vars PROVE Stages'
<1> USE WinchAssumption DEF Reading, Writing, Files, End
<1>1. ASSUME NEW f \in Reading, ReadCall(f) PROVE Stages'
  BY <1>1 DEF TypeOK, Stages, ReadCall, Ensure, addReader, MustSubscribe, To
<1>2. ASSUME NEW f \in Reading, ReadLock(f) PROVE Stages'
  BY <1>2 DEF TypeOK, Stages, ReadLock, To
<1>3. ASSUME NEW f \in Reading, ReadReceive(f) PROVE Stages'
  BY <1>3 DEF TypeOK, Stages, ReadReceive, To
<1>4. ASSUME NEW f \in Reading, ReadReturn(f) PROVE Stages'
  BY <1>4 DEF TypeOK, Stages, ReadReturn, To
<1>5. ASSUME NEW f \in Files, CloseCall(f) PROVE Stages'
  BY <1>5 DEF TypeOK, Stages, CloseCall, To
<1>6. ASSUME NEW f \in Files, CloseLock(f) PROVE Stages'
  BY <1>6 DEF TypeOK, Stages, CloseLock, removeReader, To
<1>7. ASSUME NEW f \in Files, CloseRemove(f) PROVE Stages'
  BY <1>7 DEF TypeOK, Stages, CloseRemove, removeReader, To
<1>8. ASSUME NEW f \in Writing, WriteCall(f) PROVE Stages'
  BY <1>8 DEF TypeOK, Stages, WriteCall, Ensure, addReader, MustSubscribe, To
<1>9. ASSUME NEW f \in Writing, WritePick(f) PROVE Stages'
  <2>1. PICK order \in Orders(hub \ {f}) : targets' = [targets EXCEPT ![f] = order]
    BY <1>9 DEF WritePick
  <2>2. \A i, j \in 1 .. Len(order) : order[i] = order[j] => i = j
    <3>1. hub \ {f} \subseteq Reading
      BY DEF TypeOK
    <3> HIDE DEF Reading
    <3> QED BY <3>1, PickOrder
  <2> QED BY <1>9, <2>1, <2>2 DEF TypeOK, Stages, WritePick, To
<1>10. ASSUME NEW f \in Writing, WriteSend(f) PROVE Stages'
  <2>1. \A i, j \in 1 .. Len(Tail(targets[f])) :
          Tail(targets[f])[i] = Tail(targets[f])[j] => i = j
    <3>1. targets[f] \in Seq(Reading) /\ targets[f] # <<>>
      BY <1>10 DEF TypeOK, WriteSend
    <3>2. \A i \in 1 .. Len(Tail(targets[f])) :
            /\ Tail(targets[f])[i] = targets[f][i + 1]
            /\ i + 1 \in 1 .. Len(targets[f])
      BY <3>1
    <3> QED BY <3>2 DEF Stages
  <2> DEFINE left == Tail(targets[f])
  <2>2. targets' \in {targets, [targets EXCEPT ![f] = left]}
    BY <1>10 DEF WriteSend
  <2>3. \A w \in Writing : /\ writePc[w] # "send" => targets'[w] = <<>>
                           /\ \A i, j \in 1 .. Len(targets'[w]) :
                                targets'[w][i] = targets'[w][j] => i = j
    <3>1. writePc[f] = "send"
      BY <1>10 DEF WriteSend
    <3> HIDE DEF left
    <3>2. DOMAIN targets = Writing
      BY DEF TypeOK
    <3> HIDE DEF Writing
    <3>3. \A i, j \in 1 .. Len(left) : left[i] = left[j] => i = j
      BY <2>1 DEF left
    <3> QED BY <2>2, <3>1, <3>2, <3>3 DEF Stages
  <2> QED BY <1>10, <2>3 DEF Stages, WriteSend
<1>11. ASSUME NEW f \in Writing, WriteReturn(f) PROVE Stages'
  BY <1>11 DEF TypeOK, Stages, WriteReturn, To
<1>12. CASE UNCHANGED vars
  BY <1>12 DEF TypeOK, Stages, vars
<1> QED BY <1>1, <1>2, <1>3, <1>4, <1>5, <1>6, <1>7, <1>8, <1>9, <1>10, <1>11, <1>12
        DEF Next, Read, Close, Write

\* What Read returns at the end is no frame.
LEMMA FrameNotEnd == ASSUME NEW x \in Frames PROVE x # End
<1>1. PICK a \in Writing, b \in 1 .. MaxFrames : x = <<a, b>>
  BY DEF Frames
<1>2. Len(<<a, b>>) = 2 /\ Len(<<>>) = 0
  OBVIOUS
<1> QED BY <1>1, <1>2 DEF End

\* What a file has heard is a sequence of frames.
LEMMA HeardType ==
  ASSUME TypeOK, NEW f \in Reading
  PROVE Held(f) \in Seq(Frames) /\ Heard(f) \in Seq(Frames)
<1>1. Held(f) \in Seq(Frames)
  BY DEF TypeOK, Held
<1>2. received[f] \in Seq(Frames) /\ chan[f] \in Seq(Frames)
  BY DEF TypeOK
<1> QED BY <1>1, <1>2 DEF Heard

\* The steps that only move what a file has heard from one place to the next.
LEMMA SameHeard ==
  ASSUME HearsAll, UNCHANGED <<due, targets, nwritten>>, closed \subseteq closed',
         \A f \in Reading : f \notin closed' => Heard(f)' = Heard(f)
  PROVE HearsAll'
<1> SUFFICES ASSUME NEW f \in Reading, NEW w \in Writing, f \notin closed'
             PROVE From(due'[f], w) = IF Meant(f, w)'
                                      THEN Append(From(Heard(f)', w), <<w, nwritten'[w]>>)
                                      ELSE From(Heard(f)', w)
  BY DEF HearsAll
<1>1. Heard(f)' = Heard(f) /\ f \notin closed /\ (Meant(f, w)' <=> Meant(f, w))
  BY DEF Meant
<1> QED BY <1>1 DEF HearsAll

\* WritePick makes a frame due and puts the file on a list at once, WriteSend
\* moves it from the list to the channel; Read keeps what it takes.
LEMMA HearsStep == ASSUME OrderInv, [Next]_vars PROVE HearsAll'
<1> USE DEF OrderInv
<1>1. ASSUME NEW f \in Reading, ReadReceive(f) PROVE HearsAll'
  <2>1. ASSUME NEW g \in Reading PROVE Heard(g)' = Heard(g)
    <3>1. CASE g # f
      BY <1>1, <3>1 DEF Heard, Held, ReadReceive, TypeOK
    <3>2. CASE g = f
      <4>1. taken[f] = End
        BY <1>1 DEF Stages, ReadReceive
      <4>2. CASE chan[f] # <<>>
        <5>1. /\ Head(chan[f]) \in Frames /\ Tail(chan[f]) \in Seq(Frames)
              /\ chan[f] = <<Head(chan[f])>> \o Tail(chan[f])
          BY <4>2 DEF TypeOK
        <5>2. Head(chan[f]) # End
          BY <5>1, FrameNotEnd
        <5>3. taken'[f] = Head(chan[f]) /\ chan'[f] = Tail(chan[f]) /\ received' = received
          BY <1>1, <4>2 DEF ReadReceive, TypeOK
        <5>4. Heard(f)' = received[f] \o <<Head(chan[f])>> \o Tail(chan[f])
          BY <5>2, <5>3 DEF Heard, Held
        <5>5. Heard(f) = received[f] \o chan[f]
          BY <4>1 DEF Heard, Held, TypeOK
        <5>6. received[f] \in Seq(Frames)
          BY DEF TypeOK
        <5>7. PICK x \in Frames, t \in Seq(Frames) :
                x = Head(chan[f]) /\ t = Tail(chan[f]) /\ chan[f] = <<x>> \o t
          BY <5>1
        <5>8. received[f] \o chan[f] = received[f] \o <<x>> \o t
          <6>1. PICK r \in Seq(Frames) : r = received[f]
            BY <5>6
          <6>2. r \o (<<x>> \o t) = r \o <<x>> \o t
            <7>1. r \in Seq(Frames) /\ x \in Frames /\ t \in Seq(Frames)
              BY <5>7, <6>1
            <7> QED BY <7>1
          <6> QED BY <5>7, <6>1, <6>2
        <5> QED BY <3>2, <5>4, <5>5, <5>7, <5>8
      <4>3. CASE chan[f] = <<>>
        BY <1>1, <3>2, <4>1, <4>3 DEF Heard, Held, ReadReceive, TypeOK
      <4> QED BY <4>2, <4>3
    <3> QED BY <3>1, <3>2
  <2> QED BY <1>1, <2>1, SameHeard DEF ReadReceive
<1>2. ASSUME NEW f \in Reading, ReadReturn(f) PROVE HearsAll'
  <2>1. ASSUME NEW g \in Reading, g \notin closed PROVE Heard(g)' = Heard(g)
    <3>1. CASE g # f
      BY <1>2, <3>1 DEF Heard, Held, ReadReturn, TypeOK
    <3>2. CASE g = f /\ taken[f] = End
      BY <1>2, <3>2 DEF Heard, Held, ReadReturn, TypeOK
    <3>3. CASE g = f /\ taken[f] # End
      <4>1. /\ received'[f] = Append(received[f], taken[f])
            /\ taken'[f] = End /\ chan' = chan
        BY <1>2, <2>1, <3>3 DEF ReadReturn, TypeOK
      <4>2. /\ received[f] \in Seq(Frames) /\ taken[f] \in Frames
            /\ chan[f] \in Seq(Frames)
        BY <3>3 DEF TypeOK
      <4>3. Heard(f)' = Append(received[f], taken[f]) \o <<>> \o chan[f]
        BY <4>1 DEF Heard, Held
      <4>4. Heard(f) = received[f] \o <<taken[f]>> \o chan[f]
        BY <3>3 DEF Heard, Held
      <4>5. Append(received[f], taken[f]) \o <<>> \o chan[f]
              = received[f] \o <<taken[f]>> \o chan[f]
        <5>1. PICK r \in Seq(Frames), x \in Frames, t \in Seq(Frames) :
                r = received[f] /\ x = taken[f] /\ t = chan[f]
          BY <4>2
        <5>2. Append(r, x) \o <<>> \o t = r \o <<x>> \o t
          <6>1. r \in Seq(Frames) /\ x \in Frames /\ t \in Seq(Frames)
            BY <5>1
          <6> QED BY <6>1
        <5> QED BY <5>1, <5>2
      <4> QED BY <3>3, <4>3, <4>4, <4>5
    <3> QED BY <3>1, <3>2, <3>3
  <2> QED BY <1>2, <2>1, SameHeard DEF ReadReturn
<1>3. ASSUME UNCHANGED <<due, targets, nwritten, received, taken, chan>>, closed \subseteq closed'
      PROVE HearsAll'
  BY <1>3, SameHeard DEF Heard, Held
<1>4. ASSUME NEW w \in Writing, WritePick(w) PROVE HearsAll'
  <2> SUFFICES ASSUME NEW g \in Reading, NEW v \in Writing, g \notin closed
               PROVE From(due'[g], v) = IF Meant(g, v)'
                                        THEN Append(From(Heard(g)', v), <<v, nwritten'[v]>>)
                                        ELSE From(Heard(g)', v)
    BY <1>4 DEF HearsAll, WritePick
  <2> DEFINE frame == <<w, nwritten[w] + 1>>
             S == hub \ {w}
  <2>1. Heard(g)' = Heard(g)
    BY <1>4 DEF Heard, Held, WritePick
  <2>2. PICK order \in Orders(S) : targets' = [targets EXCEPT ![w] = order]
    BY <1>4 DEF WritePick
  <2>3. /\ \A i \in 1 .. Len(order) : order[i] \in S
        /\ \A x \in S : \E i \in 1 .. Len(order) : order[i] = x
    <3>1. S \subseteq Reading
      BY DEF TypeOK
    <3> HIDE DEF S
    <3>2. order \in Seq(S)
      BY <3>1, PickOrder
    <3> QED BY <3>1, <3>2, PickOrder
  <2>4. targets'[w] = order /\ \A u \in Writing \ {w} : targets'[u] = targets[u]
    BY <2>2 DEF TypeOK
  <2>5. targets[w] = <<>>
    BY <1>4 DEF Stages, WritePick
  <2>6. ~Meant(g, w) /\ (Meant(g, w)' <=> g \in S)
    BY <2>3, <2>4, <2>5 DEF Meant
  <2>7. nwritten'[w] = nwritten[w] + 1 /\ \A u \in Writing \ {w} : nwritten'[u] = nwritten[u]
    BY <1>4 DEF WritePick, TypeOK
  <2>8. due'[g] = IF g \in S THEN Append(due[g], frame) ELSE due[g]
    BY <1>4 DEF WritePick
  <2>9. From(due[g], v) = IF Meant(g, v) THEN Append(From(Heard(g), v), <<v, nwritten[v]>>)
                          ELSE From(Heard(g), v)
    BY DEF HearsAll
  <2>10. From(Append(due[g], frame), v) = IF v = w THEN Append(From(due[g], v), frame)
                                          ELSE From(due[g], v)
    <3>1. frame \in Frames /\ due[g] \in Seq(Frames) /\ frame[1] = w
      <4>1. nwritten[w] + 1 \in 1 .. MaxFrames
        BY <1>4, WinchAssumption DEF TypeOK, Stages, WritePick
      <4>2. due[g] \in Seq(Frames)
        BY DEF TypeOK
      <4> QED BY <4>1, <4>2 DEF Frames
    <3> HIDE DEF frame
    <3> QED BY <3>1, FromAppend
  <2>11. CASE v = w
    <3> HIDE DEF S
    <3> QED BY <2>1, <2>6, <2>7, <2>8, <2>9, <2>10, <2>11
  <2>12. CASE v # w
    <3>1. Meant(g, v)' <=> Meant(g, v)
      BY <2>4, <2>12 DEF Meant
    <3> HIDE DEF S
    <3> QED BY <2>1, <2>7, <2>8, <2>9, <2>10, <2>12, <3>1
  <2> QED BY <2>11, <2>12
<1>5. ASSUME NEW w \in Writing, WriteSend(w), UNCHANGED <<chan, targets>> PROVE HearsAll'
  BY <1>5, <1>3 DEF WriteSend
<1>6. ASSUME NEW w \in Writing, WriteSend(w), ~UNCHANGED <<chan, targets>> PROVE HearsAll'
  <2>0. PICK h : h = Head(targets[w])
    OBVIOUS
  <2> DEFINE left == Tail(targets[w])
             frame == <<w, nwritten[w]>>
  <2> SUFFICES ASSUME NEW g \in Reading, NEW v \in Writing, g \notin closed
               PROVE From(due'[g], v) = IF Meant(g, v)'
                                        THEN Append(From(Heard(g)', v), <<v, nwritten'[v]>>)
                                        ELSE From(Heard(g)', v)
    BY <1>6 DEF HearsAll, WriteSend
  <2>1. /\ chan' = [chan EXCEPT ![h] = Append(@, frame)]
        /\ targets' = [targets EXCEPT ![w] = left]
        /\ UNCHANGED <<due, nwritten, received, taken>>
        /\ writePc[w] = "send" /\ targets[w] # <<>>
    BY <1>6, <2>0 DEF WriteSend
  <2>2. targets[w] \in Seq(Reading) /\ Len(targets[w]) \in Nat /\ Len(targets[w]) > 0
    BY <2>1 DEF TypeOK
  <2>3. /\ h = targets[w][1] /\ left \in Seq(Reading) /\ Len(left) = Len(targets[w]) - 1
        /\ \A i \in 1 .. Len(left) : left[i] = targets[w][i + 1]
    BY <2>0, <2>2
  <2>4. targets'[w] = left /\ \A u \in Writing \ {w} : targets'[u] = targets[u]
    BY <2>1 DEF TypeOK
  <2>5. Meant(h, w) /\ ~Meant(h, w)'
    <3>1. 1 \in 1 .. Len(targets[w])
      BY <2>2
    <3>2. \A i \in 1 .. Len(left) : i + 1 \in 1 .. Len(targets[w]) /\ i + 1 # 1
      BY <2>2, <2>3
    <3>3. \A i, j \in 1 .. Len(targets[w]) : targets[w][i] = targets[w][j] => i = j
      BY DEF Stages
    <3> HIDE DEF left
    <3>4. Meant(h, w)
      BY <2>3, <3>1 DEF Meant
    <3>5. ASSUME NEW i \in 1 .. Len(left), left[i] = h PROVE FALSE
      <4>1. targets[w][i + 1] = targets[w][1] /\ i + 1 \in 1 .. Len(targets[w]) /\ i + 1 # 1
        BY <2>3, <3>2, <3>5
      <4> QED BY <3>1, <3>3, <4>1
    <3> QED BY <2>4, <3>4, <3>5 DEF Meant
  <2>6. ASSUME v # w \/ g # h PROVE Meant(g, v)' <=> Meant(g, v)
    <3>1. CASE v # w
      BY <2>4, <3>1 DEF Meant
    <3>2. CASE v = w /\ g # h
      <4>1. \A i \in 1 .. Len(targets[w]) : i = 1 \/ i - 1 \in 1 .. Len(left)
        BY <2>2, <2>3
      <4>2. \A i \in 1 .. Len(left) : i + 1 \in 1 .. Len(targets[w])
        BY <2>2, <2>3
      <4>3. \A i \in 1 .. Len(targets[w]) : i # 1 => left[i - 1] = targets[w][i]
        BY <2>2, <2>3, <4>1
      <4> HIDE DEF left
      <4>4. Meant(g, w) => Meant(g, w)'
        <5>1. SUFFICES ASSUME NEW i \in 1 .. Len(targets[w]), targets[w][i] = g
                       PROVE \E j \in 1 .. Len(left) : left[j] = g
          BY <2>4 DEF Meant
        <5>2. i # 1
          BY <2>3, <3>2, <5>1
        <5> QED BY <4>1, <4>3, <5>1, <5>2
      <4>5. Meant(g, w)' => Meant(g, w)
        BY <2>3, <2>4, <4>2 DEF Meant
      <4> QED BY <3>2, <4>4, <4>5
    <3> QED BY <2>6, <3>1, <3>2
  <2>7. h \in Reading /\ frame \in Frames /\ frame[1] = w
    <3>1. nwritten[w] \in 1 .. MaxFrames
      BY <2>1, WinchAssumption DEF TypeOK, Stages
    <3>2. h \in Reading
      BY <2>2, <2>3
    <3> QED BY <3>1, <3>2 DEF Frames
  <2>8. Heard(g)' = IF g = h THEN Append(Heard(g), frame) ELSE Heard(g)
    <3>1. Held(g)' = Held(g)
      BY <2>1 DEF Held
    <3>2. chan'[g] = IF g = h THEN Append(chan[g], frame) ELSE chan[g]
      <4> HIDE DEF frame
      <4> QED BY <2>1 DEF TypeOK
    <3>3. received[g] \in Seq(Frames) /\ Held(g) \in Seq(Frames) /\ chan[g] \in Seq(Frames)
      BY HeardType DEF TypeOK
    <3>4. PICK before \in Seq(Frames) : before = received[g] \o Held(g)
      <4>1. received[g] \o Held(g) \in Seq(Frames)
        BY <3>3
      <4> QED BY <4>1
    <3>5. before \o Append(chan[g], frame) = Append(before \o chan[g], frame)
      <4> HIDE DEF frame
      <4> QED BY <2>7, <3>3
    <3> HIDE DEF frame
    <3>6. Heard(g)' = before \o chan'[g] /\ Heard(g) = before \o chan[g]
      BY <2>1, <3>1, <3>4 DEF Heard
    <3> QED BY <3>2, <3>5, <3>6
  <2>9. From(due[g], v) = IF Meant(g, v) THEN Append(From(Heard(g), v), <<v, nwritten[v]>>)
                          ELSE From(Heard(g), v)
    BY DEF HearsAll
  <2>10. From(Append(Heard(g), frame), v) = IF v = w THEN Append(From(Heard(g), v), frame)
                                            ELSE From(Heard(g), v)
    <3>1. Heard(g) \in Seq(Frames)
      BY HeardType
    <3> HIDE DEF frame
    <3> QED BY <2>7, <3>1, FromAppend
  <2> HIDE DEF left
  <2>11. CASE v = w /\ g = h
    BY <2>1, <2>5, <2>8, <2>9, <2>10, <2>11
  <2>12. CASE v # w \/ g # h
    BY <2>1, <2>6, <2>8, <2>9, <2>10, <2>12
  <2> QED BY <2>11, <2>12
<1>7. ASSUME NEW f \in Reading, ReadCall(f) \/ ReadLock(f) PROVE HearsAll'
  BY <1>3, <1>7 DEF ReadCall, ReadLock
<1>8. ASSUME NEW f \in Files, Close(f) PROVE HearsAll'
  BY <1>3, <1>8 DEF Close, CloseCall, CloseLock, CloseRemove
<1>9. ASSUME NEW w \in Writing, WriteCall(w) \/ WriteReturn(w) PROVE HearsAll'
  BY <1>3, <1>9 DEF WriteCall, WriteReturn
<1>10. CASE UNCHANGED vars
  BY <1>3, <1>10 DEF vars
<1> QED BY <1>1, <1>2, <1>4, <1>5, <1>6, <1>7, <1>8, <1>9, <1>10 DEF Next, Read, Write

\* What was heard is all that is due, or all but the last frame.
LEMMA InOrder == OrderInv => FramesInOrder
<1> SUFFICES ASSUME OrderInv, NEW f \in Reading, NEW w \in Writing, f \notin closed
             PROVE From(Heard(f), w) = SubSeq(From(due[f], w), 1, Len(From(Heard(f), w)))
  BY DEF OrderInv, FramesInOrder, Heard, Held
<1>1. PICK some \in Seq(Frames) : some = From(Heard(f), w)
  BY HeardType, FromType DEF OrderInv
<1>2. From(due[f], w) = some \/ From(due[f], w) = Append(some, <<w, nwritten[w]>>)
  BY <1>1 DEF OrderInv, HearsAll
<1>3. SubSeq(some, 1, Len(some)) = some
      /\ SubSeq(Append(some, <<w, nwritten[w]>>), 1, Len(some)) = some
  OBVIOUS
<1> QED BY <1>1, <1>2, <1>3

\* A subscriber hears every frame meant for it, once and in the order of the
\* writes of each writer, for every set of files, size of the channels and number
\* of frames, until it is closed.
THEOREM NoFrameLost == Spec => []FramesInOrder
<1>1. Init => OrderInv
  <2> SUFFICES ASSUME Init PROVE OrderInv
    OBVIOUS
  <2>1. TypeOK
    <3>1. <<>> \in Seq(Frames) /\ <<>> \in Seq(Reading)
      OBVIOUS
    <3>2. /\ chan \in [Reading -> Seq(Frames)] /\ targets \in [Writing -> Seq(Reading)]
          /\ due \in [Reading -> Seq(Frames)] /\ received \in [Reading -> Seq(Frames)]
      BY <3>1 DEF Init
    <3>3. /\ taken \in [Reading -> Frames \cup {End}]
          /\ nwritten \in [Writing -> 0 .. MaxFrames]
      BY WinchAssumption DEF Init
    <3> QED BY <3>2, <3>3 DEF Init, TypeOK
  <2>2. Stages
    BY DEF Init, Stages
  <2>3. HearsAll
    BY FromEmpty DEF Init, HearsAll, Heard, Held, Meant
  <2> QED BY <2>1, <2>2, <2>3 DEF OrderInv
<1>2. OrderInv /\ [Next]_vars => OrderInv'
  BY TypeStep, StagesStep, HearsStep DEF OrderInv
<1> QED BY <1>1, <1>2, InOrder, PTL DEF Spec

-----------------------------------------------------------------------------
(* The element                                                             *)

\* At most one connection was ever begun to s.
Sole(s) == \A i, j \in DOMAIN connects : connects[i].src = s /\ connects[j].src = s => i = j

Elements == [in : BOOLEAN, src : Sources \cup {"none"}, reader : Nat, writer : Nat,
             listens : {0, 1}, disposable : BOOLEAN]
Connects == [src : Sources, at : {"readable", "writable", "done"}]
Streams == [src : Sources, open : BOOLEAN, pull : {"asked", "got", "idle"},
            chunk : Nat, queue : Seq(Nat), loops : Nat]
Writers == [src : Sources, keys : Seq(Nat)]
Chunks == [src : Sources, n : Nat, last : Sources]

Shapes ==
  /\ connects \in Seq(Connects)
  /\ streams \in Seq(Streams)
  /\ writers \in Seq(Writers)
  /\ screen \in Seq(Chunks)
  /\ typed \in Seq(Sources \cup {"none"})
  /\ given \in [Sources -> Nat]
  /\ element \in Elements /\ element.reader <= Len(streams) /\ element.writer <= Len(writers)

\* Only the connection begun last is under way, and the element has what it
\* has come to.
OneConnecting ==
  /\ \A i \in DOMAIN connects : connects[i].at # "done" =>
       i = Len(connects) /\ element.writer = 0 /\ ~element.disposable
  /\ \A i \in DOMAIN connects : connects[i].at = "readable" => element.reader = 0
  /\ element.listens = IF element.disposable THEN 1 ELSE 0
  /\ element.writer # 0 => connects # <<>> /\ writers[element.writer].src = connects[Len(connects)].src

\* Only the element's own reader still delivers.
OneReader ==
  \A n \in DOMAIN streams :
    /\ streams[n].open => /\ n = element.reader /\ connects # <<>> 
                          /\ streams[n].src = connects[Len(connects)].src
    /\ streams[n].loops > 0 => streams[n].open /\ element.in /\ streams[n].pull # "idle"

\* What was shown of a source came before what its stream holds.
ChunksInOrder ==
  /\ \A i \in DOMAIN screen : screen[i].src = screen[i].last /\ screen[i].n \in 1..given[screen[i].src]
  /\ \A i, j \in DOMAIN screen :
       i < j /\ screen[i].src = screen[j].src => screen[i].n < screen[j].n
  /\ \A n \in DOMAIN streams : streams[n].pull = "got" =>
       /\ streams[n].chunk \in 1..given[streams[n].src]
       /\ streams[n].open => \A i \in DOMAIN screen :
            screen[i].src = streams[n].src => screen[i].n < streams[n].chunk

\* A source connected once has one stream.
SoleStream ==
  /\ \A n \in DOMAIN streams : \E i \in DOMAIN connects :
       connects[i].src = streams[n].src /\ connects[i].at # "readable"
  /\ \A s \in Sources : Sole(s) => \A n, m \in DOMAIN streams :
       streams[n].src = s /\ streams[m].src = s => n = m
  /\ \A s \in Sources : (\A n \in DOMAIN streams : streams[n].src # s) => given[s] = 0

ShownBy(s, n, i) == \E k \in 1..i : screen[k].src = s /\ screen[k].n = n
NoHoles ==
  \A s \in Sources : Sole(s) =>
    /\ \A i \in DOMAIN screen : screen[i].src = s =>
         \A n \in 1..screen[i].n : ShownBy(s, n, i)
    /\ \A m \in DOMAIN streams : streams[m].src = s /\ streams[m].loops > 0 =>
         /\ streams[m].pull = "got" => streams[m].chunk = given[s]
         /\ \A n \in 1..given[s] :
              ShownBy(s, n, Len(screen)) \/ (n = given[s] /\ streams[m].pull = "got")

KeysInOrder ==
  \A w \in DOMAIN writers :
    /\ Increasing(writers[w].keys)
    /\ \A i \in DOMAIN writers[w].keys :
         writers[w].keys[i] \in DOMAIN typed /\ typed[writers[w].keys[i]] = writers[w].src

Good ==
  /\ Shapes /\ OneConnecting /\ OneReader /\ ChunksInOrder
  /\ SoleStream /\ NoHoles /\ KeysInOrder
TerminalInv == overlap \in BOOLEAN /\ (~overlap => Good)

\* A source connected exactly once was connected at most once.
LEMMA SoleOnce == Shapes => \A s : Once(s) => Sole(s)
<1> SUFFICES ASSUME Shapes, NEW s, Once(s) PROVE Sole(s)
  OBVIOUS
<1> DEFINE of == {i \in DOMAIN connects : connects[i].src = s}
<1>1. DOMAIN connects = 1..Len(connects) /\ Len(connects) \in Nat
  BY DEF Shapes
<1>2. IsFiniteSet(of) /\ Cardinality(of) = 1
  <2>1. IsFiniteSet(1..Len(connects))
    BY <1>1, FS_Interval
  <2>2. IsFiniteSet(of)
    BY <2>1, <1>1, FS_Subset
  <2> QED BY <2>2 DEF Once
<1>3. PICK x : of = {x}
  BY <1>2, FS_Singleton
<1> QED BY <1>3 DEF Sole

\* Connections are only added, and none changes its source.
LEMMA SoleKept ==
  ASSUME Shapes, Len(connects') \in Nat, Len(connects) <= Len(connects'),
         DOMAIN connects' = 1..Len(connects'),
         \A i \in DOMAIN connects : connects'[i].src = connects[i].src
  PROVE  \A s : Sole(s)' => Sole(s)
<1> SUFFICES ASSUME NEW s, Sole(s)', NEW i \in DOMAIN connects, NEW k \in DOMAIN connects,
                    connects[i].src = s, connects[k].src = s
             PROVE  i = k
  BY DEF Sole
<1>1. DOMAIN connects = 1..Len(connects) /\ Len(connects) \in Nat
  BY DEF Shapes
<1>2. i \in DOMAIN connects' /\ k \in DOMAIN connects'
  BY <1>1
<1>3. connects'[i].src = s /\ connects'[k].src = s
  OBVIOUS
<1> QED BY <1>2, <1>3 DEF Sole

\* The invariant holds at the start.
LEMMA TerminalStarts == TerminalInit => TerminalInv
<1> SUFFICES ASSUME TerminalInit PROVE TerminalInv
  OBVIOUS
<1> USE DEF TerminalInit
<1>1. Shapes
  BY DEF Shapes, Elements
<1>2. DOMAIN connects = {} /\ DOMAIN streams = {} /\ DOMAIN writers = {} /\ DOMAIN screen = {}
  OBVIOUS
<1>3. OneConnecting /\ OneReader /\ ChunksInOrder /\ SoleStream /\ NoHoles /\ KeysInOrder
  BY <1>2 DEF OneConnecting, OneReader, ChunksInOrder, SoleStream, NoHoles, KeysInOrder
<1> QED BY <1>1, <1>3 DEF TerminalInv, Good

\* The reader is cancelled: no stream delivers any longer.
LEMMA CutOff ==
  ASSUME Good, streams' = Cancelled(element.reader)
  PROVE  /\ streams' \in Seq(Streams) /\ Len(streams') = Len(streams)
         /\ \A n \in DOMAIN streams :
              /\ streams'[n].src = streams[n].src /\ streams'[n].pull = streams[n].pull
              /\ streams'[n].chunk = streams[n].chunk
              /\ ~streams'[n].open /\ streams'[n].loops = 0
<1> DEFINE r == element.reader
<1>1. /\ streams \in Seq(Streams) /\ r \in 0..Len(streams) /\ Len(streams) \in Nat
      /\ DOMAIN streams = 1..Len(streams)
  BY DEF Good, Shapes, Elements
<1>2. \A n \in DOMAIN streams : n # r => ~streams[n].open /\ streams[n].loops = 0
  <2> TAKE n \in DOMAIN streams
  <2> HAVE n # r
  <2>1. ~streams[n].open /\ ~(streams[n].loops > 0)
    BY DEF Good, OneReader
  <2>2. streams[n] \in Streams
    BY <1>1
  <2>3. streams[n].loops \in Nat
    BY <2>2 DEF Streams
  <2> QED BY <2>1, <2>3
<1>3. CASE r = 0
  BY <1>1, <1>2, <1>3 DEF Cancelled
<1>4. CASE r # 0
  <2>1. r \in DOMAIN streams /\ streams[r] \in Streams
    BY <1>1, <1>4
  <2>2. streams' = [streams EXCEPT ![r] = [streams[r] EXCEPT !.open = FALSE, !.loops = 0, !.queue = <<>>]]
    BY <1>4, <2>1 DEF Cancelled
  <2>3. [streams[r] EXCEPT !.open = FALSE, !.loops = 0, !.queue = <<>>] \in Streams
    <3>1. <<>> \in Seq(Nat)
      OBVIOUS
    <3> QED BY <3>1, <2>1, Zenon DEF Streams
  <2>4. streams' \in Seq(Streams) /\ Len(streams') = Len(streams)
    BY <1>1, <2>1, <2>2, <2>3
  <2>5. \A n \in DOMAIN streams : n # r => streams'[n] = streams[n]
    BY <2>2, <1>1
  <2>6. streams'[r] = [streams[r] EXCEPT !.open = FALSE, !.loops = 0, !.queue = <<>>]
    BY <2>1, <2>2
  <2>7. /\ streams'[r].src = streams[r].src /\ streams'[r].pull = streams[r].pull
        /\ streams'[r].chunk = streams[r].chunk /\ ~streams'[r].open /\ streams'[r].loops = 0
    BY <2>1, <2>6 DEF Streams
  <2> QED BY <2>4, <2>5, <2>7, <1>2
<1> QED BY <1>3, <1>4

\* What was shown and read stays in order as long as nothing is shown or read.
LEMMA ChunksRest ==
  ASSUME Good, UNCHANGED <<given, screen>>, Len(streams') = Len(streams),
         streams' \in Seq(Streams), \A s : Sole(s)' => Sole(s),
         \A n \in DOMAIN streams :
           /\ streams'[n].src = streams[n].src /\ streams'[n].pull = streams[n].pull
           /\ streams'[n].chunk = streams[n].chunk
           /\ streams'[n].open => streams[n].open
           /\ streams'[n].loops > 0 => streams[n].loops > 0
  PROVE  ChunksInOrder' /\ NoHoles'
<1>1. DOMAIN streams' = DOMAIN streams
  BY DEF Good, Shapes
<1>2. ChunksInOrder'
  BY <1>1 DEF Good, ChunksInOrder
<1>3. NoHoles'
  BY <1>1 DEF Good, NoHoles, ShownBy
<1> QED BY <1>2, <1>3

\* No stream and no source is new: whose stream is whose stays.
LEMMA StreamsRest ==
  ASSUME Good, UNCHANGED given, Len(streams') = Len(streams),
         streams' \in Seq(Streams), \A s : Sole(s)' => Sole(s),
         Len(connects') \in Nat, Len(connects) <= Len(connects'),
         DOMAIN connects' = 1..Len(connects'),
         \A i \in DOMAIN connects : /\ connects'[i].src = connects[i].src
                                    /\ connects[i].at # "readable" => connects'[i].at # "readable",
         \A n \in DOMAIN streams : streams'[n].src = streams[n].src
  PROVE  SoleStream'
<1>1. DOMAIN streams' = DOMAIN streams /\ DOMAIN connects \subseteq DOMAIN connects'
  BY DEF Good, Shapes
<1> QED BY <1>1 DEF Good, SoleStream

\* The keys of a writer stay as they are while none is typed.
LEMMA KeysRest == ASSUME Good, UNCHANGED <<writers, typed>> PROVE KeysInOrder'
BY DEF Good, KeysInOrder, Increasing

\* The element lets go of what it was connected to.
LEMMA UnboundElement ==
  ASSUME Good, NEW e, e.src \in Sources \cup {"none"}, e.in \in BOOLEAN,
         e = [element EXCEPT !.in = e.in, !.src = e.src]
  PROVE  /\ Unbound(e) \in Elements /\ Unbound(e).reader = 0 /\ Unbound(e).writer = 0
         /\ ~Unbound(e).disposable /\ Unbound(e).listens = 0
         /\ Unbound(e).in = e.in /\ Unbound(e).src = e.src
<1>1. element \in Elements /\ element.listens = IF element.disposable THEN 1 ELSE 0
  BY DEF Good, Shapes, OneConnecting
<1>2. e \in Elements /\ e.disposable = element.disposable /\ e.listens = element.listens
  BY <1>1 DEF Elements
<1>3. (IF e.disposable THEN e.listens - 1 ELSE e.listens) = 0
  BY <1>1, <1>2
<1>4. Unbound(e) = [e EXCEPT !.reader = 0, !.writer = 0, !.disposable = FALSE, !.listens = 0]
  BY <1>3, <1>2 DEF Unbound, Elements
<1> DEFINE u == [e EXCEPT !.reader = 0, !.writer = 0, !.disposable = FALSE, !.listens = 0]
<1>5. /\ u \in Elements /\ u.reader = 0 /\ u.writer = 0 /\ ~u.disposable /\ u.listens = 0
      /\ u.in = e.in /\ u.src = e.src
  BY <1>2 DEF Elements
<1> HIDE DEF u
<1>6. Unbound(e) = u
  BY <1>4 DEF u
<1> QED BY <1>5, <1>6, Zenon

\* A connection begins after the last is made.
LEMMA ConnectStep ==
  ASSUME Good, NEW e, e.in = TRUE, e.src \in Sources,
         e = [element EXCEPT !.in = e.in, !.src = e.src],
         DisconnectFromSource(e),
         connects' = Append(connects, [src |-> e.src, at |-> "readable"]),
         \A i \in DOMAIN connects : connects[i].at = "done",
         UNCHANGED <<writers, given, screen, typed>>
  PROVE  Good'
<1>1. /\ streams' \in Seq(Streams) /\ Len(streams') = Len(streams)
      /\ \A n \in DOMAIN streams :
           /\ streams'[n].src = streams[n].src /\ streams'[n].pull = streams[n].pull
           /\ streams'[n].chunk = streams[n].chunk
           /\ ~streams'[n].open /\ streams'[n].loops = 0
  BY CutOff DEF DisconnectFromSource
<1>2. /\ connects' \in Seq(Connects) /\ Len(connects') = Len(connects) + 1 /\ Len(connects) \in Nat
      /\ DOMAIN connects' = 1..Len(connects') /\ DOMAIN connects = 1..Len(connects)
      /\ \A i \in DOMAIN connects : connects'[i] = connects[i]
      /\ connects'[Len(connects) + 1] = [src |-> e.src, at |-> "readable"]
  BY DEF Good, Shapes, Connects
<1>3. \A s : Sole(s)' => Sole(s)
  BY <1>2, SoleKept DEF Good
<1>4. /\ element' \in Elements /\ element'.reader = 0 /\ element'.writer = 0
      /\ ~element'.disposable /\ element'.listens = 0
  BY UnboundElement DEF DisconnectFromSource
<1>5. Shapes'
  BY <1>1, <1>2, <1>4 DEF Good, Shapes
<1>6. OneConnecting'
  BY <1>2, <1>4 DEF Good, OneConnecting
<1>7. OneReader'
  <2>1. DOMAIN streams' = DOMAIN streams
    BY <1>1 DEF Good, Shapes
  <2> QED BY <1>1, <2>1 DEF OneReader
<1>8. ChunksInOrder' /\ NoHoles'
  BY <1>1, <1>3, ChunksRest
<1>9. SoleStream'
  BY <1>1, <1>2, <1>3, StreamsRest
<1> QED BY <1>5, <1>6, <1>7, <1>8, <1>9, KeysRest DEF Good

\* The element is taken out of the page.
LEMMA RemovedStep ==
  ASSUME Good, DisconnectedCallback, UNCHANGED <<writers, given, screen, typed>>
  PROVE  Good'
<1>1. /\ element' = [Unbound(element) EXCEPT !.in = FALSE, !.listens = 0]
      /\ streams' = Cancelled(element.reader) /\ connects' = connects
  BY DEF DisconnectedCallback
<1>2. /\ streams' \in Seq(Streams) /\ Len(streams') = Len(streams)
      /\ \A n \in DOMAIN streams :
           /\ streams'[n].src = streams[n].src /\ streams'[n].pull = streams[n].pull
           /\ streams'[n].chunk = streams[n].chunk
           /\ ~streams'[n].open /\ streams'[n].loops = 0
  BY <1>1, CutOff
<1>3. element \in Elements /\ element = [element EXCEPT !.in = element.in, !.src = element.src]
  BY DEF Good, Shapes, Elements
<1>4. /\ Unbound(element) \in Elements /\ Unbound(element).reader = 0
      /\ Unbound(element).writer = 0 /\ ~Unbound(element).disposable
  BY <1>3, UnboundElement DEF Elements
<1>5. /\ element' \in Elements /\ element'.reader = 0 /\ element'.writer = 0
      /\ ~element'.disposable /\ element'.listens = 0
  <2> DEFINE u == Unbound(element)
  <2> HIDE DEF u
  <2>1. u \in Elements /\ u.reader = 0 /\ u.writer = 0 /\ ~u.disposable
    BY <1>4 DEF u
  <2>2. element' = [u EXCEPT !.in = FALSE, !.listens = 0]
    BY <1>1 DEF u
  <2> QED BY <2>1, <2>2 DEF Elements
<1>s. \A s : Sole(s)' => Sole(s)
  BY <1>1 DEF Sole
<1>7. Shapes'
  BY <1>1, <1>2, <1>5 DEF Good, Shapes
<1>8. OneConnecting'
  BY <1>1, <1>5 DEF Good, OneConnecting
<1>9. OneReader'
  <2>1. DOMAIN streams' = DOMAIN streams
    BY <1>2 DEF Good, Shapes
  <2> QED BY <1>2, <2>1 DEF OneReader
<1>10. ChunksInOrder' /\ NoHoles'
  BY <1>2, <1>s, ChunksRest
<1>11. SoleStream'
  BY <1>1, <1>2, <1>s, StreamsRest DEF Good, Shapes
<1> QED BY <1>7, <1>8, <1>9, <1>10, <1>11, KeysRest DEF Good

\* Neither a connection made nor a new place or name of the element, as long as
\* nothing else changes.
LEMMA FieldsStep ==
  ASSUME Good, UNCHANGED <<connects, streams, writers, given, screen, typed>>,
         element' = [element EXCEPT !.in = element'.in, !.src = element'.src],
         element'.in \in BOOLEAN, element'.src \in Sources \cup {"none"},
         element.in => element'.in
  PROVE  Good'
<1>1. /\ element' \in Elements /\ element'.reader = element.reader
      /\ element'.writer = element.writer /\ element'.listens = element.listens
      /\ element'.disposable = element.disposable
  BY DEF Good, Shapes, Elements
<1>2. Shapes'
  BY <1>1 DEF Good, Shapes
<1>3. OneConnecting'
  BY <1>1 DEF Good, OneConnecting
<1>4. OneReader'
  BY <1>1 DEF Good, OneReader
<1>5. ChunksInOrder' /\ SoleStream' /\ NoHoles' /\ KeysInOrder'
  BY DEF Good, ChunksInOrder, SoleStream, NoHoles, KeysInOrder, Sole, ShownBy, Increasing
<1> QED BY <1>2, <1>3, <1>4, <1>5 DEF Good

\* The element's fields with another source, or put into the page.
Renewed(e) ==
  /\ e.in \in BOOLEAN /\ e.src \in Sources \cup {"none"}
  /\ e = [element EXCEPT !.in = e.in, !.src = e.src]
  /\ element.in => e.in

\* What the page does to the element; a connection begun while another is under
\* way is an overlap.
LEMMA ConnectToSourceStep ==
  ASSUME Good, ~overlap', NEW e, Renewed(e),
         ConnectToSource(e), UNCHANGED <<writers, given, screen, typed>>
  PROVE  Good'
<1>1. CASE e.in /\ e.src # "none" /\ DisconnectFromSource(e)
           /\ connects' = Append(connects, [src |-> e.src, at |-> "readable"])
           /\ overlap' = (overlap \/ \E i \in DOMAIN connects : connects[i].at # "done")
  <2>1. \A i \in DOMAIN connects : connects[i].at = "done"
    BY <1>1
  <2>2. e.in = TRUE /\ e.src \in Sources
    <3>1. e.in \in BOOLEAN /\ e.src \in Sources \cup {"none"} /\ e.src # "none" /\ e.in
      BY <1>1, Zenon DEF Renewed
    <3> QED BY <3>1
  <2> QED BY <1>1, <2>1, <2>2, ConnectStep DEF Renewed
<1>2. CASE element' = e /\ UNCHANGED <<connects, streams, overlap>>
  BY <1>2, FieldsStep DEF Renewed
<1> QED BY <1>1, <1>2 DEF ConnectToSource

\* The page moves the element or renames its source.
LEMMA PageStep == ASSUME Good, ~overlap', Page PROVE Good'
<1>u. UNCHANGED <<writers, given, screen, typed>>
  BY DEF Page
<1>0. element \in Elements
  BY DEF Good, Shapes
<1>1. CASE ConnectedCallback
  <2> DEFINE e == [element EXCEPT !.in = TRUE]
  <2>1. Renewed(e)
    BY <1>0 DEF Renewed, Elements
  <2>2. ConnectToSource(e)
    BY <1>1 DEF ConnectedCallback
  <2> HIDE DEF e
  <2> QED BY <2>1, <2>2, <1>u, ConnectToSourceStep
<1>2. CASE DisconnectedCallback
  BY <1>2, <1>u, RemovedStep
<1>3. CASE SrcChanged
  <2>1. PICK s \in Sources \cup {"none"} : ConnectToSource([element EXCEPT !.src = s])
    BY <1>3 DEF SrcChanged
  <2> DEFINE e == [element EXCEPT !.src = s]
  <2>2. Renewed(e)
    BY <1>0 DEF Renewed, Elements
  <2>3. ConnectToSource(e)
    BY <2>1
  <2> HIDE DEF e
  <2> QED BY <2>2, <2>3, <1>u, ConnectToSourceStep
<1>4. CASE ForChanged
  <2>1. Renewed(element)
    BY <1>0 DEF Renewed, Elements
  <2>2. ConnectToSource(element)
    BY <1>4 DEF ForChanged
  <2> QED BY <2>1, <2>2, <1>u, ConnectToSourceStep
<1> QED BY <1>1, <1>2, <1>3, <1>4 DEF Page

\* A connection comes to its next await: the sources stay.
LEMMA Reached ==
  ASSUME Good, NEW i \in DOMAIN connects, NEW await \in {"writable", "done"}, Reach(i, await)
  PROVE  /\ connects' \in Seq(Connects) /\ Len(connects') = Len(connects)
         /\ DOMAIN connects' = DOMAIN connects
         /\ DOMAIN connects = 1..Len(connects) /\ Len(connects) \in Nat
         /\ \A k \in DOMAIN connects : connects'[k].src = connects[k].src
         /\ \A k \in DOMAIN connects : k # i => connects'[k].at = connects[k].at
         /\ connects'[i].at = await
         /\ \A s : Sole(s)' <=> Sole(s)
         /\ \A k \in DOMAIN connects : connects[k].at # "readable" => connects'[k].at # "readable"
<1>1. connects \in Seq(Connects) /\ DOMAIN connects = 1..Len(connects) /\ Len(connects) \in Nat
  BY DEF Good, Shapes
<1>2. connects[i] \in Connects
  BY <1>1
<1>3. connects' = [connects EXCEPT ![i] = [connects[i] EXCEPT !.at = await]]
  BY DEF Reach
<1>4. [connects[i] EXCEPT !.at = await] \in Connects
  BY <1>2 DEF Connects
<1>5. connects' \in Seq(Connects) /\ Len(connects') = Len(connects) /\ DOMAIN connects' = DOMAIN connects
  BY <1>1, <1>3, <1>4
<1>6. \A k \in DOMAIN connects : k # i => connects'[k] = connects[k]
  BY <1>3
<1>7. connects'[i].src = connects[i].src /\ connects'[i].at = await
  BY <1>2, <1>3 DEF Connects
<1>8. \A k \in DOMAIN connects : connects'[k].src = connects[k].src
  BY <1>6, <1>7
<1>9. \A s : Sole(s)' <=> Sole(s)
  BY <1>5, <1>8 DEF Sole
<1> QED BY <1>1, <1>5, <1>6, <1>7, <1>8, <1>9

\* The file to read from is there: its stream is the one that delivers.
LEMMA ReadableStep ==
  ASSUME Good, NEW i \in DOMAIN connects, OpenedReadable(i),
         UNCHANGED <<given, screen, typed>>
  PROVE  Good'
<1> DEFINE src == connects[i].src
           new == [src |-> src, open |-> TRUE, pull |-> "asked", chunk |-> 0, queue |-> <<>>,
                   loops |-> IF element.in THEN 1 ELSE 0]
           n == Len(streams)
<1>1. /\ connects[i].at = "readable" /\ Reach(i, "writable")
      /\ streams' = Append(streams, new)
      /\ element' = [element EXCEPT !.reader = Len(streams')]
      /\ writers' = writers
  BY DEF OpenedReadable
<1>2. /\ i = Len(connects) /\ element.reader = 0 /\ element.writer = 0 /\ ~element.disposable
      /\ element \in Elements /\ src \in Sources /\ connects # <<>>
  <2>1. connects \in Seq(Connects) /\ element \in Elements
    BY DEF Good, Shapes
  <2>2. connects[i] \in Connects /\ connects # <<>>
    BY <2>1
  <2>3. src \in Sources
    BY <2>2 DEF Connects
  <2>4. i = Len(connects) /\ element.reader = 0 /\ element.writer = 0 /\ ~element.disposable
    BY <1>1 DEF Good, OneConnecting
  <2> QED BY <2>1, <2>2, <2>3, <2>4
<1>3. /\ streams \in Seq(Streams) /\ n \in Nat /\ DOMAIN streams = 1..n
  BY DEF Good, Shapes
<1>4. new \in Streams
  <2>1. <<>> \in Seq(Nat)
    OBVIOUS
  <2> QED BY <1>2, <2>1 DEF Streams
<1>5. /\ new.src = src /\ new.open /\ new.pull = "asked" /\ (new.loops > 0 => element.in)
  OBVIOUS
<1> HIDE DEF new
<1>6. /\ streams' \in Seq(Streams) /\ Len(streams') = n + 1 /\ DOMAIN streams' = 1..n + 1
      /\ \A m \in DOMAIN streams : streams'[m] = streams[m]
      /\ streams'[n + 1] = new
  BY <1>1, <1>3, <1>4
<1>7. /\ element' \in Elements /\ element'.reader = n + 1 /\ element'.writer = 0
      /\ ~element'.disposable /\ element'.listens = element.listens
      /\ element'.in = element.in
  BY <1>1, <1>2, <1>3, <1>6 DEF Elements
<1>8. \A m \in DOMAIN streams : ~streams[m].open /\ ~(streams[m].loops > 0)
  BY <1>2, <1>3 DEF Good, OneReader
<1>9. \A m \in DOMAIN streams' : m \in DOMAIN streams \/ m = n + 1
  BY <1>3, <1>6
<1>c. /\ connects' \in Seq(Connects) /\ Len(connects') = Len(connects)
      /\ DOMAIN connects' = DOMAIN connects
      /\ DOMAIN connects = 1..Len(connects) /\ Len(connects) \in Nat
      /\ \A k \in DOMAIN connects : connects'[k].src = connects[k].src
      /\ \A k \in DOMAIN connects : k # i => connects'[k].at = connects[k].at
      /\ connects'[i].at = "writable"
      /\ \A s : Sole(s)' <=> Sole(s)
      /\ \A k \in DOMAIN connects : connects[k].at # "readable" => connects'[k].at # "readable"
  BY <1>1, Reached
\* A source connected once had no stream yet.
<1>s. Sole(src) => \A m \in DOMAIN streams : streams[m].src # src
  <2> SUFFICES ASSUME Sole(src), NEW m \in DOMAIN streams, streams[m].src = src PROVE FALSE
    OBVIOUS
  <2>1. PICK k \in DOMAIN connects : connects[k].src = src /\ connects[k].at # "readable"
    BY DEF Good, SoleStream
  <2> QED BY <2>1, <1>1 DEF Sole
<1>10. Shapes'
  BY <1>1, <1>6, <1>7, <1>c DEF Good, Shapes
<1>11. OneConnecting'
  BY <1>1, <1>2, <1>7, <1>c DEF Good, OneConnecting
<1>12. OneReader'
  BY <1>2, <1>5, <1>6, <1>7, <1>8, <1>9, <1>c DEF OneReader
<1>13. ChunksInOrder'
  BY <1>5, <1>6, <1>9 DEF Good, ChunksInOrder
<1>14. SoleStream'
  <2>1. \A m \in DOMAIN streams' : \E k \in DOMAIN connects' :
          connects'[k].src = streams'[m].src /\ connects'[k].at # "readable"
    <3> TAKE m \in DOMAIN streams'
    <3>1. CASE m \in DOMAIN streams
      BY <3>1, <1>6, <1>c DEF Good, SoleStream
    <3>2. CASE m = n + 1
      BY <3>2, <1>5, <1>6, <1>c
    <3> QED BY <3>1, <3>2, <1>9
  <2>2. ASSUME NEW s \in Sources, Sole(s)', NEW k \in DOMAIN streams', NEW m \in DOMAIN streams',
               streams'[k].src = s, streams'[m].src = s
        PROVE  k = m
    <3>1. Sole(s)
      BY <2>2, <1>c
    <3>2. CASE k \in DOMAIN streams /\ m \in DOMAIN streams
      <4>1. streams[k].src = s /\ streams[m].src = s
        BY <2>2, <3>2, <1>6
      <4> QED BY <3>1, <3>2, <4>1 DEF Good, SoleStream
    <3>3. CASE k = n + 1 /\ m \in DOMAIN streams
      <4>1. s = src /\ streams[m].src = s
        BY <2>2, <3>3, <1>5, <1>6
      <4> QED BY <3>1, <3>3, <4>1, <1>s
    <3>4. CASE k \in DOMAIN streams /\ m = n + 1
      <4>1. s = src /\ streams[k].src = s
        BY <2>2, <3>4, <1>5, <1>6
      <4> QED BY <3>1, <3>4, <4>1, <1>s
    <3> QED BY <3>2, <3>3, <3>4, <1>9
  <2>3. \A s \in Sources : (\A m \in DOMAIN streams' : streams'[m].src # s) => given[s] = 0
    BY <1>6, <1>3 DEF Good, SoleStream
  <2> QED BY <2>1, <2>2, <2>3 DEF SoleStream
<1>15. NoHoles'
  <2>1. ASSUME NEW s \in Sources, Sole(s)', s = src PROVE given[s] = 0
    <3>1. Sole(src)
      BY <2>1, <1>c
    <3>2. \A m \in DOMAIN streams : streams[m].src # s
      BY <3>1, <2>1, <1>s
    <3> QED BY <3>2, <2>1 DEF Good, SoleStream
  <2>2. \A m \in DOMAIN streams' : streams'[m].loops > 0 => m = n + 1
    BY <1>6, <1>8, <1>9
  <2>3. ASSUME NEW s \in Sources, Sole(s)', NEW k \in DOMAIN screen, screen[k].src = s,
               NEW x \in 1..screen[k].n
        PROVE  ShownBy(s, x, k)'
    BY <2>3, <1>c DEF Good, NoHoles, ShownBy
  <2>4. ASSUME NEW s \in Sources, Sole(s)', NEW m \in DOMAIN streams', streams'[m].src = s,
               streams'[m].loops > 0
        PROVE  streams'[m].pull # "got" /\ given[s] = 0
    <3>1. m = n + 1 /\ s = src
      BY <2>2, <2>4, <1>5, <1>6
    <3>2. streams'[m] = new
      BY <3>1, <1>6
    <3>3. given[s] = 0
      BY <3>1, <2>1, <2>4, Zenon
    <3> QED BY <3>1, <3>2, <3>3, <1>5
  <2> QED BY <2>3, <2>4 DEF NoHoles
<1> QED BY <1>1, <1>10, <1>11, <1>12, <1>13, <1>14, <1>15, KeysRest DEF Good

\* The file to write to is there: its writer gets the keys.
LEMMA WritableStep ==
  ASSUME Good, NEW i \in DOMAIN connects, OpenedWritable(i),
         UNCHANGED <<given, screen, typed>>
  PROVE  Good'
<1> DEFINE src == connects[i].src
           new == [src |-> src, keys |-> <<>>]
           n == Len(writers)
<1>1. /\ connects[i].at = "writable" /\ Reach(i, "done")
      /\ writers' = Append(writers, new)
      /\ element' = [element EXCEPT !.writer = Len(writers'),
                                    !.listens = IF element.in THEN @ + 1 ELSE @,
                                    !.disposable = @ \/ element.in]
      /\ streams' = streams
  BY DEF OpenedWritable
<1>2. /\ i = Len(connects) /\ element.writer = 0 /\ ~element.disposable
      /\ element \in Elements /\ src \in Sources /\ connects # <<>> /\ element.listens = 0
  <2>1. connects \in Seq(Connects) /\ element \in Elements
    BY DEF Good, Shapes
  <2>2. connects[i] \in Connects /\ connects # <<>>
    BY <2>1
  <2>3. src \in Sources
    BY <2>2 DEF Connects
  <2>4. i = Len(connects) /\ element.writer = 0 /\ ~element.disposable /\ element.listens = 0
    BY <1>1 DEF Good, OneConnecting
  <2> QED BY <2>1, <2>2, <2>3, <2>4
<1>3. writers \in Seq(Writers) /\ n \in Nat /\ DOMAIN writers = 1..n
  BY DEF Good, Shapes
<1>4. /\ writers' \in Seq(Writers) /\ Len(writers') = n + 1 /\ DOMAIN writers' = 1..n + 1
      /\ \A w \in DOMAIN writers : writers'[w] = writers[w]
      /\ writers'[n + 1] = new
  <2>1. <<>> \in Seq(Nat)
    OBVIOUS
  <2>2. new \in Writers
    BY <1>2, <2>1, Zenon DEF Writers
  <2> HIDE DEF new
  <2> QED BY <1>1, <1>3, <2>2
<1>5. /\ element' \in Elements /\ element'.reader = element.reader /\ element'.writer = n + 1
      /\ element'.listens = (IF element'.disposable THEN 1 ELSE 0)
      /\ element'.in = element.in
  <2>1. CASE element.in
    <3> DEFINE u == [element EXCEPT !.writer = n + 1, !.listens = 1, !.disposable = TRUE]
    <3>1. (element.disposable \/ element.in) = TRUE
      BY <1>2, <2>1
    <3>2. (IF element.in THEN element.listens + 1 ELSE element.listens) = 1
      BY <1>2, <2>1
    <3>a. n + 1 \in Nat
      BY <1>3
    <3>b. u \in Elements
      <4> HIDE DEF n
      <4> QED BY <3>a, <1>2 DEF Elements
    <3>3. u \in Elements /\ u.reader = element.reader /\ u.writer = n + 1
          /\ u.listens = (IF u.disposable THEN 1 ELSE 0) /\ u.in = element.in
      BY <3>a, <3>b, <1>2 DEF Elements
    <3>4. element' = u
      BY <1>1, <1>4, <3>1, <3>2, Zenon
    <3> HIDE DEF u
    <3> QED BY <3>3, <3>4, Zenon
  <2>2. CASE ~element.in
    <3> DEFINE u == [element EXCEPT !.writer = n + 1, !.listens = 0, !.disposable = FALSE]
    <3>1. (element.disposable \/ element.in) = FALSE
      BY <1>2, <2>2
    <3>2. (IF element.in THEN element.listens + 1 ELSE element.listens) = 0
      BY <1>2, <2>2
    <3>a. n + 1 \in Nat
      BY <1>3
    <3>b. u \in Elements
      <4> HIDE DEF n
      <4> QED BY <3>a, <1>2 DEF Elements
    <3>3. u \in Elements /\ u.reader = element.reader /\ u.writer = n + 1
          /\ u.listens = (IF u.disposable THEN 1 ELSE 0) /\ u.in = element.in
      BY <3>a, <3>b, <1>2 DEF Elements
    <3>4. element' = u
      BY <1>1, <1>4, <3>1, <3>2, Zenon
    <3> HIDE DEF u
    <3> QED BY <3>3, <3>4, Zenon
  <2> QED BY <2>1, <2>2
<1>c. /\ connects' \in Seq(Connects) /\ Len(connects') = Len(connects)
      /\ DOMAIN connects' = DOMAIN connects
      /\ DOMAIN connects = 1..Len(connects) /\ Len(connects) \in Nat
      /\ \A k \in DOMAIN connects : connects'[k].src = connects[k].src
      /\ \A k \in DOMAIN connects : k # i => connects'[k].at = connects[k].at
      /\ connects'[i].at = "done"
      /\ \A s : Sole(s)' <=> Sole(s)
      /\ \A k \in DOMAIN connects : connects[k].at # "readable" => connects'[k].at # "readable"
  BY <1>1, Reached
<1>6. Shapes'
  <2>1. element'.reader <= Len(streams') /\ element'.writer <= Len(writers')
    BY <1>1, <1>4, <1>5 DEF Good, Shapes, Elements
  <2> QED BY <2>1, <1>1, <1>4, <1>5, <1>c DEF Good, Shapes
<1>7. OneConnecting'
  <2>1. \A k \in DOMAIN connects' : connects'[k].at = "done"
    BY <1>2, <1>c DEF Good, OneConnecting
  <2>2. writers'[element'.writer].src = connects'[Len(connects')].src /\ connects' # <<>>
    BY <1>2, <1>4, <1>5, <1>c
  <2> QED BY <2>1, <2>2, <1>5 DEF OneConnecting
<1>8. OneReader'
  BY <1>1, <1>2, <1>5, <1>c DEF Good, OneReader
<1>9. ChunksInOrder' /\ NoHoles'
  BY <1>1, <1>c, ChunksRest DEF Good, Shapes
<1>10. SoleStream'
  BY <1>1, <1>c, StreamsRest DEF Good, Shapes
<1>11. KeysInOrder'
  <2> SUFFICES ASSUME NEW w \in DOMAIN writers'
               PROVE  /\ Increasing(writers'[w].keys)
                      /\ \A k \in DOMAIN writers'[w].keys :
                           /\ writers'[w].keys[k] \in DOMAIN typed
                           /\ typed[writers'[w].keys[k]] = writers'[w].src
    BY DEF KeysInOrder, Increasing
  <2>1. CASE w = n + 1
    BY <2>1, <1>4 DEF Increasing
  <2>2. CASE w \in DOMAIN writers
    BY <2>2, <1>4 DEF Good, KeysInOrder
  <2> QED BY <2>1, <2>2, <1>3, <1>4
<1> QED BY <1>6, <1>7, <1>8, <1>9, <1>10, <1>11 DEF Good

\* A file cannot be opened: the connection ends as far as it came.
LEMMA FailsStep ==
  ASSUME Good, NEW i \in DOMAIN connects, OpenFails(i), UNCHANGED <<given, screen, typed>>
  PROVE  Good'
<1>1. /\ connects[i].at # "done" /\ Reach(i, "done")
      /\ UNCHANGED <<element, streams, writers>>
  BY DEF OpenFails
<1>c. /\ connects' \in Seq(Connects) /\ Len(connects') = Len(connects)
      /\ DOMAIN connects' = DOMAIN connects
      /\ DOMAIN connects = 1..Len(connects) /\ Len(connects) \in Nat
      /\ \A k \in DOMAIN connects : connects'[k].src = connects[k].src
      /\ \A k \in DOMAIN connects : k # i => connects'[k].at = connects[k].at
      /\ connects'[i].at = "done"
      /\ \A s : Sole(s)' <=> Sole(s)
      /\ \A k \in DOMAIN connects : connects[k].at # "readable" => connects'[k].at # "readable"
  BY <1>1, Reached
<1>2. Shapes'
  BY <1>1, <1>c DEF Good, Shapes
<1>n. connects' # <<>>
  BY <1>c
<1>3. OneConnecting'
  BY <1>1, <1>c, <1>n DEF Good, OneConnecting
<1>4. OneReader'
  BY <1>1, <1>c, <1>n DEF Good, OneReader
<1>5. ChunksInOrder' /\ NoHoles'
  BY <1>1, <1>c, ChunksRest DEF Good, Shapes
<1>6. SoleStream'
  BY <1>1, <1>c, StreamsRest DEF Good, Shapes
<1> QED BY <1>1, <1>2, <1>3, <1>4, <1>5, <1>6, KeysRest DEF Good

\* A stream changes nothing but itself.
LEMMA OneStream ==
  ASSUME Good, NEW m \in DOMAIN streams, NEW st \in Streams, streams' = [streams EXCEPT ![m] = st],
         st.src = streams[m].src
  PROVE  /\ streams' \in Seq(Streams) /\ Len(streams') = Len(streams)
         /\ DOMAIN streams' = DOMAIN streams /\ streams'[m] = st
         /\ \A n \in DOMAIN streams : n # m => streams'[n] = streams[n]
         /\ \A n \in DOMAIN streams : streams'[n].src = streams[n].src
<1>1. streams \in Seq(Streams)
  BY DEF Good, Shapes
<1>2. streams' \in Seq(Streams) /\ Len(streams') = Len(streams) /\ DOMAIN streams' = DOMAIN streams
  BY <1>1
<1>3. streams'[m] = st /\ \A n \in DOMAIN streams : n # m => streams'[n] = streams[n]
  BY <1>1
<1> QED BY <1>2, <1>3

\* What is known of one stream.
LEMMA TheStream ==
  ASSUME Good, NEW m \in DOMAIN streams
  PROVE  /\ streams[m] \in Streams /\ streams[m].src \in Sources /\ streams[m].chunk \in Nat
         /\ streams[m].loops \in Nat /\ m \in Nat \ {0}
<1>1. streams[m] \in Streams /\ m \in Nat \ {0}
  BY DEF Good, Shapes
<1> QED BY <1>1 DEF Streams

\* The stream is read no further, or ended.
LEMMA QuietStep ==
  ASSUME Good, NEW m \in DOMAIN streams, NEW st \in Streams, streams' = [streams EXCEPT ![m] = st],
         st.src = streams[m].src, st.chunk = streams[m].chunk, st.pull = "idle", st.loops = 0,
         st.open => streams[m].open,
         UNCHANGED <<element, connects, writers, given, screen, typed>>
  PROVE  Good'
<1>1. /\ streams' \in Seq(Streams) /\ Len(streams') = Len(streams)
      /\ DOMAIN streams' = DOMAIN streams /\ streams'[m] = st
      /\ \A n \in DOMAIN streams : n # m => streams'[n] = streams[n]
      /\ \A n \in DOMAIN streams : streams'[n].src = streams[n].src
  BY OneStream
<1>2. /\ \A n \in DOMAIN streams : streams'[n].open => streams[n].open
      /\ \A n \in DOMAIN streams : streams'[n].loops > 0 => n # m
      /\ \A n \in DOMAIN streams : streams'[n].pull = "got" => n # m
  BY <1>1
<1>3. Shapes'
  BY <1>1 DEF Good, Shapes
<1>4. OneConnecting'
  BY DEF Good, OneConnecting
<1>5. OneReader'
  BY <1>1, <1>2 DEF Good, OneReader
<1>6. ChunksInOrder'
  BY <1>1, <1>2 DEF Good, ChunksInOrder
<1>7. SoleStream'
  BY <1>1 DEF Good, SoleStream, Sole
<1>8. NoHoles'
  BY <1>1, <1>2 DEF Good, NoHoles, ShownBy, Sole
<1> QED BY <1>3, <1>4, <1>5, <1>6, <1>7, <1>8, KeysRest DEF Good

\* The kernel answers a read: the next chunk of the file.
LEMMA ServedStep ==
  ASSUME Good, NEW m \in DOMAIN streams, ReadServed(m),
         UNCHANGED <<element, connects, writers, typed>>
  PROVE  Good'
<1> DEFINE f == streams[m].src
           st == [streams[m] EXCEPT !.pull = "got", !.chunk = given[f] + 1]
<1>1. /\ streams[m] \in Streams /\ f \in Sources /\ given \in [Sources -> Nat]
      /\ streams[m].pull = "asked" /\ given' = [given EXCEPT ![f] = @ + 1] /\ UNCHANGED screen
      /\ streams' = [streams EXCEPT ![m] = st]
  BY TheStream DEF ReadServed, Good, Shapes
<1>2. /\ st \in Streams /\ st.src = f /\ st.open = streams[m].open /\ st.pull = "got"
      /\ st.chunk = given[f] + 1 /\ st.loops = streams[m].loops
  <2>1. given[f] + 1 \in Nat
    BY <1>1
  <2> HIDE DEF f
  <2> QED BY <2>1, <1>1 DEF Streams, f
<1> HIDE DEF st
<1>3. /\ streams' \in Seq(Streams) /\ Len(streams') = Len(streams)
      /\ DOMAIN streams' = DOMAIN streams /\ streams'[m] = st
      /\ \A n \in DOMAIN streams : n # m => streams'[n] = streams[n]
      /\ \A n \in DOMAIN streams : streams'[n].src = streams[n].src
  BY <1>1, <1>2, OneStream
<1>4. /\ given' \in [Sources -> Nat] /\ given'[f] = given[f] + 1 /\ given[f] \in Nat
      /\ \A s \in Sources : s # f => given'[s] = given[s]
      /\ \A s \in Sources : given[s] \in Nat /\ given'[s] \in Nat /\ given[s] <= given'[s]
  BY <1>1
<1> HIDE DEF f
<1>5. Shapes'
  BY <1>1, <1>3, <1>4 DEF Good, Shapes
<1>6. OneConnecting'
  BY DEF Good, OneConnecting
<1>7. OneReader'
  BY <1>1, <1>2, <1>3 DEF Good, OneReader
<1>s. \A k \in DOMAIN screen : screen[k].src \in Sources /\ screen[k].n \in 1..given[screen[k].src]
  <2> TAKE k \in DOMAIN screen
  <2>1. screen \in Seq(Chunks)
    BY DEF Good, Shapes
  <2>2. screen[k] \in Chunks
    BY <2>1
  <2>3. screen[k].src \in Sources
    BY <2>2 DEF Chunks
  <2> QED BY <2>3 DEF Good, ChunksInOrder
<1>8. ChunksInOrder'
  <2>1. \A k \in DOMAIN screen : screen[k].n \in 1..given'[screen[k].src]
    <3> TAKE k \in DOMAIN screen
    <3>1. screen[k].src \in Sources /\ screen[k].n \in 1..given[screen[k].src]
      BY <1>s
    <3> QED BY <3>1, <1>4
  <2>2. ASSUME NEW n \in DOMAIN streams, streams'[n].pull = "got"
        PROVE  /\ streams'[n].chunk \in 1..given'[streams'[n].src]
               /\ streams'[n].open => \A k \in DOMAIN screen :
                    screen[k].src = streams'[n].src => screen[k].n < streams'[n].chunk
    <3>1. CASE n = m
      <4>1. streams'[n].chunk = given[f] + 1 /\ streams'[n].src = f
        BY <3>1, <1>2, <1>3
      <4>2. given[f] + 1 \in 1..given'[f]
        BY <1>4
      <4>3. \A k \in DOMAIN screen : screen[k].src = f => screen[k].n < given[f] + 1
        BY <1>s, <1>4
      <4> QED BY <4>1, <4>2, <4>3
    <3>2. CASE n # m
      <4>1. streams'[n] = streams[n] /\ streams[n].src \in Sources /\ streams[n].chunk \in Nat
        BY <3>2, <1>3, TheStream
      <4>2. /\ streams[n].chunk \in 1..given[streams[n].src]
            /\ streams[n].open => \A k \in DOMAIN screen :
                 screen[k].src = streams[n].src => screen[k].n < streams[n].chunk
        BY <2>2, <4>1 DEF Good, ChunksInOrder
      <4>3. streams[n].chunk \in 1..given'[streams[n].src]
        BY <4>1, <4>2, <1>4
      <4> QED BY <4>1, <4>2, <4>3
    <3> QED BY <3>1, <3>2
  <2>3. /\ \A k \in DOMAIN screen : screen[k].src = screen[k].last
        /\ \A k, l \in DOMAIN screen :
             k < l /\ screen[k].src = screen[l].src => screen[k].n < screen[l].n
    BY DEF Good, ChunksInOrder
  <2> QED BY <1>1, <1>3, <2>1, <2>2, <2>3 DEF ChunksInOrder
<1>9. SoleStream'
  <2>1. \A n \in DOMAIN streams : \E i \in DOMAIN connects :
          connects[i].src = streams'[n].src /\ connects[i].at # "readable"
    BY <1>3 DEF Good, SoleStream
  <2>2. \A s \in Sources : Sole(s) => \A n, k \in DOMAIN streams :
          streams'[n].src = s /\ streams'[k].src = s => n = k
    BY <1>3 DEF Good, SoleStream
  <2>3. ASSUME NEW s \in Sources, \A n \in DOMAIN streams : streams'[n].src # s PROVE given'[s] = 0
    <3>1. s # f
      BY <2>3, <1>2, <1>3
    <3>2. \A n \in DOMAIN streams : streams[n].src # s
      BY <2>3, <1>3
    <3> QED BY <3>1, <3>2, <1>4 DEF Good, SoleStream
  <2> QED BY <1>3, <2>1, <2>2, <2>3 DEF SoleStream, Sole
<1>10. NoHoles'
  <2>1. ASSUME NEW s \in Sources, Sole(s), NEW n \in DOMAIN streams, streams'[n].src = s,
               streams'[n].loops > 0
        PROVE  /\ streams'[n].pull = "got" => streams'[n].chunk = given'[s]
               /\ \A x \in 1..given'[s] :
                    ShownBy(s, x, Len(screen)) \/ (x = given'[s] /\ streams'[n].pull = "got")
    <3>1. streams[n].src = s
      BY <2>1, <1>3
    <3>2. CASE n = m
      <4>1. s = f /\ streams[m].loops > 0
        BY <2>1, <3>2, <1>2, <1>3
      <4>2. \A x \in 1..given[s] : ShownBy(s, x, Len(screen))
        BY <2>1, <3>1, <3>2, <4>1, <1>1 DEF Good, NoHoles
      <4>3. given'[s] = given[s] + 1 /\ given[s] \in Nat
        BY <4>1, <1>4
      <4>4. streams'[n].pull = "got" /\ streams'[n].chunk = given[s] + 1
        BY <3>2, <4>1, <1>2, <1>3
      <4>5. \A x \in 1..given[s] + 1 : x \in 1..given[s] \/ x = given[s] + 1
        BY <4>3
      <4> QED BY <4>2, <4>3, <4>4, <4>5
    <3>3. CASE n # m
      <4>1. s # f
        <5>1. streams[m].src = f
          BY DEF f
        <5> QED BY <5>1, <2>1, <3>1, <3>3 DEF Good, SoleStream
      <4>2. streams'[n] = streams[n] /\ given'[s] = given[s]
        BY <3>3, <4>1, <1>3, <1>4
      <4>3. /\ streams[n].pull = "got" => streams[n].chunk = given[s]
            /\ \A x \in 1..given[s] :
                 ShownBy(s, x, Len(screen)) \/ (x = given[s] /\ streams[n].pull = "got")
        BY <2>1, <3>1, <4>2 DEF Good, NoHoles
      <4> QED BY <4>2, <4>3
    <3> QED BY <3>2, <3>3
  <2>2. \A s \in Sources : Sole(s) => \A k \in DOMAIN screen : screen[k].src = s =>
          \A x \in 1..screen[k].n : ShownBy(s, x, k)
    BY DEF Good, NoHoles
  <2> QED BY <1>1, <1>3, <2>1, <2>2 DEF NoHoles, ShownBy, Sole
<1> QED BY <1>5, <1>6, <1>7, <1>8, <1>9, <1>10, KeysRest DEF Good

\* The loop that awaits the element's reader shows the chunk.
LEMMA ShowStep ==
  ASSUME Good, NEW m \in DOMAIN streams, streams[m].pull = "got", streams[m].open,
         streams[m].loops > 0, LoopOn(m), UNCHANGED <<element, connects, writers, given, typed>>
  PROVE  Good'
<1> SUFFICES ASSUME NEW f, f = streams[m].src, NEW n, n = Len(screen),
                    NEW c, c = Shown(f, streams[m].chunk)
             PROVE  Good'
  OBVIOUS
<1> DEFINE st == [streams[m] EXCEPT !.pull = "asked"]
<1>1. /\ element.reader = m /\ element.in /\ LastSource = f /\ connects # <<>>
  BY DEF Good, OneReader, LastSource, Last
<1>2. /\ streams[m] \in Streams /\ f \in Sources /\ streams[m].chunk \in Nat
  BY TheStream
<1>3. /\ st \in Streams /\ st.src = f /\ st.open /\ st.pull = "asked"
      /\ st.loops = streams[m].loops
  BY <1>2 DEF Streams
<1>4. streams' = [streams EXCEPT ![m] = st]
  <2>1. streams' = [streams EXCEPT ![m].pull = "asked", ![m].loops = @]
    BY <1>1 DEF LoopOn
  <2>2. [streams[m] EXCEPT !.pull = "asked", !.loops = @] = st
    BY <1>2 DEF Streams
  <2> QED BY <2>1, <2>2
<1>5. screen' = Append(screen, c)
  <2>1. screen' = screen \o (<<c>> \o [k \in DOMAIN <<>> |-> Shown(streams[m].src, <<>>[k])])
    BY <1>1 DEF LoopOn
  <2>2. [k \in DOMAIN <<>> |-> Shown(streams[m].src, <<>>[k])] = <<>>
    OBVIOUS
  <2>3. <<c>> \o <<>> = <<c>>
    OBVIOUS
  <2>4. screen' = screen \o <<c>>
    BY <2>1, <2>2, <2>3, Zenon
  <2>5. screen \in Seq(Chunks) /\ c \in Chunks
    BY <1>1, <1>2 DEF Good, Shapes, Shown, Chunks
  <2> QED BY <2>4, <2>5
<1>6. c.src = f /\ c.last = f /\ c.n = streams[m].chunk /\ c \in Chunks
  BY <1>1, <1>2 DEF Shown, Chunks
<1> HIDE DEF st
<1>7. /\ streams' \in Seq(Streams) /\ Len(streams') = Len(streams)
      /\ DOMAIN streams' = DOMAIN streams /\ streams'[m] = st
      /\ \A k \in DOMAIN streams : k # m => streams'[k] = streams[k]
      /\ \A k \in DOMAIN streams : streams'[k].src = streams[k].src
  BY <1>3, <1>4, OneStream
<1>8. /\ screen' \in Seq(Chunks) /\ Len(screen') = n + 1 /\ n \in Nat
      /\ DOMAIN screen = 1..n /\ DOMAIN screen' = 1..n + 1
      /\ screen'[n + 1] = c /\ \A k \in DOMAIN screen : screen'[k] = screen[k]
      /\ \A k \in DOMAIN screen' : k \in DOMAIN screen \/ k = n + 1
  BY <1>5, <1>6 DEF Good, Shapes
<1>9. /\ c.n \in 1..given[f] /\ \A k \in DOMAIN screen : screen[k].src = f => screen[k].n < c.n
  BY <1>6 DEF Good, ChunksInOrder
<1>10. Shapes'
  BY <1>7, <1>8 DEF Good, Shapes
<1>11. OneConnecting'
  BY DEF Good, OneConnecting
<1>12. OneReader'
  BY <1>3, <1>7 DEF Good, OneReader
<1>13. ChunksInOrder'
  <2>1. \A k \in DOMAIN screen' : screen'[k].src = screen'[k].last
                                  /\ screen'[k].n \in 1..given[screen'[k].src]
    BY <1>6, <1>8, <1>9 DEF Good, ChunksInOrder
  <2>2. \A k, l \in DOMAIN screen' :
          k < l /\ screen'[k].src = screen'[l].src => screen'[k].n < screen'[l].n
    <3> TAKE k, l \in DOMAIN screen'
    <3> HAVE k < l /\ screen'[k].src = screen'[l].src
    <3>1. k \in DOMAIN screen /\ screen'[k] = screen[k]
      BY <1>8
    <3>2. CASE l \in DOMAIN screen
      BY <3>1, <3>2, <1>8 DEF Good, ChunksInOrder
    <3>3. CASE l = n + 1
      BY <3>1, <3>3, <1>6, <1>8, <1>9
    <3> QED BY <3>2, <3>3, <1>8
  <2>3. ASSUME NEW k \in DOMAIN streams, streams'[k].pull = "got"
        PROVE  /\ streams'[k].chunk \in 1..given[streams'[k].src]
               /\ streams'[k].open => \A i \in DOMAIN screen' :
                    screen'[i].src = streams'[k].src => screen'[i].n < streams'[k].chunk
    <3>1. k # m /\ streams'[k] = streams[k]
      BY <2>3, <1>3, <1>7
    <3>2. ~streams[k].open
      BY <3>1, <1>1 DEF Good, OneReader
    <3>3. streams[k].chunk \in 1..given[streams[k].src]
      BY <2>3, <3>1 DEF Good, ChunksInOrder
    <3> QED BY <3>1, <3>2, <3>3
  <2> QED BY <2>1, <2>2, <2>3, <1>7 DEF ChunksInOrder
<1>14. SoleStream'
  BY <1>7 DEF Good, SoleStream, Sole
<1>15. NoHoles'
  <2>1. \A s, x, i : i \in DOMAIN screen => (ShownBy(s, x, i)' <=> ShownBy(s, x, i))
    BY <1>8 DEF ShownBy
  <2>2. \A s, x : ShownBy(s, x, n) => ShownBy(s, x, n + 1)'
    BY <1>8 DEF ShownBy
  <2>3. ShownBy(f, c.n, n + 1)'
    BY <1>6, <1>8 DEF ShownBy
  <2>4. Sole(f) => c.n = given[f] /\ \A x \in 1..given[f] : ShownBy(f, x, n) \/ x = given[f]
    BY <1>2, <1>6 DEF Good, NoHoles
  <2>5. Sole(f) => \A x \in 1..given[f] : ShownBy(f, x, n + 1)'
    BY <2>2, <2>3, <2>4
  <2>6. ASSUME NEW s \in Sources, Sole(s), NEW i \in DOMAIN screen', screen'[i].src = s,
               NEW x \in 1..screen'[i].n
        PROVE  ShownBy(s, x, i)'
    <3>1. CASE i \in DOMAIN screen
      BY <2>1, <2>6, <3>1, <1>8 DEF Good, NoHoles
    <3>2. CASE i = n + 1
      <4>1. s = f /\ x \in 1..c.n
        BY <2>6, <3>2, <1>6, <1>8
      <4>2. x \in 1..given[f]
        BY <4>1, <2>4, <2>6
      <4> QED BY <4>1, <4>2, <2>5, <2>6, <3>2
    <3> QED BY <3>1, <3>2, <1>8
  <2>7. ASSUME NEW s \in Sources, Sole(s), NEW k \in DOMAIN streams, streams'[k].src = s,
               streams'[k].loops > 0
        PROVE  /\ streams'[k].pull # "got"
               /\ \A x \in 1..given[s] : ShownBy(s, x, n + 1)'
    <3>1. k = m
      <4> SUFFICES ASSUME k # m PROVE FALSE
        OBVIOUS
      <4>1. streams[k].loops > 0
        BY <2>7, <1>7
      <4> QED BY <4>1, <1>1 DEF Good, OneReader
    <3>2. s = f
      BY <3>1, <2>7, <1>3, <1>7
    <3> QED BY <3>1, <3>2, <2>5, <2>7, <1>3, <1>7
  <2> QED BY <2>6, <2>7, <1>7, <1>8 DEF NoHoles, Sole
<1> QED BY <1>10, <1>11, <1>12, <1>13, <1>14, <1>15, KeysRest DEF Good

\* The streams deliver, or end.
LEMMA OutputKeeps == ASSUME Good, Output PROVE Good'
<1>1. PICK m \in DOMAIN streams : ChunkArrives(m) \/ ReadServed(m) \/ StreamEnds(m)
  BY DEF Output
<1>2. UNCHANGED <<element, connects, writers, typed, overlap>>
  BY DEF Output
<1>3. streams[m] \in Streams
  BY TheStream
<1>4. CASE ChunkArrives(m)
  <2>1. streams[m].pull = "got" /\ UNCHANGED given
    BY <1>4 DEF ChunkArrives
  <2>2. CASE ~streams[m].open /\ streams' = [streams EXCEPT ![m].pull = "idle"] /\ UNCHANGED screen
    <3> DEFINE st == [streams[m] EXCEPT !.pull = "idle"]
    <3>1. streams[m].loops = 0
      BY <2>2, TheStream DEF Good, OneReader
    <3>2. /\ st \in Streams /\ st.src = streams[m].src /\ st.chunk = streams[m].chunk
          /\ st.pull = "idle" /\ st.loops = 0 /\ (st.open => streams[m].open)
      BY <1>3, <3>1 DEF Streams
    <3>3. streams' = [streams EXCEPT ![m] = st]
      BY <2>2
    <3> HIDE DEF st
    <3> QED BY <1>2, <2>1, <2>2, <3>2, <3>3, QuietStep
  <2>3. CASE /\ streams[m].loops = 0 /\ UNCHANGED screen
             /\ streams' = [streams EXCEPT ![m].pull = "idle", ![m].queue = <<streams[m].chunk>>]
    <3> DEFINE st == [streams[m] EXCEPT !.pull = "idle", !.queue = <<streams[m].chunk>>]
    <3>1. streams[m].chunk \in Nat /\ <<streams[m].chunk>> \in Seq(Nat)
      BY TheStream
    <3>2. st \in Streams
      BY <1>3, <3>1, Zenon DEF Streams
    <3>4. /\ st.src = streams[m].src /\ st.chunk = streams[m].chunk
          /\ st.pull = "idle" /\ st.loops = 0 /\ (st.open => streams[m].open)
      BY <1>3, <2>3 DEF Streams
    <3>3. streams' = [streams EXCEPT ![m] = st]
      BY <2>3
    <3> HIDE DEF st
    <3> QED BY <1>2, <2>1, <2>3, <3>2, <3>3, <3>4, QuietStep
  <2>4. CASE streams[m].open /\ streams[m].loops > 0 /\ LoopOn(m)
    BY <1>2, <2>1, <2>4, ShowStep
  <2> QED BY <1>4, <2>2, <2>3, <2>4 DEF ChunkArrives
<1>5. CASE ReadServed(m)
  BY <1>2, <1>5, ServedStep
<1>6. CASE StreamEnds(m)
  <2> DEFINE st == [streams[m] EXCEPT !.pull = "idle", !.open = FALSE, !.loops = 0]
  <2>1. /\ st \in Streams /\ st.src = streams[m].src /\ st.chunk = streams[m].chunk
        /\ st.pull = "idle" /\ st.loops = 0 /\ (st.open => streams[m].open)
    BY <1>3 DEF Streams
  <2>2. streams' = [streams EXCEPT ![m] = st] /\ UNCHANGED <<given, screen>>
    BY <1>6 DEF StreamEnds
  <2> HIDE DEF st
  <2> QED BY <1>2, <2>1, <2>2, QuietStep
<1> QED BY <1>1, <1>4, <1>5, <1>6

\* A key goes to the writer of the source connected last, once.
LEMMA InputStep == ASSUME Good, Input PROVE Good'
<1> DEFINE n == Len(typed)
           w == element.writer
           more == [k \in 1..element.listens |-> n + 1]
<1>1. /\ element.in /\ typed' = Append(typed, LastSource)
      /\ writers' = IF w = 0 THEN writers
                    ELSE [writers EXCEPT ![w].keys = @ \o [k \in 1..element.listens |-> Len(typed')]]
      /\ UNCHANGED <<element, connects, streams, given, screen, overlap>>
  BY DEF Input
<1>2. /\ typed \in Seq(Sources \cup {"none"}) /\ n \in Nat /\ DOMAIN typed = 1..n
      /\ writers \in Seq(Writers) /\ DOMAIN writers = 1..Len(writers) /\ Len(writers) \in Nat
      /\ element \in Elements /\ w <= Len(writers) /\ w \in Nat /\ element.listens \in {0, 1}
  BY DEF Good, Shapes, Elements
<1>3. LastSource \in Sources \cup {"none"}
  <2>1. connects \in Seq(Connects)
    BY DEF Good, Shapes
  <2>2. connects # <<>> => connects[Len(connects)] \in Connects
    BY <2>1
  <2> QED BY <2>2 DEF LastSource, Last, Connects
<1>4. /\ typed' \in Seq(Sources \cup {"none"}) /\ Len(typed') = n + 1 /\ DOMAIN typed' = 1..n + 1
      /\ typed'[n + 1] = LastSource /\ \A k \in DOMAIN typed : typed'[k] = typed[k]
  BY <1>1, <1>2, <1>3
<1>5. w # 0 => w \in DOMAIN writers /\ writers[w] \in Writers /\ writers[w].keys \in Seq(Nat)
               /\ writers[w].src = LastSource
  <2> SUFFICES ASSUME w # 0
               PROVE  w \in DOMAIN writers /\ writers[w] \in Writers
                      /\ writers[w].keys \in Seq(Nat) /\ writers[w].src = LastSource
    OBVIOUS
  <2>1. w \in DOMAIN writers
    BY <1>2
  <2>2. writers[w] \in Writers
    BY <2>1, <1>2
  <2>3. writers[w].src = LastSource
    BY DEF Good, OneConnecting, LastSource, Last
  <2>4. writers[w].keys \in Seq(Nat)
    BY <2>2 DEF Writers
  <2> QED BY <2>1, <2>2, <2>3, <2>4
<1>6. ASSUME w # 0
      PROVE  /\ writers' \in Seq(Writers) /\ Len(writers') = Len(writers)
             /\ DOMAIN writers' = DOMAIN writers
             /\ \A k \in DOMAIN writers : k # w => writers'[k] = writers[k]
             /\ writers'[w].src = LastSource
             /\ writers'[w].keys = IF element.listens = 1 THEN Append(writers[w].keys, n + 1)
                                   ELSE writers[w].keys
  <2> DEFINE keys == IF element.listens = 1 THEN Append(writers[w].keys, n + 1) ELSE writers[w].keys
             wr == [writers[w] EXCEPT !.keys = keys]
  <2>1. writers[w].keys \o more = keys
    <3>1. CASE element.listens = 1
      BY <3>1, <1>5, <1>6, <1>2
    <3>2. CASE element.listens = 0
      BY <3>2, <1>5, <1>6, <1>2
    <3> QED BY <3>1, <3>2, <1>2
  <2>2. writers' = [writers EXCEPT ![w].keys = writers[w].keys \o more]
    BY <1>1, <1>4, <1>6
  <2>3. keys \in Seq(Nat)
    BY <1>5, <1>6, <1>2
  <2> HIDE DEF keys, more
  <2>4. writers' = [writers EXCEPT ![w] = wr]
    BY <2>1, <2>2
  <2>5. wr \in Writers /\ wr.src = writers[w].src /\ wr.keys = keys
    BY <2>3, <1>5, <1>6 DEF Writers
  <2> HIDE DEF wr
  <2>6. /\ writers' \in Seq(Writers) /\ Len(writers') = Len(writers)
        /\ DOMAIN writers' = DOMAIN writers /\ writers'[w] = wr
        /\ \A k \in DOMAIN writers : k # w => writers'[k] = writers[k]
    BY <2>4, <2>5, <1>2, <1>5, <1>6
  <2> QED BY <2>5, <2>6, <1>5, <1>6 DEF keys
<1>7. w = 0 => writers' = writers
  BY <1>1
<1>8. writers' \in Seq(Writers) /\ Len(writers') = Len(writers) /\ DOMAIN writers' = DOMAIN writers
  BY <1>6, <1>7, <1>2
<1>9. \A k \in DOMAIN writers : writers'[k].src = writers[k].src
  BY <1>5, <1>6, <1>7
<1>10. Shapes'
  BY <1>1, <1>4, <1>8 DEF Good, Shapes
<1>11. OneConnecting'
  <2>1. w # 0 => writers'[w].src = writers[w].src
    BY <1>5, <1>9
  <2> QED BY <2>1, <1>1 DEF Good, OneConnecting
<1>12. OneReader' /\ ChunksInOrder' /\ SoleStream' /\ NoHoles'
  BY <1>1 DEF Good, OneReader, ChunksInOrder, SoleStream, NoHoles, Sole, ShownBy
<1>13. KeysInOrder'
  <2> SUFFICES ASSUME NEW v \in DOMAIN writers
               PROVE  /\ Increasing(writers'[v].keys)
                      /\ \A i \in DOMAIN writers'[v].keys :
                           /\ writers'[v].keys[i] \in DOMAIN typed'
                           /\ typed'[writers'[v].keys[i]] = writers'[v].src
    BY <1>8 DEF KeysInOrder, Increasing
  <2>1. /\ Increasing(writers[v].keys)
        /\ \A i \in DOMAIN writers[v].keys :
             /\ writers[v].keys[i] \in DOMAIN typed
             /\ typed[writers[v].keys[i]] = writers[v].src
    BY DEF Good, KeysInOrder
  <2>2. DOMAIN typed \subseteq DOMAIN typed'
    BY <1>2, <1>4
  <2>3. CASE writers'[v].keys = writers[v].keys
    BY <2>1, <2>2, <2>3, <1>4, <1>9
  <2>4. CASE w # 0 /\ v = w /\ writers'[v].keys = Append(writers[v].keys, n + 1)
    <3> DEFINE old == writers[v].keys
               new == writers'[v].keys
    <3>1. old \in Seq(Nat) /\ new = Append(old, n + 1)
      BY <2>4, <1>5
    <3>2. /\ DOMAIN old = 1..Len(old) /\ Len(old) \in Nat /\ DOMAIN new = 1..Len(old) + 1
          /\ \A i \in DOMAIN old : new[i] = old[i]
          /\ new[Len(old) + 1] = n + 1
      BY <3>1, <1>2
    <3>3. \A i \in DOMAIN new : i \in DOMAIN old \/ i = Len(old) + 1
      BY <3>2
    <3>4. writers'[v].src = LastSource /\ typed'[n + 1] = LastSource /\ n + 1 \in DOMAIN typed'
      BY <2>4, <1>4, <1>6, <1>2
    <3>5. \A i \in DOMAIN new : new[i] \in DOMAIN typed' /\ typed'[new[i]] = writers'[v].src
      <4> TAKE i \in DOMAIN new
      <4>1. CASE i \in DOMAIN old
        <5>1. new[i] = old[i] /\ old[i] \in DOMAIN typed /\ typed[old[i]] = writers[v].src
          BY <4>1, <3>2, <2>1
        <5> QED BY <5>1, <2>2, <1>4, <1>9
      <4>2. CASE i = Len(old) + 1
        BY <4>2, <3>2, <3>4
      <4> QED BY <4>1, <4>2, <3>3
    <3>6. \A i, k \in DOMAIN new : i < k => new[i] < new[k]
      <4> TAKE i, k \in DOMAIN new
      <4> HAVE i < k
      <4>1. i \in DOMAIN old
        BY <3>2, <3>3
      <4>2. new[i] = old[i] /\ old[i] \in 1..n
        BY <4>1, <3>2, <2>1, <1>2
      <4>3. CASE k \in DOMAIN old
        BY <4>1, <4>3, <3>2, <2>1 DEF Increasing
      <4>4. CASE k = Len(old) + 1
        BY <4>2, <4>4, <3>2, <1>2
      <4> QED BY <4>3, <4>4, <3>3
    <3> QED BY <3>5, <3>6 DEF Increasing
  <2> QED BY <2>3, <2>4, <1>6, <1>7
<1> QED BY <1>10, <1>11, <1>12, <1>13 DEF Good

\* Every step keeps the invariant.
LEMMA TerminalStep == TerminalInv /\ [TerminalNext]_terminalVars => TerminalInv'
<1> SUFFICES ASSUME TerminalInv, [TerminalNext]_terminalVars PROVE TerminalInv'
  OBVIOUS
<1>1. CASE Page
  <2>1. overlap' \in BOOLEAN /\ (overlap => overlap')
    <3>1. overlap \in BOOLEAN
      BY DEF TerminalInv
    <3>2. ASSUME NEW e, ConnectToSource(e) PROVE overlap' \in BOOLEAN /\ (overlap => overlap')
      BY <3>1, <3>2 DEF ConnectToSource
    <3>3. (\E e : ConnectToSource(e)) \/ DisconnectedCallback
      BY <1>1, Zenon DEF Page, ConnectedCallback, SrcChanged, ForChanged
    <3> QED BY <3>1, <3>2, <3>3 DEF DisconnectedCallback
  <2>2. ~overlap' => Good'
    BY <1>1, <2>1, PageStep DEF TerminalInv
  <2> QED BY <2>1, <2>2 DEF TerminalInv
<1>2. CASE Connecting
  <2>1. PICK i \in DOMAIN connects : OpenedReadable(i) \/ OpenedWritable(i) \/ OpenFails(i)
    BY <1>2 DEF Connecting
  <2>2. UNCHANGED <<given, screen, typed, overlap>>
    BY <1>2 DEF Connecting
  <2>3. Good => Good'
    BY <2>1, <2>2, ReadableStep, WritableStep, FailsStep
  <2> QED BY <2>2, <2>3 DEF TerminalInv
<1>3. CASE Output
  <2>1. UNCHANGED overlap
    BY <1>3 DEF Output
  <2> QED BY <1>3, <2>1, OutputKeeps DEF TerminalInv
<1>4. CASE Input
  <2>1. UNCHANGED overlap
    BY <1>4 DEF Input
  <2> QED BY <1>4, <2>1, InputStep DEF TerminalInv
<1>5. CASE UNCHANGED terminalVars
  <2>1. Good => Good'
    BY <1>5 DEF terminalVars, Good, Shapes, OneConnecting, OneReader, ChunksInOrder, SoleStream,
                NoHoles, KeysInOrder, Sole, ShownBy, Increasing
  <2> QED BY <1>5, <2>1 DEF terminalVars, TerminalInv
<1> QED BY <1>1, <1>2, <1>3, <1>4, <1>5 DEF TerminalNext

\* Together: the invariant always holds.
LEMMA TerminalAlways == TerminalSpec => []TerminalInv
<1>1. Start => TerminalInv
  BY TerminalStarts DEF Start
<1>2. TerminalInv /\ [SizeStep \/ ElementStep]_TerminalVars => TerminalInv'
  <2>1. [SizeStep \/ ElementStep]_TerminalVars => [TerminalNext]_terminalVars
    BY Zenon DEF SizeStep, ElementStep, TerminalVars, terminalVars
  <2> QED BY <2>1, TerminalStep
<1> QED BY <1>1, <1>2, PTL DEF TerminalSpec

\* SourceFollowed: as long as connections do not overlap, the screen shows the
\* source connected last, its chunks in order and without holes, and each key
\* goes to it once, for any sources and any number of connections and chunks.
THEOREM ElementFollows == TerminalSpec => []SourceFollowed
<1>1. TerminalInv => SourceFollowed
  <2> SUFFICES ASSUME Good PROVE ScreenFollows /\ KeysFollow
    BY DEF TerminalInv, SourceFollowed
  <2>1. Shapes
    BY DEF Good
  <2>2. ASSUME NEW i \in DOMAIN screen, Once(screen[i].src), NEW n \in 1..screen[i].n
        PROVE  \E k \in 1..i : screen[k].src = screen[i].src /\ screen[k].n = n
    <3>1. Sole(screen[i].src)
      BY <2>1, <2>2, SoleOnce
    <3>2. screen \in Seq(Chunks)
      BY <2>1 DEF Shapes
    <3>4. screen[i] \in Chunks
      BY <3>2
    <3>3. screen[i].src \in Sources
      BY <3>4 DEF Chunks
    <3> QED BY <2>2, <3>1, <3>3 DEF Good, NoHoles, ShownBy
  <2>3. ScreenFollows
    BY <2>2 DEF Good, ChunksInOrder, ScreenFollows
  <2>4. KeysFollow
    BY DEF Good, KeysInOrder, KeysFollow
  <2> QED BY <2>3, <2>4
<1> QED BY TerminalAlways, <1>1, PTL
==============================================================================
