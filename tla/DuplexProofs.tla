---------------------------- MODULE DuplexProofs ----------------------------
EXTENDS Duplex, Functions, FiniteSetTheorems, WellFoundedInduction, SequenceTheorems, TLAPS

(***************************************************************************)
(* CreditKept holds of every number of calls, every frame size and every   *)
(* window: the credit a writer holds, the bytes and the credit under way,  *)
(* and what the reader has not taken yet make one window.                  *)
(*                                                                         *)
(* By itself CreditKept is not inductive.  It needs to know that two       *)
(* channels that name each other balance (Pairs), that every message on    *)
(* the wire is about channels in the state it was sent in (Tells), that no *)
(* message overtakes the one that makes sense of it (Ordered), and that a  *)
(* channel is never named twice (Apiece).  The invariant is stated of any  *)
(* messages w, channels ch, numbers sz of channels and closed ends cl, not *)
(* of the variables alone, because a step of the code is several of the    *)
(* proof: a message is taken, then the channel acts; a session is closed   *)
(* channel by channel.                                                     *)
(***************************************************************************)

\* The states of a channel, of whatever role.
CallerPc == {"opening", "w sel", "w arg", "r hdr", "r val", "r more",
             "close", "closing", "closed", "done"}
ResponderPc == {"r sel", "dispatch", "r arg", "handler", "thrown", "w hdr", "w val",
                "w more", "eof", "close", "closing", "closed", "done"}
Answer == {"none", "value", "error", "continue", "throw", "not found"}
Channel == [st : {"in", "out"}, role : {"caller", "responder"}, k : Calls,
            pc : CallerPc \cup ResponderPc, rid : Ids \cup {0},
            rwin : Nat, maxp : {0, Packet}, mwin : Nat,
            sentEof : BOOLEAN, sentClose : BOOLEAN,
            buf : Seq(Nat), end : {"open", "eof", "gone"},
            ready : {"empty", "true", "false", "closed"},
            todo : Nat, parked : BOOLEAN, need : Nat, answer : Answer,
            how : {"none", "value", "null", "error", "rejected", "ran", "no args", "no handler"},
            sent : Nat, got : Seq(Nat), null : BOOLEAN]

\* What is true of a channel by itself.  It grants again what was taken from
\* its buffer, and all of it until it sends Close.
Sound(c) ==
    /\ c \in Channel
    /\ c.rwin <= Window /\ c.mwin + Len(c.buf) <= Window
    /\ c.st = "in" /\ ~c.sentClose => c.mwin + Len(c.buf) = Window
    /\ c.parked => c.pc \in Writing
    /\ c.role = "caller" => c.pc \in CallerPc
    /\ c.role = "responder" => c.pc \in ResponderPc /\ c.rid # 0
    /\ c.role = "caller" /\ c.pc \in {"r more", "close", "closing", "closed"} =>
         c.how \in Results
    /\ c.role = "caller" /\ c.rid = 0 =>
         /\ c.rwin = 0 /\ c.mwin = Window /\ c.buf = <<>>
         /\ c.pc \in {"opening", "done"} /\ c.ready # "true"
         /\ ~c.sentEof /\ ~c.sentClose
         /\ c.st = "in" => c.end = "open"

\* A responder whose caller has not heard of it has done nothing yet.
Untouched(c) ==
    /\ c.rwin = Window /\ c.mwin = Window /\ c.buf = <<>>
    /\ c.pc \in {"r sel", "thrown"} /\ ~c.sentEof /\ ~c.sentClose
    /\ c.st = "in" => c.end = "open"

\* A number in use; a channel still in its table; the channel it names at
\* the other end; two channels that name each other.
Used(sz, e, i) == i \in 1..sz[e]
On(ch, e, i) == ch[e][i].st = "in"
Peer(ch, e, i) == ch[Other(e)][ch[e][i].rid]
Linked(ch, sz, e, i) == Used(sz, e, i) /\ ch[e][i].rid # 0 /\ Peer(ch, e, i).rid # 0

\* The bytes (data) or the credit (adjust) under way to a channel, as
\* CreditKept counts them.
Units(w, i, id) ==
    LET n[j \in 0..Len(w)] ==
            IF j = 0 THEN 0
            ELSE n[j - 1] + (IF w[j].id = id /\ w[j].to = i
                             THEN IF id = "data" THEN Len(w[j].x) ELSE w[j].x ELSE 0) IN
    n[Len(w)]

\* A channel and the one it names: they name each other and serve one call,
\* and what the one may send, what is coming and what is granted is never more
\* than what the other expects, and just that while both are in use.  After an
\* end of the stream nothing comes any more.
Pairs(w, ch, sz, e, i) ==
    LET c == ch[e][i] IN
    c.rid # 0 =>
      LET p == Peer(ch, e, i) f == Other(e) IN
      /\ Used(sz, f, c.rid)
      /\ p.role # c.role /\ p.k = c.k /\ p.rid \in {0, i}
      /\ p.rid = 0 => Untouched(c)
      /\ c.rwin + Units(w[e], i, "adjust") <= Window
      /\ On(ch, e, i) /\ p.rid # 0 =>
           /\ p.rwin + Units(w[e], i, "data") + Units(w[f], c.rid, "adjust") <= c.mwin
           /\ ~c.sentClose /\ p.st = "in" =>
                p.rwin + Units(w[e], i, "data") + Units(w[f], c.rid, "adjust") = c.mwin
           /\ ~c.sentClose /\ c.end # "open" =>
                /\ p.sentEof
                /\ \A m \in Range(w[e]) : m.id = "data" => m.to # i

\* What a message on its way to end e tells of the channels of both ends.
Tells(w, ch, sz, e, m) ==
    LET f == Other(e) IN
    /\ m.id = "open" =>
         /\ Used(sz, f, m.from) /\ ch[f][m.from].role = "caller" /\ ch[f][m.from].rid = 0
         /\ \A j \in Ids : Used(sz, e, j) => ch[e][j].rid # m.from
         /\ \A x \in Range(w[f]) : x.id # "open" => x.to # m.from
    /\ m.id \in {"confirm", "failure"} =>
         Used(sz, e, m.to) /\ ch[e][m.to].role = "caller" /\ ch[e][m.to].rid = 0
    /\ m.id = "confirm" =>
         Used(sz, f, m.from) /\ ch[f][m.from].rid = m.to
    /\ m.id = "failure" =>
         \A j \in Ids : Used(sz, f, j) => ch[f][j].rid # m.to
    /\ m.id \in {"data", "adjust", "eof", "close"} => Linked(ch, sz, e, m.to)
    /\ m.id = "eof" => Peer(ch, e, m.to).sentEof

\* A call is opened once and answered once; no data comes after its eof.
Apart(m, n) ==
    /\ m.id = "open" /\ n.id = "open" => m.from # n.from
    /\ m.id \in {"confirm", "failure"} /\ n.id \in {"confirm", "failure"} => m.to # n.to
    /\ m.id = "eof" /\ n.id = "data" => m.to # n.to

\* What is on the wire is apart, pairwise.
Ordered(w) == \A p, q \in DOMAIN w : p < q => Apart(w[p], w[q])

\* Everything has its type, and a closed session holds nothing.
Typed(w, ch, sz, cl) ==
    /\ w \in [Ends -> Seq(Messages)] /\ sz \in [Ends -> 0..Cardinality(Calls)]
    /\ ch \in [Ends -> [Ids -> Channel \cup {None}]]
    /\ \A e \in Ends, i \in Ids :
         IF Used(sz, e, i) THEN Sound(ch[e][i]) ELSE ch[e][i] = None
    /\ cl \in [Ends -> BOOLEAN]
    /\ \A e \in Ends : cl[e] => w[e] = <<>> /\ \A i \in Ids : ~On(ch, e, i)

\* A call has one channel at an end, and a channel one peer.
Apiece(ch, sz) ==
    \A e \in Ends, i, j \in Ids :
      Used(sz, e, i) /\ Used(sz, e, j) =>
        /\ ch[e][i].role = "caller" <=> Caller[ch[e][i].k] = e
        /\ i # j => ch[e][i].k # ch[e][j].k
        /\ i # j /\ ch[e][i].rid # 0 => ch[e][i].rid # ch[e][j].rid

\* The invariant of messages, channels, numbers and closed ends.
Good(w, ch, sz, cl) ==
    /\ Typed(w, ch, sz, cl)
    /\ Apiece(ch, sz)
    /\ \A e \in Ends, i \in Ids : Used(sz, e, i) => Pairs(w, ch, sz, e, i)
    /\ \A e \in Ends : \A m \in Range(w[e]) : Tells(w, ch, sz, e, m)
    /\ \A e \in Ends : Ordered(w[e])

\* A channel that left without Close did so because it was refused or with
\* its session.
LeftClosing ==
    \A e \in Ends, i \in Ids :
      chan[e][i].st = "out" /\ ~chan[e][i].sentClose /\ chan[e][i].rid # 0 => closed[e]

\* The inductive invariant.
CreditInv ==
    /\ Good(wire, chan, size, closed) /\ LeftClosing
    /\ result \in [Calls -> Results]
    /\ \A e \in Ends, i \in Ids : Used(size, e, i) => result[chan[e][i].k] # "idle"
-----------------------------------------------------------------------------
(* The two ends *)

\* There are two ends, each the other of the other.
LEMMA TwoEnds ==
  ASSUME NEW e \in Ends
  PROVE /\ Other(e) \in Ends /\ Other(e) # e /\ Other(Other(e)) = e
        /\ \A f \in Ends : f = e \/ f = Other(e)
<1>1. ASSUME NEW d \in Ends PROVE \E x : Ends \ {d} = {x}
  <2>1. IsFiniteSet(Ends \ {d}) /\ Cardinality(Ends \ {d}) = 1
    <3>1. IsFiniteSet(Ends) /\ Cardinality(Ends) = 2
      BY DuplexSizes
    <3>2. /\ IsFiniteSet(Ends \ {d})
          /\ Cardinality(Ends \ {d}) = IF d \in Ends THEN Cardinality(Ends) - 1 ELSE Cardinality(Ends)
      BY <3>1, FS_RemoveElement
    <3> QED BY <3>1, <3>2
  <2> QED BY <2>1, FS_Singleton
<1>2. PICK f : Ends \ {e} = {f}
  BY <1>1
<1>3. f \in Ends /\ f # e
  BY <1>2
<1>4. Other(e) = f
  BY <1>2, <1>3 DEF Other
<1>5. Other(f) = e
  BY <1>2, <1>3 DEF Other
<1> QED BY <1>2, <1>3, <1>4, <1>5

-----------------------------------------------------------------------------
(* What is on the way, counted *)

\* Induction over the numbers, of a set: its least missing number would
\* have a predecessor in it.
LEMMA Induction ==
  ASSUME NEW S, 0 \in S, \A n \in Nat : n \in S => n + 1 \in S
  PROVE Nat \subseteq S
<1> DEFINE less == StrictSubsetOrdering(Nat)
           ends == {0 .. n : n \in Nat \ S}
<1>1. IsWellFoundedOn(less, FiniteSubsetsOf(Nat))
  BY FS_StrictSubsetOrderingWellFounded
<1>2. SUFFICES ASSUME ends # {} PROVE FALSE
  OBVIOUS
<1>3. ends \subseteq FiniteSubsetsOf(Nat)
  <2>1. ASSUME NEW n \in Nat PROVE 0 .. n \in FiniteSubsetsOf(Nat)
    <3>1. IsFiniteSet(0 .. n)
      BY FS_Interval
    <3> QED BY <3>1 DEF FiniteSubsetsOf
  <2> QED BY <2>1
<1>4. PICK X \in ends : \A Y \in ends : ~ (<<Y, X>> \in less)
  <2> HIDE DEF less, ends
  <2> QED BY <1>1, <1>2, <1>3, WFMin
<1>5. PICK x \in Nat \ S : X = 0 .. x
  OBVIOUS
<1>6. x - 1 \in Nat \ S /\ x \in X /\ x \notin 0 .. x - 1 /\ 0 .. x - 1 \subseteq X
  <2>1. x # 0 /\ x \in Nat
    BY <1>5
  <2>2. x - 1 \in Nat /\ (x - 1) + 1 = x
    BY <2>1
  <2> QED BY <1>5, <2>1, <2>2
<1>7. <<0 .. x - 1, X>> \in less
  <2>1. 0 .. x - 1 \in SUBSET Nat /\ X \in SUBSET Nat /\ 0 .. x - 1 # X
    BY <1>5, <1>6
  <2> QED BY <1>6, <2>1 DEF StrictSubsetOrdering
<1> QED BY <1>4, <1>6, <1>7

\* What one message counts.
Weight(m, i, id) == IF m.id = id /\ m.to = i
                    THEN IF id = "data" THEN Len(m.x) ELSE m.x ELSE 0

\* f[j] is what the first j messages of w count, for j up to n.
Counts(f, n, w, i, id) ==
    f = [j \in 0..n |->
            IF j = 0 THEN 0
            ELSE f[j - 1] + (IF w[j].id = id /\ w[j].to = i
                             THEN IF id = "data" THEN Len(w[j].x) ELSE w[j].x ELSE 0)]

\* A running count, step by step.
LEMMA CountsNext ==
  ASSUME NEW f, NEW n \in Nat, NEW w, NEW i, NEW id, Counts(f, n, w, i, id)
  PROVE /\ f[0] = 0
        /\ \A j \in 1..n : f[j] = f[j - 1] + Weight(w[j], i, id)
<1>1. ASSUME NEW j \in 0..n
      PROVE f[j] = IF j = 0 THEN 0 ELSE f[j - 1] + Weight(w[j], i, id)
  BY DEF Counts, Weight
<1> QED BY <1>1

\* Every sequence has its running count.
LEMMA CountsExist ==
  ASSUME NEW w, NEW i, NEW id
  PROVE \A n \in Nat : \E f : Counts(f, n, w, i, id)
<1> DEFINE S == {n \in Nat : \E f : Counts(f, n, w, i, id)}
<1>1. 0 \in S
  <2>1. Counts([j \in 0 .. 0 |-> 0], 0, w, i, id)
    BY DEF Counts
  <2> QED BY <2>1
<1>2. ASSUME NEW n \in Nat, n \in S PROVE n + 1 \in S
  <2>1. PICK f : Counts(f, n, w, i, id)
    BY <1>2
  <2> DEFINE g == [j \in 0 .. n + 1 |-> IF j = n + 1 THEN f[n] + Weight(w[n + 1], i, id) ELSE f[j]]
  <2>2. ASSUME NEW j \in 0 .. n + 1
        PROVE g[j] = IF j = 0 THEN 0 ELSE g[j - 1] + Weight(w[j], i, id)
    <3>1. CASE j = n + 1
      <4>1. g[j] = f[n] + Weight(w[n + 1], i, id) /\ j # 0 /\ j - 1 = n /\ g[n] = f[n]
        BY <3>1
      <4> QED BY <4>1, <3>1
    <3>2. CASE j # n + 1
      <4>1. j \in 0 .. n /\ g[j] = f[j]
        BY <3>2
      <4>2. j # 0 => j \in 1 .. n /\ j - 1 \in 0 .. n + 1 /\ j - 1 # n + 1 /\ g[j - 1] = f[j - 1]
        BY <4>1
      <4>3. f[j] = IF j = 0 THEN 0 ELSE f[j - 1] + Weight(w[j], i, id)
        BY <2>1, <4>1, <4>2, CountsNext
      <4> HIDE DEF g
      <4> QED BY <4>1, <4>2, <4>3
    <3> QED BY <3>1, <3>2
  <2>3. Counts(g, n + 1, w, i, id)
    <3>1. g = [j \in 0 .. n + 1 |-> g[j]]
      OBVIOUS
    <3> HIDE DEF g
    <3> QED BY <2>2, <3>1 DEF Counts, Weight
  <2> QED BY <2>3
<1>3. Nat \subseteq S
  <2> HIDE DEF S
  <2> QED BY <1>1, <1>2, Induction
<1> QED BY <1>3

\* Units is the last of a running count.
LEMMA UnitsCount ==
  ASSUME NEW w, Len(w) \in Nat, NEW i, NEW id
  PROVE \E f : Counts(f, Len(w), w, i, id) /\ Units(w, i, id) = f[Len(w)]
<1> DEFINE some == CHOOSE f : Counts(f, Len(w), w, i, id)
<1>1. Units(w, i, id) = some[Len(w)]
  BY DEF Units, Counts
<1>2. Counts(some, Len(w), w, i, id)
  <2>1. \E f : Counts(f, Len(w), w, i, id)
    BY CountsExist
  <2> QED BY <2>1
<1> QED BY <1>1, <1>2

\* A message weighs a number of bytes.
LEMMA WeightType ==
  ASSUME NEW m \in Messages, NEW i, NEW id \in {"data", "adjust"}
  PROVE Weight(m, i, id) \in Nat
BY DEF Weight, Messages

\* Messages that do not count leave the sum as it is.
LEMMA UnitsType ==
  ASSUME NEW w \in Seq(Messages), NEW i, NEW id \in {"data", "adjust"}
  PROVE /\ Units(w, i, id) \in Nat
        /\ (\A m \in Range(w) : m.id = id => m.to # i) => Units(w, i, id) = 0
<1>1. PICK n \in Nat : n = Len(w)
  OBVIOUS
<1>2. PICK f : Counts(f, n, w, i, id) /\ Units(w, i, id) = f[n]
  BY <1>1, UnitsCount
<1> DEFINE none == \A m \in Range(w) : m.id = id => m.to # i
           S == {j \in Nat : j <= n => f[j] \in Nat /\ (none => f[j] = 0)}
<1>3. 0 \in S
  BY <1>2, CountsNext
<1>4. ASSUME NEW j \in Nat, j \in S PROVE j + 1 \in S
  <2>1. SUFFICES ASSUME j + 1 <= n PROVE f[j + 1] \in Nat /\ (none => f[j + 1] = 0)
    OBVIOUS
  <2>2. j + 1 \in 1..n /\ (j + 1) - 1 = j /\ j <= n
    BY <2>1
  <2>3. f[j + 1] = f[j] + Weight(w[j + 1], i, id)
    BY <1>2, <2>2, CountsNext
  <2>4. f[j] \in Nat /\ (none => f[j] = 0)
    BY <1>4, <2>2
  <2>5. w[j + 1] \in Messages /\ w[j + 1] \in Range(w)
    BY <1>1, <2>2 DEF Range
  <2>6. Weight(w[j + 1], i, id) \in Nat
    BY <2>5, WeightType
  <2>7. none => Weight(w[j + 1], i, id) = 0
    BY <2>5 DEF Weight
  <2> HIDE DEF none
  <2> QED BY <2>3, <2>4, <2>6, <2>7
<1>5. Nat \subseteq S
  <2> HIDE DEF S
  <2> QED BY <1>3, <1>4, Induction
<1> QED BY <1>2, <1>5

\* Sending a message adds its weight to what is under way.
LEMMA UnitsAppend ==
  ASSUME NEW w \in Seq(Messages), NEW m \in Messages, NEW i, NEW id \in {"data", "adjust"}
  PROVE Units(w \o <<m>>, i, id) = Units(w, i, id) + Weight(m, i, id)
<1> DEFINE v == w \o <<m>>
<1>1. PICK n \in Nat : n = Len(w)
  OBVIOUS
<1>2. Len(v) = n + 1 /\ v[n + 1] = m /\ \A j \in 1..n : v[j] = w[j]
  BY <1>1
<1>3. PICK f : Counts(f, n, w, i, id) /\ Units(w, i, id) = f[n]
  BY <1>1, UnitsCount
<1> HIDE DEF v
<1>4. PICK g : Counts(g, n + 1, v, i, id) /\ Units(v, i, id) = g[n + 1]
  BY <1>1, <1>2, UnitsCount
<1> DEFINE S == {j \in Nat : j <= n => f[j] = g[j]}
<1>5. 0 \in S
  BY <1>3, <1>4, CountsNext
<1>6. ASSUME NEW j \in Nat, j \in S PROVE j + 1 \in S
  <2>1. SUFFICES ASSUME j + 1 <= n PROVE f[j + 1] = g[j + 1]
    OBVIOUS
  <2>2. j + 1 \in 1..n /\ j + 1 \in 1..n + 1 /\ (j + 1) - 1 = j /\ f[j] = g[j]
    BY <2>1, <1>6
  <2>3. f[j + 1] = f[j] + Weight(w[j + 1], i, id)
    BY <1>3, <2>2, CountsNext
  <2>4. g[j + 1] = g[j] + Weight(v[j + 1], i, id)
    BY <1>4, <2>2, CountsNext
  <2> QED BY <1>2, <2>2, <2>3, <2>4
<1>7. Nat \subseteq S
  <2> HIDE DEF S
  <2> QED BY <1>5, <1>6, Induction
<1>8. g[n + 1] = g[n] + Weight(v[n + 1], i, id)
  <2>1. n + 1 \in 1..n + 1 /\ (n + 1) - 1 = n
    OBVIOUS
  <2> QED BY <1>4, <2>1, CountsNext
<1>9. f[n] = g[n]
  BY <1>7
<1> QED BY <1>2, <1>3, <1>4, <1>8, <1>9 DEF v

\* Taking a message takes its weight off what is under way.
LEMMA UnitsTail ==
  ASSUME NEW w \in Seq(Messages), w # <<>>, NEW i, NEW id \in {"data", "adjust"}
  PROVE Units(w, i, id) = Weight(Head(w), i, id) + Units(Tail(w), i, id)
<1> DEFINE v == Tail(w)
           h == Weight(Head(w), i, id)
<1>1. PICK n \in Nat : n + 1 = Len(w)
  <2>1. Len(w) \in Nat \ {0} /\ Len(w) - 1 \in Nat
    OBVIOUS
  <2> QED BY <2>1
<1>2. v \in Seq(Messages) /\ Len(v) = n /\ \A j \in 1..n : v[j] = w[j + 1]
  BY <1>1
<1>3. Head(w) = w[1] /\ h \in Nat
  <2>1. Head(w) \in Messages /\ Head(w) = w[1]
    OBVIOUS
  <2> QED BY <2>1, WeightType
<1> HIDE DEF v
<1>4. PICK f : Counts(f, n + 1, w, i, id) /\ Units(w, i, id) = f[n + 1]
  BY <1>1, UnitsCount
<1>5. PICK g : Counts(g, n, v, i, id) /\ Units(v, i, id) = g[n]
  BY <1>2, UnitsCount
<1> DEFINE S == {j \in Nat : j <= n => g[j] \in Nat /\ f[j + 1] = h + g[j]}
<1>6. 0 \in S
  <2>1. 1 \in 1..n + 1 /\ 1 - 1 = 0
    OBVIOUS
  <2>2. f[1] = f[0] + Weight(w[1], i, id) /\ f[0] = 0 /\ g[0] = 0
    BY <1>4, <1>5, <2>1, CountsNext
  <2> HIDE DEF h
  <2>3. Weight(w[1], i, id) = h
    BY <1>3 DEF h
  <2> QED BY <1>3, <2>2, <2>3
<1>7. ASSUME NEW j \in Nat, j \in S PROVE j + 1 \in S
  <2> DEFINE x == Weight(v[j + 1], i, id)
  <2>1. SUFFICES ASSUME j + 1 <= n
                 PROVE g[j + 1] \in Nat /\ f[(j + 1) + 1] = h + g[j + 1]
    OBVIOUS
  <2>2. /\ j + 1 \in 1..n /\ (j + 1) + 1 \in 1..n + 1 /\ j <= n
        /\ (j + 1) - 1 = j /\ ((j + 1) + 1) - 1 = j + 1
    BY <2>1
  <2>3. f[(j + 1) + 1] = f[j + 1] + Weight(w[(j + 1) + 1], i, id)
    BY <1>4, <2>2, CountsNext
  <2>4. g[j + 1] = g[j] + x
    BY <1>5, <2>2, CountsNext
  <2>5. w[(j + 1) + 1] = v[j + 1] /\ v[j + 1] \in Messages
    BY <1>2, <2>2
  <2>6. x \in Nat
    BY <2>5, WeightType
  <2>7. g[j] \in Nat /\ f[j + 1] = h + g[j]
    BY <1>7, <2>2
  <2>8. f[(j + 1) + 1] = (h + g[j]) + x
    BY <2>3, <2>5, <2>7
  <2> HIDE DEF x, h
  <2> QED BY <1>3, <2>4, <2>6, <2>7, <2>8
<1>8. Nat \subseteq S
  <2> HIDE DEF S
  <2> QED BY <1>6, <1>7, Induction
<1>9. f[n + 1] = h + g[n]
  BY <1>8
<1> QED BY <1>4, <1>5, <1>9 DEF v

-----------------------------------------------------------------------------
(* Messages taken and posted *)

\* What is left of the messages when the first is taken.
LEMMA TailWire ==
  ASSUME NEW w \in Seq(Messages), w # <<>>
  PROVE /\ Head(w) \in Messages /\ Tail(w) \in Seq(Messages)
        /\ Range(w) = {Head(w)} \cup Range(Tail(w))
        /\ Ordered(w) => Ordered(Tail(w)) /\ \A m \in Range(Tail(w)) : Apart(Head(w), m)
<1> DEFINE v == Tail(w)
<1>1. PICK n \in Nat : n + 1 = Len(w)
  <2>1. Len(w) \in Nat \ {0} /\ Len(w) - 1 \in Nat
    OBVIOUS
  <2> QED BY <2>1
<1>2. v \in Seq(Messages) /\ Len(v) = n /\ \A j \in 1..n : v[j] = w[j + 1]
  BY <1>1
<1>3. Head(w) = w[1] /\ w[1] \in Messages /\ DOMAIN w = 1..n + 1 /\ 1 \in 1..n + 1
  BY <1>1
<1>4. DOMAIN v = 1..n
  BY <1>2
<1> HIDE DEF v
<1>5. Range(w) = {Head(w)} \cup Range(v)
  <2>1. ASSUME NEW j \in 1..n + 1 PROVE w[j] = w[1] \/ \E l \in 1..n : w[j] = v[l]
    <3>1. CASE j # 1
      <4>1. j - 1 \in 1..n /\ (j - 1) + 1 = j
        BY <3>1
      <4> QED BY <4>1, <1>2
    <3> QED BY <3>1
  <2>2. ASSUME NEW j \in 1..n PROVE \E l \in 1..n + 1 : v[j] = w[l]
    <3>1. j + 1 \in 1..n + 1
      OBVIOUS
    <3> QED BY <3>1, <1>2
  <2>3. Range(w) \subseteq {Head(w)} \cup Range(v)
    BY <1>3, <1>4, <2>1 DEF Range
  <2>4. {Head(w)} \cup Range(v) \subseteq Range(w)
    BY <1>3, <1>4, <2>2 DEF Range
  <2> QED BY <2>3, <2>4
<1>6. ASSUME Ordered(w) PROVE Ordered(v) /\ \A m \in Range(v) : Apart(Head(w), m)
  <2>1. ASSUME NEW p \in 1..n, NEW q \in 1..n, p < q PROVE Apart(v[p], v[q])
    <3>1. p + 1 \in DOMAIN w /\ q + 1 \in DOMAIN w /\ p + 1 < q + 1
      BY <1>3, <2>1
    <3>2. Apart(w[p + 1], w[q + 1])
      BY <1>6, <3>1, Zenon DEF Ordered
    <3> QED BY <1>2, <3>2
  <2>2. ASSUME NEW q \in 1..n PROVE Apart(w[1], v[q])
    <3>1. 1 \in DOMAIN w /\ q + 1 \in DOMAIN w /\ 1 < q + 1
      BY <1>3
    <3>2. Apart(w[1], w[q + 1])
      BY <1>6, <3>1, Zenon DEF Ordered
    <3> QED BY <1>2, <3>2
  <2>3. Ordered(v)
    BY <1>4, <2>1 DEF Ordered
  <2>4. \A m \in Range(v) : Apart(Head(w), m)
    BY <1>3, <1>4, <2>2 DEF Range
  <2> QED BY <2>3, <2>4
<1> QED BY <1>2, <1>3, <1>5, <1>6 DEF v

\* What a message sent makes of the messages.
LEMMA AppendWire ==
  ASSUME NEW w \in Seq(Messages), NEW m \in Messages
  PROVE /\ w \o <<m>> \in Seq(Messages)
        /\ Range(w \o <<m>>) = Range(w) \cup {m}
        /\ Ordered(w) /\ (\A x \in Range(w) : Apart(x, m)) => Ordered(w \o <<m>>)
<1> DEFINE v == w \o <<m>>
<1>1. PICK n \in Nat : n = Len(w)
  OBVIOUS
<1>2. v \in Seq(Messages) /\ DOMAIN v = 1..n + 1 /\ v[n + 1] = m /\ \A j \in 1..n : v[j] = w[j]
  BY <1>1
<1>3. DOMAIN w = 1..n
  BY <1>1
<1> HIDE DEF v
<1>4. Range(v) = Range(w) \cup {m}
  <2>1. ASSUME NEW j \in 1..n + 1 PROVE v[j] = m \/ j \in 1..n
    BY <1>2
  <2>2. ASSUME NEW j \in 1..n PROVE j \in 1..n + 1
    OBVIOUS
  <2>3. n + 1 \in 1..n + 1
    OBVIOUS
  <2>4. Range(v) \subseteq Range(w) \cup {m}
    BY <1>2, <1>3, <2>1 DEF Range
  <2>5. Range(w) \cup {m} \subseteq Range(v)
    BY <1>2, <1>3, <2>2, <2>3 DEF Range
  <2> QED BY <2>4, <2>5
<1>5. ASSUME Ordered(w), \A x \in Range(w) : Apart(x, m) PROVE Ordered(v)
  <2>1. SUFFICES ASSUME NEW p \in 1..n + 1, NEW q \in 1..n + 1, p < q PROVE Apart(v[p], v[q])
    BY <1>2 DEF Ordered
  <2>2. p \in 1..n /\ v[p] = w[p] /\ w[p] \in Range(w)
    <3>1. p \in 1..n
      BY <2>1
    <3> QED BY <3>1, <1>2, <1>3 DEF Range
  <2>3. CASE q = n + 1
    BY <1>2, <1>5, <2>2, <2>3
  <2>4. CASE q # n + 1
    <3>1. q \in 1..n
      BY <2>4
    <3>2. Apart(w[p], w[q])
      BY <1>3, <1>5, <2>1, <2>2, <3>1, Zenon DEF Ordered
    <3> QED BY <1>2, <2>2, <3>1, <3>2
  <2> QED BY <2>3, <2>4
<1> QED BY <1>2, <1>4, <1>5 DEF v

-----------------------------------------------------------------------------
(* A channel acts *)

\* What any step of a user, and the answer to any message, may do to a channel.
Move(c, d, out) ==
    /\ Sound(d) /\ d.role = c.role /\ d.k = c.k /\ d.rid = c.rid
    /\ d.st \in {c.st, "out"}
    /\ c.sentEof => d.sentEof
    /\ c.sentClose => d.sentClose
    /\ d.st = "in" /\ ~d.sentClose /\ d.end # "open" => c.end # "open"
    /\ \/ /\ out = <<>>
          /\ d.rwin = c.rwin /\ d.mwin >= c.mwin
          /\ d.st = "in" /\ ~d.sentClose => d.mwin = c.mwin
       \/ \E m \in Messages :
            /\ out = <<m>> /\ m.to = c.rid /\ ~c.sentClose
            /\ \/ m.id = "data" /\ ~c.sentEof
                  /\ c.rwin = d.rwin + Len(m.x) /\ d.mwin = c.mwin
               \/ m.id = "adjust" /\ c.st = "in" /\ d.rwin = c.rwin /\ d.mwin = c.mwin + m.x
               \/ m.id = "eof" /\ d.sentEof /\ d.rwin = c.rwin /\ d.mwin = c.mwin
               \/ m.id = "close" /\ d.rwin = c.rwin /\ d.mwin = c.mwin

\* The messages after an end sends out: none once a session is closed.
After(w, cl, e, out) ==
    IF cl[e] \/ cl[Other(e)] THEN w ELSE [w EXCEPT ![Other(e)] = @ \o out]

\* A channel acts: it becomes d and sends out.
Acts(w, ch, sz, cl, e, i, d, out) ==
    /\ Good(w, ch, sz, cl) /\ Used(sz, e, i)
    /\ Move(ch[e][i], d, out)
    /\ ch[e][i].rid # 0 /\ Peer(ch, e, i).rid = 0 => Untouched(d) /\ out = <<>>

\* What a sound channel is made of.
LEMMA SoundType ==
  ASSUME NEW c, Sound(c)
  PROVE /\ c \in Channel
        /\ c.rwin \in 0..Window /\ c.mwin \in 0..Window /\ Len(c.buf) \in Nat
        /\ c.rid \in Ids \cup {0} /\ c.k \in Calls
        /\ c.role \in {"caller", "responder"} /\ c.st \in {"in", "out"}
        /\ c.sentEof \in BOOLEAN /\ c.sentClose \in BOOLEAN
        /\ c.buf \in Seq(Nat)
<1>1. c \in Channel
  BY DEF Sound
<1>2. /\ c.rwin \in Nat /\ c.mwin \in Nat /\ c.buf \in Seq(Nat)
      /\ c.rid \in Ids \cup {0} /\ c.k \in Calls
      /\ c.role \in {"caller", "responder"} /\ c.st \in {"in", "out"}
      /\ c.sentEof \in BOOLEAN /\ c.sentClose \in BOOLEAN
  BY <1>1 DEF Channel
<1>3. Len(c.buf) \in Nat
  BY <1>2
<1>4. c.rwin <= Window /\ c.mwin + Len(c.buf) <= Window
  BY DEF Sound
<1>5. Window \in Nat
  BY DuplexSizes
<1> QED BY <1>1, <1>2, <1>3, <1>4, <1>5

\* The numbers of channels are 1 to the number of calls.
LEMMA Size == Cardinality(Calls) \in Nat /\ Ids = 1..Cardinality(Calls) /\ 0 \notin Ids
<1>1. Cardinality(Calls) \in Nat
  BY DuplexSizes, FS_CardinalityType
<1> QED BY <1>1 DEF Ids

\* What is used is a sound channel, and only indices of channels are used.
LEMMA UsedSound ==
  ASSUME NEW w, NEW ch, NEW sz, NEW cl, Typed(w, ch, sz, cl), NEW e \in Ends, NEW i,
         Used(sz, e, i)
  PROVE i \in Ids /\ Sound(ch[e][i])
<1>1. sz[e] \in 0..Cardinality(Calls)
  BY DEF Typed
<1>2. i \in Ids
  BY <1>1, Size DEF Used
<1> QED BY <1>2, Zenon DEF Typed

\* The messages once a channel has acted.
Posted(w, v, ch, cl, e, i, out) ==
    /\ v \in [Ends -> Seq(Messages)]
    /\ v[e] = w[e]
    /\ \/ v = w /\ (out = <<>> \/ cl[e] \/ cl[Other(e)])
       \/ /\ ch[e][i].rid # 0 /\ Peer(ch, e, i).rid # 0 /\ ~cl[e] /\ ~cl[Other(e)]
          /\ \E m \in Messages :
               /\ out = <<m>> /\ m.to = ch[e][i].rid
               /\ v[Other(e)] = w[Other(e)] \o <<m>>

\* A channel that acts posts what it sends to the other end.
LEMMA ActWire ==
  ASSUME NEW w, NEW ch, NEW sz, NEW cl, NEW e \in Ends, NEW i, NEW d, NEW out,
         Acts(w, ch, sz, cl, e, i, d, out)
  PROVE Posted(w, After(w, cl, e, out), ch, cl, e, i, out)
<1> DEFINE v == After(w, cl, e, out)
           c == ch[e][i]
           f == Other(e)
<1>1. f \in Ends /\ f # e
  BY TwoEnds
<1>2. Typed(w, ch, sz, cl) /\ Used(sz, e, i) /\ Move(c, d, out)
  BY DEF Acts, Good
<1>3. w \in [Ends -> Seq(Messages)]
  BY <1>2 DEF Typed
<1>4. CASE cl[e] \/ cl[f]
  <2>1. v = w
    BY <1>4 DEF After
  <2> QED BY <1>3, <1>4, <2>1 DEF Posted
<1>5. CASE ~(cl[e] \/ cl[f]) /\ out = <<>>
  <2>1. w[f] \in Seq(Messages)
    BY <1>1, <1>3
  <2>2. w[f] \o <<>> = w[f]
    BY <2>1
  <2>3. v = [w EXCEPT ![f] = w[f] \o <<>>]
    BY <1>5 DEF After
  <2>4. v = w
    BY <1>1, <1>3, <2>2, <2>3
  <2> QED BY <1>3, <1>5, <2>4 DEF Posted
<1>6. CASE ~(cl[e] \/ cl[f]) /\ out # <<>>
  <2>1. PICK m \in Messages : out = <<m>> /\ m.to = c.rid /\ m.id \in {"data", "adjust", "eof", "close"}
    BY <1>2, <1>6 DEF Move
  <2>2. v = [w EXCEPT ![f] = w[f] \o <<m>>]
    BY <1>6, <2>1 DEF After
  <2>3. w[f] \in Seq(Messages) /\ w[f] \o <<m>> \in Seq(Messages)
    BY <1>1, <1>3, <2>1, AppendWire
  <2>4. v \in [Ends -> Seq(Messages)] /\ v[e] = w[e] /\ v[f] = w[f] \o <<m>>
    BY <1>1, <1>3, <2>2, <2>3
  <2>5. m.to \in Ids
    BY <2>1 DEF Messages
  <2>6. c.rid # 0
    BY <2>1, <2>5, Size
  <2>7. Peer(ch, e, i).rid # 0
    BY <1>6, <2>6 DEF Acts
  <2> QED BY <1>6, <2>1, <2>4, <2>6, <2>7, Zenon DEF Posted
<1> QED BY <1>4, <1>5, <1>6

\* Types survive a channel that acts.
LEMMA ActTyped ==
  ASSUME NEW w, NEW ch, NEW sz, NEW cl, NEW e \in Ends, NEW i, NEW d, NEW out,
         Acts(w, ch, sz, cl, e, i, d, out)
  PROVE Typed(After(w, cl, e, out), [ch EXCEPT ![e][i] = d], sz, cl)
<1> DEFINE v == After(w, cl, e, out)
           c == ch[e][i]
           g == [ch EXCEPT ![e][i] = d]
<1>1. Typed(w, ch, sz, cl) /\ Used(sz, e, i) /\ Move(c, d, out)
  BY DEF Acts, Good
<1>2. i \in Ids /\ Sound(c) /\ Sound(d)
  BY <1>1, UsedSound DEF Move
<1>3. d \in Channel /\ ch \in [Ends -> [Ids -> Channel \cup {None}]]
  BY <1>1, <1>2, SoundType DEF Typed
<1>4. v \in [Ends -> Seq(Messages)]
  BY ActWire DEF Posted
<1>5. g \in [Ends -> [Ids -> Channel \cup {None}]]
  BY <1>2, <1>3
<1>6. g[e][i] = d /\ \A f \in Ends, j \in Ids : f # e \/ j # i => g[f][j] = ch[f][j]
  BY <1>2, <1>3
<1>7. ASSUME NEW f \in Ends, NEW j \in Ids
      PROVE IF Used(sz, f, j) THEN Sound(g[f][j]) ELSE g[f][j] = None
  <2>1. IF Used(sz, f, j) THEN Sound(ch[f][j]) ELSE ch[f][j] = None
    BY <1>1, Zenon DEF Typed
  <2> HIDE DEF g
  <2> QED BY <1>1, <1>2, <1>6, <2>1
<1>8. ASSUME NEW f \in Ends, cl[f]
      PROVE v[f] = <<>> /\ \A j \in Ids : ~On(g, f, j)
  <2>1. w[f] = <<>> /\ \A j \in Ids : ~On(ch, f, j)
    BY <1>1, <1>8, Zenon DEF Typed
  <2>2. v = w
    <3>1. f = e \/ f = Other(e)
      BY TwoEnds
    <3> QED BY <1>8, <3>1 DEF After
  <2>3. ASSUME NEW j \in Ids PROVE ~On(g, f, j)
    <3>1. CASE f = e /\ j = i
      <4>1. c.st # "in"
        BY <2>1, <3>1 DEF On
      <4>2. d.st # "in"
        BY <1>1, <4>1 DEF Move
      <4> HIDE DEF g
      <4> QED BY <1>6, <3>1, <4>2 DEF On
    <3>2. CASE ~(f = e /\ j = i)
      <4>1. g[f][j] = ch[f][j]
        BY <1>6, <3>2
      <4> QED BY <2>1, <4>1 DEF On
    <3> QED BY <3>1, <3>2
  <2> QED BY <2>1, <2>2, <2>3
<1> HIDE DEF v, g
<1>9. sz \in [Ends -> 0..Cardinality(Calls)] /\ cl \in [Ends -> BOOLEAN]
  BY <1>1 DEF Typed
<1>10. Typed(v, g, sz, cl)
  BY <1>4, <1>5, <1>7, <1>8, <1>9 DEF Typed
<1> QED BY <1>10 DEF v, g

\* One channel becomes d; nothing tells that from what channels name.
Becomes(ch, g, e, i, d) ==
    /\ g[e][i] = d
    /\ \A f \in Ends, j \in Ids :
         /\ f # e \/ j # i => g[f][j] = ch[f][j]
         /\ g[f][j].rid = ch[f][j].rid /\ g[f][j].role = ch[f][j].role
         /\ g[f][j].k = ch[f][j].k

\* A channel that acts stays the channel of its call.
LEMMA ActApiece ==
  ASSUME NEW w, NEW ch, NEW sz, NEW cl, NEW e \in Ends, NEW i, NEW d, NEW out,
         Acts(w, ch, sz, cl, e, i, d, out)
  PROVE /\ Apiece([ch EXCEPT ![e][i] = d], sz)
        /\ Becomes(ch, [ch EXCEPT ![e][i] = d], e, i, d)
<1> DEFINE c == ch[e][i]
           g == [ch EXCEPT ![e][i] = d]
<1>1. Typed(w, ch, sz, cl) /\ Used(sz, e, i) /\ Move(c, d, out) /\ Apiece(ch, sz)
  BY DEF Acts, Good
<1>2. i \in Ids /\ Sound(c) /\ Sound(d)
  BY <1>1, UsedSound DEF Move
<1>3. d \in Channel /\ ch \in [Ends -> [Ids -> Channel \cup {None}]]
  BY <1>1, <1>2, SoundType DEF Typed
<1>4. g[e][i] = d /\ \A f \in Ends, j \in Ids : f # e \/ j # i => g[f][j] = ch[f][j]
  BY <1>2, <1>3
<1>5. d.rid = c.rid /\ d.role = c.role /\ d.k = c.k
  BY <1>1 DEF Move
<1> HIDE DEF g
<1>6. ASSUME NEW f \in Ends, NEW j \in Ids
      PROVE /\ f # e \/ j # i => g[f][j] = ch[f][j]
            /\ g[f][j].rid = ch[f][j].rid /\ g[f][j].role = ch[f][j].role
            /\ g[f][j].k = ch[f][j].k
  BY <1>4, <1>5
<1>7. Apiece(g, sz)
  <2>1. SUFFICES ASSUME NEW f \in Ends, NEW j \in Ids, NEW l \in Ids, Used(sz, f, j), Used(sz, f, l)
                 PROVE /\ g[f][j].role = "caller" <=> Caller[g[f][j].k] = f
                       /\ j # l => g[f][j].k # g[f][l].k
                       /\ j # l /\ g[f][j].rid # 0 => g[f][j].rid # g[f][l].rid
    BY DEF Apiece
  <2>2. /\ ch[f][j].role = "caller" <=> Caller[ch[f][j].k] = f
        /\ j # l => ch[f][j].k # ch[f][l].k
        /\ j # l /\ ch[f][j].rid # 0 => ch[f][j].rid # ch[f][l].rid
    BY <1>1, <2>1 DEF Apiece
  <2>3. /\ g[f][j].rid = ch[f][j].rid /\ g[f][j].role = ch[f][j].role /\ g[f][j].k = ch[f][j].k
        /\ g[f][l].rid = ch[f][l].rid /\ g[f][l].k = ch[f][l].k
    BY <1>6
  <2> QED BY <2>2, <2>3
<1> QED BY <1>4, <1>6, <1>7 DEF g, Becomes

\* What a channel that acts sends may follow all that is on the wire.
LEMMA ActOrdered ==
  ASSUME NEW w, NEW ch, NEW sz, NEW cl, NEW e \in Ends, NEW i, NEW d, NEW out,
         Acts(w, ch, sz, cl, e, i, d, out)
  PROVE \A f \in Ends : Ordered(After(w, cl, e, out)[f])
<1> DEFINE v == After(w, cl, e, out)
           c == ch[e][i]
           o == Other(e)
<1>1. Good(w, ch, sz, cl) /\ Typed(w, ch, sz, cl) /\ Used(sz, e, i) /\ Move(c, d, out)
  BY DEF Acts, Good
<1>2. \A f \in Ends : Ordered(w[f])
  BY <1>1 DEF Good
<1>3. o \in Ends /\ o # e /\ Other(o) = e /\ \A f \in Ends : f = e \/ f = o
  BY TwoEnds
<1>4. Posted(w, v, ch, cl, e, i, out)
  BY ActWire
<1>5. CASE v = w
  BY <1>2, <1>5
<1>6. ASSUME NEW m \in Messages, out = <<m>>, m.to = c.rid, v[o] = w[o] \o <<m>>,
             c.rid # 0, Peer(ch, e, i).rid # 0
      PROVE Ordered(v[o])
  <2>1. w[o] \in Seq(Messages)
    BY <1>1, <1>3 DEF Typed
  <2>2. ASSUME NEW x \in Range(w[o]) PROVE Apart(x, m)
    <3>1. m.id \in {"data", "adjust", "eof", "close"} /\ (m.id = "data" => ~c.sentEof)
      BY <1>1, <1>6 DEF Move
    <3>2. CASE x.id = "eof" /\ m.id = "data"
      <4>1. Tells(w, ch, sz, o, x)
        BY <1>1, <1>3, <2>2, Zenon DEF Good
      <4>2. Peer(ch, o, x.to).sentEof
        BY <3>2, <4>1 DEF Tells
      <4>3. ch[e][ch[o][x.to].rid].sentEof
        BY <1>3, <4>2 DEF Peer
      <4>4. ch[o][c.rid].rid = i
        <5>1. Pairs(w, ch, sz, e, i)
          <6>1. i \in Ids
            BY <1>1, UsedSound
          <6> QED BY <1>1, <6>1, Zenon DEF Good
        <5>2. Peer(ch, e, i).rid \in {0, i}
          BY <1>6, <5>1 DEF Pairs
        <5> QED BY <1>6, <5>2 DEF Peer
      <4>5. x.to # m.to
        BY <1>6, <3>1, <3>2, <4>3, <4>4
      <4> QED BY <3>2, <4>5 DEF Apart
    <3>3. CASE ~(x.id = "eof" /\ m.id = "data")
      BY <3>1, <3>3 DEF Apart
    <3> QED BY <3>2, <3>3
  <2> HIDE DEF v
  <2> QED BY <1>2, <1>3, <1>6, <2>1, <2>2, AppendWire
<1> HIDE DEF v
<1>7. Ordered(v[o])
  <2>1. \/ v = w
        \/ /\ c.rid # 0 /\ Peer(ch, e, i).rid # 0
           /\ \E m \in Messages : out = <<m>> /\ m.to = c.rid /\ v[o] = w[o] \o <<m>>
    BY <1>4, Zenon DEF Posted
  <2> QED BY <2>1, <1>2, <1>3, <1>6
<1>8. \A f \in Ends : Ordered(v[f])
  BY <1>2, <1>3, <1>4, <1>7 DEF Posted
<1> QED BY <1>8 DEF v

\* A channel still names what it named.
NamesStill(ch, g, e, i, d, f, j) ==
    /\ j \in Ids /\ g[f][j].rid = ch[f][j].rid
    /\ ch[f][j].rid # 0 =>
         /\ ch[f][j].rid \in Ids
         /\ Peer(g, f, j).rid = Peer(ch, f, j).rid
         /\ Peer(g, f, j).role = Peer(ch, f, j).role
         /\ Peer(g, f, j).k = Peer(ch, f, j).k
         /\ Peer(g, f, j) = IF Other(f) = e /\ ch[f][j].rid = i THEN d ELSE Peer(ch, f, j)

\* The channel a channel names is the one it named.
LEMMA PeerBecomes ==
  ASSUME NEW w, NEW ch, NEW sz, NEW cl, Typed(w, ch, sz, cl),
         NEW g, NEW e \in Ends, NEW i, NEW d, Becomes(ch, g, e, i, d),
         NEW f \in Ends, NEW j, Used(sz, f, j)
  PROVE NamesStill(ch, g, e, i, d, f, j)
<1>1. j \in Ids /\ Sound(ch[f][j])
  BY UsedSound
<1>2. g[f][j].rid = ch[f][j].rid
  BY <1>1 DEF Becomes
<1>3. CASE ch[f][j].rid # 0
  <2>1. PICK r \in Ids : r = ch[f][j].rid
    BY <1>1, <1>3, SoundType
  <2>2. Other(f) \in Ends
    BY TwoEnds
  <2>3. Peer(g, f, j) = g[Other(f)][r] /\ Peer(ch, f, j) = ch[Other(f)][r]
    BY <1>2, <2>1 DEF Peer
  <2>4. /\ g[Other(f)][r].rid = ch[Other(f)][r].rid /\ g[Other(f)][r].role = ch[Other(f)][r].role
        /\ g[Other(f)][r].k = ch[Other(f)][r].k
    BY <2>2 DEF Becomes
  <2>5. g[Other(f)][r] = IF Other(f) = e /\ r = i THEN d ELSE ch[Other(f)][r]
    BY <2>2 DEF Becomes
  <2> QED BY <1>1, <1>2, <2>1, <2>3, <2>4, <2>5 DEF NamesStill
<1> QED BY <1>1, <1>2, <1>3 DEF NamesStill

\* The channel that an acting channel names, if it has named it, names it.
LEMMA Mutual ==
  ASSUME NEW w, NEW ch, NEW sz, NEW cl, Good(w, ch, sz, cl),
         NEW e \in Ends, NEW i, Used(sz, e, i), ch[e][i].rid # 0
  PROVE /\ Used(sz, Other(e), ch[e][i].rid)
        /\ Peer(ch, e, i).rid \in {0, i}
        /\ Peer(ch, e, i).role # ch[e][i].role /\ Peer(ch, e, i).k = ch[e][i].k
        /\ Peer(ch, e, i).rid # 0 =>
             /\ Peer(ch, Other(e), ch[e][i].rid) = ch[e][i]
             /\ Linked(ch, sz, Other(e), ch[e][i].rid)
        /\ Peer(ch, e, i).rid = 0 => Untouched(ch[e][i])
<1>1. Typed(w, ch, sz, cl)
  BY DEF Good
<1>2. i \in Ids
  BY <1>1, UsedSound
<1>3. Pairs(w, ch, sz, e, i)
  BY <1>2, Zenon DEF Good
<1>4. /\ Used(sz, Other(e), ch[e][i].rid)
      /\ Peer(ch, e, i).rid \in {0, i}
      /\ Peer(ch, e, i).role # ch[e][i].role /\ Peer(ch, e, i).k = ch[e][i].k
      /\ Peer(ch, e, i).rid = 0 => Untouched(ch[e][i])
  BY <1>3 DEF Pairs
<1>5. ASSUME Peer(ch, e, i).rid # 0
      PROVE /\ Peer(ch, Other(e), ch[e][i].rid) = ch[e][i]
            /\ Linked(ch, sz, Other(e), ch[e][i].rid)
  <2>1. Other(Other(e)) = e
    BY TwoEnds
  <2>2. ch[Other(e)][ch[e][i].rid].rid = i /\ i # 0
    BY <1>2, <1>4, <1>5, Size DEF Peer
  <2>3. Peer(ch, Other(e), ch[e][i].rid) = ch[e][i]
    BY <2>1, <2>2 DEF Peer
  <2> QED BY <1>4, <2>2, <2>3 DEF Linked
<1> QED BY <1>4, <1>5

\* Every message is still true of the channels when one acts.
LEMMA ActTells ==
  ASSUME NEW w, NEW ch, NEW sz, NEW cl, NEW e \in Ends, NEW i, NEW d, NEW out,
         Acts(w, ch, sz, cl, e, i, d, out)
  PROVE \A f \in Ends : \A m \in Range(After(w, cl, e, out)[f]) :
          Tells(After(w, cl, e, out), [ch EXCEPT ![e][i] = d], sz, f, m)
<1> DEFINE v == After(w, cl, e, out)
           c == ch[e][i]
           g == [ch EXCEPT ![e][i] = d]
           o == Other(e)
<1>1. Good(w, ch, sz, cl) /\ Typed(w, ch, sz, cl) /\ Used(sz, e, i) /\ Move(c, d, out)
  BY DEF Acts, Good
<1>2. o \in Ends /\ o # e /\ Other(o) = e /\ \A f \in Ends : f = e \/ f = o
  BY TwoEnds
<1>3. Becomes(ch, g, e, i, d)
  BY ActApiece
<1>4. Posted(w, v, ch, cl, e, i, out)
  BY ActWire
<1> HIDE DEF v, g
<1>5. \A f \in Ends : v[f] = w[f] \/ f = o
  BY <1>2, <1>4 DEF Posted
<1>6. /\ Range(v[o]) = Range(w[o]) \/ (c.rid # 0 /\ Peer(ch, e, i).rid # 0)
      /\ \A m \in Range(v[o]) : m \in Range(w[o]) \/ (m.to = c.rid /\ out = <<m>>)
  <2>1. w[o] \in Seq(Messages)
    BY <1>1, <1>2 DEF Typed
  <2>2. CASE v = w
    BY <2>2
  <2>3. ASSUME NEW m \in Messages, out = <<m>>, m.to = c.rid, v[o] = w[o] \o <<m>>
        PROVE \A x \in Range(v[o]) : x \in Range(w[o]) \/ (x.to = c.rid /\ out = <<x>>)
    <3>1. Range(v[o]) = Range(w[o]) \cup {m}
      BY <2>1, <2>3, AppendWire
    <3> QED BY <2>3, <3>1
  <2> QED BY <1>4, <2>2, <2>3 DEF Posted
<1>7. ASSUME NEW f \in Ends, NEW m \in Range(w[f]) PROVE Tells(v, g, sz, f, m)
  <2>1. Tells(w, ch, sz, f, m)
    BY <1>1, <1>7, Zenon DEF Good
  <2>2. Other(f) \in Ends
    BY TwoEnds
  <2>3. \A j : Used(sz, f, j) => j \in Ids /\ g[f][j].rid = ch[f][j].rid /\ g[f][j].role = ch[f][j].role
    BY <1>1, <1>3, UsedSound DEF Becomes
  <2>4. \A j : Used(sz, Other(f), j) =>
          /\ j \in Ids /\ g[Other(f)][j].rid = ch[Other(f)][j].rid
          /\ g[Other(f)][j].role = ch[Other(f)][j].role
    BY <1>1, <1>3, <2>2, UsedSound DEF Becomes
  <2>5. ASSUME m.id = "open"
        PROVE \A x \in Range(v[Other(f)]) : x.id # "open" => x.to # m.from
    <3>1. /\ Used(sz, Other(f), m.from) /\ ch[Other(f)][m.from].rid = 0
          /\ \A x \in Range(w[Other(f)]) : x.id # "open" => x.to # m.from
      BY <2>1, <2>5 DEF Tells
    <3>2. CASE Range(v[Other(f)]) = Range(w[Other(f)])
      BY <3>1, <3>2
    <3>3. CASE Range(v[Other(f)]) # Range(w[Other(f)])
      <4>1. Other(f) = o
        BY <1>5, <2>2, <3>3
      <4>2. ch[o][c.rid].rid # 0
        BY <1>6, <3>3, <4>1 DEF Peer
      <4>3. c.rid # m.from
        BY <3>1, <4>1, <4>2
      <4> QED BY <1>6, <3>1, <4>1, <4>3
    <3> QED BY <3>2, <3>3
  <2>6. ASSUME m.id \in {"data", "adjust", "eof", "close"}
        PROVE Linked(g, sz, f, m.to) /\ (m.id = "eof" => Peer(g, f, m.to).sentEof)
    <3>1. Linked(ch, sz, f, m.to) /\ (m.id = "eof" => Peer(ch, f, m.to).sentEof)
      BY <2>1, <2>6 DEF Tells
    <3>2. Used(sz, f, m.to) /\ ch[f][m.to].rid # 0 /\ Peer(ch, f, m.to).rid # 0
      BY <3>1 DEF Linked
    <3>3. /\ g[f][m.to].rid = ch[f][m.to].rid /\ Peer(g, f, m.to).rid = Peer(ch, f, m.to).rid
          /\ Peer(g, f, m.to) = IF Other(f) = e /\ ch[f][m.to].rid = i THEN d ELSE Peer(ch, f, m.to)
      BY <1>1, <1>3, <3>2, PeerBecomes DEF NamesStill
    <3>4. ASSUME m.id = "eof" PROVE Peer(g, f, m.to).sentEof
      <4>1. CASE Other(f) = e /\ ch[f][m.to].rid = i
        <5>1. c.sentEof
          BY <3>1, <3>4, <4>1 DEF Peer
        <5> QED BY <1>1, <3>3, <4>1, <5>1 DEF Move
      <4>2. CASE ~(Other(f) = e /\ ch[f][m.to].rid = i)
        BY <3>1, <3>3, <3>4, <4>2
      <4> QED BY <4>1, <4>2
    <3> QED BY <3>2, <3>3, <3>4 DEF Linked
  <2>7. m.id = "open" =>
         /\ Used(sz, Other(f), m.from) /\ g[Other(f)][m.from].role = "caller"
         /\ g[Other(f)][m.from].rid = 0
         /\ \A j \in Ids : Used(sz, f, j) => g[f][j].rid # m.from
    BY <2>1, <2>3, <2>4 DEF Tells
  <2>8. m.id \in {"confirm", "failure"} =>
         Used(sz, f, m.to) /\ g[f][m.to].role = "caller" /\ g[f][m.to].rid = 0
    BY <2>1, <2>3 DEF Tells
  <2>9. /\ m.id = "confirm" => Used(sz, Other(f), m.from) /\ g[Other(f)][m.from].rid = m.to
        /\ m.id = "failure" => \A j \in Ids : Used(sz, Other(f), j) => g[Other(f)][j].rid # m.to
    BY <2>1, <2>4 DEF Tells
  <2> QED BY <2>5, <2>6, <2>7, <2>8, <2>9 DEF Tells
<1>8. ASSUME NEW m, m \in Range(v[o]), m \notin Range(w[o]) PROVE Tells(v, g, sz, o, m)
  <2>1. m.to = c.rid /\ out = <<m>> /\ c.rid # 0 /\ Peer(ch, e, i).rid # 0
    BY <1>6, <1>8
  <2>2. m.id \in {"data", "adjust", "eof", "close"} /\ (m.id = "eof" => d.sentEof)
    BY <1>1, <2>1 DEF Move
  <2>3. Used(sz, o, c.rid) /\ Linked(ch, sz, o, c.rid) /\ Peer(ch, e, i).rid \in {0, i}
    BY <1>1, <2>1, Mutual
  <2>4. ch[o][c.rid].rid = i
    BY <2>1, <2>3 DEF Peer
  <2>5. ch[o][c.rid].rid # 0 /\ Peer(ch, o, c.rid).rid # 0
    BY <2>3 DEF Linked
  <2>6. /\ g[o][c.rid].rid = ch[o][c.rid].rid /\ Peer(g, o, c.rid).rid = Peer(ch, o, c.rid).rid
        /\ Peer(g, o, c.rid) = d
    <3>1. PICK r : r = c.rid
      OBVIOUS
    <3>2. Used(sz, o, r) /\ ch[o][r].rid # 0 /\ ch[o][r].rid = i
      BY <2>1, <2>3, <2>4, <2>5, <3>1
    <3>3. /\ g[o][r].rid = ch[o][r].rid /\ Peer(g, o, r).rid = Peer(ch, o, r).rid
          /\ Peer(g, o, r) = IF Other(o) = e /\ ch[o][r].rid = i THEN d ELSE Peer(ch, o, r)
      BY <1>1, <1>2, <1>3, <3>2, PeerBecomes DEF NamesStill
    <3> QED BY <1>2, <3>1, <3>2, <3>3
  <2>7. Linked(g, sz, o, m.to)
    BY <2>1, <2>3, <2>5, <2>6 DEF Linked
  <2> QED BY <2>1, <2>2, <2>6, <2>7 DEF Tells
<1>9. \A f \in Ends : \A m \in Range(v[f]) : Tells(v, g, sz, f, m)
  BY <1>2, <1>5, <1>7, <1>8
<1> QED BY <1>9 DEF v, g

\* Nobody is in use at an end that is closed.
LEMMA OnOpen ==
  ASSUME NEW w, NEW ch, NEW sz, NEW cl, Typed(w, ch, sz, cl), NEW e \in Ends, NEW i,
         Used(sz, e, i), On(ch, e, i)
  PROVE ~cl[e]
<1>1. i \in Ids
  BY UsedSound
<1> QED BY <1>1, Zenon DEF Typed

\* The channel that acts still balances with its peer.
LEMMA ActPairsSelf ==
  ASSUME NEW w, NEW ch, NEW sz, NEW cl, NEW e \in Ends, NEW i, NEW d, NEW out,
         Acts(w, ch, sz, cl, e, i, d, out)
  PROVE Pairs(After(w, cl, e, out), [ch EXCEPT ![e][i] = d], sz, e, i)
<1> DEFINE v == After(w, cl, e, out)
           c == ch[e][i]
           g == [ch EXCEPT ![e][i] = d]
           o == Other(e)
           r == c.rid
           p == Peer(ch, e, i)
           D == Units(w[e], i, "data")
           A == Units(w[o], r, "adjust")
           A2 == Units(v[o], r, "adjust")
           R == Units(w[e], i, "adjust")
<1>1. Good(w, ch, sz, cl) /\ Typed(w, ch, sz, cl) /\ Used(sz, e, i) /\ Move(c, d, out)
  BY DEF Acts, Good
<1>2. o \in Ends /\ o # e /\ Other(o) = e
  BY TwoEnds
<1>3. Becomes(ch, g, e, i, d)
  BY ActApiece
<1>4. Posted(w, v, ch, cl, e, i, out)
  BY ActWire
<1>5. i \in Ids /\ Sound(c) /\ Sound(d)
  BY <1>1, UsedSound DEF Move
<1>6. w[e] \in Seq(Messages) /\ w[o] \in Seq(Messages)
  BY <1>1, <1>2 DEF Typed
<1>7. D \in Nat /\ A \in Nat /\ R \in Nat
  BY <1>6, UnitsType
<1> HIDE DEF v, g
<1>8. SUFFICES ASSUME r # 0 PROVE Pairs(v, g, sz, e, i)
  <2>1. g[e][i].rid = c.rid
    BY <1>2, <1>5, <1>3 DEF Becomes
  <2> QED BY <2>1 DEF Pairs, v, g
<1>9. /\ g[e][i] = d /\ d.rid = r /\ d.role = c.role /\ d.k = c.k
      /\ Peer(g, e, i) = p
  BY <1>1, <1>2, <1>3, <1>8, PeerBecomes DEF NamesStill, Becomes, Move
<1>10. Pairs(w, ch, sz, e, i)
  BY <1>1, <1>5, Zenon DEF Good
<1>11. Used(sz, o, r) /\ p.role # c.role /\ p.k = c.k /\ p.rid \in {0, i}
  BY <1>8, <1>10 DEF Pairs
<1>12. v[e] = w[e]
  BY <1>4 DEF Posted
<1>13. p.rid = 0 => Untouched(d)
  BY <1>8 DEF Acts
<1>14. /\ c.rwin \in Nat /\ d.rwin \in Nat /\ c.mwin \in Nat /\ d.mwin \in Nat
       /\ Window \in Nat
  <2>1. c.rwin \in 0..Window /\ d.rwin \in 0..Window /\ c.mwin \in 0..Window /\ d.mwin \in 0..Window
    BY <1>5, SoundType
  <2>2. Window \in Nat
    BY DuplexSizes
  <2> HIDE DEF c
  <2> QED BY <2>1, <2>2
<1>15. p.rwin \in Nat
  <2>1. Sound(ch[o][r])
    BY <1>1, <1>2, <1>11, UsedSound
  <2>2. ch[o][r].rwin \in Nat
    BY <2>1, SoundType
  <2> QED BY <2>2 DEF Peer
<1>16. d.rwin <= c.rwin
  <2>1. ASSUME NEW m \in Messages, m.id = "data" PROVE Len(m.x) \in Nat
    BY <2>1 DEF Messages
  <2> QED BY <1>1, <1>14, <2>1 DEF Move
<1>17. c.rwin + R <= Window
  BY <1>8, <1>10 DEF Pairs
<1>18. d.rwin + R <= Window
  BY <1>7, <1>14, <1>16, <1>17
<1>19. ASSUME d.st = "in", p.rid # 0
       PROVE /\ c.st = "in" /\ (~d.sentClose => ~c.sentClose) /\ ~cl[e]
             /\ p.rwin + D + A <= c.mwin
             /\ ~c.sentClose /\ p.st = "in" => p.rwin + D + A = c.mwin
             /\ ~c.sentClose /\ c.end # "open" =>
                  p.sentEof /\ \A m \in Range(w[e]) : m.id = "data" => m.to # i
  <2>1. c.st = "in" /\ (~d.sentClose => ~c.sentClose)
    <3>1. c.st \in {"in", "out"} /\ d.st \in {c.st, "out"} /\ (c.sentClose => d.sentClose)
      BY <1>1, <1>5, SoundType DEF Move
    <3> QED BY <1>19, <3>1
  <2>2. On(ch, e, i)
    BY <2>1 DEF On
  <2>3. ~cl[e]
    BY <1>1, <2>2, OnOpen
  <2>4. /\ p.rwin + D + A <= c.mwin
        /\ ~c.sentClose /\ p.st = "in" => p.rwin + D + A = c.mwin
        /\ ~c.sentClose /\ c.end # "open" =>
             p.sentEof /\ \A m \in Range(w[e]) : m.id = "data" => m.to # i
    BY <1>8, <1>10, <1>19, <2>2 DEF Pairs
  <2> QED BY <2>1, <2>3, <2>4
<1>20. ASSUME d.st = "in", p.rid # 0
       PROVE /\ p.rwin + D + A2 <= d.mwin
             /\ ~d.sentClose /\ p.st = "in" => p.rwin + D + A2 = d.mwin
  <2>1. CASE v = w /\ (out = <<>> \/ cl[e] \/ cl[o])
    <3>1. A2 = A
      BY <2>1
    <3>2. d.mwin >= c.mwin
      <4>1. ASSUME NEW m \in Messages, m.id = "adjust" PROVE m.x \in Nat
        BY <4>1 DEF Messages
      <4> QED BY <1>1, <1>14, <4>1 DEF Move
    <3>3. ASSUME ~d.sentClose, p.st = "in" PROVE d.mwin = c.mwin
      <4>1. On(ch, o, r)
        BY <3>3 DEF On, Peer
      <4>2. ~cl[o]
        BY <1>1, <1>2, <1>11, <4>1, OnOpen
      <4>3. out = <<>>
        BY <1>19, <1>20, <2>1, <4>2
      <4> QED BY <1>1, <1>20, <3>3, <4>3 DEF Move
    <3> HIDE DEF A2, A, D, p, c
    <3>4. p.rwin + D + A <= d.mwin
      BY <1>7, <1>14, <1>15, <1>19, <1>20, <3>2
    <3> QED BY <1>19, <1>20, <3>1, <3>3, <3>4
  <2>2. ASSUME NEW m \in Messages, out = <<m>>, m.to = r, v[o] = w[o] \o <<m>>
        PROVE /\ p.rwin + D + A2 <= d.mwin
              /\ ~d.sentClose /\ p.st = "in" => p.rwin + D + A2 = d.mwin
    <3>1. /\ A2 = A + (IF m.id = "adjust" THEN m.x ELSE 0)
          /\ m.id = "adjust" => m.x \in Nat
      <4>1. Units(w[o] \o <<m>>, r, "adjust") = A + Weight(m, r, "adjust")
        BY <1>6, UnitsAppend
      <4>3. Weight(m, r, "adjust") = IF m.id = "adjust" THEN m.x ELSE 0
        BY <2>2 DEF Weight
      <4>2. m.id = "adjust" => m.x \in Nat
        BY DEF Messages
      <4> QED BY <2>2, <4>1, <4>2, <4>3
    <3>2. d.mwin = c.mwin + (IF m.id = "adjust" THEN m.x ELSE 0)
      BY <1>1, <1>14, <2>2 DEF Move
    <3> HIDE DEF A2, A, D, p, c
    <3>3. p.rwin + D + A2 <= d.mwin
      BY <1>7, <1>14, <1>15, <1>19, <1>20, <3>1, <3>2
    <3>4. ASSUME ~d.sentClose, p.st = "in" PROVE p.rwin + D + A2 = d.mwin
      <4>1. p.rwin + D + A = c.mwin
        BY <1>19, <1>20, <3>4
      <4> QED BY <1>7, <1>14, <1>15, <3>1, <3>2, <4>1
    <3> QED BY <3>3, <3>4
  <2> QED BY <1>4, <2>1, <2>2 DEF Posted
<1>21. ASSUME d.st = "in", p.rid # 0, ~d.sentClose, d.end # "open"
       PROVE p.sentEof /\ \A m \in Range(w[e]) : m.id = "data" => m.to # i
  <2>1. c.end # "open"
    BY <1>1, <1>21 DEF Move
  <2> QED BY <1>19, <1>21, <2>1
<1> QED BY <1>8, <1>9, <1>11, <1>12, <1>13, <1>18, <1>20, <1>21 DEF Pairs, On, v, g

\* The channel that names the acting one.
LEMMA ActPairsPeer ==
  ASSUME NEW w, NEW ch, NEW sz, NEW cl, NEW e \in Ends, NEW i, NEW d, NEW out,
         Acts(w, ch, sz, cl, e, i, d, out),
         NEW j, Used(sz, Other(e), j), ch[Other(e)][j].rid = i
  PROVE Pairs(After(w, cl, e, out), [ch EXCEPT ![e][i] = d], sz, Other(e), j)
<1> DEFINE v == After(w, cl, e, out)
           c == ch[e][i]
           g == [ch EXCEPT ![e][i] = d]
           o == Other(e)
           x == ch[o][j]
           D == Units(w[o], j, "data")
           D2 == Units(v[o], j, "data")
           A == Units(w[e], i, "adjust")
           R == Units(w[o], j, "adjust")
           R2 == Units(v[o], j, "adjust")
<1>1. Good(w, ch, sz, cl) /\ Typed(w, ch, sz, cl) /\ Used(sz, e, i) /\ Move(c, d, out)
  BY DEF Acts, Good
<1>2. o \in Ends /\ o # e /\ Other(o) = e
  BY TwoEnds
<1>3. Becomes(ch, g, e, i, d)
  BY ActApiece
<1>4. Posted(w, v, ch, cl, e, i, out)
  BY ActWire
<1>5. i \in Ids /\ i # 0 /\ j \in Ids /\ Sound(c) /\ Sound(d) /\ Sound(x)
  BY <1>1, <1>2, UsedSound, Size DEF Move
<1>6. w[e] \in Seq(Messages) /\ w[o] \in Seq(Messages)
  BY <1>1, <1>2 DEF Typed
<1>7. D \in Nat /\ A \in Nat /\ R \in Nat
  BY <1>6, UnitsType
<1> HIDE DEF v, g
<1>8. g[o][j] = x /\ Peer(g, o, j) = d /\ x.rid = i /\ Peer(ch, o, j) = c
  <2>1. g[o][j] = x
    BY <1>2, <1>3, <1>5 DEF Becomes
  <2>2. g[e][i] = d
    BY <1>3 DEF Becomes
  <2> QED BY <1>2, <2>1, <2>2 DEF Peer
<1>9. Pairs(w, ch, sz, o, j)
  BY <1>1, <1>2, <1>5, Zenon DEF Good
<1>10. /\ c.role # x.role /\ c.k = x.k /\ c.rid \in {0, j} /\ (c.rid = 0 => Untouched(x))
       /\ x.rwin + R <= Window
  BY <1>2, <1>5, <1>8, <1>9 DEF Pairs
<1>11. d.rid = c.rid /\ d.role = c.role /\ d.k = c.k
  BY <1>1 DEF Move
<1>12. v[e] = w[e]
  BY <1>4 DEF Posted
<1>13. /\ c.rwin \in Nat /\ d.rwin \in Nat /\ c.mwin \in Nat /\ d.mwin \in Nat
       /\ x.rwin \in Nat /\ x.mwin \in Nat /\ Window \in Nat
  <2>1. /\ c.rwin \in 0..Window /\ d.rwin \in 0..Window /\ c.mwin \in 0..Window /\ d.mwin \in 0..Window
        /\ x.rwin \in 0..Window /\ x.mwin \in 0..Window
    BY <1>5, SoundType
  <2>2. Window \in Nat
    BY DuplexSizes
  <2> HIDE DEF c, x
  <2> QED BY <2>1, <2>2
<1>14. ASSUME x.st = "in", c.rid # 0
       PROVE /\ c.rwin + D + A <= x.mwin
             /\ ~x.sentClose /\ c.st = "in" => c.rwin + D + A = x.mwin
             /\ ~x.sentClose /\ x.end # "open" =>
                  c.sentEof /\ \A m \in Range(w[o]) : m.id = "data" => m.to # j
             /\ ~cl[o]
  <2>1. On(ch, o, j)
    BY <1>14 DEF On
  <2>2. ~cl[o]
    BY <1>1, <1>2, <2>1, OnOpen
  <2> QED BY <1>2, <1>5, <1>8, <1>9, <1>14, <2>1, <2>2 DEF Pairs
<1>15. ASSUME v = w, out = <<>> \/ cl[e] \/ cl[o]
       PROVE /\ x.rwin + R2 <= Window
             /\ x.st = "in" /\ c.rid # 0 =>
                  /\ d.rwin + D2 + A <= x.mwin
                  /\ ~x.sentClose /\ d.st = "in" => d.rwin + D2 + A = x.mwin
                  /\ ~x.sentClose /\ x.end # "open" =>
                       d.sentEof /\ \A m \in Range(v[o]) : m.id = "data" => m.to # j
  <2>1. D2 = D /\ R2 = R
    BY <1>15
  <2>2. d.rwin <= c.rwin
    <3>1. ASSUME NEW m \in Messages, m.id = "data" PROVE Len(m.x) \in Nat
      BY <3>1 DEF Messages
    <3> QED BY <1>1, <1>13, <3>1 DEF Move
  <2>3. c.sentEof => d.sentEof
    BY <1>1 DEF Move
  <2>4. ASSUME x.st = "in", d.st = "in" PROVE d.rwin = c.rwin /\ c.st = "in"
    <3>1. On(ch, o, j)
      BY <2>4 DEF On
    <3>2. c.st = "in"
      <4>1. c.st \in {"in", "out"} /\ d.st \in {c.st, "out"}
        BY <1>1, <1>5, SoundType DEF Move
      <4> QED BY <2>4, <4>1
    <3>3. ~cl[o] /\ ~cl[e]
      BY <1>1, <1>2, <3>1, <3>2, OnOpen DEF On
    <3>4. out = <<>>
      BY <1>15, <3>3
    <3> QED BY <1>1, <3>2, <3>4 DEF Move
  <2>5. ASSUME x.st = "in", c.rid # 0
        PROVE /\ d.rwin + D2 + A <= x.mwin
              /\ ~x.sentClose /\ d.st = "in" => d.rwin + D2 + A = x.mwin
    <3>1. c.rwin + D + A <= x.mwin /\ (~x.sentClose /\ c.st = "in" => c.rwin + D + A = x.mwin)
      BY <1>14, <2>5
    <3> HIDE DEF D, D2, A, R, R2, c, x
    <3>2. d.rwin + D2 + A <= x.mwin
      BY <1>7, <1>13, <2>1, <2>2, <3>1
    <3>3. ~x.sentClose /\ d.st = "in" => d.rwin + D2 + A = x.mwin
      BY <2>1, <2>4, <2>5, <3>1
    <3> QED BY <3>2, <3>3
  <2>6. ASSUME x.st = "in", c.rid # 0, ~x.sentClose, x.end # "open"
        PROVE d.sentEof /\ \A m \in Range(v[o]) : m.id = "data" => m.to # j
    BY <1>14, <1>15, <2>3, <2>6
  <2> HIDE DEF D, D2, A, R, R2
  <2> QED BY <1>10, <2>1, <2>5, <2>6
<1>16. ASSUME NEW m \in Messages, out = <<m>>, m.to = c.rid, v[o] = w[o] \o <<m>>, c.rid # 0,
              Peer(ch, e, i).rid # 0
       PROVE /\ x.rwin + R2 <= Window
             /\ x.st = "in" /\ c.rid # 0 =>
                  /\ d.rwin + D2 + A <= x.mwin
                  /\ ~x.sentClose /\ d.st = "in" => d.rwin + D2 + A = x.mwin
                  /\ ~x.sentClose /\ x.end # "open" =>
                       d.sentEof /\ \A y \in Range(v[o]) : y.id = "data" => y.to # j
  <2>1. c.rid = j /\ m.to = j /\ Peer(ch, e, i) = x
    BY <1>10, <1>16 DEF Peer
  <2>2. /\ D2 = D + (IF m.id = "data" THEN Len(m.x) ELSE 0)
        /\ R2 = R + (IF m.id = "adjust" THEN m.x ELSE 0)
        /\ m.id = "data" => Len(m.x) \in Nat
        /\ m.id = "adjust" => m.x \in Nat
    <3>1. Units(w[o] \o <<m>>, j, "data") = D + Weight(m, j, "data")
      BY <1>6, UnitsAppend
    <3>2. Units(w[o] \o <<m>>, j, "adjust") = R + Weight(m, j, "adjust")
      BY <1>6, UnitsAppend
    <3>3. /\ Weight(m, j, "data") = IF m.id = "data" THEN Len(m.x) ELSE 0
          /\ Weight(m, j, "adjust") = IF m.id = "adjust" THEN m.x ELSE 0
      BY <2>1 DEF Weight
    <3>4. /\ m.id = "data" => Len(m.x) \in Nat
          /\ m.id = "adjust" => m.x \in Nat
      BY DEF Messages
    <3> QED BY <1>16, <3>1, <3>2, <3>3, <3>4
  <2>3. /\ ~c.sentClose
        /\ \/ m.id = "data" /\ ~c.sentEof /\ c.rwin = d.rwin + Len(m.x) /\ d.mwin = c.mwin
           \/ m.id = "adjust" /\ c.st = "in" /\ d.rwin = c.rwin /\ d.mwin = c.mwin + m.x
           \/ m.id = "eof" /\ d.rwin = c.rwin
           \/ m.id = "close" /\ d.rwin = c.rwin
    BY <1>1, <1>16 DEF Move
  <2>4. x.rwin + R2 <= Window
    <3>1. CASE m.id # "adjust"
      BY <1>7, <1>10, <2>2, <3>1
    <3>2. CASE m.id = "adjust"
      <4>1. On(ch, e, i) /\ d.mwin = c.mwin + m.x
        BY <2>3, <3>2 DEF On
      <4>2. Pairs(w, ch, sz, e, i)
        BY <1>1, <1>5, Zenon DEF Good
      <4> DEFINE B == Units(w[e], i, "data")
      <4>3. x.rwin + B + R <= c.mwin
        BY <1>16, <2>1, <4>1, <4>2 DEF Pairs
      <4>4. B \in Nat
        BY <1>6, UnitsType
      <4>5. d.mwin <= Window
        <5>1. d.mwin \in 0..Window
          BY <1>5, SoundType
        <5> QED BY <1>13, <5>1
      <4>6. m.x \in Nat /\ R2 = R + m.x
        BY <2>2, <3>2
      <4> HIDE DEF B, R, R2, c, x
      <4> QED BY <1>7, <1>13, <4>1, <4>3, <4>4, <4>5, <4>6
    <3> QED BY <3>1, <3>2
  <2>5. d.rwin + D2 = c.rwin + D
    <3> HIDE DEF D, D2, c
    <3> QED BY <1>7, <1>13, <2>2, <2>3
  <2>6. ASSUME x.st = "in"
        PROVE /\ d.rwin + D2 + A <= x.mwin
              /\ ~x.sentClose /\ d.st = "in" => d.rwin + D2 + A = x.mwin
    <3>1. c.rwin + D + A <= x.mwin /\ (~x.sentClose /\ c.st = "in" => c.rwin + D + A = x.mwin)
      BY <1>14, <1>16, <2>6
    <3>2. d.st = "in" => c.st = "in"
      <4>1. c.st \in {"in", "out"} /\ d.st \in {c.st, "out"}
        BY <1>1, <1>5, SoundType DEF Move
      <4> QED BY <4>1
    <3> HIDE DEF D, D2, A, c, x
    <3> QED BY <2>5, <3>1, <3>2
  <2>7. ASSUME x.st = "in", ~x.sentClose, x.end # "open"
        PROVE d.sentEof /\ \A y \in Range(v[o]) : y.id = "data" => y.to # j
    <3>1. c.sentEof /\ \A y \in Range(w[o]) : y.id = "data" => y.to # j
      BY <1>14, <1>16, <2>7
    <3>2. d.sentEof /\ m.id # "data"
      BY <1>1, <2>3, <3>1 DEF Move
    <3>3. Range(v[o]) = Range(w[o]) \cup {m}
      BY <1>6, <1>16, AppendWire
    <3> QED BY <3>1, <3>2, <3>3
  <2> HIDE DEF D, D2, A, R, R2
  <2> QED BY <2>4, <2>6, <2>7
<1>17. /\ x.rwin + R2 <= Window
       /\ x.st = "in" /\ c.rid # 0 =>
            /\ d.rwin + D2 + A <= x.mwin
            /\ ~x.sentClose /\ d.st = "in" => d.rwin + D2 + A = x.mwin
            /\ ~x.sentClose /\ x.end # "open" =>
                 d.sentEof /\ \A y \in Range(v[o]) : y.id = "data" => y.to # j
  BY <1>4, <1>15, <1>16 DEF Posted
<1>18. Pairs(v, g, sz, o, j)
  <2>1. /\ Used(sz, Other(o), x.rid) /\ x.rid = i /\ On(g, o, j) = (x.st = "in")
    BY <1>1, <1>2, <1>8 DEF On
  <2>2. d.role # x.role /\ d.k = x.k /\ d.rid \in {0, j} /\ (d.rid = 0 => Untouched(x))
    BY <1>10, <1>11
  <2>3. v[e] = w[e] /\ Other(o) = e /\ d.rid = c.rid
    BY <1>2, <1>11, <1>12
  <2> HIDE DEF c, x
  <2> QED BY <1>8, <1>17, <2>1, <2>2, <2>3 DEF Pairs
<1> QED BY <1>18 DEF v, g

\* All other channels.
LEMMA ActPairsOther ==
  ASSUME NEW w, NEW ch, NEW sz, NEW cl, NEW e \in Ends, NEW i, NEW d, NEW out,
         Acts(w, ch, sz, cl, e, i, d, out),
         NEW f \in Ends, NEW j, Used(sz, f, j),
         f # e \/ j # i, f = e \/ ch[f][j].rid # i
  PROVE Pairs(After(w, cl, e, out), [ch EXCEPT ![e][i] = d], sz, f, j)
<1> DEFINE v == After(w, cl, e, out)
           c == ch[e][i]
           g == [ch EXCEPT ![e][i] = d]
           o == Other(e)
           x == ch[f][j]
           r == x.rid
<1>1. Good(w, ch, sz, cl) /\ Typed(w, ch, sz, cl) /\ Used(sz, e, i) /\ Apiece(ch, sz)
  BY DEF Acts, Good
<1>2. o \in Ends /\ o # e /\ Other(o) = e /\ (f = e \/ f = o) /\ Other(f) \in Ends /\ Other(f) # f
  BY TwoEnds
<1>3. Becomes(ch, g, e, i, d)
  BY ActApiece
<1>4. Posted(w, v, ch, cl, e, i, out)
  BY ActWire
<1>5. i \in Ids /\ j \in Ids
  BY <1>1, UsedSound
<1>6. w[o] \in Seq(Messages)
  BY <1>1, <1>2 DEF Typed
<1> HIDE DEF v, g
<1>7. g[f][j] = x
  BY <1>3, <1>5 DEF Becomes
<1>8. SUFFICES ASSUME r # 0 PROVE Pairs(v, g, sz, f, j)
  BY <1>7 DEF Pairs, v, g
<1>9. r \in Ids /\ Peer(g, f, j) = Peer(ch, f, j)
  <2>1. /\ r \in Ids
        /\ Peer(g, f, j) = IF Other(f) = e /\ r = i THEN d ELSE Peer(ch, f, j)
    <3>1. Typed(w, ch, sz, cl) /\ ch[f][j].rid # 0
      BY <1>1, <1>8
    <3> HIDE DEF r, x
    <3>2. /\ ch[f][j].rid \in Ids
          /\ Peer(g, f, j) = IF Other(f) = e /\ ch[f][j].rid = i THEN d ELSE Peer(ch, f, j)
      <4>1. NamesStill(ch, g, e, i, d, f, j)
        BY <1>3, <3>1, PeerBecomes
      <4> QED BY <3>1, <4>1 DEF NamesStill
    <3> QED BY <3>2 DEF r, x
  <2>2. ~(Other(f) = e /\ r = i)
    BY <1>2
  <2> QED BY <2>1, <2>2
<1>10. Pairs(w, ch, sz, f, j)
  BY <1>1, <1>5, Zenon DEF Good
<1>11. ASSUME NEW m \in Messages, v[o] = w[o] \o <<m>>, m.to = c.rid, c.rid # 0, Peer(ch, e, i).rid # 0
       PROVE /\ f = o => /\ \A id \in {"data", "adjust"} : Units(v[f], j, id) = Units(w[f], j, id)
                         /\ \A y \in Range(v[f]) : y \in Range(w[f]) \/ y.to # j
             /\ f = e => Units(v[o], r, "adjust") = Units(w[o], r, "adjust")
  <2>1. ASSUME NEW l, l # c.rid, NEW id \in {"data", "adjust"}
        PROVE Units(v[o], l, id) = Units(w[o], l, id)
    <3>1. Units(v[o], l, id) = Units(w[o], l, id) + Weight(m, l, id)
      BY <1>6, <1>11, UnitsAppend
    <3>2. Weight(m, l, id) = 0
      BY <1>11, <2>1 DEF Weight
    <3>3. Units(w[o], l, id) \in Nat
      BY <1>6, UnitsType
    <3> QED BY <3>1, <3>2, <3>3
  <2>2. ASSUME f = o PROVE j # c.rid
    <3>1. Peer(ch, e, i).rid = i
      BY <1>1, <1>11, Mutual
    <3> QED BY <1>2, <2>2, <3>1 DEF Peer
  <2>3. ASSUME f = e PROVE r # c.rid
    BY <1>1, <1>5, <1>11, <2>3 DEF Apiece
  <2>4. Range(v[o]) = Range(w[o]) \cup {m}
    BY <1>6, <1>11, AppendWire
  <2> QED BY <1>11, <2>1, <2>2, <2>3, <2>4
<1>12. /\ Units(v[f], j, "data") = Units(w[f], j, "data")
       /\ Units(v[f], j, "adjust") = Units(w[f], j, "adjust")
       /\ Units(v[Other(f)], r, "adjust") = Units(w[Other(f)], r, "adjust")
       /\ \A y \in Range(v[f]) : y \in Range(w[f]) \/ y.to # j
  <2>1. CASE v = w
    BY <2>1
  <2>2. ASSUME NEW m \in Messages, v[o] = w[o] \o <<m>>, m.to = c.rid, c.rid # 0,
               Peer(ch, e, i).rid # 0, v[e] = w[e]
        PROVE /\ Units(v[f], j, "data") = Units(w[f], j, "data")
              /\ Units(v[f], j, "adjust") = Units(w[f], j, "adjust")
              /\ Units(v[Other(f)], r, "adjust") = Units(w[Other(f)], r, "adjust")
              /\ \A y \in Range(v[f]) : y \in Range(w[f]) \/ y.to # j
    BY <1>2, <1>11, <2>2
  <2> QED BY <1>4, <2>1, <2>2 DEF Posted
<1>13. On(g, f, j) = On(ch, f, j)
  BY <1>7 DEF On
<1> QED BY <1>7, <1>8, <1>9, <1>10, <1>12, <1>13 DEF Pairs

\* Whatever a channel does, the invariant stays.
LEMMA Act ==
  ASSUME NEW w, NEW ch, NEW sz, NEW cl, NEW e \in Ends, NEW i, NEW d, NEW out,
         Acts(w, ch, sz, cl, e, i, d, out)
  PROVE Good(After(w, cl, e, out), [ch EXCEPT ![e][i] = d], sz, cl)
<1> DEFINE v == After(w, cl, e, out)
           g == [ch EXCEPT ![e][i] = d]
<1>1. Typed(w, ch, sz, cl) /\ Used(sz, e, i)
  BY DEF Acts, Good
<1>2. Typed(v, g, sz, cl)
  BY ActTyped
<1>3. Apiece(g, sz)
  BY ActApiece
<1>4. \A f \in Ends, j \in Ids : Used(sz, f, j) => Pairs(v, g, sz, f, j)
  <2>1. SUFFICES ASSUME NEW f \in Ends, NEW j \in Ids, Used(sz, f, j) PROVE Pairs(v, g, sz, f, j)
    OBVIOUS
  <2>2. CASE f = e /\ j = i
    BY <2>2, ActPairsSelf
  <2>3. CASE f # e /\ ch[f][j].rid = i
    <3>1. f = Other(e)
      BY <2>3, TwoEnds
    <3> QED BY <2>1, <2>3, <3>1, ActPairsPeer
  <2>4. CASE ~(f = e /\ j = i) /\ ~(f # e /\ ch[f][j].rid = i)
    BY <2>1, <2>4, ActPairsOther
  <2> QED BY <2>2, <2>3, <2>4
<1>5. \A f \in Ends : \A m \in Range(v[f]) : Tells(v, g, sz, f, m)
  BY ActTells
<1>6. \A f \in Ends : Ordered(v[f])
  BY ActOrdered
<1> HIDE DEF v, g
<1>7. Good(v, g, sz, cl)
  BY <1>2, <1>3, <1>4, <1>5, <1>6 DEF Good
<1> QED BY <1>7 DEF v, g

-----------------------------------------------------------------------------
(* A message is taken *)

\* What handling the first message at e makes of the channels there, before
\* they answer it; a channel that is gone takes nothing.
Taking(w, ch, g, sz, e) ==
    LET m == Head(w[e]) IN
    /\ w[e] # <<>>
    /\ g \in [Ends -> [Ids -> Channel \cup {None}]]
    /\ \A f \in Ends, i \in Ids : f # e \/ ~Used(sz, e, i) => g[f][i] = ch[f][i]
    /\ \A i \in Ids : Used(sz, e, i) =>
         LET c == ch[e][i] d == g[e][i] IN
         /\ Sound(d) /\ d.role = c.role /\ d.k = c.k /\ d.rid = c.rid
         /\ d.st = c.st /\ d.sentEof = c.sentEof /\ d.sentClose = c.sentClose
         /\ d.rwin <= c.rwin + Weight(m, i, "adjust")
         /\ c.st = "in" =>
              /\ d.rwin = c.rwin + Weight(m, i, "adjust")
              /\ d.mwin + Weight(m, i, "data") = c.mwin
              /\ d.end # "open" => c.end # "open" \/ (m.id = "eof" /\ m.to = i)
         /\ d = c \/ (m.id \in {"data", "adjust", "eof"} /\ m.to = i)

\* The messages when an end has taken its first.
Rest(w, e) == [w EXCEPT ![e] = Tail(@)]

\* What is left on the wires when a message is taken.
LEMMA RestWire ==
  ASSUME NEW w \in [Ends -> Seq(Messages)], NEW e \in Ends, w[e] # <<>>
  PROVE /\ Rest(w, e) \in [Ends -> Seq(Messages)]
        /\ Head(w[e]) \in Messages /\ Head(w[e]) \in Range(w[e])
        /\ \A f \in Ends : Range(Rest(w, e)[f]) \subseteq Range(w[f])
        /\ \A f \in Ends : f # e => Rest(w, e)[f] = w[f]
        /\ Rest(w, e)[e] = Tail(w[e])
<1> DEFINE v == Rest(w, e)
<1>1. w[e] \in Seq(Messages)
  OBVIOUS
<1>2. Head(w[e]) \in Messages /\ Tail(w[e]) \in Seq(Messages)
      /\ Range(w[e]) = {Head(w[e])} \cup Range(Tail(w[e]))
  BY <1>1, TailWire
<1>3. v = [w EXCEPT ![e] = Tail(w[e])]
  BY DEF Rest
<1>4. v \in [Ends -> Seq(Messages)] /\ v[e] = Tail(w[e]) /\ \A f \in Ends : f # e => v[f] = w[f]
  BY <1>2, <1>3
<1> HIDE DEF v
<1>5. \A f \in Ends : Range(v[f]) \subseteq Range(w[f])
  BY <1>2, <1>4
<1> QED BY <1>2, <1>4, <1>5 DEF v

\* What is left on the wires is apart.
LEMMA RestOrdered ==
  ASSUME NEW w \in [Ends -> Seq(Messages)], NEW e \in Ends, w[e] # <<>>,
         \A f \in Ends : Ordered(w[f])
  PROVE \A f \in Ends : Ordered(Rest(w, e)[f])
<1>1. SUFFICES ASSUME NEW f \in Ends PROVE Ordered(Rest(w, e)[f])
  OBVIOUS
<1>2. Ordered(w[f]) /\ w[f] \in Seq(Messages)
  OBVIOUS
<1>3. CASE f = e
  BY <1>2, <1>3, TailWire, RestWire
<1>4. CASE f # e
  BY <1>2, <1>4, RestWire
<1> QED BY <1>3, <1>4

\* The credit and the bytes of the message taken are no longer under way.
LEMMA RestUnits ==
  ASSUME NEW w \in [Ends -> Seq(Messages)], NEW e \in Ends, w[e] # <<>>,
         NEW i, NEW id \in {"data", "adjust"}
  PROVE /\ Units(w[e], i, id) = Weight(Head(w[e]), i, id) + Units(Rest(w, e)[e], i, id)
        /\ Weight(Head(w[e]), i, id) \in Nat /\ Units(Rest(w, e)[e], i, id) \in Nat
<1>1. w[e] \in Seq(Messages) /\ Head(w[e]) \in Messages /\ Rest(w, e)[e] = Tail(w[e])
  BY RestWire
<1>2. Units(w[e], i, id) = Weight(Head(w[e]), i, id) + Units(Tail(w[e]), i, id)
  BY <1>1, UnitsTail
<1>3. Weight(Head(w[e]), i, id) \in Nat
  BY <1>1, WeightType
<1>4. Tail(w[e]) \in Seq(Messages)
  BY <1>1, TailWire
<1>5. Units(Tail(w[e]), i, id) \in Nat
  BY <1>4, UnitsType
<1> QED BY <1>1, <1>2, <1>3, <1>5

\* Types survive a message that is taken.
LEMMA TakeTyped ==
  ASSUME NEW w, NEW ch, NEW sz, NEW cl, NEW g, NEW e \in Ends,
         Good(w, ch, sz, cl), Taking(w, ch, g, sz, e)
  PROVE Typed(Rest(w, e), g, sz, cl)
<1> DEFINE v == Rest(w, e)
<1>1. Typed(w, ch, sz, cl) /\ w[e] # <<>> /\ g \in [Ends -> [Ids -> Channel \cup {None}]]
  BY DEF Good, Taking
<1>2. w \in [Ends -> Seq(Messages)]
  BY <1>1 DEF Typed
<1>3. v \in [Ends -> Seq(Messages)]
  BY <1>1, <1>2, RestWire
<1>4. ASSUME NEW f \in Ends, NEW i \in Ids
      PROVE /\ IF Used(sz, f, i) THEN Sound(g[f][i]) ELSE g[f][i] = None
            /\ On(g, f, i) => On(ch, f, i)
  <2>1. IF Used(sz, f, i) THEN Sound(ch[f][i]) ELSE ch[f][i] = None
    BY <1>1, Zenon DEF Typed
  <2>2. CASE f # e \/ ~Used(sz, e, i)
    <3>1. g[f][i] = ch[f][i]
      BY <2>2 DEF Taking
    <3> QED BY <2>1, <3>1 DEF On
  <2>3. CASE f = e /\ Used(sz, e, i)
    <3>1. Sound(g[e][i]) /\ g[e][i].st = ch[e][i].st
      BY <2>3 DEF Taking
    <3> QED BY <2>3, <3>1 DEF On
  <2> QED BY <2>2, <2>3
<1>5. ASSUME NEW f \in Ends, cl[f] PROVE v[f] = <<>> /\ \A j \in Ids : ~On(g, f, j)
  <2>1. w[f] = <<>> /\ \A j \in Ids : ~On(ch, f, j)
    BY <1>1, <1>5, Zenon DEF Typed
  <2>2. f # e
    BY <1>1, <2>1
  <2>3. v[f] = w[f]
    BY <1>1, <1>2, <2>2, RestWire
  <2> QED BY <1>4, <2>1, <2>3
<1>6. sz \in [Ends -> 0..Cardinality(Calls)] /\ cl \in [Ends -> BOOLEAN]
  BY <1>1 DEF Typed
<1> HIDE DEF v
<1>7. Typed(v, g, sz, cl)
  BY <1>1, <1>3, <1>4, <1>5, <1>6 DEF Typed
<1> QED BY <1>7 DEF v

\* What a taken message leaves of a channel as it was.
Likewise(ch, g, f, i) ==
    /\ g[f][i].rid = ch[f][i].rid /\ g[f][i].role = ch[f][i].role /\ g[f][i].k = ch[f][i].k
    /\ g[f][i].st = ch[f][i].st
    /\ g[f][i].sentEof = ch[f][i].sentEof /\ g[f][i].sentClose = ch[f][i].sentClose
    /\ i \in Ids

\* A channel that takes a message keeps its call, role and peer.
LEMMA TakeLikewise ==
  ASSUME NEW w, NEW ch, NEW sz, NEW cl, NEW g, NEW e \in Ends,
         Good(w, ch, sz, cl), Taking(w, ch, g, sz, e), NEW f \in Ends, NEW i, Used(sz, f, i)
  PROVE Likewise(ch, g, f, i)
<1>1. i \in Ids
  BY UsedSound DEF Good
<1>2. CASE f # e
  <2>1. g[f][i] = ch[f][i]
    BY <1>1, <1>2 DEF Taking
  <2> QED BY <1>1, <2>1 DEF Likewise
<1>3. CASE f = e
  BY <1>1, <1>3 DEF Taking, Likewise
<1> QED BY <1>2, <1>3

\* The channel that takes its message balances with its peer.
LEMMA TakePairsHere ==
  ASSUME NEW w, NEW ch, NEW sz, NEW cl, NEW g, NEW e \in Ends,
         Good(w, ch, sz, cl), Taking(w, ch, g, sz, e), NEW i, Used(sz, e, i)
  PROVE Pairs(Rest(w, e), g, sz, e, i)
<1> DEFINE v == Rest(w, e)
           m == Head(w[e])
           c == ch[e][i]
           d == g[e][i]
           o == Other(e)
           r == c.rid
           p == Peer(ch, e, i)
           D == Units(w[e], i, "data")
           D2 == Units(v[e], i, "data")
           R == Units(w[e], i, "adjust")
           R2 == Units(v[e], i, "adjust")
           A == Units(w[o], r, "adjust")
<1>1. Typed(w, ch, sz, cl) /\ w[e] # <<>>
  BY DEF Good, Taking
<1>2. i \in Ids /\ Sound(c)
  BY <1>1, UsedSound
<1>3. w \in [Ends -> Seq(Messages)] /\ o \in Ends /\ o # e /\ Other(o) = e
  BY <1>1, TwoEnds DEF Typed
<1>4. /\ Sound(d) /\ d.role = c.role /\ d.k = c.k /\ d.rid = c.rid
      /\ d.st = c.st /\ d.sentEof = c.sentEof /\ d.sentClose = c.sentClose
      /\ d.rwin <= c.rwin + Weight(m, i, "adjust")
      /\ c.st = "in" =>
           /\ d.mwin + Weight(m, i, "data") = c.mwin
           /\ d.end # "open" => c.end # "open" \/ (m.id = "eof" /\ m.to = i)
      /\ d = c \/ (m.id \in {"data", "adjust", "eof"} /\ m.to = i)
  BY <1>2 DEF Taking
<1>5. SUFFICES ASSUME r # 0 PROVE Pairs(v, g, sz, e, i)
  BY <1>4 DEF Pairs
<1>6. Pairs(w, ch, sz, e, i)
  BY <1>2, Zenon DEF Good
<1>7. /\ Used(sz, o, r) /\ p.role # c.role /\ p.k = c.k /\ p.rid \in {0, i}
      /\ p.rid = 0 => Untouched(c)
      /\ c.rwin + R <= Window
  BY <1>5, <1>6 DEF Pairs
<1>8. Peer(g, e, i) = p
  <2>1. r \in Ids
    BY <1>1, <1>3, <1>7, UsedSound
  <2>2. g[o][r] = ch[o][r]
    BY <1>3, <2>1 DEF Taking
  <2> QED BY <1>4, <2>2 DEF Peer
<1>9. p.rid = 0 => Untouched(d)
  <2>1. ASSUME p.rid = 0 PROVE d = c
    <3>1. m \in Range(w[e])
      BY <1>1, <1>3, RestWire
    <3>2. Tells(w, ch, sz, e, m)
      BY <3>1, Zenon DEF Good
    <3>3. m.id \in {"data", "adjust", "eof", "close"} => Linked(ch, sz, e, m.to)
      BY <3>2 DEF Tells
    <3> QED BY <1>4, <2>1, <3>3 DEF Linked
  <2> QED BY <1>7, <2>1
<1>10. /\ D = Weight(m, i, "data") + D2 /\ D2 \in Nat /\ Weight(m, i, "data") \in Nat
       /\ R = Weight(m, i, "adjust") + R2 /\ R2 \in Nat /\ Weight(m, i, "adjust") \in Nat
  BY <1>1, <1>3, RestUnits
<1>11. v[o] = w[o] /\ A \in Nat
  <2>1. w[o] \in Seq(Messages)
    BY <1>3
  <2>2. A \in Nat
    BY <2>1, UnitsType
  <2> QED BY <1>1, <1>3, <2>2, RestWire
<1>12. /\ c.rwin \in Nat /\ d.rwin \in Nat /\ c.mwin \in Nat /\ d.mwin \in Nat /\ p.rwin \in Nat
       /\ Window \in Nat
  <2>1. Sound(ch[o][r])
    BY <1>1, <1>3, <1>7, UsedSound
  <2>2. p.rwin \in 0..Window
    BY <2>1, SoundType DEF Peer
  <2>3. c.rwin \in 0..Window /\ d.rwin \in 0..Window /\ c.mwin \in 0..Window /\ d.mwin \in 0..Window
    BY <1>2, <1>4, SoundType
  <2>4. Window \in Nat
    BY DuplexSizes
  <2> HIDE DEF c, d, p
  <2> QED BY <2>2, <2>3, <2>4
<1>13. d.rwin + R2 <= Window
  <2> DEFINE x == Weight(m, i, "adjust")
  <2>1. d.rwin <= c.rwin + x /\ R = x + R2 /\ x \in Nat /\ R2 \in Nat /\ c.rwin + R <= Window
    BY <1>4, <1>7, <1>10
  <2> HIDE DEF x, R, R2, c, d
  <2> QED BY <1>12, <2>1
<1>14. ASSUME d.st = "in", p.rid # 0
       PROVE /\ p.rwin + D2 + A <= d.mwin
             /\ ~d.sentClose /\ p.st = "in" => p.rwin + D2 + A = d.mwin
             /\ ~d.sentClose /\ d.end # "open" =>
                  p.sentEof /\ \A y \in Range(v[e]) : y.id = "data" => y.to # i
  <2>1. On(ch, e, i) /\ c.st = "in" /\ (~d.sentClose <=> ~c.sentClose)
    BY <1>4, <1>14 DEF On
  <2>2. /\ p.rwin + D + A <= c.mwin
        /\ ~c.sentClose /\ p.st = "in" => p.rwin + D + A = c.mwin
        /\ ~c.sentClose /\ c.end # "open" =>
             p.sentEof /\ \A y \in Range(w[e]) : y.id = "data" => y.to # i
    BY <1>5, <1>6, <1>14, <2>1 DEF Pairs
  <2>3. /\ p.rwin + D2 + A <= d.mwin
        /\ ~d.sentClose /\ p.st = "in" => p.rwin + D2 + A = d.mwin
    <3> DEFINE x == Weight(m, i, "data")
    <3>1. D = x + D2 /\ x \in Nat /\ D2 \in Nat /\ d.mwin + x = c.mwin
      BY <1>4, <1>10, <2>1
    <3>2. p.rwin + D + A <= c.mwin /\ (~d.sentClose /\ p.st = "in" => p.rwin + D + A = c.mwin)
      BY <2>1, <2>2
    <3> HIDE DEF x, D, D2, A, c, d, p
    <3> QED BY <1>11, <1>12, <3>1, <3>2
  <2>4. ASSUME ~d.sentClose, d.end # "open"
        PROVE p.sentEof /\ \A y \in Range(v[e]) : y.id = "data" => y.to # i
    <3>1. Range(v[e]) \subseteq Range(w[e])
      BY <1>1, <1>3, RestWire
    <3>2. CASE c.end # "open"
      BY <2>1, <2>2, <2>4, <3>1, <3>2
    <3>3. CASE m.id = "eof" /\ m.to = i
      <4>1. m \in Range(w[e]) /\ w[e] \in Seq(Messages) /\ v[e] = Tail(w[e])
        BY <1>1, <1>3, RestWire
      <4>2. Tells(w, ch, sz, e, m)
        BY <4>1, Zenon DEF Good
      <4>3. p.sentEof
        BY <3>3, <4>2 DEF Tells
      <4>4. Ordered(w[e])
        BY DEF Good
      <4>5. \A y \in Range(v[e]) : Apart(m, y)
        BY <1>1, <4>1, <4>4, TailWire
      <4> QED BY <3>3, <4>3, <4>5 DEF Apart
    <3> QED BY <1>4, <2>1, <2>4, <3>2, <3>3
  <2> QED BY <2>3, <2>4
<1>15. Pairs(v, g, sz, e, i)
  <2>1. d.rid = r /\ On(g, e, i) = (d.st = "in") /\ Used(sz, Other(e), r)
    BY <1>4, <1>7 DEF On
  <2>2. p.role # d.role /\ p.k = d.k /\ p.rid \in {0, i}
    BY <1>4, <1>7
  <2>3. v[o] = w[o]
    BY <1>11
  <2> HIDE DEF c, d, p, v
  <2> QED BY <1>5, <1>8, <1>9, <1>13, <1>14, <2>1, <2>2, <2>3 DEF Pairs, d
<1> QED BY <1>15

\* The sender balances with the channel that took its message.
LEMMA TakePairsThere ==
  ASSUME NEW w, NEW ch, NEW sz, NEW cl, NEW g, NEW e \in Ends,
         Good(w, ch, sz, cl), Taking(w, ch, g, sz, e), NEW j, Used(sz, Other(e), j)
  PROVE Pairs(Rest(w, e), g, sz, Other(e), j)
<1> DEFINE v == Rest(w, e)
           m == Head(w[e])
           o == Other(e)
           x == ch[o][j]
           r == x.rid
           c == ch[e][r]
           d == g[e][r]
           D == Units(w[o], j, "data")
           R == Units(w[o], j, "adjust")
           A == Units(w[e], r, "adjust")
           A2 == Units(v[e], r, "adjust")
<1>1. Typed(w, ch, sz, cl) /\ w[e] # <<>>
  BY DEF Good, Taking
<1>2. w \in [Ends -> Seq(Messages)] /\ o \in Ends /\ o # e /\ Other(o) = e
  BY <1>1, TwoEnds DEF Typed
<1>3. j \in Ids /\ Sound(x)
  BY <1>1, <1>2, UsedSound
<1>4. g[o][j] = x
  BY <1>2, <1>3 DEF Taking
<1>5. SUFFICES ASSUME r # 0 PROVE Pairs(v, g, sz, o, j)
  BY <1>4 DEF Pairs
<1>6. Peer(ch, o, j) = c /\ Peer(g, o, j) = d
  BY <1>2, <1>4 DEF Peer
<1>7. Pairs(w, ch, sz, o, j)
  BY <1>2, <1>3, Zenon DEF Good
<1>8. /\ Used(sz, e, r) /\ c.role # x.role /\ c.k = x.k /\ c.rid \in {0, j}
      /\ c.rid = 0 => Untouched(x)
      /\ x.rwin + R <= Window
  BY <1>2, <1>5, <1>6, <1>7 DEF Pairs
<1>9. r \in Ids /\ Sound(c)
  BY <1>1, <1>8, UsedSound
<1>10. /\ Sound(d) /\ d.role = c.role /\ d.k = c.k /\ d.rid = c.rid
       /\ d.st = c.st /\ d.sentEof = c.sentEof /\ d.sentClose = c.sentClose
       /\ d.rwin <= c.rwin + Weight(m, r, "adjust")
       /\ c.st = "in" => d.rwin = c.rwin + Weight(m, r, "adjust")
  BY <1>8, <1>9 DEF Taking
<1>11. A = Weight(m, r, "adjust") + A2 /\ A2 \in Nat /\ Weight(m, r, "adjust") \in Nat
  BY <1>1, <1>2, RestUnits
<1>12. v[o] = w[o] /\ D \in Nat
  <2>1. w[o] \in Seq(Messages)
    BY <1>2
  <2>2. D \in Nat
    BY <2>1, UnitsType
  <2> QED BY <1>1, <1>2, <2>2, RestWire
<1>13. c.rwin \in Nat /\ d.rwin \in Nat /\ x.mwin \in Nat
  <2>1. c.rwin \in 0..Window /\ d.rwin \in 0..Window /\ x.mwin \in 0..Window
    BY <1>3, <1>9, <1>10, SoundType
  <2> HIDE DEF c, d, x
  <2> QED BY <2>1
<1>14. ASSUME x.st = "in", c.rid # 0
       PROVE /\ d.rwin + D + A2 <= x.mwin
             /\ ~x.sentClose /\ d.st = "in" => d.rwin + D + A2 = x.mwin
             /\ ~x.sentClose /\ x.end # "open" =>
                  d.sentEof /\ \A y \in Range(w[o]) : y.id = "data" => y.to # j
  <2>1. On(ch, o, j)
    BY <1>14 DEF On
  <2>2. /\ c.rwin + D + A <= x.mwin
        /\ ~x.sentClose /\ c.st = "in" => c.rwin + D + A = x.mwin
        /\ ~x.sentClose /\ x.end # "open" =>
             c.sentEof /\ \A y \in Range(w[o]) : y.id = "data" => y.to # j
    BY <1>2, <1>5, <1>6, <1>7, <1>14, <2>1 DEF Pairs
  <2>3. /\ d.rwin + D + A2 <= x.mwin
        /\ ~x.sentClose /\ d.st = "in" => d.rwin + D + A2 = x.mwin
    <3> DEFINE u == Weight(m, r, "adjust")
    <3>1. /\ A = u + A2 /\ u \in Nat /\ A2 \in Nat /\ d.rwin <= c.rwin + u
          /\ d.st = "in" => d.rwin = c.rwin + u
      BY <1>10, <1>11
    <3>2. c.rwin + D + A <= x.mwin /\ (~x.sentClose /\ d.st = "in" => c.rwin + D + A = x.mwin)
      BY <1>10, <2>2
    <3> HIDE DEF u, D, A, A2, c, d, x
    <3> QED BY <1>12, <1>13, <3>1, <3>2
  <2> QED BY <1>10, <2>2, <2>3
<1>15. Pairs(v, g, sz, o, j)
  <2>1. On(g, o, j) = (x.st = "in") /\ Used(sz, Other(o), r) /\ v[Other(o)] = v[e]
    BY <1>2, <1>4, <1>8 DEF On
  <2>2. d.role # x.role /\ d.k = x.k /\ d.rid \in {0, j} /\ (d.rid = 0 => Untouched(x)) /\ d.rid = c.rid
    BY <1>8, <1>10
  <2>3. v[o] = w[o] /\ Other(o) = e
    BY <1>2, <1>12
  <2> HIDE DEF c, d, v
  <2> QED BY <1>4, <1>5, <1>6, <1>8, <1>14, <2>1, <2>2, <2>3 DEF Pairs
<1> QED BY <1>15

\* The messages left are true of the channels when one is taken.
LEMMA TakeTells ==
  ASSUME NEW w, NEW ch, NEW sz, NEW cl, NEW g, NEW e \in Ends,
         Good(w, ch, sz, cl), Taking(w, ch, g, sz, e)
  PROVE \A f \in Ends : \A m \in Range(Rest(w, e)[f]) : Tells(Rest(w, e), g, sz, f, m)
<1> DEFINE v == Rest(w, e)
<1>1. Typed(w, ch, sz, cl) /\ w[e] # <<>> /\ w \in [Ends -> Seq(Messages)]
  BY DEF Good, Taking, Typed
<1>2. \A f \in Ends : Range(v[f]) \subseteq Range(w[f])
  BY <1>1, RestWire
<1> HIDE DEF v
<1>3. ASSUME NEW f \in Ends, NEW m \in Range(v[f]) PROVE Tells(v, g, sz, f, m)
  <2>1. Tells(w, ch, sz, f, m)
    BY <1>2, Zenon DEF Good
  <2>2. Other(f) \in Ends
    BY TwoEnds
  <2>3. \A j : Used(sz, f, j) => Likewise(ch, g, f, j)
    BY TakeLikewise
  <2>4. \A j : Used(sz, Other(f), j) => Likewise(ch, g, Other(f), j)
    BY <2>2, TakeLikewise
  <2>5. m.id = "open" =>
         /\ Used(sz, Other(f), m.from) /\ g[Other(f)][m.from].role = "caller"
         /\ g[Other(f)][m.from].rid = 0
         /\ \A j \in Ids : Used(sz, f, j) => g[f][j].rid # m.from
         /\ \A x \in Range(v[Other(f)]) : x.id # "open" => x.to # m.from
    BY <1>2, <2>1, <2>2, <2>3, <2>4 DEF Tells, Likewise
  <2>6. m.id \in {"confirm", "failure"} =>
         Used(sz, f, m.to) /\ g[f][m.to].role = "caller" /\ g[f][m.to].rid = 0
    BY <2>1, <2>3 DEF Tells, Likewise
  <2>7. /\ m.id = "confirm" => Used(sz, Other(f), m.from) /\ g[Other(f)][m.from].rid = m.to
        /\ m.id = "failure" => \A j \in Ids : Used(sz, Other(f), j) => g[Other(f)][j].rid # m.to
    BY <2>1, <2>4 DEF Tells, Likewise
  <2>8. ASSUME m.id \in {"data", "adjust", "eof", "close"}
        PROVE Linked(g, sz, f, m.to) /\ (m.id = "eof" => Peer(g, f, m.to).sentEof)
    <3>1. Linked(ch, sz, f, m.to) /\ (m.id = "eof" => Peer(ch, f, m.to).sentEof)
      BY <2>1, <2>8 DEF Tells
    <3>2. Used(sz, f, m.to) /\ ch[f][m.to].rid # 0
      BY <3>1 DEF Linked
    <3>3. Used(sz, Other(f), ch[f][m.to].rid)
      BY <3>2, Mutual
    <3>4. Likewise(ch, g, f, m.to) /\ Likewise(ch, g, Other(f), ch[f][m.to].rid)
      BY <2>3, <2>4, <3>2, <3>3
    <3> QED BY <3>1, <3>4 DEF Likewise, Linked, Peer
  <2> QED BY <2>5, <2>6, <2>7, <2>8 DEF Tells
<1> QED BY <1>3 DEF v

\* Whatever message is taken, the invariant stays.
LEMMA Take ==
  ASSUME NEW w, NEW ch, NEW sz, NEW cl, NEW g, NEW e \in Ends,
         Good(w, ch, sz, cl), Taking(w, ch, g, sz, e)
  PROVE Good(Rest(w, e), g, sz, cl)
<1> DEFINE v == Rest(w, e)
<1>1. Typed(w, ch, sz, cl) /\ w[e] # <<>> /\ w \in [Ends -> Seq(Messages)] /\ Apiece(ch, sz)
  BY DEF Good, Taking, Typed
<1>2. Typed(v, g, sz, cl)
  BY TakeTyped
<1>3. Apiece(g, sz)
  <2>1. SUFFICES ASSUME NEW f \in Ends, NEW j \in Ids, NEW l \in Ids, Used(sz, f, j), Used(sz, f, l)
                 PROVE /\ g[f][j].role = "caller" <=> Caller[g[f][j].k] = f
                       /\ j # l => g[f][j].k # g[f][l].k
                       /\ j # l /\ g[f][j].rid # 0 => g[f][j].rid # g[f][l].rid
    BY DEF Apiece
  <2>2. /\ ch[f][j].role = "caller" <=> Caller[ch[f][j].k] = f
        /\ j # l => ch[f][j].k # ch[f][l].k
        /\ j # l /\ ch[f][j].rid # 0 => ch[f][j].rid # ch[f][l].rid
    BY <1>1, <2>1 DEF Apiece
  <2>3. Likewise(ch, g, f, j) /\ Likewise(ch, g, f, l)
    BY <2>1, TakeLikewise
  <2> QED BY <2>2, <2>3 DEF Likewise
<1>4. \A f \in Ends, j \in Ids : Used(sz, f, j) => Pairs(v, g, sz, f, j)
  <2>1. SUFFICES ASSUME NEW f \in Ends, NEW j \in Ids, Used(sz, f, j) PROVE Pairs(v, g, sz, f, j)
    OBVIOUS
  <2>2. CASE f = e
    BY <2>1, <2>2, TakePairsHere
  <2>3. CASE f = Other(e)
    BY <2>1, <2>3, TakePairsThere
  <2> QED BY <2>2, <2>3, TwoEnds
<1>5. \A f \in Ends : \A m \in Range(v[f]) : Tells(v, g, sz, f, m)
  BY TakeTells
<1>6. \A f \in Ends : Ordered(v[f])
  BY <1>1, RestOrdered DEF Good
<1> HIDE DEF v
<1>7. Good(v, g, sz, cl)
  BY <1>2, <1>3, <1>4, <1>5, <1>6 DEF Good
<1> QED BY <1>7 DEF v

\* The caller learns which channel serves it.
Confirming(w, ch, sz, e, d) ==
    LET m == Head(w[e]) c == ch[e][m.to] IN
    /\ w[e] # <<>> /\ m.id = "confirm" /\ c.st = "in"
    /\ Sound(d) /\ d.rid = m.from /\ d.rwin = Window
    /\ d.role = c.role /\ d.k = c.k /\ d.st = c.st /\ d.mwin = c.mwin /\ d.end = c.end

\* Nothing but the confirmation is on its way between the two.
Fresh(w, ch, sz, e, i, r) ==
    /\ Used(sz, e, i) /\ i \in Ids /\ i # 0 /\ Used(sz, Other(e), r) /\ r \in Ids /\ r # 0
    /\ Sound(ch[e][i]) /\ Sound(ch[Other(e)][r])
    /\ ch[e][i].role = "caller" /\ ch[e][i].rid = 0
    /\ ch[Other(e)][r].rid = i /\ ch[Other(e)][r].role = "responder"
    /\ ch[Other(e)][r].k = ch[e][i].k /\ Untouched(ch[Other(e)][r])
    /\ \A x \in Range(w[e]) : x.id \in {"data", "adjust", "eof", "close"} => x.to # i
    /\ \A x \in Range(w[Other(e)]) : x.id \in {"data", "adjust", "eof", "close"} => x.to # r

\* A channel confirmed had not heard of its peer, nor its peer from it.
LEMMA ConfirmFresh ==
  ASSUME NEW w, NEW ch, NEW sz, NEW cl, NEW e \in Ends, NEW d,
         Good(w, ch, sz, cl), Confirming(w, ch, sz, e, d)
  PROVE Fresh(w, ch, sz, e, Head(w[e]).to, Head(w[e]).from)
<1> SUFFICES ASSUME NEW i, NEW r, i = Head(w[e]).to, r = Head(w[e]).from
             PROVE Fresh(w, ch, sz, e, i, r)
  OBVIOUS
<1> DEFINE m == Head(w[e])
           o == Other(e)
<1>1. Typed(w, ch, sz, cl) /\ w[e] # <<>> /\ w \in [Ends -> Seq(Messages)] /\ m.id = "confirm"
  BY DEF Good, Confirming, Typed
<1>2. o \in Ends /\ Other(o) = e
  BY TwoEnds
<1>3. Tells(w, ch, sz, e, m)
  <2>1. m \in Range(w[e])
    BY <1>1, RestWire
  <2> QED BY <2>1, Zenon DEF Good
<1>4. /\ Used(sz, e, i) /\ ch[e][i].role = "caller" /\ ch[e][i].rid = 0
      /\ Used(sz, o, r) /\ ch[o][r].rid = i
  BY <1>1, <1>3 DEF Tells
<1>5. i \in Ids /\ i # 0 /\ r \in Ids /\ r # 0 /\ Sound(ch[e][i]) /\ Sound(ch[o][r])
  BY <1>1, <1>2, <1>4, UsedSound, Size
<1>6. Peer(ch, o, r) = ch[e][i]
  BY <1>2, <1>4 DEF Peer
<1>7. Pairs(w, ch, sz, o, r)
  BY <1>2, <1>4, <1>5, Zenon DEF Good
<1>8. ch[o][r].role # "caller" /\ ch[o][r].k = ch[e][i].k /\ Untouched(ch[o][r])
  BY <1>4, <1>5, <1>6, <1>7 DEF Pairs
<1>9. ch[o][r].role = "responder"
  <2>1. ch[o][r].role \in {"caller", "responder"}
    BY <1>5, SoundType
  <2> QED BY <1>8, <2>1
<1>10. ASSUME NEW x \in Range(w[e]), x.id \in {"data", "adjust", "eof", "close"} PROVE x.to # i
  <2>1. Tells(w, ch, sz, e, x)
    BY Zenon DEF Good
  <2>2. ch[e][x.to].rid # 0
    BY <1>10, <2>1 DEF Tells, Linked
  <2> QED BY <1>4, <2>2
<1>11. ASSUME NEW x \in Range(w[o]), x.id \in {"data", "adjust", "eof", "close"} PROVE x.to # r
  <2>1. Tells(w, ch, sz, o, x)
    BY <1>2, Zenon DEF Good
  <2>2. Peer(ch, o, x.to).rid # 0
    BY <1>11, <2>1 DEF Tells, Linked
  <2> QED BY <1>4, <1>6, <2>2
<1> HIDE DEF m
<1> QED BY <1>4, <1>5, <1>8, <1>9, <1>10, <1>11 DEF Fresh

\* One channel is another, and the others are as they were.
Replaced(ch, g, e, i, d) ==
    /\ g[e][i] = d
    /\ \A f \in Ends, j \in Ids : f # e \/ j # i => g[f][j] = ch[f][j]

\* Channels balance when one has been confirmed.
LEMMA ConfirmPairs ==
  ASSUME NEW w, NEW ch, NEW sz, NEW cl, NEW e \in Ends, NEW d,
         Good(w, ch, sz, cl), Confirming(w, ch, sz, e, d),
         NEW g, Replaced(ch, g, e, Head(w[e]).to, d),
         NEW f \in Ends, NEW j, Used(sz, f, j)
  PROVE Pairs(Rest(w, e), g, sz, f, j)
<1> DEFINE v == Rest(w, e)
           o == Other(e)
<1>1. PICK i, r : i = Head(w[e]).to /\ r = Head(w[e]).from
  OBVIOUS
<1>0. Fresh(w, ch, sz, e, i, r)
  BY <1>1, ConfirmFresh
<1>2. /\ Used(sz, e, i) /\ i \in Ids /\ i # 0 /\ Used(sz, o, r) /\ r \in Ids /\ r # 0
      /\ Sound(ch[e][i]) /\ Sound(ch[o][r])
      /\ ch[e][i].role = "caller" /\ ch[e][i].rid = 0
      /\ ch[o][r].rid = i /\ ch[o][r].role = "responder"
      /\ ch[o][r].k = ch[e][i].k /\ Untouched(ch[o][r])
  BY <1>0 DEF Fresh
<1>3. /\ \A x \in Range(w[e]) : x.id \in {"data", "adjust"} => x.to # i
      /\ \A x \in Range(w[o]) : x.id \in {"data", "adjust"} => x.to # r
  BY <1>0 DEF Fresh
<1>4. Typed(w, ch, sz, cl) /\ w[e] # <<>> /\ w \in [Ends -> Seq(Messages)] /\ Apiece(ch, sz)
  BY DEF Good, Confirming, Typed
<1>5. o \in Ends /\ o # e /\ Other(o) = e /\ (f = e \/ f = o)
  BY TwoEnds
<1>6. v \in [Ends -> Seq(Messages)] /\ v[o] = w[o] /\ Range(v[e]) \subseteq Range(w[e])
  BY <1>4, <1>5, RestWire
<1>7. g[e][i] = d /\ g[o][r] = ch[o][r]
  BY <1>1, <1>2, <1>5 DEF Replaced
<1>8. /\ d.rid = r /\ d.rwin = Window /\ d.role = "caller" /\ d.k = ch[e][i].k /\ d.st = "in"
      /\ ch[e][i].st = "in" /\ d.mwin = ch[e][i].mwin /\ d.end = ch[e][i].end
  BY <1>1, <1>2 DEF Confirming
<1>9. d.mwin = Window /\ d.end = "open"
  BY <1>2, <1>8 DEF Sound
<1>10. Window \in Nat
  BY DuplexSizes
<1> HIDE DEF v
<1>11. ASSUME NEW id \in {"data", "adjust"}
       PROVE Units(v[e], i, id) = 0 /\ Units(v[o], r, id) = 0
  <2>1. v[e] \in Seq(Messages) /\ v[o] \in Seq(Messages)
    BY <1>5, <1>6
  <2>2. \A m \in Range(v[e]) : m.id = id => m.to # i
    BY <1>3, <1>6
  <2>3. \A m \in Range(v[o]) : m.id = id => m.to # r
    BY <1>3, <1>6
  <2> QED BY <2>1, <2>2, <2>3, UnitsType
<1>12. CASE f = e /\ j = i
  <2>1. Peer(g, e, i) = ch[o][r]
    BY <1>7, <1>8 DEF Peer
  <2>2. /\ ch[o][r].rwin = Window /\ Used(sz, Other(e), r)
    BY <1>2 DEF Untouched
  <2>3. Units(v[e], i, "data") = 0 /\ Units(v[e], i, "adjust") = 0 /\ Units(v[o], r, "adjust") = 0
    BY <1>11
  <2>4. On(g, e, i) /\ Sound(d)
    BY <1>7, <1>8 DEF On, Confirming
  <2>5. Pairs(v, g, sz, e, i)
    BY <1>2, <1>5, <1>7, <1>8, <1>9, <1>10, <2>1, <2>2, <2>3, <2>4 DEF Pairs
  <2> QED BY <1>12, <2>5 DEF v
<1>13. CASE f = o /\ j = r
  <2>1. Peer(g, o, r) = d
    BY <1>2, <1>5, <1>7 DEF Peer
  <2>2. /\ ch[o][r].rwin = Window /\ ch[o][r].mwin = Window
        /\ ch[o][r].st = "in" => ch[o][r].end = "open"
    BY <1>2 DEF Untouched
  <2>3. Units(v[o], r, "data") = 0 /\ Units(v[o], r, "adjust") = 0 /\ Units(v[e], i, "adjust") = 0
    BY <1>11
  <2>4. On(g, o, r) = (ch[o][r].st = "in")
    BY <1>7 DEF On
  <2>5. d.rid \in {0, r} /\ d.rid # 0 /\ d.role # ch[o][r].role /\ d.k = ch[o][r].k
    BY <1>2, <1>8
  <2>6. Pairs(v, g, sz, o, r)
    <3> DEFINE x == ch[o][r]
    <3>1. g[o][r] = x /\ x.rid = i /\ Other(o) = e /\ Used(sz, e, i)
      BY <1>2, <1>5, <1>7
    <3>2. /\ x.rwin = Window /\ x.mwin = Window /\ On(g, o, r) = (x.st = "in")
          /\ x.st = "in" => x.end = "open"
      BY <2>2, <2>4
    <3>3. d.rid # 0 /\ d.rid = r /\ d.role # x.role /\ d.k = x.k /\ d.rwin = Window
      BY <1>8, <2>5
    <3>4. Window + 0 <= Window /\ Window + 0 + 0 = Window /\ Window + 0 + 0 <= Window
      BY <1>10
    <3>5. PICK n : n = o /\ Other(n) = e
      BY <3>1
    <3> HIDE DEF x, o
    <3>6. Pairs(v, g, sz, n, r)
      BY <1>2, <2>1, <2>3, <3>1, <3>2, <3>3, <3>4, <3>5 DEF Pairs
    <3> QED BY <3>5, <3>6
  <2> QED BY <1>13, <2>6 DEF v
<1>14. CASE (f = e /\ j # i) \/ (f = o /\ j # r)
  <2>1. j \in Ids
    BY <1>4, UsedSound
  <2>2. g[f][j] = ch[f][j]
    BY <1>1, <1>5, <1>14, <2>1 DEF Replaced
  <2>3. SUFFICES ASSUME ch[f][j].rid # 0 PROVE Pairs(v, g, sz, f, j)
    BY <2>2 DEF Pairs, v
  <2>4. Pairs(w, ch, sz, f, j)
    BY <2>1, Zenon DEF Good
  <2>5. PICK q : q = ch[f][j].rid
    OBVIOUS
  <2>6. Used(sz, Other(f), q) /\ q \in Ids
    <3>1. Used(sz, Other(f), ch[f][j].rid)
      BY <2>3, Mutual
    <3> QED BY <1>4, <2>5, <3>1, TwoEnds, UsedSound
  <2>7. ~(Other(f) = e /\ q = i)
    BY <1>2, <1>4, <1>5, <1>14, <2>1, <2>3, <2>5 DEF Apiece
  <2>8. Peer(g, f, j) = Peer(ch, f, j)
    <3>1. g[Other(f)][q] = ch[Other(f)][q]
      BY <1>1, <2>6, <2>7, TwoEnds DEF Replaced
    <3> QED BY <2>2, <2>5, <3>1 DEF Peer
  <2>9. ASSUME NEW h \in Ends, NEW l, NEW id \in {"data", "adjust"}
        PROVE Units(v[h], l, id) = Units(w[h], l, id)
    <3>1. CASE h # e
      BY <1>5, <1>6, <3>1, TwoEnds
    <3>2. CASE h = e
      <4>1. /\ Units(w[e], l, id) = Weight(Head(w[e]), l, id) + Units(v[e], l, id)
            /\ Units(v[e], l, id) \in Nat
        BY <1>4, RestUnits DEF v
      <4>2. Weight(Head(w[e]), l, id) = 0
        BY DEF Confirming, Weight
      <4> QED BY <3>2, <4>1, <4>2
    <3> QED BY <3>1, <3>2
  <2>10. /\ Units(v[f], j, "data") = Units(w[f], j, "data")
         /\ Units(v[f], j, "adjust") = Units(w[f], j, "adjust")
         /\ Units(v[Other(f)], q, "adjust") = Units(w[Other(f)], q, "adjust")
    BY <2>9, TwoEnds
  <2>11. Range(v[f]) \subseteq Range(w[f])
    BY <1>5, <1>6
  <2>12. On(g, f, j) = On(ch, f, j)
    BY <2>2 DEF On
  <2> QED BY <2>2, <2>3, <2>4, <2>5, <2>8, <2>10, <2>11, <2>12 DEF Pairs
<1> QED BY <1>5, <1>12, <1>13, <1>14 DEF v

\* A channel that is confirmed is the only one that changes.
LEMMA ConfirmReplaced ==
  ASSUME NEW w, NEW ch, NEW sz, NEW cl, NEW e \in Ends, NEW d,
         Good(w, ch, sz, cl), Confirming(w, ch, sz, e, d)
  PROVE /\ Replaced(ch, [ch EXCEPT ![e][Head(w[e]).to] = d], e, Head(w[e]).to, d)
        /\ Typed(Rest(w, e), [ch EXCEPT ![e][Head(w[e]).to] = d], sz, cl)
<1>1. PICK i, r : i = Head(w[e]).to /\ r = Head(w[e]).from
  OBVIOUS
<1>2. Fresh(w, ch, sz, e, i, r)
  BY <1>1, ConfirmFresh
<1> DEFINE v == Rest(w, e)
           g == [ch EXCEPT ![e][i] = d]
<1>3. Typed(w, ch, sz, cl) /\ w[e] # <<>> /\ w \in [Ends -> Seq(Messages)]
  BY DEF Good, Confirming, Typed
<1>4. i \in Ids /\ Used(sz, e, i) /\ Sound(d) /\ ch[e][i].st = "in" /\ d.st = "in"
  BY <1>1, <1>2 DEF Fresh, Confirming
<1>5. d \in Channel /\ ch \in [Ends -> [Ids -> Channel \cup {None}]]
  BY <1>3, <1>4, SoundType DEF Typed
<1>6. g \in [Ends -> [Ids -> Channel \cup {None}]]
  BY <1>4, <1>5
<1>7. g[e][i] = d /\ \A f \in Ends, j \in Ids : f # e \/ j # i => g[f][j] = ch[f][j]
  BY <1>4, <1>5
<1>8. v \in [Ends -> Seq(Messages)]
  BY <1>3, RestWire
<1>9. ASSUME NEW f \in Ends, NEW j \in Ids
      PROVE /\ IF Used(sz, f, j) THEN Sound(g[f][j]) ELSE g[f][j] = None
            /\ On(g, f, j) => On(ch, f, j)
  <2>1. IF Used(sz, f, j) THEN Sound(ch[f][j]) ELSE ch[f][j] = None
    BY <1>3, Zenon DEF Typed
  <2> HIDE DEF g
  <2>2. CASE f = e /\ j = i
    BY <1>4, <1>7, <2>2 DEF On
  <2>3. CASE f # e \/ j # i
    <3>1. g[f][j] = ch[f][j]
      BY <1>7, <2>3
    <3> QED BY <2>1, <3>1 DEF On
  <2> QED BY <2>2, <2>3
<1>10. ASSUME NEW f \in Ends, cl[f] PROVE v[f] = <<>> /\ \A j \in Ids : ~On(g, f, j)
  <2>1. w[f] = <<>> /\ \A j \in Ids : ~On(ch, f, j)
    BY <1>3, <1>10, Zenon DEF Typed
  <2>2. f # e
    BY <1>3, <2>1
  <2>3. v[f] = w[f]
    BY <1>3, <2>2, RestWire
  <2> HIDE DEF g
  <2> QED BY <1>9, <2>1, <2>3
<1>11. sz \in [Ends -> 0..Cardinality(Calls)] /\ cl \in [Ends -> BOOLEAN]
  BY <1>3 DEF Typed
<1> HIDE DEF v, g
<1>12. Typed(v, g, sz, cl)
  BY <1>6, <1>8, <1>9, <1>10, <1>11 DEF Typed
<1>13. Replaced(ch, g, e, i, d)
  BY <1>7 DEF Replaced
<1> QED BY <1>1, <1>12, <1>13 DEF v, g

\* A channel that is confirmed has a peer of its own.
LEMMA ConfirmApiece ==
  ASSUME NEW w, NEW ch, NEW sz, NEW cl, NEW e \in Ends, NEW d,
         Good(w, ch, sz, cl), Confirming(w, ch, sz, e, d),
         NEW g, Replaced(ch, g, e, Head(w[e]).to, d)
  PROVE Apiece(g, sz)
<1>1. PICK i, r : i = Head(w[e]).to /\ r = Head(w[e]).from
  OBVIOUS
<1>2. Fresh(w, ch, sz, e, i, r)
  BY <1>1, ConfirmFresh
<1>3. Apiece(ch, sz) /\ Other(e) \in Ends
  BY TwoEnds DEF Good
<1>4. /\ g[e][i] = d /\ d.rid = r /\ d.role = ch[e][i].role /\ d.k = ch[e][i].k
      /\ \A f \in Ends, j \in Ids : f # e \/ j # i => g[f][j] = ch[f][j]
  BY <1>1 DEF Confirming, Replaced
<1>5. \A f \in Ends, j \in Ids :
        /\ g[f][j].role = ch[f][j].role /\ g[f][j].k = ch[f][j].k
        /\ f # e \/ j # i => g[f][j].rid = ch[f][j].rid
  BY <1>4
<1>6. ASSUME NEW j \in Ids, Used(sz, e, j), j # i PROVE ch[e][j].rid # r
  <2>1. SUFFICES ASSUME ch[e][j].rid = r PROVE FALSE
    OBVIOUS
  <2>2. r # 0 /\ ch[Other(e)][r].rid = i /\ i # 0
    BY <1>2 DEF Fresh
  <2>3. Peer(ch, e, j).rid \in {0, j}
    BY <1>6, <2>1, <2>2, Mutual
  <2> QED BY <1>6, <2>1, <2>2, <2>3 DEF Peer
<1>7. SUFFICES ASSUME NEW f \in Ends, NEW j \in Ids, NEW l \in Ids, Used(sz, f, j), Used(sz, f, l)
               PROVE /\ g[f][j].role = "caller" <=> Caller[g[f][j].k] = f
                     /\ j # l => g[f][j].k # g[f][l].k
                     /\ j # l /\ g[f][j].rid # 0 => g[f][j].rid # g[f][l].rid
  BY DEF Apiece
<1>8. /\ ch[f][j].role = "caller" <=> Caller[ch[f][j].k] = f
      /\ j # l => ch[f][j].k # ch[f][l].k
      /\ j # l /\ ch[f][j].rid # 0 => ch[f][j].rid # ch[f][l].rid
  BY <1>3, <1>7 DEF Apiece
<1>9. j # l /\ g[f][j].rid # 0 => g[f][j].rid # g[f][l].rid
  <2>1. CASE f # e \/ (j # i /\ l # i)
    BY <1>5, <1>8, <2>1
  <2>2. CASE f = e /\ j = i
    BY <1>4, <1>5, <1>6, <1>7, <2>2
  <2>3. CASE f = e /\ l = i
    BY <1>4, <1>5, <1>6, <1>7, <2>3
  <2> QED BY <2>1, <2>2, <2>3
<1> QED BY <1>5, <1>8, <1>9

\* The messages left are true of the channels when one is confirmed.
LEMMA ConfirmTells ==
  ASSUME NEW w, NEW ch, NEW sz, NEW cl, NEW e \in Ends, NEW d,
         Good(w, ch, sz, cl), Confirming(w, ch, sz, e, d),
         NEW g, Replaced(ch, g, e, Head(w[e]).to, d),
         NEW f \in Ends, NEW x \in Range(Rest(w, e)[f])
  PROVE Tells(Rest(w, e), g, sz, f, x)
<1> DEFINE v == Rest(w, e)
           o == Other(e)
<1>1. PICK i, r : i = Head(w[e]).to /\ r = Head(w[e]).from
  OBVIOUS
<1>2. Fresh(w, ch, sz, e, i, r)
  BY <1>1, ConfirmFresh
<1>3. Typed(w, ch, sz, cl) /\ w[e] # <<>> /\ w \in [Ends -> Seq(Messages)]
  BY DEF Good, Confirming, Typed
<1>4. o \in Ends /\ o # e /\ Other(o) = e /\ (f = e \/ f = o)
  BY TwoEnds
<1>5. \A h \in Ends : Range(v[h]) \subseteq Range(w[h])
  BY <1>3, RestWire
<1>6. /\ g[e][i] = d /\ d.rid = r /\ d.role = ch[e][i].role
      /\ \A h \in Ends, j \in Ids : h # e \/ j # i => g[h][j] = ch[h][j]
  BY <1>1 DEF Confirming, Replaced
<1>7. /\ ch[e][i].rid = 0 /\ i # 0 /\ r # 0 /\ i \in Ids /\ Used(sz, e, i)
      /\ ch[o][r].rid = i /\ ch[o][r].role = "responder" /\ Used(sz, o, r)
  BY <1>2 DEF Fresh
<1>8. Tells(w, ch, sz, f, x)
  BY <1>5, Zenon DEF Good
<1>9. \A h \in Ends : \A j : Used(sz, h, j) => j \in Ids
  BY <1>3, UsedSound
<1>10. f = e => Apart(Head(w[e]), x)
  <2>1. Ordered(w[e]) /\ w[e] \in Seq(Messages) /\ Rest(w, e)[e] = Tail(w[e])
    BY <1>3, RestWire DEF Good
  <2> QED BY <1>3, <2>1, TailWire
<1>11. Head(w[e]).id = "confirm" /\ Head(w[e]) \in Range(w[e])
  BY <1>3, RestWire DEF Confirming
<1> HIDE DEF v
<1>12. ASSUME x.id = "open"
       PROVE /\ Used(sz, Other(f), x.from) /\ g[Other(f)][x.from].role = "caller"
             /\ g[Other(f)][x.from].rid = 0
             /\ \A j \in Ids : Used(sz, f, j) => g[f][j].rid # x.from
             /\ \A y \in Range(v[Other(f)]) : y.id # "open" => y.to # x.from
  <2>1. /\ Used(sz, Other(f), x.from) /\ ch[Other(f)][x.from].role = "caller"
        /\ ch[Other(f)][x.from].rid = 0
        /\ \A j \in Ids : Used(sz, f, j) => ch[f][j].rid # x.from
        /\ \A y \in Range(w[Other(f)]) : y.id # "open" => y.to # x.from
    BY <1>8, <1>12 DEF Tells
  <2>2. Other(f) \in Ends
    BY TwoEnds
  <2>3. \A y \in Range(v[Other(f)]) : y.id # "open" => y.to # x.from
    BY <1>5, <2>1, <2>2
  <2>4. CASE f = e
    <3>1. g[o][x.from] = ch[o][x.from]
      BY <1>4, <1>6, <1>9, <2>1, <2>4
    <3>2. r # x.from
      BY <1>7, <2>1, <2>4
    <3>3. \A j \in Ids : Used(sz, e, j) => g[e][j].rid # x.from
      BY <1>6, <2>1, <2>4, <3>2
    <3> QED BY <2>1, <2>3, <2>4, <3>1, <3>3
  <2>5. CASE f = o
    <3>1. x.from # i
      BY <1>1, <1>4, <1>11, <2>1, <2>5
    <3>2. g[e][x.from] = ch[e][x.from]
      BY <1>4, <1>6, <1>9, <2>1, <2>5, <3>1
    <3>3. \A j \in Ids : g[o][j] = ch[o][j]
      BY <1>4, <1>6
    <3> QED BY <1>4, <2>1, <2>3, <2>5, <3>2, <3>3
  <2> QED BY <1>4, <2>4, <2>5
<1>13. ASSUME x.id \in {"confirm", "failure"}
       PROVE Used(sz, f, x.to) /\ g[f][x.to].role = "caller" /\ g[f][x.to].rid = 0
  <2>1. Used(sz, f, x.to) /\ ch[f][x.to].role = "caller" /\ ch[f][x.to].rid = 0
    BY <1>8, <1>13 DEF Tells
  <2>2. f = e => x.to # i
    BY <1>1, <1>10, <1>11, <1>13 DEF Apart
  <2>3. g[f][x.to] = ch[f][x.to]
    BY <1>4, <1>6, <1>9, <2>1, <2>2
  <2> QED BY <2>1, <2>3
<1>14. ASSUME x.id = "confirm" PROVE Used(sz, Other(f), x.from) /\ g[Other(f)][x.from].rid = x.to
  <2>1. /\ Used(sz, Other(f), x.from) /\ ch[Other(f)][x.from].rid = x.to
        /\ Used(sz, f, x.to)
    BY <1>8, <1>14 DEF Tells
  <2>2. x.to # 0
    BY <1>9, <2>1, Size
  <2>3. Other(f) \in Ends
    BY TwoEnds
  <2>4. ~(Other(f) = e /\ x.from = i)
    BY <1>7, <2>1, <2>2
  <2>5. g[Other(f)][x.from] = ch[Other(f)][x.from]
    BY <1>6, <1>9, <2>1, <2>3, <2>4
  <2> QED BY <2>1, <2>5
<1>15. ASSUME x.id = "failure" PROVE \A j \in Ids : Used(sz, Other(f), j) => g[Other(f)][j].rid # x.to
  <2>1. /\ \A j \in Ids : Used(sz, Other(f), j) => ch[Other(f)][j].rid # x.to
        /\ ch[f][x.to].role = "caller"
    BY <1>8, <1>15 DEF Tells
  <2>2. CASE f = e
    BY <1>4, <1>6, <2>1, <2>2
  <2>3. CASE f = o
    <3>1. r # x.to
      BY <1>7, <2>1, <2>3
    <3> QED BY <1>4, <1>6, <2>1, <2>3, <3>1
  <2> QED BY <1>4, <2>2, <2>3
<1>16. ASSUME x.id \in {"data", "adjust", "eof", "close"}
       PROVE Linked(g, sz, f, x.to) /\ (x.id = "eof" => Peer(g, f, x.to).sentEof)
  <2>1. Linked(ch, sz, f, x.to) /\ (x.id = "eof" => Peer(ch, f, x.to).sentEof)
    BY <1>8, <1>16 DEF Tells
  <2>2. Used(sz, f, x.to) /\ ch[f][x.to].rid # 0 /\ Peer(ch, f, x.to).rid # 0
    BY <2>1 DEF Linked
  <2>3. Used(sz, Other(f), ch[f][x.to].rid) /\ Other(f) \in Ends
    BY <2>2, Mutual, TwoEnds
  <2>4. PICK q \in Ids : q = ch[f][x.to].rid
    BY <1>9, <2>3
  <2>5. ~(Other(f) = e /\ q = i) /\ ~(f = e /\ x.to = i)
    BY <1>7, <2>2, <2>4 DEF Peer
  <2>6. g[f][x.to] = ch[f][x.to] /\ g[Other(f)][q] = ch[Other(f)][q]
    BY <1>6, <1>9, <2>2, <2>3, <2>5
  <2>7. Peer(g, f, x.to) = Peer(ch, f, x.to)
    BY <2>4, <2>6 DEF Peer
  <2> QED BY <2>1, <2>2, <2>6, <2>7 DEF Linked
<1>17. Tells(v, g, sz, f, x)
  BY <1>12, <1>13, <1>14, <1>15, <1>16 DEF Tells
<1> QED BY <1>17 DEF v

\* The confirmation is taken, and the caller has the whole window to write.
LEMMA Confirm ==
  ASSUME NEW w, NEW ch, NEW sz, NEW cl, NEW e \in Ends, NEW d,
         Good(w, ch, sz, cl), Confirming(w, ch, sz, e, d)
  PROVE Good(Rest(w, e), [ch EXCEPT ![e][Head(w[e]).to] = d], sz, cl)
<1> DEFINE v == Rest(w, e)
           g == [ch EXCEPT ![e][Head(w[e]).to] = d]
<1>1. Replaced(ch, g, e, Head(w[e]).to, d) /\ Typed(v, g, sz, cl)
  BY ConfirmReplaced
<1> HIDE DEF g
<1>2. Apiece(g, sz)
  BY <1>1, ConfirmApiece
<1>3. \A f \in Ends, j \in Ids : Used(sz, f, j) => Pairs(v, g, sz, f, j)
  BY <1>1, ConfirmPairs
<1>4. \A f \in Ends : \A x \in Range(v[f]) : Tells(v, g, sz, f, x)
  BY <1>1, ConfirmTells
<1>5. \A f \in Ends : Ordered(v[f])
  BY RestOrdered DEF Confirming, Good, Typed
<1> HIDE DEF v
<1>6. Good(v, g, sz, cl)
  BY <1>1, <1>2, <1>3, <1>4, <1>5 DEF Good
<1> QED BY <1>6 DEF v, g

-----------------------------------------------------------------------------
(* A channel is added *)

\* There is room for the channel of a call that has none at this end.
LEMMA Room ==
  ASSUME NEW w, NEW ch, NEW sz, NEW cl, Typed(w, ch, sz, cl), Apiece(ch, sz),
         NEW e \in Ends, NEW k \in Calls, \A j \in Ids : Used(sz, e, j) => ch[e][j].k # k
  PROVE sz[e] + 1 \in Ids
<1> DEFINE rest == Calls \ {k}
<1>1. PICK n \in Nat : n = sz[e] /\ n <= Cardinality(Calls)
  <2>1. sz[e] \in 0..Cardinality(Calls)
    BY DEF Typed
  <2> QED BY <2>1, Size
<1>2. PICK f : f = [j \in 1..n |-> ch[e][j].k]
  OBVIOUS
<1>3. \A j \in 1..n : j \in Ids /\ Used(sz, e, j)
  BY <1>1, Size DEF Used
<1>4. f \in Injection(1..n, rest)
  <2>1. ASSUME NEW j \in 1..n PROVE f[j] \in rest
    <3>1. Sound(ch[e][j])
      BY <1>3, UsedSound
    <3>2. ch[e][j].k \in Calls
      BY <3>1, SoundType
    <3> QED BY <1>2, <1>3, <3>2
  <2>2. ASSUME NEW i \in 1..n, NEW j \in 1..n, f[i] = f[j] PROVE i = j
    <3>1. ch[e][i].k = ch[e][j].k
      BY <1>2, <2>2
    <3> QED BY <1>3, <3>1 DEF Apiece
  <2>3. f \in [1..n -> rest]
    BY <1>2, <2>1
  <2> QED BY <2>2, <2>3, Zenon DEF Injection, IsInjective
<1>5. IsFiniteSet(Calls) /\ IsFiniteSet(rest) /\ Cardinality(rest) = Cardinality(Calls) - 1
  <2>1. IsFiniteSet(Calls)
    BY DuplexSizes
  <2>2. /\ IsFiniteSet(rest)
        /\ Cardinality(rest) = IF k \in Calls THEN Cardinality(Calls) - 1 ELSE Cardinality(Calls)
    BY <2>1, FS_RemoveElement
  <2> QED BY <2>1, <2>2
<1>6. Cardinality(1..n) <= Cardinality(rest)
  <2>1. IsFiniteSet(rest)
    BY <1>5
  <2> HIDE DEF rest
  <2> QED BY <1>4, <2>1, FS_Injection
<1>7. Cardinality(1..n) = n
  <2>1. 1 \in Int /\ n \in Int
    OBVIOUS
  <2>2. Cardinality(1..n) = IF 1 > n THEN 0 ELSE n - 1 + 1
    BY <2>1, FS_Interval, Zenon
  <2> QED BY <2>2
<1>8. n + 1 <= Cardinality(Calls)
  BY <1>5, <1>6, <1>7, Size
<1> QED BY <1>1, <1>8, Size

\* What opening a channel, or accepting one, adds: channel c, number n of end e,
\* and the message m about it, unless the other end is closed.
Adding(w, v, ch, g, sz, s, cl, e, n, c, m) ==
    LET o == Other(e) IN
    /\ Good(w, ch, sz, cl)
    /\ n = sz[e] + 1 /\ n \in Ids /\ ~cl[e]
    /\ g = [ch EXCEPT ![e][n] = c] /\ s = [sz EXCEPT ![e] = n]
    /\ v = IF cl[o] THEN w ELSE [w EXCEPT ![o] = Append(@, m)]
    /\ m \in Messages /\ m.from = n
    /\ Sound(c) /\ (c.role = "caller" <=> Caller[c.k] = e)
    /\ \A j \in Ids : Used(sz, e, j) => ch[e][j].k # c.k
    /\ \/ m.id = "open" /\ c.role = "caller" /\ c.rid = 0
       \/ /\ m.id = "confirm" /\ m.to = c.rid /\ c.rid # 0 /\ c.role = "responder" /\ Untouched(c)
          /\ Used(sz, o, c.rid) /\ ch[o][c.rid].role = "caller" /\ ch[o][c.rid].rid = 0
          /\ ch[o][c.rid].k = c.k
          /\ \A j \in Ids : Used(sz, e, j) => ch[e][j].rid # c.rid
          /\ \A x \in Range(w[o]) : x.id # "open" => x.to # c.rid
          /\ \A x \in Range(w[e]) : x.id = "open" => x.from # c.rid

\* An end has one more channel, number n, and has sent m.
Grown(w, v, ch, g, sz, s, cl, e, n, c, m) ==
    /\ s \in [Ends -> 0..Cardinality(Calls)] /\ ~Used(sz, e, n)
    /\ \A f \in Ends : \A j : Used(s, f, j) <=> Used(sz, f, j) \/ (f = e /\ j = n)
    /\ g \in [Ends -> [Ids -> Channel \cup {None}]]
    /\ g[e][n] = c /\ \A f \in Ends, j \in Ids : f # e \/ j # n => g[f][j] = ch[f][j]
    /\ v \in [Ends -> Seq(Messages)] /\ v[e] = w[e]
    /\ v[Other(e)] = w[Other(e)] \/ (~cl[Other(e)] /\ v[Other(e)] = w[Other(e)] \o <<m>>)

\* A channel that is added is all that is new.
LEMMA AddGrown ==
  ASSUME NEW w, NEW v, NEW ch, NEW g, NEW sz, NEW s, NEW cl, NEW e \in Ends, NEW n, NEW c, NEW m,
         Adding(w, v, ch, g, sz, s, cl, e, n, c, m)
  PROVE Grown(w, v, ch, g, sz, s, cl, e, n, c, m)
<1> DEFINE o == Other(e)
<1>1. /\ Typed(w, ch, sz, cl) /\ n = sz[e] + 1 /\ n \in Ids /\ ~cl[e]
      /\ g = [ch EXCEPT ![e][n] = c] /\ s = [sz EXCEPT ![e] = n]
      /\ v = IF cl[o] THEN w ELSE [w EXCEPT ![o] = Append(@, m)]
      /\ m \in Messages /\ Sound(c)
  BY DEF Adding, Good
<1>2. /\ w \in [Ends -> Seq(Messages)] /\ sz \in [Ends -> 0..Cardinality(Calls)]
      /\ ch \in [Ends -> [Ids -> Channel \cup {None}]]
  BY <1>1 DEF Typed
<1>3. o \in Ends /\ o # e
  BY TwoEnds
<1>4. c \in Channel
  BY <1>1, SoundType
<1>5. g \in [Ends -> [Ids -> Channel \cup {None}]]
  BY <1>1, <1>2, <1>4
<1>6. g[e][n] = c /\ \A f \in Ends, j \in Ids : f # e \/ j # n => g[f][j] = ch[f][j]
  BY <1>1, <1>2
<1>7. PICK b \in Nat : b = sz[e] /\ n = b + 1 /\ n <= Cardinality(Calls)
  BY <1>1, <1>2, Size
<1>8. s \in [Ends -> 0..Cardinality(Calls)] /\ s[e] = n /\ \A f \in Ends : f # e => s[f] = sz[f]
  BY <1>1, <1>2, <1>7, Size
<1>9. ~Used(sz, e, n) /\ \A j : Used(s, e, j) <=> Used(sz, e, j) \/ j = n
  BY <1>7, <1>8 DEF Used
<1>10. \A f \in Ends : \A j : Used(s, f, j) <=> Used(sz, f, j) \/ (f = e /\ j = n)
  BY <1>8, <1>9 DEF Used
<1>11. /\ v \in [Ends -> Seq(Messages)] /\ v[e] = w[e]
       /\ v[o] = w[o] \/ (~cl[o] /\ v[o] = w[o] \o <<m>>)
  <2>1. CASE cl[o]
    BY <1>1, <1>2, <2>1
  <2>2. CASE ~cl[o]
    <3>1. w[o] \in Seq(Messages) /\ w[o] \o <<m>> \in Seq(Messages)
      BY <1>1, <1>2, <1>3, AppendWire
    <3>2. Append(w[o], m) = w[o] \o <<m>>
      BY <1>1, <3>1
    <3>3. v = [w EXCEPT ![o] = w[o] \o <<m>>]
      BY <1>1, <2>2, <3>2
    <3> QED BY <1>2, <1>3, <2>2, <3>1, <3>3
  <2> QED BY <2>1, <2>2
<1> QED BY <1>5, <1>6, <1>8, <1>9, <1>10, <1>11 DEF Grown

\* Nothing speaks of the new channel yet.
LEMMA AddUnknown ==
  ASSUME NEW w, NEW ch, NEW sz, NEW cl, Good(w, ch, sz, cl),
         NEW e \in Ends, NEW n, ~Used(sz, e, n)
  PROVE /\ \A j : Used(sz, Other(e), j) /\ ch[Other(e)][j].rid # 0 => ch[Other(e)][j].rid # n
        /\ \A x \in Range(w[e]) : x.id # "open" => x.to # n
        /\ \A x \in Range(w[Other(e)]) : x.id \in {"open", "confirm"} => x.from # n
<1>1. Other(e) \in Ends /\ Other(Other(e)) = e
  BY TwoEnds
<1>2. w \in [Ends -> Seq(Messages)]
  BY DEF Good, Typed
<1>3. ASSUME NEW j, Used(sz, Other(e), j), ch[Other(e)][j].rid # 0
      PROVE ch[Other(e)][j].rid # n
  <2>1. Used(sz, Other(Other(e)), ch[Other(e)][j].rid)
    BY <1>1, <1>3, Mutual
  <2> QED BY <1>1, <2>1
<1>4. ASSUME NEW x \in Range(w[e]), x.id # "open" PROVE x.to # n
  <2>1. x \in Messages
    BY <1>2 DEF Range
  <2>2. x.id \in {"confirm", "failure", "data", "adjust", "eof", "close"}
    BY <1>4, <2>1 DEF Messages
  <2>3. Tells(w, ch, sz, e, x)
    BY Zenon DEF Good
  <2>4. Used(sz, e, x.to)
    BY <2>2, <2>3 DEF Tells, Linked
  <2> QED BY <2>4
<1>5. ASSUME NEW x \in Range(w[Other(e)]), x.id \in {"open", "confirm"} PROVE x.from # n
  <2>1. Tells(w, ch, sz, Other(e), x)
    BY <1>1, Zenon DEF Good
  <2>2. Used(sz, e, x.from)
    BY <1>1, <1>5, <2>1 DEF Tells
  <2> QED BY <2>2
<1> QED BY <1>3, <1>4, <1>5

\* Types survive a channel that is added.
LEMMA AddTyped ==
  ASSUME NEW w, NEW v, NEW ch, NEW g, NEW sz, NEW s, NEW cl, NEW e \in Ends, NEW n, NEW c, NEW m,
         Adding(w, v, ch, g, sz, s, cl, e, n, c, m)
  PROVE Typed(v, g, s, cl) /\ Apiece(g, s)
<1>1. Grown(w, v, ch, g, sz, s, cl, e, n, c, m)
  BY AddGrown
<1>2. /\ Typed(w, ch, sz, cl) /\ Apiece(ch, sz) /\ n \in Ids /\ ~cl[e] /\ Sound(c)
      /\ c.role = "caller" <=> Caller[c.k] = e
      /\ \A j \in Ids : Used(sz, e, j) => ch[e][j].k # c.k
      /\ c.rid # 0 => \A j \in Ids : Used(sz, e, j) => ch[e][j].rid # c.rid
  BY DEF Adding, Good
<1>3. /\ s \in [Ends -> 0..Cardinality(Calls)] /\ ~Used(sz, e, n)
      /\ \A f \in Ends : \A j : Used(s, f, j) <=> Used(sz, f, j) \/ (f = e /\ j = n)
      /\ g \in [Ends -> [Ids -> Channel \cup {None}]]
      /\ g[e][n] = c /\ \A f \in Ends, j \in Ids : f # e \/ j # n => g[f][j] = ch[f][j]
      /\ v \in [Ends -> Seq(Messages)] /\ v[e] = w[e]
      /\ v[Other(e)] = w[Other(e)] \/ ~cl[Other(e)]
  BY <1>1 DEF Grown
<1>4. ASSUME NEW f \in Ends, NEW j \in Ids
      PROVE IF Used(s, f, j) THEN Sound(g[f][j]) ELSE g[f][j] = None
  <2>1. IF Used(sz, f, j) THEN Sound(ch[f][j]) ELSE ch[f][j] = None
    BY <1>2, Zenon DEF Typed
  <2>2. CASE f = e /\ j = n
    BY <1>2, <1>3, <2>2
  <2>3. CASE f # e \/ j # n
    <3>1. g[f][j] = ch[f][j] /\ (Used(s, f, j) <=> Used(sz, f, j))
      BY <1>3, <2>3
    <3> QED BY <2>1, <3>1
  <2> QED BY <2>2, <2>3
<1>5. ASSUME NEW f \in Ends, cl[f] PROVE v[f] = <<>> /\ \A j \in Ids : ~On(g, f, j)
  <2>1. w[f] = <<>> /\ \A j \in Ids : ~On(ch, f, j)
    BY <1>2, <1>5, Zenon DEF Typed
  <2>2. f # e /\ f = Other(e)
    BY <1>2, <1>5, TwoEnds
  <2>3. \A j \in Ids : g[f][j] = ch[f][j]
    BY <1>3, <2>2
  <2> QED BY <1>3, <1>5, <2>1, <2>2, <2>3 DEF On
<1>6. cl \in [Ends -> BOOLEAN]
  BY <1>2 DEF Typed
<1>7. Typed(v, g, s, cl)
  BY <1>3, <1>4, <1>5, <1>6 DEF Typed
<1>8. ASSUME NEW f \in Ends, NEW j \in Ids, NEW l \in Ids, Used(s, f, j), Used(s, f, l)
      PROVE /\ g[f][j].role = "caller" <=> Caller[g[f][j].k] = f
            /\ j # l => g[f][j].k # g[f][l].k
            /\ j # l /\ g[f][j].rid # 0 => g[f][j].rid # g[f][l].rid
  <2>1. CASE f # e \/ (j # n /\ l # n)
    <3>1. Used(sz, f, j) /\ Used(sz, f, l) /\ g[f][j] = ch[f][j] /\ g[f][l] = ch[f][l]
      BY <1>3, <1>8, <2>1
    <3>2. /\ ch[f][j].role = "caller" <=> Caller[ch[f][j].k] = f
          /\ j # l => ch[f][j].k # ch[f][l].k
          /\ j # l /\ ch[f][j].rid # 0 => ch[f][j].rid # ch[f][l].rid
      BY <1>2, <3>1 DEF Apiece
    <3> QED BY <3>1, <3>2
  <2>2. CASE f = e /\ j = n /\ l = n
    BY <1>2, <1>3, <2>2
  <2>3. CASE f = e /\ j = n /\ l # n
    <3>1. Used(sz, e, l) /\ g[e][l] = ch[e][l]
      BY <1>3, <1>8, <2>3
    <3> QED BY <1>2, <1>3, <2>3, <3>1
  <2>4. CASE f = e /\ j # n /\ l = n
    <3>1. Used(sz, e, j) /\ g[e][j] = ch[e][j]
      BY <1>3, <1>8, <2>4
    <3>2. ch[e][j].role = "caller" <=> Caller[ch[e][j].k] = e
      BY <1>2, <3>1 DEF Apiece
    <3> QED BY <1>2, <1>3, <2>4, <3>1, <3>2
  <2> QED BY <2>1, <2>2, <2>3, <2>4
<1>9. Apiece(g, s)
  BY <1>8 DEF Apiece
<1> QED BY <1>7, <1>9

\* The message brings no units and grants none.
Adds(w, v, e, m) ==
    /\ \A f \in Ends, id \in {"data", "adjust"} : \A j : Units(v[f], j, id) = Units(w[f], j, id)
    /\ \A f \in Ends : \A x \in Range(v[f]) : x \in Range(w[f]) \/ (f = Other(e) /\ x = m)
    /\ m.id \in {"open", "confirm"} /\ m \in Messages
    /\ \A f \in Ends : Range(w[f]) \subseteq Range(v[f]) /\ w[f] \in Seq(Messages)

\* Adding a channel sends no bytes and no credit.
LEMMA AddUnits ==
  ASSUME NEW w, NEW v, NEW ch, NEW g, NEW sz, NEW s, NEW cl, NEW e \in Ends, NEW n, NEW c, NEW m,
         Adding(w, v, ch, g, sz, s, cl, e, n, c, m)
  PROVE Adds(w, v, e, m)
<1>1. Grown(w, v, ch, g, sz, s, cl, e, n, c, m)
  BY AddGrown
<1>2. m.id \in {"open", "confirm"} /\ m \in Messages
  BY DEF Adding
<1>3. /\ v[e] = w[e]
      /\ v[Other(e)] = w[Other(e)] \/ v[Other(e)] = w[Other(e)] \o <<m>>
  BY <1>1 DEF Grown
<1>4. w \in [Ends -> Seq(Messages)]
  BY DEF Adding, Good, Typed
<1>5. Other(e) \in Ends /\ \A f \in Ends : f = e \/ f = Other(e)
  BY TwoEnds
<1>6. ASSUME NEW id \in {"data", "adjust"}, NEW j
      PROVE Units(v[Other(e)], j, id) = Units(w[Other(e)], j, id)
  <2>1. PICK u \in Seq(Messages) : u = w[Other(e)]
    BY <1>4, <1>5
  <2>2. Weight(m, j, id) = 0
    BY <1>2 DEF Weight
  <2>3. Units(u \o <<m>>, j, id) = Units(u, j, id) + Weight(m, j, id) /\ Units(u, j, id) \in Nat
    BY <1>2, UnitsAppend, UnitsType
  <2>4. Units(u \o <<m>>, j, id) = Units(u, j, id)
    BY <2>2, <2>3
  <2>5. v[Other(e)] = u \/ v[Other(e)] = u \o <<m>>
    BY <1>3, <2>1
  <2> QED BY <2>1, <2>4, <2>5
<1>7. ASSUME NEW x \in Range(v[Other(e)]) PROVE x \in Range(w[Other(e)]) \/ x = m
  <2>1. PICK u \in Seq(Messages) : u = w[Other(e)]
    BY <1>4, <1>5
  <2>2. Range(u \o <<m>>) = Range(u) \cup {m}
    BY <1>2, AppendWire
  <2> QED BY <1>3, <2>1, <2>2
<1>8. Range(w[Other(e)]) \subseteq Range(v[Other(e)])
  <2>1. PICK u \in Seq(Messages) : u = w[Other(e)]
    BY <1>4, <1>5
  <2>2. Range(u \o <<m>>) = Range(u) \cup {m}
    BY <1>2, AppendWire
  <2> QED BY <1>3, <2>1, <2>2
<1>9. \A f \in Ends, id \in {"data", "adjust"} : \A j : Units(v[f], j, id) = Units(w[f], j, id)
  BY <1>3, <1>5, <1>6
<1>10. \A f \in Ends : \A x \in Range(v[f]) : x \in Range(w[f]) \/ (f = Other(e) /\ x = m)
  BY <1>3, <1>5, <1>7
<1>11. \A f \in Ends : Range(w[f]) \subseteq Range(v[f]) /\ w[f] \in Seq(Messages)
  BY <1>3, <1>4, <1>5, <1>8
<1> QED BY <1>2, <1>9, <1>10, <1>11 DEF Adds

\* Channels balance when one is added.
LEMMA AddPairs ==
  ASSUME NEW w, NEW v, NEW ch, NEW g, NEW sz, NEW s, NEW cl, NEW e \in Ends, NEW n, NEW c, NEW m,
         Adding(w, v, ch, g, sz, s, cl, e, n, c, m), NEW f \in Ends, NEW j, Used(s, f, j)
  PROVE Pairs(v, g, s, f, j)
<1>1. Grown(w, v, ch, g, sz, s, cl, e, n, c, m)
  BY AddGrown
<1>2. /\ ~Used(sz, e, n)
      /\ \A h \in Ends : \A l : Used(s, h, l) <=> Used(sz, h, l) \/ (h = e /\ l = n)
      /\ g[e][n] = c /\ \A h \in Ends, l \in Ids : h # e \/ l # n => g[h][l] = ch[h][l]
  BY <1>1 DEF Grown
<1>3. Good(w, ch, sz, cl) /\ Typed(w, ch, sz, cl) /\ n \in Ids
  BY DEF Adding, Good
<1>4. /\ \A h \in Ends, id \in {"data", "adjust"} : \A l : Units(v[h], l, id) = Units(w[h], l, id)
      /\ \A h \in Ends : \A x \in Range(v[h]) : x.id = "data" => x \in Range(w[h])
      /\ w[e] \in Seq(Messages)
  <2>1. Adds(w, v, e, m)
    BY AddUnits
  <2> QED BY <2>1 DEF Adds
<1>5. Other(e) \in Ends /\ Other(e) # e /\ Other(f) \in Ends
  BY TwoEnds
<1>6. CASE f = e /\ j = n
  <2>1. SUFFICES ASSUME c.rid # 0 PROVE Pairs(v, g, s, e, n)
    BY <1>2, <1>6 DEF Pairs
  <2>2. /\ Untouched(c) /\ c.role = "responder"
        /\ Used(sz, Other(e), c.rid) /\ ch[Other(e)][c.rid].role = "caller"
        /\ ch[Other(e)][c.rid].rid = 0 /\ ch[Other(e)][c.rid].k = c.k
    BY <2>1 DEF Adding
  <2>3. PICK q \in Ids : q = c.rid
    BY <1>3, <1>5, <2>2, UsedSound
  <2>4. Peer(g, e, n) = ch[Other(e)][c.rid]
    BY <1>2, <1>5, <2>3 DEF Peer
  <2>5. c.rwin = Window /\ Window + 0 <= Window
    <3>1. c.rwin = Window
      BY <2>2 DEF Untouched
    <3>2. Window \in Nat
      BY DuplexSizes
    <3> QED BY <3>1, <3>2
  <2>6. Units(v[e], n, "adjust") = 0
    <3>1. \A x \in Range(w[e]) : x.id = "adjust" => x.to # n
      BY <1>2, <1>3, AddUnknown
    <3>2. Units(w[e], n, "adjust") = 0
      BY <1>4, <3>1, UnitsType
    <3> QED BY <1>4, <3>2
  <2>7. Used(s, Other(e), c.rid)
    BY <1>2, <1>5, <2>2
  <2> QED BY <1>2, <2>1, <2>2, <2>4, <2>5, <2>6, <2>7 DEF Pairs
<1>7. CASE f # e \/ j # n
  <2>1. Used(sz, f, j)
    BY <1>2, <1>7
  <2>2. j \in Ids
    BY <1>3, <2>1, UsedSound
  <2>3. g[f][j] = ch[f][j]
    BY <1>2, <1>7, <2>2
  <2>4. SUFFICES ASSUME ch[f][j].rid # 0 PROVE Pairs(v, g, s, f, j)
    BY <2>3 DEF Pairs
  <2>5. Pairs(w, ch, sz, f, j)
    BY <1>3, <2>1, <2>2, Zenon DEF Good
  <2>6. PICK q : q = ch[f][j].rid
    OBVIOUS
  <2>7. Used(sz, Other(f), q)
    BY <2>4, <2>5, <2>6 DEF Pairs
  <2>8. q \in Ids /\ ~(Other(f) = e /\ q = n) /\ Used(s, Other(f), q)
    BY <1>2, <1>3, <1>5, <2>7, UsedSound
  <2>9. Peer(g, f, j) = Peer(ch, f, j)
    BY <1>2, <1>5, <2>3, <2>6, <2>8 DEF Peer
  <2>10. /\ Units(v[f], j, "data") = Units(w[f], j, "data")
         /\ Units(v[f], j, "adjust") = Units(w[f], j, "adjust")
         /\ Units(v[Other(f)], q, "adjust") = Units(w[Other(f)], q, "adjust")
    BY <1>4, <1>5
  <2>11. \A x \in Range(v[f]) : x.id = "data" => x \in Range(w[f])
    BY <1>4
  <2>12. On(g, f, j) = On(ch, f, j)
    BY <2>3 DEF On
  <2> QED BY <2>3, <2>4, <2>5, <2>6, <2>8, <2>9, <2>10, <2>11, <2>12 DEF Pairs
<1> QED BY <1>6, <1>7

\* Every message is true of the channels when one is added.
LEMMA AddTells ==
  ASSUME NEW w, NEW v, NEW ch, NEW g, NEW sz, NEW s, NEW cl, NEW e \in Ends, NEW n, NEW c, NEW m,
         Adding(w, v, ch, g, sz, s, cl, e, n, c, m), NEW f \in Ends, NEW x \in Range(v[f])
  PROVE Tells(v, g, s, f, x)
<1> DEFINE o == Other(e)
<1>1. Grown(w, v, ch, g, sz, s, cl, e, n, c, m) /\ Adds(w, v, e, m)
  BY AddGrown, AddUnits
<1>2. /\ ~Used(sz, e, n)
      /\ \A h \in Ends : \A l : Used(s, h, l) <=> Used(sz, h, l) \/ (h = e /\ l = n)
      /\ g[e][n] = c /\ \A h \in Ends, l \in Ids : h # e \/ l # n => g[h][l] = ch[h][l]
      /\ v[e] = w[e]
  BY <1>1 DEF Grown
<1>3. Good(w, ch, sz, cl) /\ Typed(w, ch, sz, cl) /\ n \in Ids /\ n # 0
  BY Size DEF Adding, Good
<1>4. /\ \A h \in Ends : \A y \in Range(v[h]) : y \in Range(w[h]) \/ (h = o /\ y = m)
      /\ m.id \in {"open", "confirm"} /\ m \in Messages
      /\ \A h \in Ends : Range(w[h]) \subseteq Range(v[h])
  BY <1>1 DEF Adds
<1>5. o \in Ends /\ o # e /\ Other(o) = e /\ \A h \in Ends : h = e \/ h = o
  BY TwoEnds
<1>6. /\ \A j : Used(sz, o, j) /\ ch[o][j].rid # 0 => ch[o][j].rid # n
      /\ \A y \in Range(w[e]) : y.id # "open" => y.to # n
      /\ \A y \in Range(w[o]) : y.id \in {"open", "confirm"} => y.from # n
  BY <1>2, <1>3, AddUnknown
<1>7. /\ m.from = n
      /\ \/ m.id = "open" /\ c.role = "caller" /\ c.rid = 0
         \/ /\ m.id = "confirm" /\ m.to = c.rid /\ c.rid # 0
            /\ Used(sz, o, c.rid) /\ ch[o][c.rid].role = "caller" /\ ch[o][c.rid].rid = 0
            /\ \A y \in Range(w[o]) : y.id # "open" => y.to # c.rid
            /\ \A y \in Range(w[e]) : y.id = "open" => y.from # c.rid
  BY DEF Adding
<1>8. \A h \in Ends : \A j : Used(sz, h, j) =>
        j \in Ids /\ j # 0 /\ Used(s, h, j) /\ g[h][j] = ch[h][j] /\ ~(h = e /\ j = n)
  BY <1>2, <1>3, UsedSound, Size
<1>9. CASE x \in Range(w[f])
  <2>1. Tells(w, ch, sz, f, x)
    BY <1>3, <1>9, Zenon DEF Good
  <2>2. Other(f) \in Ends
    BY TwoEnds
  <2>3. ASSUME x.id = "open"
        PROVE /\ Used(s, Other(f), x.from) /\ g[Other(f)][x.from].role = "caller"
              /\ g[Other(f)][x.from].rid = 0
              /\ \A j \in Ids : Used(s, f, j) => g[f][j].rid # x.from
              /\ \A y \in Range(v[Other(f)]) : y.id # "open" => y.to # x.from
    <3>1. /\ Used(sz, Other(f), x.from) /\ ch[Other(f)][x.from].role = "caller"
          /\ ch[Other(f)][x.from].rid = 0
          /\ \A j \in Ids : Used(sz, f, j) => ch[f][j].rid # x.from
          /\ \A y \in Range(w[Other(f)]) : y.id # "open" => y.to # x.from
      BY <2>1, <2>3 DEF Tells
    <3>2. /\ Used(s, Other(f), x.from) /\ g[Other(f)][x.from] = ch[Other(f)][x.from]
          /\ x.from # 0
      BY <1>8, <2>2, <3>1
    <3>3. ASSUME NEW j \in Ids, Used(s, f, j) PROVE g[f][j].rid # x.from
      <4>1. CASE Used(sz, f, j)
        BY <1>8, <3>1, <4>1
      <4>2. CASE f = e /\ j = n
        BY <1>2, <1>7, <1>9, <2>3, <3>2, <4>2
      <4> QED BY <1>2, <3>3, <4>1, <4>2
    <3>4. ASSUME NEW y \in Range(v[Other(f)]), y.id # "open" PROVE y.to # x.from
      <4>1. CASE y \in Range(w[Other(f)])
        BY <3>1, <3>4, <4>1
      <4>2. CASE Other(f) = o /\ y = m
        <5>1. f = e
          BY <1>5, <4>2
        <5> QED BY <1>7, <1>9, <2>3, <3>4, <4>2, <5>1
      <4> QED BY <1>4, <2>2, <3>4, <4>1, <4>2
    <3> QED BY <3>1, <3>2, <3>3, <3>4
  <2>4. ASSUME x.id \in {"confirm", "failure"}
        PROVE Used(s, f, x.to) /\ g[f][x.to].role = "caller" /\ g[f][x.to].rid = 0
    BY <1>8, <2>1, <2>4 DEF Tells
  <2>5. ASSUME x.id = "confirm" PROVE Used(s, Other(f), x.from) /\ g[Other(f)][x.from].rid = x.to
    BY <1>8, <2>1, <2>2, <2>5 DEF Tells
  <2>6. ASSUME x.id = "failure", NEW j \in Ids, Used(s, Other(f), j)
        PROVE g[Other(f)][j].rid # x.to
    <3>1. Used(sz, f, x.to)
      BY <2>1, <2>6 DEF Tells
    <3>2. CASE Used(sz, Other(f), j)
      BY <1>8, <2>1, <2>2, <2>6, <3>2 DEF Tells
    <3>3. CASE Other(f) = e /\ j = n
      <4>1. f = o /\ x.to # 0
        BY <1>5, <1>8, <3>1, <3>3
      <4> QED BY <1>2, <1>7, <1>9, <2>6, <3>3, <4>1
    <3> QED BY <1>2, <2>2, <2>6, <3>2, <3>3
  <2>7. ASSUME x.id \in {"data", "adjust", "eof", "close"}
        PROVE Linked(g, s, f, x.to) /\ (x.id = "eof" => Peer(g, f, x.to).sentEof)
    <3>1. Linked(ch, sz, f, x.to) /\ (x.id = "eof" => Peer(ch, f, x.to).sentEof)
      BY <2>1, <2>7 DEF Tells
    <3>2. Used(sz, f, x.to) /\ ch[f][x.to].rid # 0 /\ Peer(ch, f, x.to).rid # 0
      BY <3>1 DEF Linked
    <3>3. Used(sz, Other(f), ch[f][x.to].rid)
      BY <1>3, <3>2, Mutual
    <3>4. g[f][x.to] = ch[f][x.to] /\ g[Other(f)][ch[f][x.to].rid] = ch[Other(f)][ch[f][x.to].rid]
      BY <1>8, <2>2, <3>2, <3>3
    <3>5. Peer(g, f, x.to) = Peer(ch, f, x.to) /\ Used(s, f, x.to)
      BY <1>8, <3>2, <3>4 DEF Peer
    <3> QED BY <3>1, <3>2, <3>4, <3>5 DEF Linked
  <2> QED BY <2>3, <2>4, <2>5, <2>6, <2>7 DEF Tells
<1>10. CASE f = o /\ x = m
  <2>1. CASE m.id = "open"
    <3>1. Used(s, e, n) /\ g[e][n].role = "caller" /\ g[e][n].rid = 0
      BY <1>2, <1>7, <2>1
    <3>2. \A j \in Ids : Used(s, o, j) => g[o][j].rid # n
      BY <1>2, <1>3, <1>5, <1>6, <1>8
    <3>3. \A y \in Range(v[e]) : y.id # "open" => y.to # n
      BY <1>2, <1>6
    <3> QED BY <1>5, <1>7, <1>10, <2>1, <3>1, <3>2, <3>3 DEF Tells
  <2>2. CASE m.id = "confirm"
    <3>1. Used(s, o, m.to) /\ g[o][m.to].role = "caller" /\ g[o][m.to].rid = 0
      BY <1>5, <1>7, <1>8, <2>2
    <3>2. Used(s, e, n) /\ g[e][n].rid = m.to
      BY <1>2, <1>7, <2>2
    <3> QED BY <1>5, <1>7, <1>10, <2>2, <3>1, <3>2 DEF Tells
  <2> QED BY <1>4, <2>1, <2>2
<1> QED BY <1>4, <1>9, <1>10

\* The message about a channel that is added may follow the others.
LEMMA AddOrdered ==
  ASSUME NEW w, NEW v, NEW ch, NEW g, NEW sz, NEW s, NEW cl, NEW e \in Ends, NEW n, NEW c, NEW m,
         Adding(w, v, ch, g, sz, s, cl, e, n, c, m), NEW f \in Ends
  PROVE Ordered(v[f])
<1> DEFINE o == Other(e)
<1>1. Grown(w, v, ch, g, sz, s, cl, e, n, c, m) /\ Good(w, ch, sz, cl)
  BY AddGrown DEF Adding
<1>2. ~Used(sz, e, n) /\ v[e] = w[e] /\ (v[o] = w[o] \/ v[o] = w[o] \o <<m>>)
  BY <1>1 DEF Grown
<1>3. Ordered(w[f]) /\ o \in Ends /\ (f = e \/ f = o)
  BY <1>1, TwoEnds DEF Good
<1>4. CASE v[f] = w[f]
  BY <1>3, <1>4
<1>5. CASE f = o /\ v[o] = w[o] \o <<m>>
  <2>1. w[o] \in Seq(Messages)
    BY <1>1, <1>3 DEF Good, Typed
  <2>2. /\ m \in Messages /\ m.from = n
        /\ \/ m.id = "open"
           \/ /\ m.id = "confirm" /\ m.to = c.rid
              /\ \A x \in Range(w[o]) : x.id # "open" => x.to # c.rid
    BY DEF Adding
  <2>3. \A x \in Range(w[o]) : x.id \in {"open", "confirm"} => x.from # n
    BY <1>1, <1>2, AddUnknown
  <2>4. ASSUME NEW x \in Range(w[o]) PROVE Apart(x, m)
    BY <2>2, <2>3 DEF Apart
  <2> QED BY <1>3, <1>5, <2>1, <2>2, <2>4, AppendWire
<1> QED BY <1>2, <1>3, <1>4, <1>5

\* A channel that is opened or accepted keeps the invariant.
LEMMA Add ==
  ASSUME NEW w, NEW v, NEW ch, NEW g, NEW sz, NEW s, NEW cl, NEW e \in Ends, NEW n, NEW c, NEW m,
         Adding(w, v, ch, g, sz, s, cl, e, n, c, m)
  PROVE Good(v, g, s, cl)
<1>1. Typed(v, g, s, cl) /\ Apiece(g, s)
  BY AddTyped
<1>2. \A f \in Ends, j \in Ids : Used(s, f, j) => Pairs(v, g, s, f, j)
  BY AddPairs
<1>3. \A f \in Ends : \A x \in Range(v[f]) : Tells(v, g, s, f, x)
  BY AddTells
<1>4. \A f \in Ends : Ordered(v[f])
  BY AddOrdered
<1> QED BY <1>1, <1>2, <1>3, <1>4 DEF Good

\* A message that changes nothing is taken: the message is not about a window,
\* or the channel is gone.
LEMMA Drop ==
  ASSUME NEW w, NEW ch, NEW sz, NEW cl, NEW e \in Ends, Good(w, ch, sz, cl), w[e] # <<>>,
         \/ Head(w[e]).id \notin {"data", "adjust"}
         \/ ch[e][Head(w[e]).to].st # "in"
  PROVE Good(Rest(w, e), ch, sz, cl)
<1> DEFINE m == Head(w[e])
<1>1. Typed(w, ch, sz, cl) /\ w \in [Ends -> Seq(Messages)]
  BY DEF Good, Typed
<1>2. m \in Messages
  BY <1>1, RestWire
<1>3. ch \in [Ends -> [Ids -> Channel \cup {None}]]
  BY <1>1 DEF Typed
<1>4. ASSUME NEW i \in Ids, Used(sz, e, i)
      PROVE LET c == ch[e][i] IN
            /\ Sound(c)
            /\ c.rwin <= c.rwin + Weight(m, i, "adjust")
            /\ c.st = "in" =>
                 c.rwin = c.rwin + Weight(m, i, "adjust") /\ c.mwin + Weight(m, i, "data") = c.mwin
  <2>1. Sound(ch[e][i])
    BY <1>1, <1>4, UsedSound
  <2>2. ch[e][i].rwin \in Nat /\ ch[e][i].mwin \in Nat
    <3>1. ch[e][i].rwin \in 0..Window /\ ch[e][i].mwin \in 0..Window
      BY <2>1, SoundType
    <3> QED BY <3>1
  <2>3. Weight(m, i, "adjust") \in Nat /\ Weight(m, i, "data") \in Nat
    BY <1>2, WeightType
  <2>4. ch[e][i].st = "in" => Weight(m, i, "adjust") = 0 /\ Weight(m, i, "data") = 0
    BY DEF Weight
  <2> HIDE DEF m
  <2> QED BY <2>1, <2>2, <2>3, <2>4
<1> HIDE DEF m
<1>5. Taking(w, ch, ch, sz, e)
  BY <1>3, <1>4 DEF Taking, m
<1> QED BY <1>5, Take

\* What is known of the caller whose open message was taken.
Offered(w, ch, sz, e, id) ==
    LET o == Other(e) IN
    /\ id \in Ids /\ Used(sz, o, id) /\ ch[o][id].role = "caller" /\ ch[o][id].rid = 0
    /\ \A j \in Ids : Used(sz, e, j) => ch[e][j].rid # id
    /\ \A x \in Range(w[o]) : x.id # "open" => x.to # id
    /\ \A x \in Range(w[e]) : x.id = "open" => x.from # id

\* An open message is taken: it tells of a caller nobody answers yet.
LEMMA Offer ==
  ASSUME NEW w, NEW ch, NEW sz, NEW cl, NEW e \in Ends, Good(w, ch, sz, cl), w[e] # <<>>,
         Head(w[e]).id = "open"
  PROVE Good(Rest(w, e), ch, sz, cl) /\ Offered(Rest(w, e), ch, sz, e, Head(w[e]).from)
<1> DEFINE m == Head(w[e])
           o == Other(e)
           v == Rest(w, e)
<1>1. Good(v, ch, sz, cl)
  BY Drop
<1>2. w \in [Ends -> Seq(Messages)] /\ o \in Ends /\ o # e /\ Other(o) = e /\ Ordered(w[e])
  BY TwoEnds DEF Good, Typed
<1>3. /\ m \in Range(w[e]) /\ v[o] = w[o] /\ v[e] = Tail(w[e])
      /\ m \in Messages
  BY <1>2, RestWire
<1>4. Tells(w, ch, sz, e, m)
  BY <1>3, Zenon DEF Good
<1>5. /\ Used(sz, o, m.from) /\ ch[o][m.from].role = "caller" /\ ch[o][m.from].rid = 0
      /\ \A j \in Ids : Used(sz, e, j) => ch[e][j].rid # m.from
      /\ \A x \in Range(w[o]) : x.id # "open" => x.to # m.from
  BY <1>4 DEF Tells
<1>6. m.from \in Ids
  BY <1>3 DEF Messages
<1>7. \A x \in Range(Tail(w[e])) : Apart(m, x)
  BY <1>2, TailWire
<1>8. \A x \in Range(v[e]) : x.id = "open" => x.from # m.from
  BY <1>3, <1>7 DEF Apart
<1> HIDE DEF v, m
<1>9. Offered(v, ch, sz, e, m.from)
  BY <1>3, <1>5, <1>6, <1>8 DEF Offered
<1> QED BY <1>1, <1>9 DEF v, m

\* The caller is told that it is refused.
LEMMA Refuse ==
  ASSUME NEW w, NEW ch, NEW sz, NEW cl, NEW e \in Ends, Good(w, ch, sz, cl),
         NEW id, Offered(w, ch, sz, e, id), ~cl[Other(e)],
         NEW m, m = [id |-> "failure", to |-> id],
         NEW v, v = [w EXCEPT ![Other(e)] = Append(@, m)]
  PROVE Good(v, ch, sz, cl)
<1> DEFINE o == Other(e)
<1>1. /\ w \in [Ends -> Seq(Messages)] /\ Typed(w, ch, sz, cl) /\ Apiece(ch, sz)
      /\ o \in Ends /\ o # e /\ Other(o) = e /\ \A f \in Ends : f = e \/ f = o
  BY TwoEnds DEF Good, Typed
<1>2. m \in Messages /\ m.id = "failure" /\ m.to = id
  BY DEF Messages, Offered
<1>3. PICK u \in Seq(Messages) : u = w[o]
  BY <1>1
<1>4. v \in [Ends -> Seq(Messages)] /\ v[e] = w[e] /\ v[o] = u \o <<m>>
  <2>1. u \o <<m>> \in Seq(Messages)
    BY <1>2, AppendWire
  <2>2. Append(u, m) = u \o <<m>>
    BY <1>2
  <2>3. v = [w EXCEPT ![o] = u \o <<m>>]
    BY <1>3, <2>2
  <2> QED BY <1>1, <2>1, <2>3
<1>5. Range(v[o]) = Range(w[o]) \cup {m}
  <2>1. Range(u \o <<m>>) = Range(u) \cup {m}
    BY <1>2, AppendWire
  <2> QED BY <1>3, <1>4, <2>1, Zenon
<1>6. \A f \in Ends : \A x \in Range(v[f]) : x \in Range(w[f]) \/ (f = o /\ x = m)
  BY <1>1, <1>4, <1>5
<1>7. ASSUME NEW f \in Ends, NEW j, NEW z \in {"data", "adjust"}
      PROVE Units(v[f], j, z) = Units(w[f], j, z)
  <2>1. Weight(m, j, z) = 0
    BY <1>2 DEF Weight
  <2>2. Units(u \o <<m>>, j, z) = Units(u, j, z) + Weight(m, j, z) /\ Units(u, j, z) \in Nat
    BY <1>2, UnitsAppend, UnitsType
  <2>3. Units(u \o <<m>>, j, z) = Units(u, j, z)
    BY <2>1, <2>2
  <2> QED BY <1>1, <1>3, <1>4, <2>3
<1>8. Typed(v, ch, sz, cl)
  <2>1. \A f \in Ends : cl[f] => v[f] = w[f]
    BY <1>1, <1>4
  <2> QED BY <1>1, <1>4, <2>1 DEF Typed
<1>9. ASSUME NEW f \in Ends, NEW j \in Ids, Used(sz, f, j) PROVE Pairs(v, ch, sz, f, j)
  <2>1. Pairs(w, ch, sz, f, j)
    BY <1>9, Zenon DEF Good
  <2>2. PICK q : q = ch[f][j].rid
    OBVIOUS
  <2>3. /\ Units(v[f], j, "data") = Units(w[f], j, "data")
        /\ Units(v[f], j, "adjust") = Units(w[f], j, "adjust")
        /\ Units(v[Other(f)], q, "adjust") = Units(w[Other(f)], q, "adjust")
    BY <1>7, TwoEnds
  <2>4. \A x \in Range(v[f]) : x.id = "data" => x \in Range(w[f])
    BY <1>2, <1>6
  <2> QED BY <2>1, <2>2, <2>3, <2>4 DEF Pairs
<1>10. ASSUME NEW f \in Ends, NEW x \in Range(v[f]) PROVE Tells(v, ch, sz, f, x)
  <2>1. CASE f = o /\ x = m
    BY <1>1, <1>2, <2>1 DEF Tells, Offered
  <2>2. CASE x \in Range(w[f])
    <3>1. Tells(w, ch, sz, f, x)
      BY <2>2, Zenon DEF Good
    <3>2. ASSUME x.id = "open", NEW y \in Range(v[Other(f)]), y.id # "open"
          PROVE y.to # x.from
      <4>1. CASE y \in Range(w[Other(f)])
        BY <3>1, <3>2, <4>1 DEF Tells
      <4>2. CASE Other(f) = o /\ y = m
        <5>1. f = e
          BY <1>1, <4>2
        <5> QED BY <1>2, <2>2, <3>2, <4>2, <5>1 DEF Offered
      <4> QED BY <1>6, <3>2, <4>1, <4>2, TwoEnds
    <3> QED BY <3>1, <3>2 DEF Tells
  <2> QED BY <1>6, <2>1, <2>2
<1>11. ASSUME NEW f \in Ends PROVE Ordered(v[f])
  <2>1. Ordered(w[f]) /\ Ordered(w[o])
    BY <1>1 DEF Good
  <2>2. \A x \in Range(u) : Apart(x, m)
    BY <1>2, <1>3 DEF Offered, Apart
  <2>3. Ordered(v[o])
    <3>1. Ordered(u)
      BY <1>3, <2>1
    <3>2. Ordered(u \o <<m>>)
      BY <1>2, <2>2, <3>1, AppendWire
    <3> QED BY <1>4, <3>2
  <2> QED BY <1>1, <1>4, <2>1, <2>3
<1> QED BY <1>1, <1>8, <1>9, <1>10, <1>11 DEF Good

-----------------------------------------------------------------------------
(* What the operations of the code do to a channel *)

\* A channel that names another, whatever its user does next.
Steady(c) ==
    /\ c \in Channel /\ c.rid # 0
    /\ c.rwin <= Window /\ c.mwin + Len(c.buf) <= Window
    /\ c.st = "in" /\ ~c.sentClose => c.mwin + Len(c.buf) = Window

\* What the user's progress does not touch.
Same(c, d) ==
    /\ d.role = c.role /\ d.k = c.k /\ d.rid = c.rid /\ d.st = c.st
    /\ d.sentEof = c.sentEof /\ d.sentClose = c.sentClose
    /\ d.rwin = c.rwin /\ d.mwin = c.mwin /\ d.buf = c.buf /\ d.end = c.end

\* Where the user of a channel may be.
Fits(c, pc) ==
    /\ pc \in IF c.role = "caller" THEN CallerPc ELSE ResponderPc
    /\ c.role = "caller" /\ pc \in {"r more", "close", "closing", "closed"} => c.how \in Results

\* A sound channel that has a peer may go on.
LEMMA SoundSteady ==
  ASSUME NEW c, Sound(c), c.rid # 0
  PROVE Steady(c) /\ Fits(c, c.pc)
<1>1. c.role \in {"caller", "responder"}
  BY SoundType
<1> QED BY <1>1 DEF Sound, Steady, Fits

\* A channel that may go on to pc is sound once it has.
LEMMA BeginSound ==
  ASSUME NEW c, Steady(c), NEW pc, Fits(c, pc)
  PROVE /\ Sound(Begin(c, pc)) /\ Same(c, Begin(c, pc))
        /\ Begin(c, pc).how = c.how /\ Begin(c, pc).pc = pc
<1> DEFINE n == IF pc \in Writing \cup Reading THEN FrameSize[c.k][FrameOf(pc)] ELSE 0
           todo == IF pc \in Writing THEN n ELSE 0
           need == IF pc \in Reading THEN n ELSE 0
           d == [c EXCEPT !.pc = pc, !.parked = FALSE, !.todo = todo, !.need = need]
<1>1. c \in Channel /\ c.k \in Calls /\ c.role \in {"caller", "responder"}
  BY DEF Steady, Channel
<1>2. n \in Nat
  <2>1. FrameOf(pc) \in Frames
    BY DEF FrameOf, Frames
  <2>2. FrameSize[c.k] \in [Frames -> Nat \ {0}]
    BY <1>1, DuplexSizes
  <2> QED BY <2>1, <2>2
<1>3. pc \in CallerPc \cup ResponderPc
  BY DEF Fits
<1>0. todo \in Nat /\ need \in Nat
  <2> HIDE DEF n
  <2> QED BY <1>2
<1> HIDE DEF n, todo, need
<1>4. d \in Channel
  BY <1>0, <1>1, <1>3 DEF Channel
<1>5. Same(c, d) /\ d.pc = pc /\ d.parked = FALSE /\ d.how = c.how
  BY <1>1 DEF Channel, Same
<1>6. Begin(c, pc) = d
  BY DEF Begin, n, todo, need
<1> HIDE DEF d
<1>7. Sound(d)
  BY <1>1, <1>4, <1>5 DEF Sound, Same, Steady, Fits
<1> QED BY <1>5, <1>6, <1>7

\* The user notes how its call came out.
LEMMA Noting ==
  ASSUME NEW c, Steady(c)
  PROVE /\ \A h \in {"none", "value", "null", "error", "rejected", "ran", "no args", "no handler"} :
             LET d == [c EXCEPT !.how = h] IN Steady(d) /\ Same(c, d) /\ d.how = h /\ d.pc = c.pc
        /\ \A a \in Answer :
             LET d == [c EXCEPT !.answer = a] IN Steady(d) /\ Same(c, d) /\ d.how = c.how /\ d.pc = c.pc
<1>1. c \in Channel
  BY DEF Steady
<1>2. ASSUME NEW h \in {"none", "value", "null", "error", "rejected", "ran", "no args", "no handler"}
      PROVE LET d == [c EXCEPT !.how = h] IN Steady(d) /\ Same(c, d) /\ d.how = h /\ d.pc = c.pc
  <2> DEFINE d == [c EXCEPT !.how = h]
  <2>1. d \in Channel
    BY <1>1, ZenonT(30) DEF Channel
  <2>2. Same(c, d) /\ d.how = h /\ d.pc = c.pc
    BY <1>1 DEF Channel, Same
  <2> HIDE DEF d
  <2>3. Steady(d)
    BY <2>1, <2>2 DEF Steady, Same
  <2> QED BY <2>2, <2>3 DEF d
<1>3. ASSUME NEW a \in Answer
      PROVE LET d == [c EXCEPT !.answer = a] IN Steady(d) /\ Same(c, d) /\ d.how = c.how /\ d.pc = c.pc
  <2> DEFINE d == [c EXCEPT !.answer = a]
  <2>1. d \in Channel
    BY <1>1 DEF Channel
  <2>2. Same(c, d) /\ d.how = c.how /\ d.pc = c.pc
    BY <1>1 DEF Channel, Same
  <2> HIDE DEF d
  <2>3. Steady(d)
    BY <2>1, <2>2 DEF Steady, Same
  <2> QED BY <2>2, <2>3 DEF d
<1> QED BY <1>2, <1>3

\* A step that sends nothing and keeps the windows.
LEMMA SameMove ==
  ASSUME NEW c, NEW d, Sound(d), Same(c, d), Sound(c)
  PROVE Move(c, d, <<>>)
<1>1. c.mwin \in Nat
  <2>1. c.mwin \in 0..Window
    BY SoundType
  <2> QED BY <2>1
<1> QED BY <1>1 DEF Move, Same

\* A channel reads and writes only when it has a peer.
LEMMA WritesNamed ==
  ASSUME NEW c, Sound(c), c.pc \in Writing \cup Reading
  PROVE c.rid # 0 /\ Steady(c) /\ Fits(c, c.pc)
<1>1. c.rid # 0
  <2>1. c.role \in {"caller", "responder"}
    BY SoundType
  <2> QED BY <2>1 DEF Sound, Writing, Reading
<1> QED BY <1>1, SoundSteady

\* A write was rejected: the channel is sound.
LEMMA RejectedSound ==
  ASSUME NEW c, Steady(c), Fits(c, c.pc), c.pc \in Writing
  PROVE Sound(Rejected(c)) /\ Same(c, Rejected(c))
<1>1. CASE c.role = "caller"
  <2> DEFINE b == [c EXCEPT !.how = "rejected"]
  <2>1. Steady(b) /\ Same(c, b) /\ b.how = "rejected"
    <3>1. \A h \in {"none", "value", "null", "error", "rejected", "ran", "no args", "no handler"} :
            LET d == [c EXCEPT !.how = h] IN Steady(d) /\ Same(c, d) /\ d.how = h /\ d.pc = c.pc
      BY Noting
    <3> QED BY <3>1
  <2>2. Rejected(c) = Begin(b, "close")
    BY <1>1 DEF Rejected
  <2> HIDE DEF b
  <2>3. Fits(b, "close")
    BY <1>1, <2>1 DEF Fits, Same, CallerPc, Results
  <2>4. Sound(Begin(b, "close")) /\ Same(b, Begin(b, "close"))
    BY <2>1, <2>3, BeginSound
  <2> QED BY <2>1, <2>2, <2>4 DEF Same
<1>2. CASE c.role # "caller"
  <2>1. Rejected(c) = Begin(c, "thrown")
    BY <1>2 DEF Rejected
  <2>2. Fits(c, "thrown")
    BY <1>2 DEF Fits, ResponderPc
  <2> QED BY <2>1, <2>2, BeginSound
<1> QED BY <1>1, <1>2

\* A frame was written: the channel is sound.
LEMMA WrittenSound ==
  ASSUME NEW c, Steady(c), Fits(c, c.pc), c.pc \in Writing
  PROVE Sound(Written(c)) /\ Same(c, Written(c))
<1>1. PICK pc : Written(c) = Begin(c, pc)
                /\ pc = CASE c.pc = "w sel" -> "w arg"
                          [] c.pc = "w arg" -> "r hdr"
                          [] c.pc = "w hdr" -> "w val"
                          [] c.pc = "w val" -> IF c.answer = "continue" THEN "w more" ELSE "close"
                          [] OTHER -> "eof"
  BY DEF Written
<1>2. c.role = "caller" => pc \in {"w arg", "r hdr"}
  BY <1>1 DEF Fits, CallerPc, Writing
<1>3. c.role # "caller" => pc \in {"w val", "w more", "close", "eof"}
  BY <1>1 DEF Fits, ResponderPc, Writing
<1>4. Fits(c, pc)
  BY <1>2, <1>3 DEF Fits, CallerPc, ResponderPc
<1>5. Sound(Begin(c, pc)) /\ Same(c, Begin(c, pc))
  BY <1>4, BeginSound
<1> QED BY <1>1, <1>5

\* A write spends credit it has, and sends no more than it.
LEMMA TryWriteMove ==
  ASSUME NEW c, Sound(c), c.pc \in Writing
  PROVE Move(c, TryWrite(c).c, TryWrite(c).out) /\ TryWrite(c).c.st = c.st
<1> DEFINE n == Least(Least(c.maxp, c.todo), c.rwin)
           d == [c EXCEPT !.rwin = @ - n, !.todo = @ - n, !.sent = @ + n]
           x == Numbers(c.sent, n)
<1>1. c.rid # 0 /\ Steady(c) /\ Fits(c, c.pc)
  BY WritesNamed
<1>2. /\ c \in Channel /\ c.rwin \in Nat /\ c.maxp \in Nat /\ c.todo \in Nat /\ c.sent \in Nat
      /\ c.mwin \in Nat /\ c.rid \in Ids
  <2>1. c \in Channel
    BY <1>1 DEF Steady
  <2>2. c.rwin \in Nat /\ c.maxp \in {0, Packet} /\ c.todo \in Nat /\ c.sent \in Nat
        /\ c.mwin \in Nat /\ c.rid \in Ids \cup {0}
    BY <2>1 DEF Channel
  <2>3. Packet \in Nat
    BY DuplexSizes
  <2> QED BY <1>1, <2>1, <2>2, <2>3
<1>3. n \in Nat /\ n <= c.rwin /\ n <= c.todo
  BY <1>2 DEF Least
<1> HIDE DEF n
<1>4. CASE c.sentEof \/ c.sentClose
  <2>1. TryWrite(c).c = Rejected(c) /\ TryWrite(c).out = <<>>
    BY <1>4 DEF TryWrite, Does
  <2>2. Sound(Rejected(c)) /\ Same(c, Rejected(c))
    BY <1>1, RejectedSound
  <2>3. Move(c, Rejected(c), <<>>)
    BY <2>2, SameMove
  <2> QED BY <2>1, <2>2, <2>3 DEF Same
<1>5. CASE ~(c.sentEof \/ c.sentClose) /\ n = 0
  <2> DEFINE b == [c EXCEPT !.parked = TRUE]
  <2>1. TryWrite(c).c = b /\ TryWrite(c).out = <<>>
    BY <1>5 DEF TryWrite, Does, n
  <2>2. b \in Channel
    BY <1>2 DEF Channel
  <2>3. Same(c, b) /\ b.pc = c.pc /\ b.how = c.how
    BY <1>2 DEF Channel, Same
  <2> HIDE DEF b
  <2>4. Sound(b)
    BY <1>1, <2>2, <2>3 DEF Sound, Same
  <2>5. Move(c, b, <<>>)
    BY <2>3, <2>4, SameMove
  <2> QED BY <2>1, <2>3, <2>5 DEF Same
<1>6. CASE ~(c.sentEof \/ c.sentClose) /\ n # 0
  <2>1. /\ TryWrite(c).c = IF d.todo = 0 THEN Written(d) ELSE [d EXCEPT !.parked = TRUE]
        /\ TryWrite(c).out = Send(c, "data", x)
    BY <1>6 DEF TryWrite, Does, n
  <2>2. d \in Channel
    <3>1. c.rwin - n \in Nat /\ c.todo - n \in Nat /\ c.sent + n \in Nat
      BY <1>2, <1>3
    <3> QED BY <1>2, <3>1 DEF Channel
  <2>3. /\ d.role = c.role /\ d.k = c.k /\ d.rid = c.rid /\ d.st = c.st
        /\ d.sentEof = c.sentEof /\ d.sentClose = c.sentClose
        /\ d.rwin = c.rwin - n /\ d.mwin = c.mwin /\ d.buf = c.buf /\ d.end = c.end
        /\ d.pc = c.pc /\ d.how = c.how
    BY <1>2 DEF Channel
  <2> HIDE DEF d
  <2>4. d.rwin <= Window /\ c.rwin = d.rwin + n
    <3>1. c.rwin \in 0..Window
      BY SoundType
    <3>2. Window \in Nat
      BY DuplexSizes
    <3> QED BY <1>2, <1>3, <2>3, <3>1, <3>2
  <2>5. Steady(d) /\ Fits(d, d.pc)
    BY <1>1, <2>2, <2>3, <2>4 DEF Steady, Fits
  <2>6. PICK b : b = TryWrite(c).c
    OBVIOUS
  <2>7. Sound(b) /\ Same(d, b)
    <3>1. CASE d.todo = 0
      <4>1. b = Written(d)
        BY <2>1, <2>6, <3>1
      <4> QED BY <2>3, <2>5, <4>1, WrittenSound
    <3>2. CASE d.todo # 0
      <4>1. b = [d EXCEPT !.parked = TRUE]
        BY <2>1, <2>6, <3>2
      <4>2. b \in Channel
        BY <2>2, <4>1 DEF Channel
      <4>3. Same(d, b) /\ b.pc = d.pc /\ b.how = d.how
        BY <2>2, <4>1 DEF Channel, Same
      <4>4. Sound(b)
        BY <2>3, <2>5, <4>2, <4>3 DEF Sound, Same, Steady, Fits
      <4> QED BY <4>3, <4>4
    <3> QED BY <3>1, <3>2
  <2>8. PICK m : m = [id |-> "data", to |-> c.rid, x |-> x]
    OBVIOUS
  <2>9. TryWrite(c).out = <<m>>
    BY <1>6, <2>1, <2>8 DEF Send, Msg
  <2>10. x \in Seq(Nat) /\ Len(x) = n
    <3>1. x = [j \in 1..n |-> c.sent + j]
      BY DEF Numbers
    <3>2. \A j \in 1..n : c.sent + j \in Nat
      BY <1>2, <1>3
    <3> QED BY <1>3, <3>1, <3>2
  <2>11. m \in Messages /\ m.id = "data" /\ m.to = c.rid /\ Len(m.x) = n
    <3> HIDE DEF x
    <3> QED BY <1>2, <2>8, <2>10 DEF Messages
  <2>12. Move(c, b, <<m>>)
    BY <1>6, <2>3, <2>4, <2>7, <2>11 DEF Move, Same
  <2>13. b.st = c.st
    BY <2>3, <2>7 DEF Same
  <2> QED BY <2>6, <2>9, <2>12, <2>13
<1> QED BY <1>4, <1>5, <1>6

\* A writer that is woken is as sound as one that waits.
LEMMA Woken ==
  ASSUME NEW c, Sound(c)
  PROVE LET d == [c EXCEPT !.parked = FALSE] IN Sound(d) /\ Same(c, d) /\ d.pc = c.pc
<1> DEFINE d == [c EXCEPT !.parked = FALSE]
<1>1. c \in Channel
  BY DEF Sound
<1>2. d \in Channel
  BY <1>1 DEF Channel
<1>3. /\ Same(c, d) /\ d.pc = c.pc /\ d.how = c.how /\ d.parked = FALSE /\ d.ready = c.ready
  BY <1>1 DEF Channel, Same
<1> HIDE DEF d
<1>4. Sound(d)
  BY <1>2, <1>3 DEF Sound, Same
<1> QED BY <1>3, <1>4 DEF d

\* The same of a write that was waiting for credit.
LEMMA WokenMove ==
  ASSUME NEW c, Sound(c), c.pc \in Writing
  PROVE LET r == TryWrite([c EXCEPT !.parked = FALSE]) IN Move(c, r.c, r.out) /\ r.c.st = c.st
<1>1. PICK b : b = [c EXCEPT !.parked = FALSE]
  OBVIOUS
<1>2. Sound(b) /\ Same(c, b) /\ b.pc \in Writing
  BY <1>1, Woken
<1>3. Move(b, TryWrite(b).c, TryWrite(b).out) /\ TryWrite(b).c.st = b.st
  BY <1>2, TryWriteMove
<1>4. PICK d, out : d = TryWrite(b).c /\ out = TryWrite(b).out
  OBVIOUS
<1>5. Move(c, d, out) /\ d.st = c.st
  BY <1>2, <1>3, <1>4 DEF Move, Same
<1> QED BY <1>1, <1>4, <1>5

\* A channel shut down leaves its table and owes nothing more.
LEMMA ShutdownMove ==
  ASSUME NEW c, Sound(c)
  PROVE /\ Move(c, Shutdown(c).c, Shutdown(c).out) /\ Shutdown(c).c.st = "out"
        /\ Untouched(c) => Untouched(Shutdown(c).c) /\ Shutdown(c).out = <<>>
        /\ ~c.parked => /\ Shutdown(c).c.pc = c.pc /\ Shutdown(c).c.how = c.how
                        /\ Shutdown(c).c.parked = FALSE
<1> DEFINE b == [c EXCEPT !.buf = <<>>, !.end = "gone", !.ready = "closed", !.st = "out"]
<1>1. c \in Channel /\ c.mwin \in Nat /\ Len(c.buf) \in Nat /\ c.parked \in BOOLEAN
  <2>1. c \in Channel
    BY DEF Sound
  <2>2. c.mwin \in Nat /\ c.buf \in Seq(Nat) /\ c.parked \in BOOLEAN
    BY <2>1 DEF Channel
  <2> QED BY <2>1, <2>2
<1>2. [Discard(c) EXCEPT !.ready = "closed", !.st = "out"] = b
  BY <1>1 DEF Discard, Channel
<1>3. b \in Channel
  <2>0. <<>> \in Seq(Nat)
    BY EmptySeq
  <2>1. PICK q \in Seq(Nat) : q = <<>>
    BY <2>0
  <2>2. b = [c EXCEPT !.buf = q, !.end = "gone", !.ready = "closed", !.st = "out"]
    BY <2>1
  <2> HIDE DEF b
  <2> QED BY <1>1, <2>2 DEF Channel
<1>4. /\ b.role = c.role /\ b.k = c.k /\ b.rid = c.rid /\ b.st = "out"
      /\ b.sentEof = c.sentEof /\ b.sentClose = c.sentClose
      /\ b.rwin = c.rwin /\ b.mwin = c.mwin /\ b.buf = <<>> /\ b.end = "gone"
      /\ b.pc = c.pc /\ b.how = c.how /\ b.parked = c.parked /\ b.ready = "closed"
  BY <1>1 DEF Channel
<1> HIDE DEF b
<1>5. b.mwin + Len(b.buf) <= Window
  <2>1. c.mwin + Len(c.buf) <= Window /\ Window \in Nat
    <3>1. Window \in Nat
      BY DuplexSizes
    <3> QED BY <3>1 DEF Sound
  <2>2. Len(b.buf) = 0
    BY <1>4
  <2> QED BY <1>1, <1>4, <2>1, <2>2
<1>6. Sound(b)
  BY <1>3, <1>4, <1>5 DEF Sound
<1>7. CASE b.parked
  <2>1. b.pc \in Writing
    BY <1>6, <1>7 DEF Sound
  <2>2. PICK r : r = TryWrite([b EXCEPT !.parked = FALSE])
    OBVIOUS
  <2>3. Move(b, r.c, r.out) /\ r.c.st = b.st
    BY <1>6, <2>1, <2>2, WokenMove
  <2>4. Shutdown(c) = r
    BY <1>2, <1>7, <2>2 DEF Shutdown
  <2>5. PICK d, out : d = r.c /\ out = r.out
    OBVIOUS
  <2>6. Move(c, d, out) /\ d.st = "out"
    BY <1>4, <2>3, <2>5 DEF Move
  <2>7. ~Untouched(c)
    BY <1>4, <2>1 DEF Untouched, Writing
  <2> QED BY <1>4, <1>7, <2>4, <2>5, <2>6, <2>7
<1>8. CASE ~b.parked
  <2>1. Shutdown(c).c = b /\ Shutdown(c).out = <<>>
    BY <1>2, <1>8 DEF Shutdown, Does
  <2>2. Move(c, b, <<>>)
    BY <1>1, <1>4, <1>6 DEF Move
  <2>3. Untouched(c) => Untouched(b)
    BY <1>4 DEF Untouched
  <2>4. ~c.parked => b.parked = FALSE
    BY <1>1, <1>4
  <2> QED BY <1>4, <2>1, <2>2, <2>3, <2>4
<1> QED BY <1>7, <1>8

\* What a channel is that is granted x more units.
Widened(c, x) ==
    LET b == [c EXCEPT !.rwin = @ + x] r == AddWindow(c, x) IN
    Sound(b) /\ Move(b, r.c, r.out) /\ r.c.st = b.st

\* Credit arrives: it is added to the window, and wakes the write.
LEMMA AddWindowMove ==
  ASSUME NEW c, Sound(c), c.rid # 0, NEW x \in Nat, c.rwin + x <= Window
  PROVE Widened(c, x)
<1> DEFINE b == [c EXCEPT !.rwin = @ + x]
           r == AddWindow(c, x)
<1>1. Steady(c) /\ Fits(c, c.pc) /\ c \in Channel
  BY SoundSteady DEF Sound
<1>2. c.rwin + x \in Nat
  <2>1. c.rwin \in Nat
    BY <1>1 DEF Channel
  <2> QED BY <2>1
<1>3. b \in Channel
  BY <1>1, <1>2 DEF Channel
<1>4. /\ b.role = c.role /\ b.k = c.k /\ b.rid = c.rid /\ b.st = c.st
      /\ b.sentEof = c.sentEof /\ b.sentClose = c.sentClose
      /\ b.rwin = c.rwin + x /\ b.mwin = c.mwin /\ b.buf = c.buf /\ b.end = c.end
      /\ b.pc = c.pc /\ b.how = c.how /\ b.parked = c.parked
  BY <1>1 DEF Channel
<1> HIDE DEF b
<1>5. Sound(b)
  BY <1>3, <1>4 DEF Sound
<1>6. ASSUME b.parked /\ b.rwin > 0 PROVE Sound(b) /\ Move(b, r.c, r.out) /\ r.c.st = b.st
  <2>1. b.pc \in Writing
    BY <1>5, <1>6 DEF Sound
  <2>2. r = TryWrite([b EXCEPT !.parked = FALSE])
    BY <1>6 DEF AddWindow, b
  <2>3. Move(b, r.c, r.out) /\ r.c.st = b.st
    <3> HIDE DEF r
    <3> QED BY <1>5, <2>1, <2>2, WokenMove
  <2> QED BY <1>5, <2>3
<1>7. ASSUME ~(b.parked /\ b.rwin > 0) PROVE Sound(b) /\ Move(b, r.c, r.out) /\ r.c.st = b.st
  <2>1. r.c = b /\ r.out = <<>>
    BY <1>7 DEF AddWindow, Does, b
  <2>2. Move(b, b, <<>>)
    BY <1>5, SameMove DEF Same
  <2> HIDE DEF r
  <2>3. Move(b, r.c, r.out) /\ r.c.st = b.st
    BY <2>1, <2>2
  <2> QED BY <1>5, <2>3 DEF r
<1>8. Sound(b) /\ Move(b, r.c, r.out) /\ r.c.st = b.st
  BY <1>6, <1>7
<1> QED BY <1>8 DEF Widened, b

\* The end of the stream arrives: only the buffer hears of it.
LEMMA EofSound ==
  ASSUME NEW c, Sound(c), c.rid # 0
  PROVE /\ Sound(Eof(c))
        /\ \A b \in {Eof(c)} :
             /\ b.role = c.role /\ b.k = c.k /\ b.rid = c.rid /\ b.st = c.st
             /\ b.sentEof = c.sentEof /\ b.sentClose = c.sentClose
             /\ b.rwin = c.rwin /\ b.mwin = c.mwin /\ b.buf = c.buf
             /\ b.pc = c.pc /\ b.how = c.how /\ b.parked = c.parked
<1>1. Steady(c) /\ Fits(c, c.pc) /\ c \in Channel
  BY SoundSteady DEF Sound
<1>2. CASE c.end = "open"
  <2>1. PICK b : b = [c EXCEPT !.end = "eof"]
    OBVIOUS
  <2>2. b \in Channel
    BY <1>1, <2>1 DEF Channel
  <2>3. /\ b.role = c.role /\ b.k = c.k /\ b.rid = c.rid /\ b.st = c.st
        /\ b.sentEof = c.sentEof /\ b.sentClose = c.sentClose
        /\ b.rwin = c.rwin /\ b.mwin = c.mwin /\ b.buf = c.buf
        /\ b.pc = c.pc /\ b.how = c.how /\ b.parked = c.parked
    BY <1>1, <2>1 DEF Channel
  <2>4. Sound(b)
    BY <2>2, <2>3 DEF Sound
  <2>5. Eof(c) = b
    BY <1>2, <2>1 DEF Eof
  <2> QED BY <2>3, <2>4, <2>5
<1>3. CASE c.end # "open"
  <2>1. Eof(c) = c
    BY <1>3 DEF Eof
  <2> QED BY <2>1
<1> QED BY <1>2, <1>3

\* The user that does not write goes on.
LEMMA GoesOn ==
  ASSUME NEW c, Sound(c), c.parked = FALSE, NEW pc, Fits(c, pc), c.rid = 0 => pc = "done"
  PROVE LET d == [c EXCEPT !.pc = pc] IN Sound(d) /\ Same(c, d) /\ d.how = c.how
<1> DEFINE d == [c EXCEPT !.pc = pc]
<1>1. c \in Channel
  BY DEF Sound
<1>2. d \in Channel
  BY <1>1 DEF Channel, Fits
<1>3. Same(c, d) /\ d.pc = pc /\ d.how = c.how /\ d.parked = FALSE /\ d.ready = c.ready
  BY <1>1 DEF Channel, Same
<1>4. c.role \in {"caller", "responder"}
  BY SoundType
<1> HIDE DEF d
<1>5. Sound(d)
  BY <1>2, <1>3, <1>4 DEF Sound, Same, Fits
<1> QED BY <1>3, <1>5 DEF d

\* Channel.close sends Close unless it was sent.
LEMMA CloseByMove ==
  ASSUME NEW c, Sound(c), c.rid # 0
  PROVE LET r == CloseBy(c) IN
        /\ Move(c, r.c, r.out) /\ r.c.sentClose
        /\ c.pc = "close" => r.c.pc = "close" /\ r.c.how = c.how /\ r.c.parked = FALSE
<1>1. PICK b : b = Eof(c)
  OBVIOUS
<1>2. /\ Sound(b) /\ b.role = c.role /\ b.k = c.k /\ b.rid = c.rid /\ b.st = c.st
      /\ b.sentEof = c.sentEof /\ b.sentClose = c.sentClose
      /\ b.rwin = c.rwin /\ b.mwin = c.mwin /\ b.buf = c.buf
      /\ b.pc = c.pc /\ b.how = c.how /\ b.parked = c.parked
  BY <1>1, EofSound
<1>3. b \in Channel /\ c \in Channel /\ Steady(b) /\ Fits(b, b.pc)
  BY <1>2, SoundSteady DEF Sound
<1>4. c.pc = "close" => b.parked = FALSE
  <2>1. b.parked \in BOOLEAN
    BY <1>3 DEF Channel
  <2> QED BY <1>2, <2>1 DEF Sound, Writing
<1>5. PICK r : r = CloseBy(c)
  OBVIOUS
<1>6. CASE b.sentClose
  <2>1. r = Shutdown(b)
    BY <1>1, <1>5, <1>6 DEF CloseBy
  <2>2. Move(b, Shutdown(b).c, Shutdown(b).out) /\ Shutdown(b).c.st = "out"
    BY <1>2, ShutdownMove
  <2>3. PICK d, out : d = r.c /\ out = r.out
    OBVIOUS
  <2>4. Move(b, d, out) /\ d.st = "out"
    BY <2>1, <2>2, <2>3
  <2>5. Move(c, d, out) /\ d.sentClose
    BY <1>2, <1>6, <2>4 DEF Move
  <2>6. c.pc = "close" => d.pc = "close" /\ d.how = c.how /\ d.parked = FALSE
    <3>1. ~b.parked => Shutdown(b).c.pc = b.pc /\ Shutdown(b).c.how = b.how
                       /\ Shutdown(b).c.parked = FALSE
      BY <1>2, ShutdownMove
    <3> QED BY <1>2, <1>4, <2>1, <2>3, <3>1
  <2> QED BY <1>5, <2>3, <2>5, <2>6
<1>7. CASE ~b.sentClose
  <2>1. PICK d : d = [b EXCEPT !.sentClose = TRUE]
    OBVIOUS
  <2>2. PICK m : m = [id |-> "close", to |-> c.rid, x |-> <<>>]
    OBVIOUS
  <2>3. r.c = d /\ r.out = <<m>>
    BY <1>1, <1>2, <1>5, <1>7, <2>1, <2>2 DEF CloseBy, Does, Send, Msg
  <2>4. d \in Channel
    BY <1>3, <2>1 DEF Channel
  <2>5. /\ d.role = c.role /\ d.k = c.k /\ d.rid = c.rid /\ d.st = c.st
        /\ d.sentEof = c.sentEof /\ d.sentClose = TRUE
        /\ d.rwin = c.rwin /\ d.mwin = c.mwin /\ d.buf = c.buf
        /\ d.pc = c.pc /\ d.how = c.how /\ d.parked = b.parked /\ b.parked = c.parked
    BY <1>2, <1>3, <2>1 DEF Channel
  <2>6. Sound(d)
    BY <1>2, <2>4, <2>5 DEF Sound
  <2>7. m \in Messages /\ m.id = "close" /\ m.to = c.rid
    <3>1. <<>> \in Seq(Nat)
      BY EmptySeq
    <3>2. c.rid \in Ids
      BY <1>3 DEF Channel
    <3> QED BY <2>2, <3>1, <3>2 DEF Messages
  <2>8. Move(c, d, <<m>>)
    BY <1>2, <1>7, <2>5, <2>6, <2>7 DEF Move
  <2> QED BY <1>4, <1>5, <2>3, <2>5, <2>8
<1> QED BY <1>6, <1>7

\* The user notes how its call came out, and goes on.
LEMMA NoteBegin ==
  ASSUME NEW c, Steady(c), NEW pc,
         NEW h \in {"none", "value", "null", "error", "rejected", "ran", "no args", "no handler"},
         pc \in IF c.role = "caller" THEN CallerPc ELSE ResponderPc,
         c.role = "caller" /\ pc \in {"r more", "close", "closing", "closed"} => h \in Results
  PROVE Sound(Begin([c EXCEPT !.how = h], pc)) /\ Same(c, Begin([c EXCEPT !.how = h], pc))
<1> DEFINE b == [c EXCEPT !.how = h]
<1>2. Steady(b) /\ Same(c, b) /\ b.how = h
  <2>1. \A g \in {"none", "value", "null", "error", "rejected", "ran", "no args", "no handler"} :
          LET d == [c EXCEPT !.how = g] IN Steady(d) /\ Same(c, d) /\ d.how = g /\ d.pc = c.pc
    BY Noting
  <2> QED BY <2>1
<1> HIDE DEF b
<1>3. Fits(b, pc)
  BY <1>2 DEF Fits, Same
<1>4. Sound(Begin(b, pc)) /\ Same(b, Begin(b, pc))
  BY <1>2, <1>3, BeginSound
<1>5. Same(c, Begin(b, pc))
  BY <1>2, <1>4 DEF Same
<1> QED BY <1>4, <1>5 DEF b

\* A frame was read: the channel is sound.
LEMMA ReadAllSound ==
  ASSUME NEW c, Steady(c), Fits(c, c.pc), c.pc \in Reading, NEW a \in Answer
  PROVE Sound(ReadAll(c, a)) /\ Same(c, ReadAll(c, a))
<1>1. CASE c.pc = "r sel"
  <2>1. ReadAll(c, a) = Begin(c, "dispatch") /\ Fits(c, "dispatch")
    BY <1>1 DEF ReadAll, Fits, CallerPc, ResponderPc
  <2> QED BY <2>1, BeginSound
<1>2. CASE c.pc = "r arg"
  <2>1. ReadAll(c, a) = Begin([c EXCEPT !.how = "ran"], "handler") /\ c.role # "caller"
    BY <1>2 DEF ReadAll, Fits, CallerPc
  <2>2. "handler" \in ResponderPc
    BY DEF ResponderPc
  <2> QED BY <2>1, <2>2, NoteBegin
<1>3. CASE c.pc = "r hdr" /\ a = "error"
  <2>1. ReadAll(c, a) = Begin([c EXCEPT !.how = "error"], "close")
    BY <1>3 DEF ReadAll
  <2>2. "close" \in ResponderPc /\ "close" \in CallerPc /\ "error" \in Results
    BY DEF ResponderPc, CallerPc, Results
  <2> QED BY <2>1, <2>2, NoteBegin
<1>4. CASE c.pc = "r hdr" /\ a # "error"
  <2> DEFINE b == [c EXCEPT !.answer = a]
  <2>2. ReadAll(c, a) = Begin(b, "r val")
    BY <1>4 DEF ReadAll
  <2>3. Steady(b) /\ Same(c, b) /\ b.how = c.how
    <3>1. \A x \in Answer :
            LET d == [c EXCEPT !.answer = x] IN Steady(d) /\ Same(c, d) /\ d.how = c.how /\ d.pc = c.pc
      BY Noting
    <3> QED BY <3>1
  <2> HIDE DEF b
  <2>4. Fits(b, "r val")
    BY <1>4, <2>3 DEF Fits, CallerPc, ResponderPc, Same
  <2>5. Sound(Begin(b, "r val")) /\ Same(b, Begin(b, "r val"))
    BY <2>3, <2>4, BeginSound
  <2> QED BY <2>2, <2>3, <2>5 DEF Same
<1>5. CASE c.pc = "r val"
  <2>1. PICK pc \in {"r more", "close"} : ReadAll(c, a) = Begin([c EXCEPT !.how = "value"], pc)
    BY <1>5 DEF ReadAll
  <2>2. c.role = "caller"
    BY <1>5 DEF Fits, ResponderPc
  <2>3. pc \in CallerPc /\ "value" \in Results
    BY DEF CallerPc, Results
  <2> QED BY <2>1, <2>2, <2>3, NoteBegin
<1>6. CASE c.pc = "r more"
  <2>1. ReadAll(c, a) = Begin(c, "r more") /\ Fits(c, "r more")
    BY <1>6 DEF ReadAll
  <2> QED BY <2>1, BeginSound
<1> QED BY <1>1, <1>2, <1>3, <1>4, <1>5, <1>6 DEF Reading

\* A read met the end of the stream: the channel is sound.
LEMMA ReadNullSound ==
  ASSUME NEW c, Steady(c), Fits(c, c.pc), c.pc \in Reading
  PROVE /\ Sound(ReadNull(c)) /\ Same(c, ReadNull(c))
        /\ c.pc = "r sel" => ReadNull(c).pc = "thrown"
<1>1. CASE c.pc = "r sel"
  <2>1. ReadNull(c) = Begin(c, "thrown") /\ Fits(c, "thrown")
    BY <1>1 DEF ReadNull, Fits, CallerPc, ResponderPc
  <2> QED BY <2>1, BeginSound
<1>2. CASE c.pc = "r arg"
  <2>1. ReadNull(c) = Begin([c EXCEPT !.how = "no args"], "handler") /\ c.role # "caller"
    BY <1>2 DEF ReadNull, Fits, CallerPc
  <2>2. "handler" \in ResponderPc
    BY DEF ResponderPc
  <2> QED BY <1>2, <2>1, <2>2, NoteBegin
<1>3. CASE c.pc = "r hdr"
  <2>1. ReadNull(c) = Begin([c EXCEPT !.how = "rejected"], "close")
    BY <1>3 DEF ReadNull
  <2>2. "close" \in ResponderPc /\ "close" \in CallerPc /\ "rejected" \in Results
    BY DEF ResponderPc, CallerPc, Results
  <2> QED BY <1>3, <2>1, <2>2, NoteBegin
<1>4. CASE c.pc = "r val"
  <2>1. PICK pc \in {"r more", "close"} : ReadNull(c) = Begin([c EXCEPT !.how = "null"], pc)
    BY <1>4 DEF ReadNull
  <2>2. c.role = "caller"
    BY <1>4 DEF Fits, ResponderPc
  <2>3. pc \in CallerPc /\ "null" \in Results
    BY DEF CallerPc, Results
  <2> QED BY <1>4, <2>1, <2>2, <2>3, NoteBegin
<1>5. CASE c.pc = "r more"
  <2>1. ReadNull(c) = Begin(c, "close")
    BY <1>5 DEF ReadNull
  <2>2. Fits(c, "close")
    BY <1>5 DEF Fits, CallerPc, ResponderPc
  <2> QED BY <1>5, <2>1, <2>2, BeginSound
<1> QED BY <1>1, <1>2, <1>3, <1>4, <1>5 DEF Reading

\* A read that meets the end of the stream neither takes nor grants.
LEMMA ReadNullMove ==
  ASSUME NEW c, Sound(c), c.pc \in Reading, c.end # "open"
  PROVE LET d == ReadNull([c EXCEPT !.end = "gone", !.null = TRUE]) IN
        /\ Move(c, d, <<>>) /\ d.st = c.st
        /\ Untouched(c) => Untouched(d)
<1>1. PICK b : b = [c EXCEPT !.end = "gone", !.null = TRUE]
  OBVIOUS
<1>2. Steady(c) /\ Fits(c, c.pc) /\ c \in Channel
  BY WritesNamed DEF Sound
<1>3. b \in Channel
  BY <1>1, <1>2 DEF Channel
<1>4. /\ b.role = c.role /\ b.k = c.k /\ b.rid = c.rid /\ b.st = c.st
      /\ b.sentEof = c.sentEof /\ b.sentClose = c.sentClose
      /\ b.rwin = c.rwin /\ b.mwin = c.mwin /\ b.buf = c.buf
      /\ b.pc = c.pc /\ b.how = c.how /\ b.end = "gone"
  BY <1>1, <1>2 DEF Channel
<1>5. Steady(b) /\ Fits(b, b.pc) /\ b.pc \in Reading
  BY <1>2, <1>3, <1>4 DEF Steady, Fits
<1>6. PICK d : d = ReadNull(b)
  OBVIOUS
<1>7. Sound(d) /\ Same(b, d) /\ (b.pc = "r sel" => d.pc = "thrown")
  BY <1>5, <1>6, ReadNullSound
<1>8. c.mwin \in Nat
  BY <1>2 DEF Channel
<1>9. Move(c, d, <<>>) /\ d.st = c.st
  <2>1. /\ d.role = c.role /\ d.k = c.k /\ d.rid = c.rid /\ d.st = c.st
        /\ d.sentEof = c.sentEof /\ d.sentClose = c.sentClose
        /\ d.rwin = c.rwin /\ d.mwin = c.mwin
    BY <1>4, <1>7 DEF Same
  <2>2. d.mwin >= c.mwin
    BY <1>8, <2>1
  <2> QED BY <1>7, <2>1, <2>2 DEF Move
<1>10. ASSUME Untouched(c) PROVE Untouched(d)
  <2>1. c.st # "in" /\ c.pc = "r sel"
    BY <1>10 DEF Untouched, Reading
  <2> QED BY <1>4, <1>7, <1>10, <2>1 DEF Untouched, Same
<1> QED BY <1>1, <1>6, <1>9, <1>10

\* A read grants again exactly what it takes, unless Close was sent.
LEMMA ReadMove ==
  ASSUME NEW c, Sound(c), c.pc \in Reading, c.buf # <<>>, NEW a \in Answer
  PROVE LET n == Least(Len(c.buf), c.need)
            b == [Taken(c, n) EXCEPT !.mwin = @ + n, !.need = @ - n]
            d == IF b.need = 0 THEN ReadAll(b, a) ELSE b IN
        /\ d.st = c.st
        /\ c.st = "in" => Move(c, d, Send(c, "adjust", n))
        /\ c.st # "in" => Move(c, d, <<>>)
<1> DEFINE n == Least(Len(c.buf), c.need)
           end == IF Len(c.buf) = n /\ c.end = "eof" THEN "gone" ELSE c.end
           rest == SubSeq(c.buf, n + 1, Len(c.buf))
           got == c.got \o SubSeq(c.buf, 1, n)
           b == [Taken(c, n) EXCEPT !.mwin = @ + n, !.need = @ - n]
           d == IF b.need = 0 THEN ReadAll(b, a) ELSE b
<1>1. Steady(c) /\ Fits(c, c.pc) /\ c \in Channel
  BY WritesNamed DEF Sound
<1>2. /\ c.buf \in Seq(Nat) /\ c.got \in Seq(Nat) /\ c.need \in Nat /\ c.mwin \in Nat
      /\ Len(c.buf) \in Nat /\ c.end \in {"open", "eof", "gone"}
      /\ c.rid \in Ids
  <2>1. /\ c.buf \in Seq(Nat) /\ c.got \in Seq(Nat) /\ c.need \in Nat /\ c.mwin \in Nat
        /\ c.end \in {"open", "eof", "gone"} /\ c.rid \in Ids \cup {0}
    BY <1>1 DEF Channel
  <2> QED BY <1>1, <2>1 DEF Steady
<1>3. n \in Nat /\ n <= Len(c.buf) /\ n <= c.need
  BY <1>2 DEF Least
<1>4. /\ rest \in Seq(Nat) /\ Len(rest) + n = Len(c.buf) /\ got \in Seq(Nat)
      /\ end \in {"open", "eof", "gone"} /\ (end # "open" => c.end # "open")
      /\ c.need - n \in Nat /\ c.mwin + n \in Nat
  <2> HIDE DEF n
  <2>1. PICK s \in Seq(Nat) : s = c.buf
    BY <1>2
  <2>2. SubSeq(s, n + 1, Len(s)) \in Seq(Nat) /\ Len(SubSeq(s, n + 1, Len(s))) + n = Len(s)
    BY <1>2, <1>3, <2>1
  <2>3. SubSeq(s, 1, n) \in Seq(Nat)
    BY <1>2, <1>3, <2>1
  <2>4. c.got \o SubSeq(s, 1, n) \in Seq(Nat)
    BY <1>2, <2>3
  <2>5. c.need - n \in Nat /\ c.mwin + n \in Nat
    BY <1>2, <1>3
  <2> QED BY <1>2, <2>1, <2>2, <2>4, <2>5
<1>5. b = [c EXCEPT !.buf = rest, !.got = got, !.end = end, !.mwin = c.mwin + n, !.need = c.need - n]
  BY <1>1 DEF Taken, Channel
<1> HIDE DEF n, rest, got, end
<1>6. b \in Channel
  <2> HIDE DEF b
  <2> QED BY <1>1, <1>4, <1>5 DEF Channel
<1>7. /\ b.role = c.role /\ b.k = c.k /\ b.rid = c.rid /\ b.st = c.st
      /\ b.sentEof = c.sentEof /\ b.sentClose = c.sentClose
      /\ b.rwin = c.rwin /\ b.mwin = c.mwin + n /\ b.buf = rest /\ b.end = end
      /\ b.pc = c.pc /\ b.how = c.how /\ b.parked = c.parked
  <2> HIDE DEF b
  <2> QED BY <1>1, <1>5 DEF Channel
<1> HIDE DEF b
<1>8. b.mwin + Len(b.buf) = c.mwin + Len(c.buf)
  BY <1>2, <1>3, <1>4, <1>7
<1>9. Steady(b) /\ Fits(b, b.pc) /\ b.pc \in Reading
  BY <1>1, <1>6, <1>7, <1>8 DEF Steady, Fits
<1>10. Sound(d) /\ Same(b, d)
  <2>1. CASE b.need = 0
    BY <1>9, <2>1, ReadAllSound
  <2>2. CASE b.need # 0
    <3>1. Sound(b)
      BY <1>7, <1>8, <1>9 DEF Sound, Steady, Fits, Reading
    <3> QED BY <2>2, <3>1 DEF Same
  <2> QED BY <2>1, <2>2
<1> HIDE DEF d
<1>11. /\ d.role = c.role /\ d.k = c.k /\ d.rid = c.rid /\ d.st = c.st
       /\ d.sentEof = c.sentEof /\ d.sentClose = c.sentClose
       /\ d.rwin = c.rwin /\ d.mwin = c.mwin + n /\ d.end = end
  BY <1>7, <1>10 DEF Same
<1>12. d.mwin >= c.mwin /\ (c.mwin = c.mwin + 0)
  BY <1>2, <1>3, <1>11
<1>13. c.st # "in" => Move(c, d, <<>>)
  BY <1>4, <1>10, <1>11, <1>12 DEF Move
<1>14. ASSUME c.st = "in" PROVE Move(c, d, Send(c, "adjust", n))
  <2>1. CASE c.sentClose
    <3>1. Send(c, "adjust", n) = <<>>
      BY <2>1 DEF Send
    <3>2. Move(c, d, <<>>)
      BY <1>4, <1>10, <1>11, <1>12, <2>1 DEF Move
    <3> QED BY <3>1, <3>2
  <2>2. CASE ~c.sentClose
    <3>1. PICK m : m = [id |-> "adjust", to |-> c.rid, x |-> n]
      OBVIOUS
    <3>2. Send(c, "adjust", n) = <<m>>
      BY <2>2, <3>1 DEF Send, Msg
    <3>3. m \in Messages /\ m.id = "adjust" /\ m.to = c.rid /\ m.x = n
      BY <1>2, <1>3, <3>1 DEF Messages
    <3>4. Move(c, d, <<m>>)
      BY <1>4, <1>10, <1>11, <1>14, <2>2, <3>3 DEF Move
    <3> QED BY <3>2, <3>4
  <2> QED BY <2>1, <2>2
<1> QED BY <1>11, <1>13, <1>14 DEF d, b, n

-----------------------------------------------------------------------------
(* A session is closed, channel by channel *)

\* What Session.close makes of channel j, what it makes of the first n, and
\* what those post.
Shut(ch, e, j) == IF ch[e][j].st = "in" THEN Shutdown(ch[e][j]) ELSE Does(ch[e][j], <<>>)
\* An end whose first n channels are shut down, and what they sent.
Closing(ch, e, n) ==
    [ch EXCEPT ![e] = [j \in Ids |-> IF j <= n THEN Shut(ch, e, j).c ELSE ch[e][j]]]
Joins(f, n, ch, e) ==
    f = [j \in 0..n |-> IF j = 0 THEN <<>> ELSE f[j - 1] \o Shut(ch, e, j).out]

JoinsSteps(f, n, ch, e) ==
    f[0] = <<>> /\ \A j \in 1..n : f[j] = f[j - 1] \o Shut(ch, e, j).out

\* What the channels sent, channel by channel.
LEMMA JoinsNext ==
  ASSUME NEW f, NEW n \in Nat, NEW ch, NEW e, Joins(f, n, ch, e)
  PROVE JoinsSteps(f, n, ch, e)
<1>1. ASSUME NEW j \in 0..n
      PROVE f[j] = IF j = 0 THEN <<>> ELSE f[j - 1] \o Shut(ch, e, j).out
  BY DEF Joins
<1>2. f[0] = <<>>
  <2>1. 0 \in 0..n
    OBVIOUS
  <2> QED BY <1>1, <2>1, Zenon
<1>3. ASSUME NEW j \in 1..n PROVE f[j] = f[j - 1] \o Shut(ch, e, j).out
  <2>1. j \in 0..n /\ j # 0
    OBVIOUS
  <2> QED BY <1>1, <2>1, Zenon
<1> QED BY <1>2, <1>3 DEF JoinsSteps

\* The channels that are shut down have sent something, if only nothing.
LEMMA JoinsExist ==
  ASSUME NEW ch, NEW e
  PROVE \A n \in Nat : \E f : Joins(f, n, ch, e)
<1> DEFINE S == {n \in Nat : \E f : Joins(f, n, ch, e)}
<1>1. 0 \in S
  <2>1. Joins([j \in 0 .. 0 |-> <<>>], 0, ch, e)
    BY DEF Joins
  <2> QED BY <2>1
<1>2. ASSUME NEW n \in Nat, n \in S PROVE n + 1 \in S
  <2>1. PICK f : Joins(f, n, ch, e)
    BY <1>2
  <2> DEFINE g == [j \in 0 .. n + 1 |-> IF j = n + 1 THEN f[n] \o Shut(ch, e, n + 1).out ELSE f[j]]
  <2>2. ASSUME NEW j \in 0 .. n + 1
        PROVE g[j] = IF j = 0 THEN <<>> ELSE g[j - 1] \o Shut(ch, e, j).out
    <3>1. CASE j = n + 1
      <4>1. g[j] = f[n] \o Shut(ch, e, n + 1).out /\ j # 0 /\ j - 1 = n /\ g[n] = f[n]
        BY <3>1
      <4> QED BY <4>1, <3>1
    <3>2. CASE j # n + 1
      <4>1. j \in 0 .. n /\ g[j] = f[j]
        BY <3>2
      <4>2. j # 0 => j \in 1 .. n /\ j - 1 \in 0 .. n + 1 /\ j - 1 # n + 1 /\ g[j - 1] = f[j - 1]
        BY <4>1
      <4>3. f[j] = IF j = 0 THEN <<>> ELSE f[j - 1] \o Shut(ch, e, j).out
        <5>1. JoinsSteps(f, n, ch, e)
          BY <2>1, JoinsNext
        <5> QED BY <4>1, <4>2, <5>1 DEF JoinsSteps
      <4> HIDE DEF g
      <4> QED BY <4>1, <4>2, <4>3
    <3> QED BY <3>1, <3>2
  <2>3. Joins(g, n + 1, ch, e)
    <3>1. g = [j \in 0 .. n + 1 |-> g[j]]
      OBVIOUS
    <3> HIDE DEF g
    <3> QED BY <2>2, <3>1 DEF Joins
  <2> QED BY <2>3
<1>3. Nat \subseteq S
  <2> HIDE DEF S
  <2> QED BY <1>1, <1>2, Induction
<1> QED BY <1>3

\* Sending nothing changes nothing.
LEMMA AfterNone ==
  ASSUME NEW w \in [Ends -> Seq(Messages)], NEW cl, NEW e \in Ends
  PROVE After(w, cl, e, <<>>) = w
<1> DEFINE o == Other(e)
<1>1. PICK u \in Seq(Messages) : o \in Ends /\ u = w[o]
  BY TwoEnds
<1>2. u \o <<>> = u
  BY ConcatEmptySeq
<1> QED BY <1>1, <1>2 DEF After

\* Sending twice is sending the two in their order.
LEMMA AfterAfter ==
  ASSUME NEW w, NEW ch, NEW sz, NEW cl, Good(w, ch, sz, cl), NEW e \in Ends
  PROVE \A a \in Seq(Messages), b \in Seq(Messages) :
          After(After(w, cl, e, a), cl, e, b) = After(w, cl, e, a \o b)
<1> TAKE a \in Seq(Messages), b \in Seq(Messages)
<1> DEFINE o == Other(e)
<1>1. o \in Ends /\ w \in [Ends -> Seq(Messages)]
  BY TwoEnds DEF Good, Typed
<1>2. CASE cl[e] \/ cl[o]
  BY <1>2 DEF After
<1>3. CASE ~(cl[e] \/ cl[o])
  <2>1. PICK u \in Seq(Messages) : u = w[o]
    BY <1>1
  <2>2. (u \o a) \o b = u \o (a \o b)
    BY ConcatAssociative
  <2>3. After(w, cl, e, a) = [w EXCEPT ![o] = u \o a]
    BY <1>3, <2>1 DEF After
  <2>4. After(w, cl, e, a \o b) = [w EXCEPT ![o] = u \o (a \o b)]
    BY <1>3, <2>1 DEF After
  <2>6. PICK v : v = After(w, cl, e, a)
    OBVIOUS
  <2>7. After(v, cl, e, b) = [v EXCEPT ![o] = v[o] \o b]
    BY <1>3 DEF After
  <2>8. v[o] = u \o a
    BY <1>1, <2>3, <2>6
  <2>9. After(v, cl, e, b) = [w EXCEPT ![o] = (u \o a) \o b]
    BY <1>1, <2>3, <2>6, <2>7, <2>8
  <2> QED BY <2>2, <2>4, <2>6, <2>9
<1> QED BY <1>2, <1>3

\* One more channel is shut down.
LEMMA ShutOne ==
  ASSUME NEW v, NEW g, NEW sz, NEW cl, Good(v, g, sz, cl), NEW e \in Ends, NEW i \in Ids,
         NEW r, r = Shut(g, e, i)
  PROVE /\ r.out \in Seq(Messages)
        /\ Good(After(v, cl, e, r.out), [g EXCEPT ![e][i] = r.c], sz, cl)
<1>1. Typed(v, g, sz, cl) /\ v \in [Ends -> Seq(Messages)] /\ g \in [Ends -> [Ids -> Channel \cup {None}]]
  BY DEF Good, Typed
<1>2. CASE g[e][i].st # "in"
  <2>1. r.c = g[e][i] /\ r.out = <<>>
    BY <1>2 DEF Shut, Does
  <2>2. [g EXCEPT ![e][i] = r.c] = g
    <3>1. [g[e] EXCEPT ![i] = r.c] = g[e]
      BY <1>1, <2>1
    <3> QED BY <1>1, <3>1
  <2>3. <<>> \in Seq(Messages)
    BY EmptySeq
  <2>4. After(v, cl, e, r.out) = v
    BY <1>1, <2>1, AfterNone
  <2> QED BY <2>1, <2>2, <2>3, <2>4
<1>3. CASE g[e][i].st = "in"
  <2>1. Used(sz, e, i)
    <3>1. IF Used(sz, e, i) THEN Sound(g[e][i]) ELSE g[e][i] = None
      BY <1>1, Zenon DEF Typed
    <3> QED BY <1>3, <3>1 DEF None
  <2>2. Sound(g[e][i])
    BY <1>1, <2>1, UsedSound
  <2>3. r = Shutdown(g[e][i])
    BY <1>3 DEF Shut
  <2>4. PICK d, out : d = r.c /\ out = r.out
    OBVIOUS
  <2>5. Move(g[e][i], d, out) /\ (Untouched(g[e][i]) => Untouched(d) /\ out = <<>>)
    BY <2>2, <2>3, <2>4, ShutdownMove
  <2>6. g[e][i].rid # 0 /\ Peer(g, e, i).rid = 0 => Untouched(g[e][i])
    BY <2>1, Mutual
  <2>7. Acts(v, g, sz, cl, e, i, d, out)
    BY <2>1, <2>5, <2>6 DEF Acts
  <2>8. Good(After(v, cl, e, out), [g EXCEPT ![e][i] = d], sz, cl)
    BY <2>7, Act
  <2>9. out \in Seq(Messages)
    <3>1. out = <<>> \/ \E m \in Messages : out = <<m>>
      BY <2>5 DEF Move
    <3>2. <<>> \in Seq(Messages) /\ \A m \in Messages : <<m>> \in Seq(Messages)
      BY EmptySeq
    <3> QED BY <3>1, <3>2
  <2> QED BY <2>4, <2>8, <2>9
<1> QED BY <1>2, <1>3

\* All channels of an end are shut down.
LEMMA ShutAll ==
  ASSUME NEW w, NEW ch, NEW sz, NEW cl, Good(w, ch, sz, cl), NEW e \in Ends,
         NEW N \in Nat, N = Cardinality(Calls), NEW f, Joins(f, N, ch, e)
  PROVE /\ f[N] \in Seq(Messages)
        /\ Good(After(w, cl, e, f[N]), Closing(ch, e, N), sz, cl)
<1>0. \A a \in Seq(Messages), b \in Seq(Messages) :
        After(After(w, cl, e, a), cl, e, b) = After(w, cl, e, a \o b)
  BY AfterAfter
<1> DEFINE S == {n \in Nat : n <= N =>
                   /\ f[n] \in Seq(Messages)
                   /\ Good(After(w, cl, e, f[n]), Closing(ch, e, n), sz, cl)}
<1>1. /\ w \in [Ends -> Seq(Messages)] /\ ch \in [Ends -> [Ids -> Channel \cup {None}]]
      /\ Ids = 1..N
  BY Size DEF Good, Typed
<1>2. 0 \in S
  <2>1. f[0] = <<>> /\ <<>> \in Seq(Messages)
    BY JoinsNext, EmptySeq DEF JoinsSteps
  <2>2. Closing(ch, e, 0) = ch
    <3>1. \A j \in Ids : ~(j <= 0)
      BY <1>1
    <3>2. [j \in Ids |-> IF j <= 0 THEN Shut(ch, e, j).c ELSE ch[e][j]] = ch[e]
      <4>1. ch[e] \in [Ids -> Channel \cup {None}]
        BY <1>1
      <4> QED BY <3>1, <4>1
    <3> QED BY <1>1, <3>2 DEF Closing
  <2>3. After(w, cl, e, <<>>) = w
    BY <1>1, AfterNone
  <2> QED BY <2>1, <2>2, <2>3
<1>3. ASSUME NEW n \in Nat, n \in S PROVE n + 1 \in S
  <2>1. SUFFICES ASSUME n + 1 <= N
                 PROVE /\ f[n + 1] \in Seq(Messages)
                       /\ Good(After(w, cl, e, f[n + 1]), Closing(ch, e, n + 1), sz, cl)
    OBVIOUS
  <2>2. n <= N /\ n + 1 \in Ids /\ n + 1 \in 1..N /\ (n + 1) - 1 = n
    BY <1>1, <2>1
  <2>3. PICK v, g, i : v = After(w, cl, e, f[n]) /\ g = Closing(ch, e, n) /\ i = n + 1
    OBVIOUS
  <2>4. f[n] \in Seq(Messages) /\ Good(v, g, sz, cl)
    BY <1>3, <2>2, <2>3
  <2>5. PICK r : r = Shut(g, e, i)
    OBVIOUS
  <2>6. /\ r.out \in Seq(Messages)
        /\ Good(After(v, cl, e, r.out), [g EXCEPT ![e][i] = r.c], sz, cl)
    BY <2>2, <2>3, <2>4, <2>5, ShutOne
  <2>7. g[e] = [j \in Ids |-> IF j <= n THEN Shut(ch, e, j).c ELSE ch[e][j]]
    BY <1>1, <2>3 DEF Closing
  <2>8. g[e][i] = ch[e][i] /\ r = Shut(ch, e, i)
    <3>1. ~(i <= n) /\ i \in Ids
      BY <2>2, <2>3
    <3>2. g[e][i] = ch[e][i]
      BY <2>7, <3>1
    <3> QED BY <2>5, <3>2 DEF Shut
  <2>9. f[i] = f[n] \o r.out /\ f[i] \in Seq(Messages)
    <3>1. f[i] = f[i - 1] \o Shut(ch, e, i).out
      <4>1. \A j \in 1..N : f[j] = f[j - 1] \o Shut(ch, e, j).out
        <5>1. JoinsSteps(f, N, ch, e)
          BY JoinsNext
        <5> QED BY <5>1 DEF JoinsSteps
      <4>2. i \in 1..N
        BY <2>2, <2>3
      <4> QED BY <4>1, <4>2
    <3>2. f[i] = f[n] \o r.out
      BY <2>2, <2>3, <2>8, <3>1
    <3> QED BY <2>4, <2>6, <3>2, ConcatProperties
  <2>10. After(v, cl, e, r.out) = After(w, cl, e, f[i])
    <3>1. PICK a \in Seq(Messages), b \in Seq(Messages) : a = f[n] /\ b = r.out
      BY <2>4, <2>6
    <3>2. After(After(w, cl, e, a), cl, e, b) = After(w, cl, e, a \o b)
      BY <1>0
    <3> QED BY <2>3, <2>9, <3>1, <3>2
  <2>11. [g EXCEPT ![e][i] = r.c] = Closing(ch, e, i)
    <3>1. [g[e] EXCEPT ![i] = r.c] = [j \in Ids |-> IF j <= i THEN Shut(ch, e, j).c ELSE ch[e][j]]
      <4>1. \A j \in Ids : j # i => (j <= n <=> j <= i)
        BY <1>1, <2>2, <2>3
      <4>2. i <= i
        BY <2>2, <2>3
      <4>3. PICK h : h = g[e]
        OBVIOUS
      <4>4. [h EXCEPT ![i] = r.c] = [j \in Ids |-> IF j = i THEN r.c ELSE h[j]]
        BY <2>7, <4>3
      <4> QED BY <2>7, <2>8, <4>1, <4>2, <4>3, <4>4
    <3>2. g = [ch EXCEPT ![e] = g[e]]
      BY <1>1, <2>3 DEF Closing
    <3>3. [g EXCEPT ![e][i] = r.c] = [ch EXCEPT ![e] = [g[e] EXCEPT ![i] = r.c]]
      BY <1>1, <3>2
    <3> QED BY <3>1, <3>3 DEF Closing
  <2> QED BY <2>3, <2>6, <2>9, <2>10, <2>11
<1>4. Nat \subseteq S
  <2> HIDE DEF S
  <2> QED BY <1>2, <1>3, Induction
<1>5. N \in S
  BY <1>4
<1> QED BY <1>5

\* A session whose channels are gone stops listening.
LEMMA Deaf ==
  ASSUME NEW w, NEW ch, NEW sz, NEW cl, Good(w, ch, sz, cl), NEW e \in Ends,
         \A i \in Ids : ~On(ch, e, i)
  PROVE Good([w EXCEPT ![e] = <<>>], ch, sz, [cl EXCEPT ![e] = TRUE])
<1> DEFINE v == [w EXCEPT ![e] = <<>>]
           cm == [cl EXCEPT ![e] = TRUE]
           o == Other(e)
<1>1. /\ w \in [Ends -> Seq(Messages)] /\ Typed(w, ch, sz, cl) /\ Apiece(ch, sz)
      /\ cl \in [Ends -> BOOLEAN]
      /\ o \in Ends /\ o # e /\ Other(o) = e /\ \A f \in Ends : f = e \/ f = o
  BY TwoEnds DEF Good, Typed
<1>2. <<>> \in Seq(Messages)
  BY EmptySeq
<1>3. v \in [Ends -> Seq(Messages)] /\ v[e] = <<>> /\ v[o] = w[o]
  BY <1>1, <1>2
<1>4. cm \in [Ends -> BOOLEAN] /\ \A f \in Ends : cm[f] => cl[f] \/ f = e
  BY <1>1
<1> HIDE DEF v, cm
<1>5. Typed(v, ch, sz, cm)
  <2>1. \A f \in Ends : cm[f] => v[f] = <<>> /\ \A i \in Ids : ~On(ch, f, i)
    BY <1>1, <1>3, <1>4 DEF Typed
  <2>2. /\ sz \in [Ends -> 0..Cardinality(Calls)] /\ ch \in [Ends -> [Ids -> Channel \cup {None}]]
        /\ \A f \in Ends, i \in Ids : IF Used(sz, f, i) THEN Sound(ch[f][i]) ELSE ch[f][i] = None
    BY <1>1, Zenon DEF Typed
  <2> QED BY <1>3, <1>4, <2>1, <2>2, Zenon DEF Typed
<1>6. \A x : x \notin Range(v[e])
  BY <1>3 DEF Range
<1>7. ASSUME NEW j, NEW id \in {"data", "adjust"} PROVE Units(v[e], j, id) = 0
  <2>1. v[e] \in Seq(Messages)
    BY <1>3
  <2> QED BY <1>6, <2>1, UnitsType
<1>8. ASSUME NEW j \in Ids, Used(sz, e, j) PROVE Pairs(v, ch, sz, e, j)
  <2>1. Pairs(w, ch, sz, e, j)
    BY <1>8, Zenon DEF Good
  <2>2. ch[e][j].rwin + 0 <= Window
    <3>1. Sound(ch[e][j]) /\ Window \in Nat
      BY <1>1, <1>8, UsedSound, DuplexSizes
    <3>2. ch[e][j].rwin \in 0..Window
      BY <3>1, SoundType
    <3> QED BY <3>1, <3>2
  <2>3. Units(v[e], j, "adjust") = 0
    BY <1>7
  <2> QED BY <1>8, <2>1, <2>2, <2>3 DEF Pairs
<1>9. ASSUME NEW j \in Ids, Used(sz, o, j) PROVE Pairs(v, ch, sz, o, j)
  <2>1. SUFFICES ASSUME ch[o][j].rid # 0 PROVE Pairs(v, ch, sz, o, j)
    BY DEF Pairs
  <2>2. Pairs(w, ch, sz, o, j)
    BY <1>1, <1>9, Zenon DEF Good
  <2>3. PICK c, p, q : c = ch[o][j] /\ q = c.rid /\ p = Peer(ch, o, j)
    OBVIOUS
  <2>4. Used(sz, e, q) /\ p = ch[e][q]
    BY <1>1, <2>1, <2>2, <2>3 DEF Pairs, Peer
  <2>5. p.st # "in"
    <3>1. q \in Ids
      BY <1>1, <2>4, UsedSound
    <3> QED BY <2>4, <3>1 DEF On
  <2>6. Units(v[e], q, "adjust") = 0
    BY <1>7
  <2>7. /\ p.rwin \in Nat /\ c.mwin \in Nat
        /\ Units(w[o], j, "data") \in Nat /\ Units(w[e], q, "adjust") \in Nat
    <3>1. p.rwin \in 0..Window /\ c.mwin \in 0..Window
      BY <1>1, <1>9, <2>3, <2>4, UsedSound, SoundType
    <3>2. w[o] \in Seq(Messages) /\ w[e] \in Seq(Messages)
      BY <1>1
    <3>3. Units(w[o], j, "data") \in Nat /\ Units(w[e], q, "adjust") \in Nat
      BY <3>2, UnitsType
    <3> QED BY <3>1, <3>3
  <2>8. ASSUME p.rwin + Units(w[o], j, "data") + Units(w[e], q, "adjust") <= c.mwin
        PROVE p.rwin + Units(w[o], j, "data") + 0 <= c.mwin
    BY <2>7, <2>8
  <2> QED BY <1>1, <1>3, <2>1, <2>2, <2>3, <2>4, <2>5, <2>6, <2>8 DEF Pairs
<1>10. ASSUME NEW f \in Ends, NEW x \in Range(v[f]) PROVE Tells(v, ch, sz, f, x)
  <2>1. f = o /\ Tells(w, ch, sz, f, x)
    <3>1. f = o
      BY <1>1, <1>6
    <3>2. x \in Range(w[f])
      BY <1>3, <3>1
    <3> QED BY <3>1, <3>2, Zenon DEF Good
  <2>2. \A y \in Range(v[Other(f)]) : FALSE
    BY <1>1, <1>6, <2>1
  <2> QED BY <2>1, <2>2 DEF Tells
<1>11. ASSUME NEW f \in Ends PROVE Ordered(v[f])
  <2>1. Ordered(<<>>)
    BY DEF Ordered
  <2>2. Ordered(w[o])
    BY <1>1 DEF Good
  <2> QED BY <1>1, <1>3, <2>1, <2>2
<1>12. Good(v, ch, sz, cm)
  BY <1>1, <1>5, <1>8, <1>9, <1>10, <1>11 DEF Good
<1> QED BY <1>12 DEF v, cm

-----------------------------------------------------------------------------
(* The steps of the code keep the invariant *)

\* Results of calls stay results, and a call that was opened stays so.
Settling ==
    /\ result' \in [Calls -> Results]
    /\ \A k \in Calls : result[k] # "idle" => result'[k] # "idle"

\* A channel in use acts on its own account.
Stepped(e, i, d, out) ==
    LET c == chan[e][i] IN
    /\ Used(size, e, i) /\ Move(c, d, out)
    /\ Untouched(c) => Untouched(d) /\ out = <<>>
    /\ d.st = c.st \/ d.sentClose
    /\ chan' = [chan EXCEPT ![e][i] = d] /\ wire' = After(wire, closed, e, out)
    /\ size' = size /\ closed' = closed
    /\ Settling

\* The parts of the invariant.
LEMMA Inv ==
  ASSUME CreditInv
  PROVE /\ Good(wire, chan, size, closed) /\ Typed(wire, chan, size, closed)
        /\ LeftClosing /\ result \in [Calls -> Results]
        /\ wire \in [Ends -> Seq(Messages)] /\ size \in [Ends -> 0..Cardinality(Calls)]
        /\ chan \in [Ends -> [Ids -> Channel \cup {None}]] /\ closed \in [Ends -> BOOLEAN]
BY DEF CreditInv, Good, Typed

\* A channel there is has a number in use, and is sound.
LEMMA InUseUsed ==
  ASSUME CreditInv, NEW e \in Ends, NEW i \in Ids, chan[e][i].st # "none"
  PROVE Used(size, e, i) /\ Sound(chan[e][i])
<1>1. Typed(wire, chan, size, closed)
  BY Inv
<1>2. IF Used(size, e, i) THEN Sound(chan[e][i]) ELSE chan[e][i] = None
  BY <1>1, Zenon DEF Typed
<1> QED BY <1>2 DEF None

\* A step of one channel keeps the invariant.
LEMMA SteppedKeeps ==
  ASSUME CreditInv, NEW e \in Ends, NEW i \in Ids, NEW d, NEW out, Stepped(e, i, d, out)
  PROVE CreditInv'
<1>1. /\ Used(size, e, i) /\ Move(chan[e][i], d, out)
      /\ Untouched(chan[e][i]) => Untouched(d) /\ out = <<>>
      /\ d.st = chan[e][i].st \/ d.sentClose
      /\ chan' = [chan EXCEPT ![e][i] = d] /\ wire' = After(wire, closed, e, out)
      /\ size' = size /\ closed' = closed
      /\ Settling
  BY DEF Stepped
<1>2. /\ Good(wire, chan, size, closed) /\ LeftClosing
      /\ chan \in [Ends -> [Ids -> Channel \cup {None}]]
      /\ \A f \in Ends, j \in Ids : Used(size, f, j) => result[chan[f][j].k] # "idle"
  BY Inv DEF CreditInv
<1>3. Acts(wire, chan, size, closed, e, i, d, out)
  <2>1. chan[e][i].rid # 0 /\ Peer(chan, e, i).rid = 0 => Untouched(chan[e][i])
    BY <1>1, <1>2, Mutual
  <2> QED BY <1>1, <1>2, <2>1 DEF Acts
<1>4. Good(wire', chan', size', closed')
  BY <1>1, <1>3, Act
<1>5. /\ chan'[e][i] = d
      /\ \A f \in Ends, j \in Ids : f # e \/ j # i => chan'[f][j] = chan[f][j]
  BY <1>1, <1>2
<1>6. LeftClosing'
  <2>1. SUFFICES ASSUME NEW f \in Ends, NEW j \in Ids, chan'[f][j].st = "out",
                        ~chan'[f][j].sentClose, chan'[f][j].rid # 0
                 PROVE closed'[f]
    BY DEF LeftClosing
  <2>2. chan[f][j].st = "out" /\ ~chan[f][j].sentClose /\ chan[f][j].rid # 0
    <3>1. CASE f = e /\ j = i
      BY <1>1, <1>5, <2>1, <3>1 DEF Move
    <3>2. CASE f # e \/ j # i
      BY <1>5, <2>1, <3>2
    <3> QED BY <3>1, <3>2
  <2> QED BY <1>1, <1>2, <2>2 DEF LeftClosing
<1>7. ASSUME NEW f \in Ends, NEW j \in Ids, Used(size', f, j)
      PROVE result'[chan'[f][j].k] # "idle"
  <2>1. Used(size, f, j)
    BY <1>1, <1>7
  <2>2. chan'[f][j].k = chan[f][j].k
    BY <1>1, <1>5 DEF Move
  <2>3. Sound(chan[f][j])
    BY <2>1, Inv, UsedSound
  <2>4. chan[f][j].k \in Calls
    BY <2>3, SoundType
  <2> QED BY <1>1, <1>2, <2>1, <2>2, <2>4 DEF Settling
<1>8. result' \in [Calls -> Results]
  BY <1>1 DEF Settling
<1> QED BY <1>4, <1>6, <1>7, <1>8 DEF CreditInv

\* What a step is that leaves the results alone.
LEMMA Acting ==
  ASSUME CreditInv, NEW e \in Ends, NEW i \in Ids, NEW d, NEW out,
         chan[e][i].st # "none", Step(e, i, Does(d, out)), UNCHANGED <<size, closed>>, Settling,
         Move(chan[e][i], d, out), Untouched(chan[e][i]) => Untouched(d) /\ out = <<>>,
         d.st = chan[e][i].st \/ d.sentClose
  PROVE CreditInv'
<1>1. Used(size, e, i)
  BY InUseUsed
<1>2. chan' = [chan EXCEPT ![e][i] = d] /\ wire' = After(wire, closed, e, out)
  BY DEF Step, Post, After, Does
<1>3. Stepped(e, i, d, out)
  BY <1>1, <1>2 DEF Stepped
<1> QED BY <1>3, SteppedKeeps

\* A step that settles no call settles none wrongly.
LEMMA Quiet ==
  ASSUME CreditInv, UNCHANGED result
  PROVE Settling
BY Inv DEF Settling

\* The caller hears how its open came out.
LEMMA OpenedKeeps ==
  ASSUME CreditInv, NEW e \in Ends, NEW i \in Ids, Opened(e, i)
  PROVE CreditInv'
<1> DEFINE c == chan[e][i]
<1>1. c.st # "none" /\ c.pc = "opening" /\ c.ready # "empty"
  BY DEF Opened
<1>2. Sound(c) /\ c \in Channel /\ c.role = "caller" /\ c.parked = FALSE /\ c.k \in Calls
  <2>1. Sound(c)
    BY <1>1, InUseUsed
  <2>2. c \in Channel /\ c.role \in {"caller", "responder"} /\ c.parked \in BOOLEAN /\ c.k \in Calls
    BY <2>1 DEF Sound, Channel
  <2> QED BY <1>1, <2>1, <2>2 DEF Sound, ResponderPc, Writing
<1>3. ~Untouched(c)
  BY <1>1 DEF Untouched
<1>4. CASE c.ready = "true"
  <2> DEFINE b == [c EXCEPT !.ready = "empty"]
             x == Begin(b, "w sel")
             r == TryWrite(x)
  <2>1. c.rid # 0 /\ Steady(c)
    BY <1>2, <1>4, SoundSteady DEF Sound
  <2>2. b \in Channel
    BY <1>2 DEF Channel
  <2>3. Same(c, b)
    BY <1>2 DEF Channel, Same
  <2> HIDE DEF b
  <2>4. Steady(b) /\ Fits(b, "w sel")
    BY <1>2, <2>1, <2>2, <2>3 DEF Steady, Same, Fits, CallerPc
  <2>5. Sound(x) /\ Same(b, x) /\ x.pc = "w sel"
    BY <2>4, BeginSound
  <2>6. Same(c, x)
    BY <2>3, <2>5 DEF Same
  <2> HIDE DEF x
  <2>7. Move(x, r.c, r.out) /\ r.c.st = x.st
    BY <2>5, TryWriteMove DEF Writing
  <2>8. PICK d, out : d = r.c /\ out = r.out
    OBVIOUS
  <2>9. Move(c, d, out) /\ d.st = c.st
    BY <2>6, <2>7, <2>8 DEF Move, Same
  <2>10. Step(e, i, r) /\ UNCHANGED <<size, closed, result>>
    BY <1>4 DEF Opened, x, b
  <2>11. Step(e, i, Does(d, out))
    BY <2>8, <2>10 DEF Step, Does
  <2> QED BY <1>1, <1>3, <2>9, <2>10, <2>11, Acting, Quiet
<1>5. CASE c.ready # "true"
  <2> DEFINE d == [c EXCEPT !.pc = "done"]
  <2>1. Fits(c, "done")
    BY <1>2 DEF Fits, CallerPc
  <2>2. Sound(d) /\ Same(c, d)
    BY <1>2, <2>1, GoesOn
  <2>3. Step(e, i, Does(d, <<>>)) /\ result' = [result EXCEPT ![c.k] = "rejected"]
        /\ UNCHANGED <<size, closed>>
    BY <1>5 DEF Opened
  <2>4. Settling
    <3>1. result \in [Calls -> Results] /\ "rejected" \in Results
      BY Inv DEF Results
    <3> QED BY <1>2, <2>3, <3>1 DEF Settling
  <2> HIDE DEF d
  <2>5. Move(c, d, <<>>) /\ d.st = c.st
    BY <1>2, <2>2, SameMove DEF Same
  <2> QED BY <1>1, <1>3, <2>3, <2>4, <2>5, Acting
<1> QED BY <1>4, <1>5

\* A write, by either user.
LEMMA WriteKeeps ==
  ASSUME CreditInv, NEW e \in Ends, NEW i \in Ids, Write(e, i)
  PROVE CreditInv'
<1> DEFINE c == chan[e][i]
           r == TryWrite(c)
<1>1. /\ c.st # "none" /\ c.pc \in Writing /\ Step(e, i, r)
      /\ UNCHANGED <<size, closed>> /\ UNCHANGED result
  BY DEF Write
<1>2. Sound(c) /\ ~Untouched(c)
  BY <1>1, InUseUsed DEF Untouched, Writing
<1>3. Move(c, r.c, r.out) /\ r.c.st = c.st
  BY <1>1, <1>2, TryWriteMove
<1>4. PICK d, out : d = r.c /\ out = r.out
  OBVIOUS
<1>5. Step(e, i, Does(d, out))
  BY <1>1, <1>4 DEF Step, Does
<1> QED BY <1>1, <1>2, <1>3, <1>4, <1>5, Acting, Quiet

\* A read, by either user.
LEMMA ReadKeeps ==
  ASSUME CreditInv, NEW e \in Ends, NEW i \in Ids, Read(e, i)
  PROVE CreditInv'
<1> DEFINE c == chan[e][i]
           n == Least(Len(c.buf), c.need)
           a == IF c.rid = 0 THEN "none" ELSE chan[Other(e)][c.rid].answer
           b == [Taken(c, n) EXCEPT !.mwin = @ + n, !.need = @ - n]
           d == IF b.need = 0 THEN ReadAll(b, a) ELSE b
           z == ReadNull([c EXCEPT !.end = "gone", !.null = TRUE])
<1>1. /\ c.st # "none" /\ c.pc \in Reading
      /\ \/ c.buf = <<>> /\ c.end # "open" /\ Step(e, i, Does(z, <<>>))
         \/ c.buf # <<>> /\ Step(e, i, Does(d, Send(c, "adjust", n)))
      /\ UNCHANGED <<size, closed>> /\ UNCHANGED result
  BY DEF Read
<1>2. Sound(c) /\ Used(size, e, i)
  BY <1>1, InUseUsed
<1>3. Settling
  BY <1>1, Quiet
<1>4. CASE c.buf = <<>> /\ c.end # "open" /\ Step(e, i, Does(z, <<>>))
  <2>1. Move(c, z, <<>>) /\ z.st = c.st /\ (Untouched(c) => Untouched(z))
    BY <1>1, <1>2, <1>4, ReadNullMove
  <2> HIDE DEF z
  <2> QED BY <1>1, <1>3, <1>4, <2>1, Acting
<1>5. CASE c.buf # <<>> /\ Step(e, i, Does(d, Send(c, "adjust", n)))
  <2>1. a \in Answer
    <3>1. CASE c.rid = 0
      BY <3>1 DEF Answer
    <3>2. CASE c.rid # 0
      <4>1. Good(wire, chan, size, closed) /\ Typed(wire, chan, size, closed)
        BY Inv
      <4>2. Used(size, Other(e), c.rid) /\ Other(e) \in Ends
        BY <1>2, <3>2, <4>1, Mutual, TwoEnds
      <4>3. Sound(chan[Other(e)][c.rid])
        BY <4>1, <4>2, UsedSound
      <4>4. chan[Other(e)][c.rid].answer \in Answer
        BY <4>3 DEF Sound, Channel
      <4> QED BY <3>2, <4>4
    <3> QED BY <3>1, <3>2
  <2>2. /\ d.st = c.st
        /\ c.st = "in" => Move(c, d, Send(c, "adjust", n))
        /\ c.st # "in" => Move(c, d, <<>>)
    <3> HIDE DEF a
    <3> QED BY <1>1, <1>2, <1>5, <2>1, ReadMove
  <2>3. ~Untouched(c)
    BY <1>5 DEF Untouched
  <2> HIDE DEF d, n
  <2>4. CASE c.st = "in"
    <3>1. PICK out : out = Send(c, "adjust", n)
      OBVIOUS
    <3> QED BY <1>1, <1>3, <1>5, <2>2, <2>3, <2>4, <3>1, Acting
  <2>5. CASE c.st # "in"
    <3>1. Step(e, i, Does(d, <<>>))
      <4>1. CASE c.sentClose
        <5>1. Send(c, "adjust", n) = <<>>
          BY <4>1 DEF Send
        <5> QED BY <1>5, <5>1
      <4>2. CASE ~c.sentClose
        <5>1. c.st = "out" /\ c.rid # 0
          BY <1>1, <1>2, <2>5, WritesNamed, SoundType
        <5>2. closed[e]
          BY <4>2, <5>1, Inv DEF LeftClosing
        <5> QED BY <1>5, <5>2 DEF Step, Post, Does
      <4> QED BY <4>1, <4>2
    <3> QED BY <1>1, <1>3, <2>2, <2>3, <2>5, <3>1, Acting
  <2> QED BY <2>4, <2>5
<1> QED BY <1>1, <1>4, <1>5

\* The responder looks its handler up.
LEMMA DispatchKeeps ==
  ASSUME CreditInv, NEW e \in Ends, NEW i \in Ids, Dispatch(e, i)
  PROVE CreditInv'
<1> DEFINE c == chan[e][i]
           b == [c EXCEPT !.answer = "error", !.how = "no handler"]
<1>1. /\ c.st # "none" /\ c.pc = "dispatch"
      /\ Step(e, i, Does(Begin(c, "r arg"), <<>>)) \/ Step(e, i, Does(Begin(b, "w hdr"), <<>>))
      /\ UNCHANGED <<size, closed>> /\ UNCHANGED result
  BY DEF Dispatch
<1>2. Sound(c) /\ c \in Channel /\ c.role = "responder" /\ c.rid # 0 /\ ~Untouched(c)
  <2>1. Sound(c)
    BY <1>1, InUseUsed
  <2>2. c \in Channel /\ c.role \in {"caller", "responder"}
    BY <2>1 DEF Sound, Channel
  <2> QED BY <1>1, <2>1, <2>2 DEF Sound, CallerPc, Untouched
<1>3. Steady(c)
  BY <1>2, SoundSteady
<1>4. Steady(b) /\ Same(c, b)
  <2>1. b \in Channel
    BY <1>2 DEF Channel, Answer
  <2>2. Same(c, b)
    BY <1>2 DEF Channel, Same
  <2> HIDE DEF b
  <2> QED BY <1>3, <2>1, <2>2 DEF Steady, Same
<1> HIDE DEF b
<1>5. Fits(c, "r arg") /\ Fits(b, "w hdr")
  BY <1>2, <1>4 DEF Fits, ResponderPc, Same
<1>6. PICK d : Sound(d) /\ Same(c, d) /\ Step(e, i, Does(d, <<>>))
  <2>1. Sound(Begin(c, "r arg")) /\ Same(c, Begin(c, "r arg"))
    BY <1>3, <1>5, BeginSound
  <2>2. Sound(Begin(b, "w hdr")) /\ Same(b, Begin(b, "w hdr"))
    BY <1>4, <1>5, BeginSound
  <2>3. Same(c, Begin(b, "w hdr"))
    BY <1>4, <2>2 DEF Same
  <2> QED BY <1>1, <2>1, <2>2, <2>3
<1>7. Move(c, d, <<>>) /\ d.st = c.st
  BY <1>2, <1>6, SameMove DEF Same
<1> QED BY <1>1, <1>2, <1>6, <1>7, Acting, Quiet

\* The handler answers.
LEMMA RespondKeeps ==
  ASSUME CreditInv, NEW e \in Ends, NEW i \in Ids, Respond(e, i)
  PROVE CreditInv'
<1> DEFINE c == chan[e][i]
<1>1. PICK a \in Answers[c.k] \ {"not found"} :
        /\ c.st # "none" /\ c.pc = "handler"
        /\ Step(e, i, Does(IF a = "throw" THEN Begin(c, "thrown")
                           ELSE Begin([c EXCEPT !.answer = a], "w hdr"), <<>>))
        /\ UNCHANGED <<size, closed>> /\ UNCHANGED result
  BY DEF Respond
<1>2. Sound(c) /\ c \in Channel /\ c.k \in Calls /\ c.role = "responder" /\ c.rid # 0 /\ ~Untouched(c)
  <2>1. Sound(c)
    BY <1>1, InUseUsed
  <2>2. c \in Channel /\ c.k \in Calls /\ c.role \in {"caller", "responder"}
    BY <2>1 DEF Sound, Channel
  <2> QED BY <1>1, <2>1, <2>2 DEF Sound, CallerPc, Untouched
<1>3. Steady(c)
  BY <1>2, SoundSteady
<1>4. a \in Answer
  <2>1. Answers[c.k] \subseteq {"value", "error", "continue", "throw", "not found"}
    BY <1>2, DuplexSizes
  <2> QED BY <2>1 DEF Answer
<1> DEFINE b == [c EXCEPT !.answer = a]
<1>5. Steady(b) /\ Same(c, b)
  <2>1. \A x \in Answer :
          LET d == [c EXCEPT !.answer = x] IN Steady(d) /\ Same(c, d) /\ d.how = c.how /\ d.pc = c.pc
    BY <1>3, Noting
  <2> QED BY <1>4, <2>1
<1> HIDE DEF b
<1>6. Fits(c, "thrown") /\ Fits(b, "w hdr")
  BY <1>2, <1>5 DEF Fits, ResponderPc, Same
<1>7. PICK d : Sound(d) /\ Same(c, d) /\ Step(e, i, Does(d, <<>>))
  <2>1. Sound(Begin(c, "thrown")) /\ Same(c, Begin(c, "thrown"))
    BY <1>3, <1>6, BeginSound
  <2>2. Sound(Begin(b, "w hdr")) /\ Same(b, Begin(b, "w hdr"))
    BY <1>5, <1>6, BeginSound
  <2>3. Same(c, Begin(b, "w hdr"))
    BY <1>5, <2>2 DEF Same
  <2> QED BY <1>1, <2>1, <2>2, <2>3 DEF b
<1>8. Move(c, d, <<>>) /\ d.st = c.st
  BY <1>2, <1>7, SameMove DEF Same
<1> QED BY <1>1, <1>2, <1>7, <1>8, Acting, Quiet

\* The responder ends its stream.
LEMMA CloseWriteKeeps ==
  ASSUME CreditInv, NEW e \in Ends, NEW i \in Ids, CloseWrite(e, i)
  PROVE CreditInv'
<1> DEFINE c == chan[e][i]
           b == [c EXCEPT !.sentEof = TRUE]
<1>1. /\ c.st # "none" /\ c.pc = "eof"
      /\ Step(e, i, Does(Begin(b, "close"), Send(c, "eof", <<>>)))
      /\ UNCHANGED <<size, closed>> /\ UNCHANGED result
  BY DEF CloseWrite
<1>2. Sound(c) /\ c \in Channel /\ c.role = "responder" /\ c.rid # 0 /\ c.rid \in Ids /\ ~Untouched(c)
  <2>1. Sound(c)
    BY <1>1, InUseUsed
  <2>2. c \in Channel /\ c.role \in {"caller", "responder"} /\ c.rid \in Ids \cup {0}
    BY <2>1 DEF Sound, Channel
  <2> QED BY <1>1, <2>1, <2>2 DEF Sound, CallerPc, Untouched
<1>3. Steady(c)
  BY <1>2, SoundSteady
<1>4. /\ b \in Channel /\ b.sentEof = TRUE
      /\ b.role = c.role /\ b.k = c.k /\ b.rid = c.rid /\ b.st = c.st
      /\ b.sentClose = c.sentClose
      /\ b.rwin = c.rwin /\ b.mwin = c.mwin /\ b.buf = c.buf /\ b.end = c.end
  BY <1>2 DEF Channel
<1> HIDE DEF b
<1>5. Steady(b) /\ Fits(b, "close")
  BY <1>2, <1>3, <1>4 DEF Steady, Fits, ResponderPc
<1>6. PICK d : Sound(d) /\ Same(b, d) /\ Step(e, i, Does(d, Send(c, "eof", <<>>)))
  <2>1. Sound(Begin(b, "close")) /\ Same(b, Begin(b, "close"))
    BY <1>5, BeginSound
  <2> QED BY <1>1, <2>1
<1>7. /\ Sound(d) /\ d.role = c.role /\ d.k = c.k /\ d.rid = c.rid /\ d.st = c.st
      /\ d.sentEof = TRUE /\ d.sentClose = c.sentClose /\ d.end = c.end
      /\ d.rwin = c.rwin /\ d.mwin = c.mwin
  BY <1>4, <1>6 DEF Same
<1>8. CASE c.sentClose
  <2>1. Send(c, "eof", <<>>) = <<>>
    BY <1>8 DEF Send
  <2>2. c.mwin \in Nat
    BY <1>2 DEF Channel
  <2>3. Move(c, d, <<>>)
    BY <1>7, <2>2 DEF Move
  <2> QED BY <1>1, <1>2, <1>6, <1>7, <2>1, <2>3, Acting, Quiet
<1>9. CASE ~c.sentClose
  <2> DEFINE m == Msg(c, "eof", <<>>)
  <2>1. Send(c, "eof", <<>>) = <<m>>
    BY <1>9 DEF Send
  <2>2. m \in Messages /\ m.to = c.rid /\ m.id = "eof"
    <3>1. <<>> \in Seq(Nat)
      BY EmptySeq
    <3> QED BY <1>2, <3>1 DEF Msg, Messages
  <2> HIDE DEF m
  <2>3. Move(c, d, <<m>>)
    BY <1>7, <1>9, <2>2 DEF Move
  <2> QED BY <1>1, <1>2, <1>6, <1>7, <2>1, <2>3, Acting, Quiet
<1> QED BY <1>8, <1>9

\* A user closes its channel.
LEMMA CloseKeeps ==
  ASSUME CreditInv, NEW e \in Ends, NEW i \in Ids, Close(e, i)
  PROVE CreditInv'
<1> DEFINE c == chan[e][i]
           r == CloseBy(c)
           pc == IF c.sentClose THEN "closed" ELSE "closing"
           x == [r.c EXCEPT !.pc = pc]
<1>1. /\ c.st # "none" /\ c.pc = "close" /\ Step(e, i, Does(x, r.out))
      /\ UNCHANGED <<size, closed>> /\ UNCHANGED result
  BY DEF Close
<1>2. Sound(c) /\ ~Untouched(c)
  BY <1>1, InUseUsed DEF Untouched
<1>3. c.rid # 0 /\ c.rid \in Ids /\ c.role \in {"caller", "responder"}
  BY <1>1, <1>2, SoundType DEF Sound
<1>4. Move(c, r.c, r.out) /\ r.c.sentClose /\ r.c.pc = "close" /\ r.c.how = c.how
      /\ r.c.parked = FALSE
  BY <1>1, <1>2, <1>3, CloseByMove
<1>5. Fits(c, "close")
  BY <1>1, <1>2, <1>3, SoundSteady
<1>6. PICK b, out : b = r.c /\ out = r.out
  OBVIOUS
<1>7. Sound(b) /\ b.rid = c.rid /\ b.role = c.role /\ b.sentClose
      /\ b.how = c.how /\ b.parked = FALSE /\ Move(c, b, out)
  BY <1>4, <1>6 DEF Move
<1>8. Fits(b, pc)
  BY <1>3, <1>5, <1>7 DEF Fits, CallerPc, ResponderPc
<1> DEFINE d == [b EXCEPT !.pc = pc]
<1>9. Sound(d) /\ Same(b, d)
  <2> HIDE DEF pc
  <2> QED BY <1>3, <1>7, <1>8, GoesOn
<1>10. Step(e, i, Does(d, out))
  BY <1>1, <1>6
<1> HIDE DEF d, pc
<1>11. Move(c, d, out) /\ d.sentClose
  BY <1>7, <1>9 DEF Move, Same
<1> QED BY <1>1, <1>2, <1>10, <1>11, Acting, Quiet

\* A user saw its channel closed.
LEMMA ClosedKeeps ==
  ASSUME CreditInv, NEW e \in Ends, NEW i \in Ids, Closed(e, i)
  PROVE CreditInv'
<1> DEFINE c == chan[e][i]
           d == [c EXCEPT !.pc = "done"]
<1>1. /\ c.st # "none" /\ c.pc \in {"closed", "closing"}
      /\ chan' = [chan EXCEPT ![e][i].pc = "done"]
      /\ result' = IF c.role = "caller" THEN [result EXCEPT ![c.k] = c.how] ELSE result
      /\ UNCHANGED <<wire, size, closed>>
  BY DEF Closed
<1>2. Sound(c) /\ Used(size, e, i) /\ ~Untouched(c)
  BY <1>1, InUseUsed DEF Untouched
<1>3. c \in Channel /\ c.parked = FALSE /\ c.k \in Calls /\ c.role \in {"caller", "responder"}
  <2>1. c \in Channel /\ c.parked \in BOOLEAN /\ c.k \in Calls /\ c.role \in {"caller", "responder"}
    BY <1>2 DEF Sound, Channel
  <2> QED BY <1>1, <1>2, <2>1 DEF Sound, Writing
<1>4. Fits(c, "done")
  BY <1>3 DEF Fits, CallerPc, ResponderPc
<1>5. Sound(d) /\ Same(c, d)
  BY <1>2, <1>3, <1>4, GoesOn
<1>6. chan' = [chan EXCEPT ![e][i] = d]
  BY <1>1
<1>7. wire' = After(wire, closed, e, <<>>)
  BY <1>1, Inv, AfterNone
<1>8. Settling
  <2>1. c.role = "caller" => c.how \in Results \ {"idle"}
    <3>1. c.how \in {"none", "value", "null", "error", "rejected", "ran", "no args", "no handler"}
      BY <1>3 DEF Channel
    <3>2. c.role = "caller" => c.how \in Results
      BY <1>1, <1>2 DEF Sound
    <3> QED BY <3>1, <3>2
  <2>2. result \in [Calls -> Results]
    BY Inv
  <2> QED BY <1>1, <1>3, <2>1, <2>2 DEF Settling
<1> HIDE DEF d
<1>9. Move(c, d, <<>>) /\ d.st = c.st
  BY <1>2, <1>5, SameMove DEF Same
<1>10. Stepped(e, i, d, <<>>)
  BY <1>1, <1>2, <1>6, <1>7, <1>8, <1>9 DEF Stepped
<1> QED BY <1>10, SteppedKeeps

\* Every step of a user.
LEMMA UserKeeps ==
  ASSUME CreditInv, NEW e \in Ends, NEW i \in Ids, User(e, i)
  PROVE CreditInv'
BY OpenedKeeps, WriteKeeps, ReadKeeps, DispatchKeeps, RespondKeeps, CloseWriteKeeps,
   CloseKeeps, ClosedKeeps DEF User

-----------------------------------------------------------------------------
(* A message is handled *)

\* The window is a number.
LEMMA WindowNumber == Window \in Nat /\ Window + 0 = Window /\ Window <= Window
<1>1. Window \in Nat
  BY DuplexSizes
<1> QED BY <1>1

\* The counters of a channel are numbers.
LEMMA Fields ==
  ASSUME NEW c \in Channel
  PROVE /\ c.rwin \in Nat /\ c.mwin \in Nat /\ c.buf \in Seq(Nat) /\ Len(c.buf) \in Nat
        /\ c.rwin + 0 = c.rwin /\ c.mwin + 0 = c.mwin
        /\ c.parked \in BOOLEAN /\ c.sentClose \in BOOLEAN
<1>1. /\ c.rwin \in Nat /\ c.mwin \in Nat /\ c.buf \in Seq(Nat)
      /\ c.parked \in BOOLEAN /\ c.sentClose \in BOOLEAN
  BY DEF Channel
<1> QED BY <1>1

\* A channel that left without Close.
Left(c) == c.st = "out" /\ ~c.sentClose /\ c.rid # 0

\* What a step leaves of the rest of the invariant.
LEMMA Remains ==
  ASSUME CreditInv, Good(wire', chan', size', closed'), size' = size, Settling,
         \A f \in Ends : closed[f] => closed'[f],
         \A f \in Ends, j \in Ids : Used(size, f, j) =>
            /\ chan'[f][j].k = chan[f][j].k
            /\ Left(chan'[f][j]) => closed'[f] \/ Left(chan[f][j])
  PROVE CreditInv'
<1>1. /\ LeftClosing /\ Good(wire, chan, size, closed)
      /\ \A f \in Ends, j \in Ids : Used(size, f, j) => result[chan[f][j].k] # "idle"
  BY DEF CreditInv
<1>2. LeftClosing'
  <2>1. SUFFICES ASSUME NEW f \in Ends, NEW j \in Ids, Left(chan'[f][j])
                 PROVE closed'[f]
    BY DEF LeftClosing, Left
  <2>2. Used(size, f, j)
    <3>1. Typed(wire', chan', size', closed')
      BY DEF Good
    <3>2. IF Used(size', f, j) THEN Sound(chan'[f][j]) ELSE chan'[f][j] = None
      BY <3>1, Zenon DEF Typed
    <3> QED BY <2>1, <3>2 DEF Left, None
  <2>3. closed'[f] \/ Left(chan[f][j])
    BY <2>1, <2>2
  <2> QED BY <1>1, <2>3 DEF LeftClosing, Left
<1>3. ASSUME NEW f \in Ends, NEW j \in Ids, Used(size', f, j)
      PROVE result'[chan'[f][j].k] # "idle"
  <2>1. Used(size, f, j)
    BY <1>3
  <2>2. Sound(chan[f][j]) /\ chan'[f][j].k = chan[f][j].k
    BY <2>1, Inv, UsedSound
  <2>3. chan[f][j].k \in Calls
    BY <2>2, SoundType
  <2> QED BY <1>1, <2>1, <2>2, <2>3 DEF Settling
<1>4. result' \in [Calls -> Results]
  BY DEF Settling
<1> QED BY <1>2, <1>3, <1>4 DEF CreditInv

\* One channel takes the first message, which brings units or ends its stream.
TakingOne(w, ch, sz, cl, e, m, i, c, d) ==
    /\ Good(w, ch, sz, cl) /\ w[e] # <<>> /\ m = Head(w[e]) /\ i = m.to
    /\ m.id \in {"data", "adjust", "eof"} /\ Used(sz, e, i) /\ c = ch[e][i] /\ c.st = "in"
    /\ Sound(d) /\ d.role = c.role /\ d.k = c.k /\ d.rid = c.rid /\ d.st = c.st
    /\ d.sentEof = c.sentEof /\ d.sentClose = c.sentClose
    /\ d.rwin = c.rwin + Weight(m, i, "adjust")
    /\ d.mwin + Weight(m, i, "data") = c.mwin
    /\ d.end # "open" => c.end # "open" \/ m.id = "eof"

\* A message to one channel is taken by that channel.
LEMMA TakeOne ==
  ASSUME NEW w, NEW ch, NEW sz, NEW cl, NEW e \in Ends, NEW m, NEW i, NEW c, NEW d,
         TakingOne(w, ch, sz, cl, e, m, i, c, d)
  PROVE Good(Rest(w, e), [ch EXCEPT ![e][i] = d], sz, cl)
<1>0. /\ Good(w, ch, sz, cl) /\ w[e] # <<>> /\ m = Head(w[e]) /\ i = m.to
      /\ m.id \in {"data", "adjust", "eof"} /\ Used(sz, e, i) /\ c = ch[e][i] /\ c.st = "in"
      /\ Sound(d) /\ d.role = c.role /\ d.k = c.k /\ d.rid = c.rid /\ d.st = c.st
      /\ d.sentEof = c.sentEof /\ d.sentClose = c.sentClose
      /\ d.rwin = c.rwin + Weight(m, i, "adjust")
      /\ d.mwin + Weight(m, i, "data") = c.mwin
      /\ d.end # "open" => c.end # "open" \/ m.id = "eof"
  BY DEF TakingOne
<1> DEFINE g == [ch EXCEPT ![e][i] = d]
<1>1. Typed(w, ch, sz, cl) /\ ch \in [Ends -> [Ids -> Channel \cup {None}]]
  BY <1>0 DEF Good, Typed
<1>2. i \in Ids
  BY <1>0, <1>1, UsedSound
<1>3. d \in Channel
  BY <1>0 DEF Sound
<1>4. /\ g \in [Ends -> [Ids -> Channel \cup {None}]] /\ g[e][i] = d
      /\ \A f \in Ends, j \in Ids : f # e \/ j # i => g[f][j] = ch[f][j]
  BY <1>1, <1>2, <1>3
<1> HIDE DEF g
<1>5. d.rwin <= c.rwin + Weight(m, i, "adjust")
  <2>1. d.rwin \in Nat
    BY <1>3 DEF Channel
  <2> QED BY <1>0, <2>1
<1>6. ASSUME NEW j \in Ids, Used(sz, e, j), j # i
      PROVE LET b == ch[e][j] IN
            /\ Sound(b) /\ b.rwin <= b.rwin + Weight(m, j, "adjust")
            /\ b.rwin = b.rwin + Weight(m, j, "adjust")
            /\ b.mwin + Weight(m, j, "data") = b.mwin
  <2>1. Sound(ch[e][j])
    BY <1>1, <1>6, UsedSound
  <2>2. ch[e][j].rwin \in Nat /\ ch[e][j].mwin \in Nat
    BY <2>1 DEF Sound, Channel
  <2>3. Weight(m, j, "adjust") = 0 /\ Weight(m, j, "data") = 0
    BY <1>0, <1>6 DEF Weight
  <2> QED BY <2>1, <2>2, <2>3
<1>7. ASSUME NEW j \in Ids, Used(sz, e, j)
      PROVE LET b == ch[e][j] x == g[e][j] IN
            /\ Sound(x) /\ x.role = b.role /\ x.k = b.k /\ x.rid = b.rid
            /\ x.st = b.st /\ x.sentEof = b.sentEof /\ x.sentClose = b.sentClose
            /\ x.rwin <= b.rwin + Weight(m, j, "adjust")
            /\ b.st = "in" =>
                 /\ x.rwin = b.rwin + Weight(m, j, "adjust")
                 /\ x.mwin + Weight(m, j, "data") = b.mwin
                 /\ x.end # "open" => b.end # "open" \/ (m.id = "eof" /\ m.to = j)
            /\ x = b \/ (m.id \in {"data", "adjust", "eof"} /\ m.to = j)
  <2>1. CASE j = i
    BY <1>0, <1>4, <1>5, <2>1
  <2>2. CASE j # i
    BY <1>4, <1>6, <1>7, <2>2
  <2> QED BY <2>1, <2>2
<1>8. \A f \in Ends, j \in Ids : f # e \/ ~Used(sz, e, j) => g[f][j] = ch[f][j]
  BY <1>0, <1>4
<1>9. Taking(w, ch, g, sz, e)
  <2>1. w[e] # <<>> /\ g \in [Ends -> [Ids -> Channel \cup {None}]]
    BY <1>0, <1>4
  <2>2. m = Head(w[e])
    BY <1>0
  <2> QED BY <1>7, <1>8, <2>1, <2>2 DEF Taking
<1> QED BY <1>0, <1>9, Take DEF g

\* Channel i of end e is there to handle the first message, and r is what it
\* does.
Handling(w, ch, sz, cl, e, m, i, c, r) ==
    /\ Good(w, ch, sz, cl) /\ w[e] # <<>> /\ m = Head(w[e]) /\ i = m.to
    /\ c = ch[e][i] /\ c.st = "in" /\ r = Handle(c, m)

\* What there is to know of the message and of the channel.
Addressed(w, ch, sz, e, m, i, c) ==
    /\ Used(sz, e, i) /\ i \in Ids /\ Sound(c) /\ c \in Channel
    /\ m \in Messages /\ m \in Range(w[e]) /\ w[e] # <<>> /\ m.to = i
    /\ w \in [Ends -> Seq(Messages)] /\ ch \in [Ends -> [Ids -> Channel \cup {None}]]
    /\ Tells(w, ch, sz, e, m) /\ Pairs(w, ch, sz, e, i) /\ c = ch[e][i]

\* A message that is no open is about a channel there is.
LEMMA Handled ==
  ASSUME NEW w, NEW ch, NEW sz, NEW cl, NEW e \in Ends, NEW m, NEW i, NEW c, NEW r,
         Handling(w, ch, sz, cl, e, m, i, c, r), m.id # "open"
  PROVE Addressed(w, ch, sz, e, m, i, c)
<1>1. /\ Good(w, ch, sz, cl) /\ w[e] # <<>> /\ m = Head(w[e]) /\ i = m.to /\ c = ch[e][i]
  BY DEF Handling
<1>2. Typed(w, ch, sz, cl) /\ w \in [Ends -> Seq(Messages)]
      /\ ch \in [Ends -> [Ids -> Channel \cup {None}]]
      /\ \A x \in Range(w[e]) : Tells(w, ch, sz, e, x)
  BY <1>1 DEF Good, Typed
<1>3. m \in Messages /\ m \in Range(w[e])
  BY <1>1, <1>2, RestWire
<1>4. Tells(w, ch, sz, e, m)
  BY <1>2, <1>3
<1>5. Used(sz, e, m.to)
  <2>1. m.id \in {"confirm", "failure", "data", "adjust", "eof", "close"}
    BY <1>3 DEF Messages
  <2> QED BY <1>4, <2>1 DEF Tells, Linked
<1>6. m.to \in Ids /\ Sound(ch[e][m.to])
  BY <1>2, <1>5, UsedSound
<1>7. Pairs(w, ch, sz, e, m.to)
  BY <1>1, <1>5, <1>6 DEF Good
<1>8. c \in Channel
  BY <1>1, <1>6 DEF Sound
<1> QED BY <1>1, <1>2, <1>3, <1>4, <1>5, <1>6, <1>7, <1>8 DEF Addressed

\* The channel and the one it names know each other.
LEMMA HeadLinked ==
  ASSUME NEW w, NEW ch, NEW sz, NEW e \in Ends, NEW m, NEW i, NEW c,
         Addressed(w, ch, sz, e, m, i, c), m.id \in {"data", "adjust", "eof", "close"}
  PROVE c.rid # 0 /\ Peer(ch, e, i).rid # 0
<1>1. Tells(w, ch, sz, e, m) /\ c = ch[e][i] /\ m.to = i
  BY DEF Addressed
<1>2. Linked(ch, sz, e, i)
  BY <1>1 DEF Tells
<1> QED BY <1>1, <1>2 DEF Linked

\* A channel that the peer knows acts after a message was taken.
LEMMA ThenAct ==
  ASSUME NEW w, NEW ch, NEW sz, NEW cl, NEW g, NEW e \in Ends, NEW i \in Ids, NEW b, NEW d, NEW out,
         ch \in [Ends -> [Ids -> Channel \cup {None}]],
         Used(sz, e, i), g = [ch EXCEPT ![e][i] = b], Good(w, g, sz, cl),
         b.rid = ch[e][i].rid, Peer(ch, e, i).rid # 0, Move(b, d, out)
  PROVE Good(After(w, cl, e, out), [ch EXCEPT ![e][i] = d], sz, cl)
<1>1. Other(e) # e /\ Other(e) \in Ends
  BY TwoEnds
<1>2. g[e][i] = b /\ g[Other(e)] = ch[Other(e)]
  BY <1>1
<1>3. Peer(g, e, i).rid # 0
  BY <1>2 DEF Peer
<1>4. Acts(w, g, sz, cl, e, i, d, out)
  BY <1>2, <1>3 DEF Acts
<1>5. Good(After(w, cl, e, out), [g EXCEPT ![e][i] = d], sz, cl)
  BY <1>4, Act
<1>6. [g EXCEPT ![e][i] = d] = [ch EXCEPT ![e][i] = d]
  OBVIOUS
<1> QED BY <1>5, <1>6

\* A message was taken and the channel it was for acted upon it.
Answered(w, ch, sz, cl, e, i, r) ==
    /\ Good(After(Rest(w, e), cl, e, r.out), [ch EXCEPT ![e][i] = r.c], sz, cl)
    /\ r.c.k = ch[e][i].k /\ ~Left(r.c) /\ Used(sz, e, i) /\ i \in Ids

\* Taking a message and sending nothing leaves the rest.
LEMMA RestAfterNone ==
  ASSUME NEW w, NEW ch, NEW sz, NEW cl, Good(w, ch, sz, cl), NEW e \in Ends, w[e] # <<>>
  PROVE After(Rest(w, e), cl, e, <<>>) = Rest(w, e)
<1>1. w \in [Ends -> Seq(Messages)]
  BY DEF Good, Typed
<1>2. Rest(w, e) \in [Ends -> Seq(Messages)]
  BY <1>1, RestWire
<1> QED BY <1>2, AfterNone

\* A message that is taken in silence, and one that the channel answers.
LEMMA AnsweredBy ==
  ASSUME NEW w, NEW ch, NEW sz, NEW cl, NEW e \in Ends, NEW m, NEW i, NEW c, NEW r,
         Handling(w, ch, sz, cl, e, m, i, c, r), Addressed(w, ch, sz, e, m, i, c),
         NEW d, r.c = d, d.k = c.k, ~Left(d)
  PROVE /\ r.out = <<>> /\ Good(Rest(w, e), [ch EXCEPT ![e][i] = d], sz, cl) =>
             Answered(w, ch, sz, cl, e, i, r)
        /\ \A out : r.out = out /\ Good(After(Rest(w, e), cl, e, out), [ch EXCEPT ![e][i] = d], sz, cl) =>
             Answered(w, ch, sz, cl, e, i, r)
<1>1. Good(w, ch, sz, cl) /\ w[e] # <<>> /\ c = ch[e][i] /\ Used(sz, e, i) /\ i \in Ids
  BY DEF Handling, Addressed
<1>2. After(Rest(w, e), cl, e, <<>>) = Rest(w, e)
  BY <1>1, RestAfterNone
<1> QED BY <1>1, <1>2 DEF Answered

\* Units that come are never more than what the channel expects.
LEMMA DataFits ==
  ASSUME NEW w, NEW ch, NEW sz, NEW cl, NEW e \in Ends, NEW m, NEW i, NEW c, NEW r,
         Handling(w, ch, sz, cl, e, m, i, c, r), Addressed(w, ch, sz, e, m, i, c),
         m.id = "data"
  PROVE Len(m.x) \in Nat /\ Len(m.x) <= c.mwin /\ (c.end = "gone" => c.sentClose)
<1> DEFINE p == Peer(ch, e, i)
           u == Units(w[e], i, "data")
           a == Units(w[Other(e)], c.rid, "adjust")
           v == Units(Rest(w, e)[e], i, "data")
           l == Len(m.x)
           n == p.rwin
           t == c.mwin
<1>1. /\ Typed(w, ch, sz, cl) /\ w \in [Ends -> Seq(Messages)] /\ w[e] # <<>> /\ m = Head(w[e])
      /\ m \in Messages /\ m \in Range(w[e]) /\ m.to = i /\ c = ch[e][i] /\ c.st = "in"
      /\ Pairs(w, ch, sz, e, i) /\ c \in Channel
  BY DEF Handling, Addressed, Good
<1>2. c.rid # 0 /\ p.rid # 0
  BY HeadLinked
<1>3. /\ Used(sz, Other(e), c.rid)
      /\ p.rwin + u + a <= c.mwin
      /\ ~c.sentClose /\ c.end # "open" => \A y \in Range(w[e]) : y.id = "data" => y.to # i
  BY <1>1, <1>2 DEF Pairs, On
<1>4. c.end = "gone" => c.sentClose
  BY <1>1, <1>3
<1>5. u = Weight(m, i, "data") + v /\ v \in Nat
  BY <1>1, RestUnits
<1>6. Weight(m, i, "data") = l
  BY <1>1 DEF Weight
<1>7. Other(e) \in Ends
  BY TwoEnds
<1>8. a \in Nat
  BY <1>1, <1>7, UnitsType
<1>9. n \in Nat
  <2>1. Sound(p)
    BY <1>1, <1>3, <1>7, UsedSound DEF Peer
  <2> QED BY <2>1, Zenon DEF Sound, Channel
<1>10. l \in Nat
  <2>1. m.x \in Seq(Nat)
    BY <1>1 DEF Messages
  <2> QED BY <2>1
<1>11. t \in Nat
  BY <1>1, Fields
<1>12. u = l + v /\ n + u + a <= t
  BY <1>3, <1>5, <1>6
<1>13. l <= t
  <2> HIDE DEF u, a, v, l, n, t
  <2> QED BY <1>5, <1>8, <1>9, <1>10, <1>11, <1>12
<1> QED BY <1>4, <1>10, <1>13

\* The buffer grows by what comes, and the window shrinks by as much.
LEMMA ReceivedSound ==
  ASSUME NEW c, Sound(c), c.st = "in", c.rid # 0, NEW x \in Seq(Nat),
         Len(x) <= c.mwin, c.end = "gone" => c.sentClose
  PROVE LET d == Received(c, x) IN
        /\ Sound(d) /\ d.role = c.role /\ d.k = c.k /\ d.rid = c.rid /\ d.st = c.st
        /\ d.sentEof = c.sentEof /\ d.sentClose = c.sentClose /\ d.rwin = c.rwin
        /\ d.mwin + Len(x) = c.mwin /\ d.end = c.end
<1> DEFINE b == IF c.end = "gone" THEN c.buf ELSE c.buf \o x
           n == c.mwin - Len(x)
           d == Received(c, x)
<1>1. c \in Channel /\ c.mwin \in Nat /\ c.rwin \in Nat /\ c.buf \in Seq(Nat)
      /\ Len(c.buf) \in Nat /\ Len(x) \in Nat /\ Window \in Nat
  <2>1. c \in Channel
    BY SoundType
  <2>2. c.mwin \in Nat /\ c.rwin \in Nat /\ c.buf \in Seq(Nat) /\ Len(c.buf) \in Nat
    BY <2>1, Fields
  <2>3. Len(x) \in Nat
    OBVIOUS
  <2> QED BY <2>1, <2>2, <2>3, WindowNumber
<1>2. n \in Nat /\ n + Len(x) = c.mwin
  BY <1>1
<1>3. b \in Seq(Nat) /\ Len(b) \in Nat
  BY <1>1
<1>4. d = [c EXCEPT !.mwin = n, !.buf = b]
  BY DEF Received
<1>5. Len(b) <= Len(c.buf) + Len(x) /\ (c.end # "gone" => Len(b) = Len(c.buf) + Len(x))
  <2>1. Len(c.buf \o x) = Len(c.buf) + Len(x)
    BY <1>1
  <2> QED BY <1>1, <2>1
<1> HIDE DEF d, b, n
<1>6. /\ d \in Channel /\ d.role = c.role /\ d.k = c.k /\ d.rid = c.rid /\ d.st = c.st
      /\ d.sentEof = c.sentEof /\ d.sentClose = c.sentClose /\ d.rwin = c.rwin
      /\ d.mwin = n /\ d.end = c.end /\ d.parked = c.parked /\ d.pc = c.pc
      /\ d.how = c.how /\ d.ready = c.ready /\ d.buf = b
  BY <1>1, <1>2, <1>3, <1>4 DEF Channel
<1>7. /\ c.rwin <= Window /\ c.mwin + Len(c.buf) <= Window
      /\ ~c.sentClose => c.mwin + Len(c.buf) = Window
  BY DEF Sound
<1>8. n + Len(b) <= Window /\ (~c.sentClose => n + Len(b) = Window)
  <2> DEFINE l == Len(x)
             s == Len(c.buf)
             z == Len(b)
             t == c.mwin
  <2>1. /\ l \in Nat /\ s \in Nat /\ z \in Nat /\ t \in Nat /\ n \in Nat /\ n + l = t
        /\ z <= s + l /\ t + s <= Window /\ Window \in Nat
        /\ ~c.sentClose => z = s + l /\ t + s = Window
    BY <1>1, <1>2, <1>3, <1>5, <1>7
  <2> HIDE DEF l, s, z, t
  <2>2. n + z <= Window /\ (~c.sentClose => n + z = Window)
    BY <2>1
  <2> QED BY <2>2 DEF z
<1>9. Sound(d)
  BY <1>6, <1>7, <1>8 DEF Sound
<1> QED BY <1>2, <1>6, <1>9 DEF d

\* Data arrives: the credit under way becomes bytes in the buffer.
LEMMA HandleData ==
  ASSUME NEW w, NEW ch, NEW sz, NEW cl, NEW e \in Ends, NEW m, NEW i, NEW c, NEW r,
         Handling(w, ch, sz, cl, e, m, i, c, r), m.id = "data"
  PROVE Answered(w, ch, sz, cl, e, i, r)
<1>1. Addressed(w, ch, sz, e, m, i, c)
  BY Handled
<1>2. c.rid # 0 /\ Len(m.x) \in Nat /\ Len(m.x) <= c.mwin /\ (c.end = "gone" => c.sentClose)
  BY <1>1, HeadLinked, DataFits
<1>3. Sound(c) /\ c.st = "in" /\ c \in Channel /\ m.x \in Seq(Nat)
  BY <1>1 DEF Addressed, Handling, Messages
<1>4. PICK x : x = m.x
  OBVIOUS
<1>5. PICK d : d = Received(c, x)
  OBVIOUS
<1>6. x \in Seq(Nat) /\ Len(x) <= c.mwin
  BY <1>2, <1>3, <1>4
<1>7. /\ Sound(d) /\ d.role = c.role /\ d.k = c.k /\ d.rid = c.rid /\ d.st = c.st
      /\ d.sentEof = c.sentEof /\ d.sentClose = c.sentClose /\ d.rwin = c.rwin
      /\ d.mwin + Len(x) = c.mwin /\ d.end = c.end
  BY <1>2, <1>3, <1>5, <1>6, ReceivedSound
<1>8. Weight(m, i, "adjust") = 0 /\ Weight(m, i, "data") = Len(x)
  BY <1>1, <1>4 DEF Addressed, Weight
<1>9. d.rwin = c.rwin + Weight(m, i, "adjust") /\ d.mwin + Weight(m, i, "data") = c.mwin
  <2>1. c.rwin + 0 = c.rwin
    BY <1>3, Fields
  <2> QED BY <1>7, <1>8, <2>1, Zenon
<1>10. TakingOne(w, ch, sz, cl, e, m, i, c, d)
  BY <1>1, <1>3, <1>7, <1>9 DEF TakingOne, Handling, Addressed
<1>11. Good(Rest(w, e), [ch EXCEPT ![e][i] = d], sz, cl)
  BY <1>10, TakeOne
<1>12. r.c = d /\ r.out = <<>>
  BY <1>4, <1>5 DEF Handling, Handle, Does
<1>13. ~Left(d)
  BY <1>3, <1>7 DEF Left
<1> QED BY <1>1, <1>7, <1>11, <1>12, <1>13, AnsweredBy

\* Credit arrives: it was under way, and is now the window.
LEMMA HandleAdjust ==
  ASSUME NEW w, NEW ch, NEW sz, NEW cl, NEW e \in Ends, NEW m, NEW i, NEW c, NEW r,
         Handling(w, ch, sz, cl, e, m, i, c, r), m.id = "adjust"
  PROVE Answered(w, ch, sz, cl, e, i, r)
<1>1. Addressed(w, ch, sz, e, m, i, c)
  BY Handled
<1>2. c.rid # 0 /\ Peer(ch, e, i).rid # 0
  BY <1>1, HeadLinked
<1>3. /\ Sound(c) /\ c.st = "in" /\ c \in Channel /\ m.to = i /\ m = Head(w[e]) /\ w[e] # <<>>
      /\ w \in [Ends -> Seq(Messages)] /\ ch \in [Ends -> [Ids -> Channel \cup {None}]]
      /\ Pairs(w, ch, sz, e, i) /\ Used(sz, e, i) /\ i \in Ids /\ c = ch[e][i] /\ m \in Messages
  BY <1>1 DEF Addressed, Handling
<1>4. m.x \in Nat
  BY <1>3 DEF Messages
<1>5. PICK x \in Nat : x = m.x
  BY <1>4
<1>6. Weight(m, i, "adjust") = x /\ Weight(m, i, "data") = 0
  BY <1>3, <1>5 DEF Weight
<1>7. c.rwin \in Nat /\ c.mwin \in Nat
  BY <1>3, Fields
<1>8. c.rwin + x <= Window
  <2> DEFINE u == Units(w[e], i, "adjust")
             v == Units(Rest(w, e)[e], i, "adjust")
  <2>1. c.rwin + u <= Window
    BY <1>2, <1>3 DEF Pairs
  <2>2. u = Weight(m, i, "adjust") + v /\ v \in Nat
    BY <1>3, RestUnits
  <2>3. u = x + v
    BY <1>6, <2>2
  <2> HIDE DEF u, v
  <2> QED BY <1>7, <2>1, <2>2, <2>3, WindowNumber
<1>9. PICK b : b = [c EXCEPT !.rwin = @ + x]
  OBVIOUS
<1>10. r = AddWindow(c, x)
  BY <1>5 DEF Handling, Handle
<1>11. PICK d, out : d = r.c /\ out = r.out
  OBVIOUS
<1>12. Sound(b) /\ Move(b, d, out) /\ d.st = b.st
  <2>1. Widened(c, x)
    BY <1>2, <1>3, <1>8, AddWindowMove
  <2> QED BY <1>9, <1>10, <1>11, <2>1 DEF Widened
<1>13. /\ b.role = c.role /\ b.k = c.k /\ b.rid = c.rid /\ b.st = c.st
       /\ b.sentEof = c.sentEof /\ b.sentClose = c.sentClose /\ b.rwin = c.rwin + x
       /\ b.mwin = c.mwin /\ b.end = c.end
  BY <1>3, <1>9 DEF Channel
<1>14. b.rwin = c.rwin + Weight(m, i, "adjust") /\ b.mwin + Weight(m, i, "data") = c.mwin
  <2>1. c.mwin + 0 = c.mwin
    BY <1>3, Fields
  <2> QED BY <1>6, <1>13, <2>1, Zenon
<1>15. TakingOne(w, ch, sz, cl, e, m, i, c, b)
  BY <1>3, <1>12, <1>13, <1>14 DEF TakingOne, Handling
<1>16. PICK g, v : g = [ch EXCEPT ![e][i] = b] /\ v = Rest(w, e)
  OBVIOUS
<1>17. Good(v, g, sz, cl)
  BY <1>15, <1>16, TakeOne
<1>18. Good(After(v, cl, e, out), [ch EXCEPT ![e][i] = d], sz, cl)
  <2>1. b.rid = ch[e][i].rid
    BY <1>3, <1>13
  <2> QED BY <1>2, <1>3, <1>12, <1>16, <1>17, <2>1, ThenAct
<1>19. d.k = c.k /\ d.st = "in"
  BY <1>3, <1>12, <1>13 DEF Move
<1>20. ~Left(d)
  BY <1>19 DEF Left
<1> QED BY <1>1, <1>11, <1>16, <1>18, <1>19, <1>20, AnsweredBy

\* Eof arrives: nothing is owed for it.
LEMMA HandleEof ==
  ASSUME NEW w, NEW ch, NEW sz, NEW cl, NEW e \in Ends, NEW m, NEW i, NEW c, NEW r,
         Handling(w, ch, sz, cl, e, m, i, c, r), m.id = "eof"
  PROVE Answered(w, ch, sz, cl, e, i, r)
<1>1. Addressed(w, ch, sz, e, m, i, c)
  BY Handled
<1>2. c.rid # 0
  BY <1>1, HeadLinked
<1>3. Sound(c) /\ c.st = "in" /\ c \in Channel /\ m.to = i
  BY <1>1 DEF Addressed, Handling
<1>4. PICK d : d = Eof(c)
  OBVIOUS
<1>5. /\ Sound(d) /\ d.role = c.role /\ d.k = c.k /\ d.rid = c.rid /\ d.st = c.st
      /\ d.sentEof = c.sentEof /\ d.sentClose = c.sentClose
      /\ d.rwin = c.rwin /\ d.mwin = c.mwin
  BY <1>2, <1>3, <1>4, EofSound
<1>6. Weight(m, i, "adjust") = 0 /\ Weight(m, i, "data") = 0
  BY DEF Weight
<1>7. d.rwin = c.rwin + Weight(m, i, "adjust") /\ d.mwin + Weight(m, i, "data") = c.mwin
  <2>1. c.rwin + 0 = c.rwin /\ c.mwin + 0 = c.mwin
    BY <1>3, Fields
  <2> QED BY <1>5, <1>6, <2>1, Zenon
<1>8. TakingOne(w, ch, sz, cl, e, m, i, c, d)
  BY <1>1, <1>3, <1>5, <1>7 DEF TakingOne, Handling, Addressed
<1>9. Good(Rest(w, e), [ch EXCEPT ![e][i] = d], sz, cl)
  BY <1>8, TakeOne
<1>10. r.c = d /\ r.out = <<>>
  BY <1>4 DEF Handling, Handle, Does
<1>11. ~Left(d)
  BY <1>3, <1>5 DEF Left
<1> QED BY <1>1, <1>5, <1>9, <1>10, <1>11, AnsweredBy

\* Close arrives: the channel is shut down.
LEMMA HandleClose ==
  ASSUME NEW w, NEW ch, NEW sz, NEW cl, NEW e \in Ends, NEW m, NEW i, NEW c, NEW r,
         Handling(w, ch, sz, cl, e, m, i, c, r), m.id = "close"
  PROVE Answered(w, ch, sz, cl, e, i, r)
<1>1. Addressed(w, ch, sz, e, m, i, c)
  BY Handled
<1>2. c.rid # 0 /\ Peer(ch, e, i).rid # 0
  BY <1>1, HeadLinked
<1>3. /\ Sound(c) /\ Used(sz, e, i) /\ i \in Ids /\ c = ch[e][i]
      /\ ch \in [Ends -> [Ids -> Channel \cup {None}]]
  BY <1>1 DEF Addressed
<1>4. PICK v : v = Rest(w, e)
  OBVIOUS
<1>5. Good(v, ch, sz, cl)
  <2>1. Good(w, ch, sz, cl) /\ w[e] # <<>> /\ Head(w[e]).id = "close"
    BY DEF Handling
  <2>2. Good(Rest(w, e), ch, sz, cl)
    BY <2>1, Drop
  <2> QED BY <1>4, <2>2
<1>6. PICK d, out : d = r.c /\ out = r.out
  OBVIOUS
<1>7. Move(c, d, out) /\ d.sentClose
  <2>1. r = CloseBy(c)
    BY DEF Handling, Handle
  <2> QED BY <1>2, <1>3, <1>6, <2>1, CloseByMove
<1>8. Good(After(v, cl, e, out), [ch EXCEPT ![e][i] = d], sz, cl)
  <2>1. ch = [ch EXCEPT ![e][i] = c] /\ c.rid = ch[e][i].rid
    BY <1>3
  <2> QED BY <1>2, <1>3, <1>5, <1>7, <2>1, ThenAct
<1>9. d.k = c.k /\ ~Left(d)
  BY <1>7 DEF Move, Left
<1> QED BY <1>1, <1>4, <1>6, <1>8, <1>9, AnsweredBy

\* What a confirmation and a failure write into a channel.
Named(c, id, b) ==
    /\ b \in Channel /\ b.rid = id /\ b.role = c.role /\ b.k = c.k /\ b.st = c.st
    /\ b.rwin = c.rwin /\ b.mwin = c.mwin /\ b.buf = c.buf /\ b.end = c.end
    /\ b.parked = c.parked /\ b.pc = c.pc /\ b.how = c.how

\* A confirmed caller knows its peer.
LEMMA Naming ==
  ASSUME NEW c \in Channel, NEW id \in Ids,
         NEW b, b = [c EXCEPT !.rid = id, !.maxp = Packet, !.ready = "true"]
  PROVE Named(c, id, b)
BY DEF Named, Channel

\* The caller whose open was refused.
Refused(c, d) ==
    /\ d \in Channel /\ d.role = c.role /\ d.k = c.k /\ d.rid = c.rid /\ d.st = "out"
    /\ d.ready = "false" /\ d.sentEof = c.sentEof /\ d.sentClose = c.sentClose
    /\ d.rwin = c.rwin /\ d.mwin = c.mwin /\ d.buf = c.buf
    /\ d.pc = c.pc /\ d.how = c.how /\ d.parked = c.parked

\* A caller whose open is refused leaves the table.
LEMMA Refusing ==
  ASSUME NEW c \in Channel, NEW d, d = [c EXCEPT !.ready = "false", !.st = "out"]
  PROVE Refused(c, d)
BY DEF Refused, Channel

\* The caller whose open was confirmed, the first credit in its window.
Confirmed(c, id, d) ==
    /\ Sound(d) /\ d.rid = id /\ d.role = c.role /\ d.k = c.k /\ d.st = c.st
    /\ d.rwin = Window /\ d.mwin = c.mwin /\ d.end = c.end /\ d.parked = FALSE

\* d is b with the window x.
WindowIs(b, d, x) ==
    /\ d \in Channel /\ d.rid = b.rid /\ d.role = b.role /\ d.k = b.k /\ d.st = b.st
    /\ d.rwin = x /\ d.mwin = b.mwin /\ d.buf = b.buf /\ d.end = b.end
    /\ d.parked = b.parked /\ d.pc = b.pc /\ d.how = b.how

\* Setting the window leaves the rest of a channel alone.
LEMMA WindowSet ==
  ASSUME NEW b \in Channel, NEW x \in Nat, NEW d, d = [b EXCEPT !.rwin = x]
  PROVE WindowIs(b, d, x)
BY Zenon DEF WindowIs, Channel

\* A caller that is confirmed is sound.
LEMMA NamedSound ==
  ASSUME NEW c, Sound(c), NEW id \in Ids, NEW b, Named(c, id, b),
         c.role = "caller", c.rwin = 0, c.mwin = Window, c.buf = <<>>,
         c.pc \in {"opening", "done"}, c.parked = FALSE,
         NEW d, d = [b EXCEPT !.rwin = @ + Window]
  PROVE Confirmed(c, id, d)
<1>1. /\ b \in Channel /\ b.rid = id /\ b.role = c.role /\ b.k = c.k /\ b.st = c.st
      /\ b.rwin = c.rwin /\ b.mwin = c.mwin /\ b.buf = c.buf /\ b.end = c.end
      /\ b.parked = c.parked /\ b.pc = c.pc /\ b.how = c.how
  BY DEF Named
<1>2. b.rwin + Window = Window /\ Window \in Nat
  BY <1>1, WindowNumber
<1>3. /\ d \in Channel /\ d.rid = id /\ d.role = c.role /\ d.k = c.k /\ d.st = c.st
      /\ d.rwin = Window /\ d.mwin = Window /\ d.buf = <<>> /\ d.end = c.end
      /\ d.parked = FALSE /\ d.pc = c.pc /\ d.how = c.how
  <2>1. d = [b EXCEPT !.rwin = Window]
    BY <1>1, <1>2 DEF Channel
  <2>2. WindowIs(b, d, Window)
    BY <1>1, <1>2, <2>1, WindowSet
  <2> QED BY <1>1, <2>2 DEF WindowIs
<1>4. Len(d.buf) = 0 /\ d.mwin + 0 = Window /\ d.mwin + 0 <= Window /\ d.rwin <= Window
  BY <1>3, WindowNumber
<1>5. id # 0
  BY Size
<1>6. Sound(d)
  BY <1>3, <1>4, <1>5 DEF Sound, CallerPc
<1> QED BY <1>3, <1>6 DEF Confirmed

\* A refused caller owes nothing.
LEMMA RefusedMove ==
  ASSUME NEW c, Sound(c), c.rid = 0, c.role = "caller", NEW d, Refused(c, d)
  PROVE Move(c, d, <<>>)
<1>1. /\ d \in Channel /\ d.role = c.role /\ d.k = c.k /\ d.rid = c.rid /\ d.st = "out"
      /\ d.ready = "false" /\ d.sentEof = c.sentEof /\ d.sentClose = c.sentClose
      /\ d.rwin = c.rwin /\ d.mwin = c.mwin /\ d.buf = c.buf
      /\ d.pc = c.pc /\ d.how = c.how /\ d.parked = c.parked
  BY DEF Refused
<1>2. Sound(d)
  BY <1>1 DEF Sound
<1>3. d.mwin >= c.mwin
  <2>1. d.mwin \in Nat
    BY <1>1, Fields
  <2> QED BY <1>1, <2>1
<1> QED BY <1>1, <1>2, <1>3 DEF Move

\* Confirm arrives: the two channels name each other from here on.
LEMMA HandleConfirm ==
  ASSUME NEW w, NEW ch, NEW sz, NEW cl, NEW e \in Ends, NEW m, NEW i, NEW c, NEW r,
         Handling(w, ch, sz, cl, e, m, i, c, r), m.id = "confirm"
  PROVE Answered(w, ch, sz, cl, e, i, r)
<1>1. Addressed(w, ch, sz, e, m, i, c)
  BY Handled
<1>2. /\ Sound(c) /\ c \in Channel /\ m \in Messages /\ m.to = i /\ m = Head(w[e]) /\ w[e] # <<>>
      /\ Tells(w, ch, sz, e, m) /\ c = ch[e][i] /\ c.st = "in" /\ Good(w, ch, sz, cl)
  BY <1>1 DEF Addressed, Handling
<1>3. c.role = "caller" /\ c.rid = 0
  BY <1>2 DEF Tells
<1>4. PICK id \in Ids : id = m.from
  BY <1>2 DEF Messages
<1>5. c.rwin = 0 /\ c.mwin = Window /\ c.buf = <<>> /\ c.pc \in {"opening", "done"}
  BY <1>2, <1>3 DEF Sound
<1>6. c.parked = FALSE
  <2>1. c.parked \in BOOLEAN
    BY <1>2, Fields
  <2>2. c.pc \notin Writing
    BY <1>5 DEF Writing
  <2> QED BY <1>2, <2>1, <2>2 DEF Sound
<1>7. PICK b : b = [c EXCEPT !.rid = id, !.maxp = Packet, !.ready = "true"]
  OBVIOUS
<1>8. Named(c, id, b)
  BY <1>2, <1>7, Naming
<1>9. PICK d : d = [b EXCEPT !.rwin = @ + Window]
  OBVIOUS
<1>10. /\ Sound(d) /\ d.rid = id /\ d.role = c.role /\ d.k = c.k /\ d.st = c.st
       /\ d.rwin = Window /\ d.mwin = c.mwin /\ d.end = c.end /\ d.parked = FALSE
  <2>1. Confirmed(c, id, d)
    BY <1>2, <1>3, <1>5, <1>6, <1>8, <1>9, NamedSound
  <2> QED BY <2>1 DEF Confirmed
<1>11. r.c = d /\ r.out = <<>>
  <2>1. r = AddWindow(b, Window)
    BY <1>4, <1>7 DEF Handling, Handle
  <2> QED BY <1>9, <1>10, <2>1 DEF AddWindow, Does
<1>12. Confirming(w, ch, sz, e, d)
  BY <1>2, <1>4, <1>10 DEF Confirming
<1>13. Good(Rest(w, e), [ch EXCEPT ![e][i] = d], sz, cl)
  <2>1. Good(Rest(w, e), [ch EXCEPT ![e][Head(w[e]).to] = d], sz, cl)
    BY <1>2, <1>12, Confirm
  <2> QED BY <1>2, <2>1
<1>14. ~Left(d)
  BY <1>2, <1>10 DEF Left
<1> QED BY <1>1, <1>10, <1>11, <1>13, <1>14, AnsweredBy

\* Failure arrives: the caller is shut down.
LEMMA HandleFailure ==
  ASSUME NEW w, NEW ch, NEW sz, NEW cl, NEW e \in Ends, NEW m, NEW i, NEW c, NEW r,
         Handling(w, ch, sz, cl, e, m, i, c, r), m.id = "failure"
  PROVE Answered(w, ch, sz, cl, e, i, r)
<1>1. Addressed(w, ch, sz, e, m, i, c)
  BY Handled
<1>2. /\ Sound(c) /\ c \in Channel /\ m.to = i /\ Head(w[e]).id = "failure" /\ w[e] # <<>>
      /\ Tells(w, ch, sz, e, m) /\ c = ch[e][i] /\ Good(w, ch, sz, cl) /\ Used(sz, e, i)
  BY <1>1 DEF Addressed, Handling
<1>3. c.role = "caller" /\ c.rid = 0
  BY <1>2 DEF Tells
<1>4. PICK d : d = [c EXCEPT !.ready = "false", !.st = "out"]
  OBVIOUS
<1>5. Refused(c, d)
  BY <1>2, <1>4, Refusing
<1>6. Move(c, d, <<>>)
  BY <1>2, <1>3, <1>5, RefusedMove
<1>7. PICK v : v = Rest(w, e)
  OBVIOUS
<1>8. Good(v, ch, sz, cl)
  <2>1. Good(Rest(w, e), ch, sz, cl)
    BY <1>2, Drop
  <2> QED BY <1>7, <2>1
<1>9. Acts(v, ch, sz, cl, e, i, d, <<>>)
  BY <1>2, <1>3, <1>6, <1>8 DEF Acts
<1>10. Good(After(v, cl, e, <<>>), [ch EXCEPT ![e][i] = d], sz, cl)
  BY <1>9, Act
<1>11. r.c = d /\ r.out = <<>>
  BY <1>4 DEF Handling, Handle, Does
<1>12. d.k = c.k /\ ~Left(d)
  BY <1>3, <1>5 DEF Refused, Left
<1> QED BY <1>1, <1>7, <1>10, <1>11, <1>12, AnsweredBy

\* The loop of a session takes a message for a channel.
LEMMA HandleMessageKeeps ==
  ASSUME CreditInv, NEW e \in Ends, HandleMessage(e)
  PROVE CreditInv'
<1> DEFINE m == Head(wire[e])
           i == m.to
           c == chan[e][i]
           r == IF c.st = "in" THEN Handle(c, m) ELSE Does(c, <<>>)
           o == Other(e)
<1>1. /\ ~closed[e] /\ wire[e] # <<>> /\ m.id # "open"
      /\ chan' = [chan EXCEPT ![e][i] = r.c]
      /\ wire' = [wire EXCEPT ![e] = Tail(@), ![o] = IF closed[o] THEN @ ELSE @ \o r.out]
      /\ UNCHANGED <<size, closed>> /\ UNCHANGED result
  BY DEF HandleMessage
<1>2. Good(wire, chan, size, closed) /\ wire \in [Ends -> Seq(Messages)]
      /\ chan \in [Ends -> [Ids -> Channel \cup {None}]]
  BY Inv
<1>3. m \in Messages /\ Rest(wire, e) \in [Ends -> Seq(Messages)]
  BY <1>1, <1>2, RestWire
<1>4. wire' = After(Rest(wire, e), closed, e, r.out)
  <2>1. o \in Ends /\ o # e
    BY TwoEnds
  <2> HIDE DEF r, o
  <2>2. CASE closed[o]
    <3>1. After(Rest(wire, e), closed, e, r.out) = Rest(wire, e)
      BY <2>2 DEF After, o
    <3> QED BY <1>1, <1>2, <2>1, <2>2, <3>1 DEF Rest
  <2>3. CASE ~closed[o]
    <3>1. After(Rest(wire, e), closed, e, r.out) = [Rest(wire, e) EXCEPT ![o] = @ \o r.out]
      BY <1>1, <2>3 DEF After, o
    <3> QED BY <1>1, <1>2, <2>1, <2>3, <3>1 DEF Rest
  <2> QED BY <2>2, <2>3
<1>5. Settling
  BY <1>1, Quiet
<1>6. CASE c.st = "in"
  <2>1. PICK d : d = r
    OBVIOUS
  <2>2. Handling(wire, chan, size, closed, e, m, i, c, d)
    BY <1>1, <1>2, <1>6, <2>1 DEF Handling
  <2>3. m.id \in {"confirm", "failure", "data", "adjust", "eof", "close"}
    BY <1>1, <1>3 DEF Messages
  <2>4. Answered(wire, chan, size, closed, e, i, d)
    <3> HIDE DEF r, c, i, m
    <3> QED BY <2>2, <2>3, HandleConfirm, HandleFailure, HandleData, HandleAdjust, HandleEof,
               HandleClose
  <2>5. /\ Good(After(Rest(wire, e), closed, e, d.out), [chan EXCEPT ![e][i] = d.c], size, closed)
        /\ d.c.k = chan[e][i].k /\ ~Left(d.c) /\ i \in Ids
    BY <2>4 DEF Answered
  <2>6. chan' = [chan EXCEPT ![e][i] = d.c] /\ wire' = After(Rest(wire, e), closed, e, d.out)
        /\ size' = size /\ closed' = closed
    BY <1>1, <1>4, <2>1
  <2>7. Good(wire', chan', size', closed')
    BY <2>5, <2>6
  <2>8. \A f \in Ends, j \in Ids :
           chan'[f][j].k = chan[f][j].k /\ (Left(chan'[f][j]) => Left(chan[f][j]))
    <3> HIDE DEF i
    <3> QED BY <1>2, <2>5, <2>6
  <2> HIDE DEF r, c, i, m, o
  <2> QED BY <1>5, <2>6, <2>7, <2>8, Remains
<1>7. CASE c.st # "in"
  <2>1. r.c = c /\ r.out = <<>>
    BY <1>7 DEF Does
  <2>2. chan' = chan
    BY <1>1, <1>2, <2>1
  <2>3. wire' = Rest(wire, e)
    BY <1>3, <1>4, <2>1, AfterNone
  <2>4. Good(Rest(wire, e), chan, size, closed)
    BY <1>1, <1>2, <1>7, Drop
  <2>5. Good(wire', chan', size', closed') /\ size' = size /\ closed' = closed
    BY <1>1, <2>2, <2>3, <2>4
  <2> HIDE DEF r, c, i, m, o
  <2> QED BY <1>5, <2>2, <2>5, Remains
<1> QED BY <1>6, <1>7

-----------------------------------------------------------------------------
(* A channel is added *)

\* The channel Session.open makes.
LEMMA NewCaller ==
  ASSUME NEW k \in Calls, NEW c, c = NewChannel("caller", k, "opening")
  PROVE Sound(c) /\ c.role = "caller" /\ c.k = k /\ c.rid = 0 /\ c.st = "in"
<1>1. Window \in Nat
  BY DuplexSizes
<1>2. <<>> \in Seq(Nat) /\ Len(<<>>) = 0
  BY EmptySeq
<1>3. c \in Channel
  BY <1>1, <1>2 DEF NewChannel, Channel, CallerPc, Answer
<1>4. /\ c.role = "caller" /\ c.k = k /\ c.rid = 0 /\ c.st = "in" /\ c.rwin = 0
      /\ c.mwin = Window /\ c.buf = <<>> /\ c.pc = "opening" /\ c.ready = "empty"
      /\ c.sentEof = FALSE /\ c.sentClose = FALSE /\ c.parked = FALSE /\ c.end = "open"
  BY DEF NewChannel
<1>5. c.rwin <= Window /\ c.mwin + Len(c.buf) = Window /\ c.mwin + Len(c.buf) <= Window
  BY <1>1, <1>2, <1>4
<1> QED BY <1>3, <1>4, <1>5 DEF Sound, CallerPc

\* A responder that has just been accepted.
Starts(c, k, id) ==
    /\ Sound(c) /\ Untouched(c)
    /\ c.role = "responder" /\ c.k = k /\ c.rid = id /\ c.st = "in"

\* The fields of the channel Session.handleOpen makes.
LEMMA FreshResponder ==
  ASSUME NEW k \in Calls, NEW id \in Ids, NEW need \in Nat,
         NEW c, c = [st |-> "in", role |-> "responder", k |-> k, pc |-> "r sel",
                     rid |-> id, rwin |-> Window, maxp |-> Packet, mwin |-> Window,
                     sentEof |-> FALSE, sentClose |-> FALSE, buf |-> <<>>, end |-> "open",
                     ready |-> "empty", todo |-> 0, parked |-> FALSE, need |-> need,
                     answer |-> "none", how |-> "none", sent |-> 0, got |-> <<>>, null |-> FALSE]
  PROVE Starts(c, k, id)
<1>1. Window \in Nat
  BY DuplexSizes
<1>2. <<>> \in Seq(Nat) /\ Len(<<>>) = 0
  BY EmptySeq
<1>3. id # 0
  BY Size
<1>4. c \in Channel
  BY <1>1, <1>2 DEF Channel, ResponderPc, Answer
<1>5. /\ c.role = "responder" /\ c.k = k /\ c.rid = id /\ c.st = "in" /\ c.rwin = Window
      /\ c.mwin = Window /\ c.buf = <<>> /\ c.pc = "r sel"
      /\ c.sentEof = FALSE /\ c.sentClose = FALSE /\ c.parked = FALSE /\ c.end = "open"
  OBVIOUS
<1>6. c.rwin <= Window /\ c.mwin + Len(c.buf) = Window /\ c.mwin + Len(c.buf) <= Window
  BY <1>2, <1>5, WindowNumber, Zenon
<1> QED BY <1>3, <1>4, <1>5, <1>6 DEF Starts, Sound, ResponderPc, Untouched

\* The channel Session.handleOpen makes, granted its first window.
LEMMA NewResponder ==
  ASSUME NEW k \in Calls, NEW id \in Ids,
         NEW c, c = [Begin(NewChannel("responder", k, "accept"), "r sel")
                       EXCEPT !.rid = id, !.rwin = Window, !.maxp = Packet]
  PROVE Starts(c, k, id)
<1> DEFINE n == FrameSize[k]["sel"]
<1>1. n \in Nat
  <2>1. FrameSize \in [Calls -> [Frames -> Nat \ {0}]]
    BY DuplexSizes
  <2> QED BY <2>1 DEF Frames
<1>2. FrameOf("r sel") = "sel"
  BY DEF FrameOf
<1>3. c = [st |-> "in", role |-> "responder", k |-> k, pc |-> "r sel",
           rid |-> id, rwin |-> Window, maxp |-> Packet, mwin |-> Window,
           sentEof |-> FALSE, sentClose |-> FALSE, buf |-> <<>>, end |-> "open",
           ready |-> "empty", todo |-> 0, parked |-> FALSE, need |-> n,
           answer |-> "none", how |-> "none", sent |-> 0, got |-> <<>>, null |-> FALSE]
  BY <1>2, ZenonT(30) DEF NewChannel, Begin, Writing, Reading
<1> HIDE DEF n
<1> QED BY <1>1, <1>3, FreshResponder, Zenon

\* What a step leaves of the rest of the invariant that adds a channel.
LEMMA Grows ==
  ASSUME CreditInv, Good(wire', chan', size', closed'), closed' = closed, Settling,
         NEW e \in Ends, NEW n \in Ids, n = size[e] + 1, NEW c,
         chan' = [chan EXCEPT ![e][n] = c], size' = [size EXCEPT ![e] = n],
         c.st = "in", result'[c.k] # "idle"
  PROVE CreditInv'
<1>1. /\ LeftClosing
      /\ chan \in [Ends -> [Ids -> Channel \cup {None}]] /\ size \in [Ends -> 0..Cardinality(Calls)]
      /\ \A f \in Ends, j \in Ids : Used(size, f, j) => result[chan[f][j].k] # "idle"
  BY Inv DEF CreditInv
<1>2. /\ chan'[e][n] = c
      /\ \A f \in Ends, j \in Ids : f # e \/ j # n => chan'[f][j] = chan[f][j]
  BY <1>1
<1>3. LeftClosing'
  BY <1>1, <1>2 DEF LeftClosing
<1>4. ASSUME NEW f \in Ends, NEW j \in Ids, Used(size', f, j)
      PROVE result'[chan'[f][j].k] # "idle"
  <2>1. CASE f = e /\ j = n
    BY <1>2, <2>1
  <2>2. CASE f # e \/ j # n
    <3>1. Used(size, f, j)
      <4>1. size[f] \in Nat /\ size[e] \in Nat /\ j \in Nat /\ j >= 1 /\ j <= size'[f]
        BY <1>1, <1>4, Size DEF Used
      <4>2. size'[f] = IF f = e THEN size[e] + 1 ELSE size[f]
        BY <1>1
      <4>3. j <= size[f]
        BY <2>2, <4>1, <4>2
      <4> QED BY <4>1, <4>3 DEF Used
    <3>2. Sound(chan[f][j]) /\ chan'[f][j] = chan[f][j]
      BY <1>2, <2>2, <3>1, Inv, UsedSound
    <3>3. chan[f][j].k \in Calls
      BY <3>2, SoundType
    <3> QED BY <1>1, <3>1, <3>2, <3>3 DEF Settling
  <2> QED BY <2>1, <2>2
<1>5. result' \in [Calls -> Results]
  BY DEF Settling
<1> QED BY <1>3, <1>4, <1>5 DEF CreditInv

\* A call is made.
LEMMA OpenKeeps ==
  ASSUME CreditInv, NEW k \in Calls, Open(k)
  PROVE CreditInv'
<1> DEFINE e == Caller[k]
           o == Other(e)
           i == size[e] + 1
           c == NewChannel("caller", k, "opening")
           m == [id |-> "open", from |-> i]
<1>1. /\ result[k] = "idle" /\ \A f \in Ends : ~closed[f]
      /\ size' = [size EXCEPT ![e] = i]
      /\ Step(e, i, Does(c, <<m>>))
      /\ result' = [result EXCEPT ![k] = "waits"]
      /\ closed' = closed
  BY DEF Open
<1>2. e \in Ends
  <2>1. Caller \in [Calls -> Ends]
    BY DuplexSizes
  <2> QED BY <2>1
<1>3. o \in Ends /\ o # e
  BY <1>2, TwoEnds
<1>4. /\ Good(wire, chan, size, closed) /\ Typed(wire, chan, size, closed) /\ Apiece(chan, size)
      /\ wire \in [Ends -> Seq(Messages)] /\ result \in [Calls -> Results]
      /\ \A f \in Ends, j \in Ids : Used(size, f, j) => result[chan[f][j].k] # "idle"
  BY Inv DEF CreditInv, Good
<1>5. \A j \in Ids : Used(size, e, j) => chan[e][j].k # k
  BY <1>1, <1>2, <1>4
<1>6. i \in Ids
  BY <1>2, <1>4, <1>5, Room
<1>7. Sound(c) /\ c.role = "caller" /\ c.k = k /\ c.rid = 0 /\ c.st = "in"
  BY NewCaller
<1>8. chan' = [chan EXCEPT ![e][i] = c] /\ wire' = [wire EXCEPT ![o] = @ \o <<m>>]
  BY <1>1, <1>2, <1>3 DEF Step, Post, Does
<1>9. m \in Messages /\ m.from = i /\ m.id = "open"
  BY <1>6 DEF Messages
<1> HIDE DEF c, m
<1>10. wire' = IF closed[o] THEN wire ELSE [wire EXCEPT ![o] = Append(@, m)]
  <2>1. Append(wire[o], m) = wire[o] \o <<m>>
    BY <1>3, <1>4, <1>9
  <2> QED BY <1>1, <1>3, <1>4, <1>8, <2>1
<1>11. c.role = "caller" <=> Caller[c.k] = e
  BY <1>7
<1>12. \A j \in Ids : Used(size, e, j) => chan[e][j].k # c.k
  BY <1>5, <1>7
<1>13. Adding(wire, wire', chan, chan', size, size', closed, e, i, c, m)
  <2> HIDE DEF e, o, i
  <2> QED BY <1>1, <1>2, <1>4, <1>6, <1>7, <1>8, <1>9, <1>10, <1>11, <1>12 DEF Adding, o, i
<1>14. Good(wire', chan', size', closed')
  <2>1. Good(wire', chan', size', closed)
    <3> HIDE DEF e, i
    <3> QED BY <1>2, <1>13, Add
  <2> QED BY <1>1, <2>1
<1>15. Settling /\ result'[c.k] # "idle"
  <2>1. "waits" \in Results
    BY DEF Results
  <2> QED BY <1>1, <1>4, <1>7, <2>1 DEF Settling
<1> QED
  <2> HIDE DEF e
  <2> QED BY <1>1, <1>2, <1>6, <1>7, <1>8, <1>14, <1>15, Grows

\* An offered call has no channel yet at the end it is offered to.
LEMMA OfferedCall ==
  ASSUME NEW w, NEW ch, NEW sz, NEW cl, Good(w, ch, sz, cl), NEW e \in Ends,
         NEW id, Offered(w, ch, sz, e, id), NEW k, k = ch[Other(e)][id].k
  PROVE /\ k \in Calls /\ Caller[k] # e
        /\ \A j \in Ids : Used(sz, e, j) => ch[e][j].k # k
<1> DEFINE o == Other(e)
<1>1. /\ id \in Ids /\ Used(sz, o, id) /\ ch[o][id].role = "caller"
      /\ \A j \in Ids : Used(sz, e, j) => ch[e][j].rid # id
  BY DEF Offered
<1>2. o \in Ends /\ o # e
  BY TwoEnds
<1>3. Typed(w, ch, sz, cl) /\ Apiece(ch, sz)
  BY DEF Good
<1>4. k \in Calls
  <2>1. Sound(ch[o][id])
    BY <1>1, <1>2, <1>3, UsedSound
  <2> QED BY <2>1, SoundType
<1>5. Caller[k] = o
  BY <1>1, <1>2, <1>3 DEF Apiece
<1>6. ASSUME NEW j \in Ids, Used(sz, e, j), ch[e][j].k = k
      PROVE FALSE
  <2>1. Sound(ch[e][j])
    BY <1>3, <1>6, UsedSound
  <2>2. ch[e][j].role \in {"caller", "responder"}
    BY <2>1, SoundType
  <2>3. ch[e][j].role # "caller"
    BY <1>2, <1>3, <1>5, <1>6 DEF Apiece
  <2>4. ch[e][j].rid # 0
    BY <2>1, <2>2, <2>3 DEF Sound
  <2>5. PICK r : r = ch[e][j].rid
    OBVIOUS
  <2>6. Used(sz, o, r) /\ ch[o][r].k = k
    BY <1>6, <2>4, <2>5, Mutual DEF Peer
  <2>7. r \in Ids
    BY <1>2, <1>3, <2>6, UsedSound
  <2>8. r # id
    BY <1>1, <1>6, <2>5
  <2>9. ch[o][r].k # ch[o][id].k
    BY <1>1, <1>2, <1>3, <2>6, <2>7, <2>8 DEF Apiece
  <2> QED BY <2>6, <2>9
<1> QED BY <1>2, <1>4, <1>5, <1>6

\* The loop of a session takes an open, and accepts or refuses it.
LEMMA HandleOpenKeeps ==
  ASSUME CreditInv, NEW e \in Ends, HandleOpen(e)
  PROVE CreditInv'
<1> DEFINE o == Other(e)
           i == size[e] + 1
           from == Head(wire[e]).from
           k == chan[o][from].k
           c == [Begin(NewChannel("responder", k, "accept"), "r sel")
                   EXCEPT !.rid = from, !.rwin = Window, !.maxp = Packet]
           m == [id |-> "confirm", to |-> from, from |-> i]
           n == [id |-> "failure", to |-> from]
           w == Rest(wire, e)
           accepts == /\ size' = [size EXCEPT ![e] = i]
                      /\ chan' = [chan EXCEPT ![e][i] = c]
                      /\ wire' = [wire EXCEPT ![e] = Tail(@),
                                    ![o] = IF closed[o] THEN @ ELSE Append(@, m)]
           refuses == /\ wire' = [wire EXCEPT ![e] = Tail(@),
                                    ![o] = IF closed[o] THEN @ ELSE Append(@, n)]
                      /\ UNCHANGED <<chan, size>>
<1>1. /\ ~closed[e] /\ wire[e] # <<>> /\ Head(wire[e]).id = "open"
      /\ UNCHANGED closed /\ UNCHANGED result
      /\ accepts \/ refuses
  BY DEF HandleOpen
<1>2. /\ Good(wire, chan, size, closed)
      /\ wire \in [Ends -> Seq(Messages)] /\ result \in [Calls -> Results]
      /\ \A f \in Ends, j \in Ids : Used(size, f, j) => result[chan[f][j].k] # "idle"
  BY Inv DEF CreditInv
<1>3. o \in Ends /\ o # e
  BY TwoEnds
<1>4. Good(w, chan, size, closed) /\ Offered(w, chan, size, e, from)
  BY <1>1, <1>2, Offer
<1>5. /\ from \in Ids /\ Used(size, o, from) /\ chan[o][from].role = "caller"
      /\ chan[o][from].rid = 0
      /\ \A j \in Ids : Used(size, e, j) => chan[e][j].rid # from
      /\ \A x \in Range(w[o]) : x.id # "open" => x.to # from
      /\ \A x \in Range(w[e]) : x.id = "open" => x.from # from
  BY <1>4 DEF Offered
<1>6. /\ k \in Calls /\ Caller[k] # e
      /\ \A j \in Ids : Used(size, e, j) => chan[e][j].k # k
  BY <1>4, OfferedCall
<1>7. Settling
  BY <1>1, Quiet
<1>8. CASE accepts
  <2>1. Typed(w, chan, size, closed) /\ Apiece(chan, size)
    BY <1>4 DEF Good
  <2>2. i \in Ids
    BY <1>6, <2>1, Room
  <2>3. Starts(c, k, from)
    <3>1. PICK d : d = c
      OBVIOUS
    <3>2. Starts(d, k, from)
      <4> HIDE DEF k, from
      <4> QED BY <1>5, <1>6, <3>1, NewResponder
    <3> QED BY <3>1, <3>2
  <2>4. m \in Messages /\ m.from = i /\ m.id = "confirm" /\ m.to = from
    BY <1>5, <2>2 DEF Messages
  <2>5. wire' = IF closed[o] THEN w ELSE [w EXCEPT ![o] = Append(@, m)]
    <3> HIDE DEF m, o
    <3> QED BY <1>2, <1>3, <1>8 DEF Rest
  <2>6. chan' = [chan EXCEPT ![e][i] = c] /\ size' = [size EXCEPT ![e] = i]
    BY <1>8
  <2> HIDE DEF c, m, from, w
  <2>7. /\ Sound(c) /\ Untouched(c) /\ c.role = "responder" /\ c.k = k /\ c.rid = from
        /\ c.st = "in" /\ from # 0
    BY <1>5, <2>3, Size DEF Starts
  <2>8. Adding(w, wire', chan, chan', size, size', closed, e, i, c, m)
    <3> HIDE DEF k, i
    <3>1. c.role = "caller" <=> Caller[c.k] = e
      BY <1>6, <2>7
    <3>2. \A j \in Ids : Used(size, e, j) => chan[e][j].k # c.k
      BY <1>6, <2>7
    <3>3. /\ m.id = "confirm" /\ m.to = c.rid /\ c.rid # 0 /\ c.role = "responder" /\ Untouched(c)
          /\ Used(size, o, c.rid) /\ chan[o][c.rid].role = "caller" /\ chan[o][c.rid].rid = 0
          /\ chan[o][c.rid].k = c.k
          /\ \A j \in Ids : Used(size, e, j) => chan[e][j].rid # c.rid
          /\ \A x \in Range(w[o]) : x.id # "open" => x.to # c.rid
          /\ \A x \in Range(w[e]) : x.id = "open" => x.from # c.rid
      BY <1>5, <2>4, <2>7 DEF k
    <3> QED BY <1>1, <1>4, <2>2, <2>4, <2>5, <2>6, <2>7, <3>1, <3>2, <3>3 DEF Adding, i
  <2>9. Good(wire', chan', size', closed')
    <3>1. Good(wire', chan', size', closed)
      <4> HIDE DEF k, i
      <4> QED BY <2>8, Add
    <3> QED BY <1>1, <3>1
  <2>10. result'[c.k] # "idle"
    BY <1>1, <1>2, <1>3, <1>5, <2>7
  <2> QED BY <1>1, <1>7, <2>2, <2>6, <2>7, <2>9, <2>10, Grows
<1>9. CASE refuses
  <2>1. wire' = IF closed[o] THEN w ELSE [w EXCEPT ![o] = Append(@, n)]
    <3> HIDE DEF n, o
    <3> QED BY <1>2, <1>3, <1>9 DEF Rest
  <2>2. chan' = chan /\ size' = size /\ closed' = closed
    BY <1>1, <1>9
  <2> HIDE DEF n, from, w, k, c, m, i
  <2>3. Good(wire', chan, size, closed)
    <3>1. CASE closed[o]
      BY <1>4, <2>1, <3>1
    <3>2. CASE ~closed[o]
      <4>1. PICK v : v = [w EXCEPT ![o] = Append(@, n)]
        OBVIOUS
      <4>2. n = [id |-> "failure", to |-> from]
        BY DEF n
      <4>3. Good(v, chan, size, closed)
        BY <1>4, <3>2, <4>1, <4>2, Refuse
      <4> QED BY <2>1, <3>2, <4>1, <4>3
    <3> QED BY <3>1, <3>2
  <2>4. Good(wire', chan', size', closed')
    BY <2>2, <2>3
  <2> QED BY <1>7, <2>2, <2>4, Remains
<1> QED BY <1>1, <1>8, <1>9

-----------------------------------------------------------------------------
(* A session is closed *)

\* A session is closed, with all its channels.
LEMMA SessionCloseKeeps ==
  ASSUME CreditInv, NEW e \in Ends, SessionClose(e)
  PROVE CreditInv'
<1> DEFINE N == Cardinality(Calls)
           o == Other(e)
           d == [j \in Ids |-> IF chan[e][j].st = "in" THEN Shutdown(chan[e][j])
                               ELSE Does(chan[e][j], <<>>)]
           body(f) == f = [j \in 0..N |-> IF j = 0 THEN <<>> ELSE f[j - 1] \o d[j].out]
           out == CHOOSE f : body(f)
<1>1. /\ ~closed[e]
      /\ closed' = [closed EXCEPT ![e] = TRUE]
      /\ chan' = [chan EXCEPT ![e] = [j \in Ids |-> d[j].c]]
      /\ wire' = [f \in Ends |-> IF f = e \/ closed[f] THEN <<>> ELSE wire[f] \o out[N]]
      /\ size' = size /\ UNCHANGED result
  BY DEF SessionClose
<1>2. /\ Good(wire, chan, size, closed) /\ Typed(wire, chan, size, closed)
      /\ wire \in [Ends -> Seq(Messages)] /\ closed \in [Ends -> BOOLEAN]
      /\ chan \in [Ends -> [Ids -> Channel \cup {None}]]
  BY Inv
<1>3. o \in Ends /\ o # e /\ \A f \in Ends : f = e \/ f = o
  BY TwoEnds
<1>4. N \in Nat /\ Ids = 1..N
  BY Size
<1>5. \A j \in Ids : d[j] = Shut(chan, e, j)
  BY DEF Shut
<1> HIDE DEF d
<1>6. Joins(out, N, chan, e)
  <2>1. ASSUME NEW f PROVE body(f) <=> Joins(f, N, chan, e)
    <3>1. \A j \in 0..N : j # 0 => j \in Ids
      BY <1>4
    <3>2. \A j \in 0..N : (IF j = 0 THEN <<>> ELSE f[j - 1] \o d[j].out)
                            = (IF j = 0 THEN <<>> ELSE f[j - 1] \o Shut(chan, e, j).out)
      BY <1>5, <3>1
    <3>3. [j \in 0..N |-> IF j = 0 THEN <<>> ELSE f[j - 1] \o d[j].out]
            = [j \in 0..N |-> IF j = 0 THEN <<>> ELSE f[j - 1] \o Shut(chan, e, j).out]
      BY <3>2, Zenon
    <3> QED BY <3>3 DEF Joins
  <2>2. \E f : Joins(f, N, chan, e)
    BY <1>4, JoinsExist
  <2>3. \E f : body(f)
    BY <2>1, <2>2
  <2>4. body(out)
    <3> HIDE DEF body
    <3> QED BY <2>3
  <2> HIDE DEF out, body
  <2> QED BY <2>1, <2>4
<1> HIDE DEF out
<1>7. PICK posts : posts = out[N]
  OBVIOUS
<1>8. posts \in Seq(Messages)
      /\ Good(After(wire, closed, e, posts), Closing(chan, e, N), size, closed)
  <2>1. out[N] \in Seq(Messages)
        /\ Good(After(wire, closed, e, out[N]), Closing(chan, e, N), size, closed)
    BY <1>2, <1>4, <1>6, ShutAll
  <2> QED BY <1>7, <2>1
<1>9. chan' = Closing(chan, e, N)
  <2>1. \A j \in Ids : d[j].c = IF j <= N THEN Shut(chan, e, j).c ELSE chan[e][j]
    BY <1>4, <1>5
  <2>2. [j \in Ids |-> d[j].c]
          = [j \in Ids |-> IF j <= N THEN Shut(chan, e, j).c ELSE chan[e][j]]
    BY <2>1, Zenon
  <2> QED BY <1>1, <2>2 DEF Closing
<1>10. /\ \A j \in Ids : chan'[e][j] = Shut(chan, e, j).c
       /\ \A f \in Ends : f # e => chan'[f] = chan[f]
  BY <1>1, <1>2, <1>5
<1>11. ASSUME NEW j \in Ids
       PROVE /\ Shut(chan, e, j).c.st # "in"
             /\ Used(size, e, j) => Shut(chan, e, j).c.k = chan[e][j].k
  <2>1. CASE chan[e][j].st = "in"
    <3>1. Sound(chan[e][j])
      BY <2>1, InUseUsed
    <3>2. Move(chan[e][j], Shutdown(chan[e][j]).c, Shutdown(chan[e][j]).out)
          /\ Shutdown(chan[e][j]).c.st = "out"
      BY <3>1, ShutdownMove
    <3> QED BY <2>1, <3>2 DEF Shut, Move
  <2>2. CASE chan[e][j].st # "in"
    BY <2>2 DEF Shut, Does
  <2> QED BY <2>1, <2>2
<1>12. \A j \in Ids : ~On(chan', e, j)
  BY <1>10, <1>11 DEF On
<1>13. wire' = [After(wire, closed, e, posts) EXCEPT ![e] = <<>>]
  <2> DEFINE v == After(wire, closed, e, posts)
             t == [v EXCEPT ![e] = <<>>]
             s == [f \in Ends |-> IF f = e \/ closed[f] THEN <<>> ELSE wire[f] \o posts]
  <2>1. wire' = s
    BY <1>1, <1>7, Zenon
  <2>2. s[e] = <<>> /\ s[o] = IF closed[o] THEN <<>> ELSE wire[o] \o posts
    BY <1>3
  <2>3. v = IF closed[o] THEN wire ELSE [wire EXCEPT ![o] = @ \o posts]
    BY <1>1 DEF After
  <2>4. closed[o] => wire[o] = <<>>
    BY <1>2, <1>3 DEF Typed
  <2>5. DOMAIN v = Ends /\ v = [f \in Ends |-> v[f]]
        /\ v[o] = IF closed[o] THEN <<>> ELSE wire[o] \o posts
    <3> HIDE DEF v, o
    <3>1. CASE closed[o]
      BY <1>2, <2>3, <2>4, <3>1
    <3>2. CASE ~closed[o]
      BY <1>2, <1>3, <2>3, <3>2
    <3> QED BY <3>1, <3>2
  <2> HIDE DEF v
  <2>6. DOMAIN t = Ends /\ t = [f \in Ends |-> t[f]] /\ t[e] = <<>> /\ t[o] = v[o]
    BY <1>3, <2>5
  <2>7. DOMAIN s = Ends /\ s = [f \in Ends |-> s[f]]
    OBVIOUS
  <2>8. \A f \in Ends : s[f] = t[f]
    <3> HIDE DEF s, t, o
    <3> QED BY <1>3, <2>2, <2>5, <2>6
  <2>9. s = t
    <3> HIDE DEF s, t
    <3> QED BY <2>6, <2>7, <2>8
  <2> QED BY <2>1, <2>9 DEF v
<1>14. Good(wire', chan', size', closed')
  <2>1. PICK v : v = After(wire, closed, e, posts)
    OBVIOUS
  <2>2. Good(v, chan', size, closed)
    BY <1>8, <1>9, <2>1
  <2>3. Good([v EXCEPT ![e] = <<>>], chan', size, [closed EXCEPT ![e] = TRUE])
    BY <1>12, <2>2, Deaf
  <2> QED BY <1>1, <1>13, <2>1, <2>3
<1>15. \A f \in Ends : closed[f] => closed'[f]
  BY <1>1, <1>2
<1>16. closed'[e]
  BY <1>1, <1>2
<1>17. \A f \in Ends, j \in Ids : Used(size, f, j) =>
          /\ chan'[f][j].k = chan[f][j].k
          /\ Left(chan'[f][j]) => closed'[f] \/ Left(chan[f][j])
  <2>1. SUFFICES ASSUME NEW f \in Ends, NEW j \in Ids, Used(size, f, j)
                 PROVE /\ chan'[f][j].k = chan[f][j].k
                       /\ Left(chan'[f][j]) => closed'[f] \/ Left(chan[f][j])
    OBVIOUS
  <2>2. CASE f = e
    BY <1>10, <1>11, <1>16, <2>1, <2>2
  <2>3. CASE f # e
    BY <1>10, <2>3
  <2> QED BY <2>2, <2>3
<1>18. Settling /\ size' = size
  BY <1>1, Quiet
<1> QED BY <1>14, <1>15, <1>17, <1>18, Remains

-----------------------------------------------------------------------------
(* The theorem *)

\* The invariant holds of the initial states.
LEMMA CreditStarts ==
  ASSUME Init
  PROVE CreditInv
<1>1. /\ wire = [e \in Ends |-> <<>>] /\ chan = [e \in Ends |-> [i \in Ids |-> None]]
      /\ size = [e \in Ends |-> 0] /\ closed = [e \in Ends |-> FALSE]
      /\ result = [k \in Calls |-> "idle"]
  BY DEF Init
<1>2. <<>> \in Seq(Messages) /\ 0 \in 0..Cardinality(Calls) /\ "idle" \in Results
  BY Size, EmptySeq DEF Results
<1>3. \A e \in Ends : \A i : ~Used(size, e, i)
  BY <1>1 DEF Used
<1>4. \A e \in Ends : Range(wire[e]) = {} /\ wire[e] = <<>>
  BY <1>1 DEF Range
<1>5. \A e \in Ends, i \in Ids : chan[e][i] = None
  BY <1>1
<1>6. Typed(wire, chan, size, closed)
  <2>1. wire \in [Ends -> Seq(Messages)] /\ size \in [Ends -> 0..Cardinality(Calls)]
        /\ closed \in [Ends -> BOOLEAN]
    BY <1>1, <1>2
  <2>2. chan \in [Ends -> [Ids -> Channel \cup {None}]]
    <3>1. [i \in Ids |-> None] \in [Ids -> Channel \cup {None}]
      OBVIOUS
    <3> QED BY <1>1, <3>1
  <2>3. \A e \in Ends : ~closed[e]
    BY <1>1
  <2> QED BY <1>3, <1>5, <2>1, <2>2, <2>3 DEF Typed
<1>7. Apiece(chan, size)
  BY <1>3 DEF Apiece
<1>8. \A e \in Ends : Ordered(wire[e])
  BY <1>4 DEF Ordered
<1>9. Good(wire, chan, size, closed)
  BY <1>3, <1>4, <1>6, <1>7, <1>8 DEF Good
<1>10. LeftClosing
  BY <1>5 DEF LeftClosing, None
<1>11. result \in [Calls -> Results]
  BY <1>1, <1>2
<1> QED BY <1>3, <1>9, <1>10, <1>11 DEF CreditInv

\* Every step keeps the invariant.
LEMMA CreditStep ==
  ASSUME CreditInv, [Next]_vars
  PROVE CreditInv'
<1>1. ASSUME NEW k \in Calls, Open(k) PROVE CreditInv'
  BY <1>1, OpenKeeps
<1>2. ASSUME NEW e \in Ends, Loop(e) PROVE CreditInv'
  BY <1>2, HandleOpenKeeps, HandleMessageKeeps DEF Loop
<1>3. ASSUME NEW e \in Ends, NEW i \in Ids, User(e, i) PROVE CreditInv'
  BY <1>3, UserKeeps
<1>4. ASSUME NEW e \in Ends, SessionClose(e) PROVE CreditInv'
  BY <1>4, SessionCloseKeeps
<1>5. CASE UNCHANGED vars
  <2>1. /\ UNCHANGED <<wire, chan, size, closed>> /\ UNCHANGED result
        /\ Good(wire, chan, size, closed)
    BY <1>5, Inv DEF vars
  <2>2. Good(wire', chan', size', closed')
    BY <2>1
  <2>3. Settling
    BY <2>1, Quiet
  <2> QED BY <2>1, <2>2, <2>3, Remains
<1> QED BY <1>1, <1>2, <1>3, <1>4, <1>5 DEF Next, Work

\* The invariant says that credit is kept.
LEMMA CreditFollows ==
  ASSUME CreditInv
  PROVE CreditKept
<1>1. /\ Good(wire, chan, size, closed) /\ Typed(wire, chan, size, closed)
      /\ wire \in [Ends -> Seq(Messages)] /\ result \in [Calls -> Results]
      /\ size \in [Ends -> 0..Cardinality(Calls)]
  BY Inv
<1>2. TypeOK
  <2>1. \A e \in Ends : wire[e] \in Seq(Messages)
    BY <1>1
  <2>2. ASSUME NEW x \in InUse
        PROVE LET c == chan[x[1]][x[2]] IN
              /\ c.st \in {"in", "out"} /\ x[2] <= size[x[1]]
              /\ c.rid \in Ids \cup {0} /\ c.buf \in Seq(Nat)
              /\ c.rwin \in 0..Window /\ c.mwin \in 0..Window
              /\ c.todo \in Nat /\ c.need \in Nat
              /\ c.parked => c.pc \in Writing
    <3>1. PICK e \in Ends, i \in Ids : x = <<e, i>> /\ chan[e][i].st # "none"
      BY DEF InUse
    <3>2. PICK c : c = chan[e][i]
      OBVIOUS
    <3>3. Used(size, e, i) /\ Sound(c)
      BY <3>1, <3>2, InUseUsed
    <3>4. i <= size[e]
      BY <3>3 DEF Used
    <3>5. /\ c.st \in {"in", "out"} /\ c.rid \in Ids \cup {0} /\ c.buf \in Seq(Nat)
          /\ c.rwin \in 0..Window /\ c.mwin \in 0..Window
      BY <3>3, SoundType
    <3>6. c.todo \in Nat /\ c.need \in Nat
      BY <3>3 DEF Sound, Channel
    <3>7. c.parked => c.pc \in Writing
      BY <3>3 DEF Sound
    <3>8. x[1] = e /\ x[2] = i
      BY <3>1
    <3> QED BY <3>2, <3>4, <3>5, <3>6, <3>7, <3>8
  <2> QED BY <1>1, <2>1, <2>2 DEF TypeOK
<1>3. ASSUME NEW e \in Ends, NEW i \in Ids, Live(e, i), chan[e][i].rid # 0,
             Live(Other(e), chan[e][i].rid)
      PROVE LET c == chan[e][i]
                r == chan[Other(e)][c.rid] IN
            /\ r.rid # 0 /\ ~r.sentClose =>
                 c.rwin + OnTheWay(e, c.rid, "data") + Len(r.buf) + OnTheWay(Other(e), i, "adjust")
                   = Window
            /\ OnTheWay(e, c.rid, "data") <= r.mwin
  <2>1. PICK o : o = Other(e)
    OBVIOUS
  <2>2. o \in Ends /\ Other(o) = e
    BY <2>1, TwoEnds
  <2>3. PICK c : c = chan[e][i]
    OBVIOUS
  <2>4. PICK j : j = c.rid
    OBVIOUS
  <2>5. PICK r : r = chan[o][j]
    OBVIOUS
  <2>6. Used(size, e, i) /\ Sound(c) /\ c.rid # 0
    BY <1>3, <2>3, InUseUsed DEF Live
  <2>7. /\ Used(size, o, j) /\ Peer(chan, e, i) = r
        /\ r.rid \in {0, i}
        /\ r.rid # 0 => Peer(chan, o, j) = c
        /\ r.rid = 0 => Untouched(c)
    <3>1. Used(size, Other(e), chan[e][i].rid)
          /\ Peer(chan, e, i).rid \in {0, i}
          /\ (Peer(chan, e, i).rid # 0 =>
               Peer(chan, Other(e), chan[e][i].rid) = chan[e][i])
          /\ (Peer(chan, e, i).rid = 0 => Untouched(chan[e][i]))
      BY <1>1, <1>3, <2>6, Mutual
    <3>2. Peer(chan, e, i) = r
      BY <2>1, <2>3, <2>4, <2>5 DEF Peer
    <3> QED BY <2>1, <2>3, <2>4, <3>1, <3>2
  <2>8. j \in Ids /\ Sound(r) /\ r.st = "in" /\ c.st = "in"
    BY <1>1, <1>3, <2>1, <2>2, <2>3, <2>4, <2>5, <2>7, UsedSound DEF Live
  <2> DEFINE u == Units(wire[o], j, "data")
             a == Units(wire[e], i, "adjust")
  <2>9. u \in Nat /\ a \in Nat
    BY <1>1, <2>2, UnitsType
  <2>10. OnTheWay(e, j, "data") = u /\ OnTheWay(o, i, "adjust") = a
    BY <2>1, <2>2 DEF OnTheWay, Units
  <2>11. /\ c.rwin \in Nat /\ r.mwin \in Nat /\ Len(r.buf) \in Nat /\ Window \in Nat
         /\ ~r.sentClose => r.mwin + Len(r.buf) = Window
    <3>1. c.rwin \in 0..Window /\ r.mwin \in 0..Window /\ Len(r.buf) \in Nat
      BY <2>6, <2>8, SoundType
    <3>2. ~r.sentClose => r.mwin + Len(r.buf) = Window
      BY <2>8 DEF Sound
    <3>3. Window \in Nat
      BY WindowNumber
    <3> QED BY <3>1, <3>2, <3>3
  <2>12. CASE r.rid # 0
    <3>1. Pairs(wire, chan, size, o, j)
      BY <1>1, <2>2, <2>7, <2>8 DEF Good
    <3>2. r.rid = i
      BY <2>7, <2>12
    <3>3. /\ c.rwin + u + a <= r.mwin
          /\ ~r.sentClose => c.rwin + u + a = r.mwin
      BY <2>2, <2>5, <2>6, <2>7, <2>8, <2>12, <3>1, <3>2 DEF Pairs, On
    <3>4. u <= r.mwin /\ (~r.sentClose => c.rwin + u + Len(r.buf) + a = Window)
      <4> HIDE DEF u, a
      <4> QED BY <2>9, <2>11, <3>3
    <3> QED BY <2>1, <2>3, <2>4, <2>5, <2>10, <3>4
  <2>13. CASE r.rid = 0
    \* Nothing comes for a caller that has not heard of its channel.
    <3>1. ASSUME NEW m \in Range(wire[o]), m.id = "data" PROVE m.to # j
      <4>1. Tells(wire, chan, size, o, m)
        BY <1>1, <2>2, <3>1 DEF Good
      <4>2. Linked(chan, size, o, m.to)
        BY <3>1, <4>1 DEF Tells
      <4>3. chan[o][m.to].rid # 0
        BY <4>2 DEF Linked
      <4> QED BY <2>5, <2>13, <4>3
    <3>2. u = 0
      BY <1>1, <2>2, <3>1, UnitsType
    <3>3. u <= r.mwin
      <4> HIDE DEF u
      <4> QED BY <2>11, <3>2
    <3> QED BY <2>1, <2>3, <2>4, <2>5, <2>10, <2>13, <3>3
  <2> QED BY <2>12, <2>13
<1> QED BY <1>2, <1>3 DEF CreditKept

\* No credit is lost or made up, of either direction of any channel,
\* whatever is opened, written, read, refused and closed in whatever order.
THEOREM CreditCorrect == Spec => []CreditKept
<1>1. Init => CreditInv
  BY CreditStarts
<1>2. CreditInv /\ [Next]_vars => CreditInv'
  BY CreditStep
<1>3. CreditInv => CreditKept
  BY CreditFollows
<1> QED BY <1>1, <1>2, <1>3, PTL DEF Spec
=============================================================================
