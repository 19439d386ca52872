--------------------------- MODULE ShmRingLemmas ---------------------------
(***************************************************************************)
(* Facts about positions and cycles that the proofs of both rings use.     *)
(* Both suppose that no message is empty, and that the session is short    *)
(* enough for the positions not to reach the half of Uint, where the page  *)
(* begins to read them as negative numbers.                                *)
(***************************************************************************)
EXTENDS ShmRing, TLAPS

NoEmptyMessage == 0 \notin Lens

\* A frame moves the head by at most two blocks: a gap and the frame.
Reach(n) == 2 * BufferSize * n
NoWrap == Reach(MaxMsgs) < Uint \div 2

\* Division of a number below the divisor leaves it as it is.
LEMMA ModSmall == ASSUME NEW a \in Nat, NEW b \in Nat, a < b PROVE a % b = a
OBVIOUS

\* Quotient and remainder of a division.
LEMMA DivMod ==
  ASSUME NEW a \in Nat, NEW b \in Nat \ {0}
  PROVE /\ a % b \in 0 .. b - 1 /\ a \div b \in Nat
        /\ a = (b * (a \div b)) + (a % b)
OBVIOUS

\* There is no other quotient and remainder.
LEMMA DivModUnique ==
  ASSUME NEW b \in Nat \ {0}, NEW c \in Nat, NEW r \in 0 .. b - 1
  PROVE ((b * c) + r) % b = r /\ ((b * c) + r) \div b = c
OBVIOUS

\* A position is the start of a cycle and a place in the block.
LEMMA Place ==
  ASSUME NEW x \in Nat
  PROVE /\ Pos(x) \in 0 .. BufferSize - 1
        /\ \E c \in Nat : /\ c = x \div BufferSize
                          /\ x = (BufferSize * c) + Pos(x)
BY DivMod, RingAssumption DEF Pos

\* The next cycle begins where the block ends, at place 0.
LEMMA CycleEnds ==
  ASSUME NEW x \in Nat
  PROVE /\ NextCycle(x) \in Nat /\ NextCycle(x) = x + BufferSize - Pos(x)
        /\ Pos(NextCycle(x)) = 0
<1>1. PICK c \in Nat : c = x \div BufferSize /\ x = (BufferSize * c) + Pos(x)
  BY Place
<1>2. NextCycle(x) = (BufferSize * (c + 1)) + 0 /\ BufferSize \in Nat \ {0}
  BY <1>1, RingAssumption DEF NextCycle
<1>3. Pos(NextCycle(x)) = 0
  BY <1>2, DivModUnique DEF Pos
<1>4. Pos(x) \in 0 .. BufferSize - 1
  BY Place
<1>5. NextCycle(x) \in Nat /\ NextCycle(x) = x + BufferSize - Pos(x)
  BY <1>1, <1>2, <1>4
<1> QED BY <1>3, <1>5

\* Steps that stay below the end of the block stay in the cycle.
LEMMA SameCycle ==
  ASSUME NEW x \in Nat, NEW k \in Nat, Pos(x) + k < BufferSize
  PROVE Pos(x + k) = Pos(x) + k /\ NextCycle(x + k) = NextCycle(x)
<1>1. PICK c \in Nat : c = x \div BufferSize /\ x = (BufferSize * c) + Pos(x)
  BY Place
<1>2. Pos(x) \in 0 .. BufferSize - 1 /\ BufferSize \in Nat \ {0}
  BY Place, RingAssumption
<1>3. Pos(x) + k \in 0 .. BufferSize - 1 /\ x + k = (BufferSize * c) + (Pos(x) + k)
  BY <1>1, <1>2
<1>4. (x + k) % BufferSize = Pos(x) + k /\ (x + k) \div BufferSize = c
  BY <1>2, <1>3, DivModUnique
<1> QED BY <1>1, <1>4 DEF Pos, NextCycle

\* Two positions less than a block apart have different places.
LEMMA Apart ==
  ASSUME NEW x \in Nat, NEW y \in Nat, x < y, y < x + BufferSize
  PROVE Pos(x) # Pos(y)
<1> SUFFICES ASSUME Pos(x) = Pos(y) PROVE FALSE
  OBVIOUS
<1>1. PICK c \in Nat, d \in Nat :
        x = (BufferSize * c) + Pos(x) /\ y = (BufferSize * d) + Pos(y)
  BY Place
<1>2. Pos(x) \in Nat /\ BufferSize \in Nat \ {0}
  BY Place, RingAssumption
<1>3. BufferSize * c < BufferSize * d /\ BufferSize * d < BufferSize * (c + 1)
  BY <1>1, <1>2
<1>4. c < d /\ d < c + 1
  BY <1>1, <1>2, <1>3
<1> QED BY <1>1, <1>4

\* A frame at a with g bytes keeps them when another is put behind it, at most a
\* block after a tail that has not passed the first.
LEMMA Untouched ==
  ASSUME NEW tail \in Nat, NEW a \in Nat, NEW g \in Nat, NEW k \in 0 .. g - 1,
         NEW at \in Nat, NEW f \in Nat,
         Pos(a) + g <= BufferSize, Pos(at) + f <= BufferSize,
         tail <= a, a + g <= at, at + f <= tail + BufferSize
  PROVE /\ Pos(a) + k \in Offsets
        /\ ~(Pos(a) + k >= Pos(at) /\ Pos(a) + k < Pos(at) + f)
<1>1. Pos(at) \in 0 .. BufferSize - 1 /\ Pos(a) \in 0 .. BufferSize - 1 /\ BufferSize \in Nat
  BY Place, RingAssumption
<1>2. k \in Nat /\ k < g /\ Pos(a) + k < BufferSize
  BY <1>1
<1>3. Pos(a + k) = Pos(a) + k
  BY <1>2, SameCycle
<1>4. ASSUME Pos(a) + k >= Pos(at), Pos(a) + k < Pos(at) + f PROVE FALSE
  <2>1. PICK j \in Nat : Pos(at) + j = Pos(a) + k /\ j < f
    <3>1. (Pos(a) + k) - Pos(at) \in Nat /\ (Pos(a) + k) - Pos(at) < f
          /\ Pos(at) + ((Pos(a) + k) - Pos(at)) = Pos(a) + k
      BY <1>1, <1>2, <1>4
    <3> QED BY <3>1
  <2>2. Pos(at + j) = Pos(a + k)
    BY <1>1, <1>2, <1>3, <2>1, SameCycle
  <2>3. at + j \in Nat /\ a + k \in Nat /\ a + k < at + j /\ at + j < a + k + BufferSize
    BY <1>1, <1>2, <2>1
  <2> QED BY <2>2, <2>3, Apart
<1> QED BY <1>1, <1>2, <1>4 DEF Offsets

\* Each message allows two blocks more.
LEMMA ReachGrows ==
  ASSUME NEW n \in Nat
  PROVE /\ Reach(n) \in Nat /\ Reach(n + 1) = Reach(n) + BufferSize + BufferSize
        /\ \A m \in Nat : n <= m => Reach(n) <= Reach(m)
<1>1. BufferSize \in Nat \ {0}
  BY RingAssumption
<1>2. Reach(n) \in Nat /\ Reach(n + 1) = Reach(n) + BufferSize + BufferSize
  BY <1>1 DEF Reach
<1>3. ASSUME NEW m \in Nat, n <= m PROVE Reach(n) <= Reach(m)
  <2>1. PICK d \in Nat : m = n + d
    BY <1>3
  <2>2. Reach(m) = Reach(n) + (2 * BufferSize * d) /\ 2 * BufferSize * d \in Nat
    BY <1>1, <2>1 DEF Reach
  <2> QED BY <1>2, <2>2
<1> QED BY <1>2, <1>3

\* A frame or a head is at y when the one before it ends at x.
Follows(x, y) == y = x \/ (x < y /\ NextCycle(x) = y)

\* A frame follows within a block of the end of the one before it.
LEMMA FollowsWithin ==
  ASSUME NEW x \in Nat, NEW y, Follows(x, y)
  PROVE y \in Nat /\ x <= y /\ y <= x + BufferSize
<1>1. /\ NextCycle(x) \in Nat /\ NextCycle(x) = x + BufferSize - Pos(x)
      /\ Pos(x) \in 0 .. BufferSize - 1 /\ BufferSize \in Nat
  BY CycleEnds, Place, RingAssumption
<1> QED BY <1>1 DEF Follows

\* Where the tail stands before the start of a cycle, steps inside the block
\* end there or before.
LEMMA GapStep ==
  ASSUME NEW x \in Nat, NEW k \in Nat, Pos(x) + k <= BufferSize
  PROVE x + k <= NextCycle(x) /\ Follows(x + k, NextCycle(x))
<1>1. /\ NextCycle(x) = x + BufferSize - Pos(x) /\ NextCycle(x) \in Nat
      /\ Pos(x) \in 0 .. BufferSize - 1 /\ BufferSize \in Nat
  BY CycleEnds, Place, RingAssumption
<1>2. CASE Pos(x) + k = BufferSize
  <2>1. x + k = NextCycle(x)
    BY <1>1, <1>2
  <2> QED BY <1>1, <2>1 DEF Follows
<1>3. CASE Pos(x) + k < BufferSize
  <2>1. NextCycle(x + k) = NextCycle(x)
    BY <1>3, SameCycle
  <2>2. x + k < NextCycle(x)
    BY <1>1, <1>3
  <2> QED BY <1>1, <2>1, <2>2 DEF Follows
<1> QED BY <1>1, <1>2, <1>3

\* When a frame does not fit before the end of the block and its size is free at
\* the start, then from the tail on there is a block for the gap and the frame.
LEMMA StartRoom ==
  ASSUME NEW head \in Nat, NEW tail \in Nat, NEW f \in 1 .. BufferSize,
         tail <= head, head - tail + f <= BufferSize,
         Pos(tail) >= f, Pos(head) + f > BufferSize
  PROVE NextCycle(head) + f - tail <= BufferSize
<1>1. /\ Pos(head) \in 0 .. BufferSize - 1 /\ Pos(tail) \in 0 .. BufferSize - 1
      /\ NextCycle(head) = head + BufferSize - Pos(head)
      /\ BufferSize \in Nat \ {0}
  BY Place, CycleEnds, RingAssumption
<1> DEFINE start == head - Pos(head)
<1>2. start \in Nat /\ Pos(start) = 0
  <2>1. PICK c \in Nat : head = (BufferSize * c) + Pos(head)
    BY Place
  <2>2. start = (BufferSize * c) + 0 /\ start \in Nat
    BY <1>1, <2>1
  <2>3. ((BufferSize * c) + 0) % BufferSize = 0
    <3>1. 0 \in 0 .. BufferSize - 1
      BY <1>1
    <3> QED BY <1>1, <3>1, DivModUnique, Zenon
  <2>4. Pos((BufferSize * c) + 0) = 0
    BY <2>3 DEF Pos
  <2> QED BY <2>2, <2>4
<1>3. start <= tail
  BY <1>1, <1>2
<1>4. Pos(tail) = tail - start
  <2>1. tail - start \in Nat /\ Pos(start) + (tail - start) < BufferSize
    BY <1>1, <1>2, <1>3
  <2>2. Pos(start + (tail - start)) = Pos(start) + (tail - start)
    BY <1>2, <2>1, SameCycle
  <2>3. start + (tail - start) = tail
    BY <1>1, <1>2
  <2> QED BY <1>2, <2>1, <2>2, <2>3
<1>5. tail - start >= f
  BY <1>1, <1>4
<1> QED BY <1>1, <1>5

\* Place q is one of the f places from p on.
Covers(p, f, q) == p <= q /\ q < p + f

\* Frames of one size f may stand at the multiples of f.
Multiple(x, f) == \E k \in Nat : x = f * k

LEMMA NextSlot ==
  ASSUME NEW f \in Nat, NEW x \in Nat, Multiple(x, f)
  PROVE Multiple(x + f, f)
<1>1. PICK k \in Nat : x = f * k
  BY DEF Multiple
<1>2. x + f = f * (k + 1) /\ k + 1 \in Nat
  BY <1>1
<1> QED BY <1>2 DEF Multiple

\* The slot that does not fit is behind every slot that does.
LEMMA LastSlot ==
  ASSUME NEW f \in Nat \ {0}, NEW x \in Nat, NEW y \in Nat, Multiple(x, f), Multiple(y, f), x < y
  PROVE x + f <= y
<1>1. PICK k \in Nat, l \in Nat : x = f * k /\ y = f * l
  BY DEF Multiple
<1>2. k < l
  <2> SUFFICES ASSUME l <= k PROVE FALSE
    BY <1>1
  <2>1. f * l <= f * k
    BY <1>1
  <2> QED BY <1>1, <2>1
<1>3. f * (k + 1) <= f * l
  <2>1. k + 1 <= l
    BY <1>2
  <2> QED BY <2>1
<1>4. f * (k + 1) = x + f
  BY <1>1
<1> QED BY <1>1, <1>3, <1>4

\* A frame in a slot ends where the next slot is.
LEMMA SlotAfter ==
  ASSUME NEW at \in Nat, NEW f \in Nat \ {0}, Pos(at) + f <= BufferSize, Multiple(Pos(at), f)
  PROVE Multiple(Pos(at + f), f)
<1>1. Pos(at) \in 0 .. BufferSize - 1 /\ BufferSize \in Nat
  BY Place, RingAssumption
<1>2. CASE Pos(at) + f < BufferSize
  <2>1. Pos(at + f) = Pos(at) + f
    BY <1>2, SameCycle
  <2> QED BY <1>1, <2>1, NextSlot
<1>3. CASE Pos(at) + f = BufferSize
  <2>1. NextCycle(at) = at + f /\ Pos(NextCycle(at)) = 0
    BY <1>1, <1>3, CycleEnds
  <2>2. 0 = f * 0
    OBVIOUS
  <2> QED BY <2>1, <2>2 DEF Multiple
<1> QED BY <1>1, <1>2, <1>3
=============================================================================
