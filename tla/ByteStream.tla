----------------------------- MODULE ByteStream -----------------------------
(***************************************************************************)
(* What the users of a duplex channel expect of one of its directions: the *)
(* units the writer's write() accepted come out in order and without a     *)
(* hole, and the reader is told of the end only after it has read all of   *)
(* them and the writer has said that no more will follow, unless the       *)
(* session of one side was closed.                                         *)
(***************************************************************************)
EXTENDS Naturals, Sequences

VARIABLES
  accepted,   \* number of units accepted so far
  finished,   \* the writer has sent EOF or Close
  delivered,  \* the units delivered, by number
  over,       \* the reader has been told of the end
  cut         \* a session was closed

vars == <<accepted, finished, delivered, over, cut>>

Init == accepted = 0 /\ ~finished /\ delivered = <<>> /\ ~over /\ ~cut

Accept ==
  /\ ~finished
  /\ accepted' \in Nat /\ accepted' > accepted
  /\ UNCHANGED <<finished, delivered, over>>

Finish ==
  /\ finished'
  /\ UNCHANGED <<accepted, delivered, over>>

\* A read returns at least one unit and at most all that are there.
Deliver ==
  /\ ~over
  /\ \E n \in (Len(delivered) + 1)..accepted : delivered' = [i \in 1..n |-> i]
  /\ UNCHANGED <<accepted, finished, over>>

End ==
  /\ over'
  /\ cut \/ (finished /\ Len(delivered) = accepted)
  /\ UNCHANGED <<accepted, finished, delivered>>

\* Closing a session lets its waiting writers send once more and then fail.
Cut ==
  /\ cut'
  /\ accepted' \in Nat /\ accepted' >= accepted
  /\ UNCHANGED <<delivered, over>>

Next == \/ (Accept \/ Finish \/ Deliver \/ End) /\ UNCHANGED cut
        \/ Cut

Spec == Init /\ [][Next]_vars
=============================================================================
