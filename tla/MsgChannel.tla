----------------------------- MODULE MsgChannel -----------------------------
(***************************************************************************)
(* What the users of the shared-memory rings expect of one direction:      *)
(* messages are accepted one after the other, and the n-th delivery is the *)
(* n-th accepted message.  v86.go:231 wraps the page's end into a stream   *)
(* of bytes, which relies on just this.                                    *)
(***************************************************************************)
EXTENDS Naturals, Sequences

VARIABLES
  accepted,   \* number of messages accepted so far
  delivered   \* the messages delivered, by number

vars == <<accepted, delivered>>

Init == accepted = 0 /\ delivered = <<>>

Accept ==
  /\ accepted' = accepted + 1
  /\ UNCHANGED delivered

Deliver ==
  /\ Len(delivered) < accepted
  /\ delivered' = Append(delivered, Len(delivered) + 1)
  /\ UNCHANGED accepted

Next == Accept \/ Deliver

Spec == Init /\ [][Next]_vars /\ WF_vars(Deliver)
=============================================================================
