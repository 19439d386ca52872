----------------------------- MODULE MCDuplex -----------------------------
(* A call from each end, so that their channels get different numbers. *)
EXTENDS Duplex

CONSTANTS a, b, k1, k2

MCCaller == [k \in Calls |-> IF k = k1 THEN a ELSE b]
MCAnswers == [k \in Calls |-> IF k = k1 THEN {"continue", "throw", "not found"}
                              ELSE {"value"}]
MCFrameSize == [k \in Calls |-> [f \in Frames |->
                  CASE k = k1 /\ f = "arg" -> 3 [] OTHER -> 1]]
=============================================================================
