------------------------------- MODULE MCPipe -------------------------------
(* A pipe with a reader at each port and a second writer at port 1.        *)
EXTENDS Pipe

CONSTANTS r1, w1, r2

ThreePorts == [t \in {r1, w1, r2} |-> IF t = r2 THEN 2 ELSE 1]
=============================================================================
