------------------------------- MODULE MCWinch -------------------------------
(* One open winch file of each kind as model values.                        *)
EXTENDS Winch

CONSTANTS r1, w1, x1
=============================================================================
