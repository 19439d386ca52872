----------------------------- MODULE MCTerminal -----------------------------
(* One open winch file of each kind as model values; the sources of the     *)
(* element are named in the configuration.                                  *)
EXTENDS Terminal

CONSTANTS r1, w1, x1
=============================================================================
