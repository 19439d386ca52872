------------------------------ MODULE Terminal ------------------------------
(***************************************************************************)
(* The two parts of a terminal: its window-size file (Winch) and the       *)
(* element that shows its stream (TerminalElement).  No call of the one    *)
(* reaches the other, so their states are explored side by side and not    *)
(* multiplied: half, chosen at the start, is the part that moves.          *)
(***************************************************************************)
EXTENDS Winch, TerminalElement

VARIABLE half

TerminalVars == <<half, vars, terminalVars>>

Start == half \in {"size", "element"} /\ Init /\ TerminalInit

SizeStep == half = "size" /\ Next /\ UNCHANGED <<half, terminalVars>>
ElementStep == half = "element" /\ TerminalNext /\ UNCHANGED <<half, vars>>

TerminalSpec == Start /\ [][SizeStep \/ ElementStep]_TerminalVars
=============================================================================
