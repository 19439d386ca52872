------------------------------- MODULE Runtime ------------------------------
(***************************************************************************)
(* The code a program needs to run, in one specification: the two workers  *)
(* and the calls they make to the kernel (Workers), the bytes those calls  *)
(* are sent as (Codec), the table of the JavaScript values a program       *)
(* refers to (JsValues), and, for a program that is to run on Forth, its   *)
(* translation (Translation).  None of them reads the state of another, so *)
(* a behaviour is one of one part, and the others stay as they began.      *)
(***************************************************************************)
EXTENDS Workers, Codec, JsValues, Translation

VARIABLE part

runtimeVars == <<part, vars, codecVars, jsVars, emitterVars>>

WorkersRest == Init /\ tree = CHOOSE t \in Trees : TRUE
CodecRests == CodecInit /\ copy = "rpc"
JsRests == JsInit /\ flavour = "go"
ProgramRests == EmitterInit /\ ast = (CHOOSE p \in Programs : TRUE) /\ forth.takes = 1

RuntimeInit ==
  \/ part = "workers" /\ Init /\ CodecRests /\ JsRests /\ ProgramRests
  \/ part = "codec" /\ CodecInit /\ WorkersRest /\ JsRests /\ ProgramRests
  \/ part = "values" /\ JsInit /\ WorkersRest /\ CodecRests /\ ProgramRests
  \/ part = "program" /\ EmitterInit /\ WorkersRest /\ CodecRests /\ JsRests

RuntimeNext ==
  /\ UNCHANGED part
  /\ \/ part = "workers" /\ Next /\ UNCHANGED <<codecVars, jsVars, emitterVars>>
     \/ part = "codec" /\ CodecNext /\ UNCHANGED <<vars, jsVars, emitterVars>>
     \/ part = "values" /\ JsNext /\ UNCHANGED <<vars, codecVars, emitterVars>>
     \/ part = "program" /\ EmitterNext /\ UNCHANGED <<vars, codecVars, jsVars>>

RuntimeSpec == RuntimeInit /\ [][RuntimeNext]_runtimeVars
=============================================================================
