------------------------------ MODULE JsValues ------------------------------
(***************************************************************************)
(* The JavaScript values a Go program refers to.  The program has numbers; *)
(* the runtime around it (the class Go of gojs/worker/worker.js, and the   *)
(* variant for TinyGo of wasi/worker/worker.js) keeps the table from the   *)
(* numbers to the values and counts how often it gave each number away.    *)
(* The program gives a number back when its collector finds it unused.     *)
(*                                                                         *)
(* JavaScript that the program calls may call the program again, so its    *)
(* activations stack up; while an inner one runs, the stack of the outer   *)
(* one may move.                                                           *)
(*                                                                         *)
(* refs is what the program holds: a bag of references, each with the      *)
(* value that was meant.  Bounds: MaxRefs references, MaxDepth activations *)
(* and calls, MaxMoves moves of the stack, MaxTimers timers.               *)
(***************************************************************************)
EXTENDS Integers, Sequences, FiniteSets, SequencesExt, Bags

CONSTANTS Objects, Strings, MaxRefs, MaxDepth, MaxMoves, MaxTimers

\* An object or a string is none of the values that are there from the start.
ASSUME ValuesAssumption ==
  (Objects \cup Strings) \cap {"nan", "zero", "null", "true", "false", "global", "this",
                             "number", "undefined"} = {}

VARIABLES
  flavour,      \* which of the two runtimes: "go" or "tinygo"
  js,           \* _values, _goRefCounts, _ids and _idPool
  refs,
  running,      \* activations of the program and its calls, the innermost last
  stackAt,      \* where the program's stack is
  timers,       \* the ids of the timeouts that are scheduled
  nextTimer,
  gone          \* Go.exited

jsVars == <<flavour, js, refs, running, stackAt, timers, nextTimer, gone>>

Predefined == <<"nan", "zero", "null", "true", "false", "global", "this">>
JsAny == ToSet(Predefined) \cup {"number", "undefined"} \cup Strings \cup Objects

Infinity == -1
Garbage == [is |-> "garbage"]
Plain(v) == [is |-> "plain", v |-> v]
Id(n) == [is |-> "id", id |-> n]

\* The table when the program starts; _values[n] is values[n + 1].  TinyGo's
\* knows the values before the program has references, but not their ids.
FirstTable(kind) ==
  [values |-> Predefined,
   counts |-> [n \in 1..7 |-> IF kind = "go" THEN Infinity ELSE 0],
   ids |-> IF kind = "go" THEN [v \in ToSet(Predefined) \ {"nan"} |->
                                  (CHOOSE n \in 1..7 : Predefined[n] = v) - 1]
           ELSE <<>>,
   pool |-> <<>>]

Activation(via, timer) == [who |-> "program", via |-> via, timer |-> timer, sp |-> 0]
Calling(sp) == [who |-> "js", via |-> "call", timer |-> 0, sp |-> sp]

JsInit ==
  /\ flavour \in {"go", "tinygo"}
  /\ js = FirstTable(flavour)
  /\ refs = EmptyBag
  /\ running = <<Activation("run", 0)>>
  /\ stackAt = 0 /\ timers = {} /\ nextTimer = 1 /\ gone = FALSE

(***************************************************************************)
(* The table                                                               *)
(***************************************************************************)

\* The values whose reference is the same for ever, and that reference.
Fixed(v) ==
  IF flavour = "go" THEN v \in {"number", "undefined", "nan"}
  ELSE v \in {"number", "undefined", "nan", "zero", "null", "true", "false"}
FixedRef(v) == IF v \in {"number", "undefined"} THEN Plain(v)
               ELSE Id((CHOOSE n \in 1..7 : Predefined[n] = v) - 1)

NewId == IF js.pool # <<>> THEN Last(js.pool) ELSE Len(js.values)

\* The table once v was stored: a value new to it gets an id that was given
\* back, or one more; in either case its count goes up.
With(v) ==
  IF v \in DOMAIN js.ids
  THEN [js EXCEPT !.counts[js.ids[v] + 1] = IF @ = Infinity THEN @ ELSE @ + 1]
  ELSE [values |-> IF js.pool = <<>> THEN Append(js.values, v)
                   ELSE [js.values EXCEPT ![NewId + 1] = v],
        counts |-> IF js.pool = <<>> THEN Append(js.counts, 1)
                   ELSE [js.counts EXCEPT ![NewId + 1] = 1],
        ids |-> [x \in DOMAIN js.ids \cup {v} |-> IF x = v THEN NewId ELSE js.ids[x]],
        pool |-> IF js.pool = <<>> THEN <<>> ELSE Front(js.pool)]

RefOf(v) == IF Fixed(v) THEN FixedRef(v)
            ELSE Id(IF v \in DOMAIN js.ids THEN js.ids[v] ELSE NewId)

\* loadValue, unboxValue
Load(ref) == CASE ref.is = "plain" -> ref.v
               [] ref.is = "id" -> js.values[ref.id + 1]
               [] ref.is = "garbage" -> "garbage"

\* storeValue and boxValue: v is stored where the program reads it, or, of a
\* program whose stack has moved, elsewhere.  back: whether the program's
\* collector will give the reference back, which it does for objects,
\* functions and strings; TinyGo's only does for strings it made itself.
Store(v, made, lands) ==
  LET back == IF flavour = "go" THEN v \in Objects \cup Strings \cup {"global", "this"}
              ELSE made /\ v \in Strings
  IN /\ BagCardinality(refs) < MaxRefs
     /\ js' = IF Fixed(v) THEN js ELSE With(v)
     /\ refs' = refs (+) SetToBag({[ref |-> IF lands THEN RefOf(v) ELSE Garbage,
                                    v |-> v, back |-> back]})

\* An id nobody holds names nothing, is unknown and waits for its next value.
Freed(id) ==
  [js EXCEPT !.counts[id + 1] = 0, !.values[id + 1] = "null",
             !.ids = [v \in DOMAIN @ \ {js.values[id + 1]} |-> @[v]],
             !.pool = Append(@, id)]

(***************************************************************************)
(* The program runs                                                        *)
(***************************************************************************)

ProgramRuns == running # <<>> /\ Last(running).who = "program"
CallRuns == running # <<>> /\ Last(running).who = "js"
Rests == running = <<>> /\ ~gone

\* valueGet, valueIndex, valuePrepareString and the like, whose result comes at
\* once (no getter of the program's is in between).
Get ==
  /\ ProgramRuns
  /\ \E v \in JsAny : Store(v, FALSE, TRUE)
  /\ UNCHANGED <<flavour, running, stackAt, timers, nextTimer, gone>>

StringVal ==
  /\ ProgramRuns
  /\ \E v \in Strings : Store(v, TRUE, TRUE)
  /\ UNCHANGED <<flavour, running, stackAt, timers, nextTimer, gone>>

\* The program's collector: a reference it does not use any more goes back.
FinalizeRef ==
  /\ ProgramRuns
  /\ \E h \in BagToSet(refs) :
       /\ h.back
       /\ refs' = refs (-) SetToBag({h})
       /\ LET n == js.counts[h.ref.id + 1] IN
          js' = CASE n = Infinity -> js
                  [] n = 1 -> Freed(h.ref.id)
                  [] OTHER -> [js EXCEPT !.counts[h.ref.id + 1] = @ - 1]
  /\ UNCHANGED <<flavour, running, stackAt, timers, nextTimer, gone>>

\* valueCall, valueInvoke, valueNew: JavaScript runs on the program's behalf.
CallOut ==
  /\ ProgramRuns /\ Len(running) < MaxDepth
  /\ running' = Append(running, Calling(stackAt))
  /\ UNCHANGED <<flavour, js, refs, stackAt, timers, nextTimer, gone>>

\* It may call one of the program's functions: _makeFuncWrapper leaves the
\* event, one of the values Get finds, and resumes the program.
CallIn ==
  /\ CallRuns /\ Len(running) < MaxDepth
  /\ running' = Append(running, Activation("event", 0))
  /\ UNCHANGED <<flavour, js, refs, stackAt, timers, nextTimer, gone>>

\* Mutant: the result is stored where the stack was at the call.
AddressStale == Last(running).sp

\* The stack pointer is asked for again (getsp) before the result is stored.
\* TinyGo's stack does not move: the address it gave is good.
Address == stackAt

\* It returns, or throws: the program gets a result or an error, and goes on.
Return ==
  /\ CallRuns
  /\ \E v \in JsAny : Store(v, FALSE, Address = stackAt)
  /\ running' = Front(running)
  /\ UNCHANGED <<flavour, stackAt, timers, nextTimer, gone>>

\* morestack
StackMoves ==
  /\ flavour = "go" /\ ProgramRuns /\ stackAt < MaxMoves
  /\ stackAt' = stackAt + 1
  /\ UNCHANGED <<flavour, js, refs, running, timers, nextTimer, gone>>

\* scheduleTimeoutEvent; sleepTicks of TinyGo
Schedule ==
  /\ ProgramRuns /\ nextTimer <= MaxTimers
  /\ timers' = timers \cup {nextTimer} /\ nextTimer' = nextTimer + 1
  /\ UNCHANGED <<flavour, js, refs, running, stackAt, gone>>

\* clearTimeoutEvent
Clear ==
  /\ flavour = "go" /\ ProgramRuns
  /\ \E id \in timers : timers' = timers \ {id}
  /\ UNCHANGED <<flavour, js, refs, running, stackAt, nextTimer, gone>>

\* The program has nothing more to do and returns.  A timeout resumes it until
\* it has cleared that timeout.
Pause ==
  /\ ProgramRuns
  /\ running' = IF Last(running).timer \in timers THEN running ELSE Front(running)
  /\ UNCHANGED <<flavour, js, refs, stackAt, timers, nextTimer, gone>>

\* wasmExit: the tables are deleted, so every call on the way throws and the
\* activations end one after the other.
ExitGo ==
  /\ flavour = "go" /\ ProgramRuns
  /\ gone' = TRUE /\ running' = <<>>
  /\ js' = [js EXCEPT !.values = <<>>, !.counts = <<>>, !.ids = <<>>, !.pool = <<>>]
  /\ UNCHANGED <<flavour, refs, stackAt, timers, nextTimer>>

\* proc_exit throws, in the WASI worker the shim's exception.  It ends the
\* innermost activation.  If a function that the program had called called that
\* one, either it catches the exception or the catch of the program's call takes
\* it for an error of the call, and the program goes on.  Nobody sets exited.
ExitTinyGo ==
  /\ flavour = "tinygo" /\ ProgramRuns
  /\ IF Len(running) = 1
     THEN running' = <<>> /\ UNCHANGED <<js, refs>>
     ELSE \/ running' = Front(running) /\ UNCHANGED <<js, refs>>
          \/ /\ \E v \in Objects : Store(v, FALSE, TRUE)
             /\ running' = Front(Front(running))
  /\ UNCHANGED <<flavour, stackAt, timers, nextTimer, gone>>

(***************************************************************************)
(* The event loop                                                          *)
(***************************************************************************)

Event ==
  /\ Rests
  /\ running' = <<Activation("event", 0)>>
  /\ UNCHANGED <<flavour, js, refs, stackAt, timers, nextTimer, gone>>

\* TinyGo's timers are not known by an id: each resumes the scheduler once.
Timeout ==
  /\ Rests
  /\ \E id \in timers :
       IF flavour = "go"
       THEN running' = <<Activation("timer", id)>> /\ UNCHANGED timers
       ELSE running' = <<Activation("timer", 0)>> /\ timers' = timers \ {id}
  /\ UNCHANGED <<flavour, js, refs, stackAt, nextTimer, gone>>

JsNext ==
  \/ Get \/ StringVal \/ FinalizeRef \/ CallOut \/ CallIn \/ Return \/ StackMoves
  \/ Schedule \/ Clear \/ Pause \/ ExitGo \/ ExitTinyGo \/ Event \/ Timeout

JsSpec == JsInit /\ [][JsNext]_jsVars

(***************************************************************************)
(* Properties                                                              *)
(***************************************************************************)

\* How often the program holds a reference, and an id: for the value the id
\* stands for, whether the collector will give the reference back or not.
Times(h, bag) == IF h \in BagToSet(bag) THEN bag[h] ELSE 0
HeldOf(id) ==
  LET ref(back) == [ref |-> Id(id), v |-> js.values[id + 1], back |-> back]
  IN Times(ref(TRUE), refs) + Times(ref(FALSE), refs)

\* What the program holds names what it was given, whatever was stored, given
\* back and stored again since, and wherever its stack went.  No value has two
\* ids, and an id is free exactly when the program holds it no more: it is not
\* reused under the program, and it is not lost.
RefsName ==
  ~gone =>
    /\ \A h \in BagToSet(refs) : Load(h.ref) = h.v
    /\ \A v \in DOMAIN js.ids : js.values[js.ids[v] + 1] = v
    /\ \A id \in 7..Len(js.values) - 1 :
         /\ js.counts[id + 1] = HeldOf(id)
         /\ js.counts[id + 1] = 0 <=> Contains(js.pool, id)
    /\ IsInjective(js.pool)
=============================================================================
