----------------------------- MODULE GojsWorker -----------------------------
(***************************************************************************)
(* The Go runtime (gojs/worker/worker.js): globalThis.fs turns each call   *)
(* of the program's syscall/js layer into an asynchronous call of the      *)
(* kernel, and its answer into one call of the callback, which resumes the *)
(* program.  Many calls may be on their way; the kernel serves each in a   *)
(* goroutine of its own, so in any order.                                  *)
(***************************************************************************)
EXTENDS SysApi, Bags

CONSTANT Requests    \* the calls programs make; fd is filled in from held

ASSUME RequestsAssumption == Requests \subseteq Calls

VARIABLES
  calls,    \* the bag of calls not called back, and how far each has come
  held,     \* the descriptors the program was given, each with its open
  exited    \* Go.exited

gojsVars == <<calls, held, exited>>

GojsInit == calls = EmptyBag /\ held = {} /\ exited = FALSE

Sent(call) == calls (+) SetToBag({call})
Pending == BagToSet(calls)
Becomes(call, next) == (calls (-) SetToBag({call})) (+) SetToBag({next})
Forgotten(call) == calls (-) SetToBag({call})

\* The kernel's call for each method of fs.  fsync, lchown and link answer
\* themselves; readlink and symlink are left out.
AttributeMethod == [chmod |-> "chmod", chown |-> "chown", utimes |-> "chtimes"]
FileMethod ==
  [read |-> "read", write |-> "write", close |-> "close", fchmod |-> "fchmod",
   fchown |-> "fchown", fstat |-> "fstat", ftruncate |-> "ftruncate"]
PathMethod ==
  [lstat |-> "lstat", mkdir |-> "makeDir", open |-> "openFile", readdir |-> "readDir",
   rename |-> "rename", rmdir |-> "remove", stat |-> "stat", truncate |-> "truncate",
   unlink |-> "removeAll"]

\* A method of fs posts its call.  awaits: there is a callback; born: the open
\* that gave the program its descriptor.
Posted(r, awaits, born) ==
  [c |-> r, awaits |-> awaits, born |-> born, st |-> "sent",
   err |-> "", fd |-> 0, null |-> FALSE, hit |-> 0]

Request(r) ==
  /\ ~exited
  /\ \/ \E names \in {AttributeMethod, PathMethod} :
          /\ r.m \in DOMAIN names
          /\ calls' = Sent(Posted([r EXCEPT !.m = names[@]], TRUE, 0))
     \/ /\ r.m \in DOMAIN FileMethod
        /\ \E h \in held :
             calls' = Sent(Posted([r EXCEPT !.m = FileMethod[@], !.fd = h.fd], TRUE, h.born))
  /\ UNCHANGED <<held, exited, sysVars>>

\* wasmWrite sends and does not wait: the standard output is descriptor 5.
WasmWrite ==
  /\ ~exited
  /\ calls' = Sent(Posted([NoCall EXCEPT !.m = "write", !.fd = 5, !.n = 1], FALSE, 5))
  /\ UNCHANGED <<held, exited, sysVars>>

\* wasmExit: the exit file is written by one more call, with no callback.
WasmExit ==
  /\ ~exited
  /\ exited' = TRUE
  /\ calls' = Sent(Posted([NoCall EXCEPT !.m = "exit"], FALSE, 0))
  /\ UNCHANGED <<held, sysVars>>

\* What comes back: an error, a descriptor, or null for a nil slice of names.
Answered(call, out) ==
  [call EXCEPT !.st = "served", !.hit = out.hit,
     !.err = IF out.ok THEN "" ELSE out.v,
     !.fd = IF out.ok /\ call.c.m = "openFile" THEN out.v ELSE 0,
     !.null = out.ok /\ call.c.m = "readDir" /\ out.v = {}]

Serving(call) ==
  /\ call.st = "sent"
  /\ \E out \in Outcomes("gojs", call.c) :
       SysCall("gojs", out) /\ calls' = Becomes(call, Answered(call, out))
  /\ UNCHANGED <<held, exited>>

Handed(call) == IF call.fd # 0 THEN {[fd |-> call.fd, born |-> call.hit]} ELSE {}

\* Mutant: errback calls back only for the errors it has a code for.
CallbackCoded(call) ==
  LET back == call.awaits /\ ~exited /\ ~call.null /\ call.err # "other"
  IN /\ call.st = "served"
     /\ calls' = IF back THEN Forgotten(call)
                 ELSE Becomes(call, [call EXCEPT !.st = "dropped"])
     /\ held' = IF back THEN held \cup Handed(call) ELSE held
     /\ UNCHANGED <<exited, sysVars>>

\* The continuation of the await.  After the exit a callback throws, and null
\* has no map; what throws reaches errback, which expects a string and throws in turn, so that
\* nothing more comes of the call.
Callback(call) ==
  LET back == call.awaits /\ ~exited /\ ~call.null
  IN /\ call.st = "served"
     /\ calls' = IF back THEN Forgotten(call)
                 ELSE Becomes(call, [call EXCEPT !.st = "dropped"])
     /\ held' = IF back THEN held \cup Handed(call) ELSE held
     /\ UNCHANGED <<exited, sysVars>>

GojsRun == \E call \in Pending : Serving(call) \/ Callback(call)
GojsBegin == (\E r \in Requests : Request(r)) \/ WasmWrite \/ WasmExit
=============================================================================
