---------------------------- MODULE RuntimeProofs ----------------------------
(***************************************************************************)
(* What holds of the parts of the runtime for any of their constants: the  *)
(* call buffer of the WASI guest, the calls of the Go worker on the        *)
(* kernel's table of open files, the positions the WASI guest keeps of its *)
(* own, and the table of JavaScript values.                                *)
(*                                                                         *)
(* Each has an invariant of its own.  Of the call buffer it says where the *)
(* one outstanding call may be; of the Go worker, what a call that was     *)
(* served has come to and that descriptors only count up; of the WASI      *)
(* guest, that a file opened once has one descriptor and one handle, and   *)
(* that the kernel is ahead of its position by the answer on its way; of   *)
(* the values, how the columns of the table and the references the program *)
(* holds go together.                                                      *)
(***************************************************************************)
EXTENDS Workers, JsValues, FiniteSetTheorems, TLAPS

(***************************************************************************)
(* The call buffer.                                                        *)
(***************************************************************************)

\* Only the guest's own call is anywhere on the way, and only while it waits
\* for it with the word down.
OneCall ==
  /\ mail \cup serving \cup stored \subseteq {tag}
  /\ mail \cup serving \cup stored # {} => waiting /\ flag = 0
  /\ mail \cap serving = {} /\ mail \cap stored = {} /\ serving \cap stored = {}

\* What is stored or announced is the answer to the guest's call.
Announced ==
  /\ stored # {} => cell = tag
  /\ waiting /\ flag = 1 => cell = tag

BufferInv == BufferTypeOK /\ OneCall /\ Announced /\ GuestGoesOn

\* The invariant holds at the start.
LEMMA BufferStarts == BufferInit => BufferInv
BY DEF BufferInit, BufferInv, BufferTypeOK, OneCall, Announced, GuestGoesOn

\* Every step keeps it.
LEMMA BufferStep == BufferInv /\ [BufferNext]_bufferVars => BufferInv'
<1> SUFFICES ASSUME BufferInv, [BufferNext]_bufferVars PROVE BufferInv'
  OBVIOUS
<1> USE DEF BufferInv, BufferTypeOK, OneCall, Announced, GuestGoesOn
<1>1. CASE Call
  BY <1>1 DEF Call
<1>2. CASE Wake
  <2>1. flag # 0 /\ waiting' = FALSE
    BY <1>2 DEF Wake
  <2>2. mail \cup serving \cup stored = {}
    BY <2>1
  <2>3. UNCHANGED <<tag, mail, serving, stored, flag, cell, lost>>
    BY <1>2 DEF Wake
  <2>4. BufferTypeOK'
    BY <2>1, <2>3
  <2>5. OneCall' /\ Announced' /\ GuestGoesOn'
    BY <2>1, <2>2, <2>3, Zenon
  <2> QED BY <2>4, <2>5
<1>3. ASSUME NEW t \in Tags, NEW succeeds \in BOOLEAN, Serve(t, succeeds)
      PROVE BufferInv'
  <2>1. CASE succeeds
    BY <1>3, <2>1 DEF Serve
  <2>2. CASE ~succeeds
    BY <1>3, <2>2 DEF Serve
  <2> QED BY <2>1, <2>2
<1>4. ASSUME NEW t \in Tags, StoreAnswer(t) PROVE BufferInv'
  BY <1>4 DEF StoreAnswer
<1>5. ASSUME NEW t \in Tags, RaiseFlag(t) PROVE BufferInv'
  BY <1>5 DEF RaiseFlag
<1>6. ASSUME NEW t \in Tags, AnswerThrows(t) PROVE BufferInv'
  BY <1>6 DEF AnswerThrows
<1>7. CASE UNCHANGED bufferVars
  BY <1>7 DEF bufferVars
<1> QED BY <1>1, <1>2, <1>3, <1>4, <1>5, <1>6, <1>7 DEF BufferNext

\* Together: the invariant always holds.
LEMMA BufferAlways == BufferSpec => []BufferInv
BY BufferStarts, BufferStep, PTL DEF BufferSpec

\* The guest decodes the answer to its own call, whatever the tags are.
THEOREM AnswersMatch == BufferSpec => []AnswerIsMine
<1>1. BufferInv => AnswerIsMine
  BY DEF BufferInv, OneCall, Announced, AnswerIsMine
<1> QED BY BufferAlways, <1>1, PTL

\* A sleeping guest is answered unless its call was refused or the answer does
\* not fit.
THEOREM NoLostCall == BufferSpec => []GuestGoesOn
<1>1. BufferInv => GuestGoesOn
  BY DEF BufferInv
<1> QED BY BufferAlways, <1>1, PTL

(***************************************************************************)
(* The Go worker's calls.                                                  *)
(***************************************************************************)

\* An open file keeps the descriptor it was opened by, and none was given
\* twice: descriptors count up.
TableOK(tb) ==
  /\ DOMAIN tb = {"fds", "fdCounter"}
  /\ tb.fdCounter \in Nat
  /\ \A fd \in DOMAIN tb.fds :
       /\ fd \in Nat /\ fd <= tb.fdCounter
       /\ DOMAIN tb.fds[fd] = {"born", "kind", "off", "path"}
       /\ tb.fds[fd].born = fd

FileMethods == {"read", "write", "close", "fchmod", "fchown", "fstat", "ftruncate"}
PathMethods == {"chmod", "chown", "chtimes", "lstat", "makeDir", "openFile", "readDir",
                "rename", "remove", "stat", "truncate", "removeAll", "exit"}

\* What a call may come to.
LEMMA OutcomeShape ==
  ASSUME NEW w \in Workers, NEW c, NEW out \in Outcomes(w, c), TableOK(table[w]),
         c.m \in FileMethods \cup PathMethods, c.n \in Nat
  PROVE  /\ TableOK(out.table)
         /\ out.ok \in BOOLEAN
         /\ ~out.ok => out.v # ""
         /\ c.m = "openFile" /\ out.ok => out.v = out.hit
         /\ c.m \in FileMethods /\ out.ok => out.hit = c.fd
<1> DEFINE Shape(o) ==
         /\ TableOK(o.table)
         /\ o.ok \in BOOLEAN
         /\ ~o.ok => o.v # ""
         /\ c.m = "openFile" /\ o.ok => o.v = o.hit
         /\ c.m \in FileMethods /\ o.ok => o.hit = c.fd
<1>r. ASSUME NEW e \in {"ENOENT", "EINVAL", "other", "EEXIST"} PROVE Shape(Refused(e, w))
  BY DEF Refused
<1>k. ASSUME NEW v, NEW tr, c.m \notin FileMethods \cup {"openFile"}
      PROVE Shape(Outcome(v, tr, table[w]))
  BY <1>k DEF Outcome
<1>g. ASSUME NEW p, NEW tr, NEW kind, c.m \notin FileMethods
      PROVE Shape(Given(w, p, tr, kind))
  <2>1. /\ Given(w, p, tr, kind).ok = TRUE
        /\ Given(w, p, tr, kind).v = Given(w, p, tr, kind).hit
        /\ Given(w, p, tr, kind).table = WithOpen(table[w], p, kind)
    BY DEF Given, Outcome, NextFd
  <2>2. TableOK(WithOpen(table[w], p, kind))
    BY DEF WithOpen, TableOK, NextFd
  <2> QED BY <2>1, <2>2, <1>g
<1>f. ASSUME NEW v, NEW k \in Nat, c.m \in FileMethods PROVE Shape(OnFile(w, c.fd, v, k))
  <2>1. CASE c.fd \notin DOMAIN table[w].fds \/ table[w].fds[c.fd].kind = "dir"
    BY <2>1, <1>r DEF OnFile
  <2>2. CASE ~(c.fd \notin DOMAIN table[w].fds \/ table[w].fds[c.fd].kind = "dir")
    <3> DEFINE tb == [table[w] EXCEPT !.fds[c.fd].off = @ + k]
    <3>1. TableOK(tb)
      BY <2>2 DEF TableOK
    <3>2. OnFile(w, c.fd, v, k) = [Outcome(v, tree, tb) EXCEPT !.hit = table[w].fds[c.fd].born]
      BY <2>2 DEF OnFile
    <3>3. table[w].fds[c.fd].born = c.fd
      BY <2>2 DEF TableOK
    <3> HIDE DEF tb
    <3> QED BY <3>1, <3>2, <3>3, <1>f DEF Outcome, FileMethods
  <2> QED BY <2>1, <2>2
<1>c. ASSUME c.m \in FileMethods PROVE Shape(Close(w, c.fd))
  <2>1. CASE c.fd \notin DOMAIN table[w].fds
    BY <2>1, <1>r DEF Close
  <2>2. CASE c.fd \in DOMAIN table[w].fds
    <3> DEFINE tb == [table[w] EXCEPT !.fds = [x \in DOMAIN @ \ {c.fd} |-> @[x]]]
    <3>1. TableOK(tb)
      BY <2>2 DEF TableOK
    <3>2. Close(w, c.fd) = [Outcome(TRUE, tree, tb) EXCEPT !.hit = table[w].fds[c.fd].born]
      BY <2>2 DEF Close
    <3>3. table[w].fds[c.fd].born = c.fd
      BY <2>2 DEF TableOK
    <3> HIDE DEF tb
    <3> QED BY <3>1, <3>2, <3>3, <1>c DEF Outcome, FileMethods
  <2> QED BY <2>1, <2>2
<1>p. ASSUME c.m \in FileMethods PROVE Shape(OnPathOf(w, c.fd)) /\ Shape(Fstat(w, c.fd))
  <2>1. CASE c.fd \notin DOMAIN table[w].fds
    BY <2>1, <1>r DEF OnPathOf, Fstat
  <2>2. CASE c.fd \in DOMAIN table[w].fds
    <3>1. table[w].fds[c.fd].born = c.fd
      BY <2>2 DEF TableOK
    <3> QED BY <2>2, <3>1, <1>p DEF OnPathOf, OnNode, Fstat, Outcome, Refused, FileMethods
  <2> QED BY <2>1, <2>2
<1>o. ASSUME NEW p, NEW fl, c.m \notin FileMethods PROVE Shape(OpenFile(w, p, fl))
  BY <1>r, <1>g, <1>o DEF OpenFile, Open
<1>n. ASSUME NEW p, NEW q, c.m \notin FileMethods \cup {"openFile"}
      PROVE /\ Shape(Mkdir(w, p)) /\ Shape(RemoveNode(w, p)) /\ Shape(RemoveAll(w, p))
            /\ Shape(Rename(w, p, q)) /\ Shape(ReadDir(w, p)) /\ Shape(Stat(w, p))
            /\ Shape(OnNode(w, p))
  BY <1>r, <1>k, <1>n
     DEF Mkdir, RemoveNode, RemoveAll, Rename, ReadDir, Stat, OnNode
<1> HIDE DEF Shape
<1> SUFFICES Shape(out)
  BY DEF Shape
<1>1. CASE c.m \in {"read", "write", "close", "fchmod", "fchown", "fstat", "ftruncate"}
  <2>1. \/ \E k \in 0..c.n : out = OnFile(w, c.fd, k, k)
        \/ out = OnFile(w, c.fd, c.n, c.n)
        \/ out = Close(w, c.fd) \/ out = OnPathOf(w, c.fd) \/ out = Fstat(w, c.fd)
    BY <1>1 DEF Outcomes
  <2> QED BY <2>1, <1>1, <1>f, <1>c, <1>p DEF FileMethods
<1>2. CASE c.m = "openFile"
  BY <1>2, <1>o DEF Outcomes, FileMethods
<1>3. CASE c.m \in PathMethods \ {"openFile"}
  <2>1. c.m \notin FileMethods \cup {"openFile"}
    BY <1>3 DEF FileMethods, PathMethods
  <2>2. \/ out = Mkdir(w, c.path) \/ out = RemoveNode(w, c.path) \/ out = RemoveAll(w, c.path)
        \/ out = Rename(w, c.path, c.to) \/ out = ReadDir(w, c.path) \/ out = Stat(w, c.path)
        \/ out = OnNode(w, c.path) \/ out = Outcome(TRUE, tree, table[w])
    BY <1>3 DEF Outcomes, PathMethods
  <2> QED BY <2>1, <2>2, <1>n, <1>k
<1> QED BY <1>1, <1>2, <1>3 DEF FileMethods, PathMethods

\* A call on its way names the open its descriptor came from; an answer names
\* the open it reached; a call is given up only for the reasons errback has.
CallOK(call) ==
  /\ DOMAIN call = {"c", "awaits", "born", "st", "err", "fd", "null", "hit"}
  /\ call.c.m \in FileMethods \cup PathMethods /\ call.c.n \in Nat
  /\ call.st \in {"sent", "served", "dropped"}
  /\ call.born # 0 => call.c.m \in FileMethods /\ call.c.fd = call.born
  /\ call.st # "sent" =>
       /\ call.err = "" /\ call.born # 0 => call.hit = call.born
       /\ call.fd # 0 => call.fd = call.hit
  /\ call.st = "dropped" /\ call.awaits => exited \/ call.null

GojsInv ==
  /\ exited \in BOOLEAN
  /\ DOMAIN table = Workers
  /\ TableOK(table["gojs"])
  /\ \A h \in held : h.fd = h.born
  /\ \A call \in Pending : CallOK(call)

\* Adding and replacing calls in the bag.
LEMMA BagMembers ==
  ASSUME NEW call, NEW next
  PROVE  /\ BagToSet(Sent(call)) = Pending \cup {call}
         /\ BagToSet(Forgotten(call)) \subseteq Pending
         /\ BagToSet(Becomes(call, next)) \subseteq Pending \cup {next}
BY DEF Sent, Forgotten, Becomes, Pending, BagToSet, SetToBag, (+), (-)

\* At the start nothing is called and the table holds the standard streams.
LEMMA GojsStarts == Init => GojsInv
<1> SUFFICES ASSUME Init PROVE GojsInv
  OBVIOUS
<1>1. Pending = {} /\ held = {} /\ exited = FALSE
  BY DEF Init, GojsInit, Pending, EmptyBag, BagToSet, SetToBag
<1>2. /\ DOMAIN table = Workers
      /\ table["gojs"] = [fds |-> [fd \in 4..6 |-> [born |-> fd, kind |-> "file", off |-> 0,
                                                   path |-> <<>>]], fdCounter |-> 6]
  BY DEF Init, SysInit, Workers
<1>3. TableOK(table["gojs"])
  BY <1>2 DEF TableOK
<1> QED BY <1>1, <1>2, <1>3 DEF GojsInv

\* The program makes a call, on a path or on a descriptor it holds.
LEMMA RequestStep ==
  ASSUME GojsInv, NEW r \in Requests, Request(r)
  PROVE  GojsInv'
<1>1. r \in Calls
  BY RequestsAssumption
<1>2. ASSUME NEW names \in {AttributeMethod, PathMethod}, r.m \in DOMAIN names,
             calls' = Sent(Posted([r EXCEPT !.m = names[@]], TRUE, 0))
      PROVE  GojsInv'
  <2> DEFINE c == [r EXCEPT !.m = names[@]]
             call == Posted(c, TRUE, 0)
  <2>1. c.m \in PathMethods /\ c.n \in Nat
    BY <1>1, <1>2 DEF AttributeMethod, PathMethod, PathMethods, Calls
  <2> HIDE DEF c
  <2>2. CallOK(call) /\ call.st = "sent"
    BY <2>1 DEF CallOK, Posted
  <2> HIDE DEF call
  <2>3. Pending' = Pending \cup {call}
    BY <1>2, BagMembers DEF Pending, c, call
  <2>4. UNCHANGED <<held, exited, sysVars>>
    BY DEF Request
  <2> QED BY <2>2, <2>3, <2>4 DEF GojsInv, CallOK, sysVars
<1>3. ASSUME r.m \in DOMAIN FileMethod, NEW h \in held,
             calls' = Sent(Posted([r EXCEPT !.m = FileMethod[@], !.fd = h.fd], TRUE, h.born))
      PROVE  GojsInv'
  <2> DEFINE c == [r EXCEPT !.m = FileMethod[@], !.fd = h.fd]
             call == Posted(c, TRUE, h.born)
  <2>1. c.m \in FileMethods /\ c.n \in Nat /\ c.fd = h.born
    BY <1>1, <1>3 DEF FileMethod, FileMethods, Calls, GojsInv
  <2> HIDE DEF c
  <2>2. CallOK(call) /\ call.st = "sent"
    BY <2>1 DEF CallOK, Posted
  <2> HIDE DEF call
  <2>3. Pending' = Pending \cup {call}
    BY <1>3, BagMembers DEF Pending, c, call
  <2>4. UNCHANGED <<held, exited, sysVars>>
    BY DEF Request
  <2> QED BY <2>2, <2>3, <2>4 DEF GojsInv, CallOK, sysVars
<1> QED BY <1>2, <1>3 DEF Request

\* Output and calls the worker answers itself are no calls on an open file.
LEMMA OutputStep ==
  ASSUME GojsInv, WasmWrite \/ WasmExit
  PROVE  GojsInv'
<1> DEFINE w == Posted([NoCall EXCEPT !.m = "write", !.fd = 5, !.n = 1], FALSE, 5)
           e == Posted([NoCall EXCEPT !.m = "exit"], FALSE, 0)
<1>1. CallOK(w) /\ CallOK(w)' /\ CallOK(e) /\ CallOK(e)'
  BY DEF CallOK, Posted, NoCall, Calls, FileMethods, PathMethods
<1>2. \E c \in {w, e} : Pending' = Pending \cup {c}
  BY BagMembers DEF WasmWrite, WasmExit, Pending
<1> HIDE DEF w, e
<1>3. UNCHANGED <<held, sysVars>> /\ exited' \in BOOLEAN /\ (exited => exited')
  BY DEF WasmWrite, WasmExit, GojsInv
<1>4. table' = table
  BY <1>3 DEF sysVars
<1>5. \A call \in Pending : CallOK(call)'
  BY <1>3 DEF GojsInv, CallOK
<1> HIDE DEF CallOK
<1>6. \A call \in Pending' : CallOK(call)'
  BY <1>1, <1>2, <1>5
<1> QED BY <1>3, <1>4, <1>6 DEF GojsInv

\* The kernel carries a call out, or the worker drops it with its error.
LEMMA ServingStep ==
  ASSUME GojsInv, NEW call \in Pending, Serving(call)
  PROVE  GojsInv'
<1>1. CallOK(call) /\ call.st = "sent"
  BY DEF GojsInv, Serving
<1>2. PICK out \in Outcomes("gojs", call.c) :
        SysCall("gojs", out) /\ calls' = Becomes(call, Answered(call, out))
  BY DEF Serving
<1>3. /\ TableOK(out.table)
      /\ out.ok \in BOOLEAN
      /\ ~out.ok => out.v # ""
      /\ call.c.m = "openFile" /\ out.ok => out.v = out.hit
      /\ call.c.m \in FileMethods /\ out.ok => out.hit = call.c.fd
  BY <1>1, <1>2, OutcomeShape DEF GojsInv, CallOK, Calls, Workers
<1> DEFINE next == Answered(call, out)
<1>4. CallOK(next) /\ next.st = "served"
  BY <1>1, <1>3 DEF CallOK, Answered
<1>5. Pending' \subseteq Pending \cup {next}
  BY <1>2, BagMembers DEF Pending
<1> HIDE DEF next
<1>6. UNCHANGED <<held, exited>>
  BY DEF Serving
<1>7. DOMAIN table' = Workers /\ TableOK(table["gojs"])'
  BY <1>2, <1>3 DEF SysCall, GojsInv, Workers
<1> QED BY <1>4, <1>5, <1>6, <1>7 DEF GojsInv, CallOK

\* The callback is called: what it hands to the program is the descriptor the
\* call was answered with.
LEMMA CallbackStep ==
  ASSUME GojsInv, NEW call \in Pending, Callback(call)
  PROVE  GojsInv'
<1> DEFINE back == call.awaits /\ ~exited /\ ~call.null
           next == [call EXCEPT !.st = "dropped"]
<1>1. CallOK(call) /\ call.st = "served"
  BY DEF GojsInv, Callback
<1>2. UNCHANGED <<exited, sysVars>>
  BY DEF Callback
<1>3. CASE back
  <2>1. Pending' \subseteq Pending /\ held' = held \cup Handed(call)
    BY <1>3, BagMembers DEF Callback, Pending
  <2>2. \A h \in Handed(call) : h.fd = h.born
    <3>1. call.fd # 0 => call.fd = call.hit
      BY <1>1 DEF CallOK
    <3> QED BY <3>1 DEF Handed
  <2>3. \A h \in held' : h.fd = h.born
    BY <2>1, <2>2 DEF GojsInv
  <2> QED BY <1>2, <2>1, <2>3 DEF GojsInv, CallOK, sysVars
<1>4. CASE ~back
  <2>1. Pending' \subseteq Pending \cup {next} /\ held' = held
    BY <1>4, BagMembers DEF Callback, Pending
  <2>2. CallOK(next)
    BY <1>1, <1>4 DEF CallOK
  <2> HIDE DEF next
  <2> QED BY <1>2, <2>1, <2>2 DEF GojsInv, CallOK, sysVars
<1> QED BY <1>3, <1>4

\* The WASI task's own steps leave the kernel alone; its calls go to its own
\* table.
LEMMA WasiApart ==
  ASSUME GojsInv, WasiBegin \/ WasiRun
  PROVE  DOMAIN table' = Workers /\ table'["gojs"] = table["gojs"]
<1>1. CASE HandleMessage
  <2>1. PICK out : SysCall("wasi", out)
    BY <1>1 DEF HandleMessage
  <2> QED BY <2>1 DEF SysCall, GojsInv, Workers
<1>2. CASE WasiBegin \/ Respond
  BY <1>2 DEF WasiBegin, Begin, Refuse, Respond, Locally, Continue, GojsInv, sysVars
<1>3. CASE WasiWoken
  BY <1>3 DEF WasiWoken, Sized, ListingRead, Made, DirectoryOpened, Cut, FileOpened, AtEnd,
     EmptyKnown, Removed, Read, Written, Resized, Exited, Continue, GojsInv, sysVars
<1>4. CASE WasiLocal
  BY <1>4 DEF WasiLocal, SizeOne, ListingKept, ReadListing, Astray, StatAt, OpenAt, Make,
     OpenEntry, OpenCut, SeekEnd, UnlinkAt, RmdirAt, RemoveEntry, RenameAt, LinkAt, LinkOver,
     Relink, ReadAt, WriteAt, Seek, Flush, FdStat, Allocate, SetSize, LargeEnough, ReadDirAt,
     CloseFd, Renumber, Exit, AskPath, AskFile, Ask, Trap, Locally, Continue, GojsInv, sysVars
<1> QED BY <1>1, <1>2, <1>3, <1>4 DEF WasiRun

\* Every step keeps the invariant; those of the WASI guest touch nothing of it.
LEMMA GojsStep == GojsInv /\ [Next]_vars => GojsInv'
<1> SUFFICES ASSUME GojsInv, [Next]_vars PROVE GojsInv'
  OBVIOUS
<1>1. CASE UNCHANGED <<table, gojsVars>>
  BY <1>1 DEF GojsInv, gojsVars, Pending, CallOK
<1>2. CASE UNCHANGED vars
  BY <1>1, <1>2 DEF vars, sysVars
<1>3. CASE (WasiBegin \/ WasiRun) /\ UNCHANGED gojsVars
  BY <1>3, WasiApart DEF GojsInv, gojsVars, Pending, CallOK
<1>4. CASE GojsBegin
  BY <1>4, RequestStep, OutputStep DEF GojsBegin
<1>5. CASE GojsRun
  BY <1>5, ServingStep, CallbackStep DEF GojsRun
<1> QED BY <1>2, <1>3, <1>4, <1>5 DEF Next

\* Together: the invariant always holds.
LEMMA GojsAlways == Spec => []GojsInv
BY GojsStarts, GojsStep, PTL DEF Spec

\* CallsComeBack: a call of the Go program that is dropped without its callback
\* listed an empty directory, or the program is gone, for any requests and paths.
THEOREM CallsReturn == Spec => []CallsComeBack
<1>1. GojsInv => CallsComeBack
  BY DEF GojsInv, CallOK, CallsComeBack
<1> QED BY GojsAlways, <1>1, PTL

\* StaleFdFails: a call on a descriptor reaches the file that descriptor was
\* opened for or is refused, for any number of calls served in any order, since
\* descriptors only count up.
THEOREM StaleRefused == Spec => []StaleFdFails
<1>1. GojsInv => StaleFdFails
  BY DEF GojsInv, CallOK, StaleFdFails
<1> QED BY GojsAlways, <1>1, PTL

(***************************************************************************)
(* The WASI guest's positions.                                             *)
(***************************************************************************)

\* The answer to the guest's call is on its way back.
Answering == waiting /\ (serving \cup stored # {} \/ flag = 1)

\* What the guest opened stays open, at some offset.
WasiTable ==
  /\ DOMAIN table = Workers
  /\ TableOK(table["wasi"])
  /\ \A fd \in DOMAIN table["wasi"].fds : table["wasi"].fds[fd].off \in Nat

\* Directories name objects that exist; files are nothing but files.
InodeOK(x, last) ==
  \/ /\ x.kind = "dir" /\ DOMAIN x = {"kind", "path", "known", "entries"}
     /\ \A n \in DOMAIN x.entries : x.entries[n] \in 1..last
  \/ x.kind = "file" /\ DOMAIN x = {"kind", "path", "kfd", "opens"} /\ x.opens \in Nat
InodesOK(os) == os \in Seq(Range(os)) /\ \A o \in 1..Len(os) : InodeOK(os[o], Len(os))

\* A descriptor has the kind of its object.
Descriptors ==
  [kind : {"file", "dir", "closed"}, ob : Nat \ {0}, pos : Nat, plain : BOOLEAN]
FdsOK(ds, os) ==
  /\ ds \in Seq(Descriptors)
  /\ \A f \in 1..Len(ds) : ds[f].ob \in 1..Len(os) /\ ds[f].kind \in {"closed", os[ds[f].ob].kind}

\* What an operation has come to.
FrameOK(f, os, ds) ==
  /\ DOMAIN f = DOMAIN Idle
  /\ f.do \in Operations \cup {NoOperation}
  /\ f.ent \in 0..Len(os)
  /\ f.then \in {"end", "remove", "extend", "relink"}
  /\ f.phase # "idle" /\ f.do.op # "exit" => f.do.fd \in 1..Len(ds)
  /\ f.do.op = "exit" => f.phase \in {"fd", "exiting"}
  /\ f.phase # "idle" /\ f.do.op \in {"read", "write"} => ds[f.do.fd].kind = "file"
  /\ f.phase # "idle" /\ f.do.op \in PathOperations => ds[f.do.fd].kind = "dir"
  /\ f.phase \in {"walk", "listing"} => f.cur \in 1..Len(os) /\ os[f.cur].kind = "dir"
  /\ f.phase = "relink" \/ (f.phase \in {"sizes", "sized"} /\ f.then = "relink") =>
       f.do.op = "rename"
  /\ f.phase = "reading" => f.do.op = "read"
  /\ f.phase = "writing" => f.do.op = "write"
  /\ f.phase \in {"entry", "opendir", "opening", "cut", "cutopen", "append", "atend"} =>
       f.ent # 0
  /\ f.phase \in {"opening", "cut", "cutopen", "append", "atend"} =>
       os[f.ent].kind = "file"
  /\ f.phase = "opendir" => os[f.ent].kind = "dir"
  /\ f.phase \in {"append", "atend"} => os[f.ent].opens > 0 /\ "append" \in f.do.flags

\* The call on its way is that of the phase.
AskedOK ==
  waiting =>
    /\ DOMAIN request = DOMAIN NoCall
    /\ request.m \in DOMAIN Handler
    /\ request.m = "fd_read" <=> frame.phase = "reading"
    /\ request.m = "fd_write" <=> frame.phase = "writing"
    /\ request.m = "path_open" <=> frame.phase = "opening"
    /\ frame.phase \in {"listing", "opendir", "emptying"} => request.m = "path_readdir"
    /\ frame.phase \in {"reading", "writing"} =>
         request.fd = objs[Opened.ob].kfd /\ request.n = frame.do.n

\* No two files have one handle of the kernel.
HasHandle(x) == x.kind = "file" /\ x.opens > 0
OwnHandle ==
  /\ \A o \in 1..Len(objs) : HasHandle(objs[o]) => objs[o].kfd \in DOMAIN table["wasi"].fds
  /\ \A o, p \in 1..Len(objs) :
       HasHandle(objs[o]) /\ HasHandle(objs[p]) /\ objs[o].kfd = objs[p].kfd => o = p

\* An answer is one to the call: a new handle, a listing, a number of bytes.
AnswerOK ==
  Answering =>
    /\ frame.phase = "opening" =>
         /\ answer \in DOMAIN table["wasi"].fds /\ table["wasi"].fds[answer].off = 0
         /\ \A o \in 1..Len(objs) : HasHandle(objs[o]) => objs[o].kfd # answer
    /\ frame.phase \in {"listing", "opendir", "emptying"} => IsFiniteSet(answer)
    /\ frame.phase \in {"reading", "writing"} => answer \in Nat
    /\ frame.phase = "reading" /\ frame.do.n <= MaxData => answer <= MaxData

\* A file opened once has one descriptor.
Shows(d, o) == d.kind = "file" /\ d.ob = o
OneEach ==
  \A o \in 1..Len(objs) : objs[o].kind = "file" =>
    /\ objs[o].opens <= 1 =>
         \A f, g \in 1..Len(fds) : Shows(fds[f], o) /\ Shows(fds[g], o) => f = g
    /\ objs[o].opens = 0 => \A f \in 1..Len(fds) : ~Shows(fds[f], o)
    /\ frame.phase \in {"append", "atend"} /\ frame.ent = o /\ objs[o].opens = 1 =>
         \A f \in 1..Len(fds) : ~Shows(fds[f], o)

\* The kernel is ahead of the shim by the answer that is on its way.
Moving(f) == Answering /\ frame.phase \in {"reading", "writing"} /\ f = frame.do.fd
Agree(f) ==
  ~(Moving(f) /\ frame.phase = "reading" /\ frame.do.n > MaxData) =>
    table["wasi"].fds[objs[fds[f].ob].kfd].off
      = fds[f].pos + (IF Moving(f) THEN answer ELSE 0)
InStep ==
  \A f \in 1..Len(fds) :
    fds[f].kind = "file" /\ fds[f].plain /\ objs[fds[f].ob].opens = 1 => Agree(f)

WasiInv ==
  /\ BufferInv /\ WasiTable /\ InodesOK(objs) /\ FdsOK(fds, objs) /\ FrameOK(frame, objs, fds)
  /\ AskedOK /\ OwnHandle /\ AnswerOK /\ OneEach /\ InStep

\* Any sequence at all: how Append, \o and EXCEPT change it.
LEMMA SeqAny ==
  ASSUME NEW S, NEW s \in Seq(S)
  PROVE  s \in Seq(Range(s))
<1>1. PICK n \in Nat : n = Len(s)
  OBVIOUS
<1>2. s \in [1..n -> S]
  BY <1>1
<1>3. s \in [1..n -> Range(s)]
  BY <1>2 DEF Range
<1> QED BY <1>3

\* A function on 1..n is a sequence of n elements.
LEMMA FunctionSeq ==
  ASSUME NEW n \in Nat, NEW s, s = [i \in 1..n |-> s[i]]
  PROVE  s \in Seq(Range(s)) /\ Len(s) = n
<1>1. s \in [1..n -> Range(s)]
  BY DEF Range
<1> QED BY <1>1

\* One more element leaves the others where they are.
LEMMA AppendAny ==
  ASSUME NEW s, s \in Seq(Range(s)), NEW x
  PROVE  /\ Append(s, x) \in Seq(Range(Append(s, x)))
         /\ Len(Append(s, x)) = Len(s) + 1
         /\ \A i \in 1..Len(s) : Append(s, x)[i] = s[i]
         /\ Append(s, x)[Len(s) + 1] = x
<1> DEFINE S == Range(s) \cup {x}  t == Append(s, x)
<1>1. s \in Seq(S) /\ x \in S
  OBVIOUS
<1>2. t \in Seq(S) /\ Len(t) = Len(s) + 1 /\ Len(s) \in Nat
  BY <1>1
<1>4. t \in Seq(Range(t))
  BY <1>2, SeqAny
<1> QED BY <1>1, <1>2, <1>4

\* So does one sequence after the other.
Concatenated(t, s, r) ==
  /\ t \in Seq(Range(t)) /\ Len(t) = Len(s) + Len(r)
  /\ \A i \in 1..Len(s) : t[i] = s[i]
  /\ \A i \in 1..Len(r) : t[Len(s) + i] = r[i]
LEMMA ConcatAny ==
  ASSUME NEW s, s \in Seq(Range(s)), NEW r, r \in Seq(Range(r))
  PROVE  Concatenated(s \o r, s, r)
<1> DEFINE S == Range(s) \cup Range(r)  t == s \o r
<1>1. s \in Seq(S) /\ r \in Seq(S)
  OBVIOUS
<1>2. t \in Seq(S) /\ Len(t) = Len(s) + Len(r) /\ Len(s) \in Nat /\ Len(r) \in Nat
  BY <1>1
<1>4. t \in Seq(Range(t))
  BY <1>2, SeqAny
<1> QED BY <1>1, <1>2, <1>4 DEF Concatenated

\* A finite set as a sequence of all its elements.
LEMMA SetToSeqAll ==
  ASSUME NEW S, IsFiniteSet(S)
  PROVE  /\ SetToSeq(S) \in Seq(S)
         /\ \A x \in S : \E i \in 1..Len(SetToSeq(S)) : SetToSeq(S)[i] = x
<1>1. PICK n \in Nat : n = Cardinality(S)
  BY FS_CardinalityType
<1>2. ExistsBijection(1..n, S)
  BY <1>1, FS_CardinalityType
<1>3. \E f \in [1..n -> S] : IsInjective(f)
  BY <1>2 DEF ExistsBijection, Bijection, Injection
<1>4. SetToSeq(S) \in [1..n -> S] /\ IsInjective(SetToSeq(S))
  BY <1>1, <1>3 DEF SetToSeq
<1>5. Cardinality(1..n) = n /\ IsFiniteSet(1..n)
  BY FS_Interval
<1>6. SetToSeq(S) \in Surjection(1..n, S)
  BY <1>1, <1>4, <1>5, FS_Injection DEF Injection
<1>7. SetToSeq(S) \in Seq(S) /\ Len(SetToSeq(S)) = n
  BY <1>4
<1> QED BY <1>6, <1>7 DEF Surjection

\* The objects os follow those there are: no file of these is another for it.
Grown(os) ==
  /\ InodesOK(os) /\ Len(objs) <= Len(os)
  /\ \A o \in 1..Len(objs) : os[o].kind = objs[o].kind
  /\ \A o \in 1..Len(objs) : objs[o].kind = "file" =>
       os[o].kfd = objs[o].kfd /\ os[o].opens = objs[o].opens
  /\ \A o \in Len(objs) + 1..Len(os) : os[o].kind = "file" => os[o].opens = 0

\* What a new object is, and one whose entries are set.
LEMMA NewInodeOK ==
  ASSUME NEW p, NEW kind, NEW last
  PROVE  /\ InodeOK(NewInode(p, kind), last)
         /\ NewInode(p, kind).kind = "file" => NewInode(p, kind).opens = 0
BY DEF NewInode, InodeOK

Sets(z, x, E) == z = [x EXCEPT !.entries = E] \/ z = [x EXCEPT !.known = TRUE, !.entries = E]
\* An object whose entries are set stays what it was.
LEMMA EntriesSet ==
  ASSUME NEW next, NEW x, InodeOK(x, next), NEW E,
         x.kind = "dir" => \A n \in DOMAIN E : E[n] \in 1..next,
         NEW z, Sets(z, x, E)
  PROVE  /\ InodeOK(z, next) /\ z.kind = x.kind
         /\ x.kind = "file" => z.kfd = x.kfd /\ z.opens = x.opens
<1>1. CASE x.kind = "file"
  <2>1. DOMAIN x = {"kind", "path", "kfd", "opens"} /\ x.opens \in Nat
    BY <1>1 DEF InodeOK
  <2>2. DOMAIN z = {"kind", "path", "kfd", "opens"} /\ z.kfd = x.kfd /\ z.opens = x.opens
        /\ z.kind = "file"
    BY <1>1, <2>1 DEF Sets
  <2> QED BY <1>1, <2>1, <2>2 DEF InodeOK
<1>2. CASE x.kind # "file"
  <2>1. x.kind = "dir" /\ DOMAIN x = {"kind", "path", "known", "entries"}
    BY <1>2 DEF InodeOK
  <2>2. DOMAIN z = {"kind", "path", "known", "entries"} /\ z.entries = E /\ z.kind = "dir"
    BY <2>1 DEF Sets
  <2> QED BY <2>1, <2>2 DEF InodeOK
<1> QED BY <1>1, <1>2

\* An object may name more of them.
LEMMA InodeLater ==
  ASSUME NEW last \in Nat, NEW next \in Nat, last <= next, NEW x, InodeOK(x, last)
  PROVE  InodeOK(x, next)
BY DEF InodeOK

\* The objects as they are follow themselves.
LEMMA SameGrown == InodesOK(objs) => Grown(objs)
BY DEF Grown, InodesOK

\* Setting the entries of an object and adding new objects at the end.
SetIn(os, o, E) ==
  /\ os \in Seq(Range(os)) /\ Len(os) = Len(objs)
  /\ \A i \in 1..Len(objs) : IF i = o THEN Sets(os[i], objs[i], E) ELSE os[i] = objs[i]
AllNew(new) ==
  new \in Seq(Range(new)) /\ \A i \in 1..Len(new) : \E p, kind : new[i] = NewInode(p, kind)
EntriesIn(o, E, last) ==
  o \in 1..Len(objs) /\ objs[o].kind = "dir" => \A n \in DOMAIN E : E[n] \in 1..last

\* Setting the entries by EXCEPT is setting them in this sense.
LEMMA ExceptSets ==
  ASSUME InodesOK(objs), NEW o, NEW E,
         NEW os, \/ os = [objs EXCEPT ![o].entries = E]
                 \/ os = [objs EXCEPT ![o].known = TRUE, ![o].entries = E]
  PROVE  SetIn(os, o, E)
<1>1. objs \in Seq(Range(objs)) /\ Len(objs) \in Nat /\ DOMAIN objs = 1..Len(objs)
  BY DEF InodesOK
<1>2. os = [i \in 1..Len(objs) |-> os[i]]
  BY <1>1
<1>3. os \in Seq(Range(os)) /\ Len(os) = Len(objs)
  BY <1>1, <1>2, FunctionSeq
<1> QED BY <1>1, <1>3 DEF Sets, SetIn

\* Objects with other entries, and new ones after them, follow those there are.
LEMMA SetGrown ==
  ASSUME InodesOK(objs), NEW o, NEW E, NEW new, AllNew(new),
         EntriesIn(o, E, Len(objs) + Len(new)), NEW os, SetIn(os, o, E)
  PROVE  Grown(os \o new)
<1>1. objs \in Seq(Range(objs)) /\ \A i \in 1..Len(objs) : InodeOK(objs[i], Len(objs))
  BY DEF InodesOK
<1>2. Len(objs) \in Nat /\ Len(new) \in Nat /\ DOMAIN objs = 1..Len(objs)
  BY <1>1 DEF AllNew
<1> DEFINE last == Len(objs) + Len(new)
<1>3. last \in Nat /\ Len(objs) <= last
  BY <1>2
<1>4. os \in Seq(Range(os)) /\ Len(os) = Len(objs)
  BY DEF SetIn
<1>5. ASSUME NEW i \in 1..Len(objs)
      PROVE  /\ InodeOK(os[i], last) /\ os[i].kind = objs[i].kind
             /\ objs[i].kind = "file" => os[i].kfd = objs[i].kfd /\ os[i].opens = objs[i].opens
  <2>1. InodeOK(objs[i], Len(objs))
    BY <1>1
  <2>2. CASE i # o
    <3>1. os[i] = objs[i]
      BY <1>2, <2>2 DEF SetIn
    <3> QED BY <1>2, <1>3, <2>1, <3>1, InodeLater
  <2>3. CASE i = o
    <3>1. Sets(os[i], objs[i], E)
      BY <2>3 DEF SetIn
    <3>2. objs[i].kind = "dir" => \A n \in DOMAIN E : E[n] \in 1..last
      BY <2>3 DEF EntriesIn
    <3>3. InodeOK(objs[i], last)
      BY <1>2, <1>3, <2>1, InodeLater
    <3> DEFINE x == objs[i]
               z == os[i]
    <3> HIDE DEF last, x, z
    <3>4. InodeOK(x, last) /\ Sets(z, x, E) /\ (x.kind = "dir" => \A n \in DOMAIN E : E[n] \in 1..last)
      BY <3>1, <3>2, <3>3 DEF x, z
    <3>5. /\ InodeOK(z, last) /\ z.kind = x.kind
          /\ x.kind = "file" => z.kfd = x.kfd /\ z.opens = x.opens
      BY <3>4, EntriesSet
    <3> QED BY <3>5 DEF x, z
  <2> QED BY <2>2, <2>3
<1>6. ASSUME NEW i \in 1..Len(new)
      PROVE  InodeOK(new[i], last) /\ (new[i].kind = "file" => new[i].opens = 0)
  <2>1. PICK p, kind : new[i] = NewInode(p, kind)
    BY DEF AllNew
  <2> QED BY <2>1, NewInodeOK
<1>7. PICK all : all = os \o new
  OBVIOUS
<1>8. /\ all \in Seq(Range(all)) /\ Len(all) = last
      /\ \A i \in 1..Len(objs) : all[i] = os[i]
      /\ \A i \in 1..Len(new) : all[Len(objs) + i] = new[i]
  <2>1. Concatenated(os \o new, os, new)
    <3>1. new \in Seq(Range(new))
      BY DEF AllNew
    <3> QED BY <1>4, <3>1, ConcatAny, Zenon
  <2> QED BY <1>4, <1>7, <2>1 DEF Concatenated
<1>9. \A i \in Len(objs) + 1..last : i - Len(objs) \in 1..Len(new)
                                    /\ Len(objs) + (i - Len(objs)) = i
  BY <1>2
<1>10. \A i \in Len(objs) + 1..last : \E k \in 1..Len(new) : all[i] = new[k]
  BY <1>8, <1>9
<1> HIDE DEF last
<1>11. \A i \in 1..last : i \in 1..Len(objs) \/ i \in Len(objs) + 1..last
  BY <1>2, <1>3
<1>12. \A i \in 1..last : InodeOK(all[i], last)
  BY <1>5, <1>6, <1>8, <1>10, <1>11
<1>13. Grown(all)
  <2>1. InodesOK(all)
    BY <1>8, <1>12 DEF InodesOK
  <2>2. Len(objs) <= Len(all)
    BY <1>3, <1>8
  <2>3. \A i \in Len(objs) + 1..Len(all) : all[i].kind = "file" => all[i].opens = 0
    BY <1>6, <1>8, <1>10
  <2> QED BY <1>5, <1>8, <2>1, <2>2, <2>3 DEF Grown
<1> QED BY <1>7, <1>13

\* Listing a directory, and making or removing a name in one.
LEMMA ListedGrows ==
  ASSUME InodesOK(objs), NEW o, NEW listing, IsFiniteSet(listing)
  PROVE  Grown(Listed(objs, o, listing))
<1> DEFINE s == SetToSeq(listing)
<1>2. s \in Seq(listing) /\ \A x \in listing : \E i \in 1..Len(s) : s[i] = x
  BY SetToSeqAll
<1>3. Len(s) \in Nat /\ Len(objs) \in Nat
  BY <1>2 DEF InodesOK
<1> DEFINE child(i) == NewInode(Append(objs[o].path, s[i][1]), s[i][2])
           named(n) == CHOOSE i \in 1..Len(s) : s[i][1] = n
           new == [i \in 1..Len(s) |-> child(i)]
           E == [n \in {e[1] : e \in listing} |-> Len(objs) + named(n)]
<1>4. new \in Seq(Range(new)) /\ Len(new) = Len(s)
  <2> HIDE DEF child
  <2>1. new \in [1..Len(s) -> Range(new)]
    BY DEF Range
  <2> QED BY <1>3, <2>1
<1>5. \A i \in 1..Len(new) : \E p, kind : new[i] = NewInode(p, kind)
  BY <1>4
<1>6. \A n \in {e[1] : e \in listing} : named(n) \in 1..Len(s)
  <2> TAKE n \in {e[1] : e \in listing}
  <2>1. PICK e \in listing : n = e[1]
    OBVIOUS
  <2>2. PICK i \in 1..Len(s) : s[i] = e
    BY <1>2
  <2>3. s[i][1] = n
    BY <2>1, <2>2
  <2> HIDE DEF s
  <2> QED BY <2>3
<1>7. \A n \in DOMAIN E : E[n] \in 1..Len(objs) + Len(new)
  <2> HIDE DEF named
  <2> QED BY <1>3, <1>4, <1>6
<1>8. Listed(objs, o, listing) = [objs EXCEPT ![o].known = TRUE, ![o].entries = E] \o new
  BY DEF Listed
<1> HIDE DEF new, E
<1> DEFINE os == [objs EXCEPT ![o].known = TRUE, ![o].entries = E]
<1>9. SetIn(os, o, E)
  BY ExceptSets
<1>10. Listed(objs, o, listing) = os \o new
  BY <1>8
<1> HIDE DEF os
<1>11. Grown(os \o new)
  <2>1. AllNew(new) /\ EntriesIn(o, E, Len(objs) + Len(new))
    BY <1>4, <1>5, <1>7 DEF AllNew, EntriesIn
  <2> QED BY <1>9, <2>1, SetGrown, Zenon
<1> QED BY <1>10, <1>11

\* Making a name: its entry is the one new object.
LEMMA MadeGrows ==
  ASSUME InodesOK(objs), NEW o, NEW name, NEW p, NEW kind, NEW E,
         \A n \in DOMAIN E :
           E[n] = Len(objs) + 1 \/ (n \in DOMAIN objs[o].entries /\ E[n] = objs[o].entries[n])
  PROVE  Grown(Append([objs EXCEPT ![o].entries = E], NewInode(p, kind)))
<1> DEFINE os == [objs EXCEPT ![o].entries = E]  x == NewInode(p, kind)  new == <<x>>
<1>1. new \in Seq(Range(new)) /\ Len(new) = 1 /\ new[1] = x
  <2> HIDE DEF x
  <2>1. new = [i \in 1..1 |-> new[i]] /\ new[1] = x
    OBVIOUS
  <2> HIDE DEF new
  <2> QED BY <2>1, FunctionSeq
<1>2. objs \in Seq(Range(objs)) /\ Len(objs) \in Nat /\ DOMAIN objs = 1..Len(objs)
  BY DEF InodesOK
<1>3. SetIn(os, o, E)
  BY ExceptSets
<1>4. Append(os, x) = os \o new
  <2> HIDE DEF os, x
  <2>1. PICK S : os \in Seq(S) /\ x \in S
    <3>1. os \in Seq(Range(os) \cup {x})
      BY <1>3 DEF SetIn
    <3>2. x \in Range(os) \cup {x}
      OBVIOUS
    <3> QED BY <3>1, <3>2
  <2> QED BY <2>1
<1>5. ASSUME o \in 1..Len(objs), objs[o].kind = "dir", NEW n \in DOMAIN E
      PROVE  E[n] \in 1..Len(objs) + 1
  <2>1. InodeOK(objs[o], Len(objs))
    BY <1>5 DEF InodesOK
  <2> QED BY <1>2, <1>5, <2>1 DEF InodeOK
<1>6. \A i \in 1..Len(new) : \E q, k : new[i] = NewInode(q, k)
  BY <1>1
<1>7. EntriesIn(o, E, Len(objs) + Len(new)) /\ AllNew(new)
  BY <1>1, <1>5, <1>6 DEF EntriesIn, AllNew
<1> HIDE DEF new, os
<1>8. Grown(os \o new)
  BY <1>3, <1>7, SetGrown, Zenon
<1> HIDE DEF x
<1>9. Grown(Append(os, x))
  BY <1>4, <1>8, Zenon
<1> QED BY <1>9 DEF os, x

\* Removing a name: the entries left are those there were.
LEMMA RemovedGrows ==
  ASSUME InodesOK(objs), NEW o, NEW E,
         \A n \in DOMAIN E : n \in DOMAIN objs[o].entries /\ E[n] = objs[o].entries[n]
  PROVE  Grown([objs EXCEPT ![o].entries = E])
<1> DEFINE os == [objs EXCEPT ![o].entries = E]
<1>1. objs \in Seq(Range(objs)) /\ Len(objs) \in Nat /\ DOMAIN objs = 1..Len(objs)
  BY DEF InodesOK
<1>2. SetIn(os, o, E)
  BY ExceptSets
<1>3. os \o <<>> = os
  <2> HIDE DEF os
  <2> QED BY <1>2
<1>4. ASSUME o \in 1..Len(objs), objs[o].kind = "dir", NEW n \in DOMAIN E
      PROVE  E[n] \in 1..Len(objs)
  <2>1. InodeOK(objs[o], Len(objs))
    BY <1>4 DEF InodesOK
  <2> QED BY <1>1, <1>4, <2>1 DEF InodeOK
<1>5. <<>> \in Seq(Range(<<>>)) /\ Len(<<>>) = 0
  BY SeqAny
<1>6. PICK new : new = <<>>
  OBVIOUS
<1>7. Grown(os \o new)
  <2>1. AllNew(new)
    BY <1>5, <1>6 DEF AllNew
  <2>2. EntriesIn(o, E, Len(objs) + Len(new))
    BY <1>1, <1>4, <1>5, <1>6 DEF EntriesIn
  <2> HIDE DEF os
  <2> QED BY <1>2, <2>1, <2>2, SetGrown, Zenon
<1> QED BY <1>3, <1>6, <1>7

(***************************************************************************)
(* What an operation goes on to.                                           *)
(***************************************************************************)

\* An operation comes to its end.
LEMMA IdleOK == ASSUME NEW os, Len(os) \in Nat, NEW ds PROVE FrameOK(Idle, os, ds)
BY DEF FrameOK, Idle, NoOperation, PathOperations

\* New objects change nothing about the operation.
LEMMA FrameGrows ==
  ASSUME NEW f, InodesOK(objs), FrameOK(f, objs, fds), NEW os, Grown(os)
  PROVE  FrameOK(f, os, fds)
<1>1. Len(objs) \in Nat /\ Len(os) \in Nat /\ Len(objs) <= Len(os)
  BY DEF Grown, InodesOK
<1>2. f.ent \in 0..Len(os)
  BY <1>1 DEF FrameOK
<1>3. f.phase \in {"walk", "listing"} => f.cur \in 1..Len(os) /\ os[f.cur].kind = "dir"
  BY <1>1 DEF FrameOK, Grown
<1>4. ASSUME f.phase \in {"opening", "cut", "cutopen", "append", "atend"}
      PROVE  os[f.ent].kind = "file" /\ os[f.ent].opens = objs[f.ent].opens
  <2>1. f.ent \in 1..Len(objs) /\ objs[f.ent].kind = "file"
    BY <1>1, <1>4 DEF FrameOK
  <2> QED BY <2>1 DEF Grown
<1>5. f.phase = "opendir" => os[f.ent].kind = "dir"
  <2>1. f.phase = "opendir" => f.ent \in 1..Len(objs) /\ objs[f.ent].kind = "dir"
    BY <1>1 DEF FrameOK
  <2> QED BY <2>1 DEF Grown
<1> QED BY <1>2, <1>3, <1>4, <1>5 DEF FrameOK

\* It goes on at another phase.
LEMMA PhaseOK ==
  ASSUME NEW f, NEW os, NEW ds, FrameOK(f, os, ds), f.phase # "idle",
         NEW p, p \notin {"idle", "walk", "relink", "sizes"},
         p \in {"entry", "opendir", "opening", "cut", "cutopen", "append", "atend"} => f.ent # 0,
         p \in {"opening", "cut", "cutopen", "append", "atend"} => os[f.ent].kind = "file",
         p \in {"append", "atend"} => os[f.ent].opens > 0 /\ "append" \in f.do.flags,
         p = "opendir" => os[f.ent].kind = "dir",
         p = "reading" => f.do.op = "read",
         p = "writing" => f.do.op = "write",
         p = "sized" => f.phase = "sizes",
         p = "listing" => f.phase = "walk",
         f.do.op = "exit" => p = "exiting"
  PROVE  FrameOK([f EXCEPT !.phase = p], os, ds)
<1> DEFINE g == [f EXCEPT !.phase = p]
<1>1. /\ DOMAIN g = DOMAIN Idle /\ g.do = f.do /\ g.ent = f.ent /\ g.then = f.then
      /\ g.cur = f.cur /\ g.phase = p
  BY DEF FrameOK, Idle
<1> HIDE DEF g
<1>2. FrameOK(g, os, ds)
  BY <1>1 DEF FrameOK
<1> QED BY <1>2 DEF g

\* It walks a path from the directory of its descriptor.
LEMMA WalkOK ==
  ASSUME NEW f, NEW os, FdsOK(fds, os), Len(os) \in Nat,
         DOMAIN f = DOMAIN Idle, f.do \in Operations \cup {NoOperation},
         f.then \in {"end", "remove", "extend", "relink"},
         f.do.op \in PathOperations, f.do.fd \in 1..Len(fds), fds[f.do.fd].kind = "dir",
         NEW path, NEW leg
  PROVE  FrameOK(Walk(f, path, leg), os, fds) /\ Walk(f, path, leg).phase \in {"at", "walk"}
<1> DEFINE g == Walk(f, path, leg)  base == fds[f.do.fd].ob
<1>1. base \in 1..Len(os) /\ os[base].kind = "dir"
  BY DEF FdsOK
<1>2. /\ DOMAIN g = DOMAIN Idle /\ g.do = f.do /\ g.ent = base /\ g.then = f.then
      /\ g.cur = base /\ g.phase \in {"at", "walk"}
  BY DEF Walk, Idle
<1> HIDE DEF g, base
<1>3. FrameOK(g, os, fds)
  BY <1>1, <1>2 DEF FrameOK, PathOperations
<1> QED BY <1>2, <1>3 DEF g

\* It walks again.
LEMMA WalkAgain ==
  ASSUME NEW os, FdsOK(fds, os), Len(os) \in Nat, FrameOK(frame, os, fds), frame.phase # "idle",
         op \in PathOperations, NEW f, NEW m, f = frame \/ f = [frame EXCEPT !.moved = m],
         NEW path, NEW leg
  PROVE  FrameOK(Walk(f, path, leg), os, fds) /\ Walk(f, path, leg).phase \in {"at", "walk"}
<1>1. frame.do.fd \in 1..Len(fds) /\ fds[frame.do.fd].kind = "dir"
  BY DEF FrameOK, PathOperations, op
<1>2. DOMAIN f = DOMAIN Idle /\ f.do = frame.do /\ f.then = frame.then
  BY DEF FrameOK, Idle
<1>3. /\ f.do \in Operations \cup {NoOperation} /\ f.then \in {"end", "remove", "extend", "relink"}
      /\ f.do.op \in PathOperations /\ f.do.fd \in 1..Len(fds) /\ fds[f.do.fd].kind = "dir"
  BY <1>1, <1>2 DEF FrameOK, op
<1> QED BY <1>2, <1>3, WalkOK

\* It stats files and goes on.
LEMMA SizesOK ==
  ASSUME NEW os, Len(os) \in Nat, FrameOK(frame, os, fds), frame.phase # "idle", op # "exit",
         NEW files, NEW then \in {"end", "remove", "extend", "relink"},
         then = "relink" => op = "rename"
  PROVE  /\ FrameOK(Sizes(frame, files, then), os, fds)
         /\ Sizes(frame, files, then).phase \in {"idle", "sizes", "remove", "extend", "relink"}
<1>1. CASE files = <<>> /\ then = "end"
  BY <1>1, IdleOK DEF Sizes, Then, Idle
<1> DEFINE g == Sizes(frame, files, then)
<1>2. CASE ~(files = <<>> /\ then = "end")
  <2>1. /\ DOMAIN g = DOMAIN Idle /\ g.do = frame.do /\ g.ent = frame.ent
        /\ \/ g.then = then /\ g.phase = "sizes"
           \/ g.then = frame.then /\ g.phase = then
    BY <1>2 DEF Sizes, Then, FrameOK, Idle
  <2> HIDE DEF g
  <2>2. FrameOK(g, os, fds)
    BY <2>1 DEF FrameOK, op
  <2>3. g.phase \in {"sizes", "remove", "extend", "relink"}
    <3>1. (g = [frame EXCEPT !.phase = then] /\ then # "end") \/ g.phase = "sizes"
      BY <1>2 DEF g, Sizes, Then, FrameOK, Idle
    <3> QED BY <3>1 DEF FrameOK, Idle
  <2> QED BY <2>2, <2>3 DEF g
<1> QED BY <1>1, <1>2

\* It has the next name of the path looked up.
LEMMA FoundOK ==
  ASSUME NEW os, InodesOK(os), FrameOK(frame, os, fds), frame.phase \in {"walk", "listing"}
  PROVE  FrameOK(Found(os, frame), os, fds) /\ Found(os, frame).phase \in {"at", "walk", "astray"}
<1> DEFINE entries == os[frame.cur].entries
           n == Head(frame.rest)
           child == IF n \in DOMAIN entries THEN entries[n] ELSE 0
           g == Found(os, frame)
<1>1. Len(os) \in Nat /\ frame.cur \in 1..Len(os) /\ os[frame.cur].kind = "dir"
  BY DEF FrameOK, InodesOK
<1>2. child \in 0..Len(os)
  <2>1. InodeOK(os[frame.cur], Len(os))
    BY <1>1 DEF InodesOK
  <2>2. \A x \in DOMAIN entries : entries[x] \in 1..Len(os)
    BY <1>1, <2>1 DEF InodeOK
  <2> HIDE DEF entries, n
  <2> QED BY <1>1, <2>2
<1>3. /\ DOMAIN g = DOMAIN Idle /\ g.do = frame.do /\ g.then = frame.then
      /\ \/ g.phase = "at" /\ g.ent = child
         \/ g.phase = "walk" /\ g.cur = child /\ child # 0 /\ os[child].kind = "dir" /\ g.ent = frame.ent
         \/ g.phase = "astray" /\ g.ent = child
  <2>1. \/ g = [frame EXCEPT !.phase = "at", !.par = frame.cur, !.name = n, !.ent = child]
        \/ /\ child # 0 /\ os[child].kind = "dir"
           /\ g = [frame EXCEPT !.phase = "walk", !.cur = child, !.rest = Tail(@)]
        \/ g = [frame EXCEPT !.phase = "astray", !.ent = child]
    BY Zenon DEF Found
  <2> HIDE DEF g, child, n
  <2> QED BY <2>1 DEF FrameOK, Idle
<1> HIDE DEF g, child
<1>4. FrameOK(g, os, fds)
  BY <1>1, <1>2, <1>3 DEF FrameOK
<1> QED BY <1>3, <1>4 DEF g

(***************************************************************************)
(* Steps that read or write no file.                                       *)
(***************************************************************************)

\* Files keep their handles and how often they were opened.
LEMMA HandlesKept ==
  ASSUME WasiInv, Grown(objs'), table'["wasi"] = table["wasi"]
  PROVE  /\ OwnHandle'
         /\ \A o \in 1..Len(objs') : HasHandle(objs'[o]) =>
              o \in 1..Len(objs) /\ HasHandle(objs[o]) /\ objs'[o].kfd = objs[o].kfd
                                 /\ objs'[o].opens = objs[o].opens
<1>1. Len(objs) \in Nat /\ Len(objs') \in Nat /\ Len(objs) <= Len(objs')
  BY DEF Grown, InodesOK, WasiInv
<1>2. ASSUME NEW o \in 1..Len(objs'), HasHandle(objs'[o])
      PROVE  /\ o \in 1..Len(objs) /\ HasHandle(objs[o]) /\ objs'[o].kfd = objs[o].kfd
             /\ objs'[o].opens = objs[o].opens
  <2>1. objs'[o].kind = "file" /\ objs'[o].opens > 0
    BY <1>2 DEF HasHandle
  <2>2. o \in 1..Len(objs)
    BY <1>1, <2>1 DEF Grown
  <2> QED BY <2>1, <2>2 DEF Grown, HasHandle
<1>3. OwnHandle'
  BY <1>2 DEF OwnHandle, WasiInv
<1> QED BY <1>2, <1>3

\* The descriptors stay those of their objects.
LEMMA FdsKept ==
  ASSUME WasiInv, Grown(objs')
  PROVE  FdsOK(fds, objs')
<1>1. Len(objs) \in Nat /\ Len(objs') \in Nat /\ Len(objs) <= Len(objs')
  BY DEF Grown, InodesOK, WasiInv
<1>2. ASSUME NEW f \in 1..Len(fds)
      PROVE  fds[f].ob \in 1..Len(objs') /\ fds[f].kind \in {"closed", objs'[fds[f].ob].kind}
  <2>1. fds[f].ob \in 1..Len(objs) /\ fds[f].kind \in {"closed", objs[fds[f].ob].kind}
    BY DEF WasiInv, FdsOK
  <2> QED BY <1>1, <2>1 DEF Grown
<1> QED BY <1>2 DEF FdsOK, WasiInv

\* Positions are numbers.
LEMMA Positions == WasiInv => Len(fds) \in Nat /\ \A f \in 1..Len(fds) : fds[f].pos \in Nat
<1> SUFFICES ASSUME WasiInv PROVE Len(fds) \in Nat /\ \A f \in 1..Len(fds) : fds[f].pos \in Nat
  OBVIOUS
<1>1. fds \in Seq(Descriptors)
  BY DEF WasiInv, FdsOK
<1>2. Len(fds) \in Nat /\ \A f \in 1..Len(fds) : fds[f] \in Descriptors
  BY <1>1
<1> QED BY <1>2 DEF Descriptors

\* No bytes are on their way and files are as they were.
Still ==
  /\ WasiInv /\ BufferInv' /\ WasiTable' /\ Grown(objs') /\ AskedOK' /\ ~Answering'
  /\ table'["wasi"] = table["wasi"]
  /\ ~(Answering /\ frame.phase \in {"reading", "writing"})

\* While nothing is on its way a position is the offset of the kernel.
LEMMA StillKeeps ==
  ASSUME Still
  PROVE  \A f \in 1..Len(fds) :
           fds[f].kind = "file" /\ fds[f].plain /\ objs'[fds[f].ob].opens = 1 =>
             table'["wasi"].fds[objs'[fds[f].ob].kfd].off = fds[f].pos
<1> SUFFICES ASSUME NEW f \in 1..Len(fds), fds[f].kind = "file", fds[f].plain,
                    objs'[fds[f].ob].opens = 1
             PROVE  table'["wasi"].fds[objs'[fds[f].ob].kfd].off = fds[f].pos
  OBVIOUS
<1>1. fds[f].ob \in 1..Len(objs) /\ objs[fds[f].ob].kind = "file"
  BY DEF Still, WasiInv, FdsOK
<1>2. objs'[fds[f].ob].kfd = objs[fds[f].ob].kfd /\ objs[fds[f].ob].opens = 1
  BY <1>1 DEF Still, Grown
<1>3. ~Moving(f) /\ Agree(f)
  BY <1>2 DEF Still, WasiInv, InStep, Moving
<1>4. fds[f].pos \in Nat
  BY Positions DEF Still
<1> QED BY <1>2, <1>3, <1>4 DEF Agree, Still

\* The guest goes on with the descriptors it has.
LEMMA GoesOn ==
  ASSUME Still, fds' = fds, FrameOK(frame', objs', fds),
         frame'.phase \in {"append", "atend"} =>
           frame.phase \in {"append", "atend"} /\ frame'.ent = frame.ent
  PROVE  WasiInv'
<1>1. InodesOK(objs') /\ FdsOK(fds', objs') /\ FrameOK(frame', objs', fds') /\ OwnHandle'
  BY FdsKept, HandlesKept DEF Still, Grown
<1>2. AnswerOK'
  BY DEF Still, AnswerOK
<1>3. OneEach'
  <2> SUFFICES ASSUME NEW o \in 1..Len(objs'), objs'[o].kind = "file"
               PROVE  /\ objs'[o].opens <= 1 =>
                           \A f, g \in 1..Len(fds) : Shows(fds[f], o) /\ Shows(fds[g], o) => f = g
                      /\ objs'[o].opens = 0 => \A f \in 1..Len(fds) : ~Shows(fds[f], o)
                      /\ frame'.phase \in {"append", "atend"} /\ frame'.ent = o /\ objs'[o].opens = 1 =>
                           \A f \in 1..Len(fds) : ~Shows(fds[f], o)
    BY DEF OneEach
  <2>1. CASE o \in 1..Len(objs)
    BY <2>1 DEF Still, Grown, WasiInv, OneEach
  <2>2. CASE o \notin 1..Len(objs)
    <3>1. objs'[o].opens = 0
      BY <2>2 DEF Still, Grown, InodesOK, WasiInv
    <3>2. \A f \in 1..Len(fds) : ~Shows(fds[f], o)
      BY <2>2 DEF Still, WasiInv, FdsOK, Shows
    <3> QED BY <3>1, <3>2
  <2> QED BY <2>1, <2>2
<1>4. InStep'
  <2> SUFFICES ASSUME NEW f \in 1..Len(fds), fds[f].kind = "file", fds[f].plain,
                      objs'[fds[f].ob].opens = 1
               PROVE  Agree(f)'
    BY DEF InStep
  <2>1. table'["wasi"].fds[objs'[fds[f].ob].kfd].off = fds[f].pos
    BY StillKeeps
  <2>2. fds[f].pos \in Nat
    BY Positions DEF Still
  <2>3. ~Moving(f)'
    BY DEF Still, Moving
  <2> QED BY <2>1, <2>2, <2>3 DEF Agree
<1> QED BY <1>1, <1>2, <1>3, <1>4 DEF WasiInv, Still

\* The guest ends an operation with a new descriptor: of a directory, or of a
\* file that has none if it was opened once, and then not at its start.
LEMMA Opens ==
  ASSUME Still, frame' = Idle, NEW d \in Descriptors, fds' = Append(fds, d),
         d.ob \in 1..Len(objs), d.kind = objs[d.ob].kind,
         d.kind = "file" => /\ ~d.plain /\ objs[d.ob].opens > 0
                            /\ objs[d.ob].opens = 1 =>
                                 \A f \in 1..Len(fds) : ~Shows(fds[f], d.ob)
  PROVE  WasiInv'
<1>0. fds \in Seq(Descriptors) /\ Len(fds) \in Nat
  BY DEF Still, WasiInv, FdsOK
<1>1. /\ fds' \in Seq(Descriptors) /\ Len(fds') = Len(fds) + 1
      /\ \A f \in 1..Len(fds') : \/ f \in 1..Len(fds) /\ fds'[f] = fds[f]
                                 \/ f = Len(fds) + 1 /\ fds'[f] = d
  BY <1>0
<1>2. Len(objs) \in Nat /\ Len(objs') \in Nat /\ Len(objs) <= Len(objs')
  BY DEF Still, WasiInv, Grown, InodesOK
<1>3. InodesOK(objs') /\ FdsOK(fds, objs') /\ OwnHandle'
  BY FdsKept, HandlesKept DEF Still, Grown
<1>4. d.ob \in 1..Len(objs') /\ d.kind = objs'[d.ob].kind
  BY <1>2 DEF Still, Grown
<1>5. FdsOK(fds', objs')
  BY <1>1, <1>3, <1>4 DEF FdsOK
<1>6. FrameOK(frame', objs', fds')
  BY <1>2, IdleOK
<1>7. AnswerOK'
  BY DEF Still, AnswerOK
<1>8. OneEach'
  <2> SUFFICES ASSUME NEW o \in 1..Len(objs'), objs'[o].kind = "file"
               PROVE  /\ objs'[o].opens <= 1 =>
                           \A f, g \in 1..Len(fds') : Shows(fds'[f], o) /\ Shows(fds'[g], o) => f = g
                      /\ objs'[o].opens = 0 => \A f \in 1..Len(fds') : ~Shows(fds'[f], o)
    BY DEF OneEach, Idle
  <2>1. CASE o \in 1..Len(objs)
    <3>1. /\ objs[o].kind = "file" /\ objs'[o].opens = objs[o].opens /\ objs[o].opens \in Nat
      BY <2>1 DEF Still, Grown, WasiInv, InodesOK, InodeOK
    <3>2. /\ objs[o].opens <= 1 =>
               \A f, g \in 1..Len(fds) : Shows(fds[f], o) /\ Shows(fds[g], o) => f = g
          /\ objs[o].opens = 0 => \A f \in 1..Len(fds) : ~Shows(fds[f], o)
      BY <2>1, <3>1 DEF Still, WasiInv, OneEach
    <3>3. CASE ~Shows(d, o)
      BY <1>1, <3>1, <3>2, <3>3
    <3>4. CASE Shows(d, o)
      <4>1. o = d.ob /\ objs[o].opens > 0 /\ (objs[o].opens = 1 => \A f \in 1..Len(fds) : ~Shows(fds[f], o))
        BY <3>4 DEF Shows
      <4> QED BY <1>1, <3>1, <4>1
    <3> QED BY <3>3, <3>4
  <2>2. CASE o \notin 1..Len(objs)
    <3>1. objs'[o].opens = 0
      BY <1>2, <2>2 DEF Still, Grown
    <3>2. \A f \in 1..Len(fds) : ~Shows(fds[f], o)
      BY <2>2 DEF Still, WasiInv, FdsOK, Shows
    <3>3. ~Shows(d, o)
      BY <2>2 DEF Shows
    <3> QED BY <1>1, <3>1, <3>2, <3>3
  <2> QED BY <2>1, <2>2
<1>9. InStep'
  <2> SUFFICES ASSUME NEW f \in 1..Len(fds'), fds'[f].kind = "file", fds'[f].plain,
                      objs'[fds'[f].ob].opens = 1
               PROVE  Agree(f)'
    BY DEF InStep
  <2>1. f \in 1..Len(fds) /\ fds'[f] = fds[f]
    BY <1>1
  <2>2. table'["wasi"].fds[objs'[fds'[f].ob].kfd].off = fds'[f].pos
    BY <2>1, StillKeeps
  <2>3. fds'[f].pos \in Nat
    BY <2>1, Positions DEF Still
  <2>4. ~Moving(f)'
    BY DEF Still, Moving
  <2> QED BY <2>2, <2>3, <2>4 DEF Agree
<1> QED BY <1>3, <1>5, <1>6, <1>7, <1>8, <1>9 DEF WasiInv, Still

\* The buffer's invariant goes on holding.
LEMMA BufferGoesOn ==
  /\ WasiInv /\ UNCHANGED bufferVars => BufferInv'
  /\ WasiInv /\ Wake => BufferInv' /\ ~waiting'
  /\ WasiInv /\ Call => BufferInv' /\ ~Answering' /\ ~Answering
<1>1. WasiInv => BufferInv
  BY DEF WasiInv
<1>2. WasiInv /\ UNCHANGED bufferVars => BufferInv'
  BY <1>1, BufferStep
<1>3. WasiInv /\ Wake => BufferInv' /\ ~waiting'
  BY <1>1, BufferStep DEF BufferNext, Wake
<1>4. WasiInv /\ Call => BufferInv' /\ ~Answering' /\ ~Answering
  <2>1. BufferInv /\ ~waiting => serving \cup stored = {}
    BY DEF BufferInv, OneCall
  <2> QED BY <1>1, <2>1, BufferStep DEF BufferNext, Call, Answering
<1> QED BY <1>2, <1>3, <1>4

\* The guest goes on, without a call or after one, and opens nothing.
LEMMA Proceeds ==
  ASSUME WasiInv, NEW f, NEW os, Continue(f, os, fds), BufferInv', ~waiting', Grown(os),
         frame.phase \notin {"reading", "writing"} \/ ~waiting,
         FrameOK(f, os, fds), f.phase \notin {"append", "atend"}
  PROVE  WasiInv'
<1>1. frame' = f /\ objs' = os /\ fds' = fds /\ table' = table
  BY DEF Continue, sysVars
<1>2. WasiTable'
  BY <1>1 DEF WasiInv, WasiTable
<1>3. Still
  BY <1>1, <1>2 DEF Still, AskedOK, Answering
<1> QED BY <1>1, <1>3, GoesOn

\* It goes on without a call.
LEMMA LocalStep ==
  ASSUME WasiInv, ~waiting, NEW f, Locally(f), FrameOK(f, objs, fds),
         f.phase \notin {"append", "atend"}
  PROVE  WasiInv'
<1>1. Continue(f, objs, fds) /\ UNCHANGED bufferVars
  BY DEF Locally
<1>2. BufferInv' /\ ~waiting'
  BY <1>1, BufferGoesOn DEF bufferVars
<1>3. Grown(objs)
  BY SameGrown DEF WasiInv
<1> QED BY <1>1, <1>2, <1>3, Proceeds

\* It goes on after a call other than a read or a write.
LEMMA WokenStep ==
  ASSUME WasiInv, NEW p, p \notin {"reading", "writing"}, WokenIn(p), NEW f, NEW os,
         Continue(f, os, fds), Grown(os), FrameOK(f, os, fds), f.phase \notin {"append", "atend"}
  PROVE  WasiInv'
<1>1. frame.phase \notin {"reading", "writing"} /\ BufferInv' /\ ~waiting'
  BY BufferGoesOn DEF WokenIn
<1> QED BY <1>1, Proceeds

\* The guest makes a call.
LEMMA Asks ==
  ASSUME WasiInv, NEW call, NEW p, Ask(call, p), FrameOK([frame EXCEPT !.phase = p], objs, fds),
         p = "append" \/ p = "atend" => frame.phase \in {"append", "atend"},
         DOMAIN call = DOMAIN NoCall, call.m \in DOMAIN Handler,
         call.m = "fd_read" <=> p = "reading",
         call.m = "fd_write" <=> p = "writing",
         call.m = "path_open" <=> p = "opening",
         p \in {"listing", "opendir", "emptying"} => call.m = "path_readdir",
         p \in {"reading", "writing"} => call.fd = objs[Opened.ob].kfd /\ call.n = frame.do.n
  PROVE  WasiInv'
<1> DEFINE g == [frame EXCEPT !.phase = p]
<1>1. /\ Call /\ request' = call /\ frame' = g /\ objs' = objs /\ fds' = fds /\ table' = table
  BY DEF Ask, sysVars
<1>2. g.phase = p /\ g.ent = frame.ent /\ g.do = frame.do
  BY DEF WasiInv, FrameOK, Idle
<1>3. BufferInv' /\ ~Answering' /\ ~Answering
  BY <1>1, BufferGoesOn
<1>4. WasiTable' /\ Grown(objs)
  BY <1>1, SameGrown DEF WasiInv, WasiTable
<1> HIDE DEF g
<1>5. AskedOK'
  BY <1>1, <1>2 DEF AskedOK, Opened
<1>6. Still
  BY <1>1, <1>3, <1>4, <1>5 DEF Still
<1> QED BY <1>1, <1>2, <1>6, GoesOn DEF g

\* A call about a path leaves the files alone.
LEMMA AsksPath ==
  ASSUME WasiInv, NEW m, NEW path, NEW p, AskPath(m, path, p), frame.phase # "idle", op # "exit",
         p \notin {"idle", "walk", "relink", "sizes", "reading", "writing"},
         m \in DOMAIN Handler \ {"fd_read", "fd_write"},
         m = "path_open" <=> p = "opening",
         p \in {"listing", "opendir", "emptying"} => m = "path_readdir",
         p \in {"entry", "opendir", "opening", "cut", "cutopen"} => frame.ent # 0,
         p \in {"opening", "cut", "cutopen"} => objs[frame.ent].kind = "file",
         p = "opendir" => objs[frame.ent].kind = "dir",
         p # "append",
         p = "atend" => frame.phase = "append",
         p = "sized" => frame.phase = "sizes",
         p = "listing" => frame.phase = "walk"
  PROVE  WasiInv'
<1>1. FrameOK(frame, objs, fds)
  BY DEF WasiInv
<1>2. p = "atend" => /\ frame.ent # 0 /\ objs[frame.ent].kind = "file"
                     /\ objs[frame.ent].opens > 0 /\ "append" \in frame.do.flags
  BY <1>1 DEF FrameOK
<1>3. FrameOK([frame EXCEPT !.phase = p], objs, fds)
  BY <1>1, <1>2, PhaseOK DEF op
<1> DEFINE call == [NoCall EXCEPT !.m = m, !.path = path]
<1>4. Ask(call, p)
  BY DEF AskPath
<1>5. DOMAIN call = DOMAIN NoCall /\ call.m = m
  BY DEF NoCall
<1> HIDE DEF call
<1> QED BY <1>3, <1>4, <1>5, Asks

(***************************************************************************)
(* The guest's own steps.                                                  *)
(***************************************************************************)

\* An exception leaves everything where it was.
LEMMA TrapKeeps == ASSUME WasiInv, Trap PROVE WasiInv'
<1>1. UNCHANGED <<waiting, serving, stored, flag, objs, fds, frame, request, answer, table>>
  BY DEF Trap, bufferVars, sysVars
<1>2. BufferInv'
  BY BufferGoesOn DEF Trap
<1> QED BY <1>1, <1>2
     DEF WasiInv, WasiTable, AskedOK, Opened, OwnHandle, AnswerOK, Answering, OneEach, InStep,
         Agree, Moving

\* An operation that has reached a phase has a descriptor, unless it exits.
LEMMA UnderWay == ASSUME WasiInv, frame.phase # "idle", frame.phase # "fd", frame.phase # "exiting"
                 PROVE  op # "exit" /\ FrameOK(frame, objs, fds) /\ frame.do.fd \in 1..Len(fds)
BY DEF WasiInv, FrameOK, op

\* The guest ends the operation.
LEMMA GuestIdles == ASSUME WasiInv, ~waiting, Locally(Idle) PROVE WasiInv'
<1>1. Len(objs) \in Nat
  BY DEF WasiInv, InodesOK
<1> QED BY <1>1, IdleOK, LocalStep DEF Idle

\* It walks a path.
LEMMA GuestWalks ==
  ASSUME WasiInv, ~waiting, frame.phase # "idle", op \in PathOperations,
         NEW f, NEW m, f = frame \/ f = [frame EXCEPT !.moved = m],
         NEW path, NEW leg, Locally(Walk(f, path, leg))
  PROVE  WasiInv'
<1>1. FdsOK(fds, objs) /\ Len(objs) \in Nat /\ FrameOK(frame, objs, fds)
  BY DEF WasiInv, InodesOK
<1>2. FrameOK(Walk(f, path, leg), objs, fds) /\ Walk(f, path, leg).phase \in {"at", "walk"}
  BY <1>1, WalkAgain
<1> QED BY <1>2, LocalStep

\* It stats files.
LEMMA GuestStats ==
  ASSUME WasiInv, ~waiting, frame.phase # "idle", op # "exit",
         NEW files, NEW then \in {"end", "remove", "extend", "relink"},
         then = "relink" => op = "rename", Locally(Sizes(frame, files, then))
  PROVE  WasiInv'
<1>1. Len(objs) \in Nat /\ FrameOK(frame, objs, fds)
  BY DEF WasiInv, InodesOK
<1>2. /\ FrameOK(Sizes(frame, files, then), objs, fds)
      /\ Sizes(frame, files, then).phase \in {"idle", "sizes", "remove", "extend", "relink"}
  BY <1>1, SizesOK
<1> QED BY <1>2, LocalStep

\* It goes on to a phase: the entry it found, or the removal of it.
LEMMA GuestEnters ==
  ASSUME WasiInv, ~waiting, frame.phase # "idle", op # "exit", NEW p \in {"entry", "remove"},
         p = "entry" => frame.ent # 0, Locally(Then(frame, p))
  PROVE  WasiInv'
<1>1. FrameOK(frame, objs, fds) /\ Then(frame, p) = [frame EXCEPT !.phase = p]
  BY DEF WasiInv, Then
<1>2. FrameOK([frame EXCEPT !.phase = p], objs, fds)
  BY <1>1, PhaseOK DEF op
<1>3. [frame EXCEPT !.phase = p].phase = p
  BY <1>1 DEF FrameOK, Idle
<1> QED BY <1>1, <1>2, <1>3, LocalStep

\* Walking a path.
LEMMA WalkSteps ==
  ASSUME WasiInv, SizeOne \/ ListingKept \/ ReadListing \/ Astray
  PROVE  WasiInv'
<1>1. CASE SizeOne
  <2>1. frame.phase = "sizes" /\ AskPath("path_size", objs[Head(frame.todo)].path, "sized")
    BY <1>1 DEF SizeOne, In
  <2>2. op # "exit"
    BY <2>1, UnderWay
  <2> QED BY <2>1, <2>2, AsksPath DEF Handler
<1>2. CASE ListingKept
  <2>1. frame.phase = "walk" /\ ~waiting /\ Locally(Found(objs, frame))
    BY <1>2 DEF ListingKept, In
  <2>2. InodesOK(objs) /\ FrameOK(frame, objs, fds)
    BY DEF WasiInv
  <2>3. FrameOK(Found(objs, frame), objs, fds) /\ Found(objs, frame).phase \in {"at", "walk", "astray"}
    BY <2>1, <2>2, FoundOK
  <2> QED BY <2>1, <2>3, LocalStep
<1>3. CASE ReadListing
  <2>1. frame.phase = "walk" /\ AskPath("path_readdir", objs[frame.cur].path, "listing")
    BY <1>3 DEF ReadListing, In
  <2>2. op # "exit"
    BY <2>1, UnderWay
  <2> QED BY <2>1, <2>2, AsksPath DEF Handler
<1>4. CASE Astray
  <2>1. frame.phase = "astray" /\ ~waiting
    BY <1>4 DEF Astray, In
  <2>2. \/ Trap \/ Locally(Idle)
        \/ /\ op \in PathOperations
           /\ \E leg : Locally(Walk(frame, frame.do.path, leg))
    BY <1>4 DEF Astray, PathOperations
  <2>3. CASE op \in PathOperations /\ \E leg : Locally(Walk(frame, frame.do.path, leg))
    BY <2>1, <2>3, GuestWalks
  <2> QED BY <2>1, <2>2, <2>3, GuestIdles, TrapKeeps
<1> QED BY <1>1, <1>2, <1>3, <1>4

\* Removing, renaming and linking.
LEMMA MoveSteps ==
  ASSUME WasiInv, StatAt \/ UnlinkAt \/ RmdirAt \/ RemoveEntry \/ RenameAt \/ LinkAt \/ LinkOver \/ Relink
  PROVE  WasiInv'
<1>0. ASSUME NEW p \in {"at", "remove", "relink"}, In(p)
      PROVE  /\ ~waiting /\ frame.phase = p /\ op # "exit"
             /\ (p = "relink" => op = "rename")
  <2>1. ~waiting /\ frame.phase = p
    BY <1>0 DEF In
  <2>2. op # "exit" /\ FrameOK(frame, objs, fds)
    BY <2>1, UnderWay
  <2> QED BY <2>1, <2>2 DEF FrameOK, op
<1>1. CASE StatAt
  <2>1. ~waiting /\ frame.phase = "at" /\ op # "exit" /\ Locally(Sizes(frame, FileOf(frame.ent), "end"))
    BY <1>0, <1>1 DEF StatAt
  <2> QED BY <2>1, GuestStats
<1>2. CASE UnlinkAt
  <2>1. ~waiting /\ frame.phase = "at" /\ op # "exit"
    BY <1>0, <1>2 DEF UnlinkAt
  <2>2. Locally(Idle) \/ Locally(Sizes(frame, <<frame.ent>>, "remove"))
    BY <1>2, Zenon DEF UnlinkAt
  <2> QED BY <2>1, <2>2, GuestIdles, GuestStats
<1>3. CASE RmdirAt
  <2>1. ~waiting /\ frame.phase = "at" /\ op # "exit"
    BY <1>0, <1>3 DEF RmdirAt
  <2>2. Locally(Idle) \/ Locally(Then(frame, "remove")) \/ AskPath("path_readdir", objs[frame.ent].path, "emptying")
    BY <1>3, Zenon DEF RmdirAt, EmptyThen
  <2> QED BY <2>1, <2>2, GuestIdles, GuestEnters, AsksPath DEF Handler
<1>4. CASE RemoveEntry
  <2>1. ~waiting /\ frame.phase = "remove" /\ op # "exit" /\ AskPath("path_remove", ChildPath, "removed")
    BY <1>0, <1>4 DEF RemoveEntry
  <2> QED BY <2>1, AsksPath DEF Handler
<1>5. CASE RenameAt
  <2>1. ~waiting /\ frame.phase = "at" /\ op # "exit"
    BY <1>0, <1>5 DEF RenameAt
  <2>2. Locally(Idle) \/ Locally(Then(frame, "remove"))
    BY <1>5, Zenon DEF RenameAt
  <2> QED BY <2>1, <2>2, GuestIdles, GuestEnters
<1>6. CASE LinkAt
  <2>1. ~waiting /\ frame.phase = "at" /\ op \in PathOperations
    BY <1>0, <1>6 DEF LinkAt, PathOperations
  <2>2. Locally(Idle) \/ Locally(Walk([frame EXCEPT !.moved = frame.ent], frame.do.to, 2))
    BY <1>6, Zenon DEF LinkAt
  <2> QED BY <2>1, <2>2, GuestIdles, GuestWalks
<1>7. CASE LinkOver
  <2>1. ~waiting /\ frame.phase = "at" /\ op # "exit"
    BY <1>0, <1>7 DEF LinkOver
  <2>2. \/ Trap
        \/ \E files : Locally(Sizes(frame, files, "end"))
        \/ op = "rename" /\ \E files : Locally(Sizes(frame, files, "relink"))
    <3> DEFINE check == LinkChecks(frame.moved, frame.ent, op = "rename")
               then == IF check.fails /\ op = "rename" THEN "relink" ELSE "end"
    <3>1. Trap \/ Locally(Sizes(frame, check.todo, then))
      BY <1>7, Zenon DEF LinkOver
    <3>2. then = "end" \/ (then = "relink" /\ op = "rename")
      BY Zenon
    <3> HIDE DEF then, check
    <3> QED BY <3>1, <3>2, Zenon
  <2> QED BY <2>1, <2>2, TrapKeeps, GuestStats
<1>8. CASE Relink
  <2>1. ~waiting /\ frame.phase = "relink" /\ op \in PathOperations
    BY <1>0, <1>8 DEF Relink, PathOperations
  <2>2. Trap \/ Locally(Walk(frame, frame.do.path, 3))
    BY <1>8, Zenon DEF Relink
  <2> QED BY <2>1, <2>2, TrapKeeps, GuestWalks
<1> QED BY <1>1, <1>2, <1>3, <1>4, <1>5, <1>6, <1>7, <1>8


\* A descriptor of a directory, or of a file that is appended to, is the last
\* an operation does; path_create_directory drops it.
LEMMA Pushes ==
  ASSUME WasiInv, BufferInv', ~waiting', frame.phase \notin {"reading", "writing"} \/ ~waiting,
         NEW os, Grown(os), NEW o \in 1..Len(objs), NEW pos \in Nat, NEW ds, ds = Push(o, pos),
         Continue(Idle, os, ds),
         objs[o].kind = "file" => /\ "append" \in flags /\ objs[o].opens > 0
                                  /\ objs[o].opens = 1 =>
                                       \A f \in 1..Len(fds) : ~Shows(fds[f], o)
  PROVE  WasiInv'
<1>1. frame' = Idle /\ objs' = os /\ fds' = ds /\ table' = table
  BY DEF Continue, sysVars
<1>2. CASE "nofd" \in flags
  <2>1. ds = fds
    BY <1>2 DEF Push
  <2>2. Len(os) \in Nat
    BY DEF Grown, InodesOK
  <2>3. FrameOK(Idle, os, fds)
    BY <2>2, IdleOK
  <2>4. Idle.phase = "idle"
    BY DEF Idle
  <2>5. Continue(Idle, os, fds)
    BY <2>1
  <2> QED BY <2>3, <2>4, <2>5, Proceeds
<1>3. CASE "nofd" \notin flags
  <2> DEFINE d == [kind |-> objs[o].kind, ob |-> o, pos |-> pos, plain |-> "append" \notin flags]
  <2>1. ds = Append(fds, d)
    BY <1>3 DEF Push
  <2>2. d \in Descriptors
    <3>1. objs[o].kind \in {"file", "dir", "closed"}
      BY DEF WasiInv, InodesOK, InodeOK
    <3>2. o \in Nat \ {0}
      BY DEF WasiInv, InodesOK
    <3>3. ("append" \notin flags) \in BOOLEAN
      OBVIOUS
    <3> QED BY <3>1, <3>2, <3>3 DEF Descriptors
  <2>3. d.ob = o /\ d.kind = objs[o].kind /\ ("append" \in flags => ~d.plain)
    OBVIOUS
  <2> HIDE DEF d
  <2>4. WasiTable'
    BY <1>1 DEF WasiInv, WasiTable
  <2>5. Still
    BY <1>1, <2>4 DEF Still, AskedOK, Answering
  <2> QED BY <1>1, <2>1, <2>2, <2>3, <2>5, Opens
<1> QED BY <1>2, <1>3

\* An object is a directory or a file.
LEMMA Kinds ==
  ASSUME WasiInv, NEW o \in 1..Len(objs)
  PROVE  (IsDirectory(o) <=> objs[o].kind = "dir") /\ (~IsDirectory(o) <=> objs[o].kind = "file")
BY DEF WasiInv, InodesOK, InodeOK, IsDirectory

\* Opening, up to the calls.
LEMMA OpenSteps ==
  ASSUME WasiInv, OpenAt \/ Make \/ OpenEntry \/ OpenCut \/ SeekEnd
  PROVE  WasiInv'
<1>0. ASSUME NEW p \in {"at", "entry", "cutopen", "append"}, In(p)
      PROVE  /\ ~waiting /\ frame.phase = p /\ op # "exit" /\ FrameOK(frame, objs, fds)
             /\ (p # "at" => frame.ent \in 1..Len(objs))
             /\ (p \in {"cutopen", "append"} => objs[frame.ent].kind = "file")
  <2>1. ~waiting /\ frame.phase = p
    BY <1>0 DEF In
  <2>2. op # "exit" /\ FrameOK(frame, objs, fds)
    BY <2>1, UnderWay
  <2>3. Len(objs) \in Nat
    BY DEF WasiInv, InodesOK
  <2> QED BY <2>1, <2>2, <2>3 DEF FrameOK, op
<1>1. CASE OpenAt
  <2>1. ~waiting /\ frame.phase = "at" /\ op \in PathOperations /\ op # "exit"
    BY <1>0, <1>1 DEF OpenAt, PathOperations
  <2>2. \/ Locally(Idle) \/ Locally(Walk(frame, frame.do.path, 2))
        \/ frame.ent # 0 /\ Locally(Then(frame, "entry"))
    BY <1>1 DEF OpenAt
  <2> QED BY <2>1, <2>2, GuestIdles, GuestWalks, GuestEnters
<1>2. CASE Make
  <2>1. frame.phase = "at" /\ op # "exit"
    BY <1>0, <1>2 DEF Make
  <2>2. AskPath("path_mkdir", ChildPath, "made") \/ AskPath("path_touch", ChildPath, "made")
    BY <1>2 DEF Make
  <2> QED BY <2>1, <2>2, AsksPath DEF Handler
<1>3. CASE OpenEntry
  <2>1. ~waiting /\ frame.phase = "entry" /\ op # "exit" /\ frame.ent \in 1..Len(objs) /\ frame.ent # 0
    BY <1>0, <1>3 DEF OpenEntry
  <2>2. CASE IsDirectory(frame.ent) /\ Continue(Idle, objs, Push(frame.ent, 0)) /\ UNCHANGED bufferVars
    <3>1. BufferInv' /\ ~waiting'
      BY <2>1, <2>2, BufferGoesOn DEF bufferVars
    <3>2. Grown(objs) /\ objs[frame.ent].kind # "file"
      BY <2>1, <2>2, SameGrown, Kinds DEF WasiInv, IsDirectory
    <3> QED BY <2>1, <2>2, <3>1, <3>2, Pushes
  <2>3. CASE IsDirectory(frame.ent) /\ AskPath("path_readdir", objs[frame.ent].path, "opendir")
    <3>1. objs[frame.ent].kind = "dir"
      BY <2>1, <2>3, Kinds
    <3> QED BY <2>1, <2>3, <3>1, AsksPath DEF Handler
  <2>4. CASE Locally(Sizes(frame, <<frame.ent>>, "end"))
    BY <2>1, <2>4, GuestStats
  <2>5. CASE ~IsDirectory(frame.ent) /\ AskPath("path_open", objs[frame.ent].path, "opening")
    <3>1. objs[frame.ent].kind = "file"
      BY <2>1, <2>5, Kinds
    <3> QED BY <2>1, <2>5, <3>1, AsksPath DEF Handler
  <2>6. CASE ~IsDirectory(frame.ent) /\ AskPath("path_truncate", objs[frame.ent].path, "cut")
    <3>1. objs[frame.ent].kind = "file"
      BY <2>1, <2>6, Kinds
    <3> QED BY <2>1, <2>6, <3>1, AsksPath DEF Handler
  <2> QED BY <1>3, <2>2, <2>3, <2>4, <2>5, <2>6, Zenon DEF OpenEntry
<1>4. CASE OpenCut
  <2>1. frame.phase = "cutopen" /\ op # "exit" /\ frame.ent # 0 /\ objs[frame.ent].kind = "file"
    BY <1>0, <1>4 DEF OpenCut
  <2>2. AskPath("path_open", objs[frame.ent].path, "opening")
    BY <1>4 DEF OpenCut
  <2> QED BY <2>1, <2>2, AsksPath DEF Handler
<1>5. CASE SeekEnd
  <2>1. frame.phase = "append" /\ op # "exit"
    BY <1>0, <1>5 DEF SeekEnd
  <2>2. AskPath("path_size", objs[frame.ent].path, "atend")
    BY <1>5 DEF SeekEnd
  <2> QED BY <2>1, <2>2, AsksPath DEF Handler
<1> QED BY <1>1, <1>2, <1>3, <1>4, <1>5

(***************************************************************************)
(* Operations on a descriptor.                                             *)
(***************************************************************************)

\* The descriptors ds are those there are, at other places: where[f] is where
\* f was.
Rearranged(ds, where) ==
  /\ ds \in Seq(Descriptors) /\ Len(ds) = Len(fds)
  /\ \A f \in 1..Len(fds) : ds[f].ob \in 1..Len(objs)
  /\ \A f \in 1..Len(fds) : ds[f].kind # "closed" =>
       /\ where[f] \in 1..Len(fds)
       /\ ds[f].ob = fds[where[f]].ob /\ ds[f].kind = fds[where[f]].kind
  /\ \A f, g \in 1..Len(fds) :
       ds[f].kind # "closed" /\ ds[g].kind # "closed" /\ where[f] = where[g] => f = g

\* Their positions are the offsets of the kernel.
Standing(ds) ==
  \A f \in 1..Len(fds) :
    ds[f].kind = "file" /\ ds[f].plain /\ objs[ds[f].ob].opens = 1 =>
      table["wasi"].fds[objs[ds[f].ob].kfd].off = ds[f].pos

\* An operation ends with the descriptors rearranged and their positions right.
LEMMA Rearranges ==
  ASSUME WasiInv, BufferInv', ~waiting', NEW ds, Continue(Idle, objs, ds),
         NEW where, Rearranged(ds, where), Standing(ds)
  PROVE  WasiInv'
<1>1. frame' = Idle /\ objs' = objs /\ fds' = ds /\ table' = table
  BY DEF Continue, sysVars
<1>2. WasiTable' /\ InodesOK(objs') /\ OwnHandle'
  BY <1>1 DEF WasiInv, WasiTable, OwnHandle
<1>3. AskedOK' /\ AnswerOK'
  BY DEF AskedOK, AnswerOK, Answering
<1>4. FdsOK(fds', objs')
  <2>1. \A f \in 1..Len(fds) : ds[f].kind \in {"closed", objs[ds[f].ob].kind}
    BY DEF Rearranged, WasiInv, FdsOK
  <2> QED BY <1>1, <2>1 DEF Rearranged, FdsOK
<1>5. FrameOK(frame', objs', fds')
  <2>1. Len(objs) \in Nat
    BY DEF WasiInv, InodesOK
  <2> QED BY <1>1, <2>1, IdleOK
<1>6. OneEach'
  <2> SUFFICES ASSUME NEW o \in 1..Len(objs), objs[o].kind = "file"
               PROVE  /\ objs[o].opens <= 1 =>
                           \A f, g \in 1..Len(ds) : Shows(ds[f], o) /\ Shows(ds[g], o) => f = g
                      /\ objs[o].opens = 0 => \A f \in 1..Len(ds) : ~Shows(ds[f], o)
    BY <1>1 DEF OneEach, Idle
  <2>1. ASSUME NEW f \in 1..Len(ds), Shows(ds[f], o)
        PROVE  /\ f \in 1..Len(fds) /\ ds[f].kind # "closed"
               /\ where[f] \in 1..Len(fds) /\ Shows(fds[where[f]], o)
    BY <2>1 DEF Rearranged, Shows
  <2>2. /\ objs[o].opens <= 1 =>
             \A f, g \in 1..Len(fds) : Shows(fds[f], o) /\ Shows(fds[g], o) => f = g
        /\ objs[o].opens = 0 => \A f \in 1..Len(fds) : ~Shows(fds[f], o)
    BY DEF WasiInv, OneEach
  <2>3. objs[o].opens = 0 => \A f \in 1..Len(ds) : ~Shows(ds[f], o)
    BY <2>1, <2>2
  <2>4. ASSUME objs[o].opens <= 1, NEW f \in 1..Len(ds), NEW g \in 1..Len(ds),
               Shows(ds[f], o), Shows(ds[g], o)
        PROVE  f = g
    <3>1. where[f] = where[g]
      BY <2>1, <2>2, <2>4
    <3> QED BY <2>1, <2>4, <3>1 DEF Rearranged
  <2> QED BY <2>3, <2>4
<1>7. InStep'
  <2> SUFFICES ASSUME NEW f \in 1..Len(ds), ds[f].kind = "file", ds[f].plain,
                      objs[ds[f].ob].opens = 1
               PROVE  Agree(f)'
    BY <1>1 DEF InStep
  <2>1. f \in 1..Len(fds) /\ Len(ds) \in Nat /\ ds \in Seq(Descriptors)
    BY DEF Rearranged
  <2>2. ds[f] \in Descriptors
    BY <2>1
  <2>3. ds[f].pos \in Nat
    BY <2>2 DEF Descriptors
  <2>4. ~Moving(f)'
    BY DEF Moving, Answering
  <2>5. table["wasi"].fds[objs[ds[f].ob].kfd].off = ds[f].pos
    BY <2>1 DEF Standing
  <2>6. /\ table'["wasi"].fds[objs'[fds'[f].ob].kfd].off = fds'[f].pos
        /\ fds'[f].pos \in Nat
    BY <1>1, <2>3, <2>5, Zenon
  <2> QED BY <2>4, <2>6 DEF Agree
<1> QED BY <1>2, <1>3, <1>4, <1>5, <1>6, <1>7 DEF WasiInv

\* A descriptor that is not on the move agrees with the kernel.
LEMMA AtRest ==
  ASSUME WasiInv, NEW f \in 1..Len(fds), ~Moving(f),
         fds[f].kind = "file", fds[f].plain, objs[fds[f].ob].opens = 1
  PROVE  table["wasi"].fds[objs[fds[f].ob].kfd].off = fds[f].pos
<1>1. Agree(f) /\ fds[f].pos \in Nat
  BY Positions DEF WasiInv, InStep
<1> QED BY <1>1 DEF Agree

\* One descriptor gets another position.
LEMMA Repositions ==
  ASSUME WasiInv, BufferInv', ~waiting', NEW at \in 1..Len(fds),
         NEW pos \in Nat, NEW plain \in BOOLEAN, Continue(Idle, objs, SetPos(at, pos, plain)),
         \A f \in 1..Len(fds) : Moving(f) => f = at,
         fds[at].kind = "file" /\ plain /\ objs[fds[at].ob].opens = 1 =>
           table["wasi"].fds[objs[fds[at].ob].kfd].off = pos
  PROVE  WasiInv'
<1> DEFINE ds == SetPos(at, pos, plain)  where == [f \in 1..Len(fds) |-> f]
<1>1. fds \in Seq(Descriptors) /\ Len(fds) \in Nat /\ fds[at] \in Descriptors
  <2>1. fds \in Seq(Descriptors)
    BY DEF WasiInv, FdsOK
  <2> QED BY <2>1
<1> DEFINE d == [fds[at] EXCEPT !.pos = pos, !.plain = plain]
<1>2. d \in Descriptors /\ d.kind = fds[at].kind /\ d.ob = fds[at].ob /\ d.pos = pos /\ d.plain = plain
  BY <1>1 DEF Descriptors
<1>3. ds = [fds EXCEPT ![at] = d]
  BY <1>1 DEF SetPos, Descriptors
<1> HIDE DEF d
<1>4. /\ ds \in Seq(Descriptors) /\ Len(ds) = Len(fds) /\ ds[at] = d
      /\ \A f \in 1..Len(fds) : f # at => ds[f] = fds[f]
  <2> HIDE DEF ds
  <2> QED BY <1>1, <1>2, <1>3
<1> HIDE DEF ds
<1>5. \A f \in 1..Len(fds) : ds[f].kind = fds[f].kind /\ ds[f].ob = fds[f].ob
  BY <1>2, <1>4
<1>6. \A f \in 1..Len(fds) : fds[f].ob \in 1..Len(objs)
  BY DEF WasiInv, FdsOK
<1>7. Rearranged(ds, where)
  BY <1>4, <1>5, <1>6 DEF Rearranged
<1>8. ASSUME NEW f \in 1..Len(fds), ds[f].kind = "file", ds[f].plain, objs[ds[f].ob].opens = 1
      PROVE  table["wasi"].fds[objs[ds[f].ob].kfd].off = ds[f].pos
  <2>1. CASE f = at
    BY <1>2, <1>4, <1>8, <2>1
  <2>2. CASE f # at
    BY <1>4, <1>8, <2>2, AtRest
  <2> QED BY <2>1, <2>2
<1>9. Continue(Idle, objs, ds)
  BY DEF ds
<1> HIDE DEF where
<1>10. Standing(ds)
  BY <1>8 DEF Standing
<1> QED BY <1>7, <1>9, <1>10, Rearranges

\* A call about the file of the descriptor.
LEMMA AsksFile ==
  ASSUME WasiInv, NEW m \in {"fd_read", "fd_write", "fd_flush"}, NEW p, AskFile(m, p),
         frame.phase = "fd", op # "exit", p \in {"reading", "writing", "flushed"},
         m = "fd_read" <=> p = "reading", m = "fd_write" <=> p = "writing",
         p = "reading" => op = "read", p = "writing" => op = "write"
  PROVE  WasiInv'
<1> DEFINE call == [NoCall EXCEPT !.m = m, !.fd = objs[Opened.ob].kfd, !.n = frame.do.n]
<1>1. Ask(call, p)
  BY DEF AskFile
<1>2. /\ DOMAIN call = DOMAIN NoCall /\ call.m = m /\ call.fd = objs[Opened.ob].kfd
      /\ call.n = frame.do.n
  BY DEF NoCall
<1> HIDE DEF call
<1>3. FrameOK(frame, objs, fds)
  BY DEF WasiInv
<1>4. FrameOK([frame EXCEPT !.phase = p], objs, fds)
  BY <1>3, PhaseOK DEF op
<1>5. call.m \in DOMAIN Handler
  BY <1>2 DEF Handler
<1> QED BY <1>1, <1>2, <1>4, <1>5, Asks

\* Closing: the descriptor is at no place.
LEMMA Closes ==
  ASSUME WasiInv, ~waiting, BufferInv', ~waiting', NEW from \in 1..Len(fds), NEW to,
         Continue(Idle, objs, [fds EXCEPT ![to] = fds[from], ![from].kind = "closed"])
  PROVE  WasiInv'
<1> DEFINE ds == [fds EXCEPT ![to] = fds[from], ![from].kind = "closed"]
           where == [f \in 1..Len(fds) |-> IF f = to THEN from ELSE f]
<1>1. fds \in Seq(Descriptors) /\ Len(fds) \in Nat /\ fds[from] \in Descriptors
  <2>1. fds \in Seq(Descriptors)
    BY DEF WasiInv, FdsOK
  <2> QED BY <2>1
<1> DEFINE d == [fds[from] EXCEPT !.kind = "closed"]
<1>2. d \in Descriptors /\ d.kind = "closed" /\ d.ob = fds[from].ob
  BY <1>1 DEF Descriptors
<1> HIDE DEF d
<1>3. ds = [[fds EXCEPT ![to] = fds[from]] EXCEPT ![from] = d]
  <2>1. [fds EXCEPT ![to] = fds[from]][from] = fds[from]
    BY <1>1
  <2> QED BY <1>1, <2>1 DEF d
<1>4. /\ ds \in Seq(Descriptors) /\ Len(ds) = Len(fds) /\ ds[from] = d
      /\ \A f \in 1..Len(fds) : f # from => ds[f] = (IF f = to THEN fds[from] ELSE fds[f])
  <2> DEFINE mid == [fds EXCEPT ![to] = fds[from]]
  <2> HIDE DEF ds
  <2>1. mid \in Seq(Descriptors) /\ Len(mid) = Len(fds)
        /\ \A f \in 1..Len(fds) : mid[f] = (IF f = to THEN fds[from] ELSE fds[f])
    <3>1. CASE to \in 1..Len(fds)
      BY <1>1, <3>1
    <3>2. CASE to \notin 1..Len(fds)
      <4>1. mid = fds
        BY <1>1, <3>2
      <4> HIDE DEF mid
      <4> QED BY <1>1, <3>2, <4>1
    <3> QED BY <3>1, <3>2
  <2>2. ds = [mid EXCEPT ![from] = d]
    BY <1>3
  <2> HIDE DEF mid
  <2> QED BY <1>1, <1>2, <2>1, <2>2
<1> HIDE DEF ds
<1>5. \A f \in 1..Len(fds) : fds[f].ob \in 1..Len(objs)
  BY DEF WasiInv, FdsOK
<1>6. \A f \in 1..Len(fds) : where[f] = (IF f = to THEN from ELSE f)
  OBVIOUS
<1> HIDE DEF where
<1>7. ASSUME NEW f \in 1..Len(fds), ds[f].kind # "closed"
      PROVE  f # from /\ where[f] \in 1..Len(fds) /\ ds[f] = fds[where[f]]
  BY <1>2, <1>4, <1>6, <1>7
<1>8. Rearranged(ds, where)
  <2>1. \A f \in 1..Len(fds) : ds[f].ob \in 1..Len(objs)
    BY <1>2, <1>4, <1>5
  <2>2. \A f, g \in 1..Len(fds) :
          ds[f].kind # "closed" /\ ds[g].kind # "closed" /\ where[f] = where[g] => f = g
    BY <1>6, <1>7
  <2> QED BY <1>4, <1>7, <2>1, <2>2 DEF Rearranged
<1>9. ASSUME NEW f \in 1..Len(fds), ds[f].kind = "file", ds[f].plain, objs[ds[f].ob].opens = 1
      PROVE  table["wasi"].fds[objs[ds[f].ob].kfd].off = ds[f].pos
  <2>1. where[f] \in 1..Len(fds) /\ ds[f] = fds[where[f]]
    BY <1>7, <1>9
  <2>2. ~Moving(where[f])
    BY DEF Moving, Answering
  <2> QED BY <1>9, <2>1, <2>2, AtRest
<1>10. Continue(Idle, objs, ds)
  BY DEF ds
<1>11. Standing(ds)
  BY <1>9 DEF Standing
<1> QED BY <1>8, <1>10, <1>11, Rearranges

\* Operations on a descriptor, up to the call.
LEMMA FdSteps ==
  ASSUME WasiInv, \/ ReadAt \/ WriteAt \/ Seek \/ Flush \/ FdStat \/ Allocate \/ SetSize
                  \/ LargeEnough \/ ReadDirAt \/ CloseFd \/ Renumber \/ Exit
  PROVE  WasiInv'
<1>0. ASSUME NEW p \in {"fd", "extend"}, In(p)
      PROVE  /\ ~waiting /\ frame.phase = p /\ FrameOK(frame, objs, fds)
             /\ (op # "exit" => frame.do.fd \in 1..Len(fds))
  <2>1. ~waiting /\ frame.phase = p
    BY <1>0 DEF In
  <2> QED BY <2>1 DEF WasiInv, FrameOK, op
<1>b. UNCHANGED bufferVars /\ ~waiting => BufferInv' /\ ~waiting'
  BY BufferGoesOn DEF bufferVars
<1>1. CASE ReadAt \/ WriteAt \/ Flush
  <2>1. frame.phase = "fd" /\ op # "exit"
    BY <1>0, <1>1 DEF ReadAt, WriteAt, Flush
  <2>2. \/ op = "read" /\ AskFile("fd_read", "reading")
        \/ op = "write" /\ AskFile("fd_write", "writing")
        \/ AskFile("fd_flush", "flushed")
    BY <1>1 DEF ReadAt, WriteAt, Flush
  <2> QED BY <2>1, <2>2, AsksFile
<1>2. CASE Seek
  <2>1. ~waiting /\ frame.do.fd \in 1..Len(fds) /\ UNCHANGED bufferVars
    BY <1>0, <1>2 DEF Seek
  <2>2. Continue(Idle, objs, SetPos(frame.do.fd, 0, FALSE))
    BY <1>2 DEF Seek
  <2>3. \A f \in 1..Len(fds) : ~Moving(f)
    BY <2>1 DEF Moving, Answering
  <2> QED BY <1>b, <2>1, <2>2, <2>3, Repositions
<1>3. CASE FdStat \/ Allocate
  <2>1. ~waiting /\ frame.phase = "fd" /\ op # "exit"
    BY <1>0, <1>3 DEF FdStat, Allocate
  <2>2. Locally(Sizes(frame, <<Opened.ob>>, "end")) \/ Locally(Sizes(frame, <<Opened.ob>>, "extend"))
    BY <1>3 DEF FdStat, Allocate
  <2> QED BY <2>1, <2>2, GuestStats
<1>4. CASE SetSize
  <2>1. frame.phase # "idle" /\ op # "exit" /\ AskPath("path_truncate", objs[Opened.ob].path, "resized")
    BY <1>0, <1>4 DEF SetSize
  <2> QED BY <2>1, AsksPath DEF Handler
<1>5. CASE LargeEnough
  <2>1. ~waiting /\ Locally(Idle)
    BY <1>0, <1>5 DEF LargeEnough
  <2> QED BY <2>1, GuestIdles
<1>6. CASE ReadDirAt
  <2>1. ~waiting /\ frame.phase = "fd" /\ op # "exit"
    BY <1>0, <1>6 DEF ReadDirAt
  <2>2. Trap \/ \E files : Locally(Sizes(frame, files, "end"))
    BY <1>6, Zenon DEF ReadDirAt
  <2> QED BY <2>1, <2>2, TrapKeeps, GuestStats
<1>7. CASE CloseFd
  <2>1. ~waiting /\ frame.do.fd \in 1..Len(fds) /\ UNCHANGED bufferVars
    BY <1>0, <1>7 DEF CloseFd
  <2>2. Continue(Idle, objs, [fds EXCEPT ![frame.do.fd].kind = "closed"])
    BY <1>7 DEF CloseFd
  <2>3. [fds EXCEPT ![frame.do.fd] = fds[frame.do.fd], ![frame.do.fd].kind = "closed"]
          = [fds EXCEPT ![frame.do.fd].kind = "closed"]
    <3>1. fds \in Seq(Descriptors)
      BY DEF WasiInv, FdsOK
    <3> QED BY <3>1
  <2> QED BY <1>b, <2>1, <2>2, <2>3, Closes
<1>8. CASE Renumber
  <2>1. ~waiting /\ frame.do.fd \in 1..Len(fds) /\ UNCHANGED bufferVars
    BY <1>0, <1>8 DEF Renumber
  <2>2. Continue(Idle, objs, [fds EXCEPT ![frame.do.n] = fds[frame.do.fd],
                                         ![frame.do.fd].kind = "closed"])
    BY <1>8 DEF Renumber, Opened
  <2> QED BY <1>b, <2>1, <2>2, Closes
<1>9. CASE Exit
  <2>1. frame.phase = "fd" /\ op = "exit" /\ Ask([NoCall EXCEPT !.m = "exit"], "exiting")
    BY <1>0, <1>9 DEF Exit
  <2>2. FrameOK([frame EXCEPT !.phase = "exiting"], objs, fds)
    BY <2>1, PhaseOK DEF WasiInv, op
  <2>3. PICK call : call = [NoCall EXCEPT !.m = "exit"]
    OBVIOUS
  <2>4. DOMAIN call = DOMAIN NoCall /\ call.m = "exit" /\ call.m \in DOMAIN Handler
    BY <2>3 DEF NoCall, Handler
  <2>5. Ask(call, "exiting")
    BY <2>1, <2>3
  <2> QED BY <2>2, <2>4, <2>5, Asks
<1> QED BY <1>1, <1>2, <1>3, <1>4, <1>5, <1>6, <1>7, <1>8, <1>9

(***************************************************************************)
(* The guest goes on after a call.                                         *)
(***************************************************************************)

\* It wakes up with the answer to its call.
LEMMA Woken ==
  ASSUME WasiInv, NEW p, WokenIn(p)
  PROVE  /\ frame.phase = p /\ Answering /\ BufferInv' /\ ~waiting'
         /\ FrameOK(frame, objs, fds) /\ InodesOK(objs) /\ Len(objs) \in Nat
         /\ (p \notin {"idle", "fd", "exiting"} => op # "exit" /\ frame.do.fd \in 1..Len(fds))
BY BufferGoesOn DEF WokenIn, Wake, Answering, WasiInv, FrameOK, InodesOK, op

\* The directory a listing came for has it now.
LEMMA ListingCame ==
  ASSUME WasiInv, NEW p \in {"listing", "opendir", "emptying"}, WokenIn(p), NEW o
  PROVE  /\ Grown(Listed(objs, o, answer)) /\ InodesOK(Listed(objs, o, answer))
         /\ FrameOK(frame, Listed(objs, o, answer), fds)
<1>1. frame.phase = p /\ Answering /\ FrameOK(frame, objs, fds) /\ InodesOK(objs)
  BY Woken
<1>2. IsFiniteSet(answer)
  BY <1>1 DEF WasiInv, AnswerOK
<1>3. Grown(Listed(objs, o, answer))
  BY <1>1, <1>2, ListedGrows
<1>4. FrameOK(frame, Listed(objs, o, answer), fds)
  BY <1>1, <1>3, FrameGrows
<1> QED BY <1>3, <1>4 DEF Grown

\* After a call that told of a path.
LEMMA PathSteps ==
  ASSUME WasiInv, Sized \/ ListingRead \/ DirectoryOpened \/ Cut \/ AtEnd \/ EmptyKnown \/ Resized
  PROVE  WasiInv'
<1>g. Grown(objs)
  BY SameGrown DEF WasiInv
<1>1. CASE Sized
  <2>1. WokenIn("sized") /\ Continue(Sizes(frame, Tail(frame.todo), frame.then), objs, fds)
    BY <1>1 DEF Sized
  <2>2. /\ frame.phase = "sized" /\ FrameOK(frame, objs, fds) /\ Len(objs) \in Nat /\ op # "exit"
    BY <2>1, Woken
  <2>3. frame.then \in {"end", "remove", "extend", "relink"} /\ (frame.then = "relink" => op = "rename")
    BY <2>2 DEF FrameOK, op
  <2>4. /\ FrameOK(Sizes(frame, Tail(frame.todo), frame.then), objs, fds)
        /\ Sizes(frame, Tail(frame.todo), frame.then).phase \in {"idle", "sizes", "remove", "extend", "relink"}
    BY <2>2, <2>3, SizesOK
  <2> QED BY <1>g, <2>1, <2>4, WokenStep
<1>2. CASE ListingRead
  <2> DEFINE os == Listed(objs, frame.cur, answer)
  <2>1. WokenIn("listing") /\ Continue(Found(os, frame), os, fds)
    BY <1>2 DEF ListingRead
  <2>2. Grown(os) /\ InodesOK(os) /\ FrameOK(frame, os, fds) /\ frame.phase = "listing"
    BY <2>1, ListingCame, Woken
  <2> HIDE DEF os
  <2>3. FrameOK(Found(os, frame), os, fds) /\ Found(os, frame).phase \in {"at", "walk", "astray"}
    BY <2>2, FoundOK
  <2> QED BY <2>1, <2>2, <2>3, WokenStep
<1>3. CASE DirectoryOpened
  <2> DEFINE os == Listed(objs, frame.ent, answer)
  <2>1. WokenIn("opendir") /\ Continue(Idle, os, Push(frame.ent, 0))
    BY <1>3 DEF DirectoryOpened
  <2>2. Grown(os) /\ frame.phase = "opendir" /\ BufferInv' /\ ~waiting'
        /\ FrameOK(frame, objs, fds) /\ Len(objs) \in Nat
    BY <2>1, ListingCame, Woken
  <2> HIDE DEF os
  <2>3. frame.ent \in 1..Len(objs) /\ objs[frame.ent].kind = "dir"
    BY <2>2 DEF FrameOK
  <2> QED BY <2>1, <2>2, <2>3, Pushes
<1>4. CASE Cut
  <2>1. WokenIn("cut") /\ Continue([frame EXCEPT !.phase = "cutopen"], objs, fds)
    BY <1>4 DEF Cut
  <2>2. frame.phase = "cut" /\ FrameOK(frame, objs, fds) /\ op # "exit"
    BY <2>1, Woken
  <2>3. frame.ent # 0 /\ objs[frame.ent].kind = "file"
    BY <2>2 DEF FrameOK
  <2>4. FrameOK([frame EXCEPT !.phase = "cutopen"], objs, fds)
    BY <2>2, <2>3, PhaseOK DEF op
  <2>5. [frame EXCEPT !.phase = "cutopen"].phase = "cutopen"
    BY <2>2 DEF FrameOK, Idle
  <2> QED BY <1>g, <2>1, <2>4, <2>5, WokenStep
<1>5. CASE AtEnd
  <2>1. WokenIn("atend") /\ Continue(Idle, objs, Push(frame.ent, 1))
    BY <1>5 DEF AtEnd
  <2>2. frame.phase = "atend" /\ BufferInv' /\ ~waiting' /\ FrameOK(frame, objs, fds) /\ Len(objs) \in Nat
    BY <2>1, Woken
  <2>3. /\ frame.ent \in 1..Len(objs) /\ objs[frame.ent].kind = "file"
        /\ objs[frame.ent].opens > 0 /\ "append" \in flags
    BY <2>2 DEF FrameOK, flags
  <2>4. objs[frame.ent].opens = 1 => \A f \in 1..Len(fds) : ~Shows(fds[f], frame.ent)
    BY <2>2, <2>3 DEF WasiInv, OneEach
  <2> QED BY <1>g, <2>1, <2>2, <2>3, <2>4, Pushes
<1>6. CASE EmptyKnown
  <2> DEFINE os == Listed(objs, frame.ent, answer)
  <2>1. WokenIn("emptying") /\ Continue(EmptyThen(os), os, fds)
    BY <1>6 DEF EmptyKnown
  <2>2. Grown(os) /\ FrameOK(frame, os, fds) /\ frame.phase = "emptying" /\ op # "exit" /\ Len(os) \in Nat
    BY <2>1, ListingCame, Woken DEF InodesOK
  <2> HIDE DEF os
  <2>3. EmptyThen(os) = Idle \/ EmptyThen(os) = [frame EXCEPT !.phase = "remove"]
    BY DEF EmptyThen, Then
  <2>4. FrameOK([frame EXCEPT !.phase = "remove"], os, fds) /\ FrameOK(Idle, os, fds)
    BY <2>2, PhaseOK, IdleOK DEF op
  <2>5. [frame EXCEPT !.phase = "remove"].phase = "remove" /\ Idle.phase = "idle"
    BY <2>2 DEF FrameOK, Idle
  <2> QED BY <2>1, <2>2, <2>3, <2>4, <2>5, WokenStep
<1>7. CASE Resized
  <2>1. WokenIn("resized") /\ Continue(Idle, objs, fds)
    BY <1>7 DEF Resized
  <2>2. FrameOK(Idle, objs, fds) /\ Idle.phase = "idle"
    BY <2>1, Woken, IdleOK DEF Idle
  <2> QED BY <1>g, <2>1, <2>2, WokenStep
<1> QED BY <1>1, <1>2, <1>3, <1>4, <1>5, <1>6, <1>7

\* After a name was made or removed.
LEMMA NameSteps ==
  ASSUME WasiInv, Made \/ Removed
  PROVE  WasiInv'
<1>1. CASE Made
  <2> DEFINE kind == IF "directory" \in flags THEN "dir" ELSE "file"
             new == Len(objs) + 1
             old == objs[frame.par].entries
             E == [n \in DOMAIN old \cup {frame.name} |-> IF n = frame.name THEN new ELSE old[n]]
             base == [objs EXCEPT ![frame.par].entries = E]
             x == NewInode(ChildPath, kind)
             os == Append(base, x)
             g == [frame EXCEPT !.phase = "entry", !.ent = new]
  <2>1. WokenIn("made") /\ Continue(g, os, fds)
    BY <1>1 DEF Made
  <2>2. /\ frame.phase = "made" /\ FrameOK(frame, objs, fds) /\ InodesOK(objs) /\ Len(objs) \in Nat
        /\ op # "exit"
    BY <2>1, Woken
  <2>3. \A n \in DOMAIN E :
          E[n] = Len(objs) + 1 \/ (n \in DOMAIN old /\ E[n] = old[n])
    OBVIOUS
  <2> HIDE DEF E
  <2>4. Grown(os)
    BY <2>2, <2>3, MadeGrows
  <2>5. Len(os) = Len(objs) + 1
    <3>1. SetIn(base, frame.par, E)
      BY <2>2, ExceptSets
    <3>2. base \in Seq(Range(base)) /\ Len(base) = Len(objs)
      BY <3>1 DEF SetIn
    <3> HIDE DEF base, x
    <3> QED BY <3>2, AppendAny
  <2> HIDE DEF base, x, os
  <2>6. FrameOK(frame, os, fds)
    BY <2>2, <2>4, FrameGrows
  <2>7. /\ DOMAIN g = DOMAIN Idle /\ g.do = frame.do /\ g.ent = new /\ g.then = frame.then
        /\ g.phase = "entry"
    BY <2>2 DEF FrameOK, Idle
  <2> HIDE DEF g
  <2>8. FrameOK(g, os, fds)
    BY <2>2, <2>5, <2>6, <2>7 DEF FrameOK, op
  <2> QED BY <2>1, <2>4, <2>7, <2>8, WokenStep
<1>2. CASE Removed
  <2> DEFINE old == objs[frame.par].entries
             E == [n \in DOMAIN old \ {frame.name} |-> old[n]]
             os == [objs EXCEPT ![frame.par].entries = E]
             walk == Walk([frame EXCEPT !.moved = frame.ent], frame.do.to, 2)
             g == IF op = "rename" THEN walk ELSE Idle
  <2>1. WokenIn("removed") /\ Continue(g, os, fds)
    BY <1>2 DEF Removed
  <2>2. /\ frame.phase = "removed" /\ FrameOK(frame, objs, fds) /\ InodesOK(objs)
    BY <2>1, Woken
  <2>3. \A n \in DOMAIN E : n \in DOMAIN old /\ E[n] = old[n]
    OBVIOUS
  <2> HIDE DEF E
  <2>4. Grown(os)
    BY <2>2, <2>3, RemovedGrows
  <2> HIDE DEF os
  <2>5. FrameOK(frame, os, fds) /\ Len(os) \in Nat
    BY <2>2, <2>4, FrameGrows DEF Grown, InodesOK
  <2>6. objs' = os
    BY <2>1 DEF Continue
  <2>7. FdsOK(fds, os)
    BY <2>4, <2>6, FdsKept
  <2>8. op = "rename" => FrameOK(walk, os, fds) /\ walk.phase \in {"at", "walk"}
    BY <2>2, <2>5, <2>7, WalkAgain DEF PathOperations
  <2>9. FrameOK(Idle, os, fds) /\ Idle.phase = "idle"
    BY <2>5, IdleOK DEF Idle
  <2> HIDE DEF walk
  <2>10. FrameOK(g, os, fds) /\ g.phase \notin {"append", "atend"}
    BY <2>8, <2>9
  <2> HIDE DEF g
  <2> QED BY <2>1, <2>4, <2>10, WokenStep
<1> QED BY <1>1, <1>2

\* After a read or a write the shim catches up with the kernel.
LEMMA DataSteps ==
  ASSUME WasiInv, Read \/ Written
  PROVE  WasiInv'
<1>0. PICK p \in {"reading", "writing"} : WokenIn(p)
  BY DEF Read, Written
<1>1. /\ frame.phase = p /\ Answering /\ BufferInv' /\ ~waiting' /\ FrameOK(frame, objs, fds)
      /\ frame.do.fd \in 1..Len(fds)
  BY <1>0, Woken
<1> DEFINE at == frame.do.fd
<1>2. answer \in Nat /\ (p = "reading" /\ frame.do.n <= MaxData => answer <= MaxData)
  BY <1>1 DEF WasiInv, AnswerOK
<1>3. fds[at] \in Descriptors
  <2>1. fds \in Seq(Descriptors)
    BY DEF WasiInv, FdsOK
  <2> QED BY <1>1, <2>1
<1>4. fds[at].pos \in Nat /\ fds[at].plain \in BOOLEAN
  BY <1>3 DEF Descriptors
<1>5. \A f \in 1..Len(fds) : Moving(f) => f = at
  BY DEF Moving
<1>6. fds[at].kind = "file" /\ fds[at].plain /\ objs[fds[at].ob].opens = 1 => Agree(at)
  BY <1>1 DEF WasiInv, InStep
<1>7. Moving(at)
  BY <1>1 DEF Moving
<1>8. ASSUME Agree(at), p = "writing" \/ frame.do.n <= MaxData
      PROVE  table["wasi"].fds[objs[fds[at].ob].kfd].off = fds[at].pos + answer
  <2>1. ~(Moving(at) /\ frame.phase = "reading" /\ frame.do.n > MaxData)
    <3>1. CASE p = "writing"
      BY <1>1, <3>1
    <3>2. CASE p = "reading"
      <4>1. frame.do \in Operations \cup {NoOperation}
        BY <1>1 DEF FrameOK
      <4>2. frame.do.n \in Nat /\ MaxData \in Nat
        BY <4>1, WasiAssumption DEF NoOperation
      <4> QED BY <1>8, <3>2, <4>2
    <3> QED BY <3>1, <3>2
  <2> QED BY <1>7, <1>8, <2>1, Zenon DEF Agree
<1>9. fds[at].pos + answer \in Nat
  BY <1>2, <1>4
<1>10. CASE Written
  <2>1. Continue(Idle, objs, SetPos(at, fds[at].pos + answer, fds[at].plain)) /\ p = "writing"
    BY <1>1, <1>10 DEF Written, Opened, WokenIn
  <2> QED BY <1>1, <1>4, <1>5, <1>6, <1>8, <1>9, <2>1, Repositions
<1>11. CASE Read
  <2> DEFINE plain == fds[at].plain /\ frame.do.n <= MaxData
  <2>1. Continue(Idle, objs, SetPos(at, fds[at].pos + answer, plain))
    BY <1>11 DEF Read, Opened
  <2>2. plain \in BOOLEAN /\ (plain => fds[at].plain /\ frame.do.n <= MaxData)
    OBVIOUS
  <2> HIDE DEF plain
  <2> QED BY <1>1, <1>5, <1>6, <1>8, <1>9, <2>1, <2>2, Repositions
<1> QED BY <1>10, <1>11

\* The kernel has opened the file: the guest's object takes the new handle.
LEMMA FileOpens ==
  ASSUME WasiInv, FileOpened
  PROVE  WasiInv'
<1> DEFINE ent == frame.ent
           x == [objs[ent] EXCEPT !.kfd = answer, !.opens = @ + 1]
           os == [objs EXCEPT ![ent].kfd = answer, ![ent].opens = @ + 1]
<1>1. /\ WokenIn("opening") /\ objs' = os /\ table' = table
      /\ \/ /\ "append" \in flags /\ frame' = [frame EXCEPT !.phase = "append"] /\ fds' = fds
         \/ /\ "append" \notin flags /\ frame' = Idle /\ fds' = Push(ent, 0)
  BY DEF FileOpened, Continue, sysVars
<1>2. /\ frame.phase = "opening" /\ Answering /\ BufferInv' /\ ~waiting' /\ FrameOK(frame, objs, fds)
      /\ InodesOK(objs) /\ Len(objs) \in Nat /\ op # "exit"
  BY <1>1, Woken
<1>3. ent \in 1..Len(objs) /\ objs[ent].kind = "file"
  BY <1>2 DEF FrameOK
<1>4. /\ DOMAIN objs[ent] = {"kind", "path", "kfd", "opens"} /\ objs[ent].opens \in Nat
  BY <1>2, <1>3 DEF InodesOK, InodeOK
<1>5. /\ DOMAIN x = {"kind", "path", "kfd", "opens"} /\ x.kind = "file" /\ x.kfd = answer
      /\ x.opens = objs[ent].opens + 1
  BY <1>3, <1>4
<1>6. os = [objs EXCEPT ![ent] = x]
  <2>1. objs \in Seq(Range(objs))
    BY <1>2 DEF InodesOK
  <2> QED BY <1>3, <1>4, <2>1
<1> HIDE DEF x, os
<1>7. /\ os \in Seq(Range(os)) /\ Len(os) = Len(objs) /\ os[ent] = x
      /\ \A o \in 1..Len(objs) : o # ent => os[o] = objs[o]
  <2>1. objs \in Seq(Range(objs)) /\ DOMAIN objs = 1..Len(objs)
    BY <1>2 DEF InodesOK
  <2>2. os = [o \in 1..Len(objs) |-> os[o]]
    BY <1>6, <2>1
  <2>3. os \in Seq(Range(os)) /\ Len(os) = Len(objs)
    BY <1>2, <2>2, FunctionSeq
  <2> QED BY <1>3, <1>6, <2>1, <2>3
<1>8. \A o \in 1..Len(objs) : os[o].kind = objs[o].kind
  BY <1>3, <1>5, <1>7
<1>9. InodesOK(os)
  <2>1. ASSUME NEW o \in 1..Len(objs) PROVE InodeOK(os[o], Len(objs))
    <3>1. CASE o = ent
      BY <1>4, <1>5, <1>7, <3>1 DEF InodeOK
    <3>2. CASE o # ent
      BY <1>2, <1>7, <3>2 DEF InodesOK
    <3> QED BY <3>1, <3>2
  <2> QED BY <1>7, <2>1 DEF InodesOK
<1>10. /\ answer \in DOMAIN table["wasi"].fds /\ table["wasi"].fds[answer].off = 0
       /\ \A o \in 1..Len(objs) : HasHandle(objs[o]) => objs[o].kfd # answer
  BY <1>2 DEF WasiInv, AnswerOK
<1>11. OwnHandle'
  <2>1. \A o \in 1..Len(os) : HasHandle(os[o]) =>
          (o = ent /\ os[o].kfd = answer)
            \/ (o # ent /\ o \in 1..Len(objs) /\ HasHandle(objs[o]) /\ os[o].kfd = objs[o].kfd)
    BY <1>5, <1>7
  <2>2. \A o \in 1..Len(os) : HasHandle(os[o]) => os[o].kfd \in DOMAIN table["wasi"].fds
    BY <1>10, <2>1 DEF WasiInv, OwnHandle
  <2>3. \A o, p \in 1..Len(os) :
          HasHandle(os[o]) /\ HasHandle(os[p]) /\ os[o].kfd = os[p].kfd => o = p
    BY <1>10, <2>1 DEF WasiInv, OwnHandle
  <2> QED BY <1>1, <2>2, <2>3 DEF OwnHandle
<1>12. AskedOK' /\ AnswerOK' /\ WasiTable'
  BY <1>1, <1>2 DEF AskedOK, AnswerOK, Answering, WasiInv, WasiTable
<1> DEFINE d == [kind |-> "file", ob |-> ent, pos |-> 0, plain |-> TRUE]
<1>13. d \in Descriptors /\ Shows(d, ent)
  BY <1>2, <1>3 DEF Descriptors, Shows
<1>14. fds \in Seq(Descriptors) /\ Len(fds) \in Nat
  BY DEF WasiInv, FdsOK
<1>15. \/ fds' = fds
       \/ "append" \notin flags /\ fds' = Append(fds, d)
  BY <1>1, <1>3 DEF Push
<1>16. d.ob = ent /\ d.kind = "file" /\ d.pos = 0
  OBVIOUS
<1> HIDE DEF d
<1>17. /\ fds' \in Seq(Descriptors) /\ Len(fds') \in Nat /\ Len(fds) <= Len(fds')
       /\ \A f \in 1..Len(fds') : \/ f \in 1..Len(fds) /\ fds'[f] = fds[f]
                                  \/ f = Len(fds) + 1 /\ fds'[f] = d /\ "append" \notin flags
       /\ \A f \in 1..Len(fds) : fds'[f] = fds[f]
  BY <1>13, <1>14, <1>15
<1>18. FdsOK(fds', os)
  <2>1. \A f \in 1..Len(fds) : fds[f].ob \in 1..Len(objs) /\ fds[f].kind \in {"closed", objs[fds[f].ob].kind}
    BY DEF WasiInv, FdsOK
  <2>2. ASSUME NEW f \in 1..Len(fds')
        PROVE  fds'[f].ob \in 1..Len(os) /\ fds'[f].kind \in {"closed", os[fds'[f].ob].kind}
    <3>1. CASE f \in 1..Len(fds) /\ fds'[f] = fds[f]
      BY <1>7, <1>8, <2>1, <3>1
    <3>2. CASE fds'[f] = d
      BY <1>3, <1>7, <1>8, <1>16, <3>2
    <3> QED BY <1>17, <3>1, <3>2
  <2> QED BY <1>17, <2>2 DEF FdsOK
<1>19. FrameOK(frame', os, fds')
  <2>1. CASE frame' = Idle
    BY <1>2, <1>7, <2>1, IdleOK
  <2>2. CASE "append" \in flags /\ frame' = [frame EXCEPT !.phase = "append"] /\ fds' = fds
    <3> DEFINE g == [frame EXCEPT !.phase = "append"]
    <3>1. /\ DOMAIN g = DOMAIN Idle /\ g.do = frame.do /\ g.ent = ent /\ g.then = frame.then
          /\ g.phase = "append"
      BY <1>2 DEF FrameOK, Idle
    <3>2. os[ent].kind = "file" /\ os[ent].opens > 0
      BY <1>4, <1>5, <1>7
    <3> HIDE DEF g
    <3>3. FrameOK(g, os, fds)
      BY <1>2, <1>3, <1>7, <2>2, <3>1, <3>2 DEF FrameOK, op, flags
    <3> QED BY <2>2, <3>3 DEF g
  <2> QED BY <1>1, <2>1, <2>2
<1>a. frame'.phase \in {"append", "atend"} => fds' = fds /\ frame'.ent = ent
  <2>1. CASE frame' = Idle
    BY <2>1 DEF Idle
  <2>2. CASE frame' = [frame EXCEPT !.phase = "append"] /\ fds' = fds
    BY <1>2, <2>2 DEF FrameOK, Idle
  <2> QED BY <1>1, <2>1, <2>2
<1>20. objs[ent].opens = 0 => \A f \in 1..Len(fds) : ~Shows(fds[f], ent)
  BY <1>3 DEF WasiInv, OneEach
<1>21. OneEach'
  <2> SUFFICES ASSUME NEW o \in 1..Len(os), os[o].kind = "file"
               PROVE  /\ os[o].opens <= 1 =>
                           \A f, g \in 1..Len(fds') : Shows(fds'[f], o) /\ Shows(fds'[g], o) => f = g
                      /\ os[o].opens = 0 => \A f \in 1..Len(fds') : ~Shows(fds'[f], o)
                      /\ frame'.phase \in {"append", "atend"} /\ frame'.ent = o /\ os[o].opens = 1 =>
                           \A f \in 1..Len(fds') : ~Shows(fds'[f], o)
    BY <1>1 DEF OneEach
  <2>1. CASE o = ent
    <3>1. os[o].opens = objs[ent].opens + 1
      BY <1>5, <1>7, <2>1
    <3>2. os[o].opens # 0 /\ (os[o].opens <= 1 => objs[ent].opens = 0)
      BY <1>4, <3>1
    <3> QED BY <1>a, <1>17, <1>20, <2>1, <3>2
  <2>2. CASE o # ent
    <3>1. o \in 1..Len(objs) /\ os[o] = objs[o] /\ objs[o].kind = "file"
      BY <1>7, <2>2
    <3>2. \A f \in 1..Len(fds') : Shows(fds'[f], o) => f \in 1..Len(fds) /\ Shows(fds[f], o)
      BY <1>16, <1>17, <2>2 DEF Shows
    <3>3. ~(frame'.phase \in {"append", "atend"} /\ frame'.ent = o)
      BY <1>a, <2>2
    <3> QED BY <3>1, <3>2, <3>3 DEF WasiInv, OneEach
  <2> QED BY <2>1, <2>2
<1>22. InStep'
  <2> SUFFICES ASSUME NEW f \in 1..Len(fds'), fds'[f].kind = "file", fds'[f].plain,
                      os[fds'[f].ob].opens = 1
               PROVE  Agree(f)'
    BY <1>1 DEF InStep
  <2>1. fds'[f] \in Descriptors
    BY <1>17
  <2>2. fds'[f].pos \in Nat
    BY <2>1 DEF Descriptors
  <2>3. table["wasi"].fds[os[fds'[f].ob].kfd].off = fds'[f].pos
    <3>1. CASE f \in 1..Len(fds) /\ fds'[f] = fds[f]
      <4>1. fds[f].ob # ent
        <5>1. fds[f].ob = ent => objs[ent].opens = 0
          BY <1>4, <1>5, <1>7, <3>1
        <5> QED BY <1>20, <3>1, <5>1 DEF Shows
      <4>2. fds[f].ob \in 1..Len(objs) /\ os[fds[f].ob] = objs[fds[f].ob]
        BY <1>7, <3>1, <4>1 DEF WasiInv, FdsOK
      <4>3. ~Moving(f)
        BY <1>2 DEF Moving
      <4> QED BY <3>1, <4>2, <4>3, AtRest
    <3>2. CASE fds'[f] = d
      BY <1>5, <1>7, <1>10, <1>16, <3>2
    <3> QED BY <1>17, <3>1, <3>2
  <2>4. ~Moving(f)'
    BY <1>2 DEF Moving, Answering
  <2> QED BY <1>1, <2>2, <2>3, <2>4 DEF Agree
<1> QED BY <1>1, <1>2, <1>9, <1>11, <1>12, <1>18, <1>19, <1>21, <1>22 DEF WasiInv

\* The guest has ended.
LEMMA Exits ==
  ASSUME WasiInv, Exited
  PROVE  WasiInv'
<1>1. WokenIn("exiting") /\ UNCHANGED <<objs, fds, frame, table>>
  BY DEF Exited, sysVars
<1>2. frame.phase = "exiting" /\ BufferInv' /\ ~waiting' /\ FrameOK(frame, objs, fds)
  BY <1>1, Woken
<1>3. Grown(objs) /\ WasiTable'
  BY <1>1, SameGrown DEF WasiInv, WasiTable
<1>4. Still
  BY <1>1, <1>2, <1>3 DEF Still, AskedOK, Answering
<1> QED BY <1>1, <1>2, <1>4, GoesOn

(***************************************************************************)
(* The worker carries out the guest's call.                                *)
(***************************************************************************)

\* A directory has finitely many names, since there are finitely many paths.
LEMMA ListingFinite == \A p : IsFiniteSet(Listing(p))
<1> TAKE p
<1> DEFINE S == {q \in Under(p) : Len(q) = Len(p) + 1 /\ Exists(q)}
           f == [q \in S |-> <<Last(q), KindAt(q)>>]
<1>1. S \subseteq Paths
  BY DEF Under
<1>2. IsFiniteSet(S)
  BY <1>1, PathsAssumption, FS_Subset
<1>3. Listing(p) = {f[q] : q \in S}
  BY DEF Listing
<1> HIDE DEF S
<1>4. DOMAIN f = S
  OBVIOUS
<1> HIDE DEF f
<1>5. f \in Surjection(S, Listing(p))
  <2>1. f \in [S -> Listing(p)]
    <3>1. f = [q \in S |-> f[q]]
      BY <1>4 DEF f
    <3> QED BY <1>3, <3>1
  <2> QED BY <1>3, <2>1 DEF Surjection
<1> QED BY <1>2, <1>5, FS_Surjection

\* The calls the handler makes.
WasiMethods ==
  {"open", "truncate", "stat", "readDir", "remove", "makeDir", "writeFile", "sync",
   "read", "write", "exit"}

\* c is the call the handler makes of the guest's message r.
HandledAs(c, r) ==
  /\ DOMAIN r = DOMAIN NoCall /\ r.m \in DOMAIN Handler
  /\ c = [r EXCEPT !.m = Handler[@]]

\* It has the descriptor and the count of the message, and the method that belongs to its own.
LEMMA HandlerMethods ==
  ASSUME NEW r, NEW c, HandledAs(c, r)
  PROVE  /\ c.m \in WasiMethods /\ c.fd = r.fd /\ c.n = r.n
         /\ c.m = "open" <=> r.m = "path_open"
         /\ c.m = "read" <=> r.m = "fd_read"
         /\ c.m = "write" <=> r.m = "fd_write"
         /\ r.m = "path_readdir" => c.m = "readDir"
BY DEF NoCall, Handler, WasiMethods, HandledAs

\* What the guest's table may come to: an open gives the next number to a file
\* at its start, a read or a write moves one offset by what it delivers.
Opening(v, tb) ==
  /\ v = table["wasi"].fdCounter + 1
  /\ TableOK(tb) /\ DOMAIN tb.fds = DOMAIN table["wasi"].fds \cup {v}
  /\ tb.fds[v].off = 0
  /\ \A fd \in DOMAIN table["wasi"].fds : tb.fds[fd] = table["wasi"].fds[fd]
MovingOn(fd, v, tb) ==
  /\ fd \in DOMAIN table["wasi"].fds
  /\ TableOK(tb) /\ DOMAIN tb.fds = DOMAIN table["wasi"].fds
  /\ tb.fds[fd].off = table["wasi"].fds[fd].off + v
  /\ \A x \in DOMAIN tb.fds : x # fd => tb.fds[x] = table["wasi"].fds[x]

\* What a call of the handler comes to: an open, a read or a write changes the table as above,
\* no other call does, and a listing is finite.
LEMMA WasiOutcome ==
  ASSUME WasiTable, NEW c, c.m \in WasiMethods, c.m \in {"read", "write"} => c.n \in Nat,
         NEW out \in Outcomes("wasi", c)
  PROVE  /\ out.ok \in BOOLEAN
         /\ out.table = table["wasi"] \/ (out.ok /\ c.m \in {"open", "read", "write"})
         /\ c.m = "open" /\ out.ok => Opening(out.v, out.table)
         /\ c.m \in {"read", "write"} /\ out.ok =>
              out.v \in 0..c.n /\ MovingOn(c.fd, out.v, out.table)
         /\ c.m = "readDir" /\ out.ok => IsFiniteSet(out.v)
<1> DEFINE Shape(o) ==
         /\ o.ok \in BOOLEAN
         /\ o.table = table["wasi"] \/ (o.ok /\ c.m \in {"open", "read", "write"})
         /\ c.m = "open" /\ o.ok => Opening(o.v, o.table)
         /\ c.m \in {"read", "write"} /\ o.ok =>
              o.v \in 0..c.n /\ MovingOn(c.fd, o.v, o.table)
         /\ c.m = "readDir" /\ o.ok => IsFiniteSet(o.v)
<1>t. TableOK(table["wasi"]) /\ \A fd \in DOMAIN table["wasi"].fds : table["wasi"].fds[fd].off \in Nat
  BY DEF WasiTable
<1>r. ASSUME NEW e PROVE Shape(Refused(e, "wasi"))
  BY DEF Refused
<1>k. ASSUME NEW v, NEW tr, c.m \notin {"open", "read", "write", "readDir"}
      PROVE  Shape(Outcome(v, tr, table["wasi"]))
  BY <1>k DEF Outcome
<1>l. ASSUME c.m = "readDir" PROVE Shape(ReadDir("wasi", c.path))
  <2>1. Shape(Outcome(Listing(c.path), tree, table["wasi"]))
    BY <1>l, ListingFinite DEF Outcome
  <2> HIDE DEF Shape
  <2> QED BY <1>r, <2>1, Zenon DEF ReadDir
<1>g. ASSUME c.m = "open", NEW p, NEW kind PROVE Shape(Given("wasi", p, tree, kind))
  <2> DEFINE o == Given("wasi", p, tree, kind)  tb == WithOpen(table["wasi"], p, kind)
             n == table["wasi"].fdCounter + 1
  <2>1. o.ok = TRUE /\ o.v = n /\ o.table = tb
    BY DEF Given, Outcome, NextFd
  <2>2. Opening(n, tb)
    BY <1>t DEF WithOpen, TableOK, NextFd, Opening
  <2> HIDE DEF o, tb, n
  <2>3. Shape(o)
    BY <1>g, <2>1, <2>2
  <2> HIDE DEF Shape
  <2> QED BY <2>3 DEF o
<1>f. ASSUME c.m \in {"read", "write"}, NEW k \in 0..c.n PROVE Shape(OnFile("wasi", c.fd, k, k))
  <2> DEFINE tw == table["wasi"]
  <2>1. CASE c.fd \notin DOMAIN tw.fds \/ tw.fds[c.fd].kind = "dir"
    <3>1. OnFile("wasi", c.fd, k, k) \in {Refused("EINVAL", "wasi"), Refused("other", "wasi")}
      BY <2>1 DEF OnFile
    <3> HIDE DEF Shape
    <3> QED BY <1>r, <3>1
  <2>2. CASE ~(c.fd \notin DOMAIN tw.fds \/ tw.fds[c.fd].kind = "dir")
    <3> DEFINE tb == [tw EXCEPT !.fds[c.fd].off = @ + k]
    <3>1. MovingOn(c.fd, k, tb)
      BY <1>t, <2>2 DEF TableOK, MovingOn
    <3>2. OnFile("wasi", c.fd, k, k) = [Outcome(k, tree, tb) EXCEPT !.hit = tw.fds[c.fd].born]
      BY <2>2 DEF OnFile
    <3> HIDE DEF tb
    <3> QED BY <3>1, <3>2, <1>f DEF Outcome
  <2> QED BY <2>1, <2>2
<1> HIDE DEF Shape
<1> SUFFICES Shape(out)
  BY DEF Shape
<1>1. CASE c.m \in {"read", "write"}
  <2>1. \E k \in 0..c.n : out = OnFile("wasi", c.fd, k, k)
    <3>1. CASE c.m = "read"
      <4>1. out \in {OnFile("wasi", c.fd, k, k) : k \in 0..c.n}
        BY <3>1 DEF Outcomes
      <4> QED BY <4>1
    <3>2. CASE c.m = "write"
      <4>1. out = OnFile("wasi", c.fd, c.n, c.n)
        BY <3>2 DEF Outcomes
      <4>2. c.n \in 0..c.n
        BY <3>2
      <4> QED BY <4>1, <4>2
    <3> QED BY <1>1, <3>1, <3>2
  <2> QED BY <1>1, <1>f, <2>1
<1>2. CASE c.m = "open"
  <2>1. out = Open("wasi", c.path)
    BY <1>2 DEF Outcomes
  <2> QED BY <1>2, <1>r, <1>g, <2>1, Zenon DEF Open
<1>3. CASE c.m = "readDir"
  <2>1. out = ReadDir("wasi", c.path)
    BY <1>3 DEF Outcomes
  <2> QED BY <1>3, <1>l, <2>1
<1>4. CASE c.m \in WasiMethods \ {"open", "read", "write", "readDir"}
  <2>1. \/ out = Mkdir("wasi", c.path) \/ out = RemoveNode("wasi", c.path)
        \/ out = Stat("wasi", c.path) \/ out = OnNode("wasi", c.path)
        \/ out = WriteFile("wasi", c.path) \/ out = Refused("other", "wasi")
        \/ out = Outcome(TRUE, tree, table["wasi"])
    BY <1>4 DEF Outcomes, WasiMethods
  <2>2. c.m \notin {"open", "read", "write", "readDir"}
    BY <1>4
  <2>3. (\E e : out = Refused(e, "wasi")) \/ \E v, tr : out = Outcome(v, tr, table["wasi"])
    BY <2>1, Zenon DEF Mkdir, RemoveNode, Stat, OnNode, WriteFile
  <2> QED BY <1>r, <1>k, <2>2, <2>3
<1> QED BY <1>1, <1>2, <1>3, <1>4

\* What stays as it is while the guest waits.
LEMMA WhileWaiting ==
  ASSUME WasiInv, waiting, waiting', UNCHANGED <<objs, fds, frame, request>>
  PROVE  /\ InodesOK(objs') /\ FdsOK(fds', objs') /\ FrameOK(frame', objs', fds')
         /\ AskedOK' /\ OneEach'
BY DEF WasiInv, AskedOK, OneEach, Opened

\* The files have no fewer handles.
LEMMA HandlesStay ==
  ASSUME WasiInv, UNCHANGED objs, DOMAIN table["wasi"].fds \subseteq DOMAIN table'["wasi"].fds
  PROVE  OwnHandle'
BY DEF WasiInv, OwnHandle

\* A file that has a descriptor has a handle of its own: who has this handle
\* and was opened once is that descriptor.
LEMMA OnlyOne ==
  ASSUME WasiInv, NEW at \in 1..Len(fds), fds[at].kind = "file",
         NEW f \in 1..Len(fds), fds[f].kind = "file", objs[fds[f].ob].opens = 1,
         objs[fds[f].ob].kfd = objs[fds[at].ob].kfd
  PROVE  f = at
<1>1. /\ fds[at].ob \in 1..Len(objs) /\ objs[fds[at].ob].kind = "file"
      /\ fds[f].ob \in 1..Len(objs) /\ objs[fds[f].ob].kind = "file"
  BY DEF WasiInv, FdsOK
<1>2. objs[fds[at].ob].opens \in Nat
  BY <1>1 DEF WasiInv, InodesOK, InodeOK
<1>3. objs[fds[at].ob].opens # 0
  BY <1>1 DEF WasiInv, OneEach, Shows
<1>4. fds[at].ob = fds[f].ob
  BY <1>1, <1>2, <1>3 DEF WasiInv, OwnHandle, HasHandle
<1> QED BY <1>1, <1>4 DEF WasiInv, OneEach, Shows

\* The handler makes the call: its answer sets out, unless the kernel refused.
LEMMA HandleStep ==
  ASSUME WasiInv, HandleMessage
  PROVE  WasiInv'
<1>0. PICK c : c = [request EXCEPT !.m = Handler[@]]
  OBVIOUS
<1>1. PICK t \in mail, out \in Outcomes("wasi", c) :
        /\ Serve(t, out.ok) /\ SysCall("wasi", out)
        /\ answer' = IF out.ok THEN out.v ELSE answer
        /\ UNCHANGED <<objs, fds, frame, request, ended>>
  BY <1>0 DEF HandleMessage
<1>2. waiting /\ flag = 0 /\ serving = {} /\ stored = {} /\ waiting' /\ ~Answering
  BY <1>1 DEF WasiInv, BufferInv, OneCall, BufferTypeOK, Serve, Answering
<1>3. /\ DOMAIN request = DOMAIN NoCall /\ request.m \in DOMAIN Handler
      /\ request.m = "fd_read" <=> frame.phase = "reading"
      /\ request.m = "fd_write" <=> frame.phase = "writing"
      /\ request.m = "path_open" <=> frame.phase = "opening"
      /\ frame.phase \in {"listing", "opendir", "emptying"} => request.m = "path_readdir"
      /\ frame.phase \in {"reading", "writing"} =>
           request.fd = objs[Opened.ob].kfd /\ request.n = frame.do.n
  BY <1>2 DEF WasiInv, AskedOK
<1>4. /\ c.m \in WasiMethods /\ c.fd = request.fd /\ c.n = request.n
      /\ c.m = "open" <=> frame.phase = "opening"
      /\ c.m = "read" <=> frame.phase = "reading"
      /\ c.m = "write" <=> frame.phase = "writing"
      /\ frame.phase \in {"listing", "opendir", "emptying"} => c.m = "readDir"
  <2>1. /\ c.m \in WasiMethods /\ c.fd = request.fd /\ c.n = request.n
        /\ c.m = "open" <=> request.m = "path_open"
        /\ c.m = "read" <=> request.m = "fd_read"
        /\ c.m = "write" <=> request.m = "fd_write"
        /\ request.m = "path_readdir" => c.m = "readDir"
    <3>1. HandledAs(c, request)
      BY <1>0, <1>3, Zenon DEF HandledAs
    <3> QED BY <3>1, HandlerMethods, Zenon
  <2> QED BY <1>3, <2>1
<1>5. frame.do.n \in Nat
  <2>1. frame.do \in Operations \cup {NoOperation}
    BY DEF WasiInv, FrameOK
  <2> QED BY <2>1, WasiAssumption DEF NoOperation
<1>6. WasiTable
  BY DEF WasiInv
<1>7. /\ out.ok \in BOOLEAN
      /\ out.table = table["wasi"] \/ (out.ok /\ c.m \in {"open", "read", "write"})
      /\ c.m = "open" /\ out.ok => Opening(out.v, out.table)
      /\ c.m \in {"read", "write"} /\ out.ok =>
           out.v \in 0..c.n /\ MovingOn(c.fd, out.v, out.table)
      /\ c.m = "readDir" /\ out.ok => IsFiniteSet(out.v)
  BY <1>3, <1>4, <1>5, <1>6, WasiOutcome
<1>8. BufferInv'
  <2>1. t \in Tags /\ BufferInv
    BY <1>1 DEF WasiInv, BufferInv, BufferTypeOK
  <2> QED BY <1>1, <1>7, <2>1, BufferStep DEF BufferNext
<1>9. DOMAIN table' = Workers /\ table'["wasi"] = out.table
  BY <1>1, <1>6 DEF SysCall, WasiTable, Workers
<1>10. /\ InodesOK(objs') /\ FdsOK(fds', objs') /\ FrameOK(frame', objs', fds')
       /\ AskedOK' /\ OneEach'
  BY <1>1, <1>2, WhileWaiting
<1>11. \A f \in 1..Len(fds) : ~Moving(f)
  BY <1>2 DEF Moving
<1>12. CASE ~out.ok
  <2>1. ~Answering'
    BY <1>1, <1>2, <1>12 DEF Serve, Answering
  <2>2. WasiTable' /\ table'["wasi"] = table["wasi"]
    BY <1>6, <1>7, <1>9, <1>12 DEF WasiTable
  <2>3. Grown(objs')
    BY <1>1, SameGrown DEF WasiInv
  <2>4. Still
    BY <1>2, <1>8, <1>10, <2>1, <2>2, <2>3 DEF Still
  <2>5. fds' = fds /\ frame' = frame
    BY <1>1
  <2> QED BY <1>10, <2>4, <2>5, GoesOn
<1>13. CASE out.ok /\ c.m \notin {"open", "read", "write"}
  <2>1. table'["wasi"] = table["wasi"]
    BY <1>7, <1>9, <1>13
  <2>2. WasiTable' /\ OwnHandle'
    BY <1>1, <1>6, <1>9, <2>1, HandlesStay DEF WasiTable
  <2>3. AnswerOK'
    BY <1>1, <1>4, <1>7, <1>13 DEF AnswerOK
  <2>4. InStep'
    <3> SUFFICES ASSUME NEW f \in 1..Len(fds), fds[f].kind = "file", fds[f].plain,
                        objs[fds[f].ob].opens = 1
                 PROVE  Agree(f)'
      BY <1>1 DEF InStep
    <3>1. table["wasi"].fds[objs[fds[f].ob].kfd].off = fds[f].pos /\ fds[f].pos \in Nat
      BY <1>11, AtRest, Positions
    <3>2. ~Moving(f)'
      BY <1>1, <1>4, <1>13 DEF Moving
    <3> QED BY <1>1, <2>1, <3>1, <3>2 DEF Agree
  <2> QED BY <1>8, <1>10, <2>2, <2>3, <2>4 DEF WasiInv
<1>14. CASE out.ok /\ c.m = "open"
  <2>1. Opening(out.v, out.table) /\ answer' = out.v
    BY <1>1, <1>7, <1>14
  <2>2. WasiTable'
    <3>1. \A fd \in DOMAIN out.table.fds : out.table.fds[fd].off \in Nat
      BY <1>6, <2>1 DEF Opening, WasiTable
    <3> QED BY <1>9, <2>1, <3>1 DEF Opening, WasiTable
  <2>3. OwnHandle'
    BY <1>1, <1>9, <2>1, HandlesStay DEF Opening
  <2>4. AnswerOK'
    <3>1. \A fd \in DOMAIN table["wasi"].fds : fd # out.v
      BY <1>6, <2>1 DEF Opening, WasiTable, TableOK
    <3>2. \A o \in 1..Len(objs) : HasHandle(objs[o]) => objs[o].kfd # out.v
      BY <3>1 DEF WasiInv, OwnHandle
    <3> QED BY <1>1, <1>4, <1>9, <1>14, <2>1, <3>2 DEF AnswerOK, Opening
  <2>5. InStep'
    <3> SUFFICES ASSUME NEW f \in 1..Len(fds), fds[f].kind = "file", fds[f].plain,
                        objs[fds[f].ob].opens = 1
                 PROVE  Agree(f)'
      BY <1>1 DEF InStep
    <3>1. table["wasi"].fds[objs[fds[f].ob].kfd].off = fds[f].pos /\ fds[f].pos \in Nat
      BY <1>11, AtRest, Positions
    <3>2. fds[f].ob \in 1..Len(objs) /\ objs[fds[f].ob].kind = "file"
      BY DEF WasiInv, FdsOK
    <3>3. objs[fds[f].ob].kfd \in DOMAIN table["wasi"].fds
      BY <3>2 DEF WasiInv, OwnHandle, HasHandle
    <3>4. ~Moving(f)'
      BY <1>1, <1>4, <1>14 DEF Moving
    <3> QED BY <1>1, <1>9, <2>1, <3>1, <3>3, <3>4 DEF Agree, Opening
  <2> QED BY <1>8, <1>10, <2>2, <2>3, <2>4, <2>5 DEF WasiInv
<1>15. CASE out.ok /\ c.m \in {"read", "write"}
  <2> DEFINE at == frame.do.fd
  <2>1. /\ MovingOn(c.fd, out.v, out.table) /\ answer' = out.v /\ out.v \in 0..frame.do.n
        /\ c.fd = objs[fds[at].ob].kfd /\ frame.phase \in {"reading", "writing"}
    BY <1>1, <1>3, <1>4, <1>7, <1>15 DEF Opened
  <2>2. at \in 1..Len(fds) /\ fds[at].kind = "file"
    BY <2>1 DEF WasiInv, FrameOK
  <2>3. WasiTable'
    <3>1. ASSUME NEW fd \in DOMAIN out.table.fds PROVE out.table.fds[fd].off \in Nat
      <4>0. /\ DOMAIN out.table.fds = DOMAIN table["wasi"].fds
            /\ out.table.fds[c.fd].off = table["wasi"].fds[c.fd].off + out.v
            /\ \A x \in DOMAIN out.table.fds : x # c.fd => out.table.fds[x] = table["wasi"].fds[x]
        BY <2>1 DEF MovingOn
      <4>a. fd \in DOMAIN table["wasi"].fds
        BY <4>0, Zenon
      <4>b. out.v \in Nat
        BY <1>5, <2>1
      <4>1. fd \in DOMAIN table["wasi"].fds /\ out.v \in Nat
        BY <4>a, <4>b
      <4>2. table["wasi"].fds[fd].off \in Nat
        BY <1>6, <4>1 DEF WasiTable
      <4>3. CASE fd = c.fd
        BY <4>0, <4>1, <4>2, <4>3
      <4>4. CASE fd # c.fd
        BY <4>0, <4>2, <4>4
      <4> QED BY <4>3, <4>4
    <3> QED BY <1>9, <2>1, <3>1 DEF MovingOn, WasiTable
  <2>4. OwnHandle'
    BY <1>1, <1>9, <2>1, HandlesStay DEF MovingOn
  <2>5. AnswerOK'
    <3>1. out.v \in Nat /\ (frame.do.n <= MaxData => out.v <= MaxData)
      BY <1>5, <2>1, WasiAssumption
    <3> QED BY <1>1, <2>1, <3>1 DEF AnswerOK
  <2>6. InStep'
    <3> SUFFICES ASSUME NEW f \in 1..Len(fds), fds[f].kind = "file", fds[f].plain,
                        objs[fds[f].ob].opens = 1
                 PROVE  Agree(f)'
      BY <1>1 DEF InStep
    <3>1. table["wasi"].fds[objs[fds[f].ob].kfd].off = fds[f].pos /\ fds[f].pos \in Nat
      BY <1>11, AtRest, Positions
    <3>2. fds[f].ob \in 1..Len(objs) /\ objs[fds[f].ob].kind = "file"
      BY DEF WasiInv, FdsOK
    <3>3. objs[fds[f].ob].kfd \in DOMAIN table["wasi"].fds
      BY <3>2 DEF WasiInv, OwnHandle, HasHandle
    <3>4. CASE f = at
      <4>1. table'["wasi"].fds[objs[fds[f].ob].kfd].off = fds[f].pos + answer'
        BY <1>9, <2>1, <3>1, <3>4 DEF MovingOn
      <4>2. Moving(f)'
        <5>1. Answering'
          BY <1>1, <1>2, <1>15 DEF Serve, Answering
        <5> QED BY <1>1, <2>1, <3>4, <5>1 DEF Moving
      <4> QED BY <1>1, <4>1, <4>2 DEF Agree
    <3>5. CASE f # at
      <4>1. objs[fds[f].ob].kfd # c.fd
        BY <2>1, <2>2, <3>5, OnlyOne
      <4>2. table'["wasi"].fds[objs[fds[f].ob].kfd].off = fds[f].pos
        BY <1>9, <2>1, <3>1, <3>3, <4>1 DEF MovingOn
      <4>3. ~Moving(f)'
        BY <1>1, <3>5 DEF Moving
      <4> QED BY <1>1, <3>1, <4>2, <4>3 DEF Agree
    <3> QED BY <3>4, <3>5
  <2> QED BY <1>8, <1>10, <2>3, <2>4, <2>5, <2>6 DEF WasiInv
<1> QED BY <1>7, <1>12, <1>13, <1>14, <1>15

\* The worker stores the answer, cut to what fits, and wakes the guest: who
\* asked for more than fits has no position that is right.
LEMMA AnsweredStep ==
  ASSUME WasiInv, Respond,
         ~\E t \in Tags : request.m = "path_readdir" /\ AnswerThrows(t) /\ UNCHANGED <<guestVars, sysVars>>
  PROVE  WasiInv'
<1>1. PICK t \in Tags :
        \/ /\ StoreAnswer(t)
           /\ answer' = IF request.m = "fd_read" /\ answer > MaxData THEN MaxData ELSE answer
        \/ RaiseFlag(t) /\ answer' = answer
  BY DEF Respond, guestVars
<1>2. UNCHANGED <<objs, fds, frame, request, table>>
  BY DEF Respond, guestVars, sysVars
<1>3. BufferInv' /\ waiting /\ waiting' /\ Answering /\ Answering'
  <2>1. BufferInv /\ BufferNext
    BY <1>1 DEF WasiInv, BufferNext
  <2>2. BufferInv'
    BY <2>1, BufferStep
  <2>3. serving \cup stored # {} /\ waiting' = waiting /\ (serving' \cup stored' # {} \/ flag' = 1)
    BY <1>1 DEF StoreAnswer, RaiseFlag
  <2>4. mail \cup serving \cup stored # {} => waiting
    BY <2>1 DEF BufferInv, OneCall
  <2>5. waiting
    BY <2>3, <2>4
  <2> QED BY <2>2, <2>3, <2>5 DEF Answering
<1>4. /\ InodesOK(objs') /\ FdsOK(fds', objs') /\ FrameOK(frame', objs', fds')
      /\ AskedOK' /\ OneEach' /\ OwnHandle' /\ WasiTable'
  BY <1>2, <1>3, WhileWaiting, HandlesStay DEF WasiInv, WasiTable
<1>5. CASE answer' = answer
  <2>1. AnswerOK'
    BY <1>2, <1>3, <1>5 DEF WasiInv, AnswerOK
  <2>2. InStep'
    BY <1>2, <1>3, <1>5 DEF WasiInv, InStep, Agree, Moving
  <2> QED BY <1>3, <1>4, <2>1, <2>2 DEF WasiInv
<1>6. CASE request.m = "fd_read" /\ answer > MaxData /\ answer' = MaxData
  <2>1. frame.phase = "reading" /\ answer \in Nat /\ (frame.do.n <= MaxData => answer <= MaxData)
    BY <1>3, <1>6 DEF WasiInv, AskedOK, AnswerOK
  <2>2. frame.do.n \in Nat /\ MaxData \in Nat
    <3>1. frame.do \in Operations \cup {NoOperation}
      BY DEF WasiInv, FrameOK
    <3> QED BY <3>1, WasiAssumption DEF NoOperation
  <2>3. frame.do.n > MaxData
    BY <1>6, <2>1, <2>2
  <2>4. AnswerOK'
    BY <1>2, <1>6, <2>1, <2>2 DEF AnswerOK
  <2>5. InStep'
    <3> SUFFICES ASSUME NEW f \in 1..Len(fds), fds[f].kind = "file", fds[f].plain,
                        objs[fds[f].ob].opens = 1
                 PROVE  Agree(f)'
      BY <1>2 DEF InStep
    <3>1. CASE Moving(f)'
      BY <1>2, <2>1, <2>3, <3>1 DEF Agree
    <3>2. CASE ~Moving(f)'
      <4>1. ~Moving(f)
        BY <1>2, <1>3, <3>2 DEF Moving
      <4>2. table["wasi"].fds[objs[fds[f].ob].kfd].off = fds[f].pos /\ fds[f].pos \in Nat
        BY <4>1, AtRest, Positions
      <4> QED BY <1>2, <3>2, <4>2 DEF Agree
    <3> QED BY <3>1, <3>2
  <2> QED BY <1>3, <1>4, <2>4, <2>5 DEF WasiInv
<1> QED BY <1>1, <1>5, <1>6

\* A listing that does not fit is never announced: the guest sleeps on.
LEMMA ThrowsStep ==
  ASSUME WasiInv, NEW t \in Tags, request.m = "path_readdir", AnswerThrows(t),
         UNCHANGED <<guestVars, sysVars>>
  PROVE  WasiInv'
<1>1. UNCHANGED <<objs, fds, frame, request, answer, table>>
  BY DEF guestVars, sysVars
<1>2. BufferInv'
  BY BufferStep DEF WasiInv, BufferNext
<1>3. waiting /\ waiting' /\ Answering /\ ~Answering'
  <2>1. t \in serving /\ waiting /\ flag = 0 /\ serving \subseteq {tag} /\ stored = {}
    BY DEF AnswerThrows, WasiInv, BufferInv, OneCall
  <2>2. serving' = {} /\ stored' = {} /\ flag' = 0 /\ waiting'
    BY <2>1 DEF AnswerThrows
  <2> QED BY <2>1, <2>2 DEF Answering
<1>4. FrameOK(frame', objs', fds') /\ AskedOK'
  BY <1>1, <1>3, WhileWaiting
<1>5. ~(frame.phase \in {"reading", "writing"})
  BY <1>3 DEF WasiInv, AskedOK
<1>6. WasiTable' /\ Grown(objs')
  BY <1>1, SameGrown DEF WasiInv, WasiTable
<1>7. Still
  BY <1>1, <1>2, <1>3, <1>4, <1>5, <1>6 DEF Still
<1> QED BY <1>1, <1>4, <1>7, GoesOn

\* So whatever becomes of the answer.
LEMMA RespondStep ==
  ASSUME WasiInv, Respond
  PROVE  WasiInv'
<1>1. CASE \E t \in Tags : request.m = "path_readdir" /\ AnswerThrows(t) /\ UNCHANGED <<guestVars, sysVars>>
  BY <1>1, ThrowsStep
<1>2. CASE ~\E t \in Tags : request.m = "path_readdir" /\ AnswerThrows(t) /\ UNCHANGED <<guestVars, sysVars>>
  BY <1>2, AnsweredStep DEF Respond
<1> QED BY <1>1, <1>2

(***************************************************************************)
(* Every step of the two workers.                                          *)
(***************************************************************************)

\* The guest begins an operation its descriptors allow, or is refused.
LEMMA BeginStep ==
  ASSUME WasiInv, NEW o \in Operations, Begin(o) \/ Refuse(o)
  PROVE  WasiInv'
<1>0. ~waiting
  BY DEF Begin, Refuse, In
<1>1. CASE Refuse(o)
  BY <1>0, <1>1, GuestIdles DEF Refuse
<1>2. CASE Begin(o)
  <2>1. Len(fds) \in Nat /\ DOMAIN fds = 1..Len(fds) /\ Len(objs) \in Nat /\ FdsOK(fds, objs)
    BY DEF WasiInv, FdsOK, InodesOK
  <2>2. Implemented(o)
    BY <1>2 DEF Begin
  <2>3. CASE o.op \in PathOperations
    <3>1. Class(o.fd) = "dir"
      BY <2>2, <2>3 DEF Implemented, PathOperations, NotSupported
    <3>2. o.fd \in 1..Len(fds) /\ fds[o.fd].kind = "dir"
      BY <2>1, <3>1 DEF Class
    <3> DEFINE f == [Idle EXCEPT !.do = o]
    <3>3. DOMAIN f = DOMAIN Idle /\ f.do = o /\ f.then = "end"
      BY DEF Idle
    <3> HIDE DEF f
    <3>4. FrameOK(Walk(f, o.path, 1), objs, fds) /\ Walk(f, o.path, 1).phase \in {"at", "walk"}
      BY <2>1, <2>3, <3>2, <3>3, WalkOK
    <3>5. Locally(Walk(f, o.path, 1))
      BY <1>2, <2>3 DEF Begin, f
    <3> QED BY <1>0, <3>4, <3>5, LocalStep
  <2>4. CASE o.op \notin PathOperations
    <3> DEFINE f == [Idle EXCEPT !.do = o, !.phase = "fd"]
    <3>1. DOMAIN f = DOMAIN Idle /\ f.do = o /\ f.then = "end" /\ f.phase = "fd" /\ f.ent = 0
      BY DEF Idle
    <3>2. o.op # "exit" => o.fd \in 1..Len(fds)
      <4>1. o.op # "exit" => Class(o.fd) # "closed"
        BY <2>2, <2>4 DEF Implemented, NotSupported
      <4> QED BY <2>1, <4>1 DEF Class
    <3>3. o.op \in {"read", "write"} => fds[o.fd].kind = "file"
      <4>1. o.op \in {"read", "write"} => Class(o.fd) = "file"
        BY <2>2, <2>4 DEF Implemented, NotSupported
      <4> QED BY <4>1 DEF Class
    <3>4. Locally(f)
      BY <1>2, <2>4 DEF Begin
    <3> HIDE DEF f
    <3>5. FrameOK(f, objs, fds)
      BY <2>1, <2>4, <3>1, <3>2, <3>3 DEF FrameOK
    <3> QED BY <1>0, <3>1, <3>4, <3>5, LocalStep
  <2> QED BY <2>3, <2>4
<1> QED BY <1>1, <1>2

\* The Go task's calls go to its own table.
LEMMA GojsApart ==
  ASSUME DOMAIN table = Workers, GojsBegin \/ GojsRun
  PROVE  DOMAIN table' = Workers /\ table'["wasi"] = table["wasi"]
<1>1. CASE GojsBegin
  BY <1>1 DEF GojsBegin, Request, WasmWrite, WasmExit, sysVars
<1>2. CASE GojsRun
  <2>1. PICK call \in Pending : Serving(call) \/ Callback(call)
    BY <1>2 DEF GojsRun
  <2>2. CASE Serving(call)
    <3>1. PICK out : SysCall("gojs", out)
      BY <2>2 DEF Serving
    <3> QED BY <3>1 DEF SysCall, Workers
  <2>3. CASE Callback(call)
    BY <2>3 DEF Callback, sysVars
  <2> QED BY <2>1, <2>2, <2>3
<1> QED BY <1>1, <1>2

\* What changes nothing the invariant speaks of keeps it.
LEMMA WasiRests ==
  ASSUME WasiInv, UNCHANGED wasiVars, DOMAIN table' = Workers, table'["wasi"] = table["wasi"]
  PROVE  WasiInv'
<1>1. UNCHANGED <<waiting, serving, stored, flag, objs, fds, frame, request, answer>>
  BY DEF wasiVars, guestVars, bufferVars
<1>2. BufferInv'
  BY BufferGoesOn DEF wasiVars
<1>3. WasiTable' /\ OwnHandle' /\ AnswerOK'
  BY <1>1 DEF WasiInv, WasiTable, OwnHandle, AnswerOK, Answering
<1>4. AskedOK' /\ OneEach' /\ InStep'
  BY <1>1 DEF WasiInv, AskedOK, Opened, OneEach, InStep, Agree, Moving, Answering
<1> QED BY <1>1, <1>2, <1>3, <1>4 DEF WasiInv

\* At the start the guest has the root and no file.
LEMMA WasiStarts == Init => WasiInv
<1> SUFFICES ASSUME Init PROVE WasiInv
  OBVIOUS
<1>1. /\ BufferInit /\ objs = <<NewInode(<<>>, "dir")>> /\ frame = Idle
      /\ fds = <<[kind |-> "dir", ob |-> 1, pos |-> 0, plain |-> TRUE]>>
  BY DEF Init, WasiInit
<1>2. BufferInv /\ ~waiting
  BY <1>1, BufferStarts DEF BufferInit
<1>3. WasiTable
  <2>1. /\ DOMAIN table = Workers
        /\ table["wasi"] = [fds |-> [fd \in 4..5 |-> [born |-> fd, kind |-> "file", off |-> 0,
                                                     path |-> <<>>]], fdCounter |-> 5]
    BY DEF Init, SysInit, Workers
  <2> QED BY <2>1 DEF WasiTable, TableOK
<1>4. InodesOK(objs) /\ Len(objs) = 1 /\ objs[1].kind = "dir"
  <2> DEFINE x == NewInode(<<>>, "dir")
  <2>1. InodeOK(x, 1) /\ x.kind = "dir"
    BY NewInodeOK DEF NewInode
  <2> HIDE DEF x
  <2>2. objs = <<x>>
    BY <1>1 DEF x
  <2>3. objs = [i \in 1..1 |-> objs[i]] /\ objs[1] = x
    BY <2>2
  <2>4. objs \in Seq(Range(objs)) /\ Len(objs) = 1
    BY <2>3, FunctionSeq
  <2> QED BY <2>1, <2>3, <2>4 DEF InodesOK
<1>5. /\ fds \in Seq(Descriptors) /\ Len(fds) = 1 /\ fds[1].kind = "dir" /\ fds[1].ob = 1
  <2> DEFINE d == [kind |-> "dir", ob |-> 1, pos |-> 0, plain |-> TRUE]
  <2>1. d \in Descriptors /\ d.kind = "dir" /\ d.ob = 1
    BY DEF Descriptors
  <2> HIDE DEF d
  <2> QED BY <1>1, <2>1 DEF d
<1>6. FdsOK(fds, objs) /\ FrameOK(frame, objs, fds)
  BY <1>1, <1>4, <1>5, IdleOK DEF FdsOK
<1>7. AskedOK /\ AnswerOK
  BY <1>2 DEF AskedOK, AnswerOK, Answering
<1>8. \A o \in 1..Len(objs) : objs[o].kind # "file"
  BY <1>4
<1>9. OwnHandle /\ OneEach
  BY <1>8 DEF OwnHandle, HasHandle, OneEach
<1>10. InStep
  BY <1>5 DEF InStep
<1> QED BY <1>2, <1>3, <1>4, <1>6, <1>7, <1>9, <1>10 DEF WasiInv

\* Every step keeps it.
LEMMA WasiStep == WasiInv /\ [Next]_vars => WasiInv'
<1> SUFFICES ASSUME WasiInv, [Next]_vars PROVE WasiInv'
  OBVIOUS
<1>0. DOMAIN table = Workers
  BY DEF WasiInv, WasiTable
<1>1. CASE UNCHANGED vars
  BY <1>0, <1>1, WasiRests DEF vars, sysVars
<1>2. CASE (GojsBegin \/ GojsRun) /\ UNCHANGED wasiVars
  BY <1>0, <1>2, GojsApart, WasiRests
<1>3. CASE WasiBegin
  BY <1>3, BeginStep DEF WasiBegin
<1>4. CASE WasiLocal
  BY <1>4, WalkSteps, OpenSteps, MoveSteps, FdSteps, Zenon DEF WasiLocal
<1>5. CASE WasiWoken
  BY <1>5, PathSteps, NameSteps, DataSteps, FileOpens, Exits, Zenon DEF WasiWoken
<1>6. CASE HandleMessage \/ Respond
  BY <1>6, HandleStep, RespondStep
<1> QED BY <1>1, <1>2, <1>3, <1>4, <1>5, <1>6 DEF Next, WasiRun

\* Together: the invariant always holds.
LEMMA WasiAlways == Spec => []WasiInv
BY WasiStarts, WasiStep, PTL DEF Spec

\* PositionsAgree: between two operations the position the shim passes to reads
\* and writes is the offset the kernel reads and writes at, for every file
\* opened once, read in pieces that fit and never positioned otherwise, for any
\* operations, paths and trees and whatever the Go task does meanwhile.
THEOREM PositionsKept == Spec => []PositionsAgree
<1>1. WasiInv => PositionsAgree
  <2> SUFFICES ASSUME WasiInv, GuestRests, NEW f \in DOMAIN fds, fds[f].kind = "file",
                      fds[f].plain, objs[fds[f].ob].opens = 1
               PROVE  fds[f].pos = table["wasi"].fds[objs[fds[f].ob].kfd].off
    BY DEF PositionsAgree
  <2>1. f \in 1..Len(fds)
    BY DEF WasiInv, FdsOK
  <2>2. ~Moving(f)
    BY DEF Moving, GuestRests
  <2> QED BY <2>1, <2>2, AtRest
<1> QED BY WasiAlways, <1>1, PTL

(***************************************************************************)
(* The JavaScript values of a Go program.                                  *)
(***************************************************************************)

\* The table's columns go together.
TableShape ==
  /\ DOMAIN js = {"values", "counts", "ids", "pool"}
  /\ js.values \in Seq(JsAny) /\ js.counts \in Seq(Int) /\ js.pool \in Seq(Nat)
  /\ Len(js.values) >= 7 /\ Len(js.counts) = Len(js.values)

\* What is there from the start stays.
FirstSeven ==
  /\ \A n \in 1..7 : js.values[n] = Predefined[n]
  /\ flavour = "go" => \A n \in 1..7 : js.counts[n] = Infinity
  /\ flavour = "go" => \A n \in 2..7 : Predefined[n] \in DOMAIN js.ids
                                        /\ js.ids[Predefined[n]] = n - 1

\* A value that has an id is the value of that id, and the id is in use.
IdsName ==
  \A v \in DOMAIN js.ids :
    /\ js.ids[v] \in 0..Len(js.values) - 1
    /\ js.values[js.ids[v] + 1] = v
    /\ ~Fixed(v)
    /\ js.ids[v] >= 7 => js.counts[js.ids[v] + 1] > 0
    /\ js.ids[v] < 7 => flavour = "go"

\* An id in use is the id of its value; the others wait in the pool.
Pooled(id, pool) == \E i \in 1..Len(pool) : pool[i] = id
IdsUsed ==
  \A id \in 7..Len(js.values) - 1 :
    /\ js.counts[id + 1] >= 0
    /\ js.counts[id + 1] > 0 =>
         js.values[id + 1] \in DOMAIN js.ids /\ js.ids[js.values[id + 1]] = id
    /\ js.counts[id + 1] = 0 <=> Pooled(id, js.pool)

\* The pool has each of its ids once.
PoolOnce ==
  /\ \A i \in 1..Len(js.pool) : js.pool[i] \in 7..Len(js.values) - 1
  /\ \A i, k \in 1..Len(js.pool) : js.pool[i] = js.pool[k] => i = k

TableInv == TableShape /\ FirstSeven /\ IdsName /\ IdsUsed /\ PoolOnce

\* Every reference held is the one its value has now, and every id in use is
\* held as often as it was given away.
RefsInv ==
  /\ \A h \in DOMAIN refs :
       /\ refs[h] \in Nat \ {0}
       /\ h = [ref |-> RefOf(h.v), v |-> h.v, back |-> h.back]
       /\ h.v \in JsAny /\ h.back \in BOOLEAN
       /\ Fixed(h.v) \/ h.v \in DOMAIN js.ids
       /\ h.back => h.v \in DOMAIN js.ids
  /\ \A id \in 7..Len(js.values) - 1 : js.counts[id + 1] = HeldOf(id)

JsInv ==
  /\ flavour \in {"go", "tinygo"}
  /\ gone \in BOOLEAN
  /\ gone => running = <<>>
  /\ ~gone => TableInv /\ RefsInv

\* The values there from the start are seven different ones.
LEMMA PredefinedAt ==
  /\ DOMAIN Predefined = 1..7
  /\ \A n \in 1..7 : (CHOOSE k \in 1..7 : Predefined[k] = Predefined[n]) = n
  /\ \A i, k \in 1..7 : Predefined[i] = Predefined[k] => i = k
<1>1. DOMAIN Predefined = 1..7
  BY DEF Predefined
<1>2. \A i, k \in 1..7 : Predefined[i] = Predefined[k] => i = k
  BY DEF Predefined
<1>3. \A n \in 1..7 : (CHOOSE k \in 1..7 : Predefined[k] = Predefined[n]) = n
  BY <1>2
<1> QED BY <1>1, <1>2, <1>3

\* The first table has its shape, with or without ids for its values.
LEMMA TableStarts == JsInit => TableInv
<1> SUFFICES ASSUME JsInit PROVE TableInv
  OBVIOUS
<1>1. /\ js = FirstTable(flavour) /\ flavour \in {"go", "tinygo"}
  BY DEF JsInit
<1>2. /\ js.values = Predefined /\ js.pool = <<>> /\ Len(js.values) = 7
      /\ js.counts = [n \in 1..7 |-> IF flavour = "go" THEN Infinity ELSE 0]
      /\ DOMAIN js = {"values", "counts", "ids", "pool"}
  BY <1>1 DEF FirstTable, Predefined
<1>3. js.values \in Seq(JsAny) /\ js.counts \in Seq(Int) /\ js.pool \in Seq(Nat)
  BY <1>2 DEF Predefined, JsAny, ToSet, Infinity
<1>4. CASE flavour = "go"
  <2>1. js.ids = [v \in ToSet(Predefined) \ {"nan"} |-> (CHOOSE n \in 1..7 : Predefined[n] = v) - 1]
    BY <1>1, <1>4 DEF FirstTable
  <2>2. \A n \in 2..7 : Predefined[n] \in DOMAIN js.ids /\ js.ids[Predefined[n]] = n - 1
    BY <2>1, PredefinedAt DEF ToSet, Predefined
  <2>3. \A v \in DOMAIN js.ids : \E n \in 2..7 : v = Predefined[n]
    BY <2>1 DEF ToSet, Predefined
  <2>4. \A n \in 2..7 : ~Fixed(Predefined[n])
    BY <1>4 DEF Fixed, Predefined
  <2>5. \A n \in 1..7 : js.counts[n] = Infinity
    BY <1>2, <1>4
  <2> QED BY <1>2, <1>3, <1>4, <2>2, <2>3, <2>4, <2>5 DEF TableInv, TableShape, FirstSeven, IdsName, IdsUsed, Pooled, PoolOnce
<1>5. CASE flavour = "tinygo"
  <2>1. DOMAIN js.ids = {}
    BY <1>1, <1>5 DEF FirstTable
  <2>2. flavour # "go"
    BY <1>5
  <2>3. \A n \in 1..7 : js.values[n] = Predefined[n]
    BY <1>2
  <2> HIDE DEF Predefined
  <2> QED BY <1>2, <1>3, <2>1, <2>2, <2>3 DEF TableInv, TableShape, FirstSeven, IdsName, IdsUsed, Pooled, PoolOnce
<1> QED BY <1>1, <1>4, <1>5

\* The invariant holds at the start.
LEMMA JsStarts == JsInit => JsInv
<1> SUFFICES ASSUME JsInit PROVE JsInv
  OBVIOUS
<1>1. refs = EmptyBag /\ gone = FALSE /\ flavour \in {"go", "tinygo"}
  BY DEF JsInit
<1>2. DOMAIN refs = {} /\ Len(js.values) = 7
  BY <1>1 DEF EmptyBag, SetToBag, JsInit, FirstTable, Predefined
<1>3. RefsInv
  BY <1>2 DEF RefsInv
<1> QED BY <1>1, <1>3, TableStarts DEF JsInv

\* One more in one of two counts is one more in their sum.
LEMMA SumOneMore == \A a, b \in Nat : (a + 1) + b = (a + b) + 1 /\ a + (b + 1) = (a + b) + 1
OBVIOUS

\* One less in the first of two counts is one less in their sum.
LEMMA SumOneLess == \A a, b \in Nat, c \in Int : c = a + b => c - 1 = (a - 1) + b
OBVIOUS

\* One more reference, or one less, in the bag.
LEMMA OneMore ==
  ASSUME NEW x, NEW h, refs' = refs (+) SetToBag({x}),
         \A e \in DOMAIN refs : refs[e] \in Nat \ {0}
  PROVE  /\ DOMAIN refs' = DOMAIN refs \cup {x}
         /\ Times(h, refs') = IF h = x THEN Times(h, refs) + 1 ELSE Times(h, refs)
         /\ \A e \in DOMAIN refs' : refs'[e] \in Nat \ {0}
         /\ Times(h, refs) \in Nat
BY DEF Times, BagToSet, SetToBag, (+)

\* One reference less in the bag.
LEMMA OneLess ==
  ASSUME NEW x \in DOMAIN refs, NEW h, refs' = refs (-) SetToBag({x}),
         \A e \in DOMAIN refs : refs[e] \in Nat \ {0}
  PROVE  /\ DOMAIN refs' \subseteq DOMAIN refs
         /\ Times(h, refs') = IF h = x THEN Times(h, refs) - 1 ELSE Times(h, refs)
         /\ h \in DOMAIN refs' <=> Times(h, refs') # 0
         /\ \A e \in DOMAIN refs' : refs'[e] \in Nat \ {0}
         /\ Times(h, refs) \in Nat
BY DEF Times, BagToSet, SetToBag, (-)

\* The values whose reference never changes have the first numbers.
LEMMA FixedRefs ==
  ASSUME NEW v, Fixed(v), flavour \in {"go", "tinygo"}
  PROVE  /\ \/ FixedRef(v) = Plain(v) /\ v \in {"number", "undefined"}
            \/ \E n \in 1..7 : v = Predefined[n] /\ FixedRef(v) = Id(n - 1)
         /\ v \notin Objects \cup Strings \cup {"global", "this"}
<1>1. v \in {"number", "undefined"} \/ \E n \in 1..7 : v = Predefined[n]
  BY DEF Fixed, Predefined
<1>2. v \notin Objects \cup Strings \cup {"global", "this"}
  BY ValuesAssumption DEF Fixed
<1>3. \A n \in 1..7 : Predefined[n] \notin {"number", "undefined"}
  BY DEF Predefined
<1>4. ASSUME NEW n \in 1..7, v = Predefined[n] PROVE FixedRef(v) = Id(n - 1)
  BY <1>3, <1>4, PredefinedAt DEF FixedRef
<1> QED BY <1>1, <1>2, <1>4 DEF FixedRef

\* One count of the table changes, and nothing else in it.
CountBecomes(id, c) == js' = [js EXCEPT !.counts[id + 1] = c]

\* The count of a value in the table changes, and the value stays in use.
LEMMA Recounted ==
  ASSUME TableInv, NEW v \in DOMAIN js.ids, NEW c \in Int,
         CountBecomes(js.ids[v], c), flavour' = flavour,
         js.ids[v] >= 7 => c > 0, js.ids[v] < 7 => c = js.counts[js.ids[v] + 1]
  PROVE  /\ TableInv'
         /\ js'.ids = js.ids /\ js'.values = js.values /\ js'.pool = js.pool
         /\ js'.counts = [js.counts EXCEPT ![js.ids[v] + 1] = c]
<1>1. /\ js'.ids = js.ids /\ js'.values = js.values /\ js'.pool = js.pool
      /\ js'.counts = [js.counts EXCEPT ![js.ids[v] + 1] = c]
      /\ DOMAIN js' = {"values", "counts", "ids", "pool"}
  <2>2. DOMAIN js = {"values", "counts", "ids", "pool"}
    BY DEF TableInv, TableShape
  <2> QED BY <2>2, Zenon DEF CountBecomes
<1>2. js.ids[v] + 1 \in 1..Len(js.counts) /\ js.ids[v] \in Nat
  BY DEF TableInv, TableShape, IdsName
<1>a. DOMAIN js.counts = 1..Len(js.counts) /\ \A n \in 1..Len(js.counts) : js.counts[n] \in Int
  BY DEF TableInv, TableShape
<1>3. /\ js'.counts \in Seq(Int) /\ Len(js'.counts) = Len(js.counts)
      /\ \A n \in 1..Len(js.counts) : n # js.ids[v] + 1 => js'.counts[n] = js.counts[n]
      /\ js'.counts[js.ids[v] + 1] = c
  BY <1>1, <1>2, <1>a DEF TableInv, TableShape
<1>s. \A id \in Nat : id + 1 \in 1..Len(js.counts) /\ id # js.ids[v] => js'.counts[id + 1] = js.counts[id + 1]
  <2> TAKE id \in Nat
  <2> HAVE id + 1 \in 1..Len(js.counts) /\ id # js.ids[v]
  <2>1. id + 1 # js.ids[v] + 1
    BY <1>2
  <2> QED BY <2>1, <1>3
<1>4. js.ids[v] >= 7 => js.counts[js.ids[v] + 1] > 0
  BY <1>2, <1>a DEF TableInv, IdsName
<1>5. TableShape'
  BY <1>1, <1>3 DEF TableInv, TableShape
<1>6. \A id \in 7..Len(js.values) - 1 :
        /\ js.counts[id + 1] > 0 => js'.counts[id + 1] > 0
        /\ js.counts[id + 1] = 0 => js'.counts[id + 1] = 0
  <2> TAKE id \in 7..Len(js.values) - 1
  <2>1. id + 1 \in 1..Len(js.counts)
    BY DEF TableInv, TableShape
  <2>2. CASE id = js.ids[v]
    <3>1. js.ids[v] >= 7
      BY <2>2
    <3>2. c > 0 /\ js.counts[id + 1] > 0 /\ js'.counts[id + 1] = c
      BY <3>1, <2>2, <1>3, <1>4
    <3>3. js.counts[id + 1] # 0
      BY <3>2
    <3> QED BY <3>2, <3>3, Zenon
  <2>3. CASE id # js.ids[v]
    <3>1. id \in Nat
      OBVIOUS
    <3>2. js'.counts[id + 1] = js.counts[id + 1]
      BY <2>1, <2>3, <3>1, <1>s
    <3> QED BY <3>2, Zenon
  <2> QED BY <2>2, <2>3
<1>7. \A id \in 7..Len(js.values) - 1 : js'.counts[id + 1] \in Int /\ js.counts[id + 1] \in Int
  BY <1>3, <1>a DEF TableInv, TableShape
<1>8. IdsUsed'
  <2> SUFFICES ASSUME NEW id \in 7..Len(js.values) - 1
               PROVE  /\ js'.counts[id + 1] >= 0
                      /\ js'.counts[id + 1] > 0 =>
                           js.values[id + 1] \in DOMAIN js.ids /\ js.ids[js.values[id + 1]] = id
                      /\ js'.counts[id + 1] = 0 <=> Pooled(id, js.pool)
    BY <1>1 DEF IdsUsed, Pooled
  <2>1. /\ js.counts[id + 1] >= 0
        /\ js.counts[id + 1] > 0 =>
             js.values[id + 1] \in DOMAIN js.ids /\ js.ids[js.values[id + 1]] = id
        /\ js.counts[id + 1] = 0 <=> Pooled(id, js.pool)
    BY DEF TableInv, IdsUsed
  <2>2. CASE js.counts[id + 1] = 0
    BY <2>1, <2>2, <1>6
  <2>3. CASE js.counts[id + 1] # 0
    <3>1. js.counts[id + 1] > 0
      BY <2>1, <2>3, <1>7
    <3>2. js'.counts[id + 1] > 0 /\ js'.counts[id + 1] \in Int
      BY <3>1, <1>6, <1>7
    <3> QED BY <2>1, <3>1, <3>2
  <2> QED BY <2>2, <2>3
<1>9. \A u : Fixed(u)' <=> Fixed(u)
  BY DEF Fixed
<1>10. IdsName'
  <2>1. SUFFICES ASSUME NEW u \in DOMAIN js.ids PROVE js.ids[u] >= 7 => js'.counts[js.ids[u] + 1] > 0
    BY <1>1, <1>9, <2>1 DEF TableInv, IdsName
  <2>2. js.ids[u] >= 7 => js.ids[u] \in 7..Len(js.values) - 1 /\ js.counts[js.ids[u] + 1] > 0
    BY DEF TableInv, IdsName
  <2> QED BY <2>2, <1>6
<1>11. FirstSeven'
  <2>1. ASSUME flavour = "go", NEW n \in 1..7 PROVE js'.counts[n] = Infinity
    <3>1. js.counts[n] = Infinity
      BY <2>1 DEF TableInv, FirstSeven
    <3>2. n \in 1..Len(js.counts)
      BY <2>1 DEF TableInv, TableShape
    <3>3. CASE n = js.ids[v] + 1
      <4>1. js.ids[v] < 7
        BY <3>3, <1>2
      <4>2. c = js.counts[js.ids[v] + 1] /\ js'.counts[js.ids[v] + 1] = c
        BY <4>1, <1>3
      <4> QED BY <4>2, <3>1, <3>3, Zenon
    <3>4. CASE n # js.ids[v] + 1
      <4>1. js'.counts[n] = js.counts[n]
        BY <3>2, <3>4, <1>3
      <4> QED BY <4>1, <3>1
    <3> QED BY <3>3, <3>4
  <2> QED BY <1>1, <2>1 DEF TableInv, FirstSeven
<1>12. PoolOnce'
  BY <1>1 DEF TableInv, PoolOnce
<1> QED BY <1>1, <1>5, <1>8, <1>10, <1>11, <1>12 DEF TableInv

\* A value new to the table takes the id that was given back last, or one more.
LEMMA WithNew ==
  ASSUME TableInv, flavour \in {"go", "tinygo"}, NEW v \in JsAny, v \notin DOMAIN js.ids,
         ~Fixed(v), js' = With(v), flavour' = flavour
  PROVE  /\ TableInv'
         /\ DOMAIN js'.ids = DOMAIN js.ids \cup {v} /\ js'.ids[v] = NewId
         /\ \A u \in DOMAIN js.ids : js'.ids[u] = js.ids[u] /\ js.ids[u] # NewId
         /\ NewId \in 7..Len(js'.values) - 1 /\ js'.values[NewId + 1] = v
         /\ js'.counts[NewId + 1] = 1
         /\ \A id \in 7..Len(js'.values) - 1 : id # NewId =>
              /\ id \in 7..Len(js.values) - 1
              /\ js'.values[id + 1] = js.values[id + 1]
              /\ js'.counts[id + 1] = js.counts[id + 1]
         /\ NewId \in 7..Len(js.values) - 1 => js.counts[NewId + 1] = 0
<1> DEFINE fresh == js.pool = <<>>
           k == NewId
           n == Len(js.values)
           m == Len(js.pool)
<1>0. /\ DOMAIN js = {"values", "counts", "ids", "pool"}
      /\ js.values \in Seq(JsAny) /\ js.counts \in Seq(Int) /\ js.pool \in Seq(Nat)
      /\ n >= 7 /\ Len(js.counts) = n /\ n \in Nat /\ m \in Nat
      /\ DOMAIN js.values = 1..n /\ DOMAIN js.counts = 1..n
  BY DEF TableInv, TableShape
<1>1. /\ js'.values = IF fresh THEN Append(js.values, v) ELSE [js.values EXCEPT ![k + 1] = v]
      /\ js'.counts = IF fresh THEN Append(js.counts, 1) ELSE [js.counts EXCEPT ![k + 1] = 1]
      /\ js'.ids = [x \in DOMAIN js.ids \cup {v} |-> IF x = v THEN k ELSE js.ids[x]]
      /\ js'.pool = IF fresh THEN <<>> ELSE Front(js.pool)
      /\ DOMAIN js' = {"values", "counts", "ids", "pool"}
  BY DEF With
<1>2. /\ fresh => k = n
      /\ ~fresh => m > 0 /\ k = js.pool[m] /\ k \in 7..n - 1 /\ js.counts[k + 1] = 0
  <2>1. CASE fresh
    BY <2>1 DEF NewId
  <2>2. CASE ~fresh
    <3>1. m > 0 /\ k = js.pool[m]
      BY <2>2, <1>0 DEF NewId, Last
    <3>2. k \in 7..n - 1 /\ Pooled(k, js.pool)
      BY <3>1, <1>0 DEF TableInv, PoolOnce, Pooled
    <3>3. js.counts[k + 1] = 0
      BY <3>2 DEF TableInv, IdsUsed
    <3> QED BY <3>1, <3>2, <3>3, <2>2
  <2> QED BY <2>1, <2>2
<1>e. fresh => js'.pool \in Seq(Nat) /\ Len(js'.pool) = 0 /\ m = 0
  BY <1>1, <1>0
<1>f. ~fresh =>
        /\ js'.pool \in Seq(Nat) /\ Len(js'.pool) = m - 1
        /\ \A i \in 1..m - 1 : js'.pool[i] = js.pool[i]
  <2> SUFFICES ASSUME ~fresh
               PROVE  /\ js'.pool \in Seq(Nat) /\ Len(js'.pool) = m - 1
                      /\ \A i \in 1..m - 1 : js'.pool[i] = js.pool[i]
    OBVIOUS
  <2>1. js'.pool = SubSeq(js.pool, 1, m - 1) /\ m > 0
    BY <1>1, <1>2 DEF Front
  <2>2. m - 1 \in Nat /\ \A i \in 1..m - 1 : js.pool[i] \in Nat
    BY <2>1, <1>0
  <2>3. /\ SubSeq(js.pool, 1, m - 1) \in Seq(Nat)
        /\ Len(SubSeq(js.pool, 1, m - 1)) = IF 1 <= m - 1 THEN m - 1 - 1 + 1 ELSE 0
        /\ \A i \in 1..m - 1 - 1 + 1 : SubSeq(js.pool, 1, m - 1)[i] = js.pool[1 + i - 1]
    <3> DEFINE m1 == m - 1
    <3>1. m1 \in Int /\ 1 \in Int /\ \A i \in 1..m1 : js.pool[i] \in Nat
      BY <2>2
    <3> HIDE DEF m1
    <3>2. /\ SubSeq(js.pool, 1, m1) \in Seq(Nat)
          /\ Len(SubSeq(js.pool, 1, m1)) = IF 1 <= m1 THEN m1 - 1 + 1 ELSE 0
          /\ \A i \in 1..m1 - 1 + 1 : SubSeq(js.pool, 1, m1)[i] = js.pool[1 + i - 1]
      BY <3>1
    <3> QED BY <3>2 DEF m1
  <2> HIDE DEF m
  <2> QED BY <2>1, <2>2, <2>3
<1>k. k \in Nat /\ k >= 7 /\ k <= n
  BY <1>2, <1>0
<1> HIDE DEF k, fresh, n
<1>p. /\ js'.pool \in Seq(Nat) /\ Len(js'.pool) \in Nat
      /\ \A i \in 1..Len(js'.pool) : i \in 1..m /\ i # m /\ js'.pool[i] = js.pool[i] /\ ~fresh
      /\ \A i \in 1..m : i # m => i \in 1..Len(js'.pool)
  <2>1. CASE fresh
    <3>1. Len(js'.pool) = 0 /\ m = 0
      BY <1>e, <2>1
    <3> QED BY <3>1, <1>e, <2>1
  <2>2. CASE ~fresh
    <3>1. Len(js'.pool) = m - 1 /\ m \in Nat /\ m > 0
      BY <1>f, <1>2, <1>0, <2>2
    <3> HIDE DEF m
    <3> QED BY <3>1, <1>f, <2>2
  <2> QED BY <2>1, <2>2
<1>3. /\ k \in 7..Len(js'.values) - 1 /\ Len(js'.values) \in Nat
      /\ js'.values[k + 1] = v /\ js'.counts[k + 1] = 1
      /\ \A i \in 1..n : i # k + 1 =>
           js'.values[i] = js.values[i] /\ js'.counts[i] = js.counts[i]
      /\ js'.values \in Seq(JsAny) /\ js'.counts \in Seq(Int)
      /\ Len(js'.counts) = Len(js'.values)
      /\ Len(js'.values) = IF fresh THEN n + 1 ELSE n
  <2>1. CASE fresh
    BY <2>1, <1>0, <1>1, <1>2
  <2>2. CASE ~fresh
    <3>0. k \in 7..n - 1 /\ n \in Nat
      BY <2>2, <1>0, <1>2
    <3>1. k + 1 \in 1..n /\ k \in Nat /\ k >= 7
      BY <3>0
    <3>2. js'.values = [js.values EXCEPT ![k + 1] = v] /\ js'.counts = [js.counts EXCEPT ![k + 1] = 1]
      BY <2>2, <1>1
    <3>3. js'.values \in Seq(JsAny) /\ Len(js'.values) = n
      BY <3>1, <3>2, <1>0
    <3>4. js'.counts \in Seq(Int) /\ Len(js'.counts) = n
      BY <3>1, <3>2, <1>0
    <3>5. /\ js'.values[k + 1] = v /\ js'.counts[k + 1] = 1
          /\ \A i \in 1..n : i # k + 1 =>
               js'.values[i] = js.values[i] /\ js'.counts[i] = js.counts[i]
      BY <3>1, <3>2, <1>0
    <3> QED BY <2>2, <3>0, <3>3, <3>4, <3>5
  <2> QED BY <2>1, <2>2
<1>s. \A id \in 0..n - 1 : id # k =>
        js'.values[id + 1] = js.values[id + 1] /\ js'.counts[id + 1] = js.counts[id + 1]
  <2> TAKE id \in 0..n - 1
  <2> HAVE id # k
  <2>1. id + 1 \in 1..n /\ id + 1 # k + 1
    BY <1>0, <1>k
  <2> QED BY <2>1, <1>3
<1>4. \A u \in DOMAIN js.ids : js.ids[u] # k /\ js.ids[u] \in 0..n - 1
  <2> TAKE u \in DOMAIN js.ids
  <2>1. js.ids[u] \in 0..n - 1 /\ (js.ids[u] >= 7 => js.counts[js.ids[u] + 1] > 0)
    BY DEF TableInv, IdsName, n
  <2> QED BY <2>1, <1>2, <1>0
<1>5. \A id \in 7..Len(js'.values) - 1 : id # k => id \in 7..n - 1
  BY <1>3, <1>2, <1>0
<1>6. TableShape'
  BY <1>0, <1>1, <1>p, <1>3 DEF TableShape
<1>7. FirstSeven'
  <2>1. \A i \in 1..7 : js'.values[i] = js.values[i] /\ js'.counts[i] = js.counts[i]
    <3> TAKE i \in 1..7
    <3>1. i \in 1..n /\ i # k + 1
      BY <1>0, <1>k
    <3> QED BY <3>1, <1>3
  <2>2. \A u \in DOMAIN js.ids : u \in DOMAIN js'.ids /\ js'.ids[u] = js.ids[u]
    BY <1>1
  <2> QED BY <2>1, <2>2 DEF TableInv, FirstSeven
<1>8. \A u : Fixed(u)' <=> Fixed(u)
  BY DEF Fixed
<1>9. IdsName'
  <2> SUFFICES ASSUME NEW u \in DOMAIN js'.ids
               PROVE  /\ js'.ids[u] \in 0..Len(js'.values) - 1
                      /\ js'.values[js'.ids[u] + 1] = u
                      /\ ~Fixed(u)
                      /\ js'.ids[u] >= 7 => js'.counts[js'.ids[u] + 1] > 0
                      /\ js'.ids[u] < 7 => flavour' = "go"
    BY <1>8 DEF IdsName
  <2>1. CASE u = v
    <3>1. js'.ids[u] = k
      BY <2>1, <1>1
    <3>2. k \in 0..Len(js'.values) - 1 /\ k >= 7
      BY <1>3
    <3>3. js'.values[k + 1] = u /\ js'.counts[k + 1] > 0
      BY <2>1, <1>3
    <3> QED BY <3>1, <3>2, <3>3, <2>1
  <2>2. CASE u # v
    <3>1. u \in DOMAIN js.ids /\ js'.ids[u] = js.ids[u]
      BY <2>2, <1>1
    <3>2. /\ js.ids[u] \in 0..n - 1 /\ js.values[js.ids[u] + 1] = u /\ ~Fixed(u)
          /\ js.ids[u] >= 7 => js.counts[js.ids[u] + 1] > 0
          /\ js.ids[u] < 7 => flavour = "go"
      BY <3>1 DEF TableInv, IdsName, n
    <3>3. js'.values[js.ids[u] + 1] = js.values[js.ids[u] + 1]
          /\ js'.counts[js.ids[u] + 1] = js.counts[js.ids[u] + 1]
      BY <3>1, <3>2, <1>s, <1>4
    <3>4. Len(js'.values) = n \/ Len(js'.values) = n + 1
      BY <1>3
    <3>5. js.ids[u] \in 0..Len(js'.values) - 1
      BY <3>2, <3>4, <1>0
    <3> QED BY <3>1, <3>2, <3>3, <3>5
  <2> QED BY <2>1, <2>2
<1>10. \A id \in 7..n - 1 : id # k => (Pooled(id, js'.pool) <=> Pooled(id, js.pool))
  <2> SUFFICES ASSUME NEW id \in 7..n - 1, id # k PROVE Pooled(id, js'.pool) <=> Pooled(id, js.pool)
    OBVIOUS
  <2>1. ASSUME NEW i \in 1..Len(js'.pool), js'.pool[i] = id PROVE \E x \in 1..m : js.pool[x] = id
    BY <2>1, <1>p
  <2>2. ASSUME NEW i \in 1..m, js.pool[i] = id PROVE \E x \in 1..Len(js'.pool) : js'.pool[x] = id
    <3>1. i # m
      BY <2>2, <1>2, <1>0 DEF fresh
    <3> QED BY <3>1, <2>2, <1>p
  <2> QED BY <2>1, <2>2 DEF Pooled
<1>11. ~Pooled(k, js'.pool)
  <2> SUFFICES ASSUME NEW i \in 1..Len(js'.pool), js'.pool[i] = k PROVE FALSE
    BY DEF Pooled
  <2>1. ~fresh /\ i \in 1..m /\ i # m /\ js.pool[i] = k
    BY <1>p
  <2>2. js.pool[m] = k
    BY <2>1, <1>2
  <2>3. m \in Nat /\ m > 0
    BY <2>1, <1>2, <1>0
  <2>4. m \in 1..m
    <3> HIDE DEF m
    <3> QED BY <2>3
  <2> QED BY <2>1, <2>2, <2>4 DEF TableInv, PoolOnce
<1>12. IdsUsed'
  <2> SUFFICES ASSUME NEW id \in 7..Len(js'.values) - 1
               PROVE  /\ js'.counts[id + 1] >= 0
                      /\ js'.counts[id + 1] > 0 =>
                           /\ js'.values[id + 1] \in DOMAIN js'.ids
                           /\ js'.ids[js'.values[id + 1]] = id
                      /\ js'.counts[id + 1] = 0 <=> Pooled(id, js'.pool)
    BY DEF IdsUsed
  <2>1. CASE id = k
    <3>1. js'.counts[id + 1] = 1 /\ js'.values[id + 1] = v /\ v \in DOMAIN js'.ids /\ js'.ids[v] = id
      BY <2>1, <1>1, <1>3
    <3> QED BY <3>1, <2>1, <1>11
  <2>2. CASE id # k
    <3>1. id \in 7..n - 1
      BY <2>2, <1>5
    <3>2. js'.values[id + 1] = js.values[id + 1] /\ js'.counts[id + 1] = js.counts[id + 1]
      <4>1. id \in 0..n - 1
        BY <3>1, <1>0
      <4> QED BY <4>1, <2>2, <1>s
    <3>3. /\ js.counts[id + 1] >= 0
          /\ js.counts[id + 1] > 0 =>
                js.values[id + 1] \in DOMAIN js.ids /\ js.ids[js.values[id + 1]] = id
          /\ js.counts[id + 1] = 0 <=> Pooled(id, js.pool)
      BY <3>1 DEF TableInv, IdsUsed, n
    <3>4. \A u \in DOMAIN js.ids : u \in DOMAIN js'.ids /\ js'.ids[u] = js.ids[u]
      BY <1>1
    <3> QED BY <3>1, <3>2, <3>3, <3>4, <2>2, <1>10
  <2> QED BY <2>1, <2>2
<1>13. PoolOnce'
  <2>1. \A i \in 1..Len(js'.pool) : js'.pool[i] \in 7..n - 1
    BY <1>p DEF TableInv, PoolOnce, n
  <2>2. \A i, x \in 1..Len(js'.pool) : js'.pool[i] = js'.pool[x] => i = x
    BY <1>p DEF TableInv, PoolOnce
  <2>3. \A id \in 7..n - 1 : id \in 7..Len(js'.values) - 1
    BY <1>3, <1>0
  <2> QED BY <2>1, <2>2, <2>3 DEF PoolOnce
<1>14. \A id \in 7..Len(js'.values) - 1 : id # k =>
         /\ id \in 7..n - 1
         /\ js'.values[id + 1] = js.values[id + 1]
         /\ js'.counts[id + 1] = js.counts[id + 1]
  <2> TAKE id \in 7..Len(js'.values) - 1
  <2> HAVE id # k
  <2>1. id \in 7..n - 1
    BY <1>5
  <2>2. id \in 0..n - 1
    BY <2>1, <1>0
  <2> QED BY <2>1, <2>2, <1>s
<1>15. k \in 7..n - 1 => js.counts[k + 1] = 0
  BY <1>2, <1>0
<1> QED
  BY <1>1, <1>3, <1>4, <1>6, <1>7, <1>9, <1>12, <1>13, <1>14, <1>15 DEF TableInv, k, n

\* The reference of a value is the number the table has for it.
LEMMA RefNames ==
  ASSUME TableInv, flavour \in {"go", "tinygo"}, NEW v,
         Fixed(v) \/ v \in DOMAIN js.ids
  PROVE  /\ Load(RefOf(v)) = v
         /\ \A id \in 7..Len(js.values) - 1 :
              RefOf(v) = Id(id) <=> v \in DOMAIN js.ids /\ js.ids[v] = id
<1>1. CASE v \in DOMAIN js.ids
  <2>1. RefOf(v) = Id(js.ids[v]) /\ js.values[js.ids[v] + 1] = v
    BY <1>1 DEF RefOf, TableInv, IdsName
  <2> QED BY <2>1, <1>1 DEF Id, Load
<1>2. CASE Fixed(v)
  <2>1. v \notin DOMAIN js.ids /\ RefOf(v) = FixedRef(v)
    BY <1>2 DEF RefOf, TableInv, IdsName
  <2>2. CASE FixedRef(v) = Plain(v)
    BY <2>1, <2>2 DEF Plain, Load, Id
  <2>3. ASSUME NEW n \in 1..7, v = Predefined[n], FixedRef(v) = Id(n - 1)
        PROVE  /\ Load(RefOf(v)) = v
               /\ \A id \in 7..Len(js.values) - 1 : RefOf(v) # Id(id)
    <3>1. js.values[n - 1 + 1] = v
      BY <2>3 DEF TableInv, FirstSeven
    <3>2. \A id \in 7..Len(js.values) - 1 : n - 1 # id
      BY DEF TableInv, TableShape
    <3> QED BY <2>1, <2>3, <3>1, <3>2 DEF Load, Id
  <2> QED BY <1>2, <2>1, <2>2, <2>3, FixedRefs
<1> QED BY <1>1, <1>2

\* One entry of the bag of references.
Entry(id, v, back) == [ref |-> Id(id), v |-> v, back |-> back]

\* What back means: the value is in the table.
LEMMA StoreStep ==
  ASSUME TableInv, RefsInv, flavour \in {"go", "tinygo"}, NEW v \in JsAny, NEW made \in BOOLEAN,
         Store(v, made, TRUE), flavour' = flavour
  PROVE  TableInv' /\ RefsInv'
<1> DEFINE gives == IF flavour = "go" THEN v \in Objects \cup Strings \cup {"global", "this"}
                    ELSE made /\ v \in Strings
<1>b. \E b \in BOOLEAN : b = gives
  <2>1. CASE gives
    <3>1. gives = TRUE
      BY <2>1
    <3> QED BY <3>1
  <2>2. CASE ~gives
    <3>1. gives = FALSE
      BY <2>2
    <3> QED BY <3>1
  <2> QED BY <2>1, <2>2
<1>a. PICK back \in BOOLEAN : back = gives
  BY <1>b
<1> DEFINE x == [ref |-> RefOf(v), v |-> v, back |-> back]
<1>1. /\ js' = IF Fixed(v) THEN js ELSE With(v)
      /\ refs' = refs (+) SetToBag({x})
  BY <1>a DEF Store
<1>2. back => ~Fixed(v)
  BY <1>a, FixedRefs
<1> HIDE DEF gives
<1>3. \A e \in DOMAIN refs : refs[e] \in Nat \ {0}
  BY DEF RefsInv
<1>4. /\ DOMAIN refs' = DOMAIN refs \cup {x}
      /\ \A h : Times(h, refs') = IF h = x THEN Times(h, refs) + 1 ELSE Times(h, refs)
      /\ \A e \in DOMAIN refs' : refs'[e] \in Nat \ {0}
      /\ \A h : Times(h, refs) \in Nat
  BY <1>1, <1>3, OneMore
<1>5. \A u : Fixed(u)' <=> Fixed(u)
  BY DEF Fixed
<1>6. \A h \in DOMAIN refs : Fixed(h.v) \/ h.v \in DOMAIN js.ids
  BY DEF RefsInv
<1>r. ASSUME RefOf(v)' = RefOf(v), \A u \in DOMAIN js.ids : u \in DOMAIN js'.ids
             /\ js'.ids[u] = js.ids[u], Fixed(v) \/ v \in DOMAIN js'.ids
      PROVE  \A h \in DOMAIN refs' :
               /\ refs'[h] \in Nat \ {0}
               /\ h = [ref |-> RefOf(h.v)', v |-> h.v, back |-> h.back]
               /\ h.v \in JsAny /\ h.back \in BOOLEAN
               /\ Fixed(h.v)' \/ h.v \in DOMAIN js'.ids
               /\ h.back => h.v \in DOMAIN js'.ids
  <2> TAKE h \in DOMAIN refs'
  <2>1. CASE h = x
    BY <2>1, <1>r, <1>2, <1>4, <1>5
  <2>2. CASE h \in DOMAIN refs
    <3>1. /\ h = [ref |-> RefOf(h.v), v |-> h.v, back |-> h.back]
          /\ h.v \in JsAny /\ h.back \in BOOLEAN
          /\ Fixed(h.v) \/ h.v \in DOMAIN js.ids
          /\ h.back => h.v \in DOMAIN js.ids
      BY <2>2 DEF RefsInv
    <3>2. RefOf(h.v)' = RefOf(h.v)
      BY <3>1, <1>r, <1>5 DEF RefOf
    <3> QED BY <3>1, <3>2, <1>4, <1>5, <1>r
  <2> QED BY <2>1, <2>2, <1>4
<1>c. \A id \in 7..Len(js.values) - 1 :
        js.counts[id + 1] = Times(Entry(id, js.values[id + 1], TRUE), refs)
                            + Times(Entry(id, js.values[id + 1], FALSE), refs)
  BY DEF RefsInv, HeldOf, Entry
<1>d. ASSUME \A id \in 7..Len(js'.values) - 1 :
               js'.counts[id + 1] = Times(Entry(id, js'.values[id + 1], TRUE), refs')
                                    + Times(Entry(id, js'.values[id + 1], FALSE), refs')
      PROVE  \A id \in 7..Len(js'.values) - 1 : js'.counts[id + 1] = HeldOf(id)'
  BY <1>d DEF HeldOf, Entry
<1>7. CASE Fixed(v)
  <2>1. js' = js
    BY <1>1, <1>7
  <2>2. TableInv'
    BY <2>1 DEF TableInv, TableShape, FirstSeven, IdsName, IdsUsed, Pooled, PoolOnce, Fixed
  <2>3. RefOf(v)' = RefOf(v)
    BY <2>1, <1>5, <1>7 DEF RefOf, FixedRef
  <2>4. ASSUME NEW id \in 7..Len(js.values) - 1, NEW b \in BOOLEAN
        PROVE  Entry(id, js.values[id + 1], b) # x
    BY <1>7, RefNames DEF Entry, TableInv, IdsName
  <2>5. \A id \in 7..Len(js'.values) - 1 : js'.counts[id + 1] = HeldOf(id)'
    BY <2>1, <2>4, <1>4, <1>c, <1>d
  <2> QED BY <2>1, <2>2, <2>3, <2>5, <1>7, <1>r DEF RefsInv
<1>8. CASE ~Fixed(v) /\ v \in DOMAIN js.ids
  <2> DEFINE n == js.counts[js.ids[v] + 1]
             c == IF n = Infinity THEN n ELSE n + 1
  <2>a. /\ js.ids[v] >= 7 => n > 0
        /\ js.ids[v] < 7 => flavour = "go"
        /\ js.ids[v] \in 0..Len(js.values) - 1
    BY <1>8 DEF TableInv, IdsName
  <2>b. n \in Int
    BY <2>a DEF TableInv, TableShape
  <2>c. js.ids[v] < 7 => n = Infinity
    <3> SUFFICES ASSUME js.ids[v] < 7 PROVE n = Infinity
      OBVIOUS
    <3>1. flavour = "go" /\ js.ids[v] + 1 \in 1..7
      BY <2>a
    <3>2. \A i \in 1..7 : js.counts[i] = Infinity
      BY <3>1 DEF TableInv, FirstSeven
    <3> QED BY <3>1, <3>2
  <2>d. CountBecomes(js.ids[v], c)
    BY <1>1, <1>8 DEF With, CountBecomes
  <2>e. c \in Int /\ (js.ids[v] >= 7 => c = n + 1 /\ c > 0) /\ (js.ids[v] < 7 => c = n)
    BY <2>a, <2>b, <2>c DEF Infinity
  <2> HIDE DEF c
  <2>1. /\ TableInv'
        /\ js'.ids = js.ids /\ js'.values = js.values
        /\ js'.counts = [js.counts EXCEPT ![js.ids[v] + 1] = c]
    BY <1>8, <2>d, <2>e, Recounted
  <2>2. RefOf(v)' = RefOf(v) /\ RefOf(v) = Id(js.ids[v])
    BY <2>1, <1>5, <1>8 DEF RefOf
  <2>3. ASSUME NEW id \in 7..Len(js.values) - 1
        PROVE  js'.counts[id + 1] = Times(Entry(id, js.values[id + 1], TRUE), refs')
                                    + Times(Entry(id, js.values[id + 1], FALSE), refs')
    <3>1. DOMAIN js.counts = 1..Len(js.values) /\ id + 1 \in 1..Len(js.values)
      BY DEF TableInv, TableShape
    <3>2. js.ids[v] \in Nat
      BY <1>8 DEF TableInv, TableShape, IdsName
    <3>3. CASE id = js.ids[v]
      <4>1. js.counts[id + 1] > 0 /\ js.values[id + 1] = v
        BY <3>3, <1>8 DEF TableInv, IdsName
      <4>3. js'.counts[id + 1] = js.counts[id + 1] + 1
        BY <3>1, <3>3, <2>1, <2>e
      <4>4. Entry(id, v, back) = x /\ (\A b \in BOOLEAN : b # back => Entry(id, v, b) # x)
        BY <3>3, <2>2, <1>2 DEF Entry
      <4>5. \A b \in BOOLEAN : Times(Entry(id, v, b), refs')
              = IF b = back THEN Times(Entry(id, v, b), refs) + 1 ELSE Times(Entry(id, v, b), refs)
        BY <4>4, <1>4
      <4>6. Times(Entry(id, v, TRUE), refs) \in Nat /\ Times(Entry(id, v, FALSE), refs) \in Nat
        BY <1>4
      <4>7. Times(Entry(id, v, TRUE), refs') + Times(Entry(id, v, FALSE), refs')
              = Times(Entry(id, v, TRUE), refs) + Times(Entry(id, v, FALSE), refs) + 1
        <5>1. CASE back = TRUE
          <6>1. /\ Times(Entry(id, v, TRUE), refs') = Times(Entry(id, v, TRUE), refs) + 1
                /\ Times(Entry(id, v, FALSE), refs') = Times(Entry(id, v, FALSE), refs)
            BY <4>5, <5>1
          <6> QED BY <6>1, <4>6, SumOneMore, Zenon
        <5>2. CASE back = FALSE
          <6>1. /\ Times(Entry(id, v, FALSE), refs') = Times(Entry(id, v, FALSE), refs) + 1
                /\ Times(Entry(id, v, TRUE), refs') = Times(Entry(id, v, TRUE), refs)
            BY <4>5, <5>2
          <6> QED BY <6>1, <4>6, SumOneMore, Zenon
        <5> QED BY <5>1, <5>2
      <4> QED BY <4>1, <4>3, <4>7, <1>c
    <3>4. CASE id # js.ids[v]
      <4>1. js'.counts[id + 1] = js.counts[id + 1]
        BY <3>1, <3>2, <3>4, <2>1
      <4>2. \A b : Entry(id, js.values[id + 1], b) # x
        BY <3>4, <2>2 DEF Entry, Id
      <4> QED BY <4>1, <4>2, <1>4, <1>c
    <3> QED BY <3>3, <3>4
  <2>4. \A id \in 7..Len(js'.values) - 1 : js'.counts[id + 1] = HeldOf(id)'
    BY <2>1, <2>3, <1>d
  <2> QED BY <2>1, <2>2, <2>4, <1>8, <1>r DEF RefsInv
<1>9. CASE ~Fixed(v) /\ v \notin DOMAIN js.ids
  <2>1. /\ TableInv'
        /\ DOMAIN js'.ids = DOMAIN js.ids \cup {v} /\ js'.ids[v] = NewId
        /\ \A u \in DOMAIN js.ids : js'.ids[u] = js.ids[u] /\ js.ids[u] # NewId
        /\ NewId \in 7..Len(js'.values) - 1 /\ js'.values[NewId + 1] = v
        /\ js'.counts[NewId + 1] = 1
        /\ \A id \in 7..Len(js'.values) - 1 : id # NewId =>
             /\ id \in 7..Len(js.values) - 1
             /\ js'.values[id + 1] = js.values[id + 1]
             /\ js'.counts[id + 1] = js.counts[id + 1]
    BY <1>1, <1>9, WithNew
  <2>2. RefOf(v)' = RefOf(v) /\ RefOf(v) = Id(NewId)
    BY <2>1, <1>5, <1>9 DEF RefOf
  <2>3. ASSUME NEW id \in 7..Len(js'.values) - 1
        PROVE  js'.counts[id + 1] = Times(Entry(id, js'.values[id + 1], TRUE), refs')
                                    + Times(Entry(id, js'.values[id + 1], FALSE), refs')
    <3>3. CASE id = NewId
      <4>1. \A b : Entry(id, v, b) \notin DOMAIN refs
        BY <1>6, <1>9 DEF Entry
      <4>2. \A b : Times(Entry(id, v, b), refs) = 0
        BY <4>1 DEF Times, BagToSet
      <4>4. Entry(id, v, back) = x /\ (\A b \in BOOLEAN : b # back => Entry(id, v, b) # x)
        BY <3>3, <2>2, <1>2 DEF Entry
      <4>5. \A b \in BOOLEAN : Times(Entry(id, v, b), refs')
              = IF b = back THEN Times(Entry(id, v, b), refs) + 1 ELSE Times(Entry(id, v, b), refs)
        BY <4>4, <1>4
      <4>6. Times(Entry(id, v, TRUE), refs) \in Nat /\ Times(Entry(id, v, FALSE), refs) \in Nat
        BY <1>4
      <4>7. Times(Entry(id, v, TRUE), refs') + Times(Entry(id, v, FALSE), refs')
              = Times(Entry(id, v, TRUE), refs) + Times(Entry(id, v, FALSE), refs) + 1
        <5>1. CASE back = TRUE
          <6>1. /\ Times(Entry(id, v, TRUE), refs') = Times(Entry(id, v, TRUE), refs) + 1
                /\ Times(Entry(id, v, FALSE), refs') = Times(Entry(id, v, FALSE), refs)
            BY <4>5, <5>1
          <6> QED BY <6>1, <4>6, SumOneMore, Zenon
        <5>2. CASE back = FALSE
          <6>1. /\ Times(Entry(id, v, FALSE), refs') = Times(Entry(id, v, FALSE), refs) + 1
                /\ Times(Entry(id, v, TRUE), refs') = Times(Entry(id, v, TRUE), refs)
            BY <4>5, <5>2
          <6> QED BY <6>1, <4>6, SumOneMore, Zenon
        <5> QED BY <5>1, <5>2
      <4>8. Times(Entry(id, v, TRUE), refs) = 0 /\ Times(Entry(id, v, FALSE), refs) = 0
        BY <4>2
      <4>9. js'.counts[id + 1] = 1 /\ js'.values[id + 1] = v
        BY <3>3, <2>1
      <4>x. 0 + 0 + 1 = 1
        OBVIOUS
      <4> QED BY <4>7, <4>8, <4>9, <4>x, Zenon
    <3>4. CASE id # NewId
      <4>2. \A b : Entry(id, js.values[id + 1], b) # x
        BY <3>4, <2>2 DEF Entry, Id
      <4>3. /\ id \in 7..Len(js.values) - 1
            /\ js'.values[id + 1] = js.values[id + 1]
            /\ js'.counts[id + 1] = js.counts[id + 1]
        BY <3>4, <2>1
      <4>4. /\ Times(Entry(id, js.values[id + 1], TRUE), refs')
                 = Times(Entry(id, js.values[id + 1], TRUE), refs)
            /\ Times(Entry(id, js.values[id + 1], FALSE), refs')
                 = Times(Entry(id, js.values[id + 1], FALSE), refs)
        BY <4>2, <1>4
      <4> QED BY <4>3, <4>4, <1>c
    <3> QED BY <3>3, <3>4
  <2>4. \A id \in 7..Len(js'.values) - 1 : js'.counts[id + 1] = HeldOf(id)'
    BY <2>3, <1>d
  <2> QED BY <2>1, <2>2, <2>4, <1>9, <1>r DEF RefsInv
<1> QED BY <1>7, <1>8, <1>9

\* An id nobody holds is put back into the pool.
LEMMA FreedStep ==
  ASSUME TableInv, NEW v \in DOMAIN js.ids, js.ids[v] >= 7, js' = Freed(js.ids[v]),
         flavour' = flavour
  PROVE  /\ TableInv'
         /\ DOMAIN js'.ids = DOMAIN js.ids \ {v}
         /\ \A u \in DOMAIN js'.ids : js'.ids[u] = js.ids[u]
         /\ Len(js'.values) = Len(js.values)
         /\ js'.counts[js.ids[v] + 1] = 0
         /\ \A id \in 7..Len(js.values) - 1 : id # js.ids[v] =>
              js'.values[id + 1] = js.values[id + 1] /\ js'.counts[id + 1] = js.counts[id + 1]
<1> DEFINE k == js.ids[v]
           n == Len(js.values)
           m == Len(js.pool)
<1>0. /\ DOMAIN js = {"values", "counts", "ids", "pool"}
      /\ js.values \in Seq(JsAny) /\ js.counts \in Seq(Int) /\ js.pool \in Seq(Nat)
      /\ n >= 7 /\ Len(js.counts) = n /\ n \in Nat /\ m \in Nat
      /\ DOMAIN js.values = 1..n /\ DOMAIN js.counts = 1..n
  BY DEF TableInv, TableShape
<1>1. /\ k \in 7..n - 1 /\ k \in Nat /\ js.values[k + 1] = v
      /\ ~Fixed(v) /\ js.counts[k + 1] > 0
  BY <1>0 DEF TableInv, IdsName
<1>2. /\ js'.values = [js.values EXCEPT ![k + 1] = "null"]
      /\ js'.counts = [js.counts EXCEPT ![k + 1] = 0]
      /\ js'.ids = [u \in DOMAIN js.ids \ {v} |-> js.ids[u]]
      /\ js'.pool = Append(js.pool, k)
      /\ DOMAIN js' = {"values", "counts", "ids", "pool"}
  <2>1. js' = [js EXCEPT !.counts[k + 1] = 0, !.values[k + 1] = "null",
                         !.ids = [u \in DOMAIN @ \ {v} |-> @[u]], !.pool = Append(@, k)]
    BY <1>1 DEF Freed
  <2> QED BY <2>1, <1>0, Zenon
<1> HIDE DEF k, n, m
<1>3. "null" \in JsAny
  BY DEF JsAny, ToSet, Predefined
<1>4. /\ js'.values \in Seq(JsAny) /\ js'.counts \in Seq(Int)
      /\ Len(js'.values) = n /\ Len(js'.counts) = n
      /\ js'.counts[k + 1] = 0
      /\ \A i \in 1..n : i # k + 1 =>
           js'.values[i] = js.values[i] /\ js'.counts[i] = js.counts[i]
  BY <1>0, <1>1, <1>2, <1>3 DEF n
<1>5. /\ js'.pool \in Seq(Nat) /\ Len(js'.pool) = m + 1 /\ js'.pool[m + 1] = k
      /\ \A i \in 1..m : js'.pool[i] = js.pool[i]
  BY <1>0, <1>1, <1>2 DEF m
<1>s. \A id \in 0..n - 1 : id # k =>
        js'.values[id + 1] = js.values[id + 1] /\ js'.counts[id + 1] = js.counts[id + 1]
  <2> TAKE id \in 0..n - 1
  <2> HAVE id # k
  <2>1. id + 1 \in 1..n /\ id + 1 # k + 1
    BY <1>0, <1>1
  <2> QED BY <2>1, <1>4
<1>6. TableShape'
  BY <1>0, <1>2, <1>4, <1>5 DEF TableShape
<1>7. FirstSeven'
  <2>1. \A i \in 1..7 : js'.values[i] = js.values[i] /\ js'.counts[i] = js.counts[i]
    <3> TAKE i \in 1..7
    <3>1. i \in 1..n /\ i # k + 1
      BY <1>0, <1>1
    <3> QED BY <3>1, <1>4
  <2>2. ASSUME flavour = "go", NEW i \in 2..7
        PROVE  Predefined[i] \in DOMAIN js'.ids /\ js'.ids[Predefined[i]] = i - 1
    <3>1. Predefined[i] \in DOMAIN js.ids /\ js.ids[Predefined[i]] = i - 1
      BY <2>2 DEF TableInv, FirstSeven
    <3>2. Predefined[i] # v
      BY <3>1, <1>1 DEF k
    <3> QED BY <3>1, <3>2, <1>2
  <2> QED BY <2>1, <2>2 DEF TableInv, FirstSeven
<1>8. \A u : Fixed(u)' <=> Fixed(u)
  BY DEF Fixed
<1>9. \A u \in DOMAIN js'.ids : u \in DOMAIN js.ids /\ u # v /\ js'.ids[u] = js.ids[u]
                                /\ js.ids[u] # k /\ js.ids[u] \in 0..n - 1
  <2> TAKE u \in DOMAIN js'.ids
  <2>1. u \in DOMAIN js.ids /\ u # v /\ js'.ids[u] = js.ids[u]
    BY <1>2
  <2>2. js.values[js.ids[u] + 1] = u /\ js.ids[u] \in 0..n - 1
    BY <2>1 DEF TableInv, IdsName, n
  <2> QED BY <2>1, <2>2, <1>1
<1>10. IdsName'
  <2> SUFFICES ASSUME NEW u \in DOMAIN js'.ids
               PROVE  /\ js'.ids[u] \in 0..Len(js'.values) - 1
                      /\ js'.values[js'.ids[u] + 1] = u
                      /\ ~Fixed(u)
                      /\ js'.ids[u] >= 7 => js'.counts[js'.ids[u] + 1] > 0
                      /\ js'.ids[u] < 7 => flavour' = "go"
    BY <1>8 DEF IdsName
  <2>1. /\ js.ids[u] \in 0..n - 1 /\ js.values[js.ids[u] + 1] = u /\ ~Fixed(u)
        /\ js.ids[u] >= 7 => js.counts[js.ids[u] + 1] > 0
        /\ js.ids[u] < 7 => flavour = "go"
    BY <1>9 DEF TableInv, IdsName, n
  <2>2. js'.values[js.ids[u] + 1] = js.values[js.ids[u] + 1]
        /\ js'.counts[js.ids[u] + 1] = js.counts[js.ids[u] + 1]
    BY <1>9, <1>s
  <2> QED BY <2>1, <2>2, <1>9, <1>4
<1>11. \A id \in 7..n - 1 : Pooled(id, js'.pool) <=> id = k \/ Pooled(id, js.pool)
  <2> TAKE id \in 7..n - 1
  <2>1. ASSUME NEW i \in 1..m + 1, js'.pool[i] = id PROVE id = k \/ \E x \in 1..m : js.pool[x] = id
    <3>1. i = m + 1 \/ i \in 1..m
      BY <1>0
    <3> QED BY <3>1, <2>1, <1>5
  <2>2. ASSUME NEW i \in 1..m, js.pool[i] = id PROVE \E x \in 1..m + 1 : js'.pool[x] = id
    <3>1. i \in 1..m + 1
      BY <1>0
    <3> QED BY <3>1, <2>2, <1>5
  <2>3. m + 1 \in 1..m + 1
    BY <1>0
  <2> QED BY <2>1, <2>2, <2>3, <1>5 DEF Pooled, m
<1>12. IdsUsed'
  <2> SUFFICES ASSUME NEW id \in 7..n - 1
               PROVE  /\ js'.counts[id + 1] >= 0
                      /\ js'.counts[id + 1] > 0 =>
                           /\ js'.values[id + 1] \in DOMAIN js'.ids
                           /\ js'.ids[js'.values[id + 1]] = id
                      /\ js'.counts[id + 1] = 0 <=> Pooled(id, js'.pool)
    BY <1>4 DEF IdsUsed
  <2>1. CASE id = k
    BY <2>1, <1>4, <1>11
  <2>2. CASE id # k
    <3>1. id \in 0..n - 1
      BY <1>0
    <3>2. js'.values[id + 1] = js.values[id + 1] /\ js'.counts[id + 1] = js.counts[id + 1]
      BY <3>1, <2>2, <1>s
    <3>3. /\ js.counts[id + 1] >= 0
          /\ js.counts[id + 1] > 0 =>
                js.values[id + 1] \in DOMAIN js.ids /\ js.ids[js.values[id + 1]] = id
          /\ js.counts[id + 1] = 0 <=> Pooled(id, js.pool)
      BY DEF TableInv, IdsUsed, n
    <3>4. js.ids[v] # id
      BY <2>2 DEF k
    <3> QED BY <3>2, <3>3, <3>4, <2>2, <1>2, <1>11
  <2> QED BY <2>1, <2>2
<1>13. PoolOnce'
  <2>1. ~Pooled(k, js.pool)
    BY <1>1 DEF TableInv, IdsUsed, n
  <2>2. \A i \in 1..m : js.pool[i] \in 7..n - 1 /\ js.pool[i] # k
    BY <2>1 DEF Pooled, TableInv, PoolOnce, n, m
  <2>3. \A i, x \in 1..m : js.pool[i] = js.pool[x] => i = x
    BY DEF TableInv, PoolOnce, m
  <2>4. \A i \in 1..m + 1 : i \in 1..m \/ i = m + 1
    BY <1>0
  <2>5. \A i \in 1..m + 1 : js'.pool[i] \in 7..n - 1
    BY <2>2, <2>4, <1>1, <1>5
  <2>6. \A i, x \in 1..m + 1 : js'.pool[i] = js'.pool[x] => i = x
    BY <2>2, <2>3, <2>4, <1>5
  <2> QED BY <2>5, <2>6, <1>4, <1>5 DEF PoolOnce
<1>14. \A id \in 7..n - 1 : id \in 0..n - 1
  BY <1>0
<1> QED
  BY <1>2, <1>4, <1>6, <1>7, <1>9, <1>10, <1>12, <1>13, <1>14, <1>s DEF TableInv, k, n

\* The collector gives a reference back.
LEMMA FinalizeStep ==
  ASSUME TableInv, RefsInv, flavour \in {"go", "tinygo"}, FinalizeRef
  PROVE  TableInv' /\ RefsInv'
<1>1. PICK h \in DOMAIN refs :
        /\ h.back
        /\ refs' = refs (-) SetToBag({h})
        /\ js' = CASE js.counts[h.ref.id + 1] = Infinity -> js
                   [] js.counts[h.ref.id + 1] = 1 -> Freed(h.ref.id)
                   [] OTHER -> [js EXCEPT !.counts[h.ref.id + 1] = @ - 1]
  BY DEF FinalizeRef, BagToSet
<1> DEFINE v == h.v
           k == js.ids[v]
           count == js.counts[k + 1]
<1>2. flavour' = flavour
  BY DEF FinalizeRef
<1>3. v \in DOMAIN js.ids /\ h = [ref |-> RefOf(v), v |-> v, back |-> h.back] /\ h.back \in BOOLEAN
  BY <1>1 DEF RefsInv
<1>4. /\ ~Fixed(v) /\ k \in 0..Len(js.values) - 1 /\ k \in Nat
      /\ k >= 7 => count > 0
      /\ k < 7 => count = Infinity
  <2>1. /\ ~Fixed(v) /\ k \in 0..Len(js.values) - 1 /\ k \in Nat
        /\ k >= 7 => count > 0
        /\ k < 7 => flavour = "go"
    BY <1>3 DEF TableInv, TableShape, IdsName
  <2>2. k < 7 => k + 1 \in 1..7
    BY <2>1
  <2>3. flavour = "go" => \A n \in 1..7 : js.counts[n] = Infinity
    BY DEF TableInv, FirstSeven
  <2>4. k < 7 => count = Infinity
    <3> SUFFICES ASSUME k < 7 PROVE count = Infinity
      OBVIOUS
    <3>1. flavour = "go" /\ k + 1 \in 1..7
      BY <2>1, <2>2
    <3> HIDE DEF k
    <3> QED BY <3>1, <2>3
  <2> QED BY <2>1, <2>4
<1>5. RefOf(v) = Id(k) /\ h.ref.id = k /\ h = Entry(k, v, h.back)
  BY <1>3, <1>4 DEF RefOf, Id, Entry
<1>6. count \in Int
  <2>1. k + 1 \in 1..Len(js.counts) /\ js.counts \in Seq(Int)
    BY <1>4 DEF TableInv, TableShape
  <2> HIDE DEF k
  <2> QED BY <2>1
<1>7. \A e \in DOMAIN refs : refs[e] \in Nat \ {0}
  BY DEF RefsInv
<1>8. /\ DOMAIN refs' \subseteq DOMAIN refs
      /\ \A e : Times(e, refs') = IF e = h THEN Times(e, refs) - 1 ELSE Times(e, refs)
      /\ \A e : e \in DOMAIN refs' <=> Times(e, refs') # 0
      /\ \A e \in DOMAIN refs' : refs'[e] \in Nat \ {0}
      /\ \A e : Times(e, refs) \in Nat
  BY <1>1, <1>7, OneLess
<1>9. \A u : Fixed(u)' <=> Fixed(u)
  BY <1>2 DEF Fixed
<1>c. \A id \in 7..Len(js.values) - 1 :
        js.counts[id + 1] = Times(Entry(id, js.values[id + 1], TRUE), refs)
                            + Times(Entry(id, js.values[id + 1], FALSE), refs)
  BY DEF RefsInv, HeldOf, Entry
<1>d. ASSUME \A id \in 7..Len(js'.values) - 1 :
               js'.counts[id + 1] = Times(Entry(id, js'.values[id + 1], TRUE), refs')
                                    + Times(Entry(id, js'.values[id + 1], FALSE), refs')
      PROVE  \A id \in 7..Len(js'.values) - 1 : js'.counts[id + 1] = HeldOf(id)'
  BY <1>d DEF HeldOf, Entry
\* What stays held has its reference still, if its value is still in the table.
<1>r. ASSUME \A u \in DOMAIN js'.ids : js'.ids[u] = js.ids[u],
             \A e \in DOMAIN refs' : e.v \in DOMAIN js.ids => e.v \in DOMAIN js'.ids,
             DOMAIN js'.ids \subseteq DOMAIN js.ids
      PROVE  \A e \in DOMAIN refs' :
               /\ refs'[e] \in Nat \ {0}
               /\ e = [ref |-> RefOf(e.v)', v |-> e.v, back |-> e.back]
               /\ e.v \in JsAny /\ e.back \in BOOLEAN
               /\ Fixed(e.v)' \/ e.v \in DOMAIN js'.ids
               /\ e.back => e.v \in DOMAIN js'.ids
  <2> TAKE e \in DOMAIN refs'
  <2>1. /\ e = [ref |-> RefOf(e.v), v |-> e.v, back |-> e.back]
        /\ e.v \in JsAny /\ e.back \in BOOLEAN
        /\ Fixed(e.v) \/ e.v \in DOMAIN js.ids
        /\ e.back => e.v \in DOMAIN js.ids
    BY <1>8 DEF RefsInv
  <2>2. RefOf(e.v)' = RefOf(e.v)
    BY <2>1, <1>r, <1>9 DEF RefOf, FixedRef
  <2> QED BY <2>1, <2>2, <1>8, <1>9, <1>r
<1>o. \A id, u, b : id # k => Entry(id, u, b) # h
  BY <1>5 DEF Entry, Id
<1> HIDE DEF k, v, count
<1>10. CASE count = Infinity
  <2>1. js' = js /\ k < 7
    BY <1>10, <1>1, <1>4, <1>5 DEF count, Infinity
  <2>2. TableInv'
    BY <2>1, <1>2 DEF TableInv, TableShape, FirstSeven, IdsName, IdsUsed, Pooled, PoolOnce, Fixed
  <2>3. \A id \in 7..Len(js'.values) - 1 : js'.counts[id + 1] = HeldOf(id)'
    <3> SUFFICES ASSUME NEW id \in 7..Len(js.values) - 1
                 PROVE  js.counts[id + 1] = Times(Entry(id, js.values[id + 1], TRUE), refs')
                                            + Times(Entry(id, js.values[id + 1], FALSE), refs')
      BY <2>1, <1>d
    <3>1. id # k
      BY <2>1, <1>4
    <3> QED BY <3>1, <1>c, <1>8, <1>o
  <2> QED BY <2>1, <2>2, <2>3, <1>r DEF RefsInv
<1>11. CASE count = 1
  <2>1. js' = Freed(k) /\ k >= 7
    BY <1>11, <1>1, <1>4, <1>5 DEF count, Infinity
  <2>2. /\ TableInv'
        /\ DOMAIN js'.ids = DOMAIN js.ids \ {v}
        /\ \A u \in DOMAIN js'.ids : js'.ids[u] = js.ids[u]
        /\ Len(js'.values) = Len(js.values)
        /\ js'.counts[k + 1] = 0
        /\ \A id \in 7..Len(js.values) - 1 : id # k =>
             js'.values[id + 1] = js.values[id + 1] /\ js'.counts[id + 1] = js.counts[id + 1]
    BY <2>1, <1>2, <1>3, FreedStep DEF k
  <2>3. Times(Entry(k, v, TRUE), refs) + Times(Entry(k, v, FALSE), refs) = 1
    <3>1. k \in 7..Len(js.values) - 1 /\ js.values[k + 1] = v /\ js.counts[k + 1] = 1
      BY <2>1, <1>3, <1>4, <1>11 DEF TableInv, IdsName, k, v, count
    <3> QED BY <3>1, <1>c
  <2>4. \A b \in BOOLEAN : Times(Entry(k, v, b), refs') = 0
    <3>1. Times(h, refs) \in Nat \ {0}
      BY <1>7, <1>1 DEF Times, BagToSet
    <3>2. Times(Entry(k, v, TRUE), refs) \in Nat /\ Times(Entry(k, v, FALSE), refs) \in Nat
      BY <1>8
    <3>3. CASE h.back = TRUE
      <4>1. h = Entry(k, v, TRUE) /\ h # Entry(k, v, FALSE)
        BY <3>3, <1>5 DEF Entry
      <4>2. Times(Entry(k, v, TRUE), refs) \in Nat \ {0}
        BY <4>1, <3>1, Zenon
      <4>3. \A a \in Nat \ {0}, c \in Nat : a + c = 1 => a - 1 = 0 /\ c = 0
        OBVIOUS
      <4>4. Times(Entry(k, v, TRUE), refs) - 1 = 0 /\ Times(Entry(k, v, FALSE), refs) = 0
        BY <4>2, <4>3, <3>2, <2>3, Zenon
      <4>5. Times(Entry(k, v, TRUE), refs') = 0
        BY <4>1, <4>4, <1>8, Zenon
      <4>6. Times(Entry(k, v, FALSE), refs') = 0
        BY <4>1, <4>4, <1>8, Zenon
      <4> QED BY <4>5, <4>6, Zenon
    <3>4. CASE h.back = FALSE
      BY <3>4, <1>1
    <3> QED BY <3>3, <3>4, <1>3
  <2>5. \A e \in DOMAIN refs' : e.ref # Id(k) /\ e.v # v
    <3> TAKE e \in DOMAIN refs'
    <3>1. /\ e = [ref |-> RefOf(e.v), v |-> e.v, back |-> e.back] /\ e.back \in BOOLEAN
          /\ Fixed(e.v) \/ e.v \in DOMAIN js.ids
      BY <1>8 DEF RefsInv
    <3>2. e.v # v
      <4> SUFFICES ASSUME e.v = v PROVE FALSE
        OBVIOUS
      <4>1. e = Entry(k, v, e.back)
        BY <3>1, <1>5 DEF Entry
      <4> QED BY <4>1, <3>1, <2>4, <1>8
    <3>3. ASSUME e.ref = Id(k) PROVE FALSE
      <4>1. k \in 7..Len(js.values) - 1
        BY <2>1, <1>4
      <4>2. e.v \in DOMAIN js.ids /\ js.ids[e.v] = k
        BY <3>1, <3>3, <4>1, RefNames
      <4> QED BY <4>2, <3>2, <1>3 DEF TableInv, IdsName, k, v
    <3> QED BY <3>2, <3>3
  <2>6. \A id \in 7..Len(js'.values) - 1 : js'.counts[id + 1] = HeldOf(id)'
    <3> SUFFICES ASSUME NEW id \in 7..Len(js.values) - 1
                 PROVE  js'.counts[id + 1] = Times(Entry(id, js'.values[id + 1], TRUE), refs')
                                            + Times(Entry(id, js'.values[id + 1], FALSE), refs')
      BY <2>2, <1>d
    <3>1. CASE id = k
      <4>1. \A u, b : Entry(k, u, b) \notin DOMAIN refs'
        BY <2>5 DEF Entry
      <4>2. \A u, b : Times(Entry(k, u, b), refs') = 0
        BY <4>1, <1>8
      <4>3. 0 = 0 + 0
        OBVIOUS
      <4> QED BY <3>1, <4>2, <4>3, <2>2, Zenon
    <3>2. CASE id # k
      <4>1. js'.values[id + 1] = js.values[id + 1] /\ js'.counts[id + 1] = js.counts[id + 1]
        BY <3>2, <2>2
      <4> QED BY <3>2, <4>1, <1>c, <1>8, <1>o
    <3> QED BY <3>1, <3>2
  <2> QED BY <2>2, <2>5, <2>6, <1>r DEF RefsInv
<1>12. CASE count # Infinity /\ count # 1
  <2>1. k >= 7 /\ count >= 2
    BY <1>12, <1>4, <1>6
  <2>2. CountBecomes(k, count - 1)
    BY <1>12, <1>1, <1>5 DEF count, CountBecomes
  <2>3. count - 1 \in Int /\ count - 1 > 0
    BY <2>1, <1>6
  <2>4. /\ TableInv'
        /\ js'.ids = js.ids /\ js'.values = js.values
        /\ js'.counts = [js.counts EXCEPT ![k + 1] = count - 1]
    <3> DEFINE c == count - 1
    <3>1. c \in Int /\ (k >= 7 => c > 0) /\ (k < 7 => c = js.counts[k + 1]) /\ CountBecomes(k, c)
      BY <2>1, <2>2, <2>3, <1>4
    <3> HIDE DEF c
    <3>2. /\ TableInv'
          /\ js'.ids = js.ids /\ js'.values = js.values
          /\ js'.counts = [js.counts EXCEPT ![k + 1] = c]
      BY <3>1, <1>2, <1>3, Recounted DEF k
    <3> QED BY <3>2 DEF c
  <2>5. ASSUME NEW id \in 7..Len(js.values) - 1
        PROVE  js'.counts[id + 1] = Times(Entry(id, js.values[id + 1], TRUE), refs')
                                    + Times(Entry(id, js.values[id + 1], FALSE), refs')
    <3>1. DOMAIN js.counts = 1..Len(js.values) /\ id + 1 \in 1..Len(js.values)
      BY DEF TableInv, TableShape
    <3>2. CASE id = k
      <4>1. js'.counts[id + 1] = count - 1 /\ js.values[id + 1] = v /\ js.counts[id + 1] = count
        BY <3>1, <3>2, <2>4, <1>3 DEF TableInv, IdsName, k, v, count
      <4>2. h = Entry(k, v, TRUE) /\ h # Entry(k, v, FALSE)
        BY <1>1, <1>3, <1>5 DEF Entry
      <4>3. /\ Times(Entry(k, v, TRUE), refs') = Times(Entry(k, v, TRUE), refs) - 1
            /\ Times(Entry(k, v, FALSE), refs') = Times(Entry(k, v, FALSE), refs)
            /\ Times(Entry(k, v, TRUE), refs) \in Nat /\ Times(Entry(k, v, FALSE), refs) \in Nat
        BY <4>2, <1>8
      <4>4. count = Times(Entry(k, v, TRUE), refs) + Times(Entry(k, v, FALSE), refs)
        BY <4>1, <3>2, <1>c
      <4>5. count - 1 = (Times(Entry(k, v, TRUE), refs) - 1) + Times(Entry(k, v, FALSE), refs)
        BY <4>3, <4>4, <1>6, SumOneLess
      <4> QED BY <3>2, <4>1, <4>3, <4>5, Zenon
    <3>3. CASE id # k
      <4>1. js'.counts[id + 1] = js.counts[id + 1]
        BY <3>1, <3>3, <2>4, <1>4
      <4> QED BY <3>3, <4>1, <1>c, <1>8, <1>o
    <3> QED BY <3>2, <3>3
  <2>6. \A id \in 7..Len(js'.values) - 1 : js'.counts[id + 1] = HeldOf(id)'
    BY <2>4, <2>5, <1>d
  <2> QED BY <2>4, <2>6, <1>r DEF RefsInv
<1> QED BY <1>10, <1>11, <1>12

\* Every step of the program and of the event loop keeps the invariant.
LEMMA JsStep == JsInv /\ [JsNext]_jsVars => JsInv'
<1> SUFFICES ASSUME JsInv, [JsNext]_jsVars PROVE JsInv'
  OBVIOUS
<1>u. ASSUME UNCHANGED <<flavour, js, refs>>, TableInv, RefsInv PROVE TableInv' /\ RefsInv'
  <2>1. TableInv'
    BY <1>u DEF TableInv, TableShape, FirstSeven, IdsName, IdsUsed, Pooled, PoolOnce, Fixed
  <2>2. /\ \A id : HeldOf(id)' = HeldOf(id)
        /\ \A u : RefOf(u)' = RefOf(u) /\ (Fixed(u)' <=> Fixed(u))
    BY <1>u DEF HeldOf, Times, RefOf, FixedRef, Fixed, NewId
  <2>3. RefsInv'
    BY <1>u, <2>2 DEF RefsInv
  <2> QED BY <2>1, <2>3
<1>1. ASSUME NEW v \in JsAny, NEW made \in BOOLEAN, Store(v, made, TRUE), ~gone, gone' = gone,
             flavour' = flavour
      PROVE  JsInv'
  BY <1>1, StoreStep DEF JsInv
<1>2. CASE Get \/ StringVal \/ Return
  <2>1. ~gone /\ gone' = gone /\ flavour' = flavour
    BY <1>2 DEF Get, StringVal, Return, ProgramRuns, CallRuns, JsInv
  <2>2. \E v \in JsAny, made \in BOOLEAN : Store(v, made, TRUE)
    BY <1>2 DEF Get, StringVal, Return, Address, JsAny
  <2> QED BY <2>1, <2>2, <1>1
<1>3. CASE FinalizeRef
  <2>1. ~gone /\ gone' = gone /\ flavour' = flavour
    BY <1>3 DEF FinalizeRef, ProgramRuns, JsInv
  <2> QED BY <2>1, <1>3, FinalizeStep DEF JsInv
<1>4. CASE ExitGo
  BY <1>4 DEF ExitGo, JsInv
<1>5. CASE ExitTinyGo
  <2>1. ~gone /\ gone' = gone /\ flavour' = flavour
    BY <1>5 DEF ExitTinyGo, ProgramRuns, JsInv
  <2>2. UNCHANGED <<js, refs>> \/ \E v \in JsAny, made \in BOOLEAN : Store(v, made, TRUE)
    BY <1>5 DEF ExitTinyGo, JsAny
  <2> QED BY <2>1, <2>2, <1>1, <1>u DEF JsInv
<1>6. CASE CallOut \/ CallIn \/ StackMoves \/ Schedule \/ Clear \/ Pause \/ Event \/ Timeout
  <2>1. ~gone /\ gone' = gone /\ UNCHANGED <<flavour, js, refs>>
    BY <1>6 DEF CallOut, CallIn, StackMoves, Schedule, Clear, Pause, Event, Timeout, ProgramRuns,
       CallRuns, Rests, JsInv
  <2> QED BY <2>1, <1>u DEF JsInv
<1>7. CASE UNCHANGED jsVars
  BY <1>7, <1>u DEF jsVars, JsInv
<1> QED BY <1>2, <1>3, <1>4, <1>5, <1>6, <1>7 DEF JsNext

\* Together: the invariant always holds.
LEMMA JsAlways == JsSpec => []JsInv
BY JsStarts, JsStep, PTL DEF JsSpec

\* A reference names what it was given for.
THEOREM RefsKeepNaming == JsSpec => []RefsName
<1>1. JsInv => RefsName
  <2> SUFFICES ASSUME TableInv, RefsInv, flavour \in {"go", "tinygo"}
               PROVE  /\ \A h \in BagToSet(refs) : Load(h.ref) = h.v
                      /\ \A v \in DOMAIN js.ids : js.values[js.ids[v] + 1] = v
                      /\ \A id \in 7..Len(js.values) - 1 :
                           /\ js.counts[id + 1] = HeldOf(id)
                           /\ js.counts[id + 1] = 0 <=> Contains(js.pool, id)
                      /\ IsInjective(js.pool)
    BY DEF JsInv, RefsName
  <2>1. \A h \in BagToSet(refs) : Load(h.ref) = h.v
    <3> TAKE h \in BagToSet(refs)
    <3>1. h.ref = RefOf(h.v) /\ (Fixed(h.v) \/ h.v \in DOMAIN js.ids)
      BY DEF RefsInv, BagToSet
    <3> QED BY <3>1, RefNames
  <2>2. \A v \in DOMAIN js.ids : js.values[js.ids[v] + 1] = v
    BY DEF TableInv, IdsName
  <2>3. \A id \in 7..Len(js.values) - 1 :
          /\ js.counts[id + 1] = HeldOf(id)
          /\ js.counts[id + 1] = 0 <=> Contains(js.pool, id)
    BY DEF TableInv, IdsUsed, Pooled, Contains, RefsInv
  <2>4. IsInjective(js.pool)
    <3>1. DOMAIN js.pool = 1..Len(js.pool)
      BY DEF TableInv, TableShape
    <3>2. \A a, b \in DOMAIN js.pool : js.pool[a] = js.pool[b] => a = b
      BY <3>1, Zenon DEF TableInv, PoolOnce
    <3> QED BY <3>2, Zenon DEF IsInjective
  <2> QED BY <2>1, <2>2, <2>3, <2>4
<1> QED BY JsAlways, <1>1, PTL
==============================================================================
