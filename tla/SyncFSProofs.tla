---------------------------- MODULE SyncFSProofs ----------------------------
(***************************************************************************)
(* SyncFS for every set of paths and of clients, and any number of         *)
(* versions and seconds: what a pull may replace, and what both sides hold *)
(* when nothing is left to do.                                             *)
(***************************************************************************)
EXTENDS SyncFS, TLAPS

-----------------------------------------------------------------------------
(* The invariants                                                          *)

Running == sync.pc = "run"

\* Outside its last phase Sync neither pulls nor pushes.
Phases == ~Running => sync.pulls = {} /\ sync.push \in {"done", "failed"}

\* Nobody uses the filesystem before the first scan.
Setup ==
  ~scanned => /\ ~Running
              /\ \A c \in Clients : op[c] = Idle
              /\ \A h \in Fds : handle[h] = Closed

Base == TypeOK /\ Phases /\ Setup

\* What the remote listed is still there when the scan uses the list.
Listed == sync.pc = "scan" => \A p \in Paths : Exists(sync.index[p]) => Exists(remote[p])

\* The archive holds every file it was noted to hold.
Archived == sync.push = "patch" => \A p \in Paths : sync.marks[p] = "put" => Exists(sync.tar[p])

\* What the scan decided to pull is still older here, still stands on the
\* remote, and is not being removed from it, unless an operation came between.
Pull(p) ==
  /\ Exists(sync.index[p]) /\ Outdated(local[p], sync.index[p]) /\ Exists(remote[p])
  /\ sync.push = "tar" => changes[p] # "delete"
  /\ sync.push = "patch" => sync.marks[p] # "delete"

PullInv ==
  /\ Base /\ Listed /\ Archived
  /\ \A p \in sync.pulls \ raced : Pull(p)

\* Only a rename is about two paths.
OpShape == \A c \in Clients : op[c] # Idle => ((op[c].kind = "rename") <=> (op[c].path # op[c].to))

\* Until then both sides are as they were found.
FirstFile == [ver |-> 1, mtime |-> 0]
AsFound ==
  ~scanned => \A p \in Paths : /\ local[p] \in {NoFile, FirstFile}
                              /\ (remote[p] \in {NoFile, FirstFile} \/ p \in adrift)

PutComing(p) == \E c \in Clients : op[c].pc = "mark" /\ op[c].kind # "remove" /\ op[c].to = p

RemoveComing(p) ==
  \E c \in Clients : op[c].pc = "mark" /\ op[c].kind \in {"remove", "rename"} /\ op[c].path = p

\* An operation whose note may come while a Sync runs is counted as overlapping.
NotesCounted ==
  SyncRuns => \A c \in Clients : op[c].pc = "mark" => {op[c].path, op[c].to} \subseteq raced

Armed == timer \/ queued > 0 \/ sync.pc \in {"index", "scan"}

\* A removal is noted only of a file that is gone, and a file that is there again
\* is about to be noted.
NotesTrue(p) ==
  /\ Exists(local[p]) => ~RemoveComing(p)
  /\ changes[p] = "delete" /\ Exists(local[p]) => PutComing(p)

\* A handle that will note the path when it is closed.
Unsaved(p) == \E h \in Fds : handle[h].pc = "modified" /\ handle[h].path = p

\* Between two Syncs: what differs is noted, is about to be, will be pulled, or is
\* adrift.
Waiting(p) ==
  /\ changes[p] # "none" => Armed \/ p \in adrift
  /\ changes[p] = "none" =>
       \/ Same(p) \/ p \in adrift \/ PutComing(p) \/ RemoveComing(p) \/ Unsaved(p)
       \/ ~Exists(local[p]) /\ Exists(remote[p]) /\ Armed

\* While Sync pushes and pulls: what differs is in the push or among the pulls.
Moving(p) ==
  /\ changes[p] # "none" =>
       /\ p \notin sync.pulls
       /\ sync.push \in {"tar", "patch", "reset"} \/ (sync.push = "failed" /\ p \in adrift)
  /\ changes[p] = "none" =>
       Same(p) \/ p \in adrift \/ Unsaved(p) \/ (p \in sync.pulls /\ Exists(remote[p]))
  /\ sync.push = "patch" => /\ sync.marks[p] = changes[p]
                            /\ changes[p] = "put" => sync.tar[p].ver = local[p].ver
  /\ sync.push = "reset" /\ changes[p] # "none" => Same(p) \/ p \in adrift

Kept(p) ==
  /\ NotesTrue(p)
  /\ scanned /\ ~Running => Waiting(p)
  /\ Running => Moving(p)

\* What is known of every path, and what is kept of a clean one.
Around ==
  /\ Base /\ OpShape /\ AsFound /\ NotesCounted
  /\ sync.pc = "scan" => \A p \in Paths : sync.index[p] = remote[p] \/ p \in adrift

QuietInv == Around /\ \A p \in Paths \ (raced \cup contended) : Kept(p)
-----------------------------------------------------------------------------
(* Types                                                                   *)

OpType == [pc : {"apply", "mark"}, kind : Kinds \cup {"remove"}, path : Paths, to : Paths]

OpenType == [pc : {"open", "modified"}, path : Paths, at : SUBSET Paths]
HandleType == {Closed} \cup OpenType

LEMMA FileTypes ==
  ASSUME TypeOK
  PROVE /\ NoFile \in File
        /\ version < MaxVersion => NewFile \in File /\ Exists(NewFile)
        /\ NoMarks \in [Paths -> Marks]
        /\ Rest \in [pc : {"idle", "index", "scan", "run"},
                     push : {"tar", "patch", "reset", "done", "failed"},
                     pulls : SUBSET Paths, index : [Paths -> File],
                     tar : [Paths -> File], marks : [Paths -> Marks]]
        /\ Failed \in [pc : {"idle", "index", "scan", "run"},
                       push : {"tar", "patch", "reset", "done", "failed"},
                       pulls : SUBSET Paths, index : [Paths -> File],
                       tar : [Paths -> File], marks : [Paths -> Marks]]
        /\ NoFiles \in [Paths -> File]
        /\ FirstMarks \in [Paths -> Marks]
<1>1. NoFile \in File
  BY SyncAssumption DEF NoFile, File
<1>2. version < MaxVersion => NewFile \in File /\ Exists(NewFile)
  BY SyncAssumption DEF NewFile, File, Exists, NoFile, TypeOK
<1>3. NoMarks \in [Paths -> Marks]
  BY DEF NoMarks, Marks
<1>4. Rest \in [pc : {"idle", "index", "scan", "run"},
                     push : {"tar", "patch", "reset", "done", "failed"},
                     pulls : SUBSET Paths, index : [Paths -> File],
                     tar : [Paths -> File], marks : [Paths -> Marks]]
  BY <1>1, <1>3 DEF Rest, NoFiles
<1>5. FirstMarks \in [Paths -> Marks]
  BY DEF FirstMarks, Marks
<1>6. NoFiles \in [Paths -> File]
  BY <1>1 DEF NoFiles
<1> QED BY <1>1, <1>2, <1>3, <1>4, <1>5, <1>6 DEF Failed

\* What moves or replaces a file changes only where the handles on it write.
LEMMA HandlesStay ==
  ASSUME handle \in [Fds -> HandleType], NEW p \in Paths, NEW to \in Paths
  PROVE \A hs \in {Replaced(p), Moved(p, to)} :
          /\ hs \in [Fds -> HandleType]
          /\ \A h \in Fds : /\ hs[h].pc = handle[h].pc
                            /\ handle[h].pc = "modified" => hs[h].path = handle[h].path
<1>1. ASSUME NEW h \in Fds, handle[h] = Closed
      PROVE Replaced(p)[h] = Closed /\ Moved(p, to)[h] = Closed
  BY <1>1 DEF Replaced, Moved, Closed
<1>2. ASSUME NEW h \in Fds, handle[h] \in OpenType
      PROVE \A r \in {Replaced(p)[h], Moved(p, to)[h]} :
              r \in OpenType /\ r.pc = handle[h].pc /\ r.path = handle[h].path
  <2>1. Replaced(p)[h] = [handle[h] EXCEPT !.at = handle[h].at \ {p}]
    BY DEF Replaced
  <2>2. Moved(p, to)[h] = [handle[h] EXCEPT !.at = IF p \in handle[h].at THEN {to} ELSE handle[h].at \ {to}]
    BY DEF Moved
  <2> QED BY <1>2, <2>1, <2>2 DEF OpenType
<1>3. \A h \in Fds : handle[h] = Closed \/ handle[h] \in OpenType
  BY DEF HandleType
<1>4. DOMAIN Replaced(p) = Fds /\ DOMAIN Moved(p, to) = Fds
  BY DEF Replaced, Moved
<1>5. Replaced(p) = [h \in Fds |-> Replaced(p)[h]] /\ Moved(p, to) = [h \in Fds |-> Moved(p, to)[h]]
  BY DEF Replaced, Moved
<1> QED BY <1>1, <1>2, <1>3, <1>4, <1>5 DEF HandleType

\* The operations keep every handle that is to note a path, and open others unmodified.
LEMMA ApplyHandles ==
  ASSUME handle \in [Fds -> HandleType], NEW p \in Paths, NEW to \in Paths,
         \/ ApplyCreate(p) \/ ApplyOpen(p) \/ ApplyTrunc(p) \/ ApplyTouch(p) \/ ApplyRemove(p)
         \/ ApplyRename(p, to)
  PROVE /\ handle' \in [Fds -> HandleType]
        /\ \A q \in Paths : Unsaved(q)' <=> Unsaved(q)
<1>1. ASSUME NEW hs \in {handle, Replaced(p), Moved(p, to)}
      PROVE /\ hs \in [Fds -> HandleType]
            /\ \A h \in Fds : /\ hs[h].pc = handle[h].pc
                              /\ handle[h].pc = "modified" => hs[h].path = handle[h].path
  BY HandlesStay
<1>2. CASE handle' \in {handle, Replaced(p), Moved(p, to)}
  BY <1>1, <1>2 DEF Unsaved
<1>3. ASSUME NEW hs \in {handle, Replaced(p)}, NEW h \in Fds, handle[h] = Closed,
             handle' = [hs EXCEPT ![h] = Opened(p)]
      PROVE /\ handle' \in [Fds -> HandleType]
            /\ \A q \in Paths : Unsaved(q)' <=> Unsaved(q)
  <2>1. Opened(p) \in OpenType /\ Opened(p).pc = "open"
    BY DEF Opened, OpenType
  <2>2. handle[h].pc = "closed"
    BY <1>3 DEF Closed
  <2>3. handle' \in [Fds -> HandleType]
    BY <1>1, <1>3, <2>1 DEF HandleType
  <2>4. \A g \in Fds \ {h} : handle'[g] = hs[g]
    BY <1>1, <1>3
  <2>5. handle'[h].pc = "open"
    BY <1>1, <1>3, <2>1
  <2> QED BY <1>1, <2>2, <2>3, <2>4, <2>5 DEF Unsaved
<1> QED BY <1>2, <1>3 DEF ApplyCreate, ApplyOpen, ApplyTrunc, ApplyTouch, ApplyRemove, ApplyRename

LEMMA InitBase == Init => Base
<1> SUFFICES ASSUME Init PROVE Base
  OBVIOUS
<1>1. NoFile \in File /\ FirstFile \in File
  BY SyncAssumption DEF File, NoFile, FirstFile
<1>2. local \in [Paths -> File] /\ remote \in [Paths -> File]
  BY <1>1 DEF Init, FirstFile
<1>3. NoMarks \in [Paths -> Marks]
  BY DEF NoMarks, Marks
<1>4. sync \in [pc : {"idle", "index", "scan", "run"},
               push : {"tar", "patch", "reset", "done", "failed"},
               pulls : SUBSET Paths, index : [Paths -> File],
               tar : [Paths -> File], marks : [Paths -> Marks]]
  BY <1>1, <1>3 DEF Init, Rest, NoFiles
<1>5. sync.pc = "idle" /\ sync.pulls = {} /\ sync.push = "done"
  BY DEF Init, Rest
<1>6. /\ clock \in 0 .. MaxTime /\ version \in 0 .. MaxVersion /\ calls \in 0 .. MaxCalls
      /\ queued \in 0 .. 1
  BY SyncAssumption DEF Init
<1>7. TypeOK
  BY <1>2, <1>3, <1>4, <1>5, <1>6 DEF Init, TypeOK
<1> QED BY <1>5, <1>7 DEF Base, Phases, Setup, Running, Init

\* What the operations and handles do, as far as the types go.
LEMMA OpsBase ==
  ASSUME Base, NEW c \in Clients, Begin(c) \/ OpApply(c) \/ OpFails(c) \/ OpMark(c)
  PROVE Base'
<1> USE DEF Base
<1>1. /\ sync' = sync /\ scanned' = scanned /\ queued' = queued /\ clock' = clock
      /\ contended' = contended /\ remote' = remote
  BY DEF Begin, OpBegin, OpApply, OpFails, OpMark
<1>2. scanned
  BY DEF Begin, OpBegin, OpApply, OpFails, OpMark, Setup, Idle
<1>3. op' \in [Clients -> {Idle} \cup OpType]
  <2>1. op \in [Clients -> {Idle} \cup OpType]
    BY DEF TypeOK, OpType
  <2>2. CASE Begin(c)
    BY <2>1, <2>2 DEF Begin, OpBegin, OpType
  <2>3. CASE OpApply(c)
    <3>1. op[c] \in OpType
      BY <2>1, <2>3 DEF OpApply, Idle
    <3> QED BY <2>1, <2>3, <3>1 DEF OpApply, OpType
  <2>4. CASE OpFails(c)
    <3>1. op[c] \in OpType
      BY <2>1, <2>4 DEF OpFails, Idle
    <3> QED BY <2>1, <2>4, <3>1 DEF OpFails, OpType
  <2>5. CASE OpMark(c)
    <3>1. op[c] \in OpType
      BY <2>1, <2>5 DEF OpMark, Idle
    <3> QED BY <2>1, <2>5, <3>1 DEF OpMark, OpType
  <2> QED BY <2>2, <2>3, <2>4, <2>5
<1>4. op[c].pc # "idle" => op[c].path \in Paths /\ op[c].to \in Paths
  BY DEF TypeOK, Idle
<1>5. /\ local' \in [Paths -> File] /\ version' \in 0 .. MaxVersion /\ calls' \in 0 .. MaxCalls
      /\ handle' \in [Fds -> HandleType]
      /\ adrift' \subseteq Paths
  <2>1. CASE OpApply(c)
    <3>0. op[c].path \in Paths /\ op[c].to \in Paths
      BY <1>4, <2>1 DEF OpApply
    <3> DEFINE p == op[c].path
    <3>a. handle' \in [Fds -> HandleType]
      BY <2>1, <3>0, ApplyHandles DEF OpApply, TypeOK, HandleType, OpenType
    <3>b. calls' \in 0 .. MaxCalls
      BY <2>1 DEF OpApply, TypeOK
    <3>1. CASE ApplyCreate(p)
      BY <3>0, <3>a, <3>b, <3>1, FileTypes, SyncAssumption DEF ApplyCreate, TypeOK
    <3>2. CASE ApplyOpen(p)
      BY <3>0, <3>a, <3>b, <3>2 DEF ApplyOpen, TypeOK
    <3>3. CASE ApplyTrunc(p)
      BY <3>0, <3>a, <3>b, <3>3, FileTypes, SyncAssumption DEF ApplyTrunc, TypeOK
    <3>4. CASE ApplyTouch(p)
      BY <3>0, <3>a, <3>b, <3>4, FileTypes, SyncAssumption DEF ApplyTouch, TypeOK
    <3>5. CASE ApplyRemove(p)
      BY <3>0, <3>a, <3>b, <3>5, FileTypes DEF ApplyRemove, TypeOK
    <3>6. CASE ApplyRename(p, op[c].to)
      BY <3>0, <3>a, <3>b, <3>6, FileTypes DEF ApplyRename, TypeOK
    <3> QED BY <2>1, <3>1, <3>2, <3>3, <3>4, <3>5, <3>6 DEF OpApply
  <2>2. CASE Begin(c)
    BY <2>2, SyncAssumption DEF Begin, OpBegin, TypeOK, HandleType, OpenType
  <2>3. CASE OpFails(c) \/ OpMark(c)
    BY <2>3 DEF OpFails, OpMark, TypeOK, HandleType, OpenType
  <2> QED BY <2>1, <2>2, <2>3
<1>6. changes' \in [Paths -> Marks] /\ timer' \in BOOLEAN
  <2>1. CASE OpMark(c)
    BY <2>1 DEF OpMark, changed, TypeOK, Marks
  <2>2. CASE ~OpMark(c)
    BY <2>2 DEF Begin, OpBegin, OpFails, OpApply, TypeOK
  <2> QED BY <2>1, <2>2
<1>7. raced' \subseteq Paths
  BY <1>4 DEF Begin, OpBegin, OpApply, OpFails, OpMark, Race, TypeOK
<1> QED BY <1>1, <1>2, <1>3, <1>5, <1>6, <1>7 DEF TypeOK, OpType, HandleType, OpenType, Phases, Setup, Running

LEMMA HandlesBase ==
  ASSUME Base, (\E h \in Fds : HandleWrite(h) \/ HandleClose(h)) \/ \E p \in Paths : ForeignWrite(p)
  PROVE Base'
<1> USE DEF Base
<1>0. \A h \in Fds : handle[h] # Closed => handle[h] \in OpenType
  BY DEF TypeOK, OpenType
<1>1. ASSUME NEW h \in Fds, HandleWrite(h) PROVE Base'
  <2>1. /\ handle[h] \in OpenType /\ scanned
        /\ UNCHANGED <<remote, changes, scanned, timer, queued, sync, op, clock, calls, contended>>
    BY <1>0, <1>1 DEF HandleWrite, Setup
  <2>2. handle' \in [Fds -> {Closed} \cup OpenType]
    BY <1>1, <2>1 DEF HandleWrite, TypeOK, OpenType
  <2>3. local' \in [Paths -> File] /\ version' \in 0 .. MaxVersion
    BY <1>1, FileTypes, SyncAssumption DEF HandleWrite, TypeOK
  <2>4. raced' \subseteq Paths /\ adrift' \subseteq Paths
    BY <1>1, <2>1 DEF HandleWrite, Race, TypeOK, OpenType
  <2> QED BY <2>1, <2>2, <2>3, <2>4 DEF TypeOK, OpenType, Phases, Setup, Running, Exists
<1>2. ASSUME NEW h \in Fds, HandleClose(h) PROVE Base'
  <2>1. /\ scanned /\ handle[h] \in OpenType
        /\ UNCHANGED <<local, remote, scanned, queued, sync, op, clock, version, calls, contended, adrift>>
    BY <1>0, <1>2 DEF HandleClose, Setup
  <2>2. changes' \in [Paths -> Marks] /\ timer' \in BOOLEAN
    BY <1>2, <2>1 DEF HandleClose, changed, TypeOK, Marks
  <2>3. handle' \in [Fds -> {Closed} \cup OpenType] /\ raced' \subseteq Paths
    BY <1>2, <2>1 DEF HandleClose, Race, TypeOK, OpenType
  <2> QED BY <2>1, <2>2, <2>3 DEF TypeOK, OpenType, Phases, Setup, Running, Exists
<1>3. ASSUME NEW p \in Paths, ForeignWrite(p) PROVE Base'
  BY <1>3, FileTypes, SyncAssumption DEF ForeignWrite, TypeOK, Exists, NoFile, Phases, Setup, Running
<1> QED BY <1>1, <1>2, <1>3

SyncType == [pc : {"idle", "index", "scan", "run"},
             push : {"tar", "patch", "reset", "done", "failed"},
             pulls : SUBSET Paths, index : [Paths -> File],
             tar : [Paths -> File], marks : [Paths -> Marks]]

LEMMA SyncBase ==
  ASSUME Base, Sync
  PROVE Base'
<1> USE DEF Base
<1>0. sync \in SyncType /\ sync.pulls \subseteq {p \in Paths : Exists(sync.index[p])}
  BY DEF TypeOK, SyncType
<1>a. Rest \in SyncType /\ Failed \in SyncType
  BY FileTypes DEF SyncType
<1>b. /\ Rest.pc = "idle" /\ Rest.pulls = {} /\ Rest.push = "done"
      /\ Failed.pc = "idle" /\ Failed.pulls = {} /\ Failed.push = "failed"
  BY DEF Failed, Rest
<1>c. ASSUME UNCHANGED <<scanned, op, handle>>, TypeOK', sync'.pc # "run",
             sync'.pulls = {}, sync'.push \in {"done", "failed"}
      PROVE Base'
  BY <1>c DEF Phases, Setup, Running
<1>d. Pending \subseteq Paths
  BY DEF Pending
<1>1. CASE SyncBegin
  <2>1. sync' \in SyncType /\ sync'.pc = "index" /\ sync'.pulls = {} /\ sync'.push = "done"
    BY <1>1, <1>a, <1>b DEF SyncBegin, SyncType
  <2>2. queued' \in 0 .. 1 /\ raced' \subseteq Paths
    BY <1>1 DEF SyncBegin, Unnoted, TypeOK, Idle
  <2>3. TypeOK'
    BY <1>1, <2>1, <2>2 DEF SyncBegin, TypeOK, SyncType
  <2> QED BY <1>1, <1>c, <2>1, <2>3 DEF SyncBegin
<1>2. CASE SyncIndex
  <2>0. sync.pulls = {} /\ sync.push \in {"done", "failed"}
    BY <1>2 DEF SyncIndex, Phases, Running
  <2>1. CASE sync' = [sync EXCEPT !.pc = "scan", !.index = remote] /\ UNCHANGED adrift
    <3>1. sync' \in SyncType /\ sync'.pc = "scan" /\ sync'.pulls = {} /\ sync'.push \in {"done", "failed"}
      BY <1>0, <2>0, <2>1 DEF SyncType, TypeOK
    <3>2. TypeOK'
      BY <1>2, <2>1, <3>1 DEF SyncIndex, env0, TypeOK, SyncType
    <3> QED BY <1>2, <1>c, <3>1, <3>2 DEF SyncIndex, env0
  <2>2. CASE sync' = Failed /\ adrift' = adrift \cup Pending
    <3>1. TypeOK'
      BY <1>2, <1>a, <1>b, <1>d, <2>2 DEF SyncIndex, env0, TypeOK, SyncType
    <3> QED BY <1>2, <1>b, <1>c, <2>2, <3>1 DEF SyncIndex, env0
  <2> QED BY <1>2, <2>1, <2>2 DEF SyncIndex
<1>3. CASE SyncScan
  <2>0. [p \in Paths |-> IF ShouldPull(p) THEN sync.index[p] ELSE NoFile] \in [Paths -> File]
    BY <1>0, FileTypes DEF SyncType
  <2>1. sync' \in SyncType
    BY <1>0, <1>3, <2>0 DEF SyncScan, SyncType
  <2>2. sync'.pulls \subseteq {p \in Paths : Exists(sync'.index[p])}
    BY <1>0, <1>3 DEF SyncScan, SyncType, ShouldPull
  <2> QED BY <1>0, <1>3, <2>1, <2>2, FileTypes DEF SyncScan, TypeOK, SyncType, Phases, Setup, Running
<1>4. CASE PushTar
  <2>1. sync' \in SyncType /\ sync'.pulls = sync.pulls /\ sync'.index = sync.index /\ sync'.pc = "run"
    <3>1. [p \in Paths |-> IF changes[p] = "put" THEN local[p] ELSE NoFile] \in [Paths -> File]
      BY FileTypes DEF TypeOK
    <3> QED BY <1>0, <1>4, <3>1 DEF PushTar, TypeOK, SyncType
  <2>2. adrift' \subseteq Paths /\ scanned
    BY <1>4, <1>d DEF PushTar, TypeOK, Setup, Running
  <2> QED BY <1>0, <1>4, <2>1, <2>2 DEF PushTar, env0, TypeOK, SyncType, Phases, Setup, Running
<1>5. CASE PushPatch
  <2>1. remote' \in [Paths -> File]
    BY <1>0, <1>5, FileTypes DEF PushPatch, TypeOK, SyncType, Marks
  <2>2. sync' \in SyncType /\ sync'.pulls = sync.pulls /\ sync'.index = sync.index /\ sync'.pc = sync.pc
    BY <1>0, <1>5, FileTypes DEF PushPatch, SyncType
  <2>3. Running /\ scanned /\ adrift' \subseteq Paths
    BY <1>5, <1>d DEF PushPatch, TypeOK, Phases, Setup
  <2> QED BY <1>0, <1>5, <2>1, <2>2, <2>3 DEF PushPatch, env0, TypeOK, SyncType, Phases, Setup, Running
<1>6. CASE PushReset
  BY <1>0, <1>6, FileTypes DEF PushReset, env, TypeOK, SyncType, Phases, Setup, Running
<1>7. ASSUME NEW p \in Paths, PullCopy(p) \/ PullFails(p) PROVE Base'
  <2>0. Pulled(p)
    BY <1>7 DEF PullCopy, PullFails
  <2>1. /\ sync' \in SyncType /\ sync'.pc = "run" /\ sync'.pulls = sync.pulls \ {p}
        /\ \A q \in Paths \ {p} : sync'.index[q] = sync.index[q]
    BY <1>0, <2>0, FileTypes DEF Pulled, SyncType
  <2>2. handle' \in [Fds -> HandleType]
    <3>1. Replaced(p) \in [Fds -> HandleType] /\ handle \in [Fds -> HandleType]
      BY HandlesStay DEF TypeOK, HandleType, OpenType
    <3> QED BY <1>7, <3>1 DEF PullCopy, PullFails
  <2>3. local' \in [Paths -> File] /\ version' \in 0 .. MaxVersion
    <3>1. /\ clock \in 0 .. MaxTime /\ sync.index[p].mtime \in 0 .. MaxTime
          /\ Exists(remote[p]) => remote[p].ver \in 1 .. MaxVersion
      BY <1>0, SyncAssumption DEF TypeOK, SyncType, File, NoFile, Exists
    <3>2. CASE PullCopy(p)
      <4>1. Exists(remote[p]) => [ver |-> remote[p].ver, mtime |-> sync.index[p].mtime] \in File
        BY <3>1 DEF File
      <4> QED BY <3>2, <4>1 DEF PullCopy, TypeOK
    <3>3. CASE PullFails(p)
      <4>1. version < MaxVersion => version + 1 \in 1 .. MaxVersion
        BY SyncAssumption DEF TypeOK
      <4>2. version < MaxVersion /\ Exists(remote[p]) => Broken(p) \subseteq File
        BY <3>1, <4>1 DEF Broken, File
      <4>3. version' \in 0 .. MaxVersion
        BY <3>3, <4>1 DEF PullFails, TypeOK
      <4> QED BY <3>3, <4>2, <4>3 DEF PullFails, TypeOK
    <3> QED BY <1>7, <3>2, <3>3
  <2>4. adrift' \subseteq Paths
    BY <1>7 DEF PullCopy, PullFails, TypeOK
  <2>5. scanned
    BY <2>0 DEF Pulled, Setup, Running
  <2> QED BY <1>0, <2>0, <2>1, <2>2, <2>3, <2>4, <2>5
          DEF Pulled, TypeOK, SyncType, HandleType, OpenType, Phases, Setup, Running
<1>8. CASE SyncEnd
  <2>1. sync' \in {Rest, Failed}
    BY <1>8 DEF SyncEnd
  <2>2. TypeOK'
    BY <1>8, <1>a, <1>b, <2>1 DEF SyncEnd, env, TypeOK, SyncType
  <2> QED BY <1>8, <1>b, <1>c, <2>1, <2>2 DEF SyncEnd, env
<1> QED BY <1>1, <1>2, <1>3, <1>4, <1>5, <1>6, <1>7, <1>8 DEF Sync

LEMMA BaseStep == Base /\ [Next]_vars => Base'
<1> SUFFICES ASSUME Base, [Next]_vars PROVE Base'
  OBVIOUS
<1>1. ASSUME NEW c \in Clients, Begin(c) \/ OpApply(c) \/ OpFails(c) \/ OpMark(c) PROVE Base'
  BY <1>1, OpsBase
<1>2. CASE (\E h \in Fds : HandleWrite(h) \/ HandleClose(h)) \/ \E p \in Paths : ForeignWrite(p)
  BY <1>2, HandlesBase
<1>3. CASE TimerFires
  <2>1. /\ UNCHANGED <<local, remote, changes, scanned, sync, op, handle, clock, version>>
        /\ UNCHANGED <<calls, raced, contended, adrift>>
    BY <1>3 DEF TimerFires, env
  <2>2. TypeOK'
    <3>1. timer' \in BOOLEAN
      BY <1>3 DEF TimerFires
    <3>2. queued' \in 0 .. 1
      BY <1>3 DEF TimerFires
    <3> QED BY <2>1, <3>1, <3>2 DEF Base, TypeOK
  <2>3. Phases' /\ Setup'
    BY <2>1 DEF Base, Phases, Setup, Running
  <2> QED BY <2>2, <2>3 DEF Base
<1>4. CASE Sync
  BY <1>4, SyncBase
<1>5. CASE Tick
  BY <1>5, SyncAssumption DEF Tick, Base, TypeOK, Phases, Setup, Running, Exists
<1>6. CASE UNCHANGED vars
  BY <1>6 DEF vars, Base, TypeOK, Phases, Setup, Running, Exists
<1> QED BY <1>1, <1>2, <1>3, <1>4, <1>5, <1>6 DEF Next

-----------------------------------------------------------------------------
(* Pulls                                                                   *)

\* Handles that note a path: a write adds one, a close takes at most its own.
LEMMA WriteUnsaved ==
  ASSUME handle \in [Fds -> HandleType], NEW h \in Fds, HandleWrite(h), NEW p \in Paths
  PROVE /\ Unsaved(p) => Unsaved(p)'
        /\ handle[h].path = p => Unsaved(p)'
<1>1. handle[h] \in OpenType
  BY DEF HandleWrite, HandleType
<1>2. handle' = [handle EXCEPT ![h].pc = "modified"]
  BY DEF HandleWrite
<1>3. handle'[h].pc = "modified" /\ handle'[h].path = handle[h].path
  BY <1>1, <1>2 DEF OpenType
<1>4. \A g \in Fds \ {h} : handle'[g] = handle[g]
  BY <1>2
<1> QED BY <1>3, <1>4 DEF Unsaved

LEMMA CloseUnsaved ==
  ASSUME handle \in [Fds -> HandleType], NEW h \in Fds, HandleClose(h), NEW p \in Paths,
         ~(handle[h].pc = "modified" /\ handle[h].path = p)
  PROVE Unsaved(p) => Unsaved(p)'
<1>1. \A g \in Fds \ {h} : handle'[g] = handle[g]
  BY DEF HandleClose
<1> QED BY <1>1 DEF Unsaved

LEMMA PullsOne ==
  ASSUME Base, NEW p \in Paths, PullCopy(p) \/ PullFails(p)
  PROVE \A q \in Paths \ {p} : local'[q] = local[q]
BY DEF PullCopy, PullFails, Base, TypeOK

\* The paths that lost their promise never get it back.
LEMMA RaceGrows == Base /\ [Next]_vars => raced \subseteq raced' /\ contended \subseteq contended'
<1> SUFFICES ASSUME Base, [Next]_vars PROVE raced \subseteq raced' /\ contended \subseteq contended'
  OBVIOUS
<1>1. ASSUME NEW c \in Clients, Begin(c) \/ OpApply(c) \/ OpFails(c) \/ OpMark(c)
      PROVE raced \subseteq raced' /\ contended' = contended
  BY <1>1 DEF Begin, OpBegin, OpApply, OpFails, OpMark, Race
<1>2. CASE (\E h \in Fds : HandleWrite(h) \/ HandleClose(h)) \/ \E p \in Paths : ForeignWrite(p)
  BY <1>2 DEF HandleWrite, HandleClose, ForeignWrite, Race
<1>3. CASE Sync
  BY <1>3 DEF Sync, SyncBegin, SyncIndex, SyncScan, PushTar, PushPatch, PushReset, PullCopy, PullFails, Pulled,
              SyncEnd, env, env0
<1>4. CASE TimerFires \/ Tick \/ UNCHANGED vars
  BY <1>4 DEF TimerFires, Tick, vars, env
<1> QED BY <1>1, <1>2, <1>3, <1>4 DEF Next

Beside ==
  \/ \E c \in Clients : Begin(c) \/ OpApply(c) \/ OpFails(c) \/ OpMark(c)
  \/ \E h \in Fds : HandleWrite(h) \/ HandleClose(h)
  \/ \E q \in Paths : ForeignWrite(q)
  \/ TimerFires \/ Tick \/ UNCHANGED vars

\* Beside Sync nothing comes to rest: what is adrift stays so.  Only another
\* machine writes to the remote, and it deletes nothing.
LEMMA RemoteSpared ==
  ASSUME Base, Beside
  PROVE /\ sync' = sync /\ scanned' = scanned /\ adrift \subseteq adrift'
        /\ \A p \in Paths : /\ Exists(remote[p]) => Exists(remote'[p])
                            /\ remote'[p] = remote[p] \/ p \in adrift'
<1>1. ASSUME NEW c \in Clients, Begin(c) \/ OpApply(c) \/ OpFails(c) \/ OpMark(c)
      PROVE UNCHANGED <<remote, sync, scanned>> /\ adrift \subseteq adrift'
  <2>1. UNCHANGED <<remote, sync, scanned>>
    BY <1>1 DEF Begin, OpBegin, OpApply, OpFails, OpMark
  <2> QED BY <1>1, <2>1 DEF Begin, OpBegin, OpApply, OpFails, OpMark, ApplyCreate, ApplyOpen, ApplyTrunc,
                            ApplyTouch, ApplyRemove, ApplyRename
<1>2. ASSUME NEW h \in Fds, HandleWrite(h) \/ HandleClose(h)
      PROVE UNCHANGED <<remote, sync, scanned>> /\ adrift \subseteq adrift'
  BY <1>2 DEF HandleWrite, HandleClose
<1>3. ASSUME NEW q \in Paths, ForeignWrite(q)
      PROVE /\ UNCHANGED <<sync, scanned>> /\ adrift' = adrift \cup {q}
            /\ \A p \in Paths : /\ Exists(remote[p]) => Exists(remote'[p])
                                /\ p = q \/ remote'[p] = remote[p]
  BY <1>3, FileTypes DEF ForeignWrite, Base, TypeOK
<1>4. CASE TimerFires \/ Tick \/ UNCHANGED vars
  BY <1>4 DEF TimerFires, Tick, vars, env
<1> QED BY <1>1, <1>2, <1>3, <1>4 DEF Beside

\* While a Sync runs, an operation leaves alone what it does not count as raced.
LEMMA OpsSpare ==
  ASSUME Base, SyncRuns, NEW p \in Paths \ raced', Beside
  PROVE /\ local'[p] = local[p] /\ changes'[p] = changes[p]
        /\ Unsaved(p) => Unsaved(p)'
<1>0. /\ local \in [Paths -> File] /\ changes \in [Paths -> Marks]
      /\ handle \in [Fds -> HandleType]
  BY DEF Base, TypeOK, HandleType, OpenType
<1>1. ASSUME NEW c \in Clients, Begin(c)
      PROVE UNCHANGED <<local, changes, handle>>
  BY <1>1 DEF Begin, OpBegin
<1>2. ASSUME NEW c \in Clients, OpApply(c)
      PROVE /\ local'[p] = local[p] /\ changes' = changes
            /\ Unsaved(p)' <=> Unsaved(p)
  <2>0. op[c].path \in Paths /\ op[c].to \in Paths
    BY <1>2 DEF OpApply, Base, TypeOK, Idle
  <2>1. p # op[c].path /\ p # op[c].to
    BY <1>2, <2>0 DEF OpApply
  <2>2. Unsaved(p)' <=> Unsaved(p)
    BY <1>0, <1>2, <2>0, ApplyHandles DEF OpApply
  <2> QED BY <1>0, <1>2, <2>1, <2>2 DEF OpApply, ApplyCreate, ApplyOpen, ApplyTrunc, ApplyTouch, ApplyRemove,
                                       ApplyRename
<1>3. ASSUME NEW c \in Clients, OpFails(c)
      PROVE UNCHANGED <<local, changes, handle>>
  BY <1>3 DEF OpFails
<1>4. ASSUME NEW c \in Clients, OpMark(c)
      PROVE local' = local /\ changes'[p] = changes[p] /\ handle' = handle
  <2>1. p # op[c].path /\ p # op[c].to
    BY <1>4 DEF OpMark, Race
  <2> QED BY <1>0, <1>4, <2>1 DEF OpMark, changed
<1>5. ASSUME NEW h \in Fds, HandleWrite(h)
      PROVE local'[p] = local[p] /\ changes' = changes /\ (Unsaved(p) => Unsaved(p)')
  <2>1. p \notin handle[h].at
    BY <1>5 DEF HandleWrite, Race
  <2>2. Unsaved(p) => Unsaved(p)'
    BY <1>0, <1>5, WriteUnsaved
  <2> QED BY <1>0, <1>5, <2>1, <2>2 DEF HandleWrite
<1>6. ASSUME NEW h \in Fds, HandleClose(h)
      PROVE local' = local /\ changes'[p] = changes[p] /\ (Unsaved(p) => Unsaved(p)')
  <2>1. CASE handle[h].pc = "modified"
    <3>1. p # handle[h].path
      BY <1>6, <2>1 DEF HandleClose, Race
    <3> QED BY <1>0, <1>6, <2>1, <3>1, CloseUnsaved DEF HandleClose, changed
  <2>2. CASE handle[h].pc # "modified"
    BY <1>0, <1>6, <2>2, CloseUnsaved DEF HandleClose
  <2> QED BY <2>1, <2>2
<1>7. ASSUME NEW q \in Paths, ForeignWrite(q)
      PROVE UNCHANGED <<local, changes, handle>>
  BY <1>7 DEF ForeignWrite
<1>8. ASSUME TimerFires \/ Tick \/ UNCHANGED vars
      PROVE UNCHANGED <<local, changes, handle>>
  BY <1>8 DEF TimerFires, Tick, vars, env
<1>9. handle' = handle => (Unsaved(p)' <=> Unsaved(p))
  BY DEF Unsaved
<1> QED BY <1>1, <1>2, <1>3, <1>4, <1>5, <1>6, <1>7, <1>8, <1>9 DEF Beside

LEMMA PullSync ==
  ASSUME PullInv, Sync
  PROVE PullInv'
<1>0. Base' /\ sync \in SyncType /\ raced \subseteq raced' /\ Phases
  <2>1. Base /\ [Next]_vars
    BY DEF PullInv, Next
  <2> QED BY <2>1, BaseStep, RaceGrows DEF Base, TypeOK, SyncType
<1>a. /\ Rest.pc = "idle" /\ Rest.pulls = {} /\ Rest.push = "done"
      /\ Failed.pc = "idle" /\ Failed.pulls = {} /\ Failed.push = "failed"
  BY DEF Failed, Rest
<1>1. CASE SyncBegin
  <2>1. sync'.pc = "index" /\ sync'.pulls = {} /\ sync'.push = "done"
    BY <1>1, <1>a DEF SyncBegin, Rest
  <2> QED BY <1>0, <2>1 DEF PullInv, Listed, Archived
<1>2. CASE SyncIndex
  <2>1. CASE sync' = [sync EXCEPT !.pc = "scan", !.index = remote]
    <3>1. /\ sync'.pc = "scan" /\ sync'.index = remote /\ sync'.pulls = {}
          /\ sync'.push \in {"done", "failed"} /\ remote' = remote
      BY <1>0, <1>2, <2>1 DEF SyncIndex, SyncType, Phases, Running
    <3> QED BY <1>0, <3>1 DEF PullInv, Listed, Archived
  <2>2. CASE sync' = Failed
    BY <1>0, <1>a, <2>2 DEF PullInv, Listed, Archived
  <2> QED BY <1>2, <2>1, <2>2 DEF SyncIndex
<1>3. CASE SyncScan
  <2>1. /\ sync.pc = "scan" /\ sync'.pc = "run"
        /\ sync'.pulls = {p \in Paths : ShouldPull(p)} /\ sync'.push # "patch"
        /\ UNCHANGED <<local, remote, raced>>
    BY <1>0, <1>3 DEF SyncScan, SyncType
  <2>2. \A p \in sync'.pulls : changes'[p] # "delete"
    <3>1. scanned => changes' = changes
      BY <1>3 DEF SyncScan
    <3>2. ~scanned => changes' = FirstMarks
      BY <1>3 DEF SyncScan
    <3> QED BY <2>1, <3>1, <3>2 DEF ShouldPull, FirstMarks
  <2>3. \A p \in sync'.pulls : sync'.index[p] = sync.index[p]
    BY <1>0, <1>3, <2>1 DEF SyncScan, SyncType
  <2>4. \A p \in sync'.pulls : Exists(remote[p])
    BY <2>1 DEF PullInv, Listed, ShouldPull
  <2> QED BY <1>0, <2>1, <2>2, <2>3, <2>4 DEF PullInv, Listed, Archived, Pull, ShouldPull
<1>4. CASE PushTar
  <2>0. /\ sync'.pc = "run" /\ sync'.pulls = sync.pulls /\ sync'.index = sync.index /\ sync.push = "tar"
        /\ UNCHANGED <<local, remote, changes, raced>>
    BY <1>0, <1>4 DEF PushTar, SyncType, env0
  <2>1. CASE /\ Missing = {}
             /\ sync' = [sync EXCEPT !.push = "patch", !.marks = changes,
                            !.tar = [p \in Paths |-> IF changes[p] = "put" THEN local[p] ELSE NoFile]]
    <3>1. /\ sync'.push = "patch" /\ sync'.marks = changes
          /\ \A p \in Paths : changes[p] = "put" => sync'.tar[p] = local[p]
      BY <1>0, <2>1 DEF SyncType
    <3>2. Archived'
      BY <2>0, <2>1, <3>1 DEF Archived, Missing
    <3> QED BY <1>0, <2>0, <3>1, <3>2 DEF PullInv, Listed, Pull
  <2>2. CASE sync' = [sync EXCEPT !.push = "failed"]
    <3>1. sync'.push = "failed"
      BY <1>0, <2>2 DEF SyncType
    <3> QED BY <1>0, <2>0, <3>1 DEF PullInv, Listed, Archived, Pull
  <2> QED BY <1>4, <2>1, <2>2 DEF PushTar
<1>5. CASE PushPatch
  <2>0. /\ sync.pc = "run" /\ sync'.pc = "run" /\ sync'.pulls = sync.pulls /\ sync'.index = sync.index
        /\ sync.push = "patch" /\ sync'.push \in {"reset", "failed"} /\ UNCHANGED <<local, raced>>
    BY <1>0, <1>5 DEF PushPatch, SyncType, Phases, Running, env0
  <2>1. ASSUME NEW p \in sync.pulls \ raced PROVE Exists(remote'[p])
    <3>1. p \in Paths /\ Exists(remote[p]) /\ sync.marks[p] # "delete" /\ sync.marks[p] \in Marks
      BY <1>0, <2>0 DEF PullInv, Pull, SyncType
    <3>2. sync.marks[p] = "put" => Exists(sync.tar[p])
      BY <2>0, <3>1 DEF PullInv, Archived
    <3> QED BY <1>5, <3>1, <3>2 DEF PushPatch, Marks
  <2> QED BY <1>0, <2>0, <2>1 DEF PullInv, Listed, Archived, Pull
<1>6. CASE PushReset
  <2>1. /\ sync'.pc = "run" /\ sync'.push = "done" /\ sync'.pulls = sync.pulls /\ sync'.index = sync.index
        /\ UNCHANGED <<local, remote, raced>>
    BY <1>0, <1>6 DEF PushReset, SyncType, Phases, Running, env
  <2> QED BY <1>0, <2>1 DEF PullInv, Listed, Archived, Pull
<1>7. ASSUME NEW p \in Paths, PullCopy(p) \/ PullFails(p) PROVE PullInv'
  <2>0. Pulled(p)
    BY <1>7 DEF PullCopy, PullFails
  <2>2. /\ sync'.pc = "run" /\ sync'.push = sync.push /\ sync'.pulls = sync.pulls \ {p}
        /\ sync'.tar = sync.tar /\ sync'.marks = sync.marks
        /\ \A q \in Paths \ {p} : sync'.index[q] = sync.index[q]
        /\ UNCHANGED <<remote, changes, raced>>
    BY <1>0, <2>0 DEF Pulled, SyncType
  <2>3. \A q \in Paths \ {p} : local'[q] = local[q]
    BY <1>7, PullsOne DEF PullInv
  <2> QED BY <1>0, <2>2, <2>3 DEF PullInv, Listed, Archived, Pull, SyncType
<1>8. CASE SyncEnd
  <2>1. sync'.pc = "idle" /\ sync'.pulls = {} /\ sync'.push \in {"done", "failed"}
    BY <1>8, <1>a DEF SyncEnd
  <2> QED BY <1>0, <2>1 DEF PullInv, Listed, Archived
<1> QED BY <1>1, <1>2, <1>3, <1>4, <1>5, <1>6, <1>7, <1>8 DEF Sync

LEMMA PullStep == PullInv /\ [Next]_vars => PullInv'
<1> SUFFICES ASSUME PullInv, [Next]_vars PROVE PullInv'
  OBVIOUS
<1>1. CASE Sync
  BY <1>1, PullSync
<1>2. CASE ~Sync
  <2>1. Base' /\ raced \subseteq raced' /\ Base /\ sync \in SyncType /\ Beside
    BY <1>2, BaseStep, RaceGrows DEF PullInv, Base, TypeOK, SyncType, Next, Beside
  <2>2. sync' = sync /\ \A p \in Paths : Exists(remote[p]) => Exists(remote'[p])
    BY <2>1, RemoteSpared
  <2>3. ASSUME NEW p \in sync.pulls \ raced' PROVE Pull(p)'
    <3>1. p \in Paths \ raced' /\ Pull(p)
      BY <2>1 DEF PullInv, SyncType
    <3>2. SyncRuns
      BY <2>1 DEF Base, Phases, Running, SyncRuns
    <3>3. local'[p] = local[p] /\ changes'[p] = changes[p]
      BY <2>1, <3>1, <3>2, OpsSpare
    <3> QED BY <2>2, <3>1, <3>3 DEF Pull
  <2> QED BY <2>1, <2>2, <2>3 DEF PullInv, Listed, Archived
<1> QED BY <1>1, <1>2

\* A pull touches a file only by one that is newer by the two seconds the clocks
\* may differ by, whatever operations, handles, failures and another machine do
\* while the Sync runs, and even if the copy itself fails.
THEOREM PullsOnlyNewer == Spec => PullKeepsNewer
<1>1. Init => PullInv
  BY InitBase DEF Init, Rest, PullInv, Listed, Archived
<1>2. PullInv /\ [Next]_vars => PullInv'
  BY PullStep
<1>3. PullInv /\ [Next]_vars =>
        [\A p \in Paths :
           (sync'.pulls = sync.pulls \ {p} /\ p \in sync.pulls /\ p \notin raced
              /\ Exists(local[p]) /\ local'[p] # local[p])
             => sync.index[p].mtime >= local[p].mtime + 2]_vars
  <2> SUFFICES ASSUME PullInv, NEW p \in Paths, p \in sync.pulls \ raced, Exists(local[p])
               PROVE sync.index[p].mtime >= local[p].mtime + 2
    OBVIOUS
  <2>1. Outdated(local[p], sync.index[p])
    BY DEF PullInv, Pull
  <2>2. sync.index[p].mtime \in Int /\ local[p].mtime \in Int
    BY SyncAssumption DEF PullInv, Base, TypeOK, File, NoFile
  <2> QED BY <2>1, <2>2 DEF Outdated
<1> QED BY <1>1, <1>2, <1>3, PTL DEF Spec, PullKeepsNewer

-----------------------------------------------------------------------------
(* What both sides hold when all is quiet                                  *)

Call == {Idle} \cup OpType

LEMMA OpShapeStep == Base /\ OpShape /\ [Next]_vars => OpShape'
<1> SUFFICES ASSUME Base, OpShape, [Next]_vars PROVE OpShape'
  OBVIOUS
<1>0. op \in [Clients -> Call]
  BY DEF Base, TypeOK, Call, OpType
<1>1. ASSUME NEW c \in Clients, Begin(c) PROVE OpShape'
  <2>1. PICK kind \in Kinds, p \in Paths, to \in Paths :
          ((kind = "rename") = (p # to)) /\ OpBegin(c, kind, p, to)
    BY <1>1 DEF Begin
  <2> QED BY <1>0, <2>1 DEF OpBegin, OpShape
<1>2. ASSUME NEW c \in Clients, OpApply(c) PROVE OpShape'
  <2>1. op[c] \in OpType /\ op[c] # Idle
    BY <1>0, <1>2 DEF OpApply, Call, Idle
  <2>2. op'[c] = Idle \/ (op'[c].kind = op[c].kind /\ op'[c].path = op[c].path /\ op'[c].to = op[c].to)
    BY <1>0, <1>2, <2>1 DEF OpApply, OpType
  <2>3. \A d \in Clients \ {c} : op'[d] = op[d]
    BY <1>0, <1>2 DEF OpApply
  <2> QED BY <2>1, <2>2, <2>3 DEF OpShape
<1>3. ASSUME NEW c \in Clients, OpFails(c) PROVE OpShape'
  <2>1. op[c] \in OpType /\ op[c] # Idle
    BY <1>0, <1>3 DEF OpFails, Call, Idle
  <2>2. op'[c] = Idle \/ (op'[c].kind = op[c].kind /\ op'[c].path = op[c].path /\ op'[c].to = op[c].to)
    BY <1>0, <1>3, <2>1 DEF OpFails, OpType
  <2>3. \A d \in Clients \ {c} : op'[d] = op[d]
    BY <1>0, <1>3 DEF OpFails
  <2> QED BY <2>1, <2>2, <2>3 DEF OpShape
<1>4. ASSUME NEW c \in Clients, OpMark(c) PROVE OpShape'
  <2>1. op[c] \in OpType /\ op[c] # Idle
    BY <1>0, <1>4 DEF OpMark, Call, Idle
  <2>2. op'[c] = Idle \/ (op'[c].kind = "remove" /\ op'[c].path = op[c].path /\ op'[c].to = op[c].path)
    BY <1>0, <1>4, <2>1 DEF OpMark, OpType
  <2>3. \A d \in Clients \ {c} : op'[d] = op[d]
    BY <1>0, <1>4 DEF OpMark
  <2> QED BY <2>1, <2>2, <2>3 DEF OpShape
<1>5. CASE ~\E c \in Clients : Begin(c) \/ OpApply(c) \/ OpFails(c) \/ OpMark(c)
  <2>1. op' = op
    BY <1>5 DEF Next, Sync, SyncBegin, SyncIndex, SyncScan, PushTar, PushPatch, PushReset, PullCopy, PullFails,
                Pulled, SyncEnd, HandleWrite, HandleClose, ForeignWrite, TimerFires, Tick, env, env0, vars
  <2> QED BY <2>1 DEF OpShape
<1> QED BY <1>1, <1>2, <1>3, <1>4, <1>5

\* Before the first scan nothing changes on either side, but for what another
\* machine writes.
LEMMA AsFoundStep ==
  ASSUME Base, AsFound, [Next]_vars
  PROVE AsFound'
<1> SUFFICES ASSUME ~scanned'
             PROVE /\ ~scanned /\ local' = local /\ adrift \subseteq adrift'
                   /\ \A p \in Paths : remote'[p] = remote[p] \/ p \in adrift'
  BY DEF AsFound
<1>1. ~scanned
  <2>1. CASE Sync
    BY <2>1 DEF Sync, SyncBegin, SyncIndex, SyncScan, PushTar, PushPatch, PushReset, PullCopy, PullFails, Pulled,
                SyncEnd
  <2>2. CASE ~Sync
    BY <2>2, RemoteSpared DEF Next, Beside
  <2> QED BY <2>1, <2>2
<1>2. /\ ~Running /\ sync.push \in {"done", "failed"} /\ (\A c \in Clients : op[c] = Idle)
      /\ \A h \in Fds : handle[h] = Closed
  BY <1>1 DEF Base, Setup, Phases
<1>3. CASE Sync
  <2>1. ~SyncScan /\ ~PushTar /\ ~PushPatch /\ ~PushReset /\ ~\E p \in Paths : PullCopy(p) \/ PullFails(p)
    BY <1>1, <1>2, <1>3 DEF SyncScan, PushTar, PushPatch, PushReset, PullCopy, PullFails, Pulled, Running
  <2> QED BY <1>1, <1>3, <2>1 DEF Sync, SyncBegin, SyncIndex, SyncEnd, env, env0
<1>4. ASSUME NEW c \in Clients PROVE ~(Begin(c) \/ OpApply(c) \/ OpFails(c) \/ OpMark(c))
  BY <1>1, <1>2 DEF Begin, OpBegin, OpApply, OpFails, OpMark, Idle
<1>5. ASSUME NEW h \in Fds PROVE ~(HandleWrite(h) \/ HandleClose(h))
  BY <1>2 DEF HandleWrite, HandleClose
<1>6. CASE Beside
  <2>1. local' = local
    BY <1>4, <1>5, <1>6 DEF Beside, ForeignWrite, TimerFires, Tick, vars
  <2> QED BY <1>1, <1>6, <2>1, RemoteSpared
<1> QED BY <1>3, <1>6 DEF Next, Beside

LEMMA CountedStep ==
  ASSUME Base, OpShape, NotesCounted, [Next]_vars
  PROVE NotesCounted'
<1>0. /\ op \in [Clients -> Call] /\ raced \subseteq raced'
  BY RaceGrows DEF Base, TypeOK, Call, OpType
<1> SUFFICES ASSUME SyncRuns', NEW c \in Clients, op'[c].pc = "mark"
             PROVE {op'[c].path, op'[c].to} \subseteq raced'
  BY DEF NotesCounted
<1>1. CASE Sync
  <2>1. op' = op
    BY <1>1 DEF Sync, SyncBegin, SyncIndex, SyncScan, PushTar, PushPatch, PushReset, PullCopy, PullFails, Pulled,
                SyncEnd, env, env0
  <2>2. CASE SyncBegin
    BY <2>1, <2>2 DEF SyncBegin, Unnoted
  <2>3. CASE ~SyncBegin
    <3>1. SyncRuns
      <4>1. CASE SyncIndex \/ SyncScan \/ PushTar
        BY <4>1 DEF SyncIndex, SyncScan, PushTar, SyncRuns
      <4>2. CASE PushPatch \/ PushReset
        BY <4>2 DEF PushPatch, PushReset, SyncRuns, Base, Phases, Running
      <4>3. CASE (\E p \in Paths : PullCopy(p) \/ PullFails(p)) \/ SyncEnd
        BY <4>3 DEF PullCopy, PullFails, Pulled, SyncEnd, SyncRuns
      <4> QED BY <1>1, <2>3, <4>1, <4>2, <4>3 DEF Sync
    <3> QED BY <1>0, <2>1, <3>1 DEF NotesCounted
  <2> QED BY <2>2, <2>3
<1>2. CASE ~Sync
  <2>1. SyncRuns
    <3>1. Beside
      BY <1>2 DEF Next, Beside
    <3> QED BY <3>1, RemoteSpared DEF SyncRuns
  <2>2. CASE op'[c] = op[c]
    BY <1>0, <2>1, <2>2 DEF NotesCounted
  <2>3. CASE op'[c] # op[c]
    <3>1. PICK d \in Clients : Begin(d) \/ OpApply(d) \/ OpFails(d) \/ OpMark(d)
      BY <1>2, <2>3 DEF Next, HandleWrite, HandleClose, ForeignWrite, TimerFires, Tick, vars, env
    <3>2. d = c
      BY <1>0, <2>3, <3>1 DEF Begin, OpBegin, OpApply, OpFails, OpMark
    <3>3. ~Begin(c)
      BY <2>1 DEF Begin, OpBegin
    <3>4. CASE OpApply(c)
      <4>1. op'[c].path = op[c].path /\ op'[c].to = op[c].to /\ op[c] \in OpType
        BY <1>0, <3>4 DEF OpApply, Idle, Call, OpType
      <4> QED BY <2>1, <3>4, <4>1 DEF OpApply, OpType
    <3>5. CASE OpFails(c)
      <4>1. /\ op'[c].path = op[c].path /\ op'[c].to = op[c].to /\ op[c] # Idle
            /\ op[c].kind = "create" /\ op[c].path \in raced'
        BY <1>0, <2>1, <3>5 DEF OpFails, Idle, Call, OpType, Race
      <4> QED BY <4>1 DEF OpShape
    <3>6. CASE OpMark(c)
      <4>1. op'[c].path = op[c].path /\ op'[c].to \in {op[c].path, op[c].to}
        BY <1>0, <3>6 DEF OpMark, Idle, Call, OpType
      <4> QED BY <2>1, <3>6, <4>1 DEF OpMark, Race
    <3> QED BY <3>1, <3>2, <3>3, <3>4, <3>5, <3>6
  <2> QED BY <2>2, <2>3
<1> QED BY <1>1, <1>2

LEMMA AroundStep ==
  ASSUME Around, [Next]_vars
  PROVE Around'
<1> USE DEF Around
<1>1. Base' /\ OpShape' /\ AsFound' /\ NotesCounted'
  BY BaseStep, OpShapeStep, AsFoundStep, CountedStep
<1> SUFFICES ASSUME sync'.pc = "scan" PROVE \A p \in Paths : sync'.index[p] = remote'[p] \/ p \in adrift'
  BY <1>1
<1>2. sync \in SyncType /\ Phases
  BY DEF Base, TypeOK, SyncType
<1>3. CASE Sync
  <2>1. CASE SyncIndex
    BY <1>2, <2>1 DEF SyncIndex, SyncType, Failed, Rest
  <2>2. ~SyncBegin /\ ~SyncScan /\ ~SyncEnd
    <3>1. Rest.pc = "idle" /\ Failed.pc = "idle"
      BY DEF Failed, Rest
    <3> QED BY <1>2, <3>1 DEF SyncBegin, SyncScan, SyncEnd, SyncType, Rest
  <2>3. ~PushTar /\ ~PushPatch /\ ~PushReset
    BY <1>2 DEF PushTar, PushPatch, PushReset, SyncType, Phases, Running
  <2>4. ~\E p \in Paths : PullCopy(p) \/ PullFails(p)
    BY <1>2 DEF PullCopy, PullFails, Pulled, SyncType
  <2> QED BY <1>3, <2>1, <2>2, <2>3, <2>4 DEF Sync
<1>4. CASE ~Sync
  <2>1. Beside
    BY <1>4 DEF Next, Beside
  <2> QED BY <2>1, RemoteSpared
<1> QED BY <1>3, <1>4

\* Notes that come: a step that takes no operation to or from its note changes none.
LEMMA ComingSame ==
  ASSUME NEW p \in Paths,
         \A c \in Clients : (op[c].pc = "mark" \/ op'[c].pc = "mark") => op'[c] = op[c]
  PROVE (PutComing(p)' <=> PutComing(p)) /\ (RemoveComing(p)' <=> RemoveComing(p))
BY DEF PutComing, RemoveComing

LEMMA NothingComing ==
  ASSUME NotesCounted, SyncRuns, NEW p \in Paths \ raced
  PROVE ~PutComing(p) /\ ~RemoveComing(p)
BY DEF NotesCounted, PutComing, RemoveComing

\* Beside a Sync, a clean path is left alone.
LEMMA KeptBeside ==
  ASSUME QuietInv, Around', Beside, SyncRuns, NEW p \in Paths \ raced', p \notin raced, Kept(p)
  PROVE Kept(p)'
<1>0. Base
  BY DEF QuietInv, Around
<1>1. /\ local'[p] = local[p] /\ changes'[p] = changes[p]
      /\ Unsaved(p) => Unsaved(p)'
  BY <1>0, OpsSpare
<1>2. /\ sync' = sync /\ scanned' = scanned /\ (p \in adrift => p \in adrift')
      /\ Exists(remote[p]) => Exists(remote'[p])
      /\ remote'[p] = remote[p] \/ p \in adrift'
  BY <1>0, RemoteSpared
<1>3. ~PutComing(p) /\ ~RemoveComing(p)
  BY NothingComing DEF QuietInv, Around
<1>4. ~PutComing(p)' /\ ~RemoveComing(p)'
  <2>1. NotesCounted' /\ SyncRuns'
    BY <1>2 DEF Around, SyncRuns
  <2> QED BY <2>1 DEF NotesCounted, PutComing, RemoveComing
<1>5. NotesTrue(p)'
  BY <1>1, <1>3, <1>4 DEF Kept, NotesTrue
<1>s. Same(p) => Same(p)' \/ p \in adrift'
  BY <1>1, <1>2 DEF Same
<1>6. ASSUME scanned', ~Running' PROVE Waiting(p)'
  <2>1. scanned /\ ~Running /\ Waiting(p)
    BY <1>2, <1>6 DEF Running, Kept
  <2>2. Armed'
    <3>1. sync.pc \in {"index", "scan"}
      BY <1>0, <2>1 DEF SyncRuns, Running, Base, TypeOK
    <3> QED BY <1>2, <3>1 DEF Armed
  <2> QED BY <1>1, <1>2, <1>3, <1>s, <2>1, <2>2 DEF Waiting
<1>7. ASSUME Running' PROVE Moving(p)'
  <2>1. Moving(p)
    BY <1>2, <1>7 DEF Kept, Running
  <2> QED BY <1>1, <1>2, <1>s, <2>1 DEF Moving
<1> QED BY <1>5, <1>6, <1>7 DEF Kept

\* The steps of Sync.
LEMMA KeptSync ==
  ASSUME QuietInv, Around', Sync, NEW p \in Paths \ (raced' \cup contended'), p \notin raced, Kept(p)
  PROVE Kept(p)'
<1>0. /\ sync \in SyncType /\ Phases
      /\ local \in [Paths -> File] /\ remote \in [Paths -> File] /\ changes \in [Paths -> Marks]
      /\ handle \in [Fds -> HandleType]
  BY DEF QuietInv, Around, Base, TypeOK, SyncType, HandleType, OpenType
<1>a. /\ Rest.pc = "idle" /\ Rest.pulls = {} /\ Rest.push = "done"
      /\ Failed.pc = "idle" /\ Failed.pulls = {} /\ Failed.push = "failed"
  BY DEF Failed, Rest
<1>1. op' = op
  BY DEF Sync, SyncBegin, SyncIndex, SyncScan, PushTar, PushPatch, PushReset, PullCopy, PullFails, Pulled,
         SyncEnd, env, env0
<1>b. Unsaved(p)' <=> Unsaved(p)
  <2>1. CASE handle' = handle
    BY <2>1 DEF Unsaved
  <2>2. ASSUME NEW q \in Paths, handle' = Replaced(q) PROVE Unsaved(p)' <=> Unsaved(p)
    BY <1>0, <2>2, HandlesStay DEF Unsaved
  <2> QED BY <2>1, <2>2 DEF Sync, SyncBegin, SyncIndex, SyncScan, PushTar, PushPatch, PushReset, PullCopy,
                            PullFails, SyncEnd, env, env0
<1>2. (PutComing(p)' <=> PutComing(p)) /\ (RemoveComing(p)' <=> RemoveComing(p))
  BY <1>1, ComingSame
<1>3. SyncRuns => ~PutComing(p) /\ ~RemoveComing(p)
  BY NothingComing DEF QuietInv, Around
<1>s. local' = local /\ remote'[p] = remote[p] => (Same(p)' <=> Same(p))
  BY DEF Same
<1>4. CASE SyncBegin
  <2>1. /\ sync'.pc = "index" /\ ~Running
        /\ UNCHANGED <<local, remote, changes, scanned, adrift>>
    BY <1>4 DEF SyncBegin, Rest, SyncRuns, Running
  <2> QED BY <1>b, <1>2, <1>s, <2>1 DEF Kept, NotesTrue, Waiting, Running, Armed
<1>5. CASE SyncIndex
  <2>0. ~Running /\ SyncRuns /\ UNCHANGED <<local, remote, changes, scanned>>
    BY <1>5 DEF SyncIndex, Running, SyncRuns, env0
  <2>1. CASE sync' = [sync EXCEPT !.pc = "scan", !.index = remote] /\ UNCHANGED adrift
    <3>1. sync'.pc = "scan"
      BY <1>0, <2>1 DEF SyncType
    <3> QED BY <1>b, <1>2, <1>s, <2>0, <2>1, <3>1 DEF Kept, NotesTrue, Waiting, Running, Armed
  <2>2. CASE sync' = Failed /\ adrift' = adrift \cup Pending
    <3>1. changes[p] # "none" \/ ~Same(p) => p \in adrift'
      BY <2>2 DEF Pending
    <3> QED BY <1>a, <1>b, <1>2, <1>s, <2>0, <2>2, <3>1 DEF Kept, NotesTrue, Waiting, Running
  <2> QED BY <1>5, <2>1, <2>2 DEF SyncIndex
<1>6. CASE SyncScan
  <2>0. /\ SyncRuns /\ sync.pc = "scan" /\ ~Running
        /\ sync.index[p] = remote[p] \/ p \in adrift
    BY <1>6 DEF SyncScan, SyncRuns, Running, QuietInv, Around
  <2>1. /\ sync'.pc = "run" /\ sync'.pulls = {q \in Paths : ShouldPull(q)}
        /\ sync'.push = IF changes' = NoMarks THEN "done" ELSE "tar"
        /\ UNCHANGED <<local, remote, adrift>> /\ scanned'
    BY <1>0, <1>6 DEF SyncScan, SyncType
  <2>2. p \in sync'.pulls => changes'[p] # "put"
    BY <1>0, <1>6 DEF SyncScan
  <2>3. CASE scanned
    <3>1. changes' = changes
      BY <1>6, <2>3 DEF SyncScan
    <3>2. changes'[p] # "none" => sync'.push = "tar" /\ p \notin sync'.pulls
      BY <1>0, <2>1, <2>2, <3>1 DEF NoMarks, ShouldPull, Marks
    <3>3. changes'[p] = "none" =>
            Same(p) \/ p \in adrift \/ Unsaved(p) \/ (p \in sync'.pulls /\ Exists(remote[p]))
      <4>1. Waiting(p)
        BY <2>0, <2>3 DEF Kept
      <4> QED BY <1>3, <2>0, <2>1, <3>1, <4>1 DEF Waiting, ShouldPull, Outdated
    <3> QED BY <1>b, <1>2, <1>s, <2>1, <3>1, <3>2, <3>3 DEF Kept, NotesTrue, Moving, Running
  <2>4. CASE ~scanned
    <3>1. changes' = FirstMarks /\ changes[p] = "none"
      <4>1. changes = NoMarks
        BY <2>4 DEF QuietInv, Around, Base, TypeOK
      <4> QED BY <1>6, <2>4, <4>1 DEF SyncScan, NoMarks
    <3>2. local[p] \in {NoFile, FirstFile} /\ (remote[p] \in {NoFile, FirstFile} \/ p \in adrift)
      BY <2>4 DEF QuietInv, Around, AsFound
    <3>3. changes'[p] # "none" => Exists(local[p])
      BY <3>1 DEF FirstMarks
    <3>4. changes'[p] # "none" => sync'.push = "tar" /\ p \notin sync'.pulls
      BY <2>1, <2>2, <3>1 DEF NoMarks, FirstMarks
    <3>5. changes'[p] = "none" => Same(p) \/ p \in adrift \/ (p \in sync'.pulls /\ Exists(remote[p]))
      <4>0. SUFFICES ASSUME changes'[p] = "none", p \notin adrift
                     PROVE Same(p) \/ (p \in sync'.pulls /\ Exists(remote[p]))
        OBVIOUS
      <4>1. sync.index[p] = remote[p] /\ remote[p] \in {NoFile, FirstFile}
        BY <2>0, <3>2, <4>0
      <4>2. CASE Exists(local[p])
        <5>1. Exists(remote[p])
          BY <3>1, <4>0, <4>1, <4>2 DEF FirstMarks
        <5> QED BY <3>2, <4>1, <4>2, <5>1 DEF Exists, Same
      <4>3. CASE ~Exists(local[p])
        BY <2>1, <3>1, <3>2, <4>1, <4>3 DEF Exists, Same, ShouldPull, Outdated
      <4> QED BY <4>2, <4>3
    <3>6. NotesTrue(p)'
      BY <1>2, <1>3, <2>0, <3>1 DEF NotesTrue, FirstMarks
    <3> QED BY <1>s, <2>1, <3>4, <3>5, <3>6 DEF Kept, Moving, Running
  <2> QED BY <2>3, <2>4
<1>7. CASE PushTar
  <2>1. /\ sync'.pc = "run" /\ Running /\ sync.push = "tar"
        /\ sync'.pulls = sync.pulls
        /\ UNCHANGED <<local, remote, changes, scanned>>
    BY <1>0, <1>7 DEF PushTar, SyncType, Running, env0
  <2>2. Moving(p) /\ NotesTrue(p)
    BY <2>1 DEF Kept
  <2>3. CASE /\ sync' = [sync EXCEPT !.push = "patch", !.marks = changes,
                            !.tar = [q \in Paths |-> IF changes[q] = "put" THEN local[q] ELSE NoFile]]
             /\ UNCHANGED adrift
    <3>1. /\ sync'.push = "patch" /\ sync'.marks = changes
          /\ changes[p] = "put" => sync'.tar[p] = local[p]
      BY <1>0, <2>3 DEF SyncType
    <3> QED BY <1>b, <1>2, <1>s, <2>1, <2>2, <2>3, <3>1 DEF Kept, NotesTrue, Moving, Running
  <2>4. CASE sync' = [sync EXCEPT !.push = "failed"] /\ adrift' = adrift \cup Pending
    <3>1. sync'.push = "failed" /\ (changes[p] # "none" => p \in adrift')
      BY <1>0, <2>4 DEF SyncType, Pending
    <3> QED BY <1>b, <1>2, <1>s, <2>1, <2>2, <2>4, <3>1 DEF Kept, NotesTrue, Moving, Running
  <2> QED BY <1>7, <2>3, <2>4 DEF PushTar
<1>8. CASE PushPatch
  <2>1. /\ Running /\ Running' /\ SyncRuns /\ sync.push = "patch" /\ sync'.pulls = sync.pulls
        /\ sync'.push \in {"reset", "failed"}
        /\ UNCHANGED <<local, changes, scanned>>
    BY <1>0, <1>8 DEF PushPatch, SyncType, Phases, Running, SyncRuns, env0
  <2>2. Moving(p) /\ NotesTrue(p) /\ sync.marks[p] = changes[p]
    BY <2>1 DEF Kept, Moving
  <2>3. NotesTrue(p)'
    BY <1>2, <2>1, <2>2 DEF NotesTrue
  <2>4. CASE /\ remote' = [q \in Paths |-> CASE sync.marks[q] = "put" -> sync.tar[q]
                                             [] sync.marks[q] = "delete" -> NoFile
                                             [] sync.marks[q] = "none" -> remote[q]]
             /\ sync' = [sync EXCEPT !.push = "reset", !.tar = NoFiles, !.marks = NoMarks]
             /\ adrift' = adrift \ {q \in Paths : sync.marks[q] # "none"}
    <3>0. sync'.push = "reset"
      BY <1>0, <2>4 DEF SyncType
    <3>1. changes[p] # "none" => Same(p)'
      <4>1. CASE changes[p] = "put"
        BY <2>1, <2>2, <2>4, <4>1 DEF Moving, Same
      <4>2. CASE changes[p] = "delete"
        <5>1. local[p] = NoFile
          BY <1>3, <2>1, <2>2, <4>2 DEF NotesTrue, Exists
        <5> QED BY <2>1, <2>2, <2>4, <4>2, <5>1 DEF Same
      <4> QED BY <1>0, <4>1, <4>2 DEF Marks
    <3>2. changes[p] = "none" => remote'[p] = remote[p] /\ (p \in adrift => p \in adrift')
      BY <2>2, <2>4
    <3> QED BY <1>b, <1>s, <2>1, <2>2, <2>3, <3>0, <3>1, <3>2 DEF Kept, Moving
  <2>5. CASE /\ sync' = [sync EXCEPT !.push = "failed", !.tar = NoFiles, !.marks = NoMarks]
             /\ adrift' = adrift \cup Pending /\ UNCHANGED remote
    <3>1. sync'.push = "failed" /\ (changes[p] # "none" => p \in adrift')
      BY <1>0, <2>5 DEF SyncType, Pending
    <3> QED BY <1>b, <1>s, <2>1, <2>2, <2>3, <2>5, <3>1 DEF Kept, Moving
  <2> QED BY <1>8, <2>4, <2>5 DEF PushPatch
<1>9. CASE PushReset
  <2>1. /\ Running /\ Running' /\ sync.push = "reset" /\ sync'.push = "done" /\ sync'.pulls = sync.pulls
        /\ changes'[p] = "none" /\ UNCHANGED <<local, remote, scanned, adrift>>
    BY <1>0, <1>9 DEF PushReset, SyncType, Phases, Running, NoMarks, env
  <2>2. Moving(p) /\ NotesTrue(p)
    BY <2>1 DEF Kept
  <2> QED BY <1>b, <1>2, <1>s, <2>1, <2>2 DEF Kept, NotesTrue, Moving
<1>10. ASSUME NEW q \in Paths, PullCopy(q) \/ PullFails(q) PROVE Kept(p)'
  <2>0. Pulled(q)
    BY <1>10 DEF PullCopy, PullFails
  <2>1. /\ Running /\ Running' /\ SyncRuns /\ q \in sync.pulls /\ sync'.pulls = sync.pulls \ {q}
        /\ sync'.push = sync.push /\ sync'.tar = sync.tar /\ sync'.marks = sync.marks
        /\ UNCHANGED <<remote, changes, scanned>>
    BY <1>0, <2>0 DEF Pulled, SyncType, Running, SyncRuns
  <2>2. Moving(p) /\ NotesTrue(p)
    BY <2>1 DEF Kept
  <2>3. CASE p # q
    <3>1. local'[p] = local[p]
      BY <1>10, <2>3, PullsOne DEF QuietInv, Around
    <3>2. Same(p)' <=> Same(p)
      BY <2>1, <3>1 DEF Same
    <3>3. p \in adrift => p \in adrift'
      BY <1>10, <2>3 DEF PullCopy, PullFails
    <3> QED BY <1>b, <1>2, <2>1, <2>2, <2>3, <3>1, <3>2, <3>3 DEF Kept, NotesTrue, Moving
  <2>4. CASE p = q
    <3>1. changes[p] = "none"
      BY <2>1, <2>2, <2>4 DEF Moving
    <3>2. Same(p)' \/ p \in adrift' \/ Unsaved(p)
      <4>1. CASE PullFails(q)
        BY <2>4, <4>1 DEF PullFails
      <4>2. CASE PullCopy(q) /\ Exists(remote[p])
        BY <1>0, <2>1, <2>4, <4>2 DEF PullCopy, Same
      <4>3. CASE PullCopy(q) /\ ~Exists(remote[p])
        <5>1. UNCHANGED <<local, adrift>>
          BY <2>4, <4>3 DEF PullCopy
        <5> QED BY <1>s, <2>1, <2>2, <3>1, <4>3, <5>1 DEF Moving
      <4> QED BY <1>10, <4>1, <4>2, <4>3
    <3> QED BY <1>b, <1>2, <1>3, <2>1, <2>2, <2>4, <3>1, <3>2 DEF Kept, NotesTrue, Moving
  <2> QED BY <2>3, <2>4
<1>11. CASE SyncEnd
  <2>1. /\ Running /\ ~Running' /\ sync.pulls = {} /\ sync.push \in {"done", "failed"}
        /\ UNCHANGED <<local, remote, changes, scanned, adrift>>
    BY <1>a, <1>11 DEF SyncEnd, Running, env
  <2>2. Moving(p) /\ NotesTrue(p)
    BY <2>1 DEF Kept
  <2> QED BY <1>b, <1>2, <1>s, <2>1, <2>2 DEF Kept, NotesTrue, Moving, Waiting
<1> QED BY <1>4, <1>5, <1>6, <1>7, <1>8, <1>9, <1>10, <1>11 DEF Sync

\* An operation between two Syncs.
LEMMA KeptOps ==
  ASSUME QuietInv, ~SyncRuns, NEW p \in Paths \ raced', p \notin raced, Kept(p),
         NEW c \in Clients, Begin(c) \/ OpApply(c) \/ OpFails(c) \/ OpMark(c)
  PROVE Kept(p)'
<1>0. /\ op \in [Clients -> Call] /\ local \in [Paths -> File] /\ changes \in [Paths -> Marks]
      /\ handle \in [Fds -> HandleType] /\ timer \in BOOLEAN
  BY DEF QuietInv, Around, Base, TypeOK, Call, OpType, HandleType, OpenType
<1>1. scanned /\ ~Running /\ ~Running'
  BY DEF QuietInv, Around, Base, Setup, Begin, OpBegin, OpApply, OpFails, OpMark, Idle, Running, SyncRuns
<1>2. UNCHANGED <<remote, sync, queued, scanned>>
  BY DEF Begin, OpBegin, OpApply, OpFails, OpMark
<1>3. NotesTrue(p) /\ Waiting(p)
  BY <1>1 DEF Kept
<1>a. p \in adrift => p \in adrift'
  BY RemoteSpared DEF Beside, QuietInv, Around
<1>b. handle' = handle => (Unsaved(p)' <=> Unsaved(p))
  BY DEF Unsaved
<1> SUFFICES NotesTrue(p)' /\ Waiting(p)'
  BY <1>1 DEF Kept
<1>4. ASSUME op[c].pc # "idle"
      PROVE op[c] \in OpType /\ ((op[c].kind = "rename") <=> (op[c].path # op[c].to))
  <2>1. op[c] \in OpType /\ op[c] # Idle
    BY <1>0, <1>4 DEF Call, Idle
  <2> QED BY <2>1 DEF OpType, QuietInv, Around, OpShape
<1>5. ASSUME /\ local'[p] = local[p] /\ changes'[p] = changes[p] /\ (timer => timer')
             /\ Unsaved(p)' <=> Unsaved(p)
             /\ PutComing(p)' <=> PutComing(p)
             /\ RemoveComing(p)' <=> RemoveComing(p)
      PROVE NotesTrue(p)' /\ Waiting(p)'
  BY <1>2, <1>3, <1>a, <1>5 DEF NotesTrue, Waiting, Armed, Same
<1>6. CASE Begin(c)
  <2>1. \A d \in Clients : (op[d].pc = "mark" \/ op'[d].pc = "mark") => op'[d] = op[d]
    BY <1>0, <1>6 DEF Begin, OpBegin, Idle
  <2>2. (PutComing(p)' <=> PutComing(p)) /\ (RemoveComing(p)' <=> RemoveComing(p))
    BY <2>1, ComingSame
  <2>3. UNCHANGED <<local, changes, timer, handle>>
    BY <1>6 DEF Begin, OpBegin
  <2> QED BY <1>b, <1>5, <2>2, <2>3
<1>7. CASE OpApply(c)
  <2>0. /\ op[c] \in OpType /\ op[c].pc = "apply" /\ op[c].path \in Paths /\ op[c].to \in Paths
        /\ (op[c].kind = "rename") <=> (op[c].path # op[c].to)
    BY <1>4, <1>7 DEF OpApply, OpType
  <2>h. Unsaved(p)' <=> Unsaved(p)
    BY <1>0, <1>7, <2>0, ApplyHandles DEF OpApply
  <2>1. /\ changes' = changes /\ timer' = timer
        /\ \A d \in Clients \ {c} : op'[d] = op[d]
    BY <1>0, <1>7 DEF OpApply
  <2>2. CASE op[c].kind \in {"open", "trunc"}
    <3>1. op'[c] = Idle
      BY <1>0, <1>7, <2>2 DEF OpApply
    <3>2. \A d \in Clients : (op[d].pc = "mark" \/ op'[d].pc = "mark") => op'[d] = op[d]
      BY <2>0, <2>1, <3>1 DEF Idle
    <3>3. (PutComing(p)' <=> PutComing(p)) /\ (RemoveComing(p)' <=> RemoveComing(p))
      BY <3>2, ComingSame
    <3>4. CASE op[c].kind = "trunc" /\ p = op[c].path
      <4>1. p \in adrift' /\ Exists(local[p])
        BY <1>7, <3>4 DEF OpApply, ApplyTrunc
      <4> QED BY <1>2, <1>3, <2>1, <3>3, <4>1 DEF NotesTrue, Waiting, Armed
    <3>5. CASE ~(op[c].kind = "trunc" /\ p = op[c].path)
      <4>1. local'[p] = local[p]
        BY <1>0, <1>7, <2>0, <2>2, <3>5 DEF OpApply, ApplyOpen, ApplyTrunc
      <4> QED BY <1>5, <2>h, <2>1, <3>3, <4>1
    <3> QED BY <3>4, <3>5
  <2>3. CASE op[c].kind \notin {"open", "trunc"}
    <3>0. /\ op'[c].pc = "mark" /\ op'[c].kind = op[c].kind /\ op'[c].path = op[c].path
          /\ op'[c].to = op[c].to
      BY <1>0, <1>7, <2>0, <2>3 DEF OpApply, OpType
    <3>1. CASE p \notin {op[c].path, op[c].to}
      <4>1. local'[p] = local[p]
        BY <1>0, <1>7, <2>0, <2>3, <3>1 DEF OpApply, ApplyCreate, ApplyTouch, ApplyRemove, ApplyRename, OpType
      <4>2. (PutComing(p)' <=> PutComing(p)) /\ (RemoveComing(p)' <=> RemoveComing(p))
        BY <2>0, <2>1, <3>0, <3>1 DEF PutComing, RemoveComing
      <4> QED BY <1>5, <2>h, <2>1, <4>1, <4>2
    <3>2. CASE p \in {op[c].path, op[c].to}
      <4>1. p \notin Unnoted
        BY <1>7, <3>2 DEF OpApply
      <4>2. \A d \in Clients : op[d].pc = "mark" => p # op[d].path /\ p # op[d].to
        BY <4>1 DEF Unnoted
      <4>3. \A d \in Clients \ {c} : op'[d].pc = "mark" => p # op'[d].path /\ p # op'[d].to
        BY <2>1, <4>2
      <4>4. RemoveComing(p)' <=> op[c].kind \in {"remove", "rename"} /\ op[c].path = p
        BY <3>0, <4>3 DEF RemoveComing
      <4>5. PutComing(p)' <=> op[c].kind # "remove" /\ op[c].to = p
        BY <3>0, <4>3 DEF PutComing
      <4>6. PutComing(p)' \/ (RemoveComing(p)' /\ op[c].kind \in {"remove", "rename"} /\ op[c].path = p)
        BY <2>0, <3>2, <4>4, <4>5
      <4>7. RemoveComing(p)' => ~Exists(local'[p])
        BY <1>0, <1>7, <2>0, <4>4 DEF OpApply, ApplyRemove, ApplyRename, OpType, Exists
      <4>8. Exists(local'[p]) => PutComing(p)'
        BY <4>6, <4>7
      <4> QED BY <1>2, <1>3, <1>a, <2>1, <4>6, <4>7, <4>8 DEF NotesTrue, Waiting, Armed
    <3> QED BY <3>1, <3>2
  <2> QED BY <2>2, <2>3
<1>8. CASE OpFails(c)
  <2>0. /\ op[c] \in OpType /\ op[c].pc = "apply"
        /\ (op[c].kind = "rename") <=> (op[c].path # op[c].to)
    BY <1>4, <1>8 DEF OpFails
  <2>1. UNCHANGED <<local, changes, timer, handle>> /\ \A d \in Clients \ {c} : op'[d] = op[d]
    BY <1>0, <1>8 DEF OpFails
  <2>2. CASE op[c].kind = "create"
    <3>1. /\ op'[c].pc = "mark" /\ op'[c].kind = "create" /\ op'[c].path = op[c].path
          /\ op'[c].to = op[c].to
      BY <1>0, <1>8, <2>0, <2>2 DEF OpFails, OpType
    <3>2. RemoveComing(p)' <=> RemoveComing(p)
      BY <2>0, <2>1, <3>1 DEF RemoveComing
    <3>3. PutComing(p) => PutComing(p)'
      BY <2>0, <2>1 DEF PutComing
    <3> QED BY <1>2, <1>3, <1>a, <1>b, <2>1, <3>2, <3>3 DEF NotesTrue, Waiting, Armed, Same
  <2>3. CASE op[c].kind # "create"
    <3>1. op'[c] = Idle
      BY <1>0, <1>8, <2>3 DEF OpFails
    <3>2. \A d \in Clients : (op[d].pc = "mark" \/ op'[d].pc = "mark") => op'[d] = op[d]
      BY <2>0, <2>1, <3>1 DEF Idle
    <3> QED BY <1>b, <1>5, <2>1, <3>2, ComingSame
  <2> QED BY <2>2, <2>3
<1>9. CASE OpMark(c)
  <2>0. /\ op[c] \in OpType /\ op[c].pc = "mark"
        /\ (op[c].kind = "rename") <=> (op[c].path # op[c].to)
    BY <1>4, <1>9 DEF OpMark
  <2>1. UNCHANGED <<local, handle>> /\ (\A d \in Clients \ {c} : op'[d] = op[d])
    BY <1>0, <1>9 DEF OpMark
  <2>2. CASE op[c].kind = "rename"
    <3>1. /\ changes' = [changes EXCEPT ![op[c].to] = "put"] /\ timer'
          /\ op'[c].pc = "mark" /\ op'[c].kind = "remove" /\ op'[c].path = op[c].path
          /\ op'[c].to = op[c].path
      BY <1>0, <1>9, <2>0, <2>2 DEF OpMark, changed, Dropped, OpType
    <3>2. RemoveComing(p)' <=> RemoveComing(p)
      BY <2>0, <2>1, <2>2, <3>1 DEF RemoveComing
    <3>3. CASE p = op[c].to
      <4>1. changes'[p] = "put"
        BY <1>0, <3>1, <3>3
      <4> QED BY <1>3, <2>1, <3>1, <3>2, <4>1 DEF NotesTrue, Waiting, Armed
    <3>4. CASE p # op[c].to
      <4>1. changes'[p] = changes[p]
        BY <1>0, <3>1, <3>4
      <4>2. PutComing(p)' <=> PutComing(p)
        BY <2>0, <2>1, <2>2, <3>1, <3>4 DEF PutComing
      <4> QED BY <1>b, <1>5, <2>1, <3>1, <3>2, <4>1, <4>2
    <3> QED BY <3>3, <3>4
  <2>3. CASE op[c].kind # "rename"
    <3>0. op'[c] = Idle /\ op[c].path = op[c].to
      BY <1>0, <1>9, <2>0, <2>3 DEF OpMark
    <3>1. changed(op[c].path, op[c].kind # "remove") /\ op[c].path \in Paths
      BY <1>9, <2>0, <2>3 DEF OpMark, OpType
    <3>2. CASE p # op[c].path
      <4>1. changes'[p] = changes[p] /\ (timer => timer')
        BY <1>0, <3>1, <3>2 DEF changed
      <4>2. (PutComing(p)' <=> PutComing(p)) /\ (RemoveComing(p)' <=> RemoveComing(p))
        BY <2>0, <2>1, <3>0, <3>2 DEF PutComing, RemoveComing, Idle
      <4> QED BY <1>b, <1>5, <2>1, <4>1, <4>2
    <3>3. CASE p = op[c].path
      <4>1. RemoveComing(p)' => RemoveComing(p)
        BY <2>1, <3>0 DEF RemoveComing, Idle
      <4>2. CASE op[c].kind # "remove"
        <5>1. changes'[p] = "put" /\ timer'
          BY <1>0, <3>1, <3>3, <4>2 DEF changed, Dropped
        <5> QED BY <1>3, <2>1, <4>1, <5>1 DEF NotesTrue, Waiting, Armed
      <4>3. CASE op[c].kind = "remove"
        <5>1. ~Exists(local[p])
          <6>1. RemoveComing(p)
            BY <2>0, <3>3, <4>3 DEF RemoveComing
          <6> QED BY <1>3, <6>1 DEF NotesTrue
        <5>2. CASE changes[p] = "put"
          <6>1. changes'[p] = "none" /\ timer' = timer
            BY <1>0, <3>1, <3>3, <4>3, <5>2 DEF changed, Dropped
          <6>2. Armed' \/ p \in adrift'
            BY <1>2, <1>3, <1>a, <5>2, <6>1 DEF Waiting, Armed
          <6>3. Same(p)' \/ (~Exists(local'[p]) /\ Exists(remote'[p]))
            BY <1>2, <2>1, <5>1 DEF Same, Exists
          <6> QED BY <2>1, <5>1, <6>1, <6>2, <6>3 DEF NotesTrue, Waiting
        <5>3. CASE changes[p] # "put"
          <6>1. changes'[p] = "delete" /\ timer'
            BY <1>0, <3>1, <3>3, <4>3, <5>3 DEF changed, Dropped
          <6> QED BY <2>1, <5>1, <6>1 DEF NotesTrue, Waiting, Armed
        <5> QED BY <5>2, <5>3
      <4> QED BY <4>2, <4>3
    <3> QED BY <3>2, <3>3
  <2> QED BY <2>2, <2>3
<1> QED BY <1>6, <1>7, <1>8, <1>9

\* A handle, another machine, the timer or the clock between two Syncs.
LEMMA KeptOthers ==
  ASSUME QuietInv, ~SyncRuns, NEW p \in Paths, Kept(p), Beside,
         ~\E c \in Clients : Begin(c) \/ OpApply(c) \/ OpFails(c) \/ OpMark(c)
  PROVE Kept(p)'
<1>0. /\ local \in [Paths -> File] /\ changes \in [Paths -> Marks] /\ timer \in BOOLEAN
      /\ handle \in [Fds -> HandleType] /\ Base
  BY DEF QuietInv, Around, Base, TypeOK, HandleType, OpenType
<1>1. UNCHANGED <<sync, scanned, op>> /\ ~Running /\ ~Running'
  BY DEF Beside, HandleWrite, HandleClose, ForeignWrite, TimerFires, Tick, vars, env, Running, SyncRuns
<1>2. (PutComing(p)' <=> PutComing(p)) /\ (RemoveComing(p)' <=> RemoveComing(p))
  BY <1>1, ComingSame
<1>a. /\ p \in adrift => p \in adrift'
      /\ Exists(remote[p]) => Exists(remote'[p])
      /\ remote'[p] = remote[p] \/ p \in adrift'
  BY <1>0, RemoteSpared
<1>3. ASSUME local'[p] = local[p], changes'[p] = changes[p], Unsaved(p) => Unsaved(p)', Armed => Armed'
      PROVE Kept(p)'
  BY <1>1, <1>2, <1>a, <1>3 DEF Kept, NotesTrue, Waiting, Same
<1>4. ASSUME NEW h \in Fds, HandleWrite(h) PROVE Kept(p)'
  <2>1. UNCHANGED <<changes, timer, queued>> /\ (Armed' <=> Armed)
    BY <1>1, <1>4 DEF HandleWrite, Armed
  <2>2. (Unsaved(p) => Unsaved(p)') /\ (handle[h].path = p => Unsaved(p)')
    BY <1>0, <1>4, WriteUnsaved
  <2>3. CASE p \notin handle[h].at
    <3>1. local'[p] = local[p]
      BY <1>0, <1>4, <2>3 DEF HandleWrite
    <3> QED BY <1>3, <2>1, <2>2, <3>1
  <2>4. CASE p \in handle[h].at
    <3>1. Exists(local'[p]) => Exists(local[p])
      BY <1>0, <1>4 DEF HandleWrite
    <3>2. p \in adrift' \/ Unsaved(p)'
      BY <1>4, <2>2, <2>4 DEF HandleWrite
    <3> QED BY <1>1, <1>2, <1>a, <2>1, <3>1, <3>2 DEF Kept, NotesTrue, Waiting
  <2> QED BY <2>3, <2>4
<1>5. ASSUME NEW h \in Fds, HandleClose(h) PROVE Kept(p)'
  <2>1. local' = local /\ queued' = queued
    BY <1>5 DEF HandleClose
  <2>2. CASE handle[h].pc = "modified"
    <3>0. handle[h].path \in Paths
      BY <1>0, <2>2 DEF HandleType, OpenType, Closed
    <3>1. changes' = [changes EXCEPT ![handle[h].path] = "put"] /\ timer'
      BY <1>5, <2>2 DEF HandleClose, changed, Dropped
    <3>2. Armed'
      BY <3>1 DEF Armed
    <3>3. CASE p # handle[h].path
      <4>1. changes'[p] = changes[p] /\ (Unsaved(p) => Unsaved(p)')
        BY <1>0, <1>5, <3>1, <3>3, CloseUnsaved
      <4> QED BY <1>3, <2>1, <3>2, <4>1
    <3>4. CASE p = handle[h].path
      <4>1. changes'[p] = "put"
        BY <1>0, <3>1, <3>4
      <4> QED BY <1>1, <1>2, <2>1, <3>2, <4>1 DEF Kept, NotesTrue, Waiting
    <3> QED BY <3>3, <3>4
  <2>3. CASE handle[h].pc # "modified"
    <3>1. changes' = changes /\ timer' = timer
      BY <1>5, <2>3 DEF HandleClose
    <3>2. Unsaved(p) => Unsaved(p)'
      BY <1>0, <1>5, <2>3, CloseUnsaved
    <3>3. Armed' <=> Armed
      BY <1>1, <2>1, <3>1 DEF Armed
    <3> QED BY <1>3, <2>1, <3>1, <3>2, <3>3
  <2> QED BY <2>2, <2>3
<1>b. handle' = handle => (Unsaved(p)' <=> Unsaved(p))
  BY DEF Unsaved
<1>6. CASE TimerFires
  <2>1. UNCHANGED <<local, changes, handle>> /\ Armed'
    BY <1>6 DEF TimerFires, env, Armed
  <2> QED BY <1>3, <1>b, <2>1
<1>7. CASE (\E q \in Paths : ForeignWrite(q)) \/ Tick \/ UNCHANGED vars
  <2>1. UNCHANGED <<local, changes, handle, timer, queued>>
    BY <1>7 DEF ForeignWrite, Tick, vars
  <2> QED BY <1>1, <1>3, <1>b, <2>1 DEF Armed
<1> QED BY <1>4, <1>5, <1>6, <1>7 DEF Beside

LEMMA QuietStep ==
  ASSUME QuietInv, [Next]_vars
  PROVE QuietInv'
<1>1. Around'
  BY AroundStep DEF QuietInv
<1>2. raced \subseteq raced' /\ contended \subseteq contended'
  BY RaceGrows DEF QuietInv, Around
<1>3. ASSUME NEW p \in Paths \ (raced' \cup contended') PROVE Kept(p)'
  <2>1. p \in Paths /\ p \notin raced /\ p \notin raced' /\ Kept(p)
    BY <1>2 DEF QuietInv
  <2>2. CASE Sync
    BY <1>1, <2>1, <2>2, KeptSync
  <2>3. CASE ~Sync
    <3>0. Beside
      BY <2>3 DEF Next, Beside
    <3>1. CASE SyncRuns
      BY <1>1, <2>1, <3>0, <3>1, KeptBeside
    <3>2. CASE ~SyncRuns /\ \E c \in Clients : Begin(c) \/ OpApply(c) \/ OpFails(c) \/ OpMark(c)
      BY <2>1, <3>2, KeptOps
    <3>3. CASE ~SyncRuns /\ ~\E c \in Clients : Begin(c) \/ OpApply(c) \/ OpFails(c) \/ OpMark(c)
      BY <2>1, <3>0, <3>3, KeptOthers
    <3> QED BY <3>1, <3>2, <3>3
  <2> QED BY <2>2, <2>3
<1> QED BY <1>1, <1>3 DEF QuietInv

\* When all is quiet both sides hold the same files, whatever clients, handles,
\* renames of open files, failures of the network or of a copy, and writes of
\* another machine there are, but for the paths the property names: every change
\* that is lost is lost on one of them.
THEOREM QuietCorrect == Spec => []QuietMeansSame
<1>1. Init => QuietInv
  <2> SUFFICES ASSUME Init PROVE QuietInv
    OBVIOUS
  <2>1. Base
    BY InitBase
  <2>2. OpShape /\ NotesCounted /\ sync.pc = "idle" /\ sync.push = "done" /\ ~Running /\ ~scanned
    BY DEF Init, OpShape, NotesCounted, SyncRuns, Rest, Running
  <2>3. AsFound
    BY DEF Init, AsFound, FirstFile
  <2>4. \A p \in Paths : Kept(p)
    BY <2>2 DEF Init, Kept, NotesTrue, RemoveComing, Idle, NoMarks
  <2> QED BY <2>1, <2>2, <2>3, <2>4 DEF QuietInv, Around
<1>2. QuietInv /\ [Next]_vars => QuietInv'
  BY QuietStep
<1>3. QuietInv => QuietMeansSame
  <2> SUFFICES ASSUME QuietInv, Quiet, NEW p \in Paths \ (raced \cup contended \cup adrift) PROVE Same(p)
    BY DEF QuietMeansSame, QuietInv, Around, Base
  <2>1. Waiting(p)
    BY DEF QuietInv, Kept, Quiet, SyncRuns, Running
  <2>2. ~Armed /\ changes[p] = "none" /\ ~Unsaved(p)
    <3>1. sync.pc = "idle"
      BY DEF Quiet, SyncRuns
    <3> QED BY <3>1 DEF Quiet, Armed, NoMarks, Unsaved, QuietInv, Around, Base, TypeOK
  <2>3. ~PutComing(p) /\ ~RemoveComing(p)
    BY DEF Quiet, PutComing, RemoveComing, Idle
  <2> QED BY <2>1, <2>2, <2>3 DEF Waiting
<1> QED BY <1>1, <1>2, <1>3, PTL DEF Spec
=============================================================================
