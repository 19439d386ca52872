------------------------------- MODULE SyncFS -------------------------------
(***************************************************************************)
(* fs/syncfs: a filesystem that works on a local copy and synchronises it  *)
(* with a remote one.  Operations change the local copy and note the path  *)
(* in the map changes; each note re-arms a timer, and when it fires Sync   *)
(* pulls what is newer on the remote and pushes what changes names.  Sync  *)
(* runs in a goroutine of its own: operations wait for it only before they *)
(* begin, and handles that are already open do not wait at all.            *)
(*                                                                         *)
(* A file is a version number and a modification time in seconds; paths    *)
(* are the names of plain files (directories are not modelled).  The       *)
(* remote is the Index and Patch of an HTTP server: either may fail, and a *)
(* pull may fail half way.  An open handle stays with the file it opened,  *)
(* whatever name that has now, and notes the name it was opened by.        *)
(***************************************************************************)
EXTENDS Integers, FiniteSets

CONSTANTS
  Paths,
  Clients,     \* threads that call the filesystem
  Kinds,       \* the operations they call
  Fds,         \* bound: handles open at a time
  Failures,    \* whether Index, Patch, the copies of a pull and Create may fail
  Foreign,     \* whether another machine writes to the remote
  MaxCalls,    \* bound: operations called
  MaxVersion,  \* bound: versions ever written
  MaxTime      \* bound: seconds

ASSUME SyncAssumption ==
  /\ Kinds \subseteq {"create", "open", "trunc", "touch", "remove", "rename"}
  /\ Failures \in BOOLEAN /\ Foreign \in BOOLEAN
  /\ MaxCalls \in Nat /\ MaxVersion \in Nat \ {0} /\ MaxTime \in Nat

NoFile == [ver |-> 0, mtime |-> 0]
File == {NoFile} \cup [ver : 1 .. MaxVersion, mtime : 0 .. MaxTime]
Marks == {"none", "put", "delete"}

VARIABLES
  local, remote,
  changes,   \* the map: a path is absent, true or false
  scanned,   \* the map was made (it is nil before the first scan)
  timer,     \* the debounce timer is armed
  queued,    \* calls of Sync that wait for syncLock
  sync,      \* the call of Sync that runs
  op,        \* the operation each client is in
  handle,    \* the open handles: the name they note, the path they reach
  clock, version, calls,
  raced,     \* history: paths an operation touched while Sync ran or another
             \* operation had not noted them
  contended, \* history: paths that one Sync both pushed and pulled
  adrift     \* history: paths on which one side changed and nobody noted it, until
             \* they are next pushed or pulled: another machine wrote, a file was
             \* truncated as it was opened, a handle wrote a file that has another
             \* name by now, a copy failed or stopped half way, a Sync failed

vars == <<local, remote, changes, scanned, timer, queued, sync, op, handle, clock,
          version, calls, raced, contended, adrift>>

Exists(f) == f # NoFile
NoMarks == [p \in Paths |-> "none"]
SyncRuns == sync.pc # "idle"
Idle == [pc |-> "idle", kind |-> "none"]
Closed == [pc |-> "closed", at |-> {}]
Opened(p) == [pc |-> "open", path |-> p, at |-> {p}]
NoFiles == [p \in Paths |-> NoFile]
Rest == [pc |-> "idle", push |-> "done", pulls |-> {}, index |-> NoFiles, tar |-> NoFiles,
         marks |-> NoMarks]
\* The last Sync returned an error.
Failed == [Rest EXCEPT !.push = "failed"]

Same(p) == local[p].ver = remote[p].ver

\* What there is to push or to pull.
Pending == {p \in Paths : changes[p] # "none" \/ ~Same(p)}

\* Types (the second note of a rename is that of a removal); a Sync pulls only what
\* the remote listed, and no change is noted before the map exists.
TypeOK ==
  /\ local \in [Paths -> File] /\ remote \in [Paths -> File]
  /\ changes \in [Paths -> Marks] /\ scanned \in BOOLEAN
  /\ timer \in BOOLEAN /\ queued \in 0 .. 1
  /\ sync \in [pc : {"idle", "index", "scan", "run"},
               push : {"tar", "patch", "reset", "done", "failed"},
               pulls : SUBSET Paths, index : [Paths -> File],
               tar : [Paths -> File], marks : [Paths -> Marks]]
  /\ sync.pulls \subseteq {p \in Paths : Exists(sync.index[p])}
  /\ op \in [Clients -> {Idle} \cup [pc : {"apply", "mark"}, kind : Kinds \cup {"remove"},
                                     path : Paths, to : Paths]]
  /\ handle \in [Fds -> {Closed} \cup [pc : {"open", "modified"}, path : Paths,
                                        at : SUBSET Paths]]
  /\ clock \in 0 .. MaxTime /\ version \in 0 .. MaxVersion /\ calls \in 0 .. MaxCalls
  /\ raced \subseteq Paths /\ contended \subseteq Paths
  /\ adrift \subseteq Paths
  /\ ~scanned => changes = NoMarks

\* The first call of Sync is made when the filesystem is set up, before anybody
\* uses it; both sides may hold files already.
Init ==
  /\ local \in [Paths -> {NoFile, [ver |-> 1, mtime |-> 0]}]
  /\ remote \in [Paths -> {NoFile, [ver |-> 1, mtime |-> 0]}]
  /\ changes = NoMarks /\ scanned = FALSE
  /\ timer = FALSE /\ queued = 1 /\ sync = Rest
  /\ op = [c \in Clients |-> Idle]
  /\ handle = [h \in Fds |-> Closed]
  /\ clock = 0 /\ version = 1 /\ calls = 0
  /\ raced = {} /\ contended = {} /\ adrift = {}

-----------------------------------------------------------------------------
(* changed()                                                               *)

\* Mutant: every second note cancels the first.
DroppedAlways(p, exists) == changes[p] # "none"

Dropped(p, exists) == changes[p] = "put" /\ ~exists

\* Mutant: the timer is not armed.
changedNoTimer(p, exists) ==
  /\ changes' = [changes EXCEPT ![p] = IF Dropped(p, exists) THEN "none"
                                       ELSE IF exists THEN "put" ELSE "delete"]
  /\ UNCHANGED timer

\* A note of a removal cancels the note of an earlier write; every other note is
\* kept and re-arms the timer.
changed(p, exists) ==
  IF Dropped(p, exists)
  THEN changes' = [changes EXCEPT ![p] = "none"] /\ UNCHANGED timer
  ELSE /\ changes' = [changes EXCEPT ![p] = IF exists THEN "put" ELSE "delete"]
       /\ timer' = TRUE

Unnoted == UNION {{op[c].path, op[c].to} : c \in {d \in Clients : op[d].pc = "mark"}}

Race(ps) == raced' = raced \cup IF SyncRuns THEN ps ELSE {}

NewFile == [ver |-> version + 1, mtime |-> clock]

-----------------------------------------------------------------------------
(* Operations: wait(), the change of the local copy, changed().            *)

OpBegin(c, kind, p, to) ==
  /\ op[c] = Idle /\ scanned /\ calls < MaxCalls
  /\ ~SyncRuns
  /\ op' = [op EXCEPT ![c] = [pc |-> "apply", kind |-> kind, path |-> p, to |-> to]]
  /\ calls' = calls + 1
  /\ UNCHANGED <<local, remote, changes, scanned, timer, queued, sync, handle, clock,
                 version, raced, contended, adrift>>

Begin(c) ==
  \E kind \in Kinds, p, to \in Paths : (kind = "rename") = (p # to) /\ OpBegin(c, kind, p, to)

\* The local filesystem may truncate the file in place or put a new one under its
\* name, as memfs does: what the handles on it write is lost then.
Replaced(p) == [h \in Fds |-> [handle[h] EXCEPT !.at = @ \ {p}]]

\* After a rename they write to the file under its new name.
Moved(p, to) == [h \in Fds |-> [handle[h] EXCEPT !.at = IF p \in @ THEN {to} ELSE @ \ {to}]]

\* Create and OpenFile with O_CREATE; a handle that is closed at once notes nothing.
ApplyCreate(p) ==
  /\ version < MaxVersion
  /\ local' = [local EXCEPT ![p] = NewFile]
  /\ \E hs \in {handle, Replaced(p)} :
       \/ handle' = hs
       \/ \E h \in Fds : handle[h] = Closed /\ handle' = [hs EXCEPT ![h] = Opened(p)]
  /\ version' = version + 1
  /\ UNCHANGED adrift

\* OpenFile of a file that exists without O_CREATE, and with O_TRUNC.  Neither
\* notes the path: only a write through the handle will.
ApplyOpen(p) ==
  /\ Exists(local[p])
  /\ \E h \in Fds : handle[h] = Closed /\ handle' = [handle EXCEPT ![h] = Opened(p)]
  /\ UNCHANGED <<local, version, adrift>>

ApplyTrunc(p) ==
  /\ version < MaxVersion /\ Exists(local[p])
  /\ \E h \in Fds, hs \in {handle, Replaced(p)} :
       handle[h] = Closed /\ handle' = [hs EXCEPT ![h] = Opened(p)]
  /\ local' = [local EXCEPT ![p] = NewFile]
  /\ version' = version + 1
  /\ adrift' = adrift \cup {p}

\* Chmod, Chown, Chtimes, and Symlink or a write through an existing path.
ApplyTouch(p) ==
  /\ version < MaxVersion /\ Exists(local[p])
  /\ local' = [local EXCEPT ![p] = NewFile]
  /\ version' = version + 1
  /\ UNCHANGED <<handle, adrift>>

ApplyRemove(p) ==
  /\ Exists(local[p])
  /\ local' = [local EXCEPT ![p] = NoFile]
  /\ handle' = Replaced(p)
  /\ UNCHANGED <<version, adrift>>

ApplyRename(p, to) ==
  /\ Exists(local[p])
  /\ local' = [local EXCEPT ![p] = NoFile, ![to] = local[p]]
  /\ handle' = Moved(p, to)
  /\ UNCHANGED <<version, adrift>>

OpApply(c) ==
  /\ op[c].pc = "apply"
  /\ \/ op[c].kind = "create" /\ ApplyCreate(op[c].path)
     \/ op[c].kind = "open" /\ ApplyOpen(op[c].path)
     \/ op[c].kind = "trunc" /\ ApplyTrunc(op[c].path)
     \/ op[c].kind = "touch" /\ ApplyTouch(op[c].path)
     \/ op[c].kind = "remove" /\ ApplyRemove(op[c].path)
     \/ op[c].kind = "rename" /\ ApplyRename(op[c].path, op[c].to)
  /\ op' = [op EXCEPT ![c] = IF op[c].kind \in {"open", "trunc"} THEN Idle
                             ELSE [@ EXCEPT !.pc = "mark"]]
  /\ raced' = raced \cup ({op[c].path, op[c].to} \cap IF SyncRuns THEN Paths ELSE Unnoted)
  /\ UNCHANGED <<remote, changes, scanned, timer, queued, sync, clock, calls, contended>>

\* The local filesystem refuses.  Create notes its path all the same (the note
\* is deferred before the attempt), the others return the error.
OpFails(c) ==
  /\ op[c].pc = "apply"
  /\ \/ /\ op[c].kind = "create" /\ Failures
        /\ op' = [op EXCEPT ![c].pc = "mark"]
        /\ Race({op[c].path})
     \/ /\ op[c].kind # "create" /\ ~Exists(local[op[c].path])
        /\ op' = [op EXCEPT ![c] = Idle]
        /\ UNCHANGED raced
  /\ UNCHANGED <<local, remote, changes, scanned, timer, queued, sync, handle, clock,
                 version, calls, contended, adrift>>

\* Of a rename the new name is noted first, then the old one.
OpMark(c) ==
  /\ op[c].pc = "mark"
  /\ changed(IF op[c].kind = "rename" THEN op[c].to ELSE op[c].path, op[c].kind # "remove")
  /\ op' = [op EXCEPT ![c] = IF op[c].kind = "rename"
                             THEN [@ EXCEPT !.kind = "remove", !.to = op[c].path]
                             ELSE Idle]
  /\ Race({op[c].path, op[c].to})
  /\ UNCHANGED <<local, remote, scanned, queued, sync, handle, clock, version, calls,
                 contended, adrift>>

-----------------------------------------------------------------------------
(* syncFile: neither Write nor Close calls wait().                         *)

HandleWrite(h) ==
  /\ handle[h] # Closed /\ version < MaxVersion
  /\ handle' = [handle EXCEPT ![h].pc = "modified"]
  /\ local' = [p \in Paths |-> IF p \in handle[h].at /\ Exists(local[p]) THEN NewFile
                                                                       ELSE local[p]]
  /\ version' = version + 1
  /\ Race(handle[h].at)
  /\ adrift' = adrift \cup (handle[h].at \ {handle[h].path})
  /\ UNCHANGED <<remote, changes, scanned, timer, queued, sync, op, clock, calls,
                 contended>>

\* The name the handle was opened by is noted, be the file there or not.
HandleClose(h) ==
  /\ handle[h] # Closed
  /\ handle' = [handle EXCEPT ![h] = Closed]
  /\ IF handle[h].pc = "modified" THEN changed(handle[h].path, TRUE) /\ Race({handle[h].path})
                                  ELSE UNCHANGED <<changes, timer, raced>>
  /\ UNCHANGED <<local, remote, scanned, queued, sync, op, clock, version, calls,
                 contended, adrift>>

-----------------------------------------------------------------------------
(* Sync                                                                    *)

env == <<op, handle, clock, version, calls, raced, contended, adrift>>
env0 == <<op, handle, clock, version, calls, raced, contended>>

TimerFires ==
  /\ timer /\ queued = 0
  /\ timer' = FALSE /\ queued' = 1
  /\ UNCHANGED <<local, remote, changes, scanned, sync, env>>

SyncBegin ==
  /\ ~SyncRuns /\ queued > 0
  /\ queued' = queued - 1
  /\ sync' = [Rest EXCEPT !.pc = "index"]
  /\ raced' = raced \cup Unnoted
  /\ UNCHANGED <<local, remote, changes, scanned, timer, op, handle, clock, version, calls,
                 contended, adrift>>

SyncIndex ==
  /\ sync.pc = "index"
  /\ \/ sync' = [sync EXCEPT !.pc = "scan", !.index = remote] /\ UNCHANGED adrift
     \/ Failures /\ sync' = Failed /\ adrift' = adrift \cup Pending
  /\ UNCHANGED <<local, remote, changes, scanned, timer, queued, env0>>

\* Mutant: the clocks are taken to agree.
OutdatedByOne(mine, theirs) == ~Exists(mine) \/ theirs.mtime - mine.mtime >= 1

\* Older than the remote's by two seconds, which two clocks may differ by.
Outdated(mine, theirs) == ~Exists(mine) \/ theirs.mtime - mine.mtime >= 2

\* Mutant: a file noted as removed is pulled again.
ShouldPullRemoved(p) == Exists(sync.index[p]) /\ Outdated(local[p], sync.index[p])

ShouldPull(p) ==
  /\ Exists(sync.index[p])
  /\ changes[p] # "delete"
  /\ Outdated(local[p], sync.index[p])

\* The first Sync notes what is new or newer on this side.
FirstMarks ==
  [p \in Paths |->
     IF Exists(local[p]) /\ (~Exists(sync.index[p]) \/ sync.index[p].mtime < local[p].mtime)
     THEN "put" ELSE "none"]

SyncScan ==
  /\ sync.pc = "scan"
  /\ changes' = IF scanned THEN changes ELSE FirstMarks
  /\ scanned' = TRUE
  /\ sync' = [sync EXCEPT !.pc = "run",
                          !.pulls = {p \in Paths : ShouldPull(p)},
                          !.index = [p \in Paths |-> IF ShouldPull(p) THEN @[p] ELSE NoFile],
                          !.push = IF changes' = NoMarks THEN "done" ELSE "tar"]
  /\ contended' = contended \cup {p \in sync'.pulls : changes'[p] = "put"}
  /\ UNCHANGED <<local, remote, timer, queued, op, handle, clock, version, calls, raced, adrift>>

Missing == {p \in Paths : changes[p] = "put" /\ ~Exists(local[p])}

\* The archive is made of the noted paths; one that is gone or cannot be read ends
\* the push.
PushTar ==
  /\ sync.pc = "run" /\ sync.push = "tar"
  /\ \/ /\ Missing = {}
        /\ sync' = [sync EXCEPT !.push = "patch", !.marks = changes,
                       !.tar = [p \in Paths |-> IF changes[p] = "put" THEN local[p] ELSE NoFile]]
        /\ UNCHANGED adrift
     \/ /\ Missing # {} \/ Failures
        /\ sync' = [sync EXCEPT !.push = "failed"]
        /\ adrift' = adrift \cup Pending
  /\ UNCHANGED <<local, remote, changes, scanned, timer, queued, env0>>

PushPatch ==
  /\ sync.push = "patch"
  /\ \/ /\ remote' = [p \in Paths |-> CASE sync.marks[p] = "put" -> sync.tar[p]
                                        [] sync.marks[p] = "delete" -> NoFile
                                        [] sync.marks[p] = "none" -> remote[p]]
        /\ sync' = [sync EXCEPT !.push = "reset", !.tar = NoFiles, !.marks = NoMarks]
        /\ adrift' = adrift \ {p \in Paths : sync.marks[p] # "none"}
     \/ /\ Failures
        /\ sync' = [sync EXCEPT !.push = "failed", !.tar = NoFiles, !.marks = NoMarks]
        /\ adrift' = adrift \cup Pending
        /\ UNCHANGED remote
  /\ UNCHANGED <<local, changes, scanned, timer, queued, env0>>

PushReset ==
  /\ sync.push = "reset"
  /\ changes' = NoMarks
  /\ sync' = [sync EXCEPT !.push = "done"]
  /\ UNCHANGED <<local, remote, scanned, timer, queued, env>>

Pulled(p) ==
  /\ sync.pc = "run" /\ p \in sync.pulls
  /\ sync' = [sync EXCEPT !.pulls = @ \ {p}, !.index[p] = NoFile]
  /\ UNCHANGED <<remote, changes, scanned, timer, queued, op, clock, calls, raced,
                 contended>>

\* CopyFS reads the remote as it is now and truncates what stands here; the time
\* is the index's.
PullCopy(p) ==
  /\ Pulled(p)
  /\ IF Exists(remote[p])
     THEN /\ local' = [local EXCEPT ![p] = [ver |-> remote[p].ver, mtime |-> sync.index[p].mtime]]
          /\ handle' \in {handle, Replaced(p)}
          /\ adrift' = adrift \ {p}
     ELSE UNCHANGED <<local, handle, adrift>>
  /\ UNCHANGED version

\* What a failing copy leaves: the first part of the file, with the index's time when
\* only io.Copy failed, for copyFile tests the wrong variable; the first part or all
\* of it with the time of the copy, when Close, Chmod or Chtimes failed.
Broken(p) ==
  {[ver |-> version + 1, mtime |-> sync.index[p].mtime], [ver |-> version + 1, mtime |-> clock],
   [ver |-> remote[p].ver, mtime |-> clock]}

\* An error of the copy is logged and the Sync goes on, if there is an error at all.
PullFails(p) ==
  /\ Failures /\ Pulled(p)
  /\ adrift' = adrift \cup {p}
  /\ \/ UNCHANGED <<local, handle, version>>
     \/ /\ Exists(remote[p]) /\ version < MaxVersion
        /\ \E f \in Broken(p) : local' = [local EXCEPT ![p] = f]
        /\ handle' \in {handle, Replaced(p)}
        /\ version' = version + 1

SyncEnd ==
  /\ sync.pc = "run" /\ sync.pulls = {} /\ sync.push \in {"done", "failed"}
  /\ sync' = IF sync.push = "failed" THEN Failed ELSE Rest
  /\ UNCHANGED <<local, remote, changes, scanned, timer, queued, env>>

-----------------------------------------------------------------------------
(* The rest of the world                                                   *)

ForeignWrite(p) ==
  /\ Foreign /\ version < MaxVersion
  /\ remote' = [remote EXCEPT ![p] = NewFile]
  /\ version' = version + 1
  /\ adrift' = adrift \cup {p}
  /\ UNCHANGED <<local, changes, scanned, timer, queued, sync, op, handle, clock, calls,
                 raced, contended>>

Tick ==
  /\ clock < MaxTime
  /\ clock' = clock + 1
  /\ UNCHANGED <<local, remote, changes, scanned, timer, queued, sync, op, handle,
                 version, calls, raced, contended, adrift>>

Sync == \/ SyncBegin \/ SyncIndex \/ SyncScan \/ PushTar \/ PushPatch \/ PushReset
        \/ \E p \in Paths : PullCopy(p) \/ PullFails(p)
        \/ SyncEnd

Next ==
  \/ \E c \in Clients : Begin(c) \/ OpApply(c) \/ OpFails(c) \/ OpMark(c)
  \/ \E h \in Fds : HandleWrite(h) \/ HandleClose(h)
  \/ \E p \in Paths : ForeignWrite(p)
  \/ TimerFires \/ Sync \/ Tick

Spec == Init /\ [][Next]_vars

\* The timer fires, Sync runs to its end, an operation that applied its change
\* notes it.
FairSpec == Spec /\ WF_vars(TimerFires) /\ WF_vars(Sync)
                 /\ \A c \in Clients : WF_vars(OpMark(c))

-----------------------------------------------------------------------------
(* Properties                                                              *)

Quiet ==
  /\ scanned /\ ~SyncRuns /\ queued = 0 /\ ~timer /\ changes = NoMarks
  /\ \A c \in Clients : op[c] = Idle
  /\ \A h \in Fds : handle[h].pc # "modified"

\* When everything is quiet and nothing is left to push, both sides hold the
\* same files, except where an operation overlapped a Sync or another operation
\* on the path, where a Sync pushed and pulled the path at once, and on the paths
\* adrift: these are the only ways to lose a change, and the next push or pull of
\* a path that is adrift makes up for it.
QuietMeansSame ==
  TypeOK /\ (Quiet => \A p \in Paths \ (raced \cup contended \cup adrift) : Same(p))

\* A pull touches a file only if the remote listed one that is newer by the two
\* seconds the clocks may differ by, whether the copy succeeds or not and unless an
\* operation overlapped the Sync: what is decided in the scan still holds when the
\* copy is made.
PullKeepsNewer ==
  [][\A p \in Paths :
       (sync'.pulls = sync.pulls \ {p} /\ p \in sync.pulls /\ p \notin raced
          /\ Exists(local[p]) /\ local'[p] # local[p])
         => sync.index[p].mtime >= local[p].mtime + 2]_vars

\* A noted change is pushed or cancelled in the end, unless an operation overlapped
\* the Sync or the Sync fails.
NotesGo ==
  \A p \in Paths : (changes[p] # "none") ~> (changes[p] = "none" \/ p \in raced \/ sync = Failed)

\* syncfs_test.go:702: the note of a file that is created and removed is dropped
\* "since file never synced".  So once both sides are known, a file that is not
\* here and is on the remote was removed here or is adrift, and no Sync that
\* nothing overlapped brings a removed one back.
RemovedStaysRemoved ==
  (sync.pc = "scan" /\ scanned) =>
    \A p \in Paths \ (raced \cup contended \cup adrift) : ShouldPull(p) => Exists(local[p])
=============================================================================
