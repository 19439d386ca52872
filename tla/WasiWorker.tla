----------------------------- MODULE WasiWorker -----------------------------
(***************************************************************************)
(* The WASI runtime: a guest whose file operations are carried out by the  *)
(* shim (wasi/worker/lib.js) on Inode objects (wasi/fs.ts) whose handles   *)
(* (wasi/wanix.ts) call the kernel through the call buffer; the worker's   *)
(* message handler (wasi/worker/worker.js) makes the calls.                *)
(*                                                                         *)
(* The guest is one thread, so one operation runs at a time: frame is its  *)
(* stack, and phase says where it stands.  A directory keeps the listing   *)
(* it read for a second; whether that second has passed is left open each  *)
(* time the listing is wanted.  Every new listing makes new objects.       *)
(***************************************************************************)
EXTENDS CallBuffer, SysApi

CONSTANTS
  Operations,   \* the operations guests perform
  MaxData       \* the most bytes an answer can hold

ASSUME WasiAssumption ==
  /\ MaxData \in Nat
  /\ Operations \subseteq
       [op : STRING, fd : Nat, path : Paths \cup {<<>>}, to : Paths \cup {<<>>},
        flags : SUBSET STRING, n : Nat]

VARIABLES
  objs,      \* the Inode objects made so far
  fds,       \* WASI.fds from descriptor 3 on: the first is the preopened root
  frame,     \* the operation that runs
  request,   \* the call the guest posted last
  answer,    \* what the handler has for it
  ended      \* "no", or how _start was left: "done", "trap"

guestVars == <<objs, fds, frame, request, answer, ended>>
wasiVars == <<guestVars, bufferVars>>

NewInode(path, kind) ==
  IF kind = "dir"
  THEN [kind |-> "dir", path |-> path, known |-> FALSE, entries |-> <<>>]
  ELSE [kind |-> "file", path |-> path, kfd |-> 0, opens |-> 0]

NoOperation == [op |-> "idle", fd |-> 0, path |-> <<>>, to |-> <<>>, flags |-> {}, n |-> 0]
Idle == [do |-> NoOperation, phase |-> "idle", leg |-> 0, cur |-> 0, rest |-> <<>>,
         par |-> 0, name |-> "", ent |-> 0, moved |-> 0, todo |-> <<>>, then |-> "end"]

WasiInit ==
  /\ BufferInit
  /\ objs = <<NewInode(<<>>, "dir")>>
  /\ fds = <<[kind |-> "dir", ob |-> 1, pos |-> 0, plain |-> TRUE]>>
  /\ frame = Idle /\ request = NoCall /\ answer = 0
  /\ ended = "no"

op == frame.do.op
flags == frame.do.flags
Opened == fds[frame.do.fd]
IsDirectory(o) == objs[o].kind = "dir"
In(phase) == ended = "no" /\ ~waiting /\ frame.phase = phase
WokenIn(phase) == ended = "no" /\ Wake /\ frame.phase = phase

\* The guest goes on without a call, after a call, or makes one.
Continue(f, os, ds) ==
  /\ frame' = f /\ objs' = os /\ fds' = ds
  /\ UNCHANGED <<request, answer, ended, sysVars>>
Locally(f) == Continue(f, objs, fds) /\ UNCHANGED bufferVars
Ask(call, phase) ==
  /\ Call
  /\ request' = call
  /\ frame' = [frame EXCEPT !.phase = phase]
  /\ UNCHANGED <<objs, fds, answer, ended, sysVars>>
AskPath(m, path, phase) == Ask([NoCall EXCEPT !.m = m, !.path = path], phase)
AskFile(m, phase) ==
  Ask([NoCall EXCEPT !.m = m, !.fd = objs[Opened.ob].kfd, !.n = frame.do.n], phase)

\* An exception that is no WASIProcExit leaves start(), and nobody calls exit.
Trap ==
  /\ ended' = "trap"
  /\ UNCHANGED <<objs, fds, frame, request, answer, bufferVars, sysVars>>

Then(f, phase) == IF phase = "end" THEN Idle ELSE [f EXCEPT !.phase = phase]

\* stat() of one inode after the other: that of a file asks the kernel.
Sizes(f, files, phase) ==
  IF files = <<>> THEN Then(f, phase)
  ELSE [f EXCEPT !.phase = "sizes", !.todo = files, !.then = phase]
FileOf(o) == IF o # 0 /\ ~IsDirectory(o) THEN <<o>> ELSE <<>>

SizeOne == In("sizes") /\ AskPath("path_size", objs[Head(frame.todo)].path, "sized")
Sized ==
  /\ WokenIn("sized")
  /\ Continue(Sizes(frame, Tail(frame.todo), frame.then), objs, fds)

(***************************************************************************)
(* Walking a path: every directory on the way is synchronised, then asked  *)
(* for the next name.                                                      *)
(***************************************************************************)

Walk(f, path, leg) ==
  LET base == fds[f.do.fd].ob IN
  [f EXCEPT !.phase = IF path = <<>> THEN "at" ELSE "walk", !.leg = leg,
            !.cur = base, !.rest = path, !.par = 0, !.ent = base]

\* Children of a directory just listed, each a new object.
Listed(os, o, listing) ==
  LET s == SetToSeq(listing)
      child(i) == NewInode(Append(os[o].path, s[i][1]), s[i][2])
      named(n) == CHOOSE i \in 1..Len(s) : s[i][1] = n
  IN [os EXCEPT ![o].known = TRUE,
                ![o].entries = [n \in {e[1] : e \in listing} |-> Len(os) + named(n)]]
     \o [i \in 1..Len(s) |-> child(i)]

Found(os, f) ==
  LET entries == os[f.cur].entries
      n == Head(f.rest)
      child == IF n \in DOMAIN entries THEN entries[n] ELSE 0
  IN IF Len(f.rest) = 1
     THEN [f EXCEPT !.phase = "at", !.par = f.cur, !.name = n, !.ent = child]
     ELSE IF child # 0 /\ os[child].kind = "dir"
     THEN [f EXCEPT !.phase = "walk", !.cur = child, !.rest = Tail(@)]
     ELSE [f EXCEPT !.phase = "astray", !.ent = child]

ListingKept == In("walk") /\ objs[frame.cur].known /\ Locally(Found(objs, frame))
ReadListing == In("walk") /\ AskPath("path_readdir", objs[frame.cur].path, "listing")
ListingRead ==
  LET os == Listed(objs, frame.cur, answer) IN
  WokenIn("listing") /\ Continue(Found(os, frame), os, fds)

\* The path leads nowhere.  What a rename has unlinked is then linked back,
\* and must be.
Astray ==
  /\ In("astray")
  /\ \/ /\ op = "rename" /\ frame.leg = 3
        /\ Trap
     \/ /\ op = "rename" /\ frame.leg = 2
        /\ Locally(Walk(frame, frame.do.path, 3))
     \/ /\ op = "open" /\ frame.leg = 1 /\ "creat" \in flags /\ frame.ent = 0
        /\ Locally(Walk(frame, frame.do.path, 2))
     \/ /\ ~(op = "rename" /\ frame.leg > 1)
        /\ ~(op = "open" /\ frame.leg = 1 /\ "creat" \in flags /\ frame.ent = 0)
        /\ Locally(Idle)

(***************************************************************************)
(* path_filestat_get and path_open; path_create_directory is an open with  *)
(* creat and directory whose descriptor is dropped ("nofd").               *)
(***************************************************************************)

StatAt == In("at") /\ op = "stat" /\ Locally(Sizes(frame, FileOf(frame.ent), "end"))

\* The second walk, of create_entry_for_path, may find what the first did not.
OpenAt ==
  /\ In("at") /\ op = "open"
  /\ \/ /\ frame.ent = 0 /\ frame.leg = 1 /\ "creat" \in flags
        /\ Locally(Walk(frame, frame.do.path, 2))
     \/ /\ frame.ent = 0 /\ frame.leg = 1 /\ "creat" \notin flags
        /\ Locally(Idle)
     \/ /\ frame.ent # 0 /\ (frame.leg = 2 \/ "excl" \in flags)
        /\ Locally(Idle)
     \/ /\ frame.ent # 0 /\ frame.leg = 1 /\ "excl" \notin flags
        /\ Locally(Then(frame, "entry"))

ChildPath == Append(objs[frame.par].path, frame.name)

Make ==
  /\ In("at") /\ op = "open" /\ frame.leg = 2 /\ frame.ent = 0
  /\ AskPath(IF "directory" \in flags THEN "path_mkdir" ELSE "path_touch", ChildPath, "made")

\* Mutant: the new entry is not put into the listing.
MadeUnlisted ==
  LET kind == IF "directory" \in flags THEN "dir" ELSE "file" IN
  /\ WokenIn("made")
  /\ Continue([frame EXCEPT !.phase = "entry", !.ent = Len(objs) + 1],
              Append(objs, NewInode(ChildPath, kind)), fds)

Made ==
  LET kind == IF "directory" \in flags THEN "dir" ELSE "file"
      new == Len(objs) + 1
      old == objs[frame.par].entries
      entries == [n \in DOMAIN old \cup {frame.name} |-> IF n = frame.name THEN new ELSE old[n]]
  IN /\ WokenIn("made")
     /\ Continue([frame EXCEPT !.phase = "entry", !.ent = new],
                 Append([objs EXCEPT ![frame.par].entries = entries],
                        NewInode(ChildPath, kind)), fds)

Push(o, pos) ==
  IF "nofd" \in flags THEN fds
  ELSE Append(fds, [kind |-> objs[o].kind, ob |-> o, pos |-> pos,
                    plain |-> "append" \notin flags])

\* path_open of the entry: a directory is synchronised, a file truncated if
\* asked to and opened; append only moves the shim's own position.
OpenEntry ==
  /\ In("entry")
  /\ \/ /\ IsDirectory(frame.ent) /\ objs[frame.ent].known
        /\ Continue(Idle, objs, Push(frame.ent, 0)) /\ UNCHANGED bufferVars
     \/ /\ IsDirectory(frame.ent)
        /\ AskPath("path_readdir", objs[frame.ent].path, "opendir")
     \/ /\ ~IsDirectory(frame.ent) /\ "directory" \in flags
        /\ Locally(Sizes(frame, <<frame.ent>>, "end"))
     \/ /\ ~IsDirectory(frame.ent) /\ flags \cap {"directory", "trunc"} = {}
        /\ AskPath("path_open", objs[frame.ent].path, "opening")
     \/ /\ ~IsDirectory(frame.ent) /\ "directory" \notin flags /\ "trunc" \in flags
        /\ AskPath("path_truncate", objs[frame.ent].path, "cut")
DirectoryOpened ==
  /\ WokenIn("opendir")
  /\ Continue(Idle, Listed(objs, frame.ent, answer), Push(frame.ent, 0))
Cut == WokenIn("cut") /\ Continue([frame EXCEPT !.phase = "cutopen"], objs, fds)
OpenCut == In("cutopen") /\ AskPath("path_open", objs[frame.ent].path, "opening")
FileOpened ==
  LET os == [objs EXCEPT ![frame.ent].kfd = answer, ![frame.ent].opens = @ + 1] IN
  /\ WokenIn("opening")
  /\ IF "append" \in flags
     THEN Continue([frame EXCEPT !.phase = "append"], os, fds)
     ELSE Continue(Idle, os, Push(frame.ent, 0))
SeekEnd == In("append") /\ AskPath("path_size", objs[frame.ent].path, "atend")
AtEnd == WokenIn("atend") /\ Continue(Idle, objs, Push(frame.ent, 1))

(***************************************************************************)
(* path_unlink_file, path_remove_directory, path_rename, path_link.        *)
(***************************************************************************)

UnlinkAt ==
  /\ In("at") /\ op = "unlink"
  /\ Locally(IF frame.ent = 0 \/ IsDirectory(frame.ent) THEN Idle
             ELSE Sizes(frame, <<frame.ent>>, "remove"))

EmptyThen(os) == IF os[frame.ent].entries = <<>> THEN Then(frame, "remove") ELSE Idle
RmdirAt ==
  /\ In("at") /\ op = "rmdir"
  /\ \/ /\ FileOf(frame.ent) # <<>> \/ frame.ent = 0
        /\ Locally(Idle)
     \/ /\ frame.ent # 0 /\ IsDirectory(frame.ent) /\ objs[frame.ent].known
        /\ Locally(EmptyThen(objs))
     \/ /\ frame.ent # 0 /\ IsDirectory(frame.ent)
        /\ AskPath("path_readdir", objs[frame.ent].path, "emptying")
EmptyKnown ==
  LET os == Listed(objs, frame.ent, answer) IN
  WokenIn("emptying") /\ Continue(EmptyThen(os), os, fds)

RemoveEntry == In("remove") /\ AskPath("path_remove", ChildPath, "removed")

\* Mutant: the listing keeps the name.
RemovedListed ==
  /\ WokenIn("removed")
  /\ Continue(IF op = "rename"
              THEN Walk([frame EXCEPT !.moved = frame.ent], frame.do.to, 2) ELSE Idle,
              objs, fds)

Removed ==
  LET rest == [n \in DOMAIN objs[frame.par].entries \ {frame.name} |->
                 objs[frame.par].entries[n]]
  IN /\ WokenIn("removed")
     /\ Continue(IF op = "rename"
                 THEN Walk([frame EXCEPT !.moved = frame.ent], frame.do.to, 2) ELSE Idle,
                 [objs EXCEPT ![frame.par].entries = rest], fds)

RenameAt ==
  /\ In("at") /\ op = "rename" /\ frame.leg = 1
  /\ Locally(IF frame.ent = 0 THEN Idle ELSE Then(frame, "remove"))

LinkAt ==
  /\ In("at") /\ op = "link" /\ frame.leg = 1
  /\ Locally(IF frame.ent = 0 THEN Idle
             ELSE Walk([frame EXCEPT !.moved = frame.ent], frame.do.to, 2))

\* path_link stats the source and what is in its place, then makes a link,
\* which the handle does not do.  todo: what is stated; fails: the result is
\* an error.
LinkChecks(source, target, dirToo) ==
  LET both == FileOf(source) \o FileOf(target)
      own == IF dirToo THEN <<>> ELSE FileOf(source)
      clash ==
        \/ IsDirectory(source) # IsDirectory(target)
        \/ IsDirectory(source) /\ (~dirToo \/ objs[target].entries # <<>>)
  IN IF target = 0
     THEN [todo |-> own, fails |-> ~dirToo /\ IsDirectory(source)]
     ELSE [todo |-> IF clash THEN both
                    ELSE IF IsDirectory(source) THEN <<>> ELSE both \o both \o own,
           fails |-> clash]

LinkOver ==
  LET check == LinkChecks(frame.moved, frame.ent, op = "rename") IN
  /\ In("at") /\ op \in {"rename", "link"} /\ frame.leg > 1
  /\ \/ \* contents of a directory never listed is undefined
        /\ op = "rename" /\ frame.ent # 0
        /\ IsDirectory(frame.moved) /\ IsDirectory(frame.ent) /\ ~objs[frame.ent].known
        /\ Trap
     \/ /\ ~(/\ op = "rename" /\ frame.ent # 0 /\ IsDirectory(frame.moved)
             /\ IsDirectory(frame.ent) /\ ~objs[frame.ent].known)
        /\ Locally(Sizes(frame, check.todo,
                         IF check.fails /\ op = "rename" THEN "relink" ELSE "end"))
Relink ==
  /\ In("relink")
  /\ \/ frame.leg = 2 /\ Locally(Walk(frame, frame.do.path, 3))
     \/ frame.leg = 3 /\ Trap

(***************************************************************************)
(* Operations on a descriptor.                                             *)
(***************************************************************************)

SetPos(f, pos, plain) == [fds EXCEPT ![f].pos = pos, ![f].plain = plain]

ReadAt == In("fd") /\ op = "read" /\ AskFile("fd_read", "reading")

\* Mutant: the position moves by what was asked for.
ReadAsked ==
  /\ WokenIn("reading")
  /\ Continue(Idle, objs, SetPos(frame.do.fd, Opened.pos + frame.do.n,
                                 Opened.plain /\ frame.do.n <= MaxData))

Read ==
  /\ WokenIn("reading")
  /\ Continue(Idle, objs, SetPos(frame.do.fd, Opened.pos + answer,
                                 Opened.plain /\ frame.do.n <= MaxData))
WriteAt == In("fd") /\ op = "write" /\ AskFile("fd_write", "writing")
Written ==
  /\ WokenIn("writing")
  /\ Continue(Idle, objs, SetPos(frame.do.fd, Opened.pos + answer, Opened.plain))
Seek ==
  /\ In("fd") /\ op = "seek"
  /\ Continue(Idle, objs, SetPos(frame.do.fd, 0, FALSE)) /\ UNCHANGED bufferVars
Flush == In("fd") /\ op = "sync" /\ AskFile("fd_flush", "flushed")
FdStat == In("fd") /\ op = "fstat" /\ Locally(Sizes(frame, <<Opened.ob>>, "end"))

\* fd_allocate asks for the size first and cuts or extends what is not larger;
\* fd_filestat_set_size does not ask.
Allocate == In("fd") /\ op = "allocate" /\ Locally(Sizes(frame, <<Opened.ob>>, "extend"))
SetSize ==
  /\ (In("extend") \/ In("fd")) /\ op \in {"allocate", "setsize"}
  /\ op = "allocate" => In("extend")
  /\ AskPath("path_truncate", objs[Opened.ob].path, "resized")
LargeEnough == In("extend") /\ Locally(Idle)
Resized == WokenIn("resized") /\ Continue(Idle, objs, fds)

\* fd_readdir stats what the listing holds; that of a root never walked is
\* undefined.
ReadDirAt ==
  /\ In("fd") /\ op = "readdir"
  /\ \/ /\ objs[Opened.ob].known
        /\ Locally(Sizes(frame,
             SelectSeq(SetToSeq({objs[Opened.ob].entries[n] :
                                   n \in DOMAIN objs[Opened.ob].entries}),
                       LAMBDA o : ~IsDirectory(o)), "end"))
     \/ ~objs[Opened.ob].known /\ Trap

\* The default fd_close: the kernel is not told.
CloseFd ==
  /\ In("fd") /\ op = "close"
  /\ Continue(Idle, objs, [fds EXCEPT ![frame.do.fd].kind = "closed"])
  /\ UNCHANGED bufferVars
Renumber ==
  /\ In("fd") /\ op = "renumber"
  /\ Continue(Idle, objs, [fds EXCEPT ![frame.do.n] = Opened,
                                      ![frame.do.fd].kind = "closed"])
  /\ UNCHANGED bufferVars

\* proc_exit, and the exit call after start() has returned.
Exit == In("fd") /\ op = "exit" /\ Ask([NoCall EXCEPT !.m = "exit"], "exiting")
Exited ==
  /\ WokenIn("exiting") /\ ended' = "done"
  /\ UNCHANGED <<objs, fds, frame, request, answer, sysVars>>

(***************************************************************************)
(* The worker that owns the connection, and the two halves together.       *)
(***************************************************************************)

Handler ==
  [path_open |-> "open", path_truncate |-> "truncate", path_size |-> "stat",
   path_readdir |-> "readDir", path_remove |-> "remove", path_mkdir |-> "makeDir",
   path_touch |-> "writeFile", fd_flush |-> "sync", fd_read |-> "read",
   fd_write |-> "write", exit |-> "exit"]

HandleMessage ==
  \E t \in mail : \E out \in Outcomes("wasi", [request EXCEPT !.m = Handler[@]]) :
    /\ Serve(t, out.ok)
    /\ SysCall("wasi", out)
    /\ answer' = IF out.ok THEN out.v ELSE answer
    /\ UNCHANGED <<objs, fds, frame, request, ended>>

\* Bytes that do not fit are cut off; nothing else is measured, and a listing
\* may be too long.
Respond ==
  \E t \in Tags :
    \/ /\ StoreAnswer(t)
       /\ answer' = IF request.m = "fd_read" /\ answer > MaxData THEN MaxData ELSE answer
       /\ UNCHANGED <<objs, fds, frame, request, ended, sysVars>>
    \/ request.m = "path_readdir" /\ AnswerThrows(t) /\ UNCHANGED <<guestVars, sysVars>>
    \/ RaiseFlag(t) /\ UNCHANGED <<guestVars, sysVars>>

PathOperations == {"stat", "open", "unlink", "rmdir", "rename", "link"}

\* What no class of the project implements and Fd refuses with NOTSUP.
NotSupported == {"pread", "pwrite", "fdstat_set_flags", "filestat_set_times"}

\* The class of a descriptor, "closed" if there is none.
Class(f) == IF f \in DOMAIN fds THEN fds[f].kind ELSE "closed"

\* A directory refuses what files do, a file leaves the rest to Fd.
Implemented(o) ==
  CASE o.op \in PathOperations \cup {"readdir"} -> Class(o.fd) = "dir"
    [] o.op = "renumber" -> Class(o.fd) # "closed" /\ Class(o.n) # "closed"
    [] o.op = "close" -> Class(o.fd) # "closed"
    [] o.op = "exit" -> TRUE
    [] o.op \in NotSupported -> FALSE
    [] OTHER -> Class(o.fd) = "file"

\* The guest begins an operation.
Begin(o) ==
  /\ In("idle") /\ Implemented(o)
  /\ Locally(IF o.op \in PathOperations THEN Walk([Idle EXCEPT !.do = o], o.path, 1)
             ELSE [Idle EXCEPT !.do = o, !.phase = "fd"])

\* Without the descriptor (BADF) or the operation nothing is done; a directory
\* answers fstat from its object, also without a call.
Refuse(o) == In("idle") /\ ~Implemented(o) /\ Locally(Idle)
=============================================================================
