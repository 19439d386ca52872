------------------------------- MODULE Workers ------------------------------
(***************************************************************************)
(* A WASI task and a Go task that share a file system.                     *)
(*                                                                         *)
(* since is history: for each directory object of the WASI guest the names *)
(* that were made or removed there by anyone but the guest through this    *)
(* very object since its listing was taken.  Bounds: Budgets, the pairs of *)
(* how many operations the one and the other may begin at most.            *)
(***************************************************************************)
EXTENDS WasiWorker, GojsWorker

CONSTANTS Budgets, Trees

VARIABLES
  begun,     \* how many operations each has begun
  since

vars == <<sysVars, wasiVars, gojsVars, begun, since>>

Init ==
  /\ SysInit(Trees) /\ WasiInit /\ GojsInit
  /\ begun = <<0, 0>> /\ since = <<{}>>

WasiLocal ==
  \/ SizeOne \/ ListingKept \/ ReadListing \/ Astray
  \/ StatAt \/ OpenAt \/ Make \/ OpenEntry \/ OpenCut \/ SeekEnd
  \/ UnlinkAt \/ RmdirAt \/ RemoveEntry \/ RenameAt \/ LinkAt \/ LinkOver \/ Relink
  \/ ReadAt \/ WriteAt \/ Seek \/ Flush \/ FdStat \/ Allocate \/ SetSize \/ LargeEnough
  \/ ReadDirAt \/ CloseFd \/ Renumber \/ Exit

WasiWoken ==
  \/ Sized \/ ListingRead \/ Made \/ DirectoryOpened \/ Cut \/ FileOpened \/ AtEnd
  \/ EmptyKnown \/ Removed \/ Read \/ Written \/ Resized \/ Exited

WasiRun == WasiLocal \/ WasiWoken \/ HandleMessage \/ Respond
WasiBegin == \E o \in Operations : Begin(o) \/ Refuse(o)

\* The directory object the guest's call lists, or makes or removes a name in.
Lists == IF frame.phase = "listing" THEN frame.cur
         ELSE IF frame.phase \in {"opendir", "emptying"} THEN frame.ent ELSE 0
Owner == IF frame.phase \in {"made", "removed"} THEN frame.par ELSE 0
Handled == mail # {} /\ mail' = {}

SinceNext ==
  LET before(o) == IF o \in DOMAIN since THEN since[o] ELSE {}
      changed(o) == {Last(q) : q \in {q \in Paths : tree'[q] # tree[q]
                                                    /\ Front(q) = objs'[o].path}}
  IN since' = [o \in DOMAIN objs' |->
       IF Handled /\ o = Lists THEN {}
       ELSE IF Handled /\ o = Owner THEN before(o)
       ELSE before(o) \cup changed(o)]

Within(n) == \E b \in Budgets : n[1] <= b[1] /\ n[2] <= b[2]
Begins(w, g) == begun' = <<begun[1] + w, begun[2] + g>> /\ Within(begun')

Next ==
  /\ \/ Begins(1, 0) /\ WasiBegin /\ UNCHANGED gojsVars
     \/ Begins(0, 1) /\ GojsBegin /\ UNCHANGED wasiVars
     \/ UNCHANGED begun /\ WasiRun /\ UNCHANGED gojsVars
     \/ UNCHANGED begun /\ GojsRun /\ UNCHANGED wasiVars
  /\ SinceNext

Spec == Init /\ [][Next]_vars

(***************************************************************************)
(* Properties                                                              *)
(***************************************************************************)

\* The shapes the code relies on: whom a descriptor, a listing, a call names.
TypeOK ==
  /\ SysTypeOK /\ BufferTypeOK
  /\ \A o \in DOMAIN objs : IsDirectory(o) =>
       \A n \in DOMAIN objs[o].entries :
         objs[objs[o].entries[n]].path = Append(objs[o].path, n)
  /\ \A f \in DOMAIN fds : fds[f].kind # "closed" => fds[f].kind = objs[fds[f].ob].kind
  /\ ended # "no" => ~waiting
  /\ DOMAIN since = DOMAIN objs

GuestRests == frame.phase = "idle" /\ ended = "no"

\* Between two operations a directory's listing is the file system's, but for
\* the names changed behind its back: createFile, createDirectory and
\* removeEntry keep the map in step with what the kernel did.
ListingHolds ==
  TypeOK /\ (GuestRests =>
    \A o \in DOMAIN objs : IsDirectory(o) /\ objs[o].known =>
      \A q \in Paths : Front(q) = objs[o].path /\ Last(q) \notin since[o] =>
        IF Last(q) \in DOMAIN objs[o].entries
        THEN Exists(q) /\ KindAt(q) = objs[objs[o].entries[Last(q)]].kind
        ELSE tree[q] = "none")

\* path_touch writes an empty file over whatever is there.  It is called for a
\* file that exists only if the file came behind the listing's back.
NothingEmptied ==
  mail # {} /\ request.m = "path_touch" /\ Exists(request.path)
    => frame.name \in since[frame.par]

\* The shim passes its position to reads and writes and the kernel ignores it
\* (worker.js: "/*, at*/").  The two agree all the same while a File was
\* opened once, never positioned otherwise and never asked for more than an
\* answer holds.
PositionsAgree ==
  GuestRests =>
    \A f \in DOMAIN fds :
      LET file == objs[fds[f].ob] IN
      fds[f].kind = "file" /\ fds[f].plain /\ file.opens = 1 =>
        fds[f].pos = table["wasi"].fds[file.kfd].off

\* A call of the Go program is answered by its callback, refused or not,
\* unless it listed an empty directory or the program is gone.
CallsComeBack ==
  \A call \in Pending :
    call.st = "dropped" /\ call.awaits => exited \/ call.null

\* A descriptor that outlived its file is refused: it never reaches a file
\* another open gave, whatever the order in which calls are served.
StaleFdFails ==
  \A call \in Pending :
    call.st # "sent" /\ call.err = "" /\ call.born # 0 => call.hit = call.born
=============================================================================
