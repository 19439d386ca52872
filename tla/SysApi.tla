------------------------------- MODULE SysApi -------------------------------
(***************************************************************************)
(* The system calls the kernel offers to a worker (web/api/*.go), over an  *)
(* in-memory file system (fs/memfs) bound at the root of the worker's      *)
(* namespace.                                                              *)
(*                                                                         *)
(* A path is a sequence of names and the empty sequence is the root.  The  *)
(* file system is a flat map from paths to nodes, so a child may survive   *)
(* its parent: what has children is a directory, whether it has a node or  *)
(* not.  The contents of files are left out: a read delivers any number of *)
(* bytes up to the count asked for, and a size is any number.              *)
(*                                                                         *)
(* A call is served in one step.  RemoveAll removes name by name in the    *)
(* code, so a call of the other task could come between two of them.       *)
(***************************************************************************)
EXTENDS Naturals, Sequences, FiniteSets, SequencesExt

CONSTANT Paths     \* the paths the programs use, closed under Front

ASSUME PathsAssumption == IsFiniteSet(Paths)

VARIABLES
  tree,      \* memfs: the kind of node at each path
  table      \* syscaller: per worker, the open files and fdCounter

sysVars == <<tree, table>>

Workers == {"wasi", "gojs"}
NodeKinds == {"none", "file", "dir"}

OpenFiles ==
  [born : Nat, kind : {"file", "dir"}, off : Nat, path : Paths \cup {<<>>}]

SysTypeOK ==
  /\ tree \in [Paths -> NodeKinds]
  /\ \A w \in Workers :
       /\ DOMAIN table[w].fds \subseteq Nat
       /\ \A fd \in DOMAIN table[w].fds : table[w].fds[fd] \in OpenFiles
       /\ table[w].fdCounter \in Nat

Under(p) == {q \in Paths : Len(q) > Len(p) /\ IsStrictPrefix(p, q)}
Parent(p) == Front(p)

Exists(p) == p = <<>> \/ tree[p] # "none" \/ \E q \in Under(p) : tree[q] # "none"
IsDir(p) ==
  \/ p = <<>>
  \/ tree[p] = "dir"
  \/ tree[p] = "none" /\ \E q \in Under(p) : tree[q] # "none"
KindAt(p) == IF IsDir(p) THEN "dir" ELSE "file"
IsEmpty(p) == \A q \in Under(p) : tree[q] = "none"

\* The names in a directory, with the kind of each.
Listing(p) ==
  {<<Last(q), KindAt(q)>> : q \in {q \in Under(p) : Len(q) = Len(p) + 1 /\ Exists(q)}}

(***************************************************************************)
(* A call is a record of method, path (and to), descriptor, flags and      *)
(* count.  Its outcome is the value or the error it returns, the file      *)
(* system and the caller's table after it, and the open file it reached.   *)
(***************************************************************************)

Calls ==
  [m : STRING, path : Paths \cup {<<>>}, to : Paths \cup {<<>>}, fd : Nat,
   flags : SUBSET STRING, n : Nat]
NoCall == [m |-> "none", path |-> <<>>, to |-> <<>>, fd |-> 0, flags |-> {}, n |-> 0]

Outcome(v, tr, tb) == [ok |-> TRUE, v |-> v, tree |-> tr, table |-> tb, hit |-> 0]
Refused(err, w) == [ok |-> FALSE, v |-> err, tree |-> tree, table |-> table[w], hit |-> 0]

\* Mutant: descriptors are reused, lowest first.
NextFdLowestFree(tb) ==
  CHOOSE fd \in 4..4 + Cardinality(DOMAIN tb.fds) :
    /\ fd \notin DOMAIN tb.fds
    /\ \A other \in 4..fd - 1 : other \in DOMAIN tb.fds

\* fdCounter++ and its new value.
NextFd(tb) == tb.fdCounter + 1

\* The table after an open of path p with a node of some kind.
WithOpen(tb, p, kind) ==
  LET serial == tb.fdCounter + 1
      file == [born |-> serial, kind |-> kind, off |-> 0, path |-> p]
  IN [fds |-> [fd \in DOMAIN tb.fds \cup {NextFd(tb)} |->
                 IF fd = NextFd(tb) THEN file ELSE tb.fds[fd]],
      fdCounter |-> serial]

\* A new open file for the node at p in the file system tr.
Given(w, p, tr, kind) ==
  [Outcome(NextFd(table[w]), tr, WithOpen(table[w], p, kind))
     EXCEPT !.hit = table[w].fdCounter + 1]

Open(w, p) ==
  IF Exists(p) THEN Given(w, p, tree, KindAt(p)) ELSE Refused("ENOENT", w)

\* memfs Create: only the existence of the parent is asked for.
CanCreate(p) == Exists(Parent(p))
WithFile(p) == [tree EXCEPT ![p] = "file"]

\* fs.OpenFile on a file system without one of its own: open, or create what
\* is absent, and create again to truncate.  Modes are not modelled, so neither
\* is the Chmod that follows, with the Open of the same file after it.
OpenFile(w, p, flags) ==
  LET write == "write" \in flags
      create == write /\ "create" \in flags /\ ~Exists(p)
      renew == write /\ "trunc" \in flags /\ Exists(p)
  IN IF create \/ renew
     THEN IF CanCreate(p)
          THEN Given(w, p, WithFile(p), "file")
          ELSE Refused("ENOENT", w)
     ELSE Open(w, p)

WriteFile(w, p) ==
  IF CanCreate(p) THEN Outcome(TRUE, WithFile(p), table[w]) ELSE Refused("ENOENT", w)

Mkdir(w, p) ==
  IF Exists(p) THEN Refused("EEXIST", w)
  ELSE IF ~Exists(Parent(p)) THEN Refused("ENOENT", w)
  ELSE Outcome(TRUE, [tree EXCEPT ![p] = "dir"], table[w])

RemoveNode(w, p) ==
  IF ~Exists(p) THEN Refused("ENOENT", w)
  ELSE IF IsDir(p) /\ ~IsEmpty(p) THEN Refused("other", w)
  ELSE Outcome(TRUE, [tree EXCEPT ![p] = "none"], table[w])

RemoveAll(w, p) ==
  IF ~Exists(p) THEN Refused("ENOENT", w)
  ELSE Outcome(TRUE, [q \in Paths |-> IF q = p \/ q \in Under(p) THEN "none" ELSE tree[q]],
               table[w])

\* memfs Rename: a file or an empty directory in the way is replaced, and
\* everything under a directory moves with it.
Moved(p, to) ==
  [q \in Paths |->
     LET moves(r) == r = p \/ (tree[p] = "dir" /\ r \in Under(p))
         from == {r \in Paths : moves(r) /\ q = to \o SubSeq(r, Len(p) + 1, Len(r))}
     IN IF from # {} THEN tree[CHOOSE r \in from : TRUE]
        ELSE IF moves(q) THEN "none" ELSE tree[q]]

Rename(w, p, to) ==
  IF p = to THEN Outcome(TRUE, tree, table[w])
  ELSE IF tree[p] = "none" \/ ~(Parent(to) = <<>> \/ tree[Parent(to)] = "dir")
    THEN Refused("ENOENT", w)
  ELSE IF tree[to] = "dir" /\ ~IsEmpty(to) THEN Refused("EEXIST", w)
  ELSE Outcome(TRUE, Moved(p, to), table[w])

ReadDir(w, p) ==
  IF Exists(p) /\ IsDir(p) THEN Outcome(Listing(p), tree, table[w])
  ELSE Refused("ENOENT", w)

Stat(w, p) == IF Exists(p) THEN Outcome(TRUE, tree, table[w]) ELSE Refused("ENOENT", w)

\* Truncate, Chmod, Chown and Chtimes change a node that is there.
OnNode(w, p) ==
  IF p \in Paths /\ tree[p] # "none" THEN Outcome(TRUE, tree, table[w])
  ELSE Refused("ENOENT", w)

\* A call on a descriptor; moved is by how much it advances the offset.
OnFile(w, fd, v, moved) ==
  LET tb == table[w] IN
  IF fd \notin DOMAIN tb.fds THEN Refused("EINVAL", w)
  ELSE IF tb.fds[fd].kind = "dir" THEN Refused("other", w)
  ELSE [Outcome(v, tree, [tb EXCEPT !.fds[fd].off = @ + moved]) EXCEPT !.hit = tb.fds[fd].born]

Close(w, fd) ==
  LET tb == table[w] IN
  IF fd \notin DOMAIN tb.fds THEN Refused("EINVAL", w)
  ELSE [Outcome(TRUE, tree, [tb EXCEPT !.fds = [x \in DOMAIN @ \ {fd} |-> @[x]]])
          EXCEPT !.hit = tb.fds[fd].born]

\* fchmod, fchown and ftruncate go to what now has the path the file was opened
\* by; fstat asks the open file.
OnPathOf(w, fd) ==
  LET fds == table[w].fds IN
  IF fd \notin DOMAIN fds THEN Refused("EINVAL", w)
  ELSE [OnNode(w, fds[fd].path) EXCEPT !.hit = fds[fd].born]

Fstat(w, fd) ==
  LET fds == table[w].fds IN
  IF fd \notin DOMAIN fds THEN Refused("EINVAL", w)
  ELSE [Outcome(TRUE, tree, table[w]) EXCEPT !.hit = fds[fd].born]

\* What a call of worker w may do.  A read or a file's write to the exit file
\* of the task leaves this file system alone; sync is refused by every file.
Outcomes(w, c) ==
  CASE c.m = "open" -> {Open(w, c.path)}
    [] c.m = "openFile" -> {OpenFile(w, c.path, c.flags)}
    [] c.m = "writeFile" -> {WriteFile(w, c.path)}
    [] c.m = "makeDir" -> {Mkdir(w, c.path)}
    [] c.m = "remove" -> {RemoveNode(w, c.path)}
    [] c.m = "removeAll" -> {RemoveAll(w, c.path)}
    [] c.m = "rename" -> {Rename(w, c.path, c.to)}
    [] c.m = "readDir" -> {ReadDir(w, c.path)}
    [] c.m \in {"stat", "lstat"} -> {Stat(w, c.path)}
    [] c.m \in {"truncate", "chmod", "chown", "chtimes"} -> {OnNode(w, c.path)}
    [] c.m \in {"ftruncate", "fchmod", "fchown"} -> {OnPathOf(w, c.fd)}
    [] c.m = "fstat" -> {Fstat(w, c.fd)}
    [] c.m = "read" -> {OnFile(w, c.fd, k, k) : k \in 0..c.n}
    [] c.m = "write" -> {OnFile(w, c.fd, c.n, c.n)}
    [] c.m = "close" -> {Close(w, c.fd)}
    [] c.m = "sync" -> {Refused("other", w)}
    [] c.m = "exit" -> {Outcome(TRUE, tree, table[w])}

\* A worker's call is carried out, as one of its outcomes.
SysCall(w, out) ==
  /\ tree' = out.tree
  /\ table' = [table EXCEPT ![w] = out.table]

\* The runtimes open the standard streams first: one the output and the error
\* stream, the other all three.
SysInit(start) ==
  /\ tree \in start
  /\ table = [w \in Workers |->
       LET n == IF w = "wasi" THEN 2 ELSE 3 IN
       [fds |-> [fd \in 4..3 + n |-> [born |-> fd, kind |-> "file", off |-> 0, path |-> <<>>]],
        fdCounter |-> 3 + n]]
=============================================================================
