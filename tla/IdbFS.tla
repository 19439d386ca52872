------------------------------- MODULE IdbFS -------------------------------
(***************************************************************************)
(* The file system kept in an IndexedDB database by web/idbfs/idbfs.js.    *)
(*                                                                         *)
(* The database has two stores: rows (the "metadata" store, small contents *)
(* inline) and blobs (the "data" store, contents of Threshold blocks and   *)
(* more).  In memory there are a cache of metadata objects, a cache of     *)
(* blobs and the open files.  Objects are shared by reference: the cache,  *)
(* the open files and the operations in progress may all hold the same     *)
(* metadata object, and the same byte array, so both live in a heap (metas *)
(* and bufs) and are named by their index, 0 being null.                   *)
(*                                                                         *)
(* An operation runs from one await to the next without interruption: turn *)
(* is the client whose microtasks run.  It gives the turn up when it waits *)
(* for the database, which serves transactions in the order in which they  *)
(* were created (queue).  A transaction is atomic, a crash loses those not *)
(* served.  Every action of a client c starts with At(c, label): the label *)
(* names the place in the source the client has come to.                   *)
(*                                                                         *)
(* A path is the sequence of its names, so "a/b" and "/a/b" are the same   *)
(* path and the root "." is the empty one.  Modes and times are one value, *)
(* attr.  Contents are sequences of blocks, a symlink's content is its     *)
(* target.                                                                 *)
(***************************************************************************)
EXTENDS Naturals, Sequences, FiniteSets, TLC

CONSTANTS Clients,     \* callers that may have an operation in progress
          Handles,     \* open files at a time
          Paths,       \* the paths in use, closed under Dirname
          Calls,       \* the calls the clients make
          StartRows,   \* the metadata store at the start
          StartBlobs,  \* the data store at the start
          StartFile,   \* a file that has just been opened, with its path
          Zero,        \* the block a resized array is filled with
          Threshold,   \* INLINE_DATA_THRESHOLD, in blocks
          MaxOps,      \* bound: calls
          MaxFaults,   \* bound: crashes, failed transactions and evictions
          MetaIds, BufIds, \* bounds: the heap
          NoClient

ASSUME IdbBounds == /\ Threshold \in Nat \ {0}
                    /\ NoClient \notin Clients
                    /\ 0 \notin MetaIds \cup BufIds

VARIABLES rows, blobs,     \* the database
          queue,           \* transactions created and not yet served
          cache, dcache,   \* metadataCache and dataCache: path -> object
          metas, bufs,     \* the heap: metadata objects and byte arrays
          files,           \* the open files
          turn, pc, loc,   \* who runs, where each client is, its locals
          ops, faults,
          want, hwant, taint, odd \* history: see "What the callers expect"

db == <<rows, blobs>>
caches == <<cache, dcache>>
heap == <<metas, bufs>>
proc == <<turn, pc, loc, queue>>
bounds == <<ops, faults>>
history == <<want, hwant, taint, odd>>
vars == <<db, caches, heap, files, proc, bounds, history>>

-----------------------------------------------------------------------------
(* Paths, rows and objects *)

Dirname(p) == IF p = <<>> THEN <<>> ELSE SubSeq(p, 1, Len(p) - 1)

\* path === root || path.startsWith(root + '/')
Within(root) == {p \in Paths : Len(p) >= Len(root) /\ SubSeq(p, 1, Len(root)) = root}

\* newPrefix + path.slice(prefix.length)
Moved(p, from, to) == to \o SubSeq(p, Len(from) + 1, Len(p))

Absent == [type |-> "none"]
NoBlob == <<"no blob">>
Free == [st |-> "free"]

\* The structured clone that store.put makes of metadata object m.
RowOf(m) == [type |-> m.type, ext |-> m.ext, size |-> m.size, attr |-> m.attr,
             data |-> IF m.data = 0 THEN <<>> ELSE bufs[m.data]]

\* The object a row is read into; b is its new array when the row has one.
HasArray(row) == row.type # "dir" /\ ~row.ext
MetaOf(p, row, b) == [path |-> p, type |-> row.type, ext |-> row.ext,
                      size |-> row.size, attr |-> row.attr, data |-> b]

Least(S) == CHOOSE i \in S : \A j \in S : i <= j

LiveMetas == {cache[p] : p \in Paths}
             \cup {files[h].meta : h \in {g \in Handles : files[g] # Free}}
             \cup UNION {{loc[c].m, loc[c].old, loc[c].res} : c \in Clients}
             \cup UNION {{loc[c].got[p] : p \in DOMAIN loc[c].got} : c \in Clients}
LiveBufs == {dcache[p] : p \in Paths}
            \cup {files[h].buf : h \in {g \in Handles : files[g] # Free}}
            \cup {loc[c].b : c \in Clients}
            \cup {metas[i].data : i \in LiveMetas \cap MetaIds}

FreshMeta == Least(MetaIds \ LiveMetas)
FreshBuf == Least(BufIds \ LiveBufs)

\* An injection of S into the free objects, for reads of many rows at once.
Spread(S, ids) == CHOOSE f \in [S -> ids] : \A p, q \in S : p # q => f[p] # f[q]

-----------------------------------------------------------------------------
(* The event loop *)

NoCall == [op |-> "none", p |-> <<>>, q |-> <<>>, x |-> 0, h |-> 0]
Rest == [call |-> NoCall, m |-> 0, b |-> 0, old |-> 0, res |-> 0, t |-> <<>>,
         seen |-> {}, tree |-> <<>>, got |-> <<>>, k |-> "end", ret |-> "end",
         back |-> "end", ok |-> TRUE, gone |-> <<>>]

At(c, label) == turn = c /\ pc[c] = label

Goto(c, label, l) ==
    /\ pc' = [pc EXCEPT ![c] = label]
    /\ loc' = [loc EXCEPT ![c] = l]
    /\ UNCHANGED <<turn, queue>>

\* await of a promise that a database request will settle
Await(c, label, l, request) ==
    /\ pc' = [pc EXCEPT ![c] = label]
    /\ loc' = [loc EXCEPT ![c] = l]
    /\ turn' = NoClient
    /\ queue' = Append(queue, [c |-> c] @@ request)

Throw(c, l) == Goto(c, "end", [l EXCEPT !.ok = FALSE])

\* await this._getMetadata(p)
Lookup(c, p, label, l) ==
    IF cache[p] # 0
    THEN Goto(c, label, [l EXCEPT !.res = cache[p]])
    ELSE Await(c, label, l, [do |-> "get", p |-> p])

\* await this._getDataBlob(p)
LookupBlob(c, p, label, l) ==
    IF dcache[p] # 0
    THEN Goto(c, label, [l EXCEPT !.b = dcache[p]])
    ELSE Await(c, label, l, [do |-> "blob", p |-> p])

\* await this._ensureParentExists(p), then continue at label
EnsureParentExists(c, p, label, l) ==
    IF Dirname(p) = <<>>
    THEN Goto(c, label, l)
    ELSE Lookup(c, Dirname(p), "parent", [l EXCEPT !.k = label])

ParentLooked(c) ==
    /\ At(c, "parent")
    /\ LET l == loc[c] IN
       IF l.res # 0 /\ metas[l.res].type = "dir" THEN Goto(c, l.k, [l EXCEPT !.res = 0]) ELSE Throw(c, l)
    /\ UNCHANGED <<db, caches, heap, files, bounds, history>>

\* The keys invalidateByParent(d) deletes.
Siblings(d) == {p \in Paths : Dirname(p) = d}
Without(map, S) == [p \in Paths |-> IF p \in S THEN 0 ELSE map[p]]

-----------------------------------------------------------------------------
(* Transactions as the database serves them: the request's effect on the   *)
(* stores, then its onsuccess or oncomplete callback, which hands the turn *)
(* to the client that waits.                                               *)

Serving(kind) == turn = NoClient /\ queue # <<>> /\ Head(queue).do = kind
Resume(l) ==
    LET c == Head(queue).c IN
    /\ queue' = Tail(queue)
    /\ turn' = c
    /\ loc' = [loc EXCEPT ![c] = l]
    /\ UNCHANGED pc

ServeGet ==
    /\ Serving("get")
    /\ LET r == Head(queue)
           row == rows[r.p]
           i == FreshMeta
           b == IF HasArray(row) THEN FreshBuf ELSE 0 IN
       IF row = Absent
       THEN Resume([loc[r.c] EXCEPT !.res = 0]) /\ UNCHANGED <<caches, heap>>
       ELSE /\ Resume([loc[r.c] EXCEPT !.res = i])
            /\ metas' = [metas EXCEPT ![i] = MetaOf(r.p, row, b)]
            /\ bufs' = IF b = 0 THEN bufs ELSE [bufs EXCEPT ![b] = row.data]
            /\ cache' = [cache EXCEPT ![r.p] = i]
            /\ UNCHANGED dcache
    /\ UNCHANGED <<db, files, bounds, history>>

\* A missing blob is read as an empty array and not cached.
ServeBlob ==
    /\ Serving("blob")
    /\ LET r == Head(queue) b == FreshBuf there == blobs[r.p] # NoBlob IN
       /\ Resume([loc[r.c] EXCEPT !.b = b])
       /\ bufs' = [bufs EXCEPT ![b] = IF there THEN blobs[r.p] ELSE <<>>]
       /\ dcache' = IF there THEN [dcache EXCEPT ![r.p] = b] ELSE dcache
    /\ UNCHANGED <<db, cache, metas, files, bounds, history>>

\* _hasChildren: the root is its own parent, so it has a child.
ServeChildren ==
    /\ Serving("children")
    /\ LET r == Head(queue) IN
       Resume([loc[r.c] EXCEPT
                 !.res = IF \E p \in Siblings(r.p) : rows[p] # Absent THEN 1 ELSE 0])
    /\ UNCHANGED <<db, caches, heap, files, bounds, history>>

\* The transaction of _putEntry.
ServePut ==
    /\ Serving("put")
    /\ LET r == Head(queue) IN
       /\ rows' = [rows EXCEPT ![r.p] = r.row]
       /\ blobs' = [blobs EXCEPT ![r.p] = CASE r.blob = "set" -> r.data
                                            [] r.blob = "delete" -> NoBlob
                                            [] OTHER -> @]
       /\ cache' = [cache EXCEPT ![r.p] = r.m]
       /\ dcache' = [dcache EXCEPT ![r.p] = CASE r.blob = "set" -> r.b
                                              [] r.blob = "delete" -> 0
                                              [] OTHER -> @]
       /\ Resume(loc[r.c])
    /\ UNCHANGED <<heap, files, bounds, history>>

\* The transaction of _deleteEntry.
ServeDelete ==
    /\ Serving("delete")
    /\ LET r == Head(queue) IN
       /\ rows' = [rows EXCEPT ![r.p] = Absent]
       /\ blobs' = IF r.ext THEN [blobs EXCEPT ![r.p] = NoBlob] ELSE blobs
       /\ cache' = [cache EXCEPT ![r.p] = 0]
       /\ dcache' = IF r.ext THEN [dcache EXCEPT ![r.p] = 0] ELSE dcache
       /\ Resume(loc[r.c])
    /\ UNCHANGED <<heap, files, bounds, history>>

\* _getAllDescendants: the entries are new objects nobody else holds.
ServeTree ==
    /\ Serving("tree")
    /\ LET r == Head(queue)
           S == {p \in Within(r.p) : rows[p] # Absent} IN
       Resume([loc[r.c] EXCEPT !.tree = [p \in S |-> rows[p]]])
    /\ UNCHANGED <<db, caches, heap, files, bounds, history>>

\* _batchUpdateMetadata: the entries under their new paths become cached.
ServeBatchPut ==
    /\ Serving("batchput")
    /\ LET r == Head(queue)
           to(p) == Moved(p, r.p, r.q)
           S == DOMAIN r.tree
           from(q) == CHOOSE p \in S : to(p) = q
           new == {to(p) : p \in S}
           id == Spread(S, MetaIds \ LiveMetas)
           arr == {p \in S : HasArray(r.tree[p])}
           b == Spread(arr, BufIds \ LiveBufs) IN
       /\ rows' = [q \in Paths |-> IF q \in new THEN r.tree[from(q)] ELSE rows[q]]
       /\ cache' = [q \in Paths |-> IF q \in new THEN id[from(q)] ELSE cache[q]]
       /\ metas' = [i \in MetaIds |->
                      IF \E p \in S : id[p] = i
                      THEN LET p == CHOOSE p \in S : id[p] = i IN
                           MetaOf(to(p), r.tree[p], IF p \in arr THEN b[p] ELSE 0)
                      ELSE metas[i]]
       /\ bufs' = [i \in BufIds |->
                     IF \E p \in arr : b[p] = i
                     THEN r.tree[CHOOSE p \in arr : b[p] = i].data ELSE bufs[i]]
       /\ Resume(loc[r.c])
    /\ UNCHANGED <<blobs, dcache, files, bounds, history>>

\* The lookups of _batchDelete that missed the cache.
ServeGetAll ==
    /\ Serving("getall")
    /\ LET r == Head(queue)
           S == {p \in r.set : rows[p] # Absent}
           id == Spread(S, MetaIds \ LiveMetas)
           arr == {p \in S : HasArray(rows[p])}
           b == Spread(arr, BufIds \ LiveBufs) IN
       /\ cache' = [p \in Paths |-> IF p \in S THEN id[p] ELSE cache[p]]
       /\ metas' = [i \in MetaIds |->
                      IF \E p \in S : id[p] = i
                      THEN LET p == CHOOSE p \in S : id[p] = i IN
                           MetaOf(p, rows[p], IF p \in arr THEN b[p] ELSE 0)
                      ELSE metas[i]]
       /\ bufs' = [i \in BufIds |->
                     IF \E p \in arr : b[p] = i
                     THEN rows[CHOOSE p \in arr : b[p] = i].data ELSE bufs[i]]
       /\ Resume([loc[r.c] EXCEPT !.got = [p \in S |-> id[p]] @@ @])
    /\ UNCHANGED <<db, dcache, files, bounds, history>>

\* Mutant: _batchDelete leaves the metadata of the paths in the cache.
ServeBatchDeleteStillCached ==
    /\ Serving("batchdelete")
    /\ LET r == Head(queue) IN
       /\ rows' = [p \in Paths |-> IF p \in r.set THEN Absent ELSE rows[p]]
       /\ blobs' = [p \in Paths |-> IF p \in r.ext THEN NoBlob ELSE blobs[p]]
       /\ dcache' = Without(dcache, r.set)
       /\ Resume(loc[r.c])
    /\ UNCHANGED <<cache, heap, files, bounds, history>>

\* The transaction of _batchDelete.
ServeBatchDelete ==
    /\ Serving("batchdelete")
    /\ LET r == Head(queue) IN
       /\ rows' = [p \in Paths |-> IF p \in r.set THEN Absent ELSE rows[p]]
       /\ blobs' = [p \in Paths |-> IF p \in r.ext THEN NoBlob ELSE blobs[p]]
       /\ cache' = Without(cache, r.set)
       /\ dcache' = Without(dcache, r.set)
       /\ Resume(loc[r.c])
    /\ UNCHANGED <<heap, files, bounds, history>>

\* rename's own transaction on the data store: blobs it no longer finds
\* under the old path are left out.
ServeMoveBlobs ==
    /\ Serving("moveblobs")
    /\ LET r == Head(queue)
           S == {p \in r.set : blobs[p] # NoBlob} IN
       /\ blobs' = [q \in Paths |->
                      IF \E p \in S : Moved(p, r.p, r.q) = q
                      THEN blobs[CHOOSE p \in S : Moved(p, r.p, r.q) = q]
                      ELSE IF q \in S THEN NoBlob ELSE blobs[q]]
       /\ dcache' = Without(dcache, DOMAIN loc[r.c].tree)
       /\ Resume(loc[r.c])
    /\ UNCHANGED <<rows, cache, heap, files, bounds, history>>

\* transaction.onerror: nothing was written, the promise is rejected.
ServeError ==
    /\ turn = NoClient /\ queue # <<>>
    /\ Head(queue).do \notin {"get", "blob", "children", "tree", "getall"}
    /\ faults < MaxFaults
    /\ faults' = faults + 1
    /\ LET c == Head(queue).c IN
       /\ queue' = Tail(queue)
       /\ turn' = c
       /\ pc' = [pc EXCEPT ![c] = "end"]
       /\ loc' = [loc EXCEPT ![c].ok = FALSE]
       /\ odd' = odd \cup {Head(queue).p}
    /\ UNCHANGED <<db, caches, heap, files, ops, want, hwant, taint>>

Database == \/ ServeGet \/ ServeBlob \/ ServeChildren \/ ServePut \/ ServeDelete
            \/ ServeTree \/ ServeBatchPut \/ ServeGetAll \/ ServeBatchDelete
            \/ ServeMoveBlobs \/ ServeError

-----------------------------------------------------------------------------
(* _putEntry and _deleteEntry *)

\* _putEntry(m, b) up to its lookup of the old entry, then continue at ret.
PutEntry(c, p, m, b, ret, l) == Lookup(c, p, "put", [l EXCEPT !.m = m, !.b = b, !.ret = ret])

\* The old entry has been looked up: it may be the very object to be stored.
PutLooked(c) ==
    /\ At(c, "put")
    /\ LET l == loc[c]
           had == l.res # 0 /\ metas[l.res].ext
           large == l.b # 0 /\ Len(bufs[l.b]) >= Threshold
           m == [metas[l.m] EXCEPT !.ext = large, !.data = IF large THEN 0 ELSE l.b] IN
       /\ metas' = [metas EXCEPT ![l.m] = m]
       /\ Await(c, l.ret, l, [do |-> "put", p |-> m.path, m |-> l.m, b |-> l.b,
                              row |-> RowOf(m),
                              data |-> IF large THEN bufs[l.b] ELSE <<>>,
                              blob |-> IF large THEN "set"
                                       ELSE IF had THEN "delete" ELSE "keep"])
    /\ UNCHANGED <<db, caches, bufs, files, bounds, history>>

\* _putEntry(m) with data undefined: the data store is left alone.
PutMetadata(c, i, m, ret, l) ==
    Await(c, ret, l, [do |-> "put", p |-> m.path, m |-> i, b |-> 0,
                      row |-> RowOf(m), data |-> <<>>, blob |-> "keep"])

DeleteEntry(c, p, ret, l) == Lookup(c, p, "delete", [l EXCEPT !.t = p, !.ret = ret])

DeleteLooked(c) ==
    /\ At(c, "delete")
    /\ LET l == loc[c] IN
       Await(c, l.ret, l, [do |-> "delete", p |-> l.t,
                           ext |-> l.res # 0 /\ metas[l.res].ext])
    /\ UNCHANGED <<db, caches, heap, files, bounds, history>>

-----------------------------------------------------------------------------
(* What the callers expect (history, no part of the program)               *)
(*                                                                         *)
(* want[p] is the set of contents the database may durably have at path p: *)
(* a call adds what it will leave there when it begins, and reduces the    *)
(* set to that when it has succeeded.  hwant[h] is what the reader of file *)
(* h should see.  taint names the paths that were used in a way in which   *)
(* the code makes no such promise: by two users at a time, through a       *)
(* symbolic link, below a renamed directory, renamed onto itself, or after *)
(* a failed transaction.                                                   *)

Nil == [type |-> "none", data |-> <<>>]
File(d) == [type |-> "file", data |-> d]

\* The content the database has at p; one with size # Len(data) is no content.
Durable(p) ==
    IF rows[p] = Absent THEN Nil
    ELSE LET d == IF rows[p].ext THEN blobs[p] ELSE rows[p].data IN
         [type |-> rows[p].type, data |-> IF rows[p].size = Len(d) THEN d ELSE <<"torn">>]

Known(p) == CHOOSE v \in want[p] : TRUE
Resized(d, n) == [i \in 1..n |-> IF i <= Len(d) THEN d[i] ELSE Zero]
Patched(d, pos, v) == [Resized(d, IF pos < Len(d) THEN Len(d) ELSE pos + 1) EXCEPT ![pos + 1] = v]

\* What call o leaves at the paths it changes when it succeeds.
Outcome(o) ==
    CASE o.op = "create" -> o.p :> File(<<>>)
      [] o.op = "mkdir" -> o.p :> [type |-> "dir", data |-> <<>>]
      [] o.op = "symlink" -> o.p :> [type |-> "symlink", data |-> o.x]
      [] o.op = "openfile" /\ (Known(o.p) = Nil \/ (Known(o.p).type = "file" /\ "trunc" \in o.x))
           -> o.p :> File(<<>>)
      [] o.op = "truncate" -> o.p :> File(Resized(Known(o.p).data, o.x))
      [] o.op = "remove" -> o.p :> Nil
      [] o.op = "rename" -> o.p :> Nil @@ o.q :> Known(o.p)
      [] o.op = "close" /\ files[o.h].dirty -> metas[files[o.h].meta].path :> File(hwant[o.h])
      [] OTHER -> <<>>

Uses(o) == CASE o.op \in {"none", "stat"} -> {}
             [] o.op = "rename" -> {o.p, o.q}
             [] o.h # 0 -> {files[o.h].path, metas[files[o.h].meta].path}
             [] OTHER -> {o.p}

Shared(c, o) ==
    LET others == {loc[d].call : d \in Clients \ {c}} IN
    {p \in Uses(o) : \/ \E n \in others : p \in Uses(n)
                     \/ \E h \in Handles \ {o.h} :
                           files[h] # Free /\ p \in {files[h].path, metas[files[h].meta].path}}

MaybeDir(p) == \E v \in want[p] : v.type = "dir"

BadUse(c, o) ==
    LET together == {n \in {loc[d].call : d \in Clients} : Uses(n) \cap Uses(o) # {}} IN
    UNION {IF Shared(c, o) # {} \/ Uses(o) \cap taint # {}
           THEN UNION {Uses(n) : n \in together \cup {o}} ELSE {},
           IF o.op = "rename" /\ (o.p = o.q \/ MaybeDir(o.p))
           THEN Within(o.p) \cup Within(o.q) ELSE {},
           IF o.op = "create" /\ MaybeDir(o.p) THEN Within(o.p) ELSE {}}

\* odd names the paths whose cached object need not be what is stored: after
\* a failed transaction, a rename of what another uses, two calls at a time
\* on one open file.
OddUse(c, o) ==
    IF \/ o.op = "rename" /\ Shared(c, o) # {}
       \/ o.h # 0 /\ \E d \in Clients : loc[d].call.h = o.h
    THEN Uses(o) ELSE {}

-----------------------------------------------------------------------------
(* Calls begin and end *)

Openers == {"open", "create", "openfile"}
IsOpen(h) == files[h] # Free /\ files[h].st = "open"

Begin(c) ==
    /\ turn = NoClient /\ pc[c] = "idle" /\ ops < MaxOps
    /\ \E o \in Calls :
         /\ o.h # 0 => IsOpen(o.h)
         /\ o.op \in Openers => Cardinality({h \in Handles : files[h] = Free})
                                  > Cardinality({d \in Clients : loc[d].call.op \in Openers})
         /\ o.op = "rename" => \A p \in Within(o.p) : Moved(p, o.p, o.q) \in Paths
         /\ pc' = [pc EXCEPT ![c] = o.op]
         /\ loc' = [loc EXCEPT ![c] = [Rest EXCEPT !.call = o, !.t = o.p,
                                                   !.gone = Outcome(o)]]
         /\ want' = [p \in Paths |->
                       want[p] \cup (IF p \in DOMAIN Outcome(o) THEN {Outcome(o)[p]} ELSE {})
                               \cup (IF o.op = "rename" /\ p = o.q THEN {Nil} ELSE {})]
         /\ taint' = taint \cup BadUse(c, o)
         /\ odd' = odd \cup OddUse(c, o)
    /\ turn' = c
    /\ ops' = ops + 1
    /\ UNCHANGED <<db, caches, heap, files, queue, faults, hwant>>

\* Objects nobody refers to any more are reset, so that they do not count.
Swept ==
    /\ metas' = [i \in MetaIds |-> IF i \in LiveMetas' THEN metas[i] ELSE Absent]
    /\ bufs' = [i \in BufIds |-> IF i \in LiveBufs' THEN bufs[i] ELSE <<>>]

Finish(c) ==
    /\ At(c, "end")
    /\ LET l == loc[c] o == l.call IN
       /\ files' = [h \in Handles |->
                      IF files[h].st = "closed" /\ \A d \in Clients \ {c} : loc[d].call.h # h
                      THEN Free ELSE files[h]]
       /\ want' = [p \in Paths |-> IF l.ok /\ p \in DOMAIN l.gone THEN {l.gone[p]}
                                   ELSE IF ~l.ok /\ p \in DOMAIN l.gone /\ p \notin taint
                                        THEN {Durable(p)}
                                   ELSE want[p]]
       /\ taint' = IF l.ok THEN taint ELSE taint \cup (Uses(o) \cap odd)
    /\ turn' = NoClient
    /\ pc' = [pc EXCEPT ![c] = "idle"]
    /\ loc' = [loc EXCEPT ![c] = Rest]
    /\ UNCHANGED <<db, caches, queue, bounds, hwant, odd>>
    /\ Swept

-----------------------------------------------------------------------------
(* stat, chmod, chtimes, mkdir, symlink, create *)

SetAttrLooked(c) ==
    /\ At(c, "chmod looked")
    /\ LET l == loc[c] IN
       IF l.res = 0 THEN Throw(c, l) /\ UNCHANGED metas
       ELSE LET m == [metas[l.res] EXCEPT !.attr = l.call.x] IN
            /\ metas' = [metas EXCEPT ![l.res] = m]
            /\ PutMetadata(c, l.res, m, "end", l)
    /\ UNCHANGED <<db, caches, bufs, files, bounds, history>>

\* The first lookup of each call that starts with one; create checks the
\* parent only, mkdir and symlink also that nothing is there.
Look(c) ==
    /\ turn = c
    /\ LET l == loc[c] p == l.call.p IN
       \/ /\ pc[c] = "stat" /\ Lookup(c, p, "end", l)
       \/ /\ pc[c] = "chmod" /\ Lookup(c, p, "chmod looked", l)
       \/ /\ pc[c] = "openfile" /\ Lookup(c, p, "openfile looked", l)
       \/ /\ pc[c] = "create" /\ EnsureParentExists(c, p, "new", l)
       \/ /\ pc[c] \in {"mkdir", "symlink"} /\ EnsureParentExists(c, p, "exists?", l)
       \/ /\ pc[c] = "exists?" /\ Lookup(c, p, "new", l)
    /\ UNCHANGED <<db, caches, heap, files, bounds, history>>

NewEntry(c) ==
    /\ At(c, "new")
    /\ LET l == loc[c] o == l.call
           b == IF o.op = "mkdir" THEN 0 ELSE FreshBuf
           d == IF o.op = "symlink" THEN o.x ELSE <<>>
           type == CASE o.op = "mkdir" -> "dir" [] o.op = "symlink" -> "symlink"
                     [] OTHER -> "file" IN
       IF o.op \in {"mkdir", "symlink"} /\ l.res # 0
       THEN Throw(c, l) /\ UNCHANGED heap
       ELSE /\ metas' = [metas EXCEPT ![FreshMeta] =
                           [path |-> o.p, type |-> type, ext |-> FALSE, data |-> b,
                            size |-> Len(d), attr |-> 0]]
            /\ bufs' = IF b = 0 THEN bufs ELSE [bufs EXCEPT ![b] = d]
            /\ PutEntry(c, o.p, FreshMeta, b, "made", l)
    /\ UNCHANGED <<db, caches, files, bounds, history>>

\* new File(this, path, meta, flags)
OpenFile(o, i, acc) ==
    LET h == CHOOSE h \in Handles : files[h] = Free IN
    /\ files' = [files EXCEPT ![h] = [st |-> "open", path |-> o.p, meta |-> i, buf |-> 0,
                                      pos |-> 0, dirty |-> FALSE, acc |-> acc]]
    /\ hwant' = [hwant EXCEPT ![h] =
                   IF o.p \in DOMAIN Outcome(o) THEN Outcome(o)[o.p].data ELSE Known(o.p).data]

Access(o) == IF o.op # "openfile" THEN "rw" ELSE IF "rdonly" \in o.x THEN "r"
             ELSE IF "append" \in o.x THEN "a" ELSE "rw"

NewEntryPut(c) ==
    /\ At(c, "made")
    /\ LET l == loc[c] o == l.call IN
       /\ cache' = Without(cache, Siblings(Dirname(o.p)))
       /\ IF o.op \in Openers
          THEN OpenFile(o, l.m, Access(o)) ELSE UNCHANGED <<files, hwant>>
       /\ Goto(c, "end", l)
    /\ UNCHANGED <<db, dcache, heap, bounds, want, taint, odd>>

-----------------------------------------------------------------------------
(* _resolveSymlink, open, openfile, truncate *)

Resolve(c, p, seen, label, l) == Lookup(c, p, "resolve", [l EXCEPT !.seen = seen \cup {p}, !.k = label])

\* The lookup of a link of the chain: follow it unless it was visited.
ResolveLooked(c) ==
    /\ At(c, "resolve")
    /\ LET l == loc[c] IN
       IF l.res = 0 \/ metas[l.res].type # "symlink"
       THEN Goto(c, l.k, l) /\ UNCHANGED taint
       ELSE LET target == bufs[metas[l.res].data] IN
            /\ taint' = taint \cup l.seen \cup ({target} \cap Paths)
            /\ IF target \in l.seen THEN Throw(c, l) ELSE Resolve(c, target, l.seen, l.k, l)
    /\ UNCHANGED <<db, caches, heap, files, bounds, want, hwant, odd>>

Open(c) ==
    /\ pc[c] \in {"open", "truncate"} /\ turn = c
    /\ Resolve(c, loc[c].call.p, {}, pc[c] \o " resolved", loc[c])
    /\ UNCHANGED <<db, caches, heap, files, bounds, history>>

OpenResolved(c) ==
    /\ At(c, "open resolved")
    /\ LET l == loc[c] IN
       IF l.res # 0
       THEN OpenFile(l.call, l.res, "rw") /\ Goto(c, "end", l)
       ELSE Throw(c, l) /\ UNCHANGED <<files, hwant>>
    /\ UNCHANGED <<db, caches, heap, bounds, want, taint, odd>>

OpenFlagsLooked(c) ==
    /\ At(c, "openfile looked")
    /\ LET l == loc[c] IN
       IF l.res # 0 /\ metas[l.res].type = "symlink"
       THEN Resolve(c, l.call.p, {}, "openfile resolved", l)
       ELSE Goto(c, "openfile resolved", l)
    /\ UNCHANGED <<db, caches, heap, files, bounds, history>>

\* O_TRUNC resets the cached object before it is stored.
OpenFlagsResolved(c) ==
    /\ At(c, "openfile resolved")
    /\ LET l == loc[c] o == l.call b == FreshBuf IN
       \/ /\ l.res = 0 /\ "creat" \in o.x
          /\ EnsureParentExists(c, o.p, "new", l)
          /\ UNCHANGED <<heap, files, hwant>>
       \/ /\ l.res = 0 => "creat" \notin o.x
          /\ l.res # 0 => {"creat", "excl"} \subseteq o.x
          /\ Throw(c, l)
          /\ UNCHANGED <<heap, files, hwant>>
       \/ /\ l.res # 0 /\ ~({"creat", "excl"} \subseteq o.x)
          /\ "trunc" \in o.x /\ metas[l.res].type # "dir"
          /\ metas' = [metas EXCEPT ![l.res].size = 0, ![l.res].ext = FALSE, ![l.res].data = b]
          /\ bufs' = [bufs EXCEPT ![b] = <<>>]
          /\ PutEntry(c, metas[l.res].path, l.res, b, "truncated", l)
          /\ UNCHANGED <<files, hwant>>
       \/ /\ l.res # 0 /\ ~({"creat", "excl"} \subseteq o.x)
          /\ "trunc" \notin o.x \/ metas[l.res].type = "dir"
          /\ OpenFile(o, l.res, Access(o))
          /\ Goto(c, "end", l)
          /\ UNCHANGED heap
    /\ UNCHANGED <<db, caches, bounds, want, taint, odd>>

OpenFlagsTruncated(c) ==
    /\ At(c, "truncated")
    /\ LET l == loc[c] IN OpenFile(l.call, l.m, Access(l.call)) /\ Goto(c, "end", l)
    /\ UNCHANGED <<db, caches, heap, bounds, want, taint, odd>>

\* The blob is looked up under the path of the call, link or not.
TruncateResolved(c) ==
    /\ At(c, "truncate resolved")
    /\ LET l == loc[c] IN
       IF l.res = 0 \/ metas[l.res].type = "dir" THEN Throw(c, l)
       ELSE IF metas[l.res].ext
            THEN LookupBlob(c, l.call.p, "truncate loaded", [l EXCEPT !.m = l.res])
            ELSE Goto(c, "truncate loaded", [l EXCEPT !.m = l.res, !.b = metas[l.res].data])
    /\ UNCHANGED <<db, caches, heap, files, bounds, history>>

\* Mutant: truncate resizes the data and not the size.
TruncateLoadedOldSize(c) ==
    /\ At(c, "truncate loaded")
    /\ LET l == loc[c]
           b == IF l.call.x = Len(bufs[l.b]) THEN l.b ELSE FreshBuf IN
       /\ bufs' = [bufs EXCEPT ![b] = Resized(bufs[l.b], l.call.x)]
       /\ PutEntry(c, metas[l.m].path, l.m, b, "end", l)
    /\ UNCHANGED <<db, caches, metas, files, bounds, history>>

TruncateLoaded(c) ==
    /\ At(c, "truncate loaded")
    /\ LET l == loc[c]
           size == l.call.x
           cur == bufs[l.b]
           b == IF size = Len(cur) THEN l.b ELSE FreshBuf IN
       /\ bufs' = [bufs EXCEPT ![b] = Resized(cur, size)]
       /\ metas' = [metas EXCEPT ![l.m].size = size]
       /\ PutEntry(c, metas[l.m].path, l.m, b, "end", l)
    /\ UNCHANGED <<db, caches, files, bounds, history>>

-----------------------------------------------------------------------------
(* remove, also as a step of rename *)

RemoveAt(c, p, back, l) == Lookup(c, p, "remove looked", [l EXCEPT !.t = p, !.back = back])

Remove(c) ==
    /\ turn = c
    /\ LET l == loc[c] IN
       \/ /\ pc[c] = "remove"
          /\ RemoveAt(c, l.call.p, "end", l)
       \/ /\ pc[c] = "remove looked" /\ l.res = 0
          /\ Throw(c, l)
       \/ /\ pc[c] = "remove looked" /\ l.res # 0 /\ metas[l.res].type = "dir"
          /\ Await(c, "empty?", l, [do |-> "children", p |-> l.t])
       \/ /\ pc[c] = "remove looked" /\ l.res # 0 /\ metas[l.res].type # "dir"
          /\ DeleteEntry(c, l.t, "removed", l)
       \/ /\ pc[c] = "empty?"
          /\ IF l.res = 1 THEN Throw(c, l) ELSE DeleteEntry(c, l.t, "removed", l)
    /\ UNCHANGED <<db, caches, heap, files, bounds, history>>

Removed(c) ==
    /\ At(c, "removed")
    /\ cache' = Without(cache, Siblings(Dirname(loc[c].t)))
    /\ Goto(c, loc[c].back, loc[c])
    /\ UNCHANGED <<db, dcache, heap, files, bounds, history>>

-----------------------------------------------------------------------------
(* rename *)

\* What is at the new path is removed first, in transactions of its own.
RenameOver(c) ==
    /\ turn = c
    /\ LET l == loc[c] q == l.call.q IN
       \/ /\ pc[c] = "rename"
          /\ Lookup(c, l.call.p, "rename looked", l)
       \/ /\ pc[c] = "rename looked" /\ l.res = 0
          /\ Throw(c, l)
       \/ /\ pc[c] = "rename looked" /\ l.res # 0
          /\ EnsureParentExists(c, q, "rename over", [l EXCEPT !.old = l.res])
       \/ /\ pc[c] = "rename over"
          /\ Lookup(c, q, "rename over looked", l)
       \/ /\ pc[c] = "rename over looked" /\ l.res = 0
          /\ Goto(c, "rename move", l)
       \/ /\ pc[c] = "rename over looked" /\ l.res # 0
          /\ IF metas[l.res].type = "dir"
             THEN Await(c, "rename empty?", l, [do |-> "children", p |-> q])
             ELSE RemoveAt(c, q, "rename move", l)
       \/ /\ pc[c] = "rename empty?"
          /\ IF l.res = 1 THEN Throw(c, l) ELSE RemoveAt(c, q, "rename move", l)
    /\ UNCHANGED <<db, caches, heap, files, bounds, history>>

\* A file or a link: the new object shares the old one's inline array.
RenameFile(c) ==
    /\ At(c, "rename move") /\ metas[loc[c].old].type # "dir"
    /\ LET l == loc[c] old == metas[l.old] i == FreshMeta IN
       /\ metas' = [metas EXCEPT ![i] = [old EXCEPT !.path = l.call.q]]
       /\ IF old.ext THEN LookupBlob(c, l.call.p, "rename put", [l EXCEPT !.m = i])
          ELSE Goto(c, "rename put", [l EXCEPT !.m = i, !.b = old.data])
    /\ UNCHANGED <<db, caches, bufs, files, bounds, history>>

\* Mutant: the old entry is deleted before the new one is stored.
RenameFileDeletedFirst(c) ==
    /\ turn = c
    /\ LET l == loc[c] IN
       \/ pc[c] = "rename put" /\ DeleteEntry(c, l.call.p, "rename delete", l)
       \/ pc[c] = "rename delete" /\ PutEntry(c, l.call.q, l.m, l.b, "renamed", l)
    /\ UNCHANGED <<db, caches, heap, files, bounds, history>>

RenameFileStored(c) ==
    /\ turn = c
    /\ LET l == loc[c] IN
       \/ /\ pc[c] = "rename put"
          /\ PutEntry(c, l.call.q, l.m, l.b, "rename delete", l)
       \/ /\ pc[c] = "rename delete"
          /\ DeleteEntry(c, l.call.p, "renamed", l)
    /\ UNCHANGED <<db, caches, heap, files, bounds, history>>

\* A directory: all rows below it in one transaction, then the deletions
\* under the old paths, then the blobs.
RenameDir(c) ==
    /\ turn = c
    /\ LET l == loc[c] o == l.call
           old == DOMAIN l.tree
           large == {p \in old : l.tree[p].ext}
           hits == [p \in old |-> cache[p]]
           missed == {p \in old : cache[p] = 0} IN
       \/ /\ pc[c] = "rename move" /\ metas[l.old].type = "dir"
          /\ Await(c, "rename tree", l, [do |-> "tree", p |-> o.p])
       \/ /\ pc[c] = "rename tree" /\ old # {}
          /\ Await(c, "rename lookup", l,
                   [do |-> "batchput", p |-> o.p, q |-> o.q, tree |-> l.tree])
       \/ /\ pc[c] = "rename tree" /\ old = {}
          /\ Goto(c, "renamed", l)
       \/ /\ pc[c] = "rename lookup" /\ missed = {}
          /\ Goto(c, "rename drop", [l EXCEPT !.got = hits])
       \/ /\ pc[c] = "rename lookup" /\ missed # {}
          /\ Await(c, "rename drop", [l EXCEPT !.got = hits],
                   [do |-> "getall", p |-> o.p, set |-> missed])
       \/ /\ pc[c] = "rename drop"
          /\ Await(c, "rename blobs", l,
                   [do |-> "batchdelete", p |-> o.p, set |-> old,
                    ext |-> {p \in old : l.got[p] # 0 /\ metas[l.got[p]].ext}])
       \/ /\ pc[c] = "rename blobs" /\ large # {}
          /\ Await(c, "renamed", l, [do |-> "moveblobs", p |-> o.p, q |-> o.q, set |-> large])
       \/ /\ pc[c] = "rename blobs" /\ large = {}
          /\ Goto(c, "renamed", l)
    /\ UNCHANGED <<db, caches, heap, files, bounds, history>>

Renamed(c) ==
    /\ At(c, "renamed")
    /\ LET o == loc[c].call IN
       cache' = Without(cache, Siblings(Dirname(o.p)) \cup Siblings(Dirname(o.q)))
    /\ Goto(c, "end", loc[c])
    /\ UNCHANGED <<db, dcache, heap, files, bounds, history>>

-----------------------------------------------------------------------------
(* The methods of an open file *)

\* closed is set at once; a read alone makes the file dirty.
Close(c) ==
    /\ At(c, "close")
    /\ LET l == loc[c] h == l.call.h f == files[h] IN
       /\ files' = [files EXCEPT ![h].st = "closed"]
       /\ IF f.dirty THEN PutEntry(c, metas[f.meta].path, f.meta, f.buf, "end", l)
          ELSE Goto(c, "end", l)
    /\ UNCHANGED <<db, caches, heap, bounds, history>>

\* read and write begin with _ensureData
Transfer(c) ==
    /\ pc[c] \in {"read", "write"} /\ turn = c
    /\ LET l == loc[c] f == files[l.call.h] at == pc[c] \o " loaded" m == metas[f.meta] IN
       CASE pc[c] = "write" /\ f.acc = "r" -> Throw(c, l)
         [] f.buf # 0 -> Goto(c, at, [l EXCEPT !.b = f.buf])
         [] f.buf = 0 /\ m.ext -> LookupBlob(c, f.path, at, l)
         [] OTHER -> Goto(c, at, [l EXCEPT !.b = m.data])
    /\ UNCHANGED <<db, caches, heap, files, bounds, history>>

\* metadata.data || new Uint8Array(0)
Loaded(l) == IF l.b # 0 THEN l.b ELSE FreshBuf

ReadLoaded(c) ==
    /\ At(c, "read loaded")
    /\ LET l == loc[c] h == l.call.h f == files[h]
           size == metas[f.meta].size
           left == IF size > f.pos THEN size - f.pos ELSE 0
           n == IF l.call.x < left THEN l.call.x ELSE left IN
       /\ files' = [files EXCEPT ![h].buf = Loaded(l), ![h].pos = f.pos + n,
                                 ![h].dirty = f.dirty \/ n > 0]
       /\ Goto(c, "end", l)
    /\ UNCHANGED <<db, caches, heap, bounds, history>>

\* Mutant: a write sets the size to where it ended, without the maximum.
WriteLoadedShrinks(c) ==
    /\ At(c, "write loaded")
    /\ LET l == loc[c] h == l.call.h f == files[h]
           cur == IF l.b = 0 THEN <<>> ELSE bufs[l.b]
           pos == IF f.acc = "a" THEN metas[f.meta].size ELSE f.pos
           b == IF pos + 1 > Len(cur) THEN FreshBuf ELSE Loaded(l) IN
       /\ bufs' = [bufs EXCEPT ![b] = Patched(cur, pos, l.call.x)]
       /\ metas' = [metas EXCEPT ![f.meta].size = pos + 1]
       /\ files' = [files EXCEPT ![h].buf = b, ![h].pos = pos + 1, ![h].dirty = TRUE]
       /\ hwant' = [hwant EXCEPT ![h] =
                      Patched(@, IF f.acc = "a" THEN Len(@) ELSE f.pos, l.call.x)]
       /\ Goto(c, "end", l)
    /\ UNCHANGED <<db, caches, bounds, want, taint, odd>>

\* One block is written: in place when the array is long enough.
WriteLoaded(c) ==
    /\ At(c, "write loaded")
    /\ LET l == loc[c] h == l.call.h f == files[h]
           cur == IF l.b = 0 THEN <<>> ELSE bufs[l.b]
           m == metas[f.meta]
           pos == IF f.acc = "a" THEN m.size ELSE f.pos
           size == IF m.size > pos + 1 THEN m.size ELSE pos + 1
           b == IF size > Len(cur) THEN FreshBuf ELSE Loaded(l) IN
       /\ bufs' = [bufs EXCEPT ![b] =
                     [Resized(cur, IF size > Len(cur) THEN size ELSE Len(cur))
                        EXCEPT ![pos + 1] = l.call.x]]
       /\ metas' = [metas EXCEPT ![f.meta].size = size]
       /\ files' = [files EXCEPT ![h].buf = b, ![h].pos = pos + 1, ![h].dirty = TRUE]
       /\ hwant' = [hwant EXCEPT ![h] =
                      Patched(@, IF f.acc = "a" THEN Len(@) ELSE f.pos, l.call.x)]
       /\ Goto(c, "end", l)
    /\ UNCHANGED <<db, caches, bounds, want, taint, odd>>

Seek(c) ==
    /\ At(c, "seek")
    /\ files' = [files EXCEPT ![loc[c].call.h].pos = loc[c].call.x]
    /\ Goto(c, "end", loc[c])
    /\ UNCHANGED <<db, caches, heap, bounds, history>>

-----------------------------------------------------------------------------
(* The cache is full of other paths; the page goes away and comes back *)

\* LRUCache.set drops the entry that was not used for longest.
Evict(p) ==
    /\ turn = NoClient
    /\ faults < MaxFaults
    /\ faults' = faults + 1
    /\ \/ cache[p] # 0 /\ cache' = [cache EXCEPT ![p] = 0] /\ UNCHANGED dcache
       \/ dcache[p] # 0 /\ dcache' = [dcache EXCEPT ![p] = 0] /\ UNCHANGED cache
    /\ UNCHANGED <<db, files, proc, ops, history>>
    /\ Swept

NothingCached == [p \in Paths |-> 0]
NoObjects == [i \in MetaIds |-> Absent]
NoArrays == [i \in BufIds |-> <<>>]
NoFiles == [h \in Handles |-> Free]
AllIdle == [c \in Clients |-> "idle"]
NoCalls == [c \in Clients |-> Rest]

Crash ==
    /\ turn = NoClient
    /\ faults < MaxFaults
    /\ queue' = <<>>
    /\ cache' = NothingCached /\ dcache' = NothingCached
    /\ metas' = NoObjects /\ bufs' = NoArrays
    /\ files' = NoFiles
    /\ turn' = NoClient /\ pc' = AllIdle /\ loc' = NoCalls
    /\ faults' = faults + 1
    /\ want' = [p \in Paths |-> IF Durable(p) \in want[p] THEN {Durable(p)} ELSE want[p]]
    /\ hwant' = [h \in Handles |-> <<>>]
    /\ odd' = {}
    /\ UNCHANGED <<db, taint, ops>>

-----------------------------------------------------------------------------
\* The state after open(StartFile): its row has been read and is cached.
Init ==
    /\ rows = StartRows
    /\ blobs = StartBlobs
    /\ queue = <<>>
    /\ cache = [NothingCached EXCEPT ![StartFile] = Least(MetaIds)]
    /\ dcache = NothingCached
    /\ metas = [NoObjects EXCEPT ![Least(MetaIds)] =
                  MetaOf(StartFile, rows[StartFile],
                         IF HasArray(rows[StartFile]) THEN Least(BufIds) ELSE 0)]
    /\ bufs = IF HasArray(rows[StartFile])
              THEN [NoArrays EXCEPT ![Least(BufIds)] = rows[StartFile].data] ELSE NoArrays
    /\ files = [NoFiles EXCEPT ![Least(Handles)] =
                  [st |-> "open", path |-> StartFile, meta |-> Least(MetaIds), buf |-> 0,
                   pos |-> 0, dirty |-> FALSE, acc |-> "rw"]]
    /\ turn = NoClient /\ pc = AllIdle /\ loc = NoCalls
    /\ ops = 0 /\ faults = 0
    /\ want = [p \in Paths |-> {Durable(p)}]
    /\ hwant = [h \in Handles |-> IF h = Least(Handles) THEN Durable(StartFile).data ELSE <<>>]
    /\ taint = {} /\ odd = {}

Step(c) ==
    \/ ParentLooked(c) \/ PutLooked(c) \/ DeleteLooked(c) \/ Finish(c)
    \/ Look(c) \/ SetAttrLooked(c) \/ NewEntry(c) \/ NewEntryPut(c)
    \/ ResolveLooked(c) \/ Open(c) \/ OpenResolved(c) \/ OpenFlagsLooked(c)
    \/ OpenFlagsResolved(c) \/ OpenFlagsTruncated(c) \/ TruncateResolved(c) \/ TruncateLoaded(c)
    \/ Remove(c) \/ Removed(c)
    \/ RenameOver(c) \/ RenameFile(c) \/ RenameFileStored(c) \/ RenameDir(c) \/ Renamed(c)
    \/ Close(c) \/ Transfer(c) \/ ReadLoaded(c) \/ WriteLoaded(c) \/ Seek(c)

Next == \/ \E c \in Clients : Begin(c) \/ Step(c)
        \/ Database
        \/ \E p \in Paths : Evict(p)
        \/ Crash

Spec == Init /\ [][Next]_vars

-----------------------------------------------------------------------------
(* Properties *)

RowRec == [type : {"file", "dir", "symlink"}, ext : BOOLEAN, size : Nat, attr : {0, 1},
           data : Seq(STRING)]
TypeOK ==
    /\ \A p \in Paths : rows[p] = Absent \/ rows[p] \in RowRec
    /\ \A p \in Paths : blobs[p] = NoBlob \/ Len(blobs[p]) >= Threshold
    /\ cache \in [Paths -> MetaIds \cup {0}]
    /\ dcache \in [Paths -> BufIds \cup {0}]
    /\ \A i \in MetaIds : metas[i] = Absent \/ metas[i].data \in BufIds \cup {0}
    /\ \A h \in Handles : files[h] = Free \/ files[h].pos \in Nat
    /\ turn \in Clients \cup {NoClient}
    /\ Len(queue) <= Cardinality(Clients)

\* A path that one caller at a time uses holds durably, at every moment and
\* after every crash, what the last call that succeeded left there, or what
\* the call in progress will leave: never a part of it, a row without its
\* blob or the blob of another content, whatever the callers of other paths
\* do meanwhile and whatever the caches drop (_putEntry, _deleteEntry).
CleanPathDurable == \A p \in Paths \ taint : Durable(p) \in want[p]

\* An open file whose path has no other user reads what was there when it was
\* opened with its own writes on top (File.read, File.write, _ensureData).
FileReadsItsOwn ==
    \A h \in Handles :
      /\ files[h] # Free /\ files[h].st = "open" /\ files[h].buf # 0
      /\ files[h].path \notin taint
      => /\ metas[files[h].meta].size = Len(hwant[h])
         /\ bufs[files[h].buf] = hwant[h]

\* While a file is renamed its content is durable under the old path or under
\* the new one.
RenameKeepsContent ==
    \A c \in Clients :
      LET o == loc[c].call IN
      /\ o.op = "rename"
      /\ {o.p, o.q} \cap taint = {}
      /\ loc[c].gone[o.q] # Nil
      => loc[c].gone[o.q] \in {Durable(o.p), Durable(o.q)}

\* When nobody uses a path, the object cached for it is what the database has.
Quiet(p) == /\ \A c \in Clients : /\ p \notin Uses(loc[c].call)
                                  /\ loc[c].call.op = "rename" =>
                                       p \notin Within(loc[c].call.p) \cup Within(loc[c].call.q)
            /\ \A h \in Handles : files[h] # Free =>
                  p \notin {files[h].path, metas[files[h].meta].path}
CacheCoherent ==
    /\ TypeOK
    /\ \A p \in Paths \ odd :
         Quiet(p) /\ cache[p] # 0 => rows[p] # Absent /\ RowOf(metas[cache[p]]) = rows[p]
=============================================================================
