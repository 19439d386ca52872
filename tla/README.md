# Verification of gowaforth and Wanix

TLA+ models of the stateful parts of this repository, the TLC runs that
model-check them and the TLAPS proofs of their main theorems.  `PROJECT.json`
lists components, runs, mutants, hazards, findings and theorems, and maps every
definition to the lines it models; this file explains them.

    tlc -workers 2 -config <run>.cfg <MC module>     # a run
    tlapm PipeProofs.tla                             # the proofs of a module

## 1. The system

The repository holds three programs.

* **gowaforth**: a translator from Go to Forth (`emitter.js`, `deps/go2json`,
  a React page that pushes a program to a build pipeline, `deps/waforth`, a
  vendored Forth).
* **wanix** (`wanix/`, Go and JavaScript): an operating-system-like kernel that
  runs in a web page or on a host.  Everything is a file: tasks, terminals,
  virtual machines, workers and devices are directories of a namespace that is
  composed from filesystems.  Programs run in web workers (`wanix/runtime`): a
  WASI program or a Go program in a runtime of its own, which turns its system
  calls into remote calls of the kernel.  This is where the hard behaviour of the
  repository is.
* **dungeon** (`deps/dungeon`, TypeScript): a game whose rules are Forth kernels
  that exchange messages through shared memory.

### How the parts interact

    guest program --- WASI shim, fs.ts, wanix.ts --- CallBuffer ---+
    (WasiWorker)                         shared memory (CallBuffer) |
                                                                    v
    Go program --- globalThis.fs (GojsWorker) ---------------> worker.js
       \--- values and callbacks (JsValues)                        |
                                             CBOR bytes (Cbor, Codec)
                                                                    |
                                 duplex session over a port (Duplex)
                                                                    v
     page: <wanix-terminal> (TerminalElement) ---> kernel: web/api (SysApi)
                                                                    |
               +------------+--------------+-----------+------------+
               v            v              v           v
           memfs (SysApi)  syncfs (SyncFS)  idbfs (IdbFS)  pipes (Pipe),
                                                        sizes (Winch)
     v86 guest <--- shared-memory rings (ShmGoToJs, ShmJsToGo) ---> page

### Inventory

| component | state | operations | talks to | hard behaviour | correct when |
|---|---|---|---|---|---|
| `vm/v86/shm` shared channel | two rings in memory, four positions, rest of a message | `SharedChannel.Write/Read`, `write()`, `pollForMessages()` | guest program, page port | two machines over unsynchronised memory, wrap-around, retries | frames never overlap, every message arrives once and in order |
| `vfs/pipe` | bytes, closed flag, condition variable, per direction | `Read`, `Write`, `Close` | tasks, terminals, serial ports | lost wakeups, close against read | a stream, EOF last, nobody sleeps over data |
| `term/winch.go` | hub: id to channel; per file: id, channel, buffer, closed | open, `Read`, `Write`, `Close`, `broadcast` | terminal programs | bounded channels, sends without the lock, close against a waiting read | each subscriber hears each resize once, closing ends |
| `fs/syncfs` | local copy, map of changes, timer, Sync's lock | file operations, handles, `Sync` | a local and a remote filesystem | Sync runs beside operations, calls fail, another machine writes | both sides agree in the end, nothing newer is overwritten |
| `web/idbfs` | two stores of a database, caches of metadata and blobs, open files | file operations, handles | IndexedDB | every `await` lets another call in, a rename is two transactions, reload of the page, cached objects are shared | what succeeded is durable, files read what they wrote, caches agree with the stores |
| `runtime`: duplex, RPC | channels, windows, buffers, waiting readers and writers | `Session`, `Channel`, `Client.call`, `Respond`, close | a message port | flow control against grants, both ends closing, a session that ends between two frames | calls settle with their own answers, streams are streams, channels are released |
| `runtime/wasi` | inodes with listings, descriptors, the shared call buffer | WASI calls, `messageHandler` | kernel, guest's thread | a thread sleeps on a word of memory, stale listings, refused calls | the guest wakes to its own answer, listings hold |
| `runtime/gojs` | pending calls, `exited` | methods of `fs`, `wasmWrite`, `wasmExit` | kernel, Go program | answers in any order, exit with calls pending | every call is called back, once |
| CBOR codec of both | buffer of the encoder, position | `encode`, `decode` | duplex, call buffer | the buffer is exchanged in the middle of a value; views outlive the call | what is sent arrives |
| JavaScript values of Go and TinyGo | table, reference counts, id pool, timers | `valueGet`, `valueCall`, `finalizeRef`, ... | a program and any JavaScript | re-entrance, ids reused, memory that moves | a reference names the value it was given |
| `<wanix-terminal>` | reader, writer, handler, streams that read ahead | connect, disconnect, attributes, input | a file of the kernel | three awaits in a connect, element moved meanwhile | shows and types to the source it was given |
| gowaforth `emit()` | symbol table, declared variables, text | walk of a tree | go2json, WAForth | precedence, nesting, address or value, words the Forth lacks | the translation prints what the program prints |
| `web/api`, `fs/memfs` | descriptors and `fdCounter`; nodes by path | system calls | all filesystems | calls served in any order | a descriptor reaches the file it was opened for |
| `term/service.go` | table of terminals | alloc, open, remove | winch, pipe | removal at EOF | a terminal disappears with its program |
| `fs/cowfs` | overlay, tombstones, rename table | all file operations | base and overlay | a log kept beside the data, restart | the union is what a plain filesystem would hold |
| `fs/metacache`, `fs/httpfs` | cached stats and listings with expiry | stat, open, invalidate, refresh | a server | refresh in the background against invalidation | no answer older than an invalidation |
| `vfs/vfs.go` | bindings by path | `Bind`, `Unbind`, `ResolveFS`, open | all filesystems | order of union members, waiting for a path | resolution follows the bindings |
| `task`, `cap`, `vm`, `web/worker` | tables of resources, exit, environment | alloc, start, exit | pipe, worker | closer in a goroutine of its own, unlocked counters | exit after the output, each exit once |
| `fs/p9kit`, `fs/fusekit` | fids, handles | protocol calls | third-party servers | fid life time | a fid denotes one file |
| dungeon bus and heap | queues and a free list in shared memory | send, inbox, alloc, free | kernels | limits, double free | no message lost, no block handed out twice |

Section 6 says what is not modelled and why.

## 2. Modules

| module | models | of |
|---|---|---|
| `ShmRing` | positions, frames and memory common to both rings | `chan.go`, `chan.js` |
| `ShmGoToJs` | guest to page: `Write` against the polling loop | `chan.go` 191-285, `chan.js` 50-127 |
| `ShmJsToGo` | page to guest: calls of `write()` against `Read` | `chan.js` 129-205, `chan.go` 89-189 |
| `MsgChannel` | abstract specification: a first-in first-out channel | what `v86.go` and `jsutil.PortReadWriter` rely on |
| `Pipe` | both Buffers of a pipe and the threads that use them | `vfs/pipe/buffer.go`, `pipe.go` |
| `Winch` | the hub, its subscribers and the files of three kinds | `term/winch.go` |
| `TerminalElement` | the element on the page and the streams of a file | `elements/terminal.js`, `handle.js` |
| `Terminal` | the two above in one specification | |
| `SyncFS` | operations, handles, the change map, the timer, `Sync` | `fs/syncfs/syncfs.go` |
| `IdbFS` | calls, open files, caches, transactions, reloads | `web/idbfs/idbfs.js` |
| `Duplex` | sessions, channels, calls and responders at both ends | `runtime/*/worker/lib.js` |
| `ByteStream` | abstract specification: one direction of a channel | |
| `SysApi` | the system calls a worker makes, over memfs | `web/api/*.go`, `fs/memfs` |
| `CallBuffer` | a blocking call over shared memory | `wasi/callbuffer.ts` |
| `WasiWorker` | a guest's operations and the handler of its calls | `wasi/fs.ts`, `wanix.ts`, `worker/*.js` |
| `GojsWorker` | a Go program's requests and their callbacks | `gojs/worker/worker.js` |
| `Workers` | a WASI task and a Go task on one file system | |
| `Cbor`, `Codec` | the codec as functions; an encoder over many calls | cbor-x in `lib.js` |
| `JsValues` | the value table, calls in and out, timers | `class Go` of both workers |
| `Emitter` | `emit()` as functions on trees | `emitter.js`, `HeadfulHarness.tsx` |
| `Translation` | the words of WAForth that run the text, `SCALL`, and what the program means | `deps/waforth` (`waforth.wat`, `web/waforth.ts`) |
| `Runtime` | `Workers`, `Codec`, `JsValues` and `Translation` in one specification | |
| `ShmRingLemmas` | facts about positions, cycles and places | |
| `ShmGoToJsProofs`, `ShmJsToGoProofs`, `PipeProofs`, `TerminalProofs`, `RuntimeProofs`, `SyncFSProofs`, `DuplexProofs` | theorems; `TerminalProofs` on `Winch` and `TerminalElement`, `RuntimeProofs` on `CallBuffer`, `Workers` and `JsValues` | |
| `MC...` | the instances TLC checks | |

Operators that follow the comment `Mutant` are wrong variants of the definition
after them, of the kind a slip in the code would be.  No specification uses
them; `PROJECT.json` says which property each of them breaks.

`Runtime` and `Terminal` put parts that share no state into one specification:
`part`, or `half`, is chosen at the start and only that part moves, so the state
spaces add up instead of multiplying.  Within a part everything interleaves.

### Code that stands in the repository several times

Both workers carry a bundle (`lib.js`) with the same libraries: the duplex
library and two releases of cbor-x (1.4.1 for the remote calls, 1.6 for the call
buffer).  `fs.ts`, `wanix.ts` and `callbuffer.ts` are bundled into the WASI
worker's `lib.js`; the class Go is in `wasm/wasm_exec.go.js` and
`gojs/worker/worker.js`, TinyGo's in `wasm/wasm_exec.tinygo.js` and
`wasi/worker/worker.js`; `emit()` is in `emitter.js` and, in the text of a script,
in `HeadfulHarness.tsx`.  One definition models all copies of a function.  The map
names one place for each definition, for some this copy and for some that one;
where the copies differ (bigints beyond 64 bits in the codec) the model has both.

### Shared-memory rings

A ring is a block of bytes and two positions that only grow.  A byte is modelled
by its origin (message, length in that message's header, offset), so the reader
decodes what really stands in memory: a header, blank memory (zero), or payload,
which may spell any length in `Garbage`.  Positions are `Uint` wide; the page
computes them as signed numbers (`Int32`, `JsPos`), as `chan.js` does.

The steps follow what can be interleaved.  The guest may be stopped between two
instructions: `Write` is split into the load of head and tail with the decision
where the frame goes (`WriteAttempt`), the copy (`WriteCopy`) and the store of
the head (`WritePublish`); `Read` is split into `GoReadSeesData` and
`GoReadTake`.  The page and the emulator share a thread, so an iteration of the
polling loop (`JsPoll`) is one step, and a call of `write()` runs to its `await`
in one step (`Try`).  `Read` yields between polls by other means (line 180 of
`chan.go`), which changes nothing but time.

`ShmGoToJs` implements `MsgChannel` (`RingIsChannel`, with `accepted` the
number of published frames and `delivered` what the loop posts where a frame was
put).  What the loop posts elsewhere is history variable `stale`:
`OneSizeNothingStale` says that there is none when the frames have one size, and
the run `shm_go_js_gap` shows that there may be some when they have not.

### Pipe

A Buffer has a mutex, so a critical section is a step.  `dataCond.Wait` leaves
the mutex: the thread is `asleep` until a `Signal` (one sleeper of that Buffer)
or a `Broadcast` (all) makes it `woken`; then it takes the mutex again and tests
the condition again (`Resume`), or another thread has come first.  `Port.Close`
closes two Buffers one after the other (`CloseReader`, `CloseWriter`).  Bytes
are numbered, so a lost, doubled or swapped byte is visible.  `portfile.go` and
`fsys.go` wrap ports without state of their own and are not modelled.

### Terminal

*Winch.*  Each open file has a goroutine that reads, one that writes and one that
closes it.  Steps end where the code takes or leaves a mutex or meets a channel:
`broadcast` copies the channels under the hub's mutex (`WritePick`) and sends
without it (`WriteSend`, one channel at a time, in any order, as Go iterates
over maps), waits for room, and panics on a channel closed in the meantime
(`panicked`, after which nothing runs).  A read-only file keeps its mutex while
it waits for a frame, a read-write file does not and looks again whether it was
closed.  `hub.close` is unreachable and left out.

*TerminalElement.*  A call of `_connectToSource` is a record with the await it
has come to; its steps are `ConnectToSource`, `OpenedReadable`,
`OpenedWritable`, `OpenFails`.  Between them the page moves or removes the
element or changes its attributes.  A stream asks the kernel for a chunk ahead of
its reader, as a stream with a high-water mark of 1 does, and swallows the answer
when its reader was cancelled: no file is ever closed.  `LoopOn` is one
`_readLoop` woken by a chunk: it reads on from the reader the element has *now*.

### SyncFS

A file is a version and a time in seconds.  An operation is three steps: it
passes `wait()` (`Begin`), changes the local copy (`OpApply`, or `OpFails`), and
notes its path (`OpMark`; a rename notes two).  `changed` keeps or cancels the
note and arms the timer.

A handle is any of `Fds`; several may be open on one path, and operations do not
ask for them.  It writes and is closed without `wait()` (`HandleWrite`,
`HandleClose`).  `at` is the file it reaches: a rename takes the handle along
(`Moved`), a removal, or a Create that puts a new node under the name as memfs
does, leaves it with a file that has no name (`Replaced`).  `path` is the name it
was opened by, and this is what `Close` notes.

`Sync` is nine kinds of steps: the lock, the index of the remote, scan (which decides the
pulls, and on the first run makes the map), archive, patch and reset of the map,
the pulls one by one beside the push (`PullCopy`, `PullFails`), and the end.
Index, Patch, Create and each copy of a pull may fail.  A copy that fails
leaves the old file, the first part of the new one, or all of it with the time
of the copy; one whose `io.Copy` fails leaves the first part with the remote's
time and reports nothing (`Broken`: `fs/copy.go:157` tests the wrong variable).
In all these cases Sync goes on and succeeds.  Another machine may write.

Three history variables carry the exceptions of the properties.  `raced` are the
paths an operation touched while a Sync ran or while another operation on the
path had not noted it.  `contended` are those one Sync both pushed and pulled.
`adrift` are those on which one side changed without a note, until they are pushed
or pulled again: another machine wrote, a file was truncated as it was opened, a
handle wrote a file that has another name by now, a copy failed or stopped
half-way, or the Sync failed.

Left out: directories (`Mkdir`, the rename of a directory, which calls Sync
twice); operations before the first scan (they would write to a nil map; the
set-up code runs the first Sync before it hands the filesystem out); an error of
the scan, which ends the Sync before anything is changed; a failing `Lstat` or
`Chtimes` after a copy, which also makes Sync return an error and ends one of the
workers that copy (the model lets that Sync succeed, so `NotesGo` asks more of it);
and the data race of the scan that iterates over the map without its mutex, which
the Go runtime reports as a fatal error.

### IdbFS

A client runs from one `await` to the next without interruption (`turn`); it
gives the turn up when it waits for the database, which serves transactions in
the order of their creation (`queue`) and may abort one.  Every action starts
with `At(c, label)`, the place in the source the client has come to, so one
JavaScript function is several actions and a mutation between two awaits is seen
by nobody else, as in the code.  Metadata objects and byte arrays live in a heap
and are shared by reference between the cache, open files and calls, as the
code shares them.  A `Crash` (a reload of the page) drops the memory and the
transactions not yet served.  `want[p]` is history: what path `p` may hold
durably; `taint`, `odd` and `hwant` mark the paths that two callers use at once,
to which the properties do not apply.

### Duplex

Both ends run the same code; `chan[e][i]` is a channel object together with the
caller or responder that uses it, and `pc` the `await` it stands at.  Units of
data are named by their position in their stream.  Messages arrive in order (a
message port does that) and each is one step (`handle...`).  A read takes what is
there and grants it back in a second step, as the code awaits in between; a write
larger than the window is `parked` until `addWindow` wakes it.  A session may be
closed at any moment, a channel refused, a handler may throw, not exist, answer
before it has read its arguments, or go on writing after its answer.
`ChannelsAreStreams` is a refinement of `ByteStream`, for every direction of
every channel.

### Workers

`CallBuffer` is the protocol of a blocking call: the guest lowers a word, posts
and sleeps; the handler carries the call out, stores the answer, raises the word.
`WasiWorker` performs its steps together with those: `Ask` is a call, `Woken`
its continuation.  `frame` is the stack of the one operation that runs: a walk of
one or more paths (`leg` counts the walks, for `create`, `rename` and `link`), the
`stat` of several inodes, and what follows.  Every file operation of the shim
ends in such calls, and a listing, once read, is kept for a second: whether the
second has passed is left open at each use (`ListingKept`, `ReadListing`).
`Refuse` is an operation the shim answers at once.  `GojsWorker` keeps a bag of
calls, since the kernel serves them in any order; `Callback` is the continuation
of the `await`.  `SysApi` is the kernel's side as one atomic call, with memfs as
the file system that is bound: paths are sequences of names and the tree is flat,
as in memfs, so that a child may survive its parent.

Abstracted: contents and lengths (a read returns any number of bytes up to what
was asked for), times, modes; paths have no trailing slash and no `..`;
standard streams exist only as the kernel's descriptors 4 to 6; `rename` and
`link` name both paths from one directory.

### Codec, values, translation

`Cbor` is pure: `Encode` and `Decode` are recursive operators on sequences of
bytes, with the places where the code makes room or exchanges the buffer; `Codec`
runs an encoder through several calls, so that
every value is encoded at several positions.  `JsValues` is the machine around a
Go or TinyGo program: activations stack up when JavaScript calls back, the
program's memory may move while it does, and references are dropped in any order.
`Emitter` computes the Forth words of a tree; `Translation` runs them one word a
step as WAForth does and compares what is printed with `Prints`, the meaning of the
Go program.  A definition is compiled only if the dictionary knows each of its
words (`Known`): it has `<>` (`waforth.wat:627`) and no `<=` or `>=`.  Division and
remainder cut towards zero.  `S"` pushes an address and a length, `SCALL` pops two
cells for the name, and the function bound to `fmt.Println` pops one cell or two,
as it was written for numbers or for strings: this is chosen at the start
(`takes`), since the binding is the host's.  `Translatable` says which programs
`emit()` can translate for that binding.

## 3. Runs

Each passing run has a mutant for every property: a bug of the code that TLC
finds with that property under the same bounds.

| run | properties | shows |
|---|---|---|
| `shm_go_js` | `RingSpace` `UnreadIntact` `OneSizeNothingStale` `RingIsChannel` `RoomComes` | the checks `Write` makes on a tail that may be old keep every unread byte intact; the loop finds each frame again at a new cycle whatever a gap holds; the ring is a channel; a waiting writer gets room |
| `shm_go_js_gap` | `OnlyWhatWasSent` (violated) | with frames of several sizes the loop takes an old frame in a gap for a new one |
| `shm_js_go` | `StreamIsPayloads` `FramesDisjoint` `WaitEnds` | several waiting calls of `write()` never put frames over each other; reads of any size join to the payloads |
| `pipe_blocking` | `StreamKept` `EofMeansDrained` `NoSleepOverData` `ReadReturns` | a pipe is a stream, EOF is last, no wakeup is lost |
| `terminal` | `FramesInOrder` `NothingAfterClose` `SourceFollowed` | no resize is lost, doubled or swapped, none comes after Close; the element shows and types to the source it was given last |
| `winch_progress` | `CloseReturns` `EveryFrameArrives` | Close interrupts a waiting Read of a read-write file; bounded channels do not lock up subscribers that read |
| `syncfs_quiet` | `QuietMeansSame` | two clients create, open, write, remove and rename, with a handle that stays open over all of it: both sides agree once nothing is left to do, but for the exceptions section 4 describes |
| `syncfs_foreign` | `QuietMeansSame` `PullKeepsNewer` `NotesGo` | the same with another machine, calls that fail and copies that fail or stop half-way; a pull touches only what is older by two seconds; every note is pushed or cancelled |
| `syncfs_removed` | `RemovedStaysRemoved` (violated) | a synced file that is changed and removed comes back |
| `idbfs` | `CleanPathDurable` `FileReadsItsOwn` `RenameKeepsContent` `CacheCoherent` | a path with one user at a time is never torn, not by a reload either, whatever the users of other paths do; open files read what they wrote; the cache agrees with the store |
| `duplex` | `CreditKept` `AnswersBelong` `NothingLeaks` `CallsSettle` `ChannelsAreStreams` | the window is neither lost nor doubled; answers are whole and reach their own call; at rest every call is settled and every channel released |
| `runtime`, part workers | `AnswerIsMine` `GuestGoesOn` `ListingHolds` `NothingEmptied` `PositionsAgree` `CallsComeBack` `StaleFdFails` | the guest wakes to its own answer and sleeps only while one is owed; listings follow the file system; callbacks come; an old descriptor never reaches another open |
| `runtime`, part codec | `ValuesArrive` | values come back from their bytes at any position; views stay |
| `runtime`, part values | `RefsName` | references name what they were given until they are given back |
| `runtime`, part program | `MeaningKept` | a translatable program compiles, prints what the Go program prints and leaves the stack empty |

A type invariant is a conjunct of a stronger property where a run has one:
`TypeOK` of `Pipe` in `StreamKept`, of `ShmGoToJs` in `RingSpace`, of `ShmJsToGo` in `FramesDisjoint`, of
`Winch` in `FramesInOrder`, of `SyncFS` in `QuietMeansSame`, of `IdbFS` in
`CacheCoherent`, of `Duplex` in `CreditKept`, of `Workers` in `ListingHolds`.
`UnreadIntact` contains `NothingSkipped`.

`NothingLeaks` and `CallsSettle` are stated at rest (`AtRest`), not as liveness:
every message gives rise to a bounded number of others, so every run comes to
rest, and a state at rest with an unsettled call is a call that never settles.

Deadlock is not checked where the system may really stop: bounded inputs run
out, a closed pipe is idle, a panicked program has ended, a guest whose call was
refused, or whose answer did not fit, sleeps for ever.

### Bounds and why they are enough

* Rings: a block of 13 bytes, header 2, margin 1, `MaxMsgs` 5 or 6, frames of
  3, 5 and 6 bytes (3 and 5 in the other direction).  Two or more cycles are
  used, frames end at the end of the block, before it with room for a header,
  and with less; gaps hold bytes of older frames and blank bytes; the ring gets
  full and writers wait.  `Uint` is 400, so no position reaches half of it: the
  wrap at 2^32 and the signed reads above 2^31 are outside the run.  With
  `Uint = 40` the model shows that the page then computes negative positions.
  No message is empty and no frame longer than half the block: `Write` can
  refuse a longer one for ever, though the ring is empty.
* Pipe: a reader at each port, a second writer, `MaxBytes` 3, writes of 0, 1
  and 2 bytes, reads of 1 and 2: partial reads, wakeups without data, both
  directions, and either side closing first or both.
* Winch: a file of each kind, one slot per channel, so that channels get full at
  once; two frames per writer where order matters (`terminal`, where the
  read-write file is closed), one under fairness (where both are).
* Terminal element: two sources, two connects in a life, two chunks of each
  source, one key: enough for a second connect that overtakes the first at each
  of its awaits, for a source left and connected again, and for a key that two
  handlers see.
* SyncFS: `syncfs_quiet` has two paths (interchangeable, like the clients; its
  property is an invariant), two clients, a handle, three calls, three versions
  and no passing of time: a rename under an open handle that writes before or
  after it, two operations on one path whose notes come in the other order, and
  either of them beside a Sync.  `syncfs_foreign` has one path, two clients, a
  handle, two calls, three versions and three seconds, so that a file can be
  older by less than, or by just, the two seconds the code allows; there all that
  may fail fails, and another machine writes.  Any number of each is a matter of
  the theorems.
* IdbFS: two clients, three calls out of 14 on
  paths and 4 on open files, two files open at once (one from before),
  one fault (a reload, an aborted transaction or an eviction), a directory with a
  file whose content is a blob, contents of up to two blocks with the threshold
  at two, so that writing and truncating move a content between the stores.
  Clients are interchangeable.
* Duplex: a call from each end, windows and packets of two units, arguments of
  three, so that they exceed the window; one fault.
* Workers: two names, a directory in a directory, three trees to start from, 27
  operations and 11 requests; three operations of the guest alone, two with one of
  the Go program between their steps, four of the Go program (`Budgets`): three
  are an open, a use and a change behind it; four are what a stale descriptor
  takes.
* Codec: values at each length where a head, a guess or the buffer's size
  changes, each as first and as second value of an encoder.
* Values: one object and one string beside the predefined values, three
  references, three activations, one move of the stack, one timer.
* Translation: every three arithmetic operators in a row, chains of `else if`,
  `switch` in loops, pointers, structs up to five fields, negative numbers, and
  programs `emit()` does not handle, among them `<=`, a call that exits and one that
  prints a number and a string; each with a binding that pops one cell and with one
  that pops two.  Of 282 programs 262 are translatable for numbers and 9 for
  strings.  `MaxSteps` is not reached; numbers stay small, so that none wraps.

### Fairness

Only what the schedulers give.  Rings: `Write` spins until its deadline, the
loop re-arms itself, a timer of a waiting call fires, and the guest goes on
reading in `shm_js_go`.  Nothing is assumed of calls to `Write` or posts.
Pipe: a woken goroutine gets the mutex in the end and a Close that began ends;
nobody is obliged to read, write or close.  Winch: goroutines inside a call move
on, a contended mutex is handed over (strong fairness for Close: Go's mutex lets
a waiter through after a millisecond), and the `Eager` files are read again and
again, the hypothesis of `EveryFrameArrives`.  SyncFS (`syncfs_foreign`): the timer fires, a Sync
runs to its end, an operation that applied its change notes it.  The other
modules state no fairness and no liveness.

## 4. Findings

Two runs show that the code does not do what its comments or tests say.

* `shm_go_js_gap` (`chan.go:238`).  `Write` leaves the bytes in a gap as they
  are.  `chan.go:237` calls the gap safe to skip and `chan.js:108` recognises one
  only by a length that does not fit.  A gap that begins where an older, shorter
  frame began is read as that frame: its message is posted again.
* `syncfs_removed` (`syncfs.go:367`).  The note of a removal cancels the note of
  a write, "since file never synced" (`syncfs_test.go:702`); but a file that was
  synced, then changed and removed before the next Sync is on the remote, the
  removal is forgotten and the next Sync pulls the file back.

The properties of the passing runs name their exceptions, and the models do what
the code does outside them too.  Several hazards lie, in their worst case, in just
the part a property excepts, because there the code really does the wrong thing: a
frame of more than half the block, a write that is overtaken, a subscriber that does
not read, changes beside a Sync or after a failed one, objects that several calls
share, a session cut within an answer, a call without a handler, a listing that is
older than a file, a refused call, a position the kernel does not know, an empty
directory, and connects that overlap.  For them the property says that nothing else
is lost, and the note of the hazard in `PROJECT.json` says what is.  What a user of the code should know:

**Rings.**  A message that meets the end of the block while the tail is near its
start is dropped at once, since the retries never yield (`chan.js:178`).  Positions
wrap at 2^32, which is no multiple of the block (`chan.go:208`), and the page
reads them as signed numbers (`chan.js:37`).  A message of no bytes looks like a
gap (`chan.go:142`).

**Pipe.**  A Read that leaves bytes behind signals nobody (`buffer.go:50`): two
readers of one Buffer may leave one asleep over data.

**Winch.**  A broadcast panics when a subscriber closes between `WritePick` and
`WriteSend` (`winch.go:57`).  A Read after Close of a read-only file subscribes
a channel nobody removes (`winch.go:121`).

**Terminal element.**  Two overlapping connects register the key handler twice,
so each key is typed twice, and leave the first reader running beside the second
(`terminal.js:104`).  The streams have no cancel or close handler: no descriptor
is ever closed, and the read that was pending when a reader was cancelled
swallows the next chunk.  Removing the attribute `src` keeps the old connection;
an element removed in the middle of a connect keeps its reader and writer.

**SyncFS.**  A change noted while a Patch is under way is lost with the map
(`syncfs.go:263`); after a failed Sync nothing schedules another
(`syncfs.go:375`); a file truncated by `OpenFile` without `O_CREATE` and closed
without a write is never noted (`syncfs.go:468`).  A handle whose file was renamed
notes the old name when it is closed (`syncfs.go:682`): what it wrote after the
rename was pushed stays here, and the old name, which is missing, makes the next
pushes fail.  A copy of a pull that fails is logged and skipped
(`syncfs.go:290`), and when `io.Copy` fails half-way not even that
(`fs/copy.go:157`): the first part of the file then has the remote's time, so the
scan does not take it again.  A Sync pulls what is two
seconds newer on the remote even if it has a note to push (`syncfs.go:115`): when
an older file is renamed over such a path, push and pull run side by side, and
the rename is undone or the two sides end up different.  Two operations on one
path may note it in the other order than they changed it: when a Create follows a
Remove and notes first, the removal cancels the note and the new file is never
pushed (`syncfs.go:367`).

**IdbFS.**  Renaming a directory deletes the blobs of the large files below it
(`idbfs.js:496` runs before 889).  Renaming a file to itself deletes it; renaming
a directory into itself orphans it; creating a file over a directory orphans its
children.  `O_TRUNC` on a large cached file leaves its blob behind (654-658).  A
large file reached by a symbolic link is looked up under the link's path (999,
779).  `File.read` marks a file dirty (1059), so closing an old reader rolls
newer contents back; closing a removed or renamed file makes it again (1010).
Open files share cached metadata with everybody: sizes are seen before they are
committed.  `remove` beside `chmod` of one path brings the row back, two `mkdir`
may both succeed, `create` beside the removal of the directory leaves an orphan
(546).  No transaction has an `onabort`: the call then waits for ever.

**Duplex.**  A handler that throws leaves its caller waiting and its channel open;
errors of `handle` end the session's loop.  A call answered before its arguments
were read may be rejected with "EOF" or stay parked.  A session cut between the
header of an answer and its value resolves the call with null.  `Session.close`
does not tell the peer, and `accept`, `open` and a parked writer hang.  `shift` of
a closed queue returns null though items remain.  The length of a value is
expected in one read; two writers of one channel mix their packets.

**WASI worker.**  A refused call never raises the word, so the guest sleeps for
ever (hence `lost` in `GuestGoesOn`); so does one whose answer, a long listing, is
larger than the shared buffer (`AnswerThrows`, `callbuffer.ts:34-36`); `fd_sync` is
always refused.  `rename`
deletes the file, since `createLink` returns false, and `link` links nothing, yet
both succeed.  `fd_close` leaves the kernel's descriptor open.  Reads over 16360
bytes lose bytes.  Append moves the shim's position only.  Opening a directory
with `O_TRUNC` replaces it; two opens of one file share the later descriptor; a
rename onto a directory that was never listed traps.

**Go worker.**  `fchmod`, `fchown` and `ftruncate` act on the path a file was opened
by: after a rename they reach whatever has that path now.  `unlink` is the
kernel's `RemoveAll`: it deletes a directory with what is in it
(`gojs/worker/worker.js:370`).  `readdir` of an empty directory never calls back.
The exit file may be written before the writes that are pending (594).  `fsync`
succeeds without a call.  A time of a whole number of seconds is encoded as an
integer, which `api/chtimes.go` does not expect: the assertion panics.

**Codec.**  A nested iterable that ends exactly where the buffer ends loses its
second end mark; an object with 65536 keys or more wraps its two-byte count; a
string of more than 64 bytes loses a leading byte-order mark; `__proto__` becomes
`__proto_`; -0 becomes 0; release 1.4.1 refuses bigints beyond 64 bits and
misreads them.

**JavaScript values.**  In the WASI worker `proc_exit` from a timer or a resumed
callback throws where nobody catches it, and inside a nested callback
`valueCall` catches it: the exit is not reported.  `exited` is never set there.
In Go's, an exit inside a nested callback rejects `run()`, and the tables are
deleted, so that later imports throw.  A bigint gets the type flag 0.

**emit().**  Parentheses are dropped; `&&`, `||` and `!` have neither a precedence
nor a word; `-x` is a subtraction with one operand; `*p + 1` loads from the sum;
two variables of one name in nested blocks are one; `var x` in a loop is not set
back to zero; `for cond {}` gets no condition; a `switch` without an expression,
or with several values in a case, breaks the stack; a struct has room for four
fields, and one named `size` is hidden by the constant of that name; `<=` and `>=`
are written as they are, words WAForth does not have, and the definition is not
compiled; a binding of `fmt.Println` pops a number or a string, so a program that
prints both, as the sample of `HeadfulHarness.tsx:57-77` does, leaves a cell on the
stack or takes one that is not its own; `return` writes nothing though `EMITTER_SPEC.md:37` names `EXIT`; arguments
of functions are never stored and a call of the program's own function goes to
the host; `x += 1` and `a, b := 1, 2` are not translated.  `Translatable` leaves
these programs out, and the run executes some of them.

These are read off the code while it was modelled.  Only the first two are
findings of a run: for the others the repository states no expectation, or the
case is outside a property by name.

## 5. Proofs

The proofs hold for every value of the constants that satisfies the assumption of
the module.  `tlapm` checks every leaf; nothing is assumed without proof.  The
induction theorems of the library take an operator, which the provers cannot
instantiate; where recursion over data must be unfolded, the lemma `Induction` is
used instead: a set that holds 0 and with each number the next holds them all.  It
follows from the well-foundedness of inclusion between finite sets.

**`PipeProofs`**, from `PipeAssumption` (ports are 1 and 2, sizes are numbers, a
Read has room for a byte), for every set of threads:

* `TypeCorrect`: `Spec => []TypeOK`.
* `StreamCorrect`: `Spec => []StreamKept`.  No byte is lost, repeated or swapped.
* `EofCorrect`: `Spec => []EofMeansDrained`.
* `NoLostWakeup`: `Spec => []NoSleepOverData`.

Each invariant is inductive together with `TypeOK`, which is therefore stronger
than types: only threads that call Read are ever asleep, with the size of their
buffer (without it a sleeper that no Signal may wake would be possible).  The
core of `StreamCorrect` is that a Read splits the Buffer (`ReadSplits`:
`SubSeq(s, 1, m) \o SubSeq(s, m + 1, Len(s)) = s`) and that a Write appends the
next numbers (`BytesConcat`); of `EofCorrect`, that Write refuses a closed Buffer
and nothing else fills one; of `NoLostWakeup`, that the one sleeper a Signal may
wake is the only reader of that Buffer.  The latter is the hypothesis
`OneReaderPerPort`, which the code's users satisfy and which is needed: with two
readers a Read that leaves bytes behind wakes nobody.

**`RuntimeProofs`**, of the blocking call, for every set of tags:

* `AnswersMatch`: `BufferSpec => []AnswerIsMine`.  The guest decodes the answer to
  its own call and to no other.
* `NoLostCall`: `BufferSpec => []GuestGoesOn`.  A guest that sleeps is owed an
  answer, which is on its way, unless its call was refused.

Neither is inductive.  The invariant adds where the one outstanding call may be:
in the mail, with the handler, or stored, in one of these places only, always
under the guest's own tag, and only while it waits with the word down (`OneCall`);
and that what is stored or announced is the answer to that tag (`Announced`).
`Wake` then finds every place empty, so the next `Call` starts clean.  The
specification of `Workers` uses the steps of `CallBuffer` as they are; there the
properties are checked together with what the calls do.

Of the two workers, from `RequestsAssumption` (a request is a record with the fields
of a call), for every set of paths and requests and any order of answers:

* `CallsReturn`: `Spec => []CallsComeBack`.  A call of the Go program ends with its
  callback or with the program; what errback drops had listed an empty directory.
* `StaleRefused`: `Spec => []StaleFdFails`.  A call on a descriptor reaches the file
  the descriptor was opened for, or is refused, however late it is served.

Both follow from `GojsInv`, about the descriptor table and every call between its
request and its callback (`CallOK`): a descriptor is the number of the open that
gave it, and all are below the next number, so none is given twice (`TableOK`);
a call keeps the number it was made with and its outcome names the same
one.  What each of the kernel's calls may change of the table, and that it says
which open it reached, is one lemma over all of them (`OutcomeShape`).  `Spec` is that of
`Workers`, with the steps of the WASI task between those of the Go program; these
leave what the invariant is about alone.

Of the WASI guest in the same `Spec`, from `PathsAssumption` (finitely many paths, so
a listing is finite) and `WasiAssumption` (an operation is a record with the fields
of one, its descriptor and its length numbers):

* `PositionsKept`: `Spec => []PositionsAgree`.  Between two operations the position
  the shim keeps of a file is the kernel's offset, for every file opened once, never
  positioned otherwise and accessed in pieces that fit the buffer.

`PositionsAgree` is not inductive: the offset moves when the kernel serves the call,
the position when the guest wakes, and steps of the guest, the handler and the Go
program lie between.  `WasiInv` says that the kernel is ahead of the shim by just the
answer on its way (`InStep`).  To keep that, an answer must find the descriptor it is
for: the call on its way is that of the phase the operation is in (`AskedOK`), and its
answer is of that kind (`AnswerOK`); what a phase needs of the object it works on is
there (`FrameOK`), though a directory read anew makes new objects; no two objects
have one handle (`OwnHandle`); and a file opened once has one descriptor (`OneEach`,
which counts the open that has its handle and not yet its descriptor).  One lemma
per way an operation goes on then covers its steps: going on with the same
descriptors, a new descriptor, an answer taken, a call served.

Of the values of a Go program, from `ValuesAssumption` (no object or string is one of
the seven values that are there from the start):

* `RefsKeepNaming`: `JsSpec => []RefsName`, for `Go` and `TinyGo` alike.  What the
  program holds names what it was given, though ids are freed and given again.

The invariant `JsInv` has the table as a bijection: a value with an id is the value
of that id (`IdsName`), an id in use is the id of its value and the others are in
the pool (`IdsUsed`), each once (`PoolOnce`), and the first seven stay (`FirstSeven`).
`RefsInv` says that each reference held is the one its value has now and that the
count of an id is how often the program holds it; hence an id comes back to the
pool with the last reference and not before.  References are a bag, because the
program may hold one several times; what adding one to it or giving one back does to the
counts is proved from the definitions of `Bags`.

**`ShmGoToJsProofs`** (with the lemmas of `ShmRingLemmas`), for every block, header,
margin, set of lengths, content of gaps and number of messages, from
`RingAssumption` and two hypotheses each theorem names: `NoEmptyMessage` (no length
is 0: an empty message looks like a gap) and `NoWrap` (`MaxMsgs` messages of at
most two blocks each, a gap and a frame, stay below half of `Uint`, where the
page begins to read positions as negative numbers).

* `SpaceCorrect`: `Spec => []RingSpace`.
* `UnreadCorrect`: `Spec => []UnreadIntact`.
* `RingImplementsChannel`: the safety part of `RingIsChannel`; every step is a
  step of `MsgChannel` or leaves `accepted` and `delivered` as they are.  It holds
  for frames of any sizes: what the loop posts out of a gap is in `stale`.

The inductive invariant `RingInv` adds to the two properties that the published
frames stand in a row inside the block, each where the one before it ends or at
the next cycle (`InLine`); that what `Write` is copying goes where the head will be
moved from (`InPlace`) and stands there once copied (`Copied`); that the tail has
not passed a frame that was not posted (`Ahead`), so a post takes the next one
(`InOrder`); and that positions grow by two blocks a message (`BelowWrap`).  The
hard steps: `WriteAttempt` decides on a tail the loop may move on afterwards,
which only makes more room (`RoomAtStart`, `StartRoom`: a frame put at the start
of a cycle needs room for the gap too, and gets it because the place of the tail
is compared); `WriteCopy` writes no byte of an unread frame, since two positions
less than a block apart have different places (`Untouched`); and `JsPoll`, wherever
its tail stands in a gap, stops at or before the start of the next cycle, whatever
the bytes of the gap spell (`GapStep`).

* `NothingStale`: `Spec => []OneSizeNothingStale`.  With frames of one size the loop
  never takes bytes of a gap for a frame, so nothing is posted that was not sent.

What the gaps hold is old frames, and the invariant `SizeInv` says why none of them is
met: bytes outside the frames were never written since the start (`Written`), a gap
is left only before a frame that would not fit (`OnlyWhenFull`), so frames of one
size stand at multiples of that size in their cycle (`Slots`) and a gap begins
where no frame of an earlier cycle fitted either; its header is blank (`GapIsBlank`).
The loop stands at the next frame or where the last one ended (`AtEnds`).

**`ShmJsToGoProofs`**, with the same lemmas and from the same hypotheses:

* `FramesStayApart`: `Spec => []FramesDisjoint`.  Calls of `write()` that wait for
  room and wake in any order never share a byte of what the guest has not read.

Here several writers wait and the guest takes bytes, not frames.  The inductive
invariant `RingInv` says that the frames put so far stand in a row up to the head
(`InLine`), with at most a block in use (`InBlock`); that for some `n` the guest has
taken the first `n` frames, or all of one and part of its payload, the others
stand intact in memory, and its tail comes upon the next one (`Unread`); and that
each message waits, was given up, or is a frame, so frames are at most `MaxMsgs`
and positions stay where the page reads them as positive (`BelowWrap`).  The hard
steps: a message that no longer fits before the end of the block goes to the next
cycle (`TryCases`, `StartRoom`); `put` leaves the unread frames alone (`PutKeeps`, by
`Untouched`); a `Read` with its tail in a gap never goes past the next frame
(`GapStep`), and one at a frame reads its true header (`HeaderDecodes`).

* `StreamCorrect`: `Spec => []StreamIsPayloads`.  With frames of one size the guest
  reads the payloads of the accepted messages one after the other, however its
  reads are cut, and whichever calls wait.

The invariant `StreamInv` says that for some `n` the guest has taken `n` frames and
nothing else (`Taken`): the tail is at the next one or where the last one ends, and
what `Read` returned with what it keeps is the first `n` payloads.  A gap is passed
without a byte for the reason `NothingStale` gives (`GapIsBlank`).  `FlattenSeq` of
the library is recursive; that one frame more appends one payload (`PayloadsNext`),
and so the first `n` payloads are a prefix of all (`PayloadsBegin`), is proved by
the lemma `Induction`.

**`TerminalProofs`**, of the broadcast, from `WinchAssumption` (finitely many files, room for a frame in
each channel):

* `SilentAfterClose`: `Spec => []NothingAfterClose`.  A read-only file keeps its
  mutex from the test of `closed` to the return, so no Close comes between
  (`ReadHolds`); a read-write file does not, and is right only because it tests
  again when it has received.
* `NoFrameLost`: `Spec => []FramesInOrder`, for any number of frames and any size of
  the channels.  The invariant `HearsAll` accounts for every frame an open file was
  due: what its Reads returned, what is in its channel and what a goroutine holds
  make up, in this order, what was meant for it since it opened, but for the frame
  a running broadcast has still to send it; `Stages` says that only one broadcast
  runs at a time, over files it found open.

What was meant for a file is selected from the history by `From`, a recursive
function over positions.  That such a function exists, and is determined, is
proved by the lemma `Induction`.

Of the element on the page, for any set of sources and any number of
connections, chunks and keys:

* `ElementFollows`: `TerminalSpec => []SourceFollowed`.  Unless two connections
  overlap, which the code allows and the property excepts, the screen shows the
  source connected last, its chunks in order, without a hole if it was connected
  once, and each key goes to that source once.

`TerminalInv` says that while no two connections have overlapped, at most the last one
is under way, and the element has of it what its step has reached
(`OneConnecting`); that every other stream is cancelled, so only the element's own
reader delivers, with a loop only while the element is in the page (`OneReader`);
that the chunk a stream has read ahead is later than all that was shown of its source
(`ChunksInOrder`), and for a source connected once is the only one not shown
(`NoHoles`), since such a source has one stream (`SoleStream`).  The last part is why
the property speaks of sources connected once: a stream given up keeps the chunk
it has read ahead.

**`SyncFSProofs`**, from `SyncAssumption`, for every set of paths, clients and handles and
any number of calls, versions and seconds:

* `PullsOnlyNewer`: `Spec => PullKeepsNewer`.
* `QuietCorrect`: `Spec => []QuietMeansSame`.

Neither has a hypothesis: handles are open, files are renamed, removed and replaced
under them, files are truncated as they are opened, calls and copies fail, copies
stop half-way, and another machine writes.  What these can do to a path is in the
exceptions of `QuietMeansSame`, and the theorem says that nothing else can: `adrift`
is needed because what another machine writes within two seconds, what a handle
writes to a renamed file and what a torn copy leaves is noted nowhere.

For the first, the invariant `PullInv` says of each path still to be pulled, and
not raced, that it is on the list the remote gave, that its file here is absent
or two seconds older than that, and that the push removes no such path (`Pull`).
For the second, `QuietInv` says where the difference between the two sides is kept at every
moment: between two Syncs a path that differs has a note, or an operation or a
modified handle that will note it, or is adrift, or missing here and about to be pulled, and
a note means that a Sync is on its way (`Waiting`); while a Sync runs the difference is in
its archive or among its pulls, never in both (`Moving`); and a removal is noted
only of a file that is gone (`NotesTrue`), which is why the note that cancels a
write loses nothing on this side.  Each step is proved for the paths that no
history variable excepts; `OpsSpare` shows that an operation beside a Sync leaves
those alone.

**`DuplexProofs`**, from `DuplexSizes`, for every number of calls between the two
ends, any frames, windows and packets, and any order in which channels are opened,
refused, written, read and closed and sessions are closed:

* `CreditCorrect`: `Spec => []CreditKept`.  Credit is neither lost nor made up: what
  a writer may still send, the bytes and the credit on the wire, and what the reader
  has not granted again make one window, so a peer never writes too much.

The inductive invariant `CreditInv` rests on five facts about the two tables and the
two wires together (`Good`).  A channel is sound by itself: it grants again just
what was taken from its buffer, until it sends Close (`Sound`).  Two channels that
name each other balance (`Pairs`).  Each message on the wire is about channels in a
state that makes sense of it: an open of a caller nobody answers yet, a confirm of a
responder that has done nothing so far, data of two channels that know each other
(`Tells`).  No two messages answer one open, and no data follows its eof (`Ordered`).
And a channel has a peer of its own (`Apiece`).  `Good` is stated of any messages and
channels, since a step of the code is several of the proof: a message is taken
(`Take`, `Confirm`, `Offer`), the channel then acts and may send one message (`Act`),
a channel is added (`Add`), and a session that closes shuts its channels down one by
one (`ShutAll`, by `Induction`).  What the functions of `Channel` do to one channel is
proved apart from the tables (`Move`: `TryWriteMove`, `ReadMove`, `ShutdownMove` ...).
The bytes on a wire are a recursive sum; that a message appended or taken changes it
by its own weight (`UnitsAppend`, `UnitsTail`) is proved by `Induction`.

Only model-checked: all liveness (`RoomComes`, `WaitEnds`, `ReadReturns`,
`CloseReturns`, `EveryFrameArrives`, `NotesGo`, the fairness of `RingIsChannel`),
since the provers treat neither fairness nor `ENABLED`, of which `NothingLeaks`
and `CallsSettle` of `Duplex` speak;
`AnswersBelong` and the refinement `ChannelsAreStreams` of `Duplex`; `IdbFS`; of
`Workers`, `ListingHolds` and `NothingEmptied`, which speak of a tree of directories
and need one, a file in no place without its directories, that the code does not
keep; and what `Cbor`, `Emitter` and `Translation`
compute, most of which is recursive over data.

## 6. Not modelled, and plan

Not modelled, beside what sections 2 and 5 name:

* *The page* (`runtime.js`, `wio.js`, `helpers.js`, `index.ts`, `input.js`,
  `elements/workbench.js`, `elements/system.js`): start-up and views; what they do
  with a handle is `Duplex` and `TerminalElement`.
* *The service worker* (`assets/wanix-sw.js`): a request over a message channel of
  its own per fetch, dropped after a second.  Its life is the browser's.
* *The emulator and its worker* (`libv86.mjs`, `offscreen.js`), `deps/waforth` but
  for the words of section 2, `deps/go2json`: third-party code and parsers.
* *The page of gowaforth* (`HeadfulHarness.tsx`) but for its copy of `emit()`: two
  pushes share a repository and its HEAD, an error after the push leaves the
  branch, and after twenty polls the branch is removed under a running build; all
  of it is in the hands of a Git server.
* *Of the workers*: `cleanpath` and the working directory, symbolic links, polling
  of descriptors; *of the system calls*: a call of the kernel is
  one step, so `RemoveAll` is not seen half done by the other task, and a file
  that `OpenFile` creates with a mode is not changed and opened again; *of IdbFS*: the migration from version 1, `readlink`, `readdir`,
  `fstat`, aborted reading transactions; *of the codec*: short floats, records,
  packed values, errors and dates with fractions; *of the values*: properties
  whose getters call the program.
* *Adapters*: `p9kit`, `fusekit`, `r2fs`, `localfs`, `tarfs`, `fsa`, `caches`, `dl`,
  `dom`, `net/tcp`: they hand calls to services that are not in the repository.

Hazards of parts without a model, for which there is no property: deletions
`cowfs` keeps in memory and a restart (`cowfs.go:459`), an answer of the metadata
cache that is older than an invalidation (`metacache.go:196`), the closer of a task
(`proc.go:140`), unlocked counters (`service.go:43`), the map `Sync` walks without
its lock (`syncfs.go:196`) or that is not there yet (`syncfs.go:370`).

Plan, in this order:

1. `Task` on `Pipe` (exit, the closer's goroutine, the polling loop of
   `shell/wexec`) and `Term` (removal at EOF, which `term_test.go:67-107` expects
   and `service.go` has commented out).
2. `CowFS` over base, overlay and tombstones, a refinement of a plain filesystem,
   with a restart that reloads the log.
3. `MetaCache` with the cacher of httpfs: no answer older than an invalidation.
4. `Namespace`: bind, unbind and resolution against a reference definition.
5. `KernelBus`: the message bus of the dungeon kernels and its allocator.
6. Directories in `SyncFS`.
7. Proofs: `ChannelsAreStreams` of `Duplex`, for which `CreditInv` needs the bytes
   on the wire beside their number; `AnswersBelong` from that; `CacheCoherent` of
   `IdbFS`.
