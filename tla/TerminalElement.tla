--------------------------- MODULE TerminalElement --------------------------
(***************************************************************************)
(* The <wanix-terminal> element (elements/terminal.js) on the streams that *)
(* WanixHandle makes of a file (handle.js): what the file its attribute    *)
(* src names gives out appears on the screen, and keys go to it.           *)
(*                                                                         *)
(* _connectToSource awaits the system and two files, and meanwhile the element *)
(* may be moved, removed or given another source; the kernel answers the   *)
(* reads of all streams in any order.  A stream asks for a chunk ahead of  *)
(* its reader (high-water mark 1), and goes on asking for one when its     *)
(* reader has been cancelled: nobody closes the file.                      *)
(*                                                                         *)
(* The system the attribute `for' names is there; a second file of the     *)
(* same name continues where the first has read, as the pipes of terminals *)
(* do (Pipe).  Not modelled: appearance, fitting, a write that fails.      *)
(* Bounds: MaxConnects, MaxChunks of each source, MaxKeys.                 *)
(***************************************************************************)
EXTENDS Naturals, Sequences, FiniteSets, SequencesExt

CONSTANTS Sources, MaxConnects, MaxChunks, MaxKeys

VARIABLES
  element,    \* the element's fields; listens: handlers registered with onData
  connects,   \* the calls of _connectToSource and the await each has come to
  streams,    \* the ReadableStreams; loops: how many _readLoop await its reader
  writers,    \* the WritableStreams and the keys each is to write
  given,      \* how many chunks each file has given out
  screen,     \* history: the chunks shown, and what was connected last then
  typed,      \* history: what was connected last as each key was typed
  overlap     \* history: a _connectToSource began while another was under way

terminalVars == <<element, connects, streams, writers, given, screen, typed, overlap>>

TerminalInit ==
  /\ element = [in |-> FALSE, src |-> "none", reader |-> 0, writer |-> 0,
                listens |-> 0, disposable |-> FALSE]
  /\ connects = <<>> /\ streams = <<>> /\ writers = <<>>
  /\ given = [s \in Sources |-> 0]
  /\ screen = <<>> /\ typed = <<>> /\ overlap = FALSE

LastSource == IF connects = <<>> THEN "none" ELSE Last(connects).src

-----------------------------------------------------------------------------
(* What the page does to the element *)

\* Mutant: the handler of the old connection stays registered.
UnboundStillListening(e) == [e EXCEPT !.reader = 0, !.writer = 0, !.disposable = FALSE]

Unbound(e) == [e EXCEPT !.reader = 0, !.writer = 0, !.disposable = FALSE,
                        !.listens = IF e.disposable THEN @ - 1 ELSE @]
Cancelled(r) ==
  IF r = 0 THEN streams
  ELSE [streams EXCEPT ![r].open = FALSE, ![r].loops = 0, ![r].queue = <<>>]

\* _disconnectFromSource.  What a closing writer was given is still written.
DisconnectFromSource(e) ==
  element' = Unbound(e) /\ streams' = Cancelled(element.reader)

\* _connectToSource up to its first await, on the element's new fields.
ConnectToSource(e) ==
  \/ /\ e.in /\ e.src # "none"
     /\ Len(connects) < MaxConnects
     /\ DisconnectFromSource(e)
     /\ connects' = Append(connects, [src |-> e.src, at |-> "readable"])
     /\ overlap' = (overlap \/ \E i \in DOMAIN connects : connects[i].at # "done")
  \/ /\ ~(e.in /\ e.src # "none")
     /\ element' = e
     /\ UNCHANGED <<connects, streams, overlap>>

ConnectedCallback == ~element.in /\ ConnectToSource([element EXCEPT !.in = TRUE])

DisconnectedCallback ==
  /\ element.in
  /\ element' = [Unbound(element) EXCEPT !.in = FALSE, !.listens = 0]
  /\ streams' = Cancelled(element.reader)
  /\ UNCHANGED <<connects, overlap>>

\* Without a source it stays connected to the one it had.
SrcChanged == \E s \in (Sources \cup {"none"}) \ {element.src} :
                ConnectToSource([element EXCEPT !.src = s])
ForChanged == element.in /\ ConnectToSource(element)

Page ==
  /\ ConnectedCallback \/ DisconnectedCallback \/ SrcChanged \/ ForChanged
  /\ UNCHANGED <<writers, given, screen, typed>>

-----------------------------------------------------------------------------
(* The rest of _connectToSource *)

Reach(i, await) == connects' = [connects EXCEPT ![i].at = await]

\* readable(fd) asks for its first chunk at once; _readLoop ends at once
\* without a screen.
OpenedReadable(i) ==
  /\ connects[i].at = "readable" /\ Reach(i, "writable")
  /\ streams' = Append(streams, [src |-> connects[i].src, open |-> TRUE, pull |-> "asked",
                                 chunk |-> 0, queue |-> <<>>,
                                 loops |-> IF element.in THEN 1 ELSE 0])
  /\ element' = [element EXCEPT !.reader = Len(streams')]
  /\ UNCHANGED writers

\* this.term.onData throws without a screen.
OpenedWritable(i) ==
  /\ connects[i].at = "writable" /\ Reach(i, "done")
  /\ writers' = Append(writers, [src |-> connects[i].src, keys |-> <<>>])
  /\ element' = [element EXCEPT !.writer = Len(writers'),
                                !.listens = IF element.in THEN @ + 1 ELSE @,
                                !.disposable = @ \/ element.in]
  /\ UNCHANGED streams

OpenFails(i) ==
  /\ connects[i].at \in {"readable", "writable"} /\ Reach(i, "done")
  /\ UNCHANGED <<element, streams, writers>>

Connecting ==
  /\ \E i \in DOMAIN connects :
       OpenedReadable(i) \/ OpenedWritable(i) \/ OpenFails(i)
  /\ UNCHANGED <<given, screen, typed, overlap>>

-----------------------------------------------------------------------------
(* Chunks and keys *)

Shown(src, n) == [src |-> src, n |-> n, last |-> LastSource]

\* One _readLoop, woken with a chunk of stream n, shows it and reads on from
\* the reader the element has now, which may be another stream's.
LoopOn(n) ==
  LET st == streams[n]
      r == element.reader
      served == [streams EXCEPT ![n].pull = "asked", ![n].loops = IF r = n THEN @ ELSE @ - 1]
      ahead == IF r \in {0, n} THEN <<>> ELSE streams[r].queue
      all == <<Shown(st.src, st.chunk)>> \o [k \in DOMAIN ahead |-> Shown(streams[r].src, ahead[k])]
  IN /\ streams' = IF r \in {0, n} \/ ~streams[r].open THEN served
                   ELSE [served EXCEPT ![r].queue = <<>>, ![r].loops = @ + 1,
                                       ![r].pull = IF @ = "idle" THEN "asked" ELSE @]
     /\ screen' = IF element.in THEN screen \o all ELSE screen

\* The kernel's answer to the read of a stream.
ChunkArrives(n) ==
  /\ streams[n].pull = "got"
  /\ \/ /\ ~streams[n].open
        /\ streams' = [streams EXCEPT ![n].pull = "idle"] /\ UNCHANGED screen
     \/ /\ streams[n].open /\ streams[n].loops = 0
        /\ streams' = [streams EXCEPT ![n].pull = "idle", ![n].queue = <<streams[n].chunk>>]
        /\ UNCHANGED screen
     \/ streams[n].open /\ streams[n].loops > 0 /\ LoopOn(n)
  /\ UNCHANGED given

ReadServed(n) ==
  LET f == streams[n].src IN
  /\ streams[n].pull = "asked" /\ given[f] < MaxChunks
  /\ streams' = [streams EXCEPT ![n].pull = "got", ![n].chunk = given[f] + 1]
  /\ given' = [given EXCEPT ![f] = @ + 1]
  /\ UNCHANGED screen

\* The read returns null, or fails: the stream ends and so do its loops.
StreamEnds(n) ==
  /\ streams[n].pull = "asked" /\ streams[n].open
  /\ streams' = [streams EXCEPT ![n].pull = "idle", ![n].open = FALSE, ![n].loops = 0]
  /\ UNCHANGED <<given, screen>>

Output ==
  /\ \E n \in DOMAIN streams : ChunkArrives(n) \/ ReadServed(n) \/ StreamEnds(n)
  /\ UNCHANGED <<element, connects, writers, typed, overlap>>

\* Every registered handler writes the key to the writer the element has now.
Input ==
  /\ element.in /\ Len(typed) < MaxKeys
  /\ typed' = Append(typed, LastSource)
  /\ writers' = IF element.writer = 0 THEN writers
                ELSE [writers EXCEPT ![element.writer].keys =
                        @ \o [k \in 1..element.listens |-> Len(typed')]]
  /\ UNCHANGED <<element, connects, streams, given, screen, overlap>>

TerminalNext == Page \/ Connecting \/ Output \/ Input

(***************************************************************************)
(* Properties                                                              *)
(***************************************************************************)

Increasing(s) == \A i, j \in DOMAIN s : i < j => s[i] < s[j]
Once(s) == Cardinality({i \in DOMAIN connects : connects[i].src = s}) = 1

\* Nothing of a source appears after the element was given another.  Chunks of
\* one source appear in its order, without a hole unless it was left and
\* connected again: the stream given up then swallows one.
ScreenFollows ==
  /\ \A i \in DOMAIN screen : screen[i].src = screen[i].last
  /\ \A i, j \in DOMAIN screen :
       i < j /\ screen[i].src = screen[j].src => screen[i].n < screen[j].n
  /\ \A i \in DOMAIN screen : Once(screen[i].src) =>
       \A n \in 1..screen[i].n :
         \E k \in 1..i : screen[k].src = screen[i].src /\ screen[k].n = n

\* A key goes to the source connected last when it was typed, and goes once.
KeysFollow ==
  \A w \in DOMAIN writers : LET keys == writers[w].keys IN
    Increasing(keys) /\ \A i \in DOMAIN keys : typed[keys[i]] = writers[w].src

\* The terminal is the source's it was given last, however sources are
\* changed and the element moved, as long as each connection is made before
\* the next begins (if not, keys go twice and chunks are mixed).
SourceFollowed == ~overlap => ScreenFollows /\ KeysFollow
=============================================================================
