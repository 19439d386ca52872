------------------------------- MODULE Duplex -------------------------------
(***************************************************************************)
(* The RPC between a worker and the page: the duplex library bundled in    *)
(* runtime/wasi/worker/lib.js and runtime/gojs/worker/lib.js, on top of    *)
(* which WanixHandle offers the file system to a process.                  *)
(*                                                                         *)
(* A session multiplexes channels over a message port.  A channel is a     *)
(* pair of byte streams with a window each: write() sends what the peer    *)
(* has granted and waits for more, read() grants what it took.  A call     *)
(* opens a channel, writes two frames (selector and arguments), reads two  *)
(* (header and value) and closes the channel; the responder does the       *)
(* reverse.                                                                *)
(*                                                                         *)
(* Both ends run the same code.  chan[e][i] is channel object i of end e,  *)
(* i being its index in the array channels (localId), together with the    *)
(* one caller or responder that uses it: pc is the await it has come to.   *)
(* Bytes are counted in units, and a unit is named by its position in its  *)
(* stream.  A frame is read in as many reads as it takes; that its length  *)
(* prefix is read by the first of them is left out.  The promise of a send *)
(* is settled before the next message is handled, so a write and its       *)
(* continuation are one step.                                              *)
(***************************************************************************)
EXTENDS Naturals, Sequences, FiniteSets

CONSTANTS Ends,       \* the two ends of the port
          Calls,      \* the calls made
          Caller,     \* the end that makes each
          FrameSize,  \* units of each frame of each call
          Packet,     \* channelMaxPacket
          Window,     \* channelWindowSize
          Answers,    \* what the handler of each call may do
          Closers,    \* the ends whose session may be closed
          MaxFaults   \* bound: sessions closed and channels refused

Frames == {"sel", "arg", "hdr", "val", "more"}

ASSUME DuplexSizes ==
    /\ IsFiniteSet(Ends) /\ Cardinality(Ends) = 2
    /\ IsFiniteSet(Calls) /\ Caller \in [Calls -> Ends]
    /\ FrameSize \in [Calls -> [Frames -> Nat \ {0}]]
    /\ Packet \in Nat \ {0} /\ Window \in Nat /\ Window >= Packet
    /\ Answers \in [Calls -> SUBSET {"value", "error", "continue", "throw", "not found"}]
    /\ Closers \subseteq Ends /\ MaxFaults \in Nat

VARIABLES wire,    \* wire[e]: messages posted to end e and not yet handled
          chan,    \* chan[e][i]: a channel and its user
          size,    \* size[e]: channels.length
          closed,  \* closed[e]: the session of e is closed
          result,  \* result[k]: how call k was settled
          faults   \* sessions closed and channels refused so far

vars == <<wire, chan, size, closed, result, faults>>

Other(e) == CHOOSE f \in Ends : f # e
Ids == 1..Cardinality(Calls)

-----------------------------------------------------------------------------
(* Channels *)

None == [st |-> "none"]

\* new Channel(session) with its window, and a user that waits at pc.
NewChannel(role, k, pc) ==
    [st |-> "in",           \* in: in channels, out: removed
     role |-> role, k |-> k, pc |-> pc,
     rid |-> 0,             \* remoteId
     rwin |-> 0, maxp |-> 0, mwin |-> Window,
     sentEof |-> FALSE, sentClose |-> FALSE,
     buf |-> <<>>, end |-> "open",     \* readBuf; eof: gotEOF, gone: undefined
     ready |-> "empty",     \* empty, true, false or closed
     todo |-> 0, parked |-> FALSE,     \* the write in progress
     need |-> 0,                       \* the read in progress
     answer |-> "none", how |-> "none",
     sent |-> 0, got |-> <<>>, null |-> FALSE]  \* history: the two streams

Least(a, b) == IF a < b THEN a ELSE b
Numbers(from, n) == [j \in 1..n |-> from + j]

Msg(c, id, x) == [id |-> id, to |-> c.rid, x |-> x]

\* What a step does: the channel afterwards and the messages it posts.
Does(c, out) == [c |-> c, out |-> out]

\* send(): nothing leaves a channel after its Close.
Send(c, id, x) == IF c.sentClose THEN <<>> ELSE <<Msg(c, id, x)>>

-----------------------------------------------------------------------------
(* The users: Client.call and Respond *)

Writing == {"w sel", "w arg", "w hdr", "w val", "w more"}
Reading == {"r sel", "r arg", "r hdr", "r val", "r more"}
FrameOf(pc) == CASE pc \in {"w sel", "r sel"} -> "sel" [] pc \in {"w arg", "r arg"} -> "arg"
                 [] pc \in {"w hdr", "r hdr"} -> "hdr" [] pc \in {"w val", "r val"} -> "val"
                 [] OTHER -> "more"

\* The user goes on to label pc, with the whole frame to write or read.
Begin(c, pc) ==
    LET n == IF pc \in Writing \cup Reading THEN FrameSize[c.k][FrameOf(pc)] ELSE 0 IN
    [c EXCEPT !.pc = pc, !.parked = FALSE,
              !.todo = IF pc \in Writing THEN n ELSE 0,
              !.need = IF pc \in Reading THEN n ELSE 0]

\* A frame has been written.
Written(c) ==
    Begin(c, CASE c.pc = "w sel" -> "w arg"
               [] c.pc = "w arg" -> "r hdr"
               [] c.pc = "w hdr" -> "w val"
               [] c.pc = "w val" -> IF c.answer = "continue" THEN "w more" ELSE "close"
               [] OTHER -> "eof")

\* A write was rejected: Client.call closes and rejects, Respond throws.
Rejected(c) ==
    IF c.role = "caller" THEN Begin([c EXCEPT !.how = "rejected"], "close")
    ELSE Begin(c, "thrown")

\* A frame has been read; answer is what the peer put into its header.
ReadAll(c, answer) ==
    CASE c.pc = "r sel" -> Begin(c, "dispatch")
      [] c.pc = "r arg" -> Begin([c EXCEPT !.how = "ran"], "handler")
      [] c.pc = "r hdr" /\ answer = "error" -> Begin([c EXCEPT !.how = "error"], "close")
      [] c.pc = "r hdr" /\ answer # "error" -> Begin([c EXCEPT !.answer = answer], "r val")
      [] c.pc = "r val" -> Begin([c EXCEPT !.how = "value"],
                                 IF c.answer = "continue" THEN "r more" ELSE "close")
      [] OTHER -> Begin(c, "r more")

\* Mutant: a header that is null is taken for one without an error.
ReadNullHeader(c) ==
    CASE c.pc \in {"r sel", "r arg"} -> Begin(c, "thrown")
      [] c.pc \in {"r hdr", "r val"} -> Begin([c EXCEPT !.how = "value"], "close")
      [] OTHER -> Begin(c, "close")

\* The stream ended: a header or call that is null throws, but a value or
\* an argument that is null is taken for one.
ReadNull(c) ==
    CASE c.pc = "r sel" -> Begin(c, "thrown")
      [] c.pc = "r arg" -> Begin([c EXCEPT !.how = "no args"], "handler")
      [] c.pc = "r hdr" -> Begin([c EXCEPT !.how = "rejected"], "close")
      [] c.pc = "r val" -> Begin([c EXCEPT !.how = "null"],
                                 IF c.answer = "continue" THEN "r more" ELSE "close")
      [] OTHER -> Begin(c, "close")

-----------------------------------------------------------------------------
(* write(), read() and what the peer's messages do to them *)

\* readBuf.read(): at most what is there; the last one of an ended stream
\* empties the buffer for good.
Taken(c, n) ==
    [c EXCEPT !.buf = SubSeq(@, n + 1, Len(@)), !.got = @ \o SubSeq(c.buf, 1, n),
              !.end = IF Len(c.buf) = n /\ @ = "eof" THEN "gone" ELSE @]

\* handleData() and readBuf.write()
Received(c, x) ==
    [c EXCEPT !.mwin = @ - Len(x), !.buf = IF c.end = "gone" THEN @ ELSE @ \o x]

\* tryWrite: send what window and packet allow; the rest waits for addWindow.
TryWrite(c) ==
    LET n == Least(Least(c.maxp, c.todo), c.rwin) IN
    IF c.sentEof \/ c.sentClose THEN Does(Rejected(c), <<>>)
    ELSE IF n = 0 THEN Does([c EXCEPT !.parked = TRUE], <<>>)
    ELSE LET d == [c EXCEPT !.rwin = @ - n, !.todo = @ - n, !.sent = @ + n] IN
         Does(IF d.todo = 0 THEN Written(d) ELSE [d EXCEPT !.parked = TRUE],
              Send(c, "data", Numbers(c.sent, n)))

\* Mutant: addWindow does not wake the writer.
AddWindowAsleep(c, n) == Does([c EXCEPT !.rwin = @ + n], <<>>)

AddWindow(c, n) ==
    LET d == [c EXCEPT !.rwin = @ + n] IN
    IF d.parked /\ d.rwin > 0 THEN TryWrite([d EXCEPT !.parked = FALSE]) ELSE Does(d, <<>>)

\* Mutant: the end of the stream discards what is not read yet.
EofDiscards(c) == [c EXCEPT !.buf = <<>>, !.end = "gone"]

\* readBuf.eof() and readBuf.close()
Eof(c) == IF c.end = "open" THEN [c EXCEPT !.end = "eof"] ELSE c
Discard(c) == [c EXCEPT !.buf = <<>>, !.end = "gone"]

\* shutdown(): also the waiting writer is called once more.
Shutdown(c) ==
    LET d == [Discard(c) EXCEPT !.ready = "closed", !.st = "out"] IN
    IF d.parked THEN TryWrite([d EXCEPT !.parked = FALSE]) ELSE Does(d, <<>>)

\* Mutant: the second Close does not shut the channel down.
CloseByNoShutdown(c) ==
    LET d == Eof(c) IN
    IF ~d.sentClose THEN Does([d EXCEPT !.sentClose = TRUE], Send(d, "close", <<>>))
    ELSE Does(d, <<>>)

\* close() as the peer's Close calls it, and the user.
CloseBy(c) ==
    LET d == Eof(c) IN
    IF ~d.sentClose THEN Does([d EXCEPT !.sentClose = TRUE], Send(d, "close", <<>>))
    ELSE Shutdown(d)

\* The message loop calls handle().
Handle(c, m) ==
    CASE m.id = "confirm" -> LET d == AddWindow([c EXCEPT !.rid = m.from, !.maxp = Packet,
                                                          !.ready = "true"], Window) IN d
      [] m.id = "failure" -> Does([c EXCEPT !.ready = "false", !.st = "out"], <<>>)
      [] m.id = "data" -> Does(Received(c, m.x), <<>>)
      [] m.id = "adjust" -> AddWindow(c, m.x)
      [] m.id = "eof" -> Does(Eof(c), <<>>)
      [] m.id = "close" -> CloseBy(c)

-----------------------------------------------------------------------------
(* The steps of an end *)

\* Messages posted to a closed port, or by one, are lost.
Post(e, out) ==
    wire' = IF closed[e] \/ closed[Other(e)] THEN wire
            ELSE [wire EXCEPT ![Other(e)] = @ \o out]

Step(e, i, d) ==
    /\ chan' = [chan EXCEPT ![e][i] = d.c]
    /\ Post(e, d.out)

\* peer.call: Session.open.  On a session that is closed it waits for ever;
\* such calls are left out, at either end.
Open(k) ==
    LET e == Caller[k] i == size[e] + 1 IN
    /\ result[k] = "idle" /\ \A f \in Ends : ~closed[f]
    /\ size' = [size EXCEPT ![e] = i]
    /\ Step(e, i, Does(NewChannel("caller", k, "opening"), <<[id |-> "open", from |-> i]>>))
    /\ result' = [result EXCEPT ![k] = "waits"]
    /\ UNCHANGED <<closed, faults>>

Opened(e, i) ==
    LET c == chan[e][i] IN
    /\ c.st # "none" /\ c.pc = "opening" /\ c.ready # "empty"
    /\ IF c.ready = "true"
       THEN /\ Step(e, i, TryWrite(Begin([c EXCEPT !.ready = "empty"], "w sel")))
            /\ UNCHANGED result
       ELSE /\ Step(e, i, Does([c EXCEPT !.pc = "done"], <<>>))
            /\ result' = [result EXCEPT ![c.k] = "rejected"]
    /\ UNCHANGED <<size, closed, faults>>

\* handleOpen: the channel is confirmed, and offered to accept(), upon which
\* Peer.respond starts Respond without waiting for it.
HandleOpen(e) ==
    /\ ~closed[e] /\ wire[e] # <<>> /\ Head(wire[e]).id = "open"
    /\ LET i == size[e] + 1
           from == Head(wire[e]).from
           c == [Begin(NewChannel("responder", chan[Other(e)][from].k, "accept"), "r sel")
                   EXCEPT !.rid = from, !.rwin = Window, !.maxp = Packet] IN
       \/ /\ size' = [size EXCEPT ![e] = i]
          /\ chan' = [chan EXCEPT ![e][i] = c]
          /\ wire' = [wire EXCEPT ![e] = Tail(@),
                        ![Other(e)] = IF closed[Other(e)] THEN @
                                      ELSE Append(@, [id |-> "confirm", to |-> from, from |-> i])]
          /\ UNCHANGED faults
       \/ /\ faults < MaxFaults
          /\ faults' = faults + 1
          /\ wire' = [wire EXCEPT ![e] = Tail(@),
                        ![Other(e)] = IF closed[Other(e)] THEN @
                                      ELSE Append(@, [id |-> "failure", to |-> from])]
          /\ UNCHANGED <<chan, size>>
    /\ UNCHANGED <<closed, result>>

\* A message for a channel that is no longer there is dropped.
HandleMessage(e) ==
    /\ ~closed[e] /\ wire[e] # <<>> /\ Head(wire[e]).id # "open"
    /\ LET m == Head(wire[e])
           c == chan[e][m.to]
           d == IF c.st = "in" THEN Handle(c, m) ELSE Does(c, <<>>) IN
       /\ chan' = [chan EXCEPT ![e][m.to] = d.c]
       /\ wire' = [wire EXCEPT ![e] = Tail(@),
                     ![Other(e)] = IF closed[Other(e)] THEN @ ELSE @ \o d.out]
    /\ UNCHANGED <<size, closed, result, faults>>

\* Channel.write of a frame.
Write(e, i) ==
    LET c == chan[e][i] IN
    /\ c.st # "none" /\ c.pc \in Writing /\ ~c.parked
    /\ Step(e, i, TryWrite(c))
    /\ UNCHANGED <<size, closed, result, faults>>

\* Mutant: read grants what it asked for and not what it got.
ReadGrantsAll(e, i) ==
    LET c == chan[e][i]
        n == Least(Len(c.buf), c.need)
        answer == IF c.rid = 0 THEN "none" ELSE chan[Other(e)][c.rid].answer
        d == [c EXCEPT !.buf = SubSeq(@, n + 1, Len(@)), !.got = @ \o SubSeq(c.buf, 1, n),
                       !.mwin = @ + c.need, !.need = @ - n] IN
    /\ c.st # "none" /\ c.pc \in Reading /\ c.buf # <<>>
    /\ Step(e, i, Does(IF d.need = 0 THEN ReadAll(d, answer) ELSE d, Send(c, "adjust", c.need)))
    /\ UNCHANGED <<size, closed, result, faults>>

\* Channel.read: what was taken is granted again, unless Close was sent.
Read(e, i) ==
    LET c == chan[e][i]
        n == Least(Len(c.buf), c.need)
        answer == IF c.rid = 0 THEN "none" ELSE chan[Other(e)][c.rid].answer
        d == [Taken(c, n) EXCEPT !.mwin = @ + n, !.need = @ - n] IN
    /\ c.st # "none" /\ c.pc \in Reading
    /\ \/ /\ c.buf = <<>> /\ c.end # "open"
          /\ Step(e, i, Does(ReadNull([c EXCEPT !.end = "gone", !.null = TRUE]), <<>>))
       \/ /\ c.buf # <<>>
          /\ Step(e, i, Does(IF d.need = 0 THEN ReadAll(d, answer) ELSE d, Send(c, "adjust", n)))
    /\ UNCHANGED <<size, closed, result, faults>>

\* No handler has that selector: the error is returned, the arguments stay
\* unread.  Otherwise the handler receives them.
Dispatch(e, i) ==
    LET c == chan[e][i] IN
    /\ c.st # "none" /\ c.pc = "dispatch"
    /\ \/ Step(e, i, Does(Begin(c, "r arg"), <<>>))
       \/ /\ "not found" \in Answers[c.k]
          /\ Step(e, i, Does(Begin([c EXCEPT !.answer = "error", !.how = "no handler"], "w hdr"),
                             <<>>))
    /\ UNCHANGED <<size, closed, result, faults>>

\* The handler returns a value or an error, continues, or throws.
Respond(e, i) ==
    LET c == chan[e][i] IN
    /\ c.st # "none" /\ c.pc = "handler"
    /\ \E a \in Answers[c.k] \ {"not found"} :
         Step(e, i, Does(IF a = "throw" THEN Begin(c, "thrown")
                         ELSE Begin([c EXCEPT !.answer = a], "w hdr"), <<>>))
    /\ UNCHANGED <<size, closed, result, faults>>

CloseWrite(e, i) ==
    LET c == chan[e][i] IN
    /\ c.st # "none" /\ c.pc = "eof"
    /\ Step(e, i, Does(Begin([c EXCEPT !.sentEof = TRUE], "close"), Send(c, "eof", <<>>)))
    /\ UNCHANGED <<size, closed, result, faults>>

\* close(): the first to close waits for the other's Close.
Close(e, i) ==
    LET c == chan[e][i] d == CloseBy(c) IN
    /\ c.st # "none" /\ c.pc = "close"
    /\ Step(e, i, Does([d.c EXCEPT !.pc = IF c.sentClose THEN "closed" ELSE "closing"], d.out))
    /\ UNCHANGED <<size, closed, result, faults>>

Closed(e, i) ==
    LET c == chan[e][i] IN
    /\ c.st # "none"
    /\ c.pc = "closed" \/ (c.pc = "closing" /\ c.ready = "closed")
    /\ chan' = [chan EXCEPT ![e][i].pc = "done"]
    /\ result' = IF c.role = "caller" THEN [result EXCEPT ![c.k] = c.how] ELSE result
    /\ UNCHANGED <<wire, size, closed, faults>>

\* Session.close: no Close is sent, every channel is shut down.
SessionClose(e) ==
    LET d == [i \in Ids |-> IF chan[e][i].st = "in" THEN Shutdown(chan[e][i])
                            ELSE Does(chan[e][i], <<>>)]
        out[i \in 0..Cardinality(Calls)] == IF i = 0 THEN <<>> ELSE out[i - 1] \o d[i].out IN
    /\ e \in Closers /\ ~closed[e] /\ faults < MaxFaults
    /\ faults' = faults + 1
    /\ closed' = [closed EXCEPT ![e] = TRUE]
    /\ chan' = [chan EXCEPT ![e] = [i \in Ids |-> d[i].c]]
    /\ wire' = [f \in Ends |-> IF f = e \/ closed[f] THEN <<>> ELSE wire[f] \o out[Cardinality(Calls)]]
    /\ UNCHANGED <<size, result>>

-----------------------------------------------------------------------------
Init ==
    /\ wire = [e \in Ends |-> <<>>]
    /\ chan = [e \in Ends |-> [i \in Ids |-> None]]
    /\ size = [e \in Ends |-> 0]
    /\ closed = [e \in Ends |-> FALSE]
    /\ result = [k \in Calls |-> "idle"]
    /\ faults = 0

User(e, i) == \/ Opened(e, i) \/ Write(e, i) \/ Read(e, i) \/ Dispatch(e, i)
              \/ Respond(e, i) \/ CloseWrite(e, i) \/ Close(e, i) \/ Closed(e, i)
Loop(e) == HandleOpen(e) \/ HandleMessage(e)

Work == \/ \E e \in Ends : Loop(e)
        \/ \E e \in Ends, i \in Ids : User(e, i)

Next == \/ \E k \in Calls : Open(k)
        \/ Work
        \/ \E e \in Ends : SessionClose(e)

Spec == Init /\ [][Next]_vars

-----------------------------------------------------------------------------
(* Properties *)

Live(e, i) == chan[e][i].st = "in"
InUse == {x \in Ends \X Ids : chan[x[1]][x[2]].st # "none"}
Results == {"idle", "waits", "value", "null", "error", "rejected"}

Messages == [id : {"open"}, from : Ids] \cup [id : {"confirm"}, to : Ids, from : Ids]
            \cup [id : {"failure"}, to : Ids]
            \cup [id : {"data", "eof", "close"}, to : Ids, x : Seq(Nat)]
            \cup [id : {"adjust"}, to : Ids, x : Nat]

TypeOK ==
    /\ \A e \in Ends : wire[e] \in Seq(Messages)
    /\ \A x \in InUse : LET c == chan[x[1]][x[2]] IN
         /\ c.st \in {"in", "out"} /\ x[2] <= size[x[1]]
         /\ c.rid \in Ids \cup {0} /\ c.buf \in Seq(Nat)
         /\ c.rwin \in 0..Window /\ c.mwin \in 0..Window
         /\ c.todo \in Nat /\ c.need \in Nat
         /\ c.parked => c.pc \in Writing
    /\ result \in [Calls -> Results]

\* Units of the messages of kind id that are on their way from end e to
\* channel i of the other one.
OnTheWay(e, i, id) ==
    LET w == wire[Other(e)]
        n[j \in 0..Len(w)] ==
            IF j = 0 THEN 0
            ELSE n[j - 1] + (IF w[j].id = id /\ w[j].to = i
                             THEN IF id = "data" THEN Len(w[j].x) ELSE w[j].x ELSE 0) IN
    n[Len(w)]

\* The window is neither lost nor doubled: what the writer may still send,
\* what is on the wire, what is read but not yet granted and what is being
\* granted add up to the window, whatever the order of writes, reads and
\* messages (reserveWindow, addWindow, adjustWindow, handleData).  So the
\* peer never "wrote too much", which would end the loop of the session.
CreditKept ==
    /\ TypeOK
    /\ \A e \in Ends, i \in Ids :
         LET c == chan[e][i] IN
         Live(e, i) /\ c.rid # 0 /\ Live(Other(e), c.rid) =>
           LET r == chan[Other(e)][c.rid] IN
           /\ r.rid # 0 /\ ~r.sentClose =>
                c.rwin + OnTheWay(e, c.rid, "data") + Len(r.buf) + OnTheWay(Other(e), i, "adjust")
                  = Window
           /\ OnTheWay(e, c.rid, "data") <= r.mwin

\* A call returns a value only if its own handler ran with its arguments and
\* answered with a value, and the value is whole; null in its place only
\* when a session was closed (Client.call, responder.respond, close).  A call
\* that was answered before its arguments were read may be rejected instead:
\* it sees the peer's Close while it still writes.
PeerOf(e, i) == chan[Other(e)][chan[e][i].rid]
AnswersBelong ==
    \A x \in InUse : LET c == chan[x[1]][x[2]] IN
      c.role = "caller" =>
        /\ c.how = "value" => /\ PeerOf(x[1], x[2]).rid = x[2]
                              /\ PeerOf(x[1], x[2]).how = "ran"
                              /\ PeerOf(x[1], x[2]).answer \in {"value", "continue"}
                              /\ Len(c.got) >= FrameSize[c.k]["hdr"] + FrameSize[c.k]["val"]
        /\ c.how = "error" => PeerOf(x[1], x[2]).answer = "error"
        /\ c.how = "null" => \E e \in Ends : closed[e]
        /\ c.how = "rejected" => \/ \E e \in Ends : closed[e]
                                 \/ PeerOf(x[1], x[2]).how = "no handler"

\* When everything has come to rest no channel is left in either session
\* but those of responders that threw and of calls that wait for them.
AtRest == \A e \in Ends : wire[e] = <<>>
             /\ \A i \in Ids : chan[e][i].st # "none" =>
                   ~ENABLED User(e, i)
NothingLeaks ==
    (\A e \in Ends : ~closed[e]) /\ AtRest =>
      \A e \in Ends, i \in Ids :
        Live(e, i) => \/ chan[e][i].pc = "thrown"
                      \/ chan[e][i].rid # 0 /\ PeerOf(e, i).pc = "thrown"
                      \/ chan[e][i].parked

\* Each direction of each channel is a stream of bytes.
Stream(e, i) ==
    INSTANCE ByteStream WITH
      accepted <- IF chan[e][i].st = "none" THEN 0 ELSE chan[e][i].sent,
      finished <- chan[e][i].st # "none" /\ (chan[e][i].sentEof \/ chan[e][i].sentClose),
      delivered <- IF chan[e][i].st = "none" \/ chan[e][i].rid = 0 THEN <<>>
                   ELSE PeerOf(e, i).got,
      over <- chan[e][i].st # "none" /\ chan[e][i].rid # 0 /\ PeerOf(e, i).null,
      cut <- \E f \in Ends : closed[f]
ChannelsAreStreams ==
    /\ \A e \in Ends, i \in Ids : Stream(e, i)!Init
    /\ [][\A e \in Ends, i \in Ids :
           UNCHANGED (Stream(e, i)!vars) \/ Stream(e, i)!Next]_vars

\* When everything has come to rest every call is settled, if the peer's
\* session stays open and its handler reads its arguments and does not throw,
\* and also when the caller's own session was closed, but for a write that
\* waited for its window then (Client.call, Channel.close, addWindow).  Every
\* run comes to rest: each message is answered by a bounded number of others.
Excused(k) ==
    LET e == Caller[k] IN
    \/ result[k] # "waits"
    \/ closed[Other(e)]
    \/ \E i \in Ids : LET c == chan[e][i] IN
         /\ c.st # "none" /\ c.role = "caller" /\ c.k = k
         /\ \/ closed[e] /\ c.parked
            \/ c.rid # 0 /\ (PeerOf(e, i).pc = "thrown" \/ PeerOf(e, i).how = "no handler")
CallsSettle == AtRest => \A k \in Calls : Excused(k)
=============================================================================
