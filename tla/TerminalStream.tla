--------------------------- MODULE TerminalStream ---------------------------
(***************************************************************************)
(* One terminal of TerminalManager and the WebSocket handlers attached to  *)
(* it (terminalWebSocket.ts): how the PTY's messages and the snapshot of   *)
(* the headless mirror reach every browser.                                *)
(*                                                                         *)
(* Node runs one callback at a time.  An action is the code between two    *)
(* points where it gives the event loop back: an await, a timer, or an     *)
(* event callback.  The one synchronous block that loops (the handler      *)
(* after `await attachTerminal`) is walked step by step, and `Yielded`     *)
(* keeps every other callback out until it ends.                           *)
(*                                                                         *)
(* Messages are named by their position in `log`, the sequence of all      *)
(* messages the terminal ever published; 0 names a snapshot.  Bytes,       *)
(* screen contents and the direct replies (pong, error), which are no part *)
(* of the stream, are left out; a socket's bufferedAmount is counted in    *)
(* messages.                                                               *)
(***************************************************************************)
EXTENDS Integers, Sequences, FiniteSets

CONSTANTS
    Sockets,        \* connections; a reconnect is another member
    MirrorCap,      \* unparsed chunks above which the mirror's write() throws
    HighWater,      \* terminalSocketMaxBufferedAmount, in messages
    MaxLog,         \* bound: messages published
    MaxFrames       \* bound: frames a client sends

ASSUME MirrorCapAssumption == MirrorCap \in Nat
ASSUME HighWaterAssumption == HighWater \in Nat
ASSUME BoundsAssumption == MaxLog \in Nat /\ MaxFrames \in Nat

VARIABLES
    \* TerminalRecord
    status,         \* "running", "exited", or "closed": no longer in the map
    log,            \* kinds of the messages published so far
    subscribers,
    \* its headless mirror
    queue,          \* the write buffer: data and flush sentinels, unparsed
    parsed,         \* the chunks the mirror's screen shows
    discarded,      \* history: chunks whose mirror.write threw
    \* the WebSocket handler, one per socket
    pc,             \* where the handler is
    start,          \* history: Len(log) when it called attachTerminal
    stale,          \* history: its sentinel write threw
    snapshot,       \* chunks in the serialized snapshot
    attachedStatus, \* attachment.terminal.status
    pendingMessages,
    closed,         \* the close listener ran
    heartbeat,      \* its interval is set
    isAlive,
    \* its TerminalSocketSender and the socket
    pendingOutput,
    sent,           \* what socket.send accepted, in order
    drained,        \* how much of `sent` left the socket's buffer
    conn,           \* "none", then readyState
    peer,           \* "up", or "gone" without a close frame
    \* frames from the client
    arrived,        \* history: how many came in
    unheard,        \* history: how many came while nobody listened
    bufferedFrames,
    handled         \* history: the frames handleClientMessage saw, in order

recordVars  == <<status, log, subscribers>>
mirrorVars  == <<queue, parsed, discarded>>
attachVars  == <<start, stale, snapshot, attachedStatus>>
senderVars  == <<pendingOutput, sent>>
aliveVars   == <<heartbeat, isAlive>>
frameVars   == <<arrived, unheard, bufferedFrames, handled>>
vars == <<recordVars, mirrorVars, attachVars, senderVars, aliveVars, frameVars,
          pc, pendingMessages, closed, drained, conn, peer>>

Kinds == {"output", "terminal_updated", "exit"}

\* "attaching" awaits the sentinel, "resolved" awaits attachTerminal's
\* continuation, "attached" and "notFound" the handler's; "frames" and
\* "replay" are inside the handler's synchronous block.
Phases == {"idle", "auth", "refused", "attaching", "resolved", "attached",
           "notFound", "frames", "replay", "live", "done"}

ConnStates == {"none", "open", "closing", "closed"}

Data(i) == [type |-> "data", chunk |-> i]
Sentinel(s) == [type |-> "sentinel", socket |-> s]

Entries == [type : {"data"}, chunk : Nat] \union [type : {"sentinel"}, socket : Sockets]

TypeOK ==
    /\ status \in {"running", "exited", "closed"}
    /\ log \in Seq(Kinds)
    /\ subscribers \in SUBSET Sockets
    /\ queue \in Seq(Entries)
    /\ parsed \in SUBSET Nat
    /\ discarded \in SUBSET Nat
    /\ pc \in [Sockets -> Phases]
    /\ start \in [Sockets -> Nat]
    /\ stale \in [Sockets -> BOOLEAN]
    /\ snapshot \in [Sockets -> SUBSET Nat]
    /\ attachedStatus \in [Sockets -> {"none", "running", "exited"}]
    /\ pendingMessages \in [Sockets -> Seq(Nat)]
    /\ closed \in [Sockets -> BOOLEAN]
    /\ heartbeat \in [Sockets -> BOOLEAN]
    /\ isAlive \in [Sockets -> BOOLEAN]
    /\ pendingOutput \in [Sockets -> Seq(Nat)]
    /\ sent \in [Sockets -> Seq(Nat)]
    /\ drained \in [Sockets -> Nat]
    /\ conn \in [Sockets -> ConnStates]
    /\ peer \in [Sockets -> {"up", "gone"}]
    /\ arrived \in [Sockets -> Nat]
    /\ unheard \in [Sockets -> Nat]
    /\ bufferedFrames \in [Sockets -> Seq(Nat)]
    /\ handled \in [Sockets -> Seq(Nat)]

Init ==
    /\ status = "running"
    /\ log = <<>>
    /\ subscribers = {}
    /\ queue = <<>>
    /\ parsed = {}
    /\ discarded = {}
    /\ pc = [s \in Sockets |-> "idle"]
    /\ start = [s \in Sockets |-> 0]
    /\ stale = [s \in Sockets |-> FALSE]
    /\ snapshot = [s \in Sockets |-> {}]
    /\ attachedStatus = [s \in Sockets |-> "none"]
    /\ pendingMessages = [s \in Sockets |-> <<>>]
    /\ closed = [s \in Sockets |-> FALSE]
    /\ heartbeat = [s \in Sockets |-> FALSE]
    /\ isAlive = [s \in Sockets |-> TRUE]
    /\ pendingOutput = [s \in Sockets |-> <<>>]
    /\ sent = [s \in Sockets |-> <<>>]
    /\ drained = [s \in Sockets |-> 0]
    /\ conn = [s \in Sockets |-> "none"]
    /\ peer = [s \in Sockets |-> "up"]
    /\ arrived = [s \in Sockets |-> 0]
    /\ unheard = [s \in Sockets |-> 0]
    /\ bufferedFrames = [s \in Sockets |-> <<>>]
    /\ handled = [s \in Sockets |-> <<>>]

-----------------------------------------------------------------------------
(* Where a handler is.                                                      *)

\* The message, close and pong listeners are registered after the auth await.
Listening(s) == pc[s] \notin {"idle", "auth", "refused"}

\* snapshotSent in the handler.  (Mutant: set once the listeners exist.)
SnapshotSent_Early(s) == Listening(s)
SnapshotSent(s) == pc[s] \in {"replay", "live"}

\* No handler is inside its synchronous block.
Yielded == \A s \in Sockets : pc[s] \notin {"frames", "replay"}

-----------------------------------------------------------------------------
(* TerminalSocketSender: w is the sender's pendingOutput with its socket.   *)

SenderStates == [out : Seq(Nat), sent : Seq(Nat), drained : Nat, conn : ConnStates]

Sender(s) == [out |-> pendingOutput[s], sent |-> sent[s],
              drained |-> drained[s], conn |-> conn[s]]

TooSlow(w) == Len(w.sent) - w.drained > HighWater

\* Mutant: a message for a slow client is skipped.
SendNow_Skips(w, q) ==
    IF q = <<>> \/ w.conn # "open" \/ TooSlow(w) THEN w
    ELSE [w EXCEPT !.sent = w.sent \o q]

\* Mutant: readyState is not looked at before a message is sent.
SendNow_Anyway(w, q) ==
    IF q = <<>> \/ (TooSlow(w) /\ w.conn # "open") THEN w
    ELSE IF TooSlow(w) THEN [w EXCEPT !.conn = "closing"]
    ELSE [w EXCEPT !.sent = w.sent \o q]

\* sendNow: a client whose backlog is above the mark is closed, not sent to;
\* nothing reaches a socket that is closing or closed.
SendNow(w, q) ==
    IF q = <<>> \/ w.conn # "open" THEN w
    ELSE IF TooSlow(w) THEN [w EXCEPT !.conn = "closing"]
    ELSE [w EXCEPT !.sent = w.sent \o q]

\* flushOutput.
Flush(w) == [SendNow(w, w.out) EXCEPT !.out = <<>>]

\* Mutant: other messages overtake the output that waits for the tick.
Send_Overtakes(w, i, kind) ==
    IF kind = "output" THEN [w EXCEPT !.out = Append(w.out, i)]
    ELSE SendNow(w, <<i>>)

\* send: output waits for the next tick, anything else flushes it first.  The
\* flush timer is set exactly when pendingOutput is non-empty.
Send(w, i, kind) ==
    IF kind = "output" THEN [w EXCEPT !.out = Append(w.out, i)]
    ELSE SendNow(Flush(w), <<i>>)

\* Message i given to the sender of every socket in S.
SendTo(S, i, kind) ==
    /\ pendingOutput' = [s \in Sockets |->
          IF s \in S THEN Send(Sender(s), i, kind).out ELSE pendingOutput[s]]
    /\ sent' = [s \in Sockets |->
          IF s \in S THEN Send(Sender(s), i, kind).sent ELSE sent[s]]
    /\ conn' = [s \in Sockets |->
          IF s \in S THEN Send(Sender(s), i, kind).conn ELSE conn[s]]

-----------------------------------------------------------------------------
(* TerminalManager.publish: a new message goes to every subscriber, which   *)
(* keeps it until its snapshot is sent and hands it to its sender after.    *)

Publish(kind) ==
    LET i == Len(log) + 1
    IN  /\ Len(log) < MaxLog
        /\ log' = Append(log, kind)
        /\ pendingMessages' = [s \in Sockets |->
              IF s \in subscribers /\ ~SnapshotSent(s)
              THEN Append(pendingMessages[s], i) ELSE pendingMessages[s]]
        /\ SendTo({s \in subscribers : SnapshotSent(s)}, i, kind)

-----------------------------------------------------------------------------
(* The terminal's own events.                                               *)

\* xterm's WriteBuffer throws while it holds more than MirrorCap unparsed chunks
\* (a sentinel is an empty write and weighs nothing).
MirrorOverflows ==
    Cardinality({j \in 1..Len(queue) : queue[j].type = "data"}) > MirrorCap

\* pty.onData.  The listener stays after onExit, so late data is published too.
DataArrives ==
    LET i == Len(log) + 1
    IN  /\ status # "closed"
        /\ \/ ~MirrorOverflows /\ queue' = Append(queue, Data(i)) /\ UNCHANGED discarded
           \/ MirrorOverflows /\ discarded' = discarded \union {i} /\ UNCHANGED queue
        /\ Publish("output")
        /\ UNCHANGED <<status, subscribers, parsed, attachVars, aliveVars, frameVars,
                       pc, closed, drained, peer>>

\* pty.onExit.
PtyExits ==
    /\ status = "running"
    /\ status' = "exited"
    /\ Publish("exit")
    /\ UNCHANGED <<subscribers, mirrorVars, attachVars, aliveVars, frameVars,
                   pc, closed, drained, peer>>

\* refreshCwd found another cwd; the pty it awaited for is still running.
CwdChanges ==
    /\ status = "running"
    /\ Publish("terminal_updated")
    /\ UNCHANGED <<status, subscribers, mirrorVars, attachVars, aliveVars, frameVars,
                   pc, closed, drained, peer>>

\* Mutant: disposing the mirror forgets what is queued, sentinels included.
CloseTerminal_ForgetsQueue ==
    /\ status # "closed"
    /\ status' = "closed"
    /\ subscribers' = {}
    /\ queue' = <<>>
    /\ UNCHANGED <<log, parsed, discarded, attachVars, senderVars, aliveVars, frameVars,
                   pc, pendingMessages, closed, drained, conn, peer>>

\* closeTerminal: disposeRecord and delete.  No subscriber is told.
CloseTerminal ==
    /\ status # "closed"
    /\ status' = "closed"
    /\ subscribers' = {}
    /\ UNCHANGED <<log, mirrorVars, attachVars, senderVars, aliveVars, frameVars,
                   pc, pendingMessages, closed, drained, conn, peer>>

\* xterm takes the next entry of the mirror's write buffer; a sentinel's
\* callback serializes what is parsed by then (its null, for a closed
\* terminal, is subsumed by the test AttachReturns repeats).
MirrorParses ==
    /\ queue # <<>>
    /\ queue' = Tail(queue)
    /\ \/ /\ Head(queue).type = "data"
          /\ parsed' = parsed \union {Head(queue).chunk}
          /\ UNCHANGED <<snapshot, pc>>
       \/ /\ Head(queue).type = "sentinel"
          /\ snapshot' = [snapshot EXCEPT ![Head(queue).socket] = parsed]
          /\ pc' = [pc EXCEPT ![Head(queue).socket] = "resolved"]
          /\ UNCHANGED parsed
    /\ UNCHANGED <<recordVars, discarded, start, stale, attachedStatus, senderVars,
                   aliveVars, frameVars, pendingMessages, closed, drained, conn, peer>>

-----------------------------------------------------------------------------
(* The WebSocket handler.                                                   *)

\* The upgrade completes; the handler runs up to its auth await.
Connect(s) ==
    /\ pc[s] = "idle"
    /\ pc' = [pc EXCEPT ![s] = "auth"]
    /\ conn' = [conn EXCEPT ![s] = "open"]
    /\ UNCHANGED <<recordVars, mirrorVars, attachVars, senderVars, aliveVars, frameVars,
                   pendingMessages, closed, drained, peer>>

\* No session: closed with 1008 before any listener exists.
AuthRefused(s) ==
    /\ pc[s] = "auth"
    /\ pc' = [pc EXCEPT ![s] = "refused"]
    /\ conn' = [conn EXCEPT ![s] = IF @ = "open" THEN "closing" ELSE @]
    /\ UNCHANGED <<recordVars, mirrorVars, attachVars, senderVars, aliveVars, frameVars,
                   pendingMessages, closed, drained, peer>>

\* terminals.get(id) === record.  (Mutant: not looked up again.)
TerminalIsOpen_Assumed == TRUE
TerminalIsOpen == status # "closed"

\* mirror.write('', callback).  (Mutant: serialize without waiting for the
\* writes before it.)
QueueSentinel_First(s) == <<Sentinel(s)>> \o queue
QueueSentinel(s) == Append(queue, Sentinel(s))

\* attachment.dispose().  (Mutant: the subscriber stays.)
Detached_Forgotten(s) == subscribers
Detached(s) == subscribers \ {s}

\* The session is valid: listeners, then attachTerminal up to its await.  A
\* sentinel write that throws serializes what is parsed now.
AuthAccepted(s) ==
    /\ pc[s] = "auth"
    /\ start' = [start EXCEPT ![s] = Len(log)]
    /\ \/ /\ status = "closed"
          /\ pc' = [pc EXCEPT ![s] = "notFound"]
          /\ UNCHANGED <<subscribers, queue, stale, snapshot>>
       \/ /\ status # "closed"
          /\ subscribers' = subscribers \union {s}
          /\ \/ /\ ~MirrorOverflows
                /\ queue' = QueueSentinel(s)
                /\ pc' = [pc EXCEPT ![s] = "attaching"]
                /\ UNCHANGED <<stale, snapshot>>
             \/ /\ MirrorOverflows
                /\ stale' = [stale EXCEPT ![s] = TRUE]
                /\ snapshot' = [snapshot EXCEPT ![s] = parsed]
                /\ pc' = [pc EXCEPT ![s] = "resolved"]
                /\ UNCHANGED queue
    /\ UNCHANGED <<status, log, parsed, discarded, attachedStatus, senderVars, aliveVars,
                   frameVars, pendingMessages, closed, drained, conn, peer>>

\* attachTerminal after its await.
AttachReturns(s) ==
    /\ pc[s] = "resolved"
    /\ \/ /\ ~TerminalIsOpen
          /\ subscribers' = subscribers \ {s}
          /\ pc' = [pc EXCEPT ![s] = "notFound"]
          /\ UNCHANGED attachedStatus
       \/ /\ TerminalIsOpen
          /\ attachedStatus' = [attachedStatus EXCEPT ![s] = status]
          /\ pc' = [pc EXCEPT ![s] = "attached"]
          /\ UNCHANGED subscribers
    /\ UNCHANGED <<status, log, mirrorVars, start, stale, snapshot, senderVars, aliveVars,
                   frameVars, pendingMessages, closed, drained, conn, peer>>

\* The handler after its await, with no attachment: cleanup and close 1008.
HandlerNotFound(s) ==
    /\ pc[s] = "notFound"
    /\ pc' = [pc EXCEPT ![s] = "done"]
    /\ pendingOutput' = [pendingOutput EXCEPT ![s] = <<>>]
    /\ conn' = [conn EXCEPT ![s] = IF @ = "open" THEN "closing" ELSE @]
    /\ UNCHANGED <<recordVars, mirrorVars, attachVars, sent, aliveVars, frameVars,
                   pendingMessages, closed, drained, peer>>

\* The handler after its await, the close listener having run meanwhile.
HandlerClosed(s) ==
    /\ pc[s] = "attached"
    /\ closed[s]
    /\ subscribers' = Detached(s)
    /\ pc' = [pc EXCEPT ![s] = "done"]
    /\ UNCHANGED <<status, log, mirrorVars, attachVars, senderVars, aliveVars, frameVars,
                   pendingMessages, closed, drained, conn, peer>>

\* The handler after its await: the synchronous block begins.
HandlerResumes(s) ==
    /\ pc[s] = "attached"
    /\ ~closed[s]
    /\ pc' = [pc EXCEPT ![s] = "frames"]
    /\ UNCHANGED <<recordVars, mirrorVars, attachVars, senderVars, aliveVars, frameVars,
                   pendingMessages, closed, drained, conn, peer>>

\* What handleClientMessage does to the stream: a resize that changes the
\* size publishes; input, ping, refresh_cwd and a refused frame do not.
FrameEffect ==
    \/ status = "running" /\ Publish("terminal_updated")
    \/ UNCHANGED <<log, pendingMessages, senderVars, conn>>

\* The loop over bufferedFrames.
HandlesBufferedFrame(s) ==
    /\ pc[s] = "frames"
    /\ bufferedFrames[s] # <<>>
    /\ handled' = [handled EXCEPT ![s] = Append(@, Head(bufferedFrames[s]))]
    /\ bufferedFrames' = [bufferedFrames EXCEPT ![s] = Tail(@)]
    /\ FrameEffect
    /\ UNCHANGED <<status, subscribers, mirrorVars, attachVars, aliveVars, arrived, unheard,
                   pc, closed, drained, peer>>

\* Mutant: the frames buffered during attach are left for later.
SendsSnapshot_FramesLater(s) ==
    /\ pc[s] = "frames"
    /\ SendTo({s}, 0, "snapshot")
    /\ pc' = [pc EXCEPT ![s] = "replay"]
    /\ UNCHANGED <<recordVars, mirrorVars, attachVars, aliveVars, frameVars,
                   pendingMessages, closed, drained, peer>>

\* sender.send(snapshot); snapshotSent = true.
SendsSnapshot(s) ==
    /\ pc[s] = "frames"
    /\ bufferedFrames[s] = <<>>
    /\ SendTo({s}, 0, "snapshot")
    /\ pc' = [pc EXCEPT ![s] = "replay"]
    /\ UNCHANGED <<recordVars, mirrorVars, attachVars, aliveVars, frameVars,
                   pendingMessages, closed, drained, peer>>

\* The loop over pendingMessages.
ReplaysMessage(s) ==
    /\ pc[s] = "replay"
    /\ pendingMessages[s] # <<>>
    /\ SendTo({s}, Head(pendingMessages[s]), log[Head(pendingMessages[s])])
    /\ pendingMessages' = [pendingMessages EXCEPT ![s] = Tail(@)]
    /\ UNCHANGED <<recordVars, mirrorVars, attachVars, aliveVars, frameVars,
                   pc, closed, drained, peer>>

\* The heartbeat interval is set and the block ends.
GoesLive(s) ==
    /\ pc[s] = "replay"
    /\ pendingMessages[s] = <<>>
    /\ pc' = [pc EXCEPT ![s] = "live"]
    /\ heartbeat' = [heartbeat EXCEPT ![s] = TRUE]
    /\ UNCHANGED <<recordVars, mirrorVars, attachVars, senderVars, frameVars, isAlive,
                   pendingMessages, closed, drained, conn, peer>>

\* Mutant: the tick comes to nothing while the socket holds a backlog.
Flushes_WhenDrained(s) ==
    /\ pendingOutput[s] # <<>>
    /\ drained[s] = Len(sent[s])
    /\ sent' = [sent EXCEPT ![s] = Flush(Sender(s)).sent]
    /\ pendingOutput' = [pendingOutput EXCEPT ![s] = <<>>]
    /\ UNCHANGED <<recordVars, mirrorVars, attachVars, aliveVars, frameVars,
                   pc, pendingMessages, closed, drained, peer, conn>>

\* The setImmediate flush of TerminalSocketSender.
Flushes(s) ==
    /\ pendingOutput[s] # <<>>
    /\ pendingOutput' = [pendingOutput EXCEPT ![s] = <<>>]
    /\ sent' = [sent EXCEPT ![s] = Flush(Sender(s)).sent]
    /\ conn' = [conn EXCEPT ![s] = Flush(Sender(s)).conn]
    /\ UNCHANGED <<recordVars, mirrorVars, attachVars, aliveVars, frameVars,
                   pc, pendingMessages, closed, drained, peer>>

\* The revocation listener, registered after auth and disposed by cleanup.
SessionRevoked(s) ==
    /\ Listening(s)
    /\ ~closed[s]
    /\ pc[s] # "done"
    /\ conn[s] = "open"
    /\ conn' = [conn EXCEPT ![s] = "closing"]
    /\ UNCHANGED <<recordVars, mirrorVars, attachVars, senderVars, aliveVars, frameVars,
                   pc, pendingMessages, closed, drained, peer>>

\* !isAlive at a tick.  (Mutant: the ping is never given up.)
PingUnanswered_Never(s) == FALSE
PingUnanswered(s) == ~isAlive[s]

\* One tick of the heartbeat on an open socket: terminate a client that has
\* not answered the last ping, or ping again.
HeartbeatTicks(s) ==
    /\ heartbeat[s]
    /\ conn[s] = "open"
    /\ \/ /\ PingUnanswered(s)
          /\ conn' = [conn EXCEPT ![s] = "closing"]
          /\ UNCHANGED isAlive
       \/ /\ ~PingUnanswered(s)
          /\ isAlive' = [isAlive EXCEPT ![s] = FALSE]
          /\ UNCHANGED conn
    /\ UNCHANGED <<recordVars, mirrorVars, attachVars, senderVars, frameVars, heartbeat,
                   pc, pendingMessages, closed, drained, peer>>

-----------------------------------------------------------------------------
(* The socket and the client at its other end.                              *)

\* 'close': with listeners, cleanup runs; `attachment` is set only in "live".
SocketCloses(s) ==
    /\ conn[s] = "closing"
    /\ conn' = [conn EXCEPT ![s] = "closed"]
    /\ \/ /\ ~Listening(s)
          /\ UNCHANGED <<closed, heartbeat, pendingOutput, subscribers>>
       \/ /\ Listening(s)
          /\ closed' = [closed EXCEPT ![s] = TRUE]
          /\ heartbeat' = [heartbeat EXCEPT ![s] = FALSE]
          /\ pendingOutput' = [pendingOutput EXCEPT ![s] = <<>>]
          /\ subscribers' = IF pc[s] = "live" THEN Detached(s) ELSE subscribers
    /\ UNCHANGED <<status, log, mirrorVars, attachVars, sent, frameVars, isAlive,
                   pc, pendingMessages, drained, peer>>

\* A frame reaches the server: lost without a listener, buffered until the
\* synchronous block, handled at once after it.
FrameArrives(s) ==
    LET f == arrived[s] + 1
    IN  /\ conn[s] \in {"open", "closing"} /\ peer[s] = "up"
        /\ arrived[s] < MaxFrames
        /\ arrived' = [arrived EXCEPT ![s] = f]
        /\ \/ /\ ~Listening(s)
              /\ unheard' = [unheard EXCEPT ![s] = @ + 1]
              /\ UNCHANGED <<bufferedFrames, handled, log, pendingMessages, senderVars, conn>>
           \/ /\ Listening(s) /\ pc[s] # "live"
              /\ bufferedFrames' = [bufferedFrames EXCEPT ![s] = Append(@, f)]
              /\ UNCHANGED <<unheard, handled, log, pendingMessages, senderVars, conn>>
           \/ /\ pc[s] = "live"
              /\ handled' = [handled EXCEPT ![s] = Append(@, f)]
              /\ FrameEffect
              /\ UNCHANGED <<unheard, bufferedFrames>>
        /\ UNCHANGED <<status, subscribers, mirrorVars, attachVars, aliveVars,
                       pc, closed, drained, peer>>

\* 'pong' answers an outstanding ping.
PongArrives(s) ==
    /\ conn[s] = "open" /\ peer[s] = "up"
    /\ Listening(s)
    /\ ~isAlive[s]
    /\ isAlive' = [isAlive EXCEPT ![s] = TRUE]
    /\ UNCHANGED <<recordVars, mirrorVars, attachVars, senderVars, frameVars, heartbeat,
                   pc, pendingMessages, closed, drained, conn, peer>>

\* The kernel takes one message from the socket's buffer.
SocketDrains(s) ==
    /\ conn[s] # "closed" /\ peer[s] = "up"
    /\ drained[s] < Len(sent[s])
    /\ drained' = [drained EXCEPT ![s] = @ + 1]
    /\ UNCHANGED <<recordVars, mirrorVars, attachVars, senderVars, aliveVars, frameVars,
                   pc, pendingMessages, closed, conn, peer>>

\* The client closes its side, or vanishes without a word.
PeerCloses(s) ==
    /\ conn[s] = "open" /\ peer[s] = "up"
    /\ conn' = [conn EXCEPT ![s] = "closing"]
    /\ UNCHANGED <<recordVars, mirrorVars, attachVars, senderVars, aliveVars, frameVars,
                   pc, pendingMessages, closed, drained, peer>>

PeerVanishes(s) ==
    /\ conn[s] = "open" /\ peer[s] = "up"
    /\ peer' = [peer EXCEPT ![s] = "gone"]
    /\ UNCHANGED <<recordVars, mirrorVars, attachVars, senderVars, aliveVars, frameVars,
                   pc, pendingMessages, closed, drained, conn>>

-----------------------------------------------------------------------------
\* The synchronous block goes on; nothing else runs until it ends.
SyncStep(s) ==
    HandlesBufferedFrame(s) \/ SendsSnapshot(s) \/ ReplaysMessage(s) \/ GoesLive(s)

\* What the server's event loop runs for one handler.
ServerStep(s) ==
    \/ AuthRefused(s) \/ AuthAccepted(s) \/ AttachReturns(s)
    \/ HandlerNotFound(s) \/ HandlerClosed(s) \/ HandlerResumes(s)
    \/ Flushes(s) \/ HeartbeatTicks(s) \/ SocketCloses(s)

\* What comes from outside.
ClientStep(s) ==
    \/ Connect(s) \/ FrameArrives(s) \/ PongArrives(s) \/ SocketDrains(s)
    \/ PeerCloses(s) \/ PeerVanishes(s) \/ SessionRevoked(s)

TerminalStep == DataArrives \/ PtyExits \/ CwdChanges \/ CloseTerminal \/ MirrorParses

Next ==
    \/ \E s \in Sockets : SyncStep(s)
    \/ Yielded /\ (TerminalStep \/ \E s \in Sockets : ServerStep(s) \/ ClientStep(s))

Spec == Init /\ [][Next]_vars

\* The event loop reaches every ready callback and timer; xterm drains its
\* buffer; ws closes a closing socket (its own timeout).  Nothing is assumed
\* of the client, the PTY or the user.
Fairness ==
    /\ WF_vars(Yielded /\ MirrorParses)
    /\ \A s \in Sockets :
          /\ WF_vars(SyncStep(s))
          /\ WF_vars(Yielded /\ (AuthRefused(s) \/ AuthAccepted(s)))
          /\ WF_vars(Yielded /\ AttachReturns(s))
          /\ WF_vars(Yielded /\ (HandlerNotFound(s) \/ HandlerClosed(s) \/ HandlerResumes(s)))
          /\ WF_vars(Yielded /\ Flushes(s))
          /\ WF_vars(Yielded /\ HeartbeatTicks(s))
          /\ WF_vars(Yielded /\ SocketCloses(s))

FairSpec == Spec /\ Fairness

-----------------------------------------------------------------------------
(* Properties.                                                              *)

\* sent[s] is the snapshot followed by messages start+1, start+2, ...
IsRun(s, q) ==
    \A j \in 1..Len(q) : q[j] = IF j = 1 THEN 0 ELSE start[s] + j - 1

\* What a client was handed is always the snapshot and then every message
\* published since it subscribed, each once, in order, none skipped: not even
\* for a client that was slow, was closed, or attached while data arrived.
GapFree == \A s \in Sockets : IsRun(s, sent[s])

\* Nothing published is on its way nowhere: for a subscriber whose socket is
\* open, what was sent, what its sender coalesces and what waits for its
\* snapshot are together every message since it subscribed.
NothingLost ==
    \A s \in subscribers :
        conn[s] = "open" =>
            LET tail == pendingOutput[s] \o pendingMessages[s]
                head == IF SnapshotSent(s) THEN sent[s] ELSE <<0>>
            IN  /\ IsRun(s, head \o tail)
                /\ Len(head \o tail) = Len(log) - start[s] + 1

\* The snapshot and the live stream do not overlap and nothing falls between
\* them: a chunk is in the snapshot if it was published before the handler
\* subscribed, unless the mirror refused the chunk or the sentinel.
SnapshotExact ==
    \A s \in Sockets : pc[s] \in {"resolved", "attached", "frames", "replay", "live"} =>
        /\ \A i \in snapshot[s] : i <= start[s]
        /\ \A i \in 1..start[s] :
              log[i] = "output" /\ i \notin snapshot[s] => i \in discarded \/ stale[s]

\* A client connected to a shell that has exited knows it, from the status in
\* its snapshot or from the exit message, whenever the exit fell during attach.
ExitIsKnown ==
    \A s \in subscribers :
        pc[s] = "live" /\ conn[s] = "open" /\ status = "exited" =>
            \/ attachedStatus[s] = "exited"
            \/ \E j \in 2..Len(sent[s]) : log[sent[s][j]] = "exit"

\* Once the listeners exist every frame is handled in the order it came, or
\* still waits: the switch from buffering to handling loses and swaps none.
FramesInOrder ==
    \A s \in Sockets :
        LET seen == handled[s] \o bufferedFrames[s]
        IN  /\ Len(seen) = arrived[s] - unheard[s]
            /\ \A j \in 1..Len(seen) : seen[j] = unheard[s] + j

\* A handler that heard its socket close, and is past its awaits, holds no
\* subscription, no timer and no unflushed output, however close and attach met.
CloseReleases ==
    \A s \in Sockets :
        closed[s] /\ pc[s] \in {"live", "done"} =>
            s \notin subscribers /\ ~heartbeat[s] /\ pendingOutput[s] = <<>>

\* The comment above the listeners: a close "would leak the heartbeat and the
\* attachment" if it fell before them.
ClosedSocketHoldsNothing ==
    \A s \in Sockets :
        conn[s] = "closed" /\ pc[s] \in {"live", "done", "refused"} =>
            s \notin subscribers /\ ~heartbeat[s]

\* Every attach ends, whatever closes meanwhile.
AttachEnds ==
    \A s \in Sockets : (pc[s] \in {"auth", "attaching"}) ~> (pc[s] \in {"live", "done", "refused"})

\* A message published while a client is connected reaches its socket, or the
\* socket is closed: nothing stays in pendingMessages or pendingOutput.
PublishedIsSent ==
    \A s \in Sockets, i \in 1..MaxLog :
        (s \in subscribers /\ conn[s] = "open" /\ start[s] < i /\ i <= Len(log))
            ~> (Len(sent[s]) > i - start[s] \/ conn[s] # "open" \/ status = "closed")

\* A client that vanished without a close frame is noticed and released.
VanishedIsReleased ==
    \A s \in Sockets :
        (Listening(s) /\ conn[s] = "open" /\ peer[s] = "gone")
            ~> (closed[s] /\ s \notin subscribers /\ ~heartbeat[s])

-----------------------------------------------------------------------------
(* TerminalStream implements TerminalFeed: a client joins when its handler  *)
(* calls attachTerminal and leaves when its socket starts to close or the   *)
(* terminal proves to be gone; what it is given is what socket.send took.   *)

FeedState(s) ==
    IF ~Listening(s) THEN "absent"
    ELSE IF conn[s] = "open" /\ pc[s] \notin {"notFound", "done"} THEN "watching"
    ELSE "left"

Feed == INSTANCE TerminalFeed WITH
    Viewers <- Sockets,
    feed <- log,
    state <- [s \in Sockets |-> FeedState(s)],
    base <- start,
    given <- sent

\* Every behaviour of the manager and its handlers is one of the feed: in
\* particular nobody is handed anything after his socket began to close.
ImplementsFeed == Feed!Spec
=============================================================================
