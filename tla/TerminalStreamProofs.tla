------------------------ MODULE TerminalStreamProofs ------------------------
(***************************************************************************)
(* Theorems about TerminalStream, for any number of sockets, any capacity  *)
(* of the mirror's write buffer and of a socket, and any bounds: no gap and *)
(* no loss, a close releases everything, frames are handled in order,       *)
(* snapshots are exact.                                                     *)
(***************************************************************************)
EXTENDS TerminalStream, SequenceTheorems, TLAPS

-----------------------------------------------------------------------------
(* What a sender does with a message.                                       *)

\* sendNow: the batch is appended to an open socket, or the socket is closed,
\* or it was not open; a socket that is open after it got the batch.
LEMMA SendNowFacts ==
    ASSUME NEW w \in SenderStates, NEW q \in Seq(Nat)
    PROVE  /\ SendNow(w, q) \in SenderStates
           /\ SendNow(w, q).out = w.out
           /\ \/ SendNow(w, q).sent = w.sent
              \/ SendNow(w, q).sent = w.sent \o q /\ w.conn = "open"
           /\ \/ SendNow(w, q).conn = w.conn
              \/ w.conn = "open" /\ SendNow(w, q).conn = "closing"
           /\ SendNow(w, q).conn = "open" => SendNow(w, q).sent = w.sent \o q
<1>1. w.sent \in Seq(Nat) /\ w.conn \in ConnStates /\ w.out \in Seq(Nat) /\ w.drained \in Nat
  BY DEF SenderStates
<1>2. w.sent \o q \in Seq(Nat) /\ (q = <<>> => w.sent \o q = w.sent)
  BY <1>1
<1>3. CASE q = <<>> \/ w.conn # "open"
  BY <1>2, <1>3 DEF SendNow
<1>4. CASE ~(q = <<>> \/ w.conn # "open") /\ TooSlow(w)
  <2>1. SendNow(w, q) = [w EXCEPT !.conn = "closing"]
    BY <1>4 DEF SendNow
  <2>. QED BY <1>4, <2>1 DEF SenderStates, ConnStates
<1>5. CASE ~(q = <<>> \/ w.conn # "open") /\ ~TooSlow(w)
  <2>1. PICK r : r = w.sent \o q
    OBVIOUS
  <2>2. SendNow(w, q) = [w EXCEPT !.sent = r]
    BY <1>5, <2>1 DEF SendNow
  <2>3. r \in Seq(Nat)
    BY <1>2, <2>1
  <2>4. /\ SendNow(w, q) \in SenderStates
        /\ SendNow(w, q).out = w.out
        /\ SendNow(w, q).sent = r
        /\ SendNow(w, q).conn = w.conn
    BY <2>2, <2>3 DEF SenderStates
  <2>. QED BY <1>5, <2>1, <2>4
<1>. QED BY <1>3, <1>4, <1>5

\* flushOutput: the waiting output is sent whole, or the socket is not open.
LEMMA FlushFacts ==
    ASSUME NEW w \in SenderStates
    PROVE  /\ Flush(w) \in SenderStates
           /\ Flush(w).out = <<>>
           /\ \/ Flush(w).sent = w.sent
              \/ Flush(w).sent = w.sent \o w.out /\ w.conn = "open"
           /\ \/ Flush(w).conn = w.conn
              \/ w.conn = "open" /\ Flush(w).conn = "closing"
           /\ Flush(w).conn = "open" => Flush(w).sent = w.sent \o w.out
<1>. DEFINE r == SendNow(w, w.out)
<1>1. w.out \in Seq(Nat)
  BY DEF SenderStates
<1>2. /\ r \in SenderStates
      /\ r.sent = w.sent \/ (r.sent = w.sent \o w.out /\ w.conn = "open")
      /\ r.conn = w.conn \/ (w.conn = "open" /\ r.conn = "closing")
      /\ r.conn = "open" => r.sent = w.sent \o w.out
  BY <1>1, SendNowFacts
<1>3. Flush(w) = [r EXCEPT !.out = <<>>]
  BY DEF Flush
<1>. HIDE DEF r
<1>. <<>> \in Seq(Nat)
  OBVIOUS
<1>4. /\ Flush(w) \in SenderStates
      /\ Flush(w).out = <<>>
      /\ Flush(w).sent = r.sent
      /\ Flush(w).conn = r.conn
  BY <1>2, <1>3 DEF SenderStates
<1>. QED BY <1>2, <1>4

\* send: output is coalesced and touches the socket no further; of anything
\* else a socket that stays open gets the waiting output and the message.
LEMMA SendFacts ==
    ASSUME NEW w \in SenderStates, NEW i \in Nat, NEW kind
    PROVE  /\ Send(w, i, kind) \in SenderStates
           /\ \/ Send(w, i, kind).conn = w.conn
              \/ w.conn = "open" /\ Send(w, i, kind).conn = "closing"
           /\ kind = "output" =>
                 /\ Send(w, i, kind).out = Append(w.out, i)
                 /\ Send(w, i, kind).sent = w.sent
                 /\ Send(w, i, kind).conn = w.conn
           /\ kind # "output" =>
                 /\ Send(w, i, kind).out = <<>>
                 /\ \/ Send(w, i, kind).sent = w.sent
                    \/ Send(w, i, kind).sent = w.sent \o w.out /\ w.conn = "open"
                    \/ Send(w, i, kind).sent = (w.sent \o w.out) \o <<i>> /\ w.conn = "open"
                 /\ Send(w, i, kind).conn = "open" =>
                       Send(w, i, kind).sent = (w.sent \o w.out) \o <<i>>
<1>1. CASE kind = "output"
  <2>1. w.out \in Seq(Nat)
    BY DEF SenderStates
  <2>2. PICK o : o = Append(w.out, i)
    OBVIOUS
  <2>. o \in Seq(Nat)
    BY <2>1, <2>2
  <2>3. Send(w, i, kind) = [w EXCEPT !.out = o]
    BY <1>1, <2>2 DEF Send
  <2>4. /\ Send(w, i, kind) \in SenderStates
        /\ Send(w, i, kind).out = o
        /\ Send(w, i, kind).sent = w.sent
        /\ Send(w, i, kind).conn = w.conn
    BY <2>3 DEF SenderStates
  <2>. QED BY <1>1, <2>2, <2>4
<1>2. CASE kind # "output"
  <2>. DEFINE f == Flush(w)
  <2>1. <<i>> \in Seq(Nat)
    OBVIOUS
  <2>2. Send(w, i, kind) = SendNow(f, <<i>>)
    BY <1>2 DEF Send
  <2>3. /\ f \in SenderStates
        /\ f.out = <<>>
        /\ f.sent = w.sent \/ (f.sent = w.sent \o w.out /\ w.conn = "open")
        /\ f.conn = w.conn \/ (w.conn = "open" /\ f.conn = "closing")
        /\ f.conn = "open" => f.sent = w.sent \o w.out
    BY FlushFacts
  <2>. HIDE DEF f
  <2>4. /\ SendNow(f, <<i>>) \in SenderStates
        /\ SendNow(f, <<i>>).out = f.out
        /\ \/ SendNow(f, <<i>>).sent = f.sent
           \/ SendNow(f, <<i>>).sent = f.sent \o <<i>> /\ f.conn = "open"
        /\ \/ SendNow(f, <<i>>).conn = f.conn
           \/ f.conn = "open" /\ SendNow(f, <<i>>).conn = "closing"
        /\ SendNow(f, <<i>>).conn = "open" => SendNow(f, <<i>>).sent = f.sent \o <<i>>
    BY <2>1, <2>3, SendNowFacts
  <2>. QED BY <1>2, <2>2, <2>3, <2>4
<1>. QED BY <1>1, <1>2

-----------------------------------------------------------------------------
(* Type correctness.                                                        *)

\* The sender record of a typed state is typed and holds that socket's state.
LEMMA SenderType ==
    ASSUME TypeOK, NEW s \in Sockets
    PROVE  /\ Sender(s) \in SenderStates
           /\ Sender(s).out = pendingOutput[s]
           /\ Sender(s).sent = sent[s]
           /\ Sender(s).conn = conn[s]
BY DEF TypeOK, Sender, SenderStates

\* Sending keeps the senders and the sockets typed.
LEMMA SendToType ==
    ASSUME TypeOK, NEW S, NEW i \in Nat, NEW kind, SendTo(S, i, kind)
    PROVE  /\ pendingOutput' \in [Sockets -> Seq(Nat)]
           /\ sent' \in [Sockets -> Seq(Nat)]
           /\ conn' \in [Sockets -> ConnStates]
<1>1. ASSUME NEW s \in Sockets
      PROVE  Send(Sender(s), i, kind) \in SenderStates
  BY SenderType, SendFacts
<1>2. ASSUME NEW s \in Sockets
      PROVE  /\ Send(Sender(s), i, kind).out \in Seq(Nat)
             /\ Send(Sender(s), i, kind).sent \in Seq(Nat)
             /\ Send(Sender(s), i, kind).conn \in ConnStates
  BY <1>1 DEF SenderStates
<1>. QED BY <1>2 DEF TypeOK, SendTo

\* Publishing keeps the log, the queues of messages and the sockets typed.
LEMMA PublishType ==
    ASSUME TypeOK, NEW kind \in Kinds, Publish(kind)
    PROVE  /\ log' \in Seq(Kinds)
           /\ pendingMessages' \in [Sockets -> Seq(Nat)]
           /\ pendingOutput' \in [Sockets -> Seq(Nat)]
           /\ sent' \in [Sockets -> Seq(Nat)]
           /\ conn' \in [Sockets -> ConnStates]
<1>1. log \in Seq(Kinds) /\ Len(log) + 1 \in Nat
  BY DEF TypeOK
<1>2. log' \in Seq(Kinds)
  BY <1>1 DEF Publish
<1>3. pendingMessages' \in [Sockets -> Seq(Nat)]
  BY <1>1 DEF Publish, TypeOK
<1>4. SendTo({s \in subscribers : SnapshotSent(s)}, Len(log) + 1, kind)
  BY DEF Publish
<1>5. /\ pendingOutput' \in [Sockets -> Seq(Nat)]
      /\ sent' \in [Sockets -> Seq(Nat)]
      /\ conn' \in [Sockets -> ConnStates]
  BY <1>1, <1>4, SendToType
<1>. QED BY <1>2, <1>3, <1>5

\* The initial state is typed.
LEMMA InitTypeOK == Init => TypeOK
BY DEF Init, TypeOK, ConnStates, Phases

\* Every step keeps the state typed.
LEMMA NextTypeOK == TypeOK /\ [Next]_vars => TypeOK'
<1>. SUFFICES ASSUME TypeOK, [Next]_vars PROVE TypeOK'
  OBVIOUS
<1>. USE DEF recordVars, mirrorVars, attachVars, senderVars, aliveVars, frameVars
<1>. <<>> \in Seq(Nat)
  OBVIOUS
<1>1. CASE DataArrives
  <2>1. Publish("output") /\ "output" \in Kinds
    BY <1>1 DEF DataArrives, Kinds
  <2>2. /\ queue' \in Seq(Entries)
        /\ discarded' \in SUBSET Nat
    <3>1. Data(Len(log) + 1) \in Entries /\ Len(log) + 1 \in Nat
      BY DEF Data, Entries, TypeOK
    <3>2. Append(queue, Data(Len(log) + 1)) \in Seq(Entries)
      BY <3>1 DEF TypeOK
    <3>. QED BY <1>1, <3>1, <3>2 DEF DataArrives, TypeOK
  <2>. QED BY <1>1, <2>1, <2>2, PublishType DEF DataArrives, TypeOK
<1>2. CASE PtyExits
  <2>1. Publish("exit") /\ "exit" \in Kinds
    BY <1>2 DEF PtyExits, Kinds
  <2>. QED BY <1>2, <2>1, PublishType DEF PtyExits, TypeOK
<1>3. CASE CwdChanges
  <2>1. Publish("terminal_updated") /\ "terminal_updated" \in Kinds
    BY <1>3 DEF CwdChanges, Kinds
  <2>. QED BY <1>3, <2>1, PublishType DEF CwdChanges, TypeOK
<1>4. CASE CloseTerminal
  BY <1>4 DEF CloseTerminal, TypeOK
<1>5. CASE MirrorParses
  <2>1. queue' \in Seq(Entries)
    BY <1>5 DEF MirrorParses, TypeOK
  <2>2. Head(queue) \in Entries
    BY <1>5 DEF MirrorParses, TypeOK
  <2>3. CASE Head(queue).type = "data"
    <3>1. Head(queue).chunk \in Nat
      BY <2>2, <2>3 DEF Entries
    <3>2. parsed' \in SUBSET Nat /\ UNCHANGED <<snapshot, pc>>
      BY <1>5, <2>3, <3>1 DEF MirrorParses, TypeOK
    <3>. QED BY <1>5, <2>1, <3>2 DEF MirrorParses, TypeOK
  <2>4. CASE Head(queue).type = "sentinel"
    <3>1. Head(queue).socket \in Sockets
      BY <2>2, <2>4 DEF Entries
    <3>2. /\ snapshot' \in [Sockets -> SUBSET Nat]
          /\ pc' \in [Sockets -> Phases]
          /\ UNCHANGED parsed
      BY <1>5, <2>4, <3>1 DEF MirrorParses, TypeOK, Phases
    <3>. QED BY <1>5, <2>1, <3>2 DEF MirrorParses, TypeOK
  <2>. QED BY <1>5, <2>3, <2>4 DEF MirrorParses
<1>6. ASSUME NEW s \in Sockets, Connect(s) PROVE TypeOK'
  BY <1>6 DEF Connect, TypeOK, Phases, ConnStates
<1>7. ASSUME NEW s \in Sockets, AuthRefused(s) PROVE TypeOK'
  BY <1>7 DEF AuthRefused, TypeOK, Phases, ConnStates
<1>8. ASSUME NEW s \in Sockets, AuthAccepted(s) PROVE TypeOK'
  <2>1. /\ queue' \in Seq(Entries)
        /\ subscribers' \in SUBSET Sockets
        /\ start' \in [Sockets -> Nat]
        /\ stale' \in [Sockets -> BOOLEAN]
        /\ snapshot' \in [Sockets -> SUBSET Nat]
        /\ pc' \in [Sockets -> Phases]
    <3>1. Sentinel(s) \in Entries
      BY DEF Sentinel, Entries
    <3>2. Append(queue, Sentinel(s)) \in Seq(Entries)
      BY <3>1 DEF TypeOK
    <3>3. queue' \in Seq(Entries)
      BY <1>8, <3>2 DEF AuthAccepted, TypeOK, QueueSentinel
    <3>4. /\ subscribers' \in SUBSET Sockets
          /\ stale' \in [Sockets -> BOOLEAN]
      BY <1>8 DEF AuthAccepted, TypeOK
    <3>6. Len(log) \in Nat /\ start' = [start EXCEPT ![s] = Len(log)]
      BY <1>8 DEF AuthAccepted, TypeOK
    <3>7. start' \in [Sockets -> Nat]
      BY <3>6 DEF TypeOK
    <3>5. /\ snapshot' \in [Sockets -> SUBSET Nat]
          /\ pc' \in [Sockets -> Phases]
      BY <1>8 DEF AuthAccepted, TypeOK, Phases
    <3>. QED BY <3>3, <3>4, <3>5, <3>7
  <2>. QED BY <1>8, <2>1 DEF AuthAccepted, TypeOK
<1>9. ASSUME NEW s \in Sockets, AttachReturns(s) PROVE TypeOK'
  BY <1>9 DEF AttachReturns, TerminalIsOpen, TypeOK, Phases
<1>10. ASSUME NEW s \in Sockets, HandlerNotFound(s) PROVE TypeOK'
  BY <1>10 DEF HandlerNotFound, TypeOK, Phases, ConnStates
<1>11. ASSUME NEW s \in Sockets, HandlerClosed(s) PROVE TypeOK'
  BY <1>11 DEF HandlerClosed, Detached, TypeOK, Phases
<1>12. ASSUME NEW s \in Sockets, HandlerResumes(s) PROVE TypeOK'
  BY <1>12 DEF HandlerResumes, TypeOK, Phases
<1>13. ASSUME FrameEffect
       PROVE  /\ log' \in Seq(Kinds)
              /\ pendingMessages' \in [Sockets -> Seq(Nat)]
              /\ pendingOutput' \in [Sockets -> Seq(Nat)]
              /\ sent' \in [Sockets -> Seq(Nat)]
              /\ conn' \in [Sockets -> ConnStates]
  <2>1. "terminal_updated" \in Kinds
    BY DEF Kinds
  <2>2. CASE Publish("terminal_updated")
    BY <2>1, <2>2, PublishType
  <2>3. CASE UNCHANGED <<log, pendingMessages, senderVars, conn>>
    BY <2>3 DEF TypeOK
  <2>. QED BY <1>13, <2>2, <2>3 DEF FrameEffect
<1>14. ASSUME NEW s \in Sockets, HandlesBufferedFrame(s) PROVE TypeOK'
  <2>1. /\ handled' \in [Sockets -> Seq(Nat)]
        /\ bufferedFrames' \in [Sockets -> Seq(Nat)]
    BY <1>14 DEF HandlesBufferedFrame, TypeOK
  <2>2. FrameEffect
    BY <1>14 DEF HandlesBufferedFrame
  <2>. QED BY <1>13, <1>14, <2>1, <2>2 DEF HandlesBufferedFrame, TypeOK
<1>15. ASSUME NEW s \in Sockets, SendsSnapshot(s) PROVE TypeOK'
  <2>1. SendTo({s}, 0, "snapshot")
    BY <1>15 DEF SendsSnapshot
  <2>2. pc' \in [Sockets -> Phases]
    BY <1>15 DEF SendsSnapshot, TypeOK, Phases
  <2>. QED BY <1>15, <2>1, <2>2, SendToType DEF SendsSnapshot, TypeOK
<1>16. ASSUME NEW s \in Sockets, ReplaysMessage(s) PROVE TypeOK'
  <2>1. SendTo({s}, Head(pendingMessages[s]), log[Head(pendingMessages[s])])
    BY <1>16 DEF ReplaysMessage
  <2>2. Head(pendingMessages[s]) \in Nat /\ pendingMessages' \in [Sockets -> Seq(Nat)]
    BY <1>16 DEF ReplaysMessage, TypeOK
  <2>. QED BY <1>16, <2>1, <2>2, SendToType DEF ReplaysMessage, TypeOK
<1>17. ASSUME NEW s \in Sockets, GoesLive(s) PROVE TypeOK'
  BY <1>17 DEF GoesLive, TypeOK, Phases
<1>18. ASSUME NEW s \in Sockets, Flushes(s) PROVE TypeOK'
  <2>1. /\ Flush(Sender(s)).sent \in Seq(Nat)
        /\ Flush(Sender(s)).conn \in ConnStates
    BY SenderType, FlushFacts DEF SenderStates
  <2>. QED BY <1>18, <2>1 DEF Flushes, TypeOK
<1>19. ASSUME NEW s \in Sockets, SessionRevoked(s) PROVE TypeOK'
  BY <1>19 DEF SessionRevoked, TypeOK, ConnStates
<1>20. ASSUME NEW s \in Sockets, HeartbeatTicks(s) PROVE TypeOK'
  BY <1>20 DEF HeartbeatTicks, TypeOK, ConnStates
<1>21. ASSUME NEW s \in Sockets, SocketCloses(s) PROVE TypeOK'
  <2>1. /\ conn' \in [Sockets -> ConnStates]
        /\ closed' \in [Sockets -> BOOLEAN]
        /\ heartbeat' \in [Sockets -> BOOLEAN]
        /\ pendingOutput' \in [Sockets -> Seq(Nat)]
        /\ subscribers' \in SUBSET Sockets
    <3>1. /\ closed' = [closed EXCEPT ![s] = TRUE] \/ UNCHANGED closed
          /\ heartbeat' = [heartbeat EXCEPT ![s] = FALSE] \/ UNCHANGED heartbeat
          /\ pendingOutput' = [pendingOutput EXCEPT ![s] = <<>>] \/ UNCHANGED pendingOutput
          /\ subscribers' \in {subscribers, subscribers \ {s}}
          /\ conn' = [conn EXCEPT ![s] = "closed"]
      BY <1>21 DEF SocketCloses, Detached
    <3>. QED BY <3>1 DEF TypeOK, ConnStates
  <2>. QED BY <1>21, <2>1 DEF SocketCloses, TypeOK
<1>22. ASSUME NEW s \in Sockets, FrameArrives(s) PROVE TypeOK'
  <2>1. /\ arrived' \in [Sockets -> Nat]
        /\ unheard' \in [Sockets -> Nat]
        /\ bufferedFrames' \in [Sockets -> Seq(Nat)]
        /\ handled' \in [Sockets -> Seq(Nat)]
    <3>0. PICK f : f = arrived[s] + 1
      OBVIOUS
    <3>1. /\ f \in Nat /\ unheard[s] + 1 \in Nat
          /\ Append(bufferedFrames[s], f) \in Seq(Nat)
          /\ Append(handled[s], f) \in Seq(Nat)
      BY <3>0 DEF TypeOK
    <3>2. /\ unheard' = [unheard EXCEPT ![s] = unheard[s] + 1] \/ UNCHANGED unheard
          /\ \/ bufferedFrames' = [bufferedFrames EXCEPT ![s] = Append(bufferedFrames[s], f)]
             \/ UNCHANGED bufferedFrames
          /\ \/ handled' = [handled EXCEPT ![s] = Append(handled[s], f)]
             \/ UNCHANGED handled
          /\ arrived' = [arrived EXCEPT ![s] = f]
      <4>1. /\ arrived' = [arrived EXCEPT ![s] = f]
            /\ unheard' = [unheard EXCEPT ![s] = unheard[s] + 1] \/ UNCHANGED unheard
        BY <1>22, <3>0 DEF FrameArrives
      <4>2. \/ bufferedFrames' = [bufferedFrames EXCEPT ![s] = Append(bufferedFrames[s], f)]
            \/ UNCHANGED bufferedFrames
        BY <1>22, <3>0 DEF FrameArrives
      <4>3. \/ handled' = [handled EXCEPT ![s] = Append(handled[s], f)]
            \/ UNCHANGED handled
        BY <1>22, <3>0 DEF FrameArrives
      <4>. QED BY <4>1, <4>2, <4>3
    <3>3. arrived' \in [Sockets -> Nat] /\ unheard' \in [Sockets -> Nat]
      <4>1. arrived \in [Sockets -> Nat] /\ unheard \in [Sockets -> Nat]
        BY DEF TypeOK
      <4>2. arrived' \in [Sockets -> Nat]
        BY <3>1, <3>2, <4>1
      <4>3. unheard' \in [Sockets -> Nat]
        BY <3>1, <3>2, <4>1
      <4>. QED BY <4>2, <4>3
    <3>4. bufferedFrames' \in [Sockets -> Seq(Nat)]
      BY <3>1, <3>2 DEF TypeOK
    <3>5. handled' \in [Sockets -> Seq(Nat)]
      BY <3>1, <3>2 DEF TypeOK
    <3>. QED BY <3>3, <3>4, <3>5
  <2>2. /\ log' \in Seq(Kinds)
        /\ pendingMessages' \in [Sockets -> Seq(Nat)]
        /\ pendingOutput' \in [Sockets -> Seq(Nat)]
        /\ sent' \in [Sockets -> Seq(Nat)]
        /\ conn' \in [Sockets -> ConnStates]
    <3>1. FrameEffect \/ UNCHANGED <<log, pendingMessages, senderVars, conn>>
      BY <1>22 DEF FrameArrives
    <3>. QED BY <1>13, <3>1 DEF TypeOK
  <2>3. UNCHANGED <<status, subscribers, mirrorVars, attachVars, aliveVars,
                    pc, closed, drained, peer>>
    BY <1>22 DEF FrameArrives
  <2>. QED BY <2>1, <2>2, <2>3 DEF TypeOK
<1>23. ASSUME NEW s \in Sockets, PongArrives(s) PROVE TypeOK'
  BY <1>23 DEF PongArrives, TypeOK
<1>24. ASSUME NEW s \in Sockets, SocketDrains(s) PROVE TypeOK'
  <2>1. drained' = [drained EXCEPT ![s] = drained[s] + 1] /\ drained \in [Sockets -> Nat]
    BY <1>24 DEF SocketDrains, TypeOK
  <2>2. drained' \in [Sockets -> Nat]
    BY <2>1
  <2>3. UNCHANGED <<recordVars, mirrorVars, attachVars, senderVars, aliveVars, frameVars,
                    pc, pendingMessages, closed, conn, peer>>
    BY <1>24 DEF SocketDrains
  <2>. QED BY <2>2, <2>3 DEF TypeOK
<1>25. ASSUME NEW s \in Sockets, PeerCloses(s) PROVE TypeOK'
  BY <1>25 DEF PeerCloses, TypeOK, ConnStates
<1>26. ASSUME NEW s \in Sockets, PeerVanishes(s) PROVE TypeOK'
  BY <1>26 DEF PeerVanishes, TypeOK
<1>27. CASE UNCHANGED vars
  BY <1>27 DEF vars, TypeOK
<1>. QED
  BY <1>1, <1>2, <1>3, <1>4, <1>5, <1>6, <1>7, <1>8, <1>9, <1>10, <1>11, <1>12, <1>14,
     <1>15, <1>16, <1>17, <1>18, <1>19, <1>20, <1>21, <1>22, <1>23, <1>24, <1>25, <1>26,
     <1>27
  DEF Next, SyncStep, TerminalStep, ServerStep, ClientStep

\* The manager's, the handlers' and the senders' states are well-formed, for
\* any number of connections and any capacities.
THEOREM StreamTypeCorrect == Spec => []TypeOK
BY InitTypeOK, NextTypeOK, PTL DEF Spec

-----------------------------------------------------------------------------
(* Control: who is in the synchronous block, whose sentinel is queued.      *)

Synchronous(s) == pc[s] \in {"frames", "replay"}

SyncInv ==
    \A x, y \in Sockets : Synchronous(x) /\ Synchronous(y) => x = y

\* A queued sentinel belongs to a handler that awaits it, and to no other.
QueueInv ==
    \A j \in 1..Len(queue) :
        queue[j].type = "sentinel" =>
            /\ pc[queue[j].socket] = "attaching"
            /\ \A k \in 1..Len(queue) :
                  queue[k].type = "sentinel" /\ queue[k].socket = queue[j].socket => k = j

ControlInv == SyncInv /\ QueueInv

\* No handler is in its block and no sentinel is queued initially.
LEMMA InitControl == Init => ControlInv
BY DEF Init, ControlInv, SyncInv, QueueInv, Synchronous

\* A handler that neither awaits a sentinel, before or after, nor enters the
\* block disturbs nothing.
LEMMA ControlKept ==
    ASSUME TypeOK, ControlInv, NEW s \in Sockets, NEW phase \in Phases,
           pc' = [pc EXCEPT ![s] = phase], queue' = queue,
           pc[s] # "attaching", phase \in {"frames", "replay"} => Synchronous(s)
    PROVE  ControlInv'
<1>1. SyncInv'
  BY DEF TypeOK, ControlInv, SyncInv, Synchronous
<1>2. QueueInv'
  BY DEF TypeOK, ControlInv, QueueInv
<1>. QED BY <1>1, <1>2 DEF ControlInv

\* Every step keeps one handler at most in its block, and the queued sentinels
\* those of the handlers that await them.
LEMMA NextControl == TypeOK /\ ControlInv /\ [Next]_vars => ControlInv'
<1>. SUFFICES ASSUME TypeOK, ControlInv, [Next]_vars PROVE ControlInv'
  OBVIOUS
<1>. USE DEF recordVars, mirrorVars, attachVars, senderVars, aliveVars, frameVars
<1>1. ASSUME UNCHANGED <<pc, queue>> PROVE ControlInv'
  BY <1>1 DEF ControlInv, SyncInv, QueueInv, Synchronous
<1>2. CASE DataArrives
  <2>1. pc' = pc
    BY <1>2 DEF DataArrives
  <2>2. queue' = queue \/ queue' = Append(queue, Data(Len(log) + 1))
    BY <1>2 DEF DataArrives
  <2>3. CASE queue' = queue
    BY <1>1, <2>1, <2>3
  <2>4. CASE queue' = Append(queue, Data(Len(log) + 1))
    <3>1. /\ Data(Len(log) + 1).type = "data"
          /\ Data(Len(log) + 1) \in Entries
      BY DEF Data, Entries, TypeOK
    <3>2. PICK d \in Entries : d.type = "data" /\ queue' = Append(queue, d)
      BY <2>4, <3>1
    <3>3. /\ Len(queue') = Len(queue) + 1
          /\ Len(queue) \in Nat
          /\ \A j \in 1..Len(queue) : queue'[j] = queue[j]
          /\ queue'[Len(queue) + 1] = d
      BY <3>2 DEF TypeOK
    <3>4. \A j \in 1..Len(queue') :
             queue'[j].type = "sentinel" => j \in 1..Len(queue) /\ queue'[j] = queue[j]
      BY <3>2, <3>3
    <3>5. QueueInv'
      BY <2>1, <3>3, <3>4 DEF ControlInv, QueueInv
    <3>6. SyncInv'
      BY <2>1 DEF ControlInv, SyncInv, Synchronous
    <3>. QED BY <3>5, <3>6 DEF ControlInv
  <2>. QED BY <2>2, <2>3, <2>4
<1>3. CASE MirrorParses
  <2>1. /\ queue # <<>> /\ queue' = Tail(queue)
        /\ Len(queue) \in Nat \ {0}
        /\ Len(queue') = Len(queue) - 1
        /\ Head(queue) = queue[1]
        /\ Head(queue) \in Entries
    BY <1>3 DEF MirrorParses, TypeOK
  <2>2. \A j \in 1..Len(queue') : queue'[j] = queue[j + 1] /\ j + 1 \in 1..Len(queue)
    BY <2>1 DEF TypeOK
  <2>3. CASE Head(queue).type = "data"
    <3>1. pc' = pc
      BY <1>3, <2>3 DEF MirrorParses
    <3>. QED BY <2>1, <2>2, <3>1 DEF ControlInv, SyncInv, QueueInv, Synchronous
  <2>4. CASE Head(queue).type = "sentinel"
    <3>. DEFINE s == Head(queue).socket
    <3>1. s \in Sockets
      BY <2>1, <2>4 DEF Entries
    <3>2. pc' = [pc EXCEPT ![s] = "resolved"]
      BY <1>3, <2>4 DEF MirrorParses
    <3>3. SyncInv'
      BY <3>1, <3>2 DEF TypeOK, ControlInv, SyncInv, Synchronous
    <3>4. \A j \in 1..Len(queue') : queue'[j].type = "sentinel" => queue'[j].socket # s
      BY <2>1, <2>2, <2>4 DEF ControlInv, QueueInv
    <3>5. ASSUME NEW j \in 1..Len(queue'), queue'[j].type = "sentinel"
          PROVE  pc'[queue'[j].socket] = "attaching"
      <4>1. queue'[j].socket # s
        BY <3>4, <3>5
      <4>2. pc[queue'[j].socket] = "attaching"
        BY <2>2, <3>5 DEF ControlInv, QueueInv
      <4>. QED BY <3>2, <4>1, <4>2 DEF TypeOK
    <3>6. ASSUME NEW j \in 1..Len(queue'), queue'[j].type = "sentinel",
                 NEW k \in 1..Len(queue'), queue'[k].type = "sentinel",
                 queue'[k].socket = queue'[j].socket
          PROVE  k = j
      <4>1. k + 1 = j + 1
        BY <2>2, <3>6 DEF ControlInv, QueueInv
      <4>. QED BY <4>1, <2>1
    <3>7. QueueInv'
      BY <3>5, <3>6 DEF QueueInv
    <3>. QED BY <3>3, <3>7 DEF ControlInv
  <2>. QED BY <1>3, <2>3, <2>4 DEF MirrorParses
<1>4. ASSUME NEW s \in Sockets, AuthAccepted(s) PROVE ControlInv'
  <2>1. pc[s] = "auth"
    BY <1>4 DEF AuthAccepted
  <2>2. CASE queue' = queue /\ pc' \in {[pc EXCEPT ![s] = "notFound"], [pc EXCEPT ![s] = "resolved"]}
    BY <2>1, <2>2, ControlKept DEF Phases
  <2>3. CASE queue' = Append(queue, Sentinel(s)) /\ pc' = [pc EXCEPT ![s] = "attaching"]
    <3>1. /\ Sentinel(s).type = "sentinel"
          /\ Sentinel(s).socket = s
          /\ Sentinel(s) \in Entries
      BY DEF Sentinel, Entries
    <3>2. PICK e \in Entries : e.type = "sentinel" /\ e.socket = s /\ queue' = Append(queue, e)
      BY <2>3, <3>1
    <3>3. /\ Len(queue') = Len(queue) + 1
          /\ Len(queue) \in Nat
          /\ \A j \in 1..Len(queue) : queue'[j] = queue[j]
          /\ queue'[Len(queue) + 1] = e
      BY <3>2 DEF TypeOK
    <3>4. QueueInv'
      <4>1. ASSUME NEW j \in 1..Len(queue), queue[j].type = "sentinel"
            PROVE  queue[j].socket # s /\ pc'[queue[j].socket] = "attaching"
        BY <2>1, <2>3, <4>1 DEF ControlInv, QueueInv, TypeOK
      <4>2. pc'[s] = "attaching"
        BY <2>3 DEF TypeOK
      <4>. QED BY <3>2, <3>3, <4>1, <4>2 DEF ControlInv, QueueInv
    <3>5. SyncInv'
      BY <2>1, <2>3 DEF TypeOK, ControlInv, SyncInv, Synchronous
    <3>. QED BY <3>4, <3>5 DEF ControlInv
  <2>. QED BY <1>4, <2>2, <2>3 DEF AuthAccepted, QueueSentinel
<1>5. ASSUME NEW s \in Sockets, Yielded, HandlerResumes(s) PROVE ControlInv'
  <2>1. pc[s] = "attached" /\ pc' = [pc EXCEPT ![s] = "frames"] /\ queue' = queue
    BY <1>5 DEF HandlerResumes
  <2>2. SyncInv'
    BY <1>5, <2>1 DEF Yielded, TypeOK, SyncInv, Synchronous
  <2>3. QueueInv'
    BY <2>1 DEF TypeOK, ControlInv, QueueInv
  <2>. QED BY <2>2, <2>3 DEF ControlInv
<1>6. ASSUME NEW s \in Sockets, SyncStep(s) PROVE ControlInv'
  <2>1. CASE HandlesBufferedFrame(s)
    BY <1>1, <2>1 DEF HandlesBufferedFrame
  <2>2. CASE SendsSnapshot(s)
    <3>1. /\ pc[s] = "frames" /\ pc' = [pc EXCEPT ![s] = "replay"] /\ queue' = queue
          /\ Synchronous(s)
      BY <2>2 DEF SendsSnapshot, Synchronous
    <3>. QED BY <3>1, ControlKept DEF Phases
  <2>3. CASE ReplaysMessage(s)
    BY <1>1, <2>3 DEF ReplaysMessage
  <2>4. CASE GoesLive(s)
    <3>1. pc[s] = "replay" /\ pc' = [pc EXCEPT ![s] = "live"] /\ queue' = queue
      BY <2>4 DEF GoesLive
    <3>. QED BY <3>1, ControlKept DEF Phases
  <2>. QED BY <1>6, <2>1, <2>2, <2>3, <2>4 DEF SyncStep
<1>7. ASSUME NEW s \in Sockets,
             AuthRefused(s) \/ AttachReturns(s) \/ HandlerNotFound(s) \/ HandlerClosed(s)
               \/ Connect(s)
      PROVE  ControlInv'
  <2>1. /\ queue' = queue
        /\ pc[s] \in {"idle", "auth", "resolved", "notFound", "attached"}
        /\ \E phase \in {"auth", "refused", "notFound", "attached", "done"} :
              pc' = [pc EXCEPT ![s] = phase]
    BY <1>7 DEF AuthRefused, AttachReturns, HandlerNotFound, HandlerClosed, Connect
  <2>. QED BY <2>1, ControlKept DEF Phases
<1>8. ASSUME NEW s \in Sockets,
             Flushes(s) \/ HeartbeatTicks(s) \/ SocketCloses(s) \/ FrameArrives(s)
               \/ PongArrives(s) \/ SocketDrains(s) \/ PeerCloses(s) \/ PeerVanishes(s)
               \/ SessionRevoked(s)
      PROVE  ControlInv'
  <2>1. UNCHANGED <<pc, queue>>
    BY <1>8 DEF Flushes, HeartbeatTicks, SocketCloses, FrameArrives, PongArrives,
                SocketDrains, PeerCloses, PeerVanishes, SessionRevoked
  <2>. QED BY <1>1, <2>1
<1>9. CASE PtyExits \/ CwdChanges \/ CloseTerminal
  <2>1. UNCHANGED <<pc, queue>>
    BY <1>9 DEF PtyExits, CwdChanges, CloseTerminal
  <2>. QED BY <1>1, <2>1
<1>10. CASE UNCHANGED vars
  BY <1>1, <1>10 DEF vars
<1>. QED
  BY <1>2, <1>3, <1>4, <1>5, <1>6, <1>7, <1>8, <1>9, <1>10
  DEF Next, TerminalStep, ServerStep, ClientStep

-----------------------------------------------------------------------------
(* The stream: what a socket got, what its sender holds and what waits for  *)
(* its snapshot continue one another.                                       *)

\* q is the snapshot and messages b+1, b+2, ...
Run(b, q) == \A j \in 1..Len(q) : q[j] = IF j = 1 THEN 0 ELSE b + j - 1

\* q goes on where n elements of a run ended.
Continues(b, n, q) == \A j \in 1..Len(q) : q[j] = b + n + j - 1

\* Before its snapshot is sent a handler still owes it.
Ahead(x) == IF SnapshotSent(x) THEN Len(sent[x]) ELSE 1

Flowing(x) == SnapshotSent(x) => conn[x] = "open"

StreamAt(x) ==
    /\ Run(start[x], sent[x])
    /\ start[x] <= Len(log)
    /\ ~SnapshotSent(x) => sent[x] = <<>> /\ pendingOutput[x] = <<>>
    /\ ~Listening(x) \/ pc[x] \in {"notFound", "done"} => x \notin subscribers
    /\ ~Listening(x) \/ pc[x] = "live" => pendingMessages[x] = <<>>
    /\ Flowing(x) =>
          /\ Ahead(x) >= 1
          /\ Continues(start[x], Ahead(x), pendingOutput[x])
          /\ Continues(start[x], Ahead(x) + Len(pendingOutput[x]), pendingMessages[x])
          /\ x \in subscribers =>
                Ahead(x) + Len(pendingOutput[x]) + Len(pendingMessages[x])
                    = Len(log) - start[x] + 1

StreamInv == \A x \in Sockets : StreamAt(x)

\* A run followed by the messages that come next is a run.
LEMMA RunContinues ==
    ASSUME NEW b \in Nat, NEW p \in Seq(Nat), NEW q \in Seq(Nat),
           Run(b, p), Len(p) >= 1, Continues(b, Len(p), q)
    PROVE  /\ Run(b, p \o q)
           /\ p \o q \in Seq(Nat)
           /\ Len(p \o q) = Len(p) + Len(q)
<1>1. Len(p \o q) = Len(p) + Len(q) /\ p \o q \in Seq(Nat)
  OBVIOUS
<1>2. ASSUME NEW j \in 1..Len(p \o q)
      PROVE  (p \o q)[j] = IF j = 1 THEN 0 ELSE b + j - 1
  <2>1. CASE j <= Len(p)
    BY <2>1 DEF Run
  <2>2. CASE j > Len(p)
    <3>1. (p \o q)[j] = q[j - Len(p)] /\ j - Len(p) \in 1..Len(q)
      BY <1>1, <2>2
    <3>2. q[j - Len(p)] = b + Len(p) + (j - Len(p)) - 1
      BY <3>1 DEF Continues
    <3>. QED BY <2>2, <3>1, <3>2
  <2>. QED BY <2>1, <2>2
<1>. QED BY <1>1, <1>2 DEF Run

\* Messages that come next, and the one after them, come next.
LEMMA ContinuesAppend ==
    ASSUME NEW b \in Nat, NEW n \in Nat, NEW q \in Seq(Nat), Continues(b, n, q),
           NEW i \in Nat, i = b + n + Len(q)
    PROVE  /\ Continues(b, n, Append(q, i))
           /\ Append(q, i) \in Seq(Nat)
           /\ Len(Append(q, i)) = Len(q) + 1
BY DEF Continues

\* A run, the messages that come next and the one after them are a run.
LEMMA RunGoesOn ==
    ASSUME NEW b \in Nat, NEW p \in Seq(Nat), NEW q \in Seq(Nat),
           Run(b, p), Len(p) >= 1, Continues(b, Len(p), q),
           NEW i \in Nat, i = b + Len(p) + Len(q)
    PROVE  /\ Run(b, p \o q)
           /\ Run(b, (p \o q) \o <<i>>)
           /\ Len((p \o q) \o <<i>>) = Len(p) + Len(q) + 1
           /\ Continues(b, Len(p), Append(q, i))
           /\ Len(Append(q, i)) = Len(q) + 1
<1>1. Run(b, p \o q) /\ p \o q \in Seq(Nat) /\ Len(p \o q) = Len(p) + Len(q)
  BY RunContinues
<1>2. PICK r \in Seq(Nat) : r = p \o q /\ Run(b, r) /\ Len(r) = Len(p) + Len(q)
  BY <1>1
<1>3. <<i>> \in Seq(Nat) /\ Len(<<i>>) = 1 /\ Continues(b, Len(r), <<i>>)
  BY <1>2 DEF Continues
<1>4. Len(r) >= 1
  BY <1>2
<1>5. Run(b, r \o <<i>>) /\ Len(r \o <<i>>) = Len(r) + 1
  BY <1>2, <1>3, <1>4, RunContinues
<1>6. Continues(b, Len(p), Append(q, i)) /\ Len(Append(q, i)) = Len(q) + 1
  BY ContinuesAppend
<1>. QED BY <1>1, <1>2, <1>5, <1>6

\* A sender whose socket is open and that is given the next message of its run
\* goes on with the run, one message further, if its socket is still open.
LEMMA SendGoesOn ==
    ASSUME NEW w \in SenderStates, NEW b \in Nat, NEW i \in Nat, NEW kind,
           Run(b, w.sent),
           w.conn = "open" =>
              /\ Len(w.sent) >= 1
              /\ Continues(b, Len(w.sent), w.out)
              /\ i = b + Len(w.sent) + Len(w.out)
    PROVE  /\ Run(b, Send(w, i, kind).sent)
           /\ Send(w, i, kind).conn = "open" =>
                 /\ w.conn = "open"
                 /\ Len(Send(w, i, kind).sent) >= 1
                 /\ Continues(b, Len(Send(w, i, kind).sent), Send(w, i, kind).out)
                 /\ Len(Send(w, i, kind).sent) + Len(Send(w, i, kind).out)
                       = Len(w.sent) + Len(w.out) + 1
<1>0. /\ Send(w, i, kind) \in SenderStates
      /\ \/ Send(w, i, kind).conn = w.conn
         \/ w.conn = "open" /\ Send(w, i, kind).conn = "closing"
      /\ kind = "output" =>
            /\ Send(w, i, kind).out = Append(w.out, i)
            /\ Send(w, i, kind).sent = w.sent
            /\ Send(w, i, kind).conn = w.conn
      /\ kind # "output" =>
            /\ Send(w, i, kind).out = <<>>
            /\ \/ Send(w, i, kind).sent = w.sent
               \/ Send(w, i, kind).sent = w.sent \o w.out /\ w.conn = "open"
               \/ Send(w, i, kind).sent = (w.sent \o w.out) \o <<i>> /\ w.conn = "open"
            /\ Send(w, i, kind).conn = "open" =>
                  Send(w, i, kind).sent = (w.sent \o w.out) \o <<i>>
  BY SendFacts, Zenon
<1>1. PICK v \in SenderStates :
         /\ v = Send(w, i, kind)
         /\ v.conn = w.conn \/ (w.conn = "open" /\ v.conn = "closing")
         /\ kind = "output" => v.out = Append(w.out, i) /\ v.sent = w.sent
         /\ kind # "output" =>
               /\ v.out = <<>>
               /\ \/ v.sent = w.sent
                  \/ v.sent = w.sent \o w.out /\ w.conn = "open"
                  \/ v.sent = (w.sent \o w.out) \o <<i>> /\ w.conn = "open"
               /\ v.conn = "open" => v.sent = (w.sent \o w.out) \o <<i>>
  BY <1>0, Zenon
<1>2. PICK p \in Seq(Nat), q \in Seq(Nat), p1 \in Seq(Nat), q1 \in Seq(Nat) :
         p = w.sent /\ q = w.out /\ p1 = v.sent /\ q1 = v.out
  BY DEF SenderStates
<1>3. /\ v.conn = w.conn \/ (w.conn = "open" /\ v.conn = "closing")
      /\ kind = "output" => q1 = Append(q, i) /\ p1 = p
      /\ kind # "output" =>
            /\ q1 = <<>>
            /\ \/ p1 = p
               \/ p1 = p \o q /\ w.conn = "open"
               \/ p1 = (p \o q) \o <<i>> /\ w.conn = "open"
            /\ v.conn = "open" => p1 = (p \o q) \o <<i>>
  BY <1>1, <1>2
<1>4. Run(b, p) /\ Len(p) \in Nat /\ Len(q) \in Nat
  BY <1>2
<1>5. CASE w.conn = "open"
  <2>1. Len(p) >= 1 /\ Continues(b, Len(p), q) /\ i = b + Len(p) + Len(q)
    BY <1>2, <1>5
  <2>2. /\ Run(b, p \o q)
        /\ Run(b, (p \o q) \o <<i>>)
        /\ Len((p \o q) \o <<i>>) = Len(p) + Len(q) + 1
        /\ Continues(b, Len(p), Append(q, i))
        /\ Len(Append(q, i)) = Len(q) + 1
    BY <1>4, <2>1, RunGoesOn
  <2>3. Run(b, p1)
    BY <1>3, <1>4, <2>2
  <2>4. CASE kind = "output"
    <3>1. Len(q1) = Len(q) + 1 /\ Len(p1) = Len(p) /\ Continues(b, Len(p1), q1)
      BY <1>3, <2>2, <2>4
    <3>2. Len(p1) >= 1 /\ Len(p1) + Len(q1) = Len(p) + Len(q) + 1
      BY <1>4, <2>1, <3>1
    <3>. QED BY <1>1, <1>2, <1>5, <2>3, <3>1, <3>2
  <2>5. CASE kind # "output"
    <3>1. ASSUME v.conn = "open"
          PROVE  /\ Len(p1) >= 1
                 /\ Continues(b, Len(p1), q1)
                 /\ Len(p1) + Len(q1) = Len(p) + Len(q) + 1
      <4>1. p1 = (p \o q) \o <<i>> /\ q1 = <<>>
        BY <1>3, <2>5, <3>1
      <4>2. Len(p1) = Len(p) + Len(q) + 1 /\ Len(q1) = 0
        BY <2>2, <4>1
      <4>3. Continues(b, Len(p1), q1)
        BY <4>2 DEF Continues
      <4>. QED BY <1>4, <4>2, <4>3
    <3>. QED BY <1>1, <1>2, <1>5, <2>3, <3>1
  <2>. QED BY <2>4, <2>5
<1>6. CASE w.conn # "open"
  <2>1. v.conn # "open" /\ p1 = p
    BY <1>3, <1>6
  <2>. QED BY <1>1, <1>2, <1>4, <2>1
<1>. QED BY <1>5, <1>6

\* The snapshot, given to a sender that has sent and holds nothing, begins a run.
LEMMA SendSnapshotFacts ==
    ASSUME NEW w \in SenderStates, NEW b \in Nat, w.sent = <<>>, w.out = <<>>
    PROVE  /\ Run(b, Send(w, 0, "snapshot").sent)
           /\ Send(w, 0, "snapshot").out = <<>>
           /\ Send(w, 0, "snapshot").conn = "open" => Len(Send(w, 0, "snapshot").sent) = 1
<1>. DEFINE v == Send(w, 0, "snapshot")
<1>0. /\ Send(w, 0, "snapshot") \in SenderStates
      /\ \/ Send(w, 0, "snapshot").conn = w.conn
         \/ w.conn = "open" /\ Send(w, 0, "snapshot").conn = "closing"
      /\ "snapshot" = "output" =>
            /\ Send(w, 0, "snapshot").out = Append(w.out, 0)
            /\ Send(w, 0, "snapshot").sent = w.sent
            /\ Send(w, 0, "snapshot").conn = w.conn
      /\ "snapshot" # "output" =>
            /\ Send(w, 0, "snapshot").out = <<>>
            /\ \/ Send(w, 0, "snapshot").sent = w.sent
               \/ Send(w, 0, "snapshot").sent = w.sent \o w.out /\ w.conn = "open"
               \/ Send(w, 0, "snapshot").sent = (w.sent \o w.out) \o <<0>> /\ w.conn = "open"
            /\ Send(w, 0, "snapshot").conn = "open" =>
                  Send(w, 0, "snapshot").sent = (w.sent \o w.out) \o <<0>>
  BY SendFacts, 0 \in Nat, Zenon
<1>1. /\ v.out = <<>>
      /\ \/ v.sent = w.sent
         \/ v.sent = w.sent \o w.out
         \/ v.sent = (w.sent \o w.out) \o <<0>>
      /\ v.conn = "open" => v.sent = (w.sent \o w.out) \o <<0>>
  BY <1>0
<1>. HIDE DEF v
<1>2. <<>> \o <<>> = <<>> /\ (<<>> \o <<>>) \o <<0>> = <<0>>
  OBVIOUS
<1>3. Run(b, <<>>) /\ Run(b, <<0>>) /\ Len(<<0>>) = 1
  BY DEF Run
<1>. QED BY <1>1, <1>2, <1>3 DEF v

-----------------------------------------------------------------------------
(* What one step does to one handler's stream.                              *)

\* Nothing was sent and nobody subscribed initially.
LEMMA InitStream == Init => StreamInv
BY DEF Init, StreamInv, StreamAt, Run, Continues, Ahead, Flowing, SnapshotSent, Listening

\* A step that gives x nothing new: its handler may move on within a phase of
\* the stream, its socket may close and its sender forget what it held.
Quiet(x) ==
    /\ log' = log
    /\ start'[x] = start[x]
    /\ sent'[x] = sent[x]
    /\ pendingMessages'[x] = pendingMessages[x]
    /\ x \in subscribers' => x \in subscribers
    /\ SnapshotSent(x) /\ conn'[x] = "open" => conn[x] = "open"
    /\ \/ pendingOutput'[x] = pendingOutput[x]
       \/ pendingOutput'[x] = <<>> /\ (SnapshotSent(x) => conn'[x] # "open")
    /\ \/ pc'[x] = pc[x]
       \/ {pc[x], pc'[x]} \subseteq {"attaching", "resolved", "attached", "frames"}
       \/ {pc[x], pc'[x]} \subseteq {"idle", "auth", "refused"}
       \/ /\ pc[x] \in {"resolved", "attached", "notFound"}
          /\ pc'[x] \in {"notFound", "done"}
          /\ x \notin subscribers'
       \/ pc[x] = "replay" /\ pc'[x] = "live" /\ pendingMessages[x] = <<>>

\* A step that touches none of a handler's stream state keeps what is known of it.
LEMMA QuietKeeps ==
    ASSUME TypeOK, TypeOK', NEW x \in Sockets, StreamAt(x), Quiet(x)
    PROVE  StreamAt(x)'
<1>0. /\ log' = log
      /\ start'[x] = start[x]
      /\ sent'[x] = sent[x]
      /\ pendingMessages'[x] = pendingMessages[x]
      /\ x \in subscribers' => x \in subscribers
  BY DEF Quiet
<1>1. /\ SnapshotSent(x)' = SnapshotSent(x)
      /\ Listening(x)' = Listening(x)
      /\ Ahead(x)' = Ahead(x)
      /\ Flowing(x)' => Flowing(x)
  BY DEF Quiet, SnapshotSent, Listening, Ahead, Flowing
<1>2. /\ Run(start[x], sent[x])'
      /\ (start[x] <= Len(log))'
  BY <1>0 DEF StreamAt
<1>3. (~SnapshotSent(x) => sent[x] = <<>> /\ pendingOutput[x] = <<>>)'
  BY <1>0, <1>1 DEF StreamAt, Quiet
<1>4. /\ (~Listening(x) \/ pc[x] \in {"notFound", "done"} => x \notin subscribers)'
      /\ (~Listening(x) \/ pc[x] = "live" => pendingMessages[x] = <<>>)'
  BY <1>0, <1>1 DEF StreamAt, Listening, Quiet
<1>5. ASSUME Flowing(x)'
      PROVE  pendingOutput'[x] = pendingOutput[x] /\ Flowing(x)
  BY <1>1, <1>5 DEF StreamAt, Flowing, Quiet
<1>6. (Flowing(x) =>
          /\ Ahead(x) >= 1
          /\ Continues(start[x], Ahead(x), pendingOutput[x])
          /\ Continues(start[x], Ahead(x) + Len(pendingOutput[x]), pendingMessages[x])
          /\ x \in subscribers =>
                Ahead(x) + Len(pendingOutput[x]) + Len(pendingMessages[x])
                    = Len(log) - start[x] + 1)'
  BY <1>0, <1>1, <1>5 DEF StreamAt
<1>. QED BY <1>2, <1>3, <1>4, <1>6 DEF StreamAt

\* A published message goes on with every handler's stream, but for one that
\* is between its snapshot and the messages that wait.
LEMMA PublishAt ==
    ASSUME TypeOK, TypeOK', NEW kind, Publish(kind),
           UNCHANGED <<subscribers, start, pc>>,
           NEW x \in Sockets, StreamAt(x), pc[x] # "replay"
    PROVE  StreamAt(x)'
<1>. DEFINE i == Len(log) + 1
<1>1. i \in Nat /\ Len(log) \in Nat /\ start[x] \in Nat
  BY DEF TypeOK
<1>2. log' = Append(log, kind) /\ Len(log') = i
  BY DEF Publish, TypeOK
<1>3. /\ SnapshotSent(x)' = SnapshotSent(x)
      /\ Listening(x)' = Listening(x)
      /\ SnapshotSent(x) => pc[x] = "live"
  BY DEF SnapshotSent, Listening
<1>4. /\ x \in subscribers /\ SnapshotSent(x) =>
            /\ pendingOutput'[x] = Send(Sender(x), i, kind).out
            /\ sent'[x] = Send(Sender(x), i, kind).sent
            /\ conn'[x] = Send(Sender(x), i, kind).conn
      /\ ~(x \in subscribers /\ SnapshotSent(x)) =>
            /\ pendingOutput'[x] = pendingOutput[x]
            /\ sent'[x] = sent[x]
            /\ conn'[x] = conn[x]
  <2>. DEFINE S == {s \in subscribers : SnapshotSent(s)}
  <2>1. SendTo(S, i, kind)
    BY DEF Publish
  <2>2. x \in S <=> x \in subscribers /\ SnapshotSent(x)
    OBVIOUS
  <2>. HIDE DEF S
  <2>. QED BY <2>1, <2>2 DEF SendTo
<1>5. pendingMessages'[x] = IF x \in subscribers /\ ~SnapshotSent(x)
                            THEN Append(pendingMessages[x], i) ELSE pendingMessages[x]
  BY DEF Publish
<1>6. pendingMessages[x] \in Seq(Nat) /\ pendingOutput[x] \in Seq(Nat) /\ sent[x] \in Seq(Nat)
  BY DEF TypeOK
<1>. HIDE DEF i
<1>7. CASE x \notin subscribers
  <2>1. /\ pendingMessages'[x] = pendingMessages[x]
        /\ pendingOutput'[x] = pendingOutput[x]
        /\ sent'[x] = sent[x]
        /\ conn'[x] = conn[x]
    BY <1>4, <1>5, <1>7
  <2>2. start[x] <= Len(log')
    BY <1>1, <1>2 DEF StreamAt, i
  <2>. QED BY <1>3, <1>7, <2>1, <2>2 DEF StreamAt, Flowing, Ahead
<1>8. CASE x \in subscribers /\ ~SnapshotSent(x)
  <2>1. /\ pendingMessages'[x] = Append(pendingMessages[x], i)
        /\ pendingOutput'[x] = pendingOutput[x]
        /\ sent'[x] = sent[x]
        /\ conn'[x] = conn[x]
    BY <1>4, <1>5, <1>8
  <2>2. /\ Ahead(x) = 1 /\ Ahead(x)' = 1
        /\ Flowing(x) /\ Flowing(x)'
        /\ pendingOutput[x] = <<>>
    BY <1>3, <1>8 DEF Ahead, Flowing, StreamAt
  <2>3. /\ Continues(start[x], 1, pendingMessages[x])
        /\ i = start[x] + 1 + Len(pendingMessages[x])
    <3>1. /\ Continues(start[x], 1 + Len(<<>>), pendingMessages[x])
          /\ 1 + Len(<<>>) + Len(pendingMessages[x]) = Len(log) - start[x] + 1
      BY <1>8, <2>2 DEF StreamAt
    <3>2. Len(<<>>) = 0 /\ 1 + Len(<<>>) = 1 /\ Len(pendingMessages[x]) \in Nat
      BY <1>6
    <3>3. i = start[x] + 1 + Len(pendingMessages[x])
      BY <1>1, <3>1, <3>2 DEF i
    <3>4. Continues(start[x], 1, pendingMessages[x])
      BY <3>1, <3>2, Zenon
    <3>. QED BY <3>3, <3>4
  <2>4. /\ Continues(start[x], 1, pendingMessages'[x])
        /\ Len(pendingMessages'[x]) = Len(pendingMessages[x]) + 1
    <3>1. PICK q \in Seq(Nat), b \in Nat, m \in Nat :
             q = pendingMessages[x] /\ b = start[x] /\ m = i
      BY <1>1, <1>6
    <3>2. Continues(b, 1, q) /\ m = b + 1 + Len(q)
      BY <2>3, <3>1
    <3>3. Continues(b, 1, Append(q, m)) /\ Len(Append(q, m)) = Len(q) + 1
      BY <3>2, ContinuesAppend
    <3>. QED BY <2>1, <3>1, <3>3, Zenon
  <2>5. /\ Ahead(x)' >= 1
        /\ Continues(start'[x], Ahead(x)', pendingOutput'[x])
        /\ Continues(start'[x], Ahead(x)' + Len(pendingOutput'[x]), pendingMessages'[x])
        /\ Ahead(x)' + Len(pendingOutput'[x]) + Len(pendingMessages'[x])
              = Len(log') - start'[x] + 1
    <3>1. pendingOutput'[x] = <<>> /\ Len(<<>>) = 0 /\ Continues(start[x], 1, <<>>)
      BY <2>1, <2>2 DEF Continues
    <3>2. 1 + 0 + Len(pendingMessages'[x]) = Len(log') - start[x] + 1
      BY <1>1, <1>2, <1>6, <2>3, <2>4
    <3>. QED BY <2>2, <2>4, <3>1, <3>2
  <2>6. start[x] <= Len(log')
    BY <1>1, <1>2 DEF StreamAt, i
  <2>7. Listening(x) /\ pc[x] \notin {"notFound", "done", "live"}
    BY <1>8 DEF StreamAt, SnapshotSent
  <2>. QED BY <1>3, <1>8, <2>1, <2>5, <2>6, <2>7 DEF StreamAt, Listening
<1>9. CASE x \in subscribers /\ SnapshotSent(x)
  <2>. DEFINE w == Sender(x)
              v == Send(w, i, kind)
  <2>1. /\ w \in SenderStates
        /\ w.out = pendingOutput[x]
        /\ w.sent = sent[x]
        /\ w.conn = conn[x]
    BY SenderType
  <2>2. /\ pendingMessages'[x] = pendingMessages[x]
        /\ pendingMessages[x] = <<>>
        /\ pendingOutput'[x] = v.out
        /\ sent'[x] = v.sent
        /\ conn'[x] = v.conn
    BY <1>3, <1>4, <1>5, <1>9 DEF StreamAt
  <2>. HIDE DEF w, v
  <2>3. conn[x] = "open" =>
          /\ Len(sent[x]) >= 1
          /\ Continues(start[x], Len(sent[x]), pendingOutput[x])
          /\ i = start[x] + Len(sent[x]) + Len(pendingOutput[x])
    <3>1. ASSUME conn[x] = "open"
          PROVE  /\ Len(sent[x]) >= 1
                 /\ Continues(start[x], Len(sent[x]), pendingOutput[x])
                 /\ Len(sent[x]) + Len(pendingOutput[x]) + Len(<<>>) = Len(log) - start[x] + 1
      BY <1>9, <2>2, <3>1 DEF StreamAt, Flowing, Ahead
    <3>2. Len(<<>>) = 0 /\ Len(sent[x]) \in Nat /\ Len(pendingOutput[x]) \in Nat
      BY <1>6
    <3>3. ASSUME conn[x] = "open"
          PROVE  i = start[x] + Len(sent[x]) + Len(pendingOutput[x])
      <4>1. Len(sent[x]) + Len(pendingOutput[x]) + 0 = Len(log) - start[x] + 1
        BY <3>1, <3>2, <3>3
      <4>2. PICK a \in Nat, c \in Nat, n \in Nat, m \in Nat :
               a = Len(sent[x]) /\ c = Len(pendingOutput[x]) /\ n = Len(log) /\ m = start[x]
        BY <1>1, <3>2
      <4>3. a + c + 0 = n - m + 1
        BY <4>1, <4>2
      <4>4. n + 1 = m + a + c
        BY <4>3
      <4>. QED BY <4>2, <4>4 DEF i
    <3>. QED BY <3>1, <3>3
  <2>4. /\ Run(start[x], v.sent)
        /\ v.conn = "open" =>
              /\ w.conn = "open"
              /\ Len(v.sent) >= 1
              /\ Continues(start[x], Len(v.sent), v.out)
              /\ Len(v.sent) + Len(v.out) = Len(w.sent) + Len(w.out) + 1
    <3>1. Run(start[x], w.sent)
      BY <2>1 DEF StreamAt
    <3>2. w.conn = "open" =>
            /\ Len(w.sent) >= 1
            /\ Continues(start[x], Len(w.sent), w.out)
            /\ i = start[x] + Len(w.sent) + Len(w.out)
      BY <2>1, <2>3
    <3>3. /\ Run(start[x], Send(w, i, kind).sent)
          /\ Send(w, i, kind).conn = "open" =>
                /\ w.conn = "open"
                /\ Len(Send(w, i, kind).sent) >= 1
                /\ Continues(start[x], Len(Send(w, i, kind).sent), Send(w, i, kind).out)
                /\ Len(Send(w, i, kind).sent) + Len(Send(w, i, kind).out)
                      = Len(w.sent) + Len(w.out) + 1
      BY <1>1, <2>1, <3>1, <3>2, SendGoesOn, Zenon
    <3>. QED BY <3>3 DEF v
  <2>5. ASSUME conn'[x] = "open"
        PROVE  /\ Len(sent'[x]) >= 1
               /\ Continues(start[x], Len(sent'[x]), pendingOutput'[x])
               /\ Len(sent'[x]) + Len(pendingOutput'[x]) + Len(pendingMessages'[x])
                     = Len(log') - start[x] + 1
    <3>1. /\ Len(sent'[x]) >= 1
          /\ Continues(start[x], Len(sent'[x]), pendingOutput'[x])
          /\ Len(sent'[x]) + Len(pendingOutput'[x]) = Len(sent[x]) + Len(pendingOutput[x]) + 1
          /\ i = start[x] + Len(sent[x]) + Len(pendingOutput[x])
      BY <2>1, <2>2, <2>3, <2>4, <2>5
    <3>2. Len(pendingMessages'[x]) = 0 /\ Len(sent[x]) \in Nat /\ Len(pendingOutput[x]) \in Nat
      BY <1>6, <2>2
    <3>3. Len(sent'[x]) \in Nat /\ Len(pendingOutput'[x]) \in Nat
      BY DEF TypeOK
    <3>4. PICK a \in Nat, c \in Nat, m \in Nat :
             a = Len(sent[x]) /\ c = Len(pendingOutput[x]) /\ m = start[x]
      BY <1>1, <3>2
    <3>5. PICK a1 \in Nat, c1 \in Nat : a1 = Len(sent'[x]) /\ c1 = Len(pendingOutput'[x])
      BY <3>3
    <3>6. a1 + c1 = a + c + 1 /\ Len(log') = m + a + c
      BY <1>2, <3>1, <3>4, <3>5
    <3>7. Len(sent'[x]) + Len(pendingOutput'[x]) + Len(pendingMessages'[x])
             = Len(log') - start[x] + 1
      <4>1. a1 + c1 + 0 = (m + a + c) - m + 1
        BY <3>6
      <4>. QED BY <3>2, <3>4, <3>5, <3>6, <4>1, Zenon
    <3>. QED BY <3>1, <3>7
  <2>6. /\ Run(start'[x], sent'[x])
        /\ start'[x] <= Len(log')
    BY <1>1, <1>2, <2>2, <2>4 DEF StreamAt, i
  <2>7. Continues(start[x], Len(sent'[x]) + Len(pendingOutput'[x]), pendingMessages'[x])
    BY <2>2 DEF Continues
  <2>8. Ahead(x)' = Len(sent'[x]) /\ (Flowing(x)' => conn'[x] = "open")
    BY <1>3, <1>9 DEF Ahead, Flowing
  <2>9. Listening(x) /\ pc[x] \notin {"notFound", "done"}
    BY <1>9 DEF Listening, SnapshotSent
  <2>. QED BY <1>3, <1>9, <2>2, <2>5, <2>6, <2>7, <2>8, <2>9 DEF StreamAt
<1>. QED BY <1>7, <1>8, <1>9

\* The snapshot begins the run the waiting messages go on with.
LEMMA SnapshotAt ==
    ASSUME TypeOK, TypeOK', NEW s \in Sockets, SendsSnapshot(s), StreamAt(s)
    PROVE  StreamAt(s)'
<1>. DEFINE w == Sender(s)
            v == Send(w, 0, "snapshot")
<1>1. /\ w \in SenderStates
      /\ w.out = pendingOutput[s]
      /\ w.sent = sent[s]
      /\ w.conn = conn[s]
  BY SenderType
<1>2. pendingOutput'[s] = v.out /\ sent'[s] = v.sent /\ conn'[s] = v.conn
  BY DEF SendsSnapshot, SendTo
<1>3. /\ pc[s] = "frames" /\ pc'[s] = "replay"
      /\ UNCHANGED <<log, start, subscribers, pendingMessages>>
  BY DEF SendsSnapshot, TypeOK, recordVars, attachVars
<1>4. ~SnapshotSent(s) /\ Ahead(s) = 1 /\ Flowing(s)
  BY <1>3 DEF SnapshotSent, Ahead, Flowing
<1>5. sent[s] = <<>> /\ pendingOutput[s] = <<>> /\ start[s] \in Nat
  BY <1>4 DEF StreamAt, TypeOK
<1>. HIDE DEF w, v
<1>6. /\ Run(start[s], v.sent)
      /\ v.out = <<>>
      /\ v.conn = "open" => Len(v.sent) = 1
  BY <1>1, <1>5, SendSnapshotFacts DEF v
<1>7. SnapshotSent(s)' /\ Listening(s)' /\ Ahead(s)' = Len(sent'[s])
  BY <1>3 DEF SnapshotSent, Listening, Ahead
<1>8. ASSUME Flowing(s)'
      PROVE  Ahead(s)' = 1 /\ pendingOutput'[s] = <<>>
  BY <1>2, <1>6, <1>7, <1>8 DEF Flowing
<1>. QED BY <1>2, <1>3, <1>4, <1>5, <1>6, <1>7, <1>8 DEF StreamAt

\* Replaying the first pending message keeps what is known of its handler.
LEMMA ReplayAt ==
    ASSUME TypeOK, TypeOK', NEW s \in Sockets, ReplaysMessage(s), StreamAt(s)
    PROVE  StreamAt(s)'
<1>. DEFINE i == Head(pendingMessages[s])
            k == log[i]
            w == Sender(s)
            v == Send(w, i, k)
<1>1. /\ w \in SenderStates
      /\ w.out = pendingOutput[s]
      /\ w.sent = sent[s]
      /\ w.conn = conn[s]
  BY SenderType
<1>2. pendingOutput'[s] = v.out /\ sent'[s] = v.sent /\ conn'[s] = v.conn
  BY DEF ReplaysMessage, SendTo
<1>3. /\ pc[s] = "replay"
      /\ UNCHANGED <<log, start, subscribers, pc>>
      /\ pendingMessages[s] # <<>>
      /\ pendingMessages'[s] = Tail(pendingMessages[s])
  BY DEF ReplaysMessage, TypeOK, recordVars, attachVars
<1>4. /\ start[s] \in Nat
      /\ sent[s] \in Seq(Nat)
      /\ pendingOutput[s] \in Seq(Nat)
      /\ pendingMessages[s] \in Seq(Nat)
      /\ sent'[s] \in Seq(Nat)
      /\ pendingOutput'[s] \in Seq(Nat)
  BY DEF TypeOK
<1>5. PICK q \in Seq(Nat) : q = pendingMessages[s] /\ q # <<>> /\ i = q[1]
  BY <1>3, <1>4
<1>6. /\ i \in Nat
      /\ Tail(q) \in Seq(Nat)
      /\ Len(q) >= 1
      /\ Len(Tail(q)) = Len(q) - 1
      /\ \A j \in 1..Len(Tail(q)) : Tail(q)[j] = q[j + 1] /\ j + 1 \in 1..Len(q)
  BY <1>5
<1>7. SnapshotSent(s) /\ SnapshotSent(s)' /\ Listening(s)
      /\ Ahead(s) = Len(sent[s]) /\ Ahead(s)' = Len(sent'[s])
  BY <1>3 DEF SnapshotSent, Listening, Ahead
<1>. HIDE DEF i, k, w, v
<1>8. conn[s] = "open" =>
        /\ Len(sent[s]) >= 1
        /\ Continues(start[s], Len(sent[s]), pendingOutput[s])
        /\ Continues(start[s], Len(sent[s]) + Len(pendingOutput[s]), q)
        /\ s \in subscribers =>
              Len(sent[s]) + Len(pendingOutput[s]) + Len(q) = Len(log) - start[s] + 1
  BY <1>5, <1>7 DEF StreamAt, Flowing
<1>9. PICK b \in Nat, a \in Nat, c \in Nat :
         b = start[s] /\ a = Len(sent[s]) /\ c = Len(pendingOutput[s])
  BY <1>4
<1>10. conn[s] = "open" => i = b + a + c
  <2>1. conn[s] = "open" => Continues(b, a + c, q)
    BY <1>8, <1>9
  <2>2. 1 \in 1..Len(q)
    BY <1>6
  <2>3. Continues(b, a + c, q) => q[1] = b + (a + c) + 1 - 1
    BY <2>2 DEF Continues
  <2>. QED BY <1>5, <2>1, <2>3
<1>11. /\ Run(start[s], v.sent)
       /\ v.conn = "open" =>
             /\ w.conn = "open"
             /\ Len(v.sent) >= 1
             /\ Continues(start[s], Len(v.sent), v.out)
             /\ Len(v.sent) + Len(v.out) = Len(w.sent) + Len(w.out) + 1
  <2>1. Run(start[s], w.sent)
    BY <1>1 DEF StreamAt
  <2>2. w.conn = "open" =>
          /\ Len(w.sent) >= 1
          /\ Continues(start[s], Len(w.sent), w.out)
          /\ i = start[s] + Len(w.sent) + Len(w.out)
    BY <1>1, <1>8, <1>9, <1>10
  <2>3. PICK u \in SenderStates, m \in Nat, e \in {k} : u = w /\ m = i /\ e = k
    BY <1>1, <1>6
  <2>4. v = Send(u, m, e)
    BY <2>3 DEF v
  <2>5. /\ Run(b, u.sent)
        /\ u.conn = "open" =>
             /\ Len(u.sent) >= 1
             /\ Continues(b, Len(u.sent), u.out)
             /\ m = b + Len(u.sent) + Len(u.out)
    BY <1>9, <2>1, <2>2, <2>3
  <2>6. /\ Run(b, Send(u, m, e).sent)
        /\ Send(u, m, e).conn = "open" =>
              /\ u.conn = "open"
              /\ Len(Send(u, m, e).sent) >= 1
              /\ Continues(b, Len(Send(u, m, e).sent), Send(u, m, e).out)
              /\ Len(Send(u, m, e).sent) + Len(Send(u, m, e).out)
                    = Len(u.sent) + Len(u.out) + 1
    BY <2>5, SendGoesOn, Zenon
  <2>. QED BY <1>9, <2>3, <2>4, <2>6
<1>12. ASSUME Flowing(s)'
       PROVE  /\ Ahead(s)' >= 1
              /\ Continues(start[s], Ahead(s)', pendingOutput'[s])
              /\ Continues(start[s], Ahead(s)' + Len(pendingOutput'[s]), pendingMessages'[s])
              /\ s \in subscribers =>
                    Ahead(s)' + Len(pendingOutput'[s]) + Len(pendingMessages'[s])
                        = Len(log) - start[s] + 1
  <2>1. v.conn = "open" /\ conn[s] = "open"
    BY <1>1, <1>2, <1>7, <1>11, <1>12 DEF Flowing
  <2>2. /\ Len(sent'[s]) >= 1
        /\ Continues(start[s], Len(sent'[s]), pendingOutput'[s])
    BY <1>2, <1>11, <2>1
  <2>3. PICK a1 \in Nat, c1 \in Nat : a1 = Len(sent'[s]) /\ c1 = Len(pendingOutput'[s])
    BY <1>4
  <2>4. a1 + c1 = a + c + 1
    BY <1>1, <1>2, <1>9, <1>11, <2>1, <2>3
  <2>5. Continues(b, a + c, q)
    BY <1>8, <1>9, <2>1
  <2>6. Continues(b, a1 + c1, Tail(q))
    BY <1>6, <2>4, <2>5 DEF Continues
  <2>7. s \in subscribers => a1 + c1 + Len(Tail(q)) = Len(log) - b + 1
    <3>1. s \in subscribers => a + c + Len(q) = Len(log) - b + 1
      BY <1>8, <1>9, <2>1
    <3>. QED BY <1>6, <2>4, <3>1
  <2>. QED BY <1>3, <1>5, <1>7, <1>9, <2>2, <2>3, <2>6, <2>7
<1>13. Run(start[s], sent'[s]) /\ start[s] <= Len(log)
  BY <1>2, <1>11 DEF StreamAt
<1>14. s \in subscribers => pc[s] \notin {"notFound", "done"}
  BY <1>3
<1>. QED BY <1>3, <1>7, <1>12, <1>13, <1>14 DEF StreamAt, Listening

\* The flush of the next tick keeps what is known of its handler.
LEMMA FlushesAt ==
    ASSUME TypeOK, TypeOK', NEW s \in Sockets, Flushes(s), StreamAt(s)
    PROVE  StreamAt(s)'
<1>. DEFINE w == Sender(s)
            v == Flush(w)
<1>1. /\ w \in SenderStates
      /\ w.out = pendingOutput[s]
      /\ w.sent = sent[s]
      /\ w.conn = conn[s]
  BY SenderType
<1>2. /\ pendingOutput[s] # <<>>
      /\ pendingOutput'[s] = <<>> /\ sent'[s] = v.sent /\ conn'[s] = v.conn
      /\ UNCHANGED <<log, start, subscribers, pendingMessages, pc>>
  BY DEF Flushes, recordVars, attachVars, TypeOK
<1>3. /\ v.sent = w.sent \/ (v.sent = w.sent \o w.out /\ w.conn = "open")
      /\ v.conn = w.conn \/ (w.conn = "open" /\ v.conn = "closing")
      /\ v.conn = "open" => v.sent = w.sent \o w.out
  BY <1>1, FlushFacts
<1>. HIDE DEF w, v
<1>4. /\ start[s] \in Nat
      /\ sent[s] \in Seq(Nat)
      /\ pendingOutput[s] \in Seq(Nat)
      /\ pendingMessages[s] \in Seq(Nat)
  BY DEF TypeOK
<1>5. SnapshotSent(s) /\ SnapshotSent(s)' /\ Listening(s)
  BY <1>2 DEF StreamAt, SnapshotSent, Listening
<1>6. Ahead(s) = Len(sent[s]) /\ Ahead(s)' = Len(sent'[s])
  BY <1>5 DEF Ahead
<1>7. conn[s] = "open" =>
        /\ Len(sent[s]) >= 1
        /\ Continues(start[s], Len(sent[s]), pendingOutput[s])
        /\ Continues(start[s], Len(sent[s]) + Len(pendingOutput[s]), pendingMessages[s])
        /\ s \in subscribers =>
              Len(sent[s]) + Len(pendingOutput[s]) + Len(pendingMessages[s])
                  = Len(log) - start[s] + 1
  BY <1>5, <1>6 DEF StreamAt, Flowing
<1>8. Run(start[s], sent[s]) /\ start[s] <= Len(log)
  BY DEF StreamAt
<1>9. conn[s] = "open" =>
        /\ Run(start[s], sent[s] \o pendingOutput[s])
        /\ Len(sent[s] \o pendingOutput[s]) = Len(sent[s]) + Len(pendingOutput[s])
  BY <1>4, <1>7, <1>8, RunContinues
<1>10. Run(start[s], sent'[s])
  <2>1. CASE sent'[s] = sent[s]
    BY <1>8, <2>1
  <2>2. CASE sent'[s] = sent[s] \o pendingOutput[s] /\ conn[s] = "open"
    BY <1>9, <2>2
  <2>. QED BY <1>1, <1>2, <1>3, <2>1, <2>2
<1>11. ASSUME Flowing(s)'
       PROVE  /\ Ahead(s)' >= 1
              /\ Continues(start[s], Ahead(s)', <<>>)
              /\ Continues(start[s], Ahead(s)' + Len(<<>>), pendingMessages[s])
              /\ s \in subscribers =>
                    Ahead(s)' + Len(<<>>) + Len(pendingMessages[s]) = Len(log) - start[s] + 1
  <2>1. v.conn = "open" /\ conn[s] = "open" /\ sent'[s] = sent[s] \o pendingOutput[s]
    BY <1>1, <1>2, <1>3, <1>5, <1>11 DEF Flowing
  <2>2. PICK a \in Nat, c \in Nat : a = Len(sent[s]) /\ c = Len(pendingOutput[s])
    BY <1>4
  <2>3. Ahead(s)' = a + c
    BY <1>6, <1>9, <2>1, <2>2
  <2>4. /\ a >= 1
        /\ Continues(start[s], a + c, pendingMessages[s])
        /\ s \in subscribers => a + c + Len(pendingMessages[s]) = Len(log) - start[s] + 1
    BY <1>7, <2>1, <2>2
  <2>5. Len(<<>>) = 0 /\ a + c + Len(<<>>) = a + c /\ a + c >= 1
    BY <2>4
  <2>6. Continues(start[s], a + c, <<>>)
    BY DEF Continues
  <2>. QED BY <2>3, <2>4, <2>5, <2>6
<1>. QED BY <1>2, <1>5, <1>8, <1>10, <1>11 DEF StreamAt, Listening, SnapshotSent

\* A handler that subscribes is owed everything published from then on.
LEMMA SubscribeAt ==
    ASSUME TypeOK, TypeOK', NEW s \in Sockets, AuthAccepted(s), StreamAt(s)
    PROVE  StreamAt(s)'
<1>1. /\ pc[s] = "auth"
      /\ pc'[s] \in {"notFound", "attaching", "resolved"}
      /\ start'[s] = Len(log)
      /\ UNCHANGED <<log, sent, pendingOutput, pendingMessages, conn>>
  BY DEF AuthAccepted, TypeOK, senderVars
<1>2. pc'[s] = "notFound" => subscribers' = subscribers
  BY DEF AuthAccepted, TypeOK
<1>3. ~Listening(s) /\ ~SnapshotSent(s) /\ ~SnapshotSent(s)' /\ Listening(s)'
  BY <1>1 DEF Listening, SnapshotSent
<1>4. /\ sent[s] = <<>> /\ pendingOutput[s] = <<>> /\ pendingMessages[s] = <<>>
      /\ s \notin subscribers
  BY <1>3 DEF StreamAt
<1>5. Len(log) \in Nat /\ Len(<<>>) = 0
  BY DEF TypeOK
<1>6. Ahead(s)' = 1
  BY <1>3 DEF Ahead
<1>7. Run(Len(log), <<>>) /\ Continues(Len(log), 1, <<>>) /\ Continues(Len(log), 1 + Len(<<>>), <<>>)
  BY DEF Run, Continues
<1>8. 1 + Len(<<>>) + Len(<<>>) = Len(log) - Len(log) + 1 /\ Len(log) <= Len(log)
  BY <1>5
<1>. QED BY <1>1, <1>2, <1>3, <1>4, <1>6, <1>7, <1>8 DEF StreamAt

\* Every step keeps what is known of every handler's stream.
LEMMA NextStream ==
    TypeOK /\ TypeOK' /\ ControlInv /\ StreamInv /\ [Next]_vars => StreamInv'
<1>. SUFFICES ASSUME TypeOK, TypeOK', ControlInv, StreamInv, [Next]_vars,
                     NEW x \in Sockets
              PROVE  StreamAt(x)'
  BY DEF StreamInv
<1>. USE DEF recordVars, mirrorVars, attachVars, senderVars, aliveVars, frameVars
<1>1. StreamAt(x)
  BY DEF StreamInv
<1>2. ASSUME Quiet(x) PROVE StreamAt(x)'
  BY <1>1, <1>2, QuietKeeps
<1>3. CASE Yielded /\ (DataArrives \/ PtyExits \/ CwdChanges)
  <2>1. PICK kind : Publish(kind)
    BY <1>3 DEF DataArrives, PtyExits, CwdChanges
  <2>2. UNCHANGED <<subscribers, start, pc>>
    BY <1>3 DEF DataArrives, PtyExits, CwdChanges
  <2>3. pc[x] # "replay"
    BY <1>3 DEF Yielded
  <2>. QED BY <1>1, <2>1, <2>2, <2>3, PublishAt
<1>4. CASE CloseTerminal
  <2>. QED BY <1>2, <1>4 DEF CloseTerminal, Quiet
<1>5. CASE MirrorParses
  <2>1. /\ UNCHANGED <<log, start, sent, pendingMessages, subscribers, conn, pendingOutput>>
        /\ queue # <<>>
    BY <1>5 DEF MirrorParses
  <2>2. CASE UNCHANGED pc
    BY <1>2, <2>1, <2>2 DEF Quiet
  <2>3. CASE /\ Head(queue).type = "sentinel"
             /\ pc' = [pc EXCEPT ![Head(queue).socket] = "resolved"]
    <3>1. 1 \in 1..Len(queue) /\ Head(queue) = queue[1]
      BY <2>1 DEF TypeOK
    <3>2. pc[Head(queue).socket] = "attaching"
      BY <2>3, <3>1 DEF ControlInv, QueueInv
    <3>3. pc'[x] = pc[x] \/ (pc[x] = "attaching" /\ pc'[x] = "resolved")
      BY <2>3, <3>2 DEF TypeOK
    <3>. QED BY <1>2, <2>1, <3>3 DEF Quiet
  <2>. QED BY <1>5, <2>2, <2>3 DEF MirrorParses
<1>6. ASSUME FrameEffect, UNCHANGED <<subscribers, start, pc>>, pc[x] # "replay"
      PROVE  StreamAt(x)'
  <2>1. CASE Publish("terminal_updated")
    BY <1>1, <1>6, <2>1, PublishAt
  <2>2. CASE UNCHANGED <<log, pendingMessages, senderVars, conn>>
    BY <1>2, <1>6, <2>2 DEF Quiet
  <2>. QED BY <1>6, <2>1, <2>2 DEF FrameEffect
<1>7. ASSUME NEW s \in Sockets, SyncStep(s) PROVE StreamAt(x)'
  <2>1. CASE HandlesBufferedFrame(s)
    <3>1. FrameEffect /\ UNCHANGED <<subscribers, start, pc>> /\ pc[s] = "frames"
      BY <2>1 DEF HandlesBufferedFrame
    <3>2. pc[x] # "replay"
      BY <3>1 DEF ControlInv, SyncInv, Synchronous
    <3>. QED BY <1>6, <3>1, <3>2
  <2>2. CASE SendsSnapshot(s)
    <3>1. CASE x = s
      BY <1>1, <2>2, <3>1, SnapshotAt
    <3>2. CASE x # s
      BY <1>2, <2>2, <3>2 DEF SendsSnapshot, SendTo, Quiet, TypeOK
    <3>. QED BY <3>1, <3>2
  <2>3. CASE ReplaysMessage(s)
    <3>1. CASE x = s
      BY <1>1, <2>3, <3>1, ReplayAt
    <3>2. CASE x # s
      BY <1>2, <2>3, <3>2 DEF ReplaysMessage, SendTo, Quiet, TypeOK
    <3>. QED BY <3>1, <3>2
  <2>4. CASE GoesLive(s)
    BY <1>2, <2>4 DEF GoesLive, Quiet, TypeOK
  <2>. QED BY <1>7, <2>1, <2>2, <2>3, <2>4 DEF SyncStep
<1>8. ASSUME NEW s \in Sockets, AuthAccepted(s) PROVE StreamAt(x)'
  <2>1. CASE x = s
    BY <1>1, <1>8, <2>1, SubscribeAt
  <2>2. CASE x # s
    <3>1. /\ start'[x] = start[x] /\ pc'[x] = pc[x]
          /\ x \in subscribers' => x \in subscribers
          /\ UNCHANGED <<log, sent, pendingMessages, pendingOutput, conn>>
      BY <1>8, <2>2 DEF AuthAccepted, TypeOK
    <3>. QED BY <1>2, <3>1 DEF Quiet
  <2>. QED BY <2>1, <2>2
<1>9. ASSUME NEW s \in Sockets, Flushes(s) PROVE StreamAt(x)'
  <2>1. CASE x = s
    BY <1>1, <1>9, <2>1, FlushesAt
  <2>2. CASE x # s
    BY <1>2, <1>9, <2>2 DEF Flushes, Quiet, TypeOK
  <2>. QED BY <2>1, <2>2
<1>10. ASSUME NEW s \in Sockets, FrameArrives(s), Yielded PROVE StreamAt(x)'
  <2>1. /\ FrameEffect \/ UNCHANGED <<log, pendingMessages, senderVars, conn>>
        /\ UNCHANGED <<subscribers, start, pc>>
    BY <1>10 DEF FrameArrives
  <2>2. pc[x] # "replay"
    BY <1>10 DEF Yielded
  <2>3. CASE UNCHANGED <<log, pendingMessages, senderVars, conn>>
    BY <1>2, <2>1, <2>3 DEF Quiet
  <2>. QED BY <1>6, <2>1, <2>2, <2>3
<1>11. ASSUME NEW s \in Sockets, Connect(s) \/ AuthRefused(s) PROVE Quiet(x)
  BY <1>11 DEF Connect, AuthRefused, Quiet, TypeOK, SnapshotSent
<1>12. ASSUME NEW s \in Sockets, AttachReturns(s) PROVE Quiet(x)
  BY <1>12 DEF AttachReturns, Quiet, TypeOK
<1>13. ASSUME NEW s \in Sockets, HandlerNotFound(s) PROVE Quiet(x)
  <2>1. pc[s] = "notFound" /\ s \notin subscribers /\ ~SnapshotSent(s)
    BY <1>13 DEF HandlerNotFound, StreamInv, StreamAt, SnapshotSent
  <2>. QED BY <1>13, <2>1 DEF HandlerNotFound, Quiet, TypeOK
<1>14. ASSUME NEW s \in Sockets, HandlerClosed(s) PROVE Quiet(x)
  BY <1>14 DEF HandlerClosed, Detached, Quiet, TypeOK
<1>15. ASSUME NEW s \in Sockets, HandlerResumes(s) PROVE Quiet(x)
  BY <1>15 DEF HandlerResumes, Quiet, TypeOK
<1>16. ASSUME NEW s \in Sockets,
              HeartbeatTicks(s) \/ PongArrives(s) \/ SocketDrains(s) \/ PeerCloses(s)
                \/ PeerVanishes(s) \/ SessionRevoked(s)
       PROVE  Quiet(x)
  BY <1>16 DEF HeartbeatTicks, PongArrives, SocketDrains, PeerCloses, PeerVanishes,
               SessionRevoked, Quiet, TypeOK
<1>17. ASSUME NEW s \in Sockets, SocketCloses(s) PROVE Quiet(x)
  BY <1>17 DEF SocketCloses, Detached, Quiet, TypeOK
<1>18. CASE UNCHANGED vars
  BY <1>2, <1>18 DEF vars, Quiet
<1>. QED
  BY <1>2, <1>3, <1>4, <1>5, <1>7, <1>8, <1>9, <1>10, <1>11, <1>12, <1>13, <1>14, <1>15,
     <1>16, <1>17, <1>18
  DEF Next, TerminalStep, ServerStep, ClientStep

\* The inductive invariant holds in every reachable state.
LEMMA StreamInvariant == Spec => [](TypeOK /\ ControlInv /\ StreamInv)
<1>1. Init => TypeOK /\ ControlInv /\ StreamInv
  BY InitTypeOK, InitControl, InitStream
<1>2. TypeOK /\ ControlInv /\ StreamInv /\ [Next]_vars
        => (TypeOK /\ ControlInv /\ StreamInv)'
  BY NextTypeOK, NextControl, NextStream
<1>. QED BY <1>1, <1>2, PTL DEF Spec

\* Whatever attaches, closes, drains or overflows when, every client is handed
\* the snapshot and then every message published since, each once, in order.
THEOREM StreamIsGapFree == Spec => []GapFree
<1>1. StreamInv => GapFree
  BY DEF StreamInv, StreamAt, GapFree, Run, IsRun
<1>. QED BY <1>1, StreamInvariant, PTL

\* For an open subscriber, what was sent, what its sender coalesces and what
\* waits for its snapshot are together every message since it subscribed.
THEOREM StreamLosesNothing == Spec => []NothingLost
<1>1. ASSUME TypeOK, StreamInv, NEW x \in subscribers, conn[x] = "open"
      PROVE  LET tail == pendingOutput[x] \o pendingMessages[x]
                 head == IF SnapshotSent(x) THEN sent[x] ELSE <<0>>
             IN  /\ IsRun(x, head \o tail)
                 /\ Len(head \o tail) = Len(log) - start[x] + 1
  <2>. DEFINE head == IF SnapshotSent(x) THEN sent[x] ELSE <<0>>
  <2>1. x \in Sockets
    BY <1>1 DEF TypeOK
  <2>2. PICK p \in Seq(Nat), q \in Seq(Nat), r \in Seq(Nat), b \in Nat :
           p = head /\ q = pendingOutput[x] /\ r = pendingMessages[x] /\ b = start[x]
    <3>1. /\ pendingOutput[x] \in Seq(Nat) /\ pendingMessages[x] \in Seq(Nat)
          /\ sent[x] \in Seq(Nat) /\ start[x] \in Nat
      BY <1>1, <2>1 DEF TypeOK
    <3>2. <<0>> \in Seq(Nat)
      OBVIOUS
    <3>3. head \in Seq(Nat)
      BY <3>1, <3>2
    <3>. HIDE DEF head
    <3>. QED BY <3>1, <3>3
  <2>3. Flowing(x) /\ Ahead(x) = Len(p) /\ Run(b, p)
    <3>1. CASE SnapshotSent(x)
      BY <1>1, <2>1, <2>2, <3>1 DEF StreamInv, StreamAt, Flowing, Ahead
    <3>2. CASE ~SnapshotSent(x)
      <4>1. p = <<0>> /\ Len(p) = 1 /\ p[1] = 0
        BY <2>2, <3>2
      <4>2. Run(b, p)
        BY <4>1 DEF Run
      <4>. QED BY <3>2, <4>1, <4>2 DEF Flowing, Ahead
    <3>. QED BY <3>1, <3>2
  <2>4. /\ Len(p) >= 1
        /\ Continues(b, Len(p), q)
        /\ Continues(b, Len(p) + Len(q), r)
        /\ Len(p) + Len(q) + Len(r) = Len(log) - b + 1
    BY <1>1, <2>1, <2>2, <2>3 DEF StreamInv, StreamAt
  <2>5. Continues(b, Len(p), q \o r) /\ q \o r \in Seq(Nat) /\ Len(q \o r) = Len(q) + Len(r)
    <3>1. q \o r \in Seq(Nat) /\ Len(q \o r) = Len(q) + Len(r)
      OBVIOUS
    <3>2. ASSUME NEW j \in 1..Len(q \o r)
          PROVE  (q \o r)[j] = b + Len(p) + j - 1
      <4>1. CASE j <= Len(q)
        BY <2>4, <4>1 DEF Continues
      <4>2. CASE j > Len(q)
        <5>1. (q \o r)[j] = r[j - Len(q)] /\ j - Len(q) \in 1..Len(r)
          BY <3>1, <4>2
        <5>2. r[j - Len(q)] = b + (Len(p) + Len(q)) + (j - Len(q)) - 1
          BY <2>4, <5>1 DEF Continues
        <5>. QED BY <5>1, <5>2
      <4>. QED BY <4>1, <4>2
    <3>. QED BY <3>1, <3>2 DEF Continues
  <2>6. Run(b, p \o (q \o r)) /\ Len(p \o (q \o r)) = Len(p) + (Len(q) + Len(r))
    BY <2>3, <2>4, <2>5, RunContinues
  <2>7. Len(p \o (q \o r)) = Len(log) - b + 1
    BY <2>4, <2>6
  <2>8. IsRun(x, p \o (q \o r))
    BY <2>2, <2>6 DEF Run, IsRun
  <2>. QED BY <2>2, <2>7, <2>8
<1>2. TypeOK /\ StreamInv => NothingLost
  BY <1>1 DEF NothingLost
<1>. QED BY <1>2, StreamInvariant, PTL

-----------------------------------------------------------------------------
(* Close: what a socket that was heard closing still holds.                 *)

CloseAt(x) ==
    closed[x] =>
        /\ Listening(x) /\ ~Synchronous(x)
        /\ ~heartbeat[x] /\ pendingOutput[x] = <<>>
        /\ pc[x] = "live" => x \notin subscribers

CloseInv == \A x \in Sockets : CloseAt(x)

\* A step that hands x's sender nothing, unless x is closed neither before nor
\* after, and moves its handler neither into the block nor to its end.
ClosesQuietly(x) ==
    /\ closed'[x] => closed[x]
    /\ closed[x] /\ ~Synchronous(x) =>
          /\ heartbeat'[x] => heartbeat[x]
          /\ pendingOutput'[x] \in {pendingOutput[x], <<>>}
          /\ x \in subscribers' => x \in subscribers
          /\ pc'[x] = pc[x] \/ pc'[x] \in {"resolved", "attached", "notFound", "done"}

\* Such a step keeps what is known of a closed socket.
LEMMA ClosesQuietlyKeeps ==
    ASSUME NEW x \in Sockets, CloseAt(x), ClosesQuietly(x)
    PROVE  CloseAt(x)'
BY DEF CloseAt, ClosesQuietly, Listening, Synchronous

\* A closed socket's sender, which is in no block, is sent nothing published.
LEMMA PublishClosesQuietly ==
    ASSUME TypeOK, NEW x \in Sockets, CloseAt(x), NEW kind, Publish(kind),
           UNCHANGED <<pc, subscribers, closed, heartbeat>>
    PROVE  ClosesQuietly(x)
<1>1. closed[x] => ~(x \in subscribers /\ SnapshotSent(x))
  BY DEF CloseAt, SnapshotSent, Synchronous
<1>2. closed[x] => pendingOutput'[x] = pendingOutput[x]
  BY <1>1 DEF Publish, SendTo
<1>. QED BY <1>2 DEF ClosesQuietly

\* Every step keeps what is known of closed sockets.
LEMMA NextClose ==
    TypeOK /\ ControlInv /\ StreamInv /\ CloseInv /\ [Next]_vars => CloseInv'
<1>. SUFFICES ASSUME TypeOK, ControlInv, StreamInv, CloseInv, [Next]_vars, NEW x \in Sockets
              PROVE  CloseAt(x)'
  BY DEF CloseInv
<1>. USE DEF recordVars, mirrorVars, attachVars, senderVars, aliveVars, frameVars
<1>1. CloseAt(x)
  BY DEF CloseInv
<1>2. ASSUME ClosesQuietly(x) PROVE CloseAt(x)'
  BY <1>1, <1>2, ClosesQuietlyKeeps
<1>3. CASE DataArrives \/ PtyExits \/ CwdChanges
  <2>1. PICK kind : Publish(kind)
    BY <1>3 DEF DataArrives, PtyExits, CwdChanges
  <2>2. UNCHANGED <<pc, subscribers, closed, heartbeat>>
    BY <1>3 DEF DataArrives, PtyExits, CwdChanges
  <2>. QED BY <1>1, <1>2, <2>1, <2>2, PublishClosesQuietly
<1>4. CASE CloseTerminal
  BY <1>2, <1>4 DEF CloseTerminal, ClosesQuietly
<1>5. CASE MirrorParses
  <2>1. pc'[x] = pc[x] \/ pc'[x] = "resolved"
    BY <1>5 DEF MirrorParses, TypeOK
  <2>. QED BY <1>2, <1>5, <2>1 DEF MirrorParses, ClosesQuietly
<1>6. ASSUME FrameEffect, UNCHANGED <<pc, subscribers, closed, heartbeat>> PROVE CloseAt(x)'
  <2>1. CASE Publish("terminal_updated")
    BY <1>1, <1>2, <1>6, <2>1, PublishClosesQuietly
  <2>2. CASE UNCHANGED <<log, pendingMessages, senderVars, conn>>
    BY <1>2, <1>6, <2>2 DEF ClosesQuietly
  <2>. QED BY <1>6, <2>1, <2>2 DEF FrameEffect
<1>7. ASSUME NEW s \in Sockets, SyncStep(s) PROVE CloseAt(x)'
  <2>1. Synchronous(s)
    BY <1>7 DEF SyncStep, HandlesBufferedFrame, SendsSnapshot, ReplaysMessage, GoesLive, Synchronous
  <2>2. ~closed[s]
    BY <2>1 DEF CloseInv, CloseAt
  <2>3. CASE HandlesBufferedFrame(s)
    BY <1>6, <2>3 DEF HandlesBufferedFrame
  <2>4. CASE SendsSnapshot(s) \/ ReplaysMessage(s) \/ GoesLive(s)
    <3>1. closed' = closed /\ subscribers' = subscribers
      BY <2>4 DEF SendsSnapshot, ReplaysMessage, GoesLive
    <3>2. x # s => heartbeat'[x] = heartbeat[x] /\ pc'[x] = pc[x]
      BY <2>4 DEF SendsSnapshot, ReplaysMessage, GoesLive, TypeOK
    <3>3. x # s => pendingOutput'[x] = pendingOutput[x]
      BY <2>4 DEF SendsSnapshot, ReplaysMessage, GoesLive, SendTo, TypeOK
    <3>. QED BY <1>2, <2>2, <3>1, <3>2, <3>3 DEF ClosesQuietly
  <2>. QED BY <1>7, <2>3, <2>4 DEF SyncStep
<1>8. ASSUME NEW s \in Sockets, FrameArrives(s) PROVE CloseAt(x)'
  <2>1. CASE FrameEffect
    BY <1>6, <1>8, <2>1 DEF FrameArrives
  <2>2. CASE UNCHANGED <<log, pendingMessages, senderVars, conn>>
    BY <1>2, <1>8, <2>2 DEF FrameArrives, ClosesQuietly
  <2>. QED BY <1>8, <2>1, <2>2 DEF FrameArrives
<1>9. ASSUME NEW s \in Sockets, AuthAccepted(s) PROVE CloseAt(x)'
  <2>1. x = s => ~closed[x]
    BY <1>1, <1>9 DEF AuthAccepted, CloseAt, Listening
  <2>. QED BY <1>2, <1>9, <2>1 DEF AuthAccepted, ClosesQuietly, TypeOK
<1>10. ASSUME NEW s \in Sockets, Connect(s) \/ AuthRefused(s) PROVE CloseAt(x)'
  <2>1. x = s => ~closed[x]
    BY <1>1, <1>10 DEF Connect, AuthRefused, CloseAt, Listening
  <2>. QED BY <1>2, <1>10, <2>1 DEF Connect, AuthRefused, ClosesQuietly, TypeOK
<1>11. ASSUME NEW s \in Sockets, AttachReturns(s) \/ HandlerNotFound(s) \/ HandlerClosed(s)
       PROVE  CloseAt(x)'
  BY <1>2, <1>11 DEF AttachReturns, HandlerNotFound, HandlerClosed, Detached, ClosesQuietly, TypeOK
<1>12. ASSUME NEW s \in Sockets, HandlerResumes(s) PROVE CloseAt(x)'
  BY <1>2, <1>12 DEF HandlerResumes, ClosesQuietly, TypeOK
<1>13. ASSUME NEW s \in Sockets, Flushes(s) PROVE CloseAt(x)'
  BY <1>2, <1>13 DEF Flushes, ClosesQuietly, TypeOK
<1>14. ASSUME NEW s \in Sockets,
              HeartbeatTicks(s) \/ PongArrives(s) \/ SocketDrains(s) \/ PeerCloses(s)
                \/ PeerVanishes(s) \/ SessionRevoked(s)
       PROVE  CloseAt(x)'
  BY <1>2, <1>14 DEF HeartbeatTicks, PongArrives, SocketDrains, PeerCloses, PeerVanishes,
                     SessionRevoked, ClosesQuietly
<1>15. ASSUME NEW s \in Sockets, SocketCloses(s), Yielded PROVE CloseAt(x)'
  <2>1. CASE x = s
    BY <1>1, <1>15, <2>1
    DEF SocketCloses, Yielded, Detached, CloseAt, Listening, Synchronous, TypeOK
  <2>2. CASE x # s
    BY <1>2, <1>15, <2>2 DEF SocketCloses, Detached, ClosesQuietly, TypeOK
  <2>. QED BY <2>1, <2>2
<1>16. CASE UNCHANGED vars
  BY <1>2, <1>16 DEF vars, ClosesQuietly
<1>. QED
  BY <1>3, <1>4, <1>5, <1>7, <1>8, <1>9, <1>10, <1>11, <1>12, <1>13, <1>14, <1>15, <1>16
  DEF Next, TerminalStep, ServerStep, ClientStep

\* However a close meets an attach, of a handler that heard it nothing is left:
\* no subscription, no heartbeat, no output that waits for its tick.
THEOREM CloseAlwaysReleases == Spec => []CloseReleases
<1>1. Init => CloseInv
  BY DEF Init, CloseInv, CloseAt
<1>2. StreamInv /\ CloseInv => CloseReleases
  BY DEF StreamInv, StreamAt, CloseInv, CloseAt, CloseReleases
<1>. QED BY <1>1, <1>2, StreamInvariant, NextClose, PTL DEF Spec

-----------------------------------------------------------------------------
(* Frames: what a client sent, from the end of the session check on.        *)

\* q is n+1, n+2, ...
Numbered(n, q) == \A j \in 1..Len(q) : q[j] = n + j

\* What was handled and what is buffered are the numbers of the frames that
\* came once somebody listened; when the snapshot is sent none is buffered.
FramesAt(x) ==
    /\ ~Listening(x) => unheard[x] = arrived[x]
    /\ SnapshotSent(x) => bufferedFrames[x] = <<>>
    /\ arrived[x] = unheard[x] + Len(handled[x]) + Len(bufferedFrames[x])
    /\ Numbered(unheard[x], handled[x])
    /\ Numbered(unheard[x] + Len(handled[x]), bufferedFrames[x])

FramesInv == \A x \in Sockets : FramesAt(x)

\* A sequence goes on with the next number.
LEMMA NumberedAppend ==
    ASSUME NEW n \in Nat, NEW q \in Seq(Nat), Numbered(n, q), NEW i, i = n + Len(q) + 1
    PROVE  Numbered(n, Append(q, i)) /\ Len(Append(q, i)) = Len(q) + 1
<1>. DEFINE g == Append(q, i)
<1>1. /\ Len(q) \in Nat /\ i \in Nat /\ Len(g) = Len(q) + 1
      /\ \A j \in 1..Len(q) : g[j] = q[j]
      /\ g[Len(q) + 1] = i
  OBVIOUS
<1>. HIDE DEF g
<1>2. ASSUME NEW j \in 1..Len(g) PROVE g[j] = n + j
  BY <1>1 DEF Numbered
<1>. QED BY <1>1, <1>2 DEF Numbered, g

\* The head of what is buffered moves to the end of what is handled.
LEMMA NumberedMoves ==
    ASSUME NEW n \in Nat, NEW h \in Seq(Nat), NEW b \in Seq(Nat), b # <<>>,
           Numbered(n, h), Numbered(n + Len(h), b)
    PROVE  /\ Numbered(n, Append(h, Head(b)))
           /\ Numbered(n + Len(Append(h, Head(b))), Tail(b))
           /\ Len(Append(h, Head(b))) + Len(Tail(b)) = Len(h) + Len(b)
<1>1. /\ Len(h) \in Nat /\ Len(b) \in Nat /\ Len(b) >= 1 /\ Head(b) = b[1]
      /\ Len(Tail(b)) = Len(b) - 1
      /\ \A j \in 1..Len(Tail(b)) : Tail(b)[j] = b[j + 1]
  OBVIOUS
<1>2. Head(b) = n + Len(h) + 1
  BY <1>1 DEF Numbered
<1>3. Numbered(n, Append(h, Head(b))) /\ Len(Append(h, Head(b))) = Len(h) + 1
  BY <1>2, NumberedAppend
<1>. DEFINE t == Tail(b)
            k == Len(Append(h, Head(b)))
<1>4. Len(t) = Len(b) - 1 /\ k = Len(h) + 1 /\ \A j \in 1..Len(t) : t[j] = b[j + 1]
  BY <1>1, <1>3
<1>. HIDE DEF t, k
<1>5. ASSUME NEW j \in 1..Len(t) PROVE t[j] = n + k + j
  BY <1>1, <1>4 DEF Numbered
<1>6. Numbered(n + k, t) /\ k + Len(t) = Len(h) + Len(b)
  BY <1>1, <1>4, <1>5 DEF Numbered
<1>. QED BY <1>3, <1>6 DEF t, k

\* A step that touches no frames and moves no handler to where they matter.
LEMMA FramesKept ==
    ASSUME NEW x \in Sockets, FramesAt(x),
           arrived'[x] = arrived[x], unheard'[x] = unheard[x],
           bufferedFrames'[x] = bufferedFrames[x], handled'[x] = handled[x],
           ~Listening(x)' => ~Listening(x),
           SnapshotSent(x)' => bufferedFrames[x] = <<>>
    PROVE  FramesAt(x)'
BY DEF FramesAt

\* The first buffered frame is the next to be handled.
LEMMA FrameHandledAt ==
    ASSUME TypeOK, NEW s \in Sockets, HandlesBufferedFrame(s), FramesAt(s)
    PROVE  FramesAt(s)'
<1>1. /\ handled[s] \in Seq(Nat) /\ bufferedFrames[s] \in Seq(Nat) /\ unheard[s] \in Nat
  BY DEF TypeOK
<1>2. /\ pc[s] = "frames" /\ pc' = pc /\ arrived' = arrived /\ unheard' = unheard
      /\ bufferedFrames[s] # <<>>
      /\ handled'[s] = Append(handled[s], Head(bufferedFrames[s]))
      /\ bufferedFrames'[s] = Tail(bufferedFrames[s])
  BY DEF HandlesBufferedFrame, TypeOK
<1>3. /\ Numbered(unheard[s], handled'[s])
      /\ Numbered(unheard[s] + Len(handled'[s]), bufferedFrames'[s])
      /\ Len(handled'[s]) + Len(bufferedFrames'[s]) = Len(handled[s]) + Len(bufferedFrames[s])
  BY <1>1, <1>2, NumberedMoves DEF FramesAt
<1>4. handled'[s] \in Seq(Nat) /\ bufferedFrames'[s] \in Seq(Nat)
  BY <1>1, <1>2
<1>5. arrived'[s] = unheard'[s] + Len(handled'[s]) + Len(bufferedFrames'[s])
  <2>. DEFINE i == Len(handled[s])   j == Len(bufferedFrames[s])
              p == Len(handled'[s])  q == Len(bufferedFrames'[s])
              m == unheard[s]        a == arrived[s]
  <2>1. i \in Nat /\ j \in Nat /\ p \in Nat /\ q \in Nat /\ m \in Nat
    BY <1>1, <1>4
  <2>2. a = m + i + j /\ p + q = i + j
    BY <1>3 DEF FramesAt
  <2>3. SUFFICES a = m + p + q
    BY <1>2
  <2>. HIDE DEF i, j, p, q, m, a
  <2>. QED BY <2>1, <2>2
<1>. QED BY <1>2, <1>3, <1>5 DEF FramesAt, Listening, SnapshotSent

\* A frame that arrives is unheard, or the last buffered, or handled at once.
LEMMA FrameArrivesAt ==
    ASSUME TypeOK, Yielded, NEW s \in Sockets, FrameArrives(s), FramesAt(s)
    PROVE  FramesAt(s)'
<1>1. /\ handled[s] \in Seq(Nat) /\ bufferedFrames[s] \in Seq(Nat)
      /\ unheard[s] \in Nat /\ arrived[s] \in Nat
  BY DEF TypeOK
<1>2. /\ pc' = pc /\ arrived'[s] = arrived[s] + 1
      /\ Listening(s)' = Listening(s) /\ SnapshotSent(s)' = SnapshotSent(s)
  BY DEF FrameArrives, TypeOK, Listening, SnapshotSent
<1>3. /\ arrived[s] = unheard[s] + Len(handled[s]) + Len(bufferedFrames[s])
      /\ Len(handled[s]) \in Nat /\ Len(bufferedFrames[s]) \in Nat
      /\ Numbered(unheard[s], handled[s])
      /\ Numbered(unheard[s] + Len(handled[s]), bufferedFrames[s])
  BY <1>1 DEF FramesAt
<1>4. CASE ~Listening(s)
  <2>1. /\ unheard'[s] = unheard[s] + 1 /\ unheard[s] = arrived[s]
        /\ handled'[s] = handled[s] /\ bufferedFrames'[s] = bufferedFrames[s]
    BY <1>4 DEF FrameArrives, TypeOK, FramesAt, Listening
  <2>2. Len(handled[s]) = 0 /\ Len(bufferedFrames[s]) = 0
    BY <1>1, <1>3, <2>1
  <2>. QED BY <1>1, <1>2, <1>4, <2>1, <2>2 DEF FramesAt, Numbered, Listening, SnapshotSent
<1>5. CASE Listening(s) /\ pc[s] # "live"
  <2>1. /\ unheard'[s] = unheard[s] /\ handled'[s] = handled[s]
        /\ bufferedFrames'[s] = Append(bufferedFrames[s], arrived[s] + 1)
        /\ ~SnapshotSent(s)
    BY <1>5 DEF FrameArrives, TypeOK, SnapshotSent, Yielded
  <2>2. /\ Numbered(unheard[s] + Len(handled[s]), bufferedFrames'[s])
        /\ Len(bufferedFrames'[s]) = Len(bufferedFrames[s]) + 1
    BY <1>1, <1>3, <2>1, NumberedAppend, unheard[s] + Len(handled[s]) \in Nat,
       arrived[s] + 1 = (unheard[s] + Len(handled[s])) + Len(bufferedFrames[s]) + 1
  <2>. QED BY <1>1, <1>2, <1>3, <1>5, <2>1, <2>2 DEF FramesAt
<1>6. CASE pc[s] = "live"
  <2>1. /\ unheard'[s] = unheard[s] /\ bufferedFrames'[s] = bufferedFrames[s]
        /\ handled'[s] = Append(handled[s], arrived[s] + 1)
        /\ bufferedFrames[s] = <<>> /\ Listening(s)
    BY <1>6 DEF FrameArrives, TypeOK, FramesAt, Listening, SnapshotSent
  <2>2. Len(bufferedFrames[s]) = 0
    BY <2>1
  <2>3. Numbered(unheard[s], handled'[s]) /\ Len(handled'[s]) = Len(handled[s]) + 1
    BY <1>1, <1>3, <2>1, <2>2, NumberedAppend
  <2>. QED BY <1>1, <1>2, <1>3, <2>1, <2>2, <2>3 DEF FramesAt, Numbered
<1>. QED BY <1>4, <1>5, <1>6

\* Every step keeps the order of every client's frames.
LEMMA NextFrames == TypeOK /\ ControlInv /\ FramesInv /\ [Next]_vars => FramesInv'
<1>. SUFFICES ASSUME TypeOK, ControlInv, FramesInv, [Next]_vars, NEW x \in Sockets
              PROVE  FramesAt(x)'
  BY DEF FramesInv
<1>. USE DEF recordVars, mirrorVars, attachVars, senderVars, aliveVars, frameVars
<1>1. FramesAt(x)
  BY DEF FramesInv
<1>2. ASSUME UNCHANGED frameVars,
             \/ pc'[x] = pc[x]
             \/ pc'[x] \notin {"idle", "auth", "refused", "replay", "live"}
             \/ {pc[x], pc'[x]} \subseteq {"idle", "auth", "refused"}
             \/ {pc[x], pc'[x]} \subseteq {"replay", "live"}
             \/ bufferedFrames[x] = <<>> /\ pc'[x] = "replay"
      PROVE  FramesAt(x)'
  BY <1>1, <1>2, FramesKept DEF FramesAt, Listening, SnapshotSent
<1>3. CASE DataArrives \/ PtyExits \/ CwdChanges \/ CloseTerminal
  BY <1>2, <1>3 DEF DataArrives, PtyExits, CwdChanges, CloseTerminal
<1>4. CASE MirrorParses
  <2>1. pc'[x] = pc[x] \/ pc'[x] = "resolved"
    BY <1>4 DEF MirrorParses, TypeOK
  <2>. QED BY <1>2, <1>4, <2>1 DEF MirrorParses
<1>5. ASSUME NEW s \in Sockets, HandlesBufferedFrame(s) PROVE FramesAt(x)'
  <2>1. CASE x = s
    BY <1>1, <1>5, <2>1, FrameHandledAt
  <2>2. CASE x # s
    BY <1>1, <1>5, <2>2, FramesKept
    DEF HandlesBufferedFrame, FramesAt, Listening, SnapshotSent, TypeOK
  <2>. QED BY <2>1, <2>2
<1>6. ASSUME NEW s \in Sockets, FrameArrives(s), Yielded PROVE FramesAt(x)'
  <2>1. CASE x = s
    BY <1>1, <1>6, <2>1, FrameArrivesAt
  <2>2. CASE x # s
    <3>1. /\ arrived'[x] = arrived[x] /\ unheard'[x] = unheard[x] /\ pc' = pc
          /\ bufferedFrames'[x] = bufferedFrames[x] /\ handled'[x] = handled[x]
      BY <1>6, <2>2 DEF FrameArrives, TypeOK
    <3>. QED BY <1>1, <3>1, FramesKept DEF FramesAt, Listening, SnapshotSent
  <2>. QED BY <2>1, <2>2
<1>7. ASSUME NEW s \in Sockets, SendsSnapshot(s) \/ ReplaysMessage(s) \/ GoesLive(s)
      PROVE  FramesAt(x)'
  BY <1>2, <1>7 DEF SendsSnapshot, ReplaysMessage, GoesLive, TypeOK
<1>8. ASSUME NEW s \in Sockets,
             \/ Connect(s) \/ AuthRefused(s) \/ AuthAccepted(s) \/ AttachReturns(s)
             \/ HandlerNotFound(s) \/ HandlerClosed(s) \/ HandlerResumes(s)
      PROVE  FramesAt(x)'
  BY <1>2, <1>8 DEF Connect, AuthRefused, AuthAccepted, AttachReturns, HandlerNotFound,
                    HandlerClosed, HandlerResumes, TypeOK
<1>9. ASSUME NEW s \in Sockets,
             \/ Flushes(s) \/ HeartbeatTicks(s) \/ PongArrives(s) \/ SocketDrains(s)
             \/ PeerCloses(s) \/ PeerVanishes(s) \/ SessionRevoked(s) \/ SocketCloses(s)
      PROVE  FramesAt(x)'
  BY <1>2, <1>9 DEF Flushes, HeartbeatTicks, PongArrives, SocketDrains, PeerCloses,
                    PeerVanishes, SessionRevoked, SocketCloses
<1>10. CASE UNCHANGED vars
  BY <1>2, <1>10 DEF vars
<1>. QED
  BY <1>3, <1>4, <1>5, <1>6, <1>7, <1>8, <1>9, <1>10
  DEF Next, TerminalStep, SyncStep, ServerStep, ClientStep

\* However many frames arrive before, during and after an attach, those heard
\* are handled in the order they came, or still wait in it.
THEOREM FramesStayInOrder == Spec => []FramesInOrder
<1>1. Init => FramesInv
  BY DEF Init, FramesInv, FramesAt, Numbered, Listening, SnapshotSent
<1>2. ASSUME NEW n \in Nat, NEW h \in Seq(Nat), NEW b \in Seq(Nat),
             Numbered(n, h), Numbered(n + Len(h), b)
      PROVE  Numbered(n, h \o b) /\ Len(h \o b) = Len(h) + Len(b)
  <2>1. Len(h \o b) = Len(h) + Len(b) /\ Len(h) \in Nat /\ Len(b) \in Nat
    OBVIOUS
  <2>2. ASSUME NEW j \in 1..Len(h \o b) PROVE (h \o b)[j] = n + j
    <3>1. CASE j <= Len(h)
      BY <1>2, <3>1 DEF Numbered
    <3>2. CASE j > Len(h)
      <4>1. (h \o b)[j] = b[j - Len(h)] /\ j - Len(h) \in 1..Len(b)
        BY <2>1, <3>2
      <4>. QED BY <1>2, <2>1, <4>1 DEF Numbered
    <3>. QED BY <2>1, <3>1, <3>2
  <2>. QED BY <2>1, <2>2 DEF Numbered
<1>4. ASSUME TypeOK, FramesInv, NEW x \in Sockets
      PROVE  /\ Len(handled[x] \o bufferedFrames[x]) = arrived[x] - unheard[x]
             /\ Numbered(unheard[x], handled[x] \o bufferedFrames[x])
  <2>1. /\ handled[x] \in Seq(Nat) /\ bufferedFrames[x] \in Seq(Nat)
        /\ unheard[x] \in Nat /\ arrived[x] \in Nat /\ FramesAt(x)
    BY <1>4 DEF TypeOK, FramesInv
  <2>2. /\ Numbered(unheard[x], handled[x] \o bufferedFrames[x])
        /\ Len(handled[x] \o bufferedFrames[x]) = Len(handled[x]) + Len(bufferedFrames[x])
    BY <1>2, <2>1 DEF FramesAt
  <2>3. Len(handled[x]) + Len(bufferedFrames[x]) = arrived[x] - unheard[x]
    <3>. DEFINE i == Len(handled[x])  j == Len(bufferedFrames[x])
                m == unheard[x]       a == arrived[x]
    <3>1. i \in Nat /\ j \in Nat /\ m \in Nat
      BY <2>1
    <3>2. a = m + i + j
      BY <2>1 DEF FramesAt
    <3>3. SUFFICES i + j = a - m
      OBVIOUS
    <3>. HIDE DEF i, j, m, a
    <3>. QED BY <3>1, <3>2
  <2>. QED BY <2>2, <2>3
<1>3. TypeOK /\ FramesInv => FramesInOrder
  BY <1>4 DEF FramesInOrder, Numbered
<1>. QED BY <1>1, <1>3, StreamInvariant, NextFrames, PTL DEF Spec

-----------------------------------------------------------------------------
(* Snapshots: what the mirror parsed when a handler's sentinel came up.      *)

\* Every chunk of output is parsed, queued or was refused, and nothing else is.
ChunksInv ==
    /\ parsed \subseteq 1..Len(log)
    /\ \A j \in 1..Len(queue) : queue[j].type = "data" => queue[j].chunk \in 1..Len(log)
    /\ \A i \in 1..Len(log) : log[i] = "output" =>
          i \in discarded \/ i \in parsed \/ \E j \in 1..Len(queue) : queue[j] = Data(i)

\* A queued sentinel parts the chunks published before its handler subscribed
\* from those published after.
PartedAt(j) ==
    LET b == start[queue[j].socket]
    IN  /\ \A i \in parsed : i <= b
        /\ \A k \in 1..j : queue[k].type = "data" => queue[k].chunk <= b
        /\ \A k \in j..Len(queue) : queue[k].type = "data" => queue[k].chunk > b

SentinelInv == \A j \in 1..Len(queue) : queue[j].type = "sentinel" => PartedAt(j)

Serialized == {"resolved", "attached", "frames", "replay", "live"}

\* SnapshotExact of one handler.
ExactAt(x) ==
    pc[x] \in Serialized =>
        /\ \A i \in snapshot[x] : i <= start[x]
        /\ \A i \in 1..start[x] :
              log[i] = "output" /\ i \notin snapshot[x] => i \in discarded \/ stale[x]

MirrorInv == ChunksInv /\ SentinelInv /\ \A x \in Sockets : ExactAt(x)

\* What was published stays, and of what is new the output is in the mirror.
LogGrows ==
    /\ Len(log) <= Len(log')
    /\ \A i \in 1..Len(log) : log'[i] = log[i]
    /\ discarded \subseteq discarded'

\* A handler whose snapshot is taken keeps it.
KeepsSnapshot(x) ==
    pc'[x] \in Serialized =>
        /\ pc[x] \in Serialized
        /\ start'[x] = start[x] /\ snapshot'[x] = snapshot[x] /\ stale'[x] = stale[x]

\* Such a handler's snapshot stays exact while the log grows.
LEMMA ExactKept ==
    ASSUME TypeOK, NEW x \in Sockets, ExactAt(x), start[x] <= Len(log), LogGrows, KeepsSnapshot(x)
    PROVE  ExactAt(x)'
<1>1. \A i \in 1..start[x] : i \in 1..Len(log)
  BY DEF TypeOK
<1>. QED BY <1>1 DEF ExactAt, LogGrows, KeepsSnapshot

\* A step that leaves the mirror's queue and screen alone; output it publishes
\* was refused.
LEMMA MirrorKept ==
    ASSUME TypeOK, TypeOK', QueueInv, StreamInv, MirrorInv, LogGrows,
           UNCHANGED <<queue, parsed>>,
           \A i \in 1..Len(log') : i > Len(log) /\ log'[i] = "output" => i \in discarded',
           \A x \in Sockets : pc[x] = "attaching" => start'[x] = start[x],
           \A x \in Sockets : KeepsSnapshot(x) \/ ExactAt(x)'
    PROVE  MirrorInv'
<1>. Len(log) \in Nat /\ Len(log') \in Nat
  BY DEF TypeOK
<1>1. ChunksInv'
  <2>1. 1..Len(log) \subseteq 1..Len(log')
    BY DEF LogGrows
  <2>2. ASSUME NEW i \in 1..Len(log'), log'[i] = "output"
        PROVE  i \in discarded' \/ i \in parsed' \/ \E j \in 1..Len(queue') : queue'[j] = Data(i)
    <3>1. CASE i \in 1..Len(log)
      BY <2>2, <3>1 DEF MirrorInv, ChunksInv, LogGrows
    <3>2. CASE i > Len(log)
      BY <2>2, <3>2
    <3>. QED BY <3>1, <3>2
  <2>. QED BY <2>1, <2>2 DEF MirrorInv, ChunksInv
<1>2. SentinelInv'
  <2>. SUFFICES ASSUME NEW j \in 1..Len(queue), queue[j].type = "sentinel"
                PROVE  PartedAt(j)'
    BY DEF SentinelInv
  <2>1. start'[queue[j].socket] = start[queue[j].socket]
    <3>1. queue[j].socket \in Sockets
      BY DEF TypeOK, Entries
    <3>. QED BY <3>1 DEF QueueInv
  <2>. QED BY <2>1 DEF MirrorInv, SentinelInv, PartedAt
<1>3. ASSUME NEW x \in Sockets PROVE ExactAt(x)'
  BY ExactKept DEF MirrorInv, StreamInv, StreamAt
<1>. QED BY <1>1, <1>2, <1>3 DEF MirrorInv

\* A chunk that the mirror takes comes after every queued sentinel.
LEMMA ChunkQueued ==
    ASSUME TypeOK, TypeOK', QueueInv, StreamInv, MirrorInv, LogGrows,
           Len(log') = Len(log) + 1, queue' = Append(queue, Data(Len(log'))),
           UNCHANGED <<parsed, start, snapshot, stale, pc>>
    PROVE  MirrorInv'
<1>. DEFINE n == Len(log)
            m == Len(queue)
<1>1. /\ n \in Nat /\ m \in Nat /\ Len(log') = n + 1 /\ Len(queue') = m + 1
      /\ \A j \in 1..m : queue'[j] = queue[j]
      /\ queue'[m + 1] = Data(n + 1)
  <2>1. Data(Len(log')) \in Entries
    BY DEF TypeOK, Data, Entries
  <2>. QED BY <2>1 DEF TypeOK
<1>. HIDE DEF n, m
<1>2. Data(n + 1).type = "data" /\ Data(n + 1).chunk = n + 1
  BY DEF Data
<1>3. ChunksInv'
  <2>1. parsed' \subseteq 1..Len(log')
    BY <1>1 DEF MirrorInv, ChunksInv, n
  <2>2. ASSUME NEW j \in 1..Len(queue'), queue'[j].type = "data"
        PROVE  queue'[j].chunk \in 1..Len(log')
    <3>1. CASE j \in 1..m
      BY <1>1, <2>2, <3>1 DEF MirrorInv, ChunksInv, n, m
    <3>2. CASE j = m + 1
      BY <1>1, <1>2, <3>2
    <3>. QED BY <1>1, <3>1, <3>2
  <2>3. ASSUME NEW i \in 1..Len(log'), log'[i] = "output"
        PROVE  i \in discarded' \/ i \in parsed' \/ \E j \in 1..Len(queue') : queue'[j] = Data(i)
    <3>1. CASE i \in 1..n
      <4>1. i \in discarded \/ i \in parsed \/ \E j \in 1..m : queue[j] = Data(i)
        BY <2>3, <3>1 DEF MirrorInv, ChunksInv, LogGrows, n, m
      <4>2. 1..m \subseteq 1..Len(queue')
        BY <1>1
      <4>. QED BY <1>1, <4>1, <4>2 DEF LogGrows
    <3>2. CASE i = n + 1
      <4>1. m + 1 \in 1..Len(queue')
        BY <1>1
      <4>. QED BY <1>1, <3>2, <4>1
    <3>. QED BY <1>1, <3>1, <3>2
  <2>. QED BY <2>1, <2>2, <2>3 DEF ChunksInv
<1>4. SentinelInv'
  <2>. SUFFICES ASSUME NEW j \in 1..Len(queue'), queue'[j].type = "sentinel"
                PROVE  PartedAt(j)'
    BY DEF SentinelInv
  <2>1. j \in 1..m /\ queue'[j] = queue[j]
    BY <1>1, <1>2
  <2>2. queue[j].socket \in Sockets /\ PartedAt(j)
    BY <2>1 DEF MirrorInv, SentinelInv, TypeOK, Entries, m
  <2>. DEFINE b == start[queue[j].socket]
  <2>3. b \in Nat /\ b <= n
    BY <2>2 DEF StreamInv, StreamAt, TypeOK, n
  <2>4. /\ \A i \in parsed : i <= b
        /\ \A k \in 1..j : queue[k].type = "data" => queue[k].chunk <= b
        /\ \A k \in j..m : queue[k].type = "data" => queue[k].chunk > b
    BY <2>2 DEF PartedAt, m
  <2>5. b = start'[queue'[j].socket]
    BY <2>1
  <2>. HIDE DEF b
  <2>6. \A k \in 1..j : queue'[k].type = "data" => queue'[k].chunk <= b
    BY <1>1, <2>1, <2>4
  <2>7. ASSUME NEW k \in j..(m + 1), queue'[k].type = "data" PROVE queue'[k].chunk > b
    <3>1. CASE k \in j..m
      BY <1>1, <2>1, <2>4, <2>7, <3>1
    <3>2. CASE k = m + 1
      BY <1>1, <1>2, <2>3, <3>2
    <3>. QED BY <1>1, <2>1, <3>1, <3>2
  <2>. QED BY <1>1, <2>4, <2>5, <2>6, <2>7 DEF PartedAt
<1>5. ASSUME NEW x \in Sockets PROVE ExactAt(x)'
  BY ExactKept DEF MirrorInv, StreamInv, StreamAt, KeepsSnapshot
<1>. QED BY <1>3, <1>4, <1>5 DEF MirrorInv

\* A sentinel comes after everything published when its handler subscribed.
LEMMA SentinelQueued ==
    ASSUME TypeOK, TypeOK', QueueInv, StreamInv, MirrorInv, NEW s \in Sockets,
           pc[s] = "auth", queue' = QueueSentinel(s), start' = [start EXCEPT ![s] = Len(log)],
           pc' = [pc EXCEPT ![s] = "attaching"],
           UNCHANGED <<log, parsed, discarded, snapshot, stale>>
    PROVE  MirrorInv'
<1>. DEFINE n == Len(log)
            m == Len(queue)
<1>1. /\ n \in Nat /\ m \in Nat /\ Len(log') = n /\ Len(queue') = m + 1
      /\ \A j \in 1..m : queue'[j] = queue[j]
      /\ queue'[m + 1] = Sentinel(s)
  <2>1. Sentinel(s) \in Entries
    BY DEF Sentinel, Entries
  <2>2. queue \in Seq(Entries) /\ Len(log) \in Nat /\ log' = log
    BY DEF TypeOK
  <2>. QED BY <2>1, <2>2 DEF QueueSentinel
<1>. HIDE DEF n, m
<1>2. /\ Sentinel(s).type = "sentinel" /\ Sentinel(s).socket = s
      /\ \A i : Data(i).type = "data"
  BY DEF Sentinel, Data
<1>3. ChunksInv'
  <2>1. parsed' \subseteq 1..Len(log')
    BY DEF MirrorInv, ChunksInv
  <2>2. ASSUME NEW j \in 1..Len(queue'), queue'[j].type = "data"
        PROVE  queue'[j].chunk \in 1..Len(log')
    <3>1. j \in 1..m
      BY <1>1, <1>2, <2>2
    <3>. QED BY <1>1, <2>2, <3>1 DEF MirrorInv, ChunksInv, n, m
  <2>3. ASSUME NEW i \in 1..Len(log'), log'[i] = "output"
        PROVE  i \in discarded' \/ i \in parsed' \/ \E j \in 1..Len(queue') : queue'[j] = Data(i)
    <3>1. i \in discarded \/ i \in parsed \/ \E j \in 1..m : queue[j] = Data(i)
      BY <2>3 DEF MirrorInv, ChunksInv, m
    <3>2. 1..m \subseteq 1..Len(queue')
      BY <1>1
    <3>. QED BY <1>1, <3>1, <3>2
  <2>. QED BY <2>1, <2>2, <2>3 DEF ChunksInv
<1>4. SentinelInv'
  <2>. SUFFICES ASSUME NEW j \in 1..Len(queue'), queue'[j].type = "sentinel"
                PROVE  PartedAt(j)'
    BY DEF SentinelInv
  <2>1. CASE j \in 1..m
    <3>1. queue'[j] = queue[j] /\ queue[j].socket \in Sockets /\ PartedAt(j)
      <4>1. queue'[j] = queue[j]
        BY <1>1, <2>1
      <4>2. queue \in Seq(Entries) /\ j \in 1..Len(queue)
        BY <2>1 DEF TypeOK, m
      <4>3. queue[j] \in Entries
        BY <4>2
      <4>. QED BY <4>1, <4>2, <4>3 DEF MirrorInv, SentinelInv, Entries
    <3>2. queue[j].socket # s
      BY <2>1, <3>1 DEF QueueInv, m
    <3>3. start'[queue[j].socket] = start[queue[j].socket]
      BY <3>1, <3>2 DEF TypeOK
    <3>4. ASSUME NEW k \in 1..j PROVE k \in 1..m /\ queue'[k] = queue[k]
      BY <1>1, <2>1
    <3>5. ASSUME NEW k \in j..(m + 1), queue'[k].type = "data"
          PROVE  k \in j..m /\ queue'[k] = queue[k]
      BY <1>1, <1>2, <2>1, <3>5
    <3>. QED BY <1>1, <3>1, <3>3, <3>4, <3>5 DEF PartedAt, m
  <2>2. CASE j = m + 1
    <3>1. start'[queue'[j].socket] = n
      <4>1. queue'[j].socket = s
        BY <1>1, <1>2, <2>2
      <4>. QED BY <4>1 DEF TypeOK, n
    <3>2. \A i \in parsed' : i <= n
      BY <1>1 DEF MirrorInv, ChunksInv, n
    <3>3. ASSUME NEW k \in 1..j, queue'[k].type = "data" PROVE queue'[k].chunk <= n
      <4>1. k \in 1..m /\ queue'[k] = queue[k]
        BY <1>1, <1>2, <2>2, <3>3
      <4>2. queue[k].chunk \in 1..n
        BY <3>3, <4>1 DEF MirrorInv, ChunksInv, n, m
      <4>. QED BY <1>1, <4>1, <4>2
    <3>4. ASSUME NEW k \in j..Len(queue') PROVE queue'[k].type # "data"
      <4>1. k = m + 1
        BY <1>1, <2>2
      <4>. QED BY <1>1, <1>2, <4>1
    <3>. QED BY <3>1, <3>2, <3>3, <3>4 DEF PartedAt
  <2>. QED BY <1>1, <2>1, <2>2
<1>5. ASSUME NEW x \in Sockets PROVE ExactAt(x)'
  <2>1. LogGrows /\ start[x] <= Len(log) /\ ExactAt(x)
    BY <1>1 DEF LogGrows, MirrorInv, StreamInv, StreamAt, n
  <2>2. KeepsSnapshot(x)
    BY DEF KeepsSnapshot, Serialized, TypeOK
  <2>. QED BY <2>1, <2>2, ExactKept
<1>. QED BY <1>3, <1>4, <1>5 DEF MirrorInv

\* What comes up is parsed, or serialized with all that was parsed before it.
LEMMA MirrorParsesExactly ==
    ASSUME TypeOK, TypeOK', QueueInv, StreamInv, MirrorInv, MirrorParses
    PROVE  MirrorInv'
<1>. DEFINE m == Len(queue)
            h == queue[1]
<1>1. /\ m \in Nat /\ m >= 1 /\ Len(queue') = m - 1 /\ Head(queue) = h
      /\ \A j \in 1..(m - 1) : queue'[j] = queue[j + 1]
      /\ h \in Entries
  BY DEF MirrorParses, TypeOK
<1>2. /\ UNCHANGED <<log, discarded, start, stale>>
      /\ \/ /\ h.type = "data" /\ parsed' = parsed \union {h.chunk}
            /\ UNCHANGED <<snapshot, pc>>
         \/ /\ h.type = "sentinel" /\ parsed' = parsed
            /\ snapshot' = [snapshot EXCEPT ![h.socket] = parsed]
            /\ pc' = [pc EXCEPT ![h.socket] = "resolved"]
  BY <1>1 DEF MirrorParses, recordVars
<1>. HIDE DEF m, h
<1>3. \A i : Data(i).type = "data" /\ Data(i).chunk = i
  BY DEF Data
<1>4. ChunksInv'
  <2>1. parsed' \subseteq 1..Len(log')
    <3>1. h.type = "data" => h.chunk \in 1..Len(log)
      BY <1>1 DEF MirrorInv, ChunksInv, h, m
    <3>. QED BY <1>2, <3>1 DEF MirrorInv, ChunksInv
  <2>2. ASSUME NEW j \in 1..(m - 1), queue'[j].type = "data"
        PROVE  queue'[j].chunk \in 1..Len(log')
    BY <1>1, <1>2, <2>2 DEF MirrorInv, ChunksInv, m
  <2>3. ASSUME NEW i \in 1..Len(log'), log'[i] = "output"
        PROVE  i \in discarded' \/ i \in parsed' \/ \E j \in 1..(m - 1) : queue'[j] = Data(i)
    <3>1. i \in discarded \/ i \in parsed \/ \E j \in 1..m : queue[j] = Data(i)
      BY <1>2, <2>3 DEF MirrorInv, ChunksInv, m
    <3>2. ASSUME NEW j \in 1..m, queue[j] = Data(i)
          PROVE  i \in parsed' \/ \E k \in 1..(m - 1) : queue'[k] = Data(i)
      <4>1. CASE j = 1
        BY <1>2, <1>3, <3>2, <4>1 DEF h
      <4>2. CASE j > 1
        <5>1. j - 1 \in 1..(m - 1) /\ queue'[j - 1] = queue[(j - 1) + 1] /\ (j - 1) + 1 = j
          BY <1>1, <4>2
        <5>. QED BY <3>2, <5>1
      <4>. QED BY <1>1, <4>1, <4>2
    <3>. QED BY <1>2, <3>1, <3>2
  <2>. QED BY <1>1, <2>1, <2>2, <2>3 DEF ChunksInv
<1>5. SentinelInv'
  <2>. SUFFICES ASSUME NEW j \in 1..(m - 1), queue'[j].type = "sentinel"
                PROVE  PartedAt(j)'
    BY <1>1 DEF SentinelInv
  <2>1. j + 1 \in 1..m /\ queue'[j] = queue[j + 1]
    BY <1>1
  <2>2. PartedAt(j + 1)
    BY <2>1 DEF MirrorInv, SentinelInv, m
  <2>. DEFINE b == start[queue[j + 1].socket]
  <2>3. b = start'[queue'[j].socket]
    BY <1>2, <2>1
  <2>4. /\ \A i \in parsed : i <= b
        /\ \A k \in 1..(j + 1) : queue[k].type = "data" => queue[k].chunk <= b
        /\ \A k \in (j + 1)..m : queue[k].type = "data" => queue[k].chunk > b
    BY <2>2 DEF PartedAt, m
  <2>. HIDE DEF b
  <2>5. \A i \in parsed' : i <= b
    BY <1>1, <1>2, <2>4 DEF h
  <2>6. ASSUME NEW k \in 1..j, queue'[k].type = "data" PROVE queue'[k].chunk <= b
    <3>1. k + 1 \in 1..(j + 1) /\ queue'[k] = queue[k + 1]
      BY <1>1
    <3>. QED BY <2>4, <2>6, <3>1
  <2>7. ASSUME NEW k \in j..(m - 1), queue'[k].type = "data" PROVE queue'[k].chunk > b
    <3>1. k + 1 \in (j + 1)..m /\ queue'[k] = queue[k + 1]
      BY <1>1
    <3>. QED BY <2>4, <2>7, <3>1
  <2>. QED BY <1>1, <2>3, <2>5, <2>6, <2>7 DEF PartedAt
<1>6. ASSUME NEW x \in Sockets PROVE ExactAt(x)'
  <2>1. LogGrows /\ start[x] <= Len(log) /\ ExactAt(x)
    BY <1>2 DEF LogGrows, MirrorInv, StreamInv, StreamAt, TypeOK
  <2>2. CASE h.type = "sentinel" /\ h.socket = x
    <3>1. snapshot'[x] = parsed /\ start'[x] = start[x] /\ log' = log /\ discarded' = discarded
      BY <1>2, <2>2 DEF TypeOK
    <3>2. PartedAt(1) /\ queue[1].socket = x
      BY <1>1, <2>2 DEF MirrorInv, SentinelInv, h, m
    <3>3. /\ \A i \in parsed : i <= start[x]
          /\ \A k \in 1..m : queue[k].type = "data" => queue[k].chunk > start[x]
      BY <3>2 DEF PartedAt, m
    <3>4. ASSUME NEW i \in 1..start[x], log[i] = "output", i \notin parsed PROVE i \in discarded
      <4>1. start[x] \in Nat /\ Len(log) \in Nat
        BY DEF TypeOK
      <4>2. i \in 1..Len(log)
        BY <2>1, <4>1
      <4>3. i \in discarded \/ \E j \in 1..m : queue[j] = Data(i)
        BY <3>4, <4>2 DEF MirrorInv, ChunksInv, m
      <4>. QED BY <1>3, <3>3, <4>1, <4>3
    <3>. QED BY <3>1, <3>3, <3>4 DEF ExactAt
  <2>3. CASE ~(h.type = "sentinel" /\ h.socket = x)
    <3>1. KeepsSnapshot(x)
      BY <1>2, <2>3 DEF KeepsSnapshot, TypeOK
    <3>. QED BY <2>1, <3>1, ExactKept
  <2>. QED BY <2>2, <2>3
<1>. QED BY <1>4, <1>5, <1>6 DEF MirrorInv

\* Publishing only adds to the log.
LEMMA PublishGrows ==
    ASSUME TypeOK, NEW kind \in Kinds, Publish(kind)
    PROVE  /\ Len(log') = Len(log) + 1
           /\ \A i \in 1..Len(log) : log'[i] = log[i]
           /\ log'[Len(log')] = kind
BY DEF TypeOK, Publish

\* Every step keeps the mirror and the snapshots exact.
LEMMA NextMirror ==
    TypeOK /\ TypeOK' /\ ControlInv /\ StreamInv /\ MirrorInv /\ [Next]_vars => MirrorInv'
<1>. SUFFICES ASSUME TypeOK, TypeOK', QueueInv, StreamInv, MirrorInv, [Next]_vars
              PROVE  MirrorInv'
  BY DEF ControlInv
<1>. USE DEF recordVars, mirrorVars, attachVars, senderVars, aliveVars, frameVars
<1>0. Len(log) \in Nat /\ Len(log') \in Nat
  BY DEF TypeOK
<1>1. ASSUME LogGrows, UNCHANGED <<queue, parsed, start, snapshot, stale>>,
             \A i \in 1..Len(log') : i > Len(log) /\ log'[i] = "output" => i \in discarded',
             \A x \in Sockets : pc'[x] \in Serialized => pc[x] \in Serialized
      PROVE  MirrorInv'
  BY <1>1, MirrorKept DEF KeepsSnapshot
<1>2. ASSUME UNCHANGED <<log, queue, parsed, discarded, start, snapshot, stale>>,
             \A x \in Sockets : pc'[x] \in Serialized => pc[x] \in Serialized
      PROVE  MirrorInv'
  BY <1>0, <1>1, <1>2 DEF LogGrows
<1>3. ASSUME NEW kind \in Kinds, Publish(kind), kind # "output",
             UNCHANGED <<queue, parsed, discarded, start, snapshot, stale, pc>>
      PROVE  MirrorInv'
  <2>1. LogGrows
    BY <1>0, <1>3, PublishGrows DEF LogGrows
  <2>2. ASSUME NEW i \in 1..Len(log'), i > Len(log) PROVE log'[i] # "output"
    BY <1>0, <1>3, <2>2, PublishGrows
  <2>. QED BY <1>1, <1>3, <2>1, <2>2
<1>4. CASE DataArrives
  <2>1. Publish("output") /\ "output" \in Kinds
    BY <1>4 DEF DataArrives, Kinds
  <2>2. /\ Len(log') = Len(log) + 1
        /\ \A i \in 1..Len(log) : log'[i] = log[i]
    BY <2>1, PublishGrows
  <2>3. UNCHANGED <<parsed, start, snapshot, stale, pc>>
    BY <1>4 DEF DataArrives
  <2>4. CASE queue' = Append(queue, Data(Len(log) + 1)) /\ UNCHANGED discarded
    <3>1. LogGrows
      BY <1>0, <2>2, <2>4 DEF LogGrows
    <3>. QED BY <2>2, <2>3, <2>4, <3>1, ChunkQueued
  <2>5. CASE discarded' = discarded \union {Len(log) + 1} /\ UNCHANGED queue
    <3>1. LogGrows
      BY <1>0, <2>2, <2>5 DEF LogGrows
    <3>2. \A i \in 1..Len(log') : i > Len(log) => i \in discarded'
      BY <1>0, <2>2, <2>5
    <3>. QED BY <1>1, <2>3, <2>5, <3>1, <3>2
  <2>. QED BY <1>4, <2>4, <2>5 DEF DataArrives
<1>5. CASE PtyExits \/ CwdChanges
  <2>1. PICK kind \in {"exit", "terminal_updated"} : Publish(kind)
    BY <1>5 DEF PtyExits, CwdChanges
  <2>. QED BY <1>3, <1>5, <2>1 DEF PtyExits, CwdChanges, Kinds
<1>6. CASE CloseTerminal
  BY <1>2, <1>6 DEF CloseTerminal
<1>7. CASE MirrorParses
  BY <1>7, MirrorParsesExactly
<1>8. ASSUME FrameEffect,
             UNCHANGED <<queue, parsed, discarded, start, snapshot, stale, pc>>
      PROVE  MirrorInv'
  <2>1. CASE Publish("terminal_updated")
    BY <1>3, <1>8, <2>1 DEF Kinds
  <2>2. CASE UNCHANGED <<log, pendingMessages, senderVars, conn>>
    BY <1>2, <1>8, <2>2
  <2>. QED BY <1>8, <2>1, <2>2 DEF FrameEffect
<1>9. ASSUME NEW s \in Sockets, HandlesBufferedFrame(s) PROVE MirrorInv'
  BY <1>8, <1>9 DEF HandlesBufferedFrame
<1>10. ASSUME NEW s \in Sockets, FrameArrives(s) PROVE MirrorInv'
  <2>1. UNCHANGED <<queue, parsed, discarded, start, snapshot, stale, pc>>
    BY <1>10 DEF FrameArrives
  <2>2. FrameEffect \/ log' = log
    BY <1>10 DEF FrameArrives
  <2>. QED BY <1>2, <1>8, <2>1, <2>2
<1>11. ASSUME NEW s \in Sockets, AuthAccepted(s) PROVE MirrorInv'
  <2>1. /\ pc[s] = "auth" /\ start' = [start EXCEPT ![s] = Len(log)]
        /\ UNCHANGED <<log, parsed, discarded>>
    BY <1>11 DEF AuthAccepted
  <2>2. CASE queue' = QueueSentinel(s) /\ pc' = [pc EXCEPT ![s] = "attaching"]
             /\ UNCHANGED <<stale, snapshot>>
    BY <2>1, <2>2, SentinelQueued
  <2>3. ASSUME UNCHANGED queue, ExactAt(s)',
               \A x \in Sockets : x # s => UNCHANGED <<pc[x], stale[x], snapshot[x]>>
        PROVE  MirrorInv'
    <3>1. \A x \in Sockets : x # s => start'[x] = start[x]
      BY <2>1 DEF TypeOK
    <3>2. LogGrows /\ \A i \in 1..Len(log') : ~(i > Len(log))
      BY <1>0, <2>1 DEF LogGrows
    <3>. QED BY <2>1, <2>3, <3>1, <3>2, MirrorKept DEF KeepsSnapshot
  <2>4. CASE pc' = [pc EXCEPT ![s] = "notFound"] /\ UNCHANGED <<queue, stale, snapshot>>
    <3>1. ExactAt(s)'
      BY <2>4 DEF ExactAt, Serialized, TypeOK
    <3>. QED BY <2>3, <2>4, <3>1 DEF TypeOK
  <2>5. CASE /\ stale' = [stale EXCEPT ![s] = TRUE]
             /\ snapshot' = [snapshot EXCEPT ![s] = parsed]
             /\ pc' = [pc EXCEPT ![s] = "resolved"]
             /\ UNCHANGED queue
    <3>1. \A i \in parsed : i <= Len(log)
      BY <1>0 DEF MirrorInv, ChunksInv
    <3>2. start'[s] = Len(log) /\ stale'[s] /\ snapshot'[s] = parsed
      BY <2>1, <2>5 DEF TypeOK
    <3>3. ExactAt(s)'
      BY <3>1, <3>2 DEF ExactAt
    <3>. QED BY <2>3, <2>5, <3>3 DEF TypeOK
  <2>. QED BY <1>11, <2>2, <2>4, <2>5 DEF AuthAccepted
<1>12. ASSUME NEW s \in Sockets,
              \/ SendsSnapshot(s) \/ ReplaysMessage(s) \/ GoesLive(s)
              \/ Connect(s) \/ AuthRefused(s) \/ AttachReturns(s)
              \/ HandlerNotFound(s) \/ HandlerClosed(s) \/ HandlerResumes(s)
       PROVE  MirrorInv'
  <2>1. UNCHANGED <<log, queue, parsed, discarded, start, snapshot, stale>>
    BY <1>12 DEF SendsSnapshot, ReplaysMessage, GoesLive, Connect, AuthRefused,
                 AttachReturns, HandlerNotFound, HandlerClosed, HandlerResumes
  <2>2. ASSUME NEW x \in Sockets, pc'[x] \in Serialized PROVE pc[x] \in Serialized
    BY <1>12, <2>2 DEF SendsSnapshot, ReplaysMessage, GoesLive, Connect, AuthRefused,
       AttachReturns, HandlerNotFound, HandlerClosed, HandlerResumes, Serialized, TypeOK
  <2>. QED BY <1>2, <2>1, <2>2
<1>13. ASSUME NEW s \in Sockets,
              \/ Flushes(s) \/ HeartbeatTicks(s) \/ PongArrives(s) \/ SocketDrains(s)
              \/ PeerCloses(s) \/ PeerVanishes(s) \/ SessionRevoked(s) \/ SocketCloses(s)
       PROVE  MirrorInv'
  <2>1. UNCHANGED <<log, queue, parsed, discarded, start, snapshot, stale, pc>>
    BY <1>13 DEF Flushes, HeartbeatTicks, PongArrives, SocketDrains, PeerCloses,
                 PeerVanishes, SessionRevoked, SocketCloses
  <2>. QED BY <1>2, <2>1
<1>14. CASE UNCHANGED vars
  BY <1>2, <1>14 DEF vars
<1>. QED
  BY <1>4, <1>5, <1>6, <1>7, <1>9, <1>10, <1>11, <1>12, <1>13, <1>14
  DEF Next, TerminalStep, SyncStep, ServerStep, ClientStep

\* Whatever overflows, and however many handlers attach at once, a snapshot
\* holds what was published before its handler subscribed and nothing after.
THEOREM SnapshotsAreExact == Spec => []SnapshotExact
<1>1. Init => MirrorInv
  BY DEF Init, MirrorInv, ChunksInv, SentinelInv, ExactAt, Serialized
<1>2. MirrorInv => SnapshotExact
  BY DEF MirrorInv, ExactAt, Serialized, SnapshotExact
<1>. QED BY <1>1, <1>2, StreamInvariant, NextMirror, PTL DEF Spec
=============================================================================
