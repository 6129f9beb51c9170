------------------------ MODULE TerminalFeedProofs ------------------------
(***************************************************************************)
(* TerminalStream implements TerminalFeed, and whoever watches a shell that *)
(* has exited knows it.  For any number of sockets, capacities and bounds.  *)
(***************************************************************************)
EXTENDS TerminalStreamProofs

-----------------------------------------------------------------------------
(* Names: what is on its way names messages of the log.                     *)

Within(q, S) == \A j \in 1..Len(q) : q[j] \in S

\* The messages that may wait in a sender for its tick.
Outputs == {i \in 1..Len(log) : log[i] = "output"}

NamedAt(x) ==
    /\ Within(sent[x], 0..Len(log))
    /\ Within(pendingOutput[x], Outputs)
    /\ Within(pendingMessages[x], 1..Len(log))

NamedInv == \A x \in Sockets : NamedAt(x)

\* Joined sequences hold what each of them holds.
LEMMA WithinConcat ==
    ASSUME NEW S, NEW q \in Seq(Nat), NEW r \in Seq(Nat), Within(q, S), Within(r, S)
    PROVE  q \o r \in Seq(Nat) /\ Within(q \o r, S) /\ Len(q) <= Len(q \o r)
<1>. DEFINE g == q \o r
            n == Len(q)
            m == Len(r)
<1>1. /\ n \in Nat /\ m \in Nat /\ Len(g) = n + m /\ g \in Seq(Nat)
      /\ \A j \in 1..n : g[j] = q[j]
      /\ \A j \in (n + 1)..(n + m) : g[j] = r[j - n]
  OBVIOUS
<1>2. (\A j \in 1..n : q[j] \in S) /\ (\A j \in 1..m : r[j] \in S)
  BY DEF Within
<1>. HIDE DEF g, n, m
<1>3. ASSUME NEW j \in 1..Len(g) PROVE g[j] \in S
  <2>1. CASE j \in 1..n
    BY <1>1, <1>2, <2>1
  <2>2. CASE j \in (n + 1)..(n + m)
    <3>1. j - n \in 1..m
      BY <1>1, <2>2
    <3>. QED BY <1>1, <1>2, <2>2, <3>1
  <2>. QED BY <1>1, <2>1, <2>2
<1>4. g \in Seq(Nat) /\ Within(g, S) /\ n <= Len(g)
  BY <1>1, <1>3 DEF Within
<1>. QED BY <1>4 DEF g, n

\* A larger set holds them too.
LEMMA WithinSubset ==
    ASSUME NEW S, NEW T, S \subseteq T, NEW q, Within(q, S)
    PROVE  Within(q, T)
BY DEF Within

\* One more element.
LEMMA WithinAppend ==
    ASSUME NEW S, NEW q \in Seq(Nat), NEW i \in Nat, Within(q, S), i \in S
    PROVE  Within(Append(q, i), S)
<1>. DEFINE g == Append(q, i)
            n == Len(q)
<1>1. n \in Nat /\ Len(g) = n + 1 /\ g[n + 1] = i /\ \A j \in 1..n : g[j] = q[j]
  OBVIOUS
<1>2. \A j \in 1..n : q[j] \in S
  BY DEF Within
<1>. HIDE DEF g, n
<1>3. ASSUME NEW j \in 1..Len(g) PROVE g[j] \in S
  <2>1. CASE j \in 1..n
    BY <1>1, <1>2, <2>1
  <2>2. CASE j = n + 1
    BY <1>1, <2>2
  <2>. QED BY <1>1, <2>1, <2>2
<1>. QED BY <1>3 DEF Within, g

\* One less.
LEMMA WithinTail ==
    ASSUME NEW S, NEW q \in Seq(Nat), q # <<>>, Within(q, S)
    PROVE  Head(q) \in S /\ Within(Tail(q), S)
<1>. DEFINE t == Tail(q)
            n == Len(q)
<1>1. /\ n \in Nat /\ n >= 1 /\ Head(q) = q[1] /\ Len(t) = n - 1
      /\ \A j \in 1..Len(t) : t[j] = q[j + 1]
  OBVIOUS
<1>2. \A j \in 1..n : q[j] \in S
  BY DEF Within
<1>3. Head(q) \in S
  BY <1>1, <1>2
<1>. HIDE DEF t, n
<1>4. ASSUME NEW j \in 1..Len(t) PROVE t[j] \in S
  <2>1. j + 1 \in 1..n
    BY <1>1
  <2>. QED BY <1>1, <1>2, <2>1
<1>. QED BY <1>3, <1>4 DEF Within, t

\* What a sender may do with a message: put output behind its waiting output,
\* send in order to an open socket, or close a socket.
LEMMA SendKeepsNames ==
    ASSUME NEW w \in SenderStates, NEW S, NEW O, NEW i \in S \cap Nat, NEW kind,
           Within(w.sent, S), Within(w.out, O), O \subseteq S,
           kind = "output" => i \in O
    PROVE  /\ Within(Send(w, i, kind).sent, S)
           /\ Within(Send(w, i, kind).out, O)
           /\ \/ Send(w, i, kind).sent = w.sent
              \/ w.conn = "open" /\ Len(w.sent) <= Len(Send(w, i, kind).sent)
<1>. DEFINE v == Send(w, i, kind)
            both == w.sent \o w.out
<1>1. w.sent \in Seq(Nat) /\ w.out \in Seq(Nat) /\ <<i>> \in Seq(Nat)
  BY DEF SenderStates
<1>2. /\ kind = "output" => v.out = Append(w.out, i) /\ v.sent = w.sent
      /\ kind # "output" =>
            /\ v.out = <<>>
            /\ \/ v.sent = w.sent
               \/ v.sent = both /\ w.conn = "open"
               \/ v.sent = both \o <<i>> /\ w.conn = "open"
  <2>1. i \in Nat
    OBVIOUS
  <2>2. /\ kind = "output" =>
              /\ Send(w, i, kind).out = Append(w.out, i)
              /\ Send(w, i, kind).sent = w.sent
              /\ Send(w, i, kind).conn = w.conn
        /\ kind # "output" =>
              /\ Send(w, i, kind).out = <<>>
              /\ \/ Send(w, i, kind).sent = w.sent
                 \/ Send(w, i, kind).sent = w.sent \o w.out /\ w.conn = "open"
                 \/ Send(w, i, kind).sent = (w.sent \o w.out) \o <<i>> /\ w.conn = "open"
              /\ Send(w, i, kind).conn = "open" =>
                    Send(w, i, kind).sent = (w.sent \o w.out) \o <<i>>
    BY <2>1, SendFacts, Zenon
  <2>. QED BY <2>2
<1>3. Within(w.out, S) /\ Within(<<i>>, S) /\ Within(<<>>, O)
  BY DEF Within
<1>4. both \in Seq(Nat) /\ Within(both, S) /\ Len(w.sent) <= Len(both)
  BY <1>1, <1>3, WithinConcat
<1>5. /\ both \o <<i>> \in Seq(Nat) /\ Within(both \o <<i>>, S)
      /\ Len(both) <= Len(both \o <<i>>)
  BY <1>1, <1>3, <1>4, WithinConcat
<1>6. Within(Append(w.out, i), O) \/ kind # "output"
  BY <1>1, WithinAppend
<1>7. Len(w.sent) <= Len(both \o <<i>>)
  <2>1. Len(w.sent) \in Nat /\ Len(both) \in Nat /\ Len(both \o <<i>>) \in Nat
    BY <1>1, <1>4, <1>5, LenProperties
  <2>2. \A a, b, c \in Nat : a <= b /\ b <= c => a <= c
    OBVIOUS
  <2>. QED BY <1>4, <1>5, <2>1, <2>2, Zenon
<1>. HIDE DEF v, both
<1>8. /\ Within(v.sent, S) /\ Within(v.out, O)
      /\ v.sent = w.sent \/ (w.conn = "open" /\ Len(w.sent) <= Len(v.sent))
  BY <1>2, <1>3, <1>4, <1>5, <1>6, <1>7
<1>. QED BY <1>8 DEF v

\* And a flush.
LEMMA FlushKeepsNames ==
    ASSUME NEW w \in SenderStates, NEW S, Within(w.sent, S), Within(w.out, S)
    PROVE  /\ Within(Flush(w).sent, S)
           /\ \/ Flush(w).sent = w.sent
              \/ w.conn = "open" /\ Len(w.sent) <= Len(Flush(w).sent)
<1>. DEFINE v == Flush(w)
            both == w.sent \o w.out
<1>1. w.sent \in Seq(Nat) /\ w.out \in Seq(Nat)
  BY DEF SenderStates
<1>2. v.sent = w.sent \/ (v.sent = both /\ w.conn = "open")
  BY FlushFacts
<1>3. Within(both, S) /\ Len(w.sent) <= Len(both)
  BY <1>1, WithinConcat
<1>. HIDE DEF v, both
<1>4. /\ Within(v.sent, S)
      /\ v.sent = w.sent \/ (w.conn = "open" /\ Len(w.sent) <= Len(v.sent))
  BY <1>2, <1>3
<1>. QED BY <1>4 DEF v

-----------------------------------------------------------------------------
(* What one step hands to one client.                                       *)

\* Nothing, or more, and then only to an open socket past its snapshot.
Given(x) ==
    \/ sent'[x] = sent[x]
    \/ /\ conn[x] = "open" /\ pc[x] \in {"frames", "replay", "live"}
       /\ Len(sent[x]) <= Len(sent'[x])

LogGoesOn ==
    /\ Len(log) <= Len(log')
    /\ \A i \in 1..Len(log) : log'[i] = log[i]

\* What named messages of the log still does.
LEMMA NamesStay ==
    ASSUME TypeOK, NEW x \in Sockets, NamedAt(x), LogGoesOn, Len(log') \in Nat
    PROVE  /\ Within(sent[x], 0..Len(log'))
           /\ Within(pendingOutput[x], Outputs')
           /\ Within(pendingMessages[x], 1..Len(log'))
           /\ Outputs' \subseteq 0..Len(log')
<1>1. Len(log) \in Nat
  BY DEF TypeOK
<1>2. /\ 0..Len(log) \subseteq 0..Len(log') /\ 1..Len(log) \subseteq 1..Len(log')
  BY <1>1 DEF LogGoesOn
<1>3. Outputs \subseteq Outputs'
  BY <1>2 DEF LogGoesOn, Outputs
<1>4. Outputs' \subseteq 0..Len(log')
  BY DEF Outputs
<1>. QED BY <1>2, <1>3, <1>4 DEF NamedAt, Within

\* A step that sends x nothing: its sender keeps or drops what it holds.
LEMMA NothingGiven ==
    ASSUME TypeOK, NEW x \in Sockets, NamedAt(x), log' = log, sent'[x] = sent[x],
           pendingOutput'[x] \in {pendingOutput[x], <<>>},
           pendingMessages'[x] = pendingMessages[x]
    PROVE  NamedAt(x)' /\ Given(x)
<1>1. Outputs' = Outputs
  BY DEF Outputs
<1>2. Within(<<>>, Outputs)
  BY DEF Within
<1>. QED BY <1>1, <1>2 DEF NamedAt, Given

\* The log after a message is published.
LEMMA PublishedLog ==
    ASSUME TypeOK, NEW kind \in Kinds, Publish(kind)
    PROVE  /\ Len(log) \in Nat /\ Len(log') = Len(log) + 1
           /\ log' = Append(log, kind)
           /\ LogGoesOn /\ log'[Len(log) + 1] = kind
<1>1. log \in Seq(Kinds) /\ log' = Append(log, kind)
  BY DEF TypeOK, Publish
<1>2. /\ Len(log) \in Nat /\ Len(log') = Len(log) + 1 /\ log'[Len(log) + 1] = kind
      /\ \A i \in 1..Len(log) : log'[i] = log[i]
  BY <1>1
<1>. QED BY <1>1, <1>2 DEF LogGoesOn

\* A published message reaches only who is subscribed.
LEMMA PublishGiven ==
    ASSUME TypeOK, TypeOK', NEW x \in Sockets, NamedAt(x), NEW kind \in Kinds, Publish(kind)
    PROVE  NamedAt(x)' /\ Given(x)
<1>. DEFINE n == Len(log) + 1
            w == Sender(x)
<1>1. /\ n \in Nat /\ Len(log') = n /\ LogGoesOn /\ log'[n] = kind
  BY PublishedLog
<1>2. /\ Within(sent[x], 0..Len(log')) /\ Within(pendingOutput[x], Outputs')
      /\ Within(pendingMessages[x], 1..Len(log')) /\ Outputs' \subseteq 0..Len(log')
  BY <1>1, NamesStay
<1>3. /\ w \in SenderStates /\ w.out = pendingOutput[x] /\ w.sent = sent[x]
      /\ w.conn = conn[x]
  BY SenderType
<1>4. /\ n \in 0..Len(log') /\ n \in 1..Len(log') /\ (kind = "output" => n \in Outputs')
  BY <1>1 DEF Outputs
<1>5. Within(pendingMessages'[x], 1..Len(log'))
  <2>1. pendingMessages'[x] \in {pendingMessages[x], Append(pendingMessages[x], n)}
    BY DEF Publish
  <2>2. pendingMessages[x] \in Seq(Nat)
    BY DEF TypeOK
  <2>3. Within(Append(pendingMessages[x], n), 1..Len(log'))
    BY <1>1, <1>2, <1>4, <2>2, WithinAppend
  <2>. QED BY <1>2, <2>1, <2>3
<1>6. CASE x \in subscribers /\ SnapshotSent(x)
  <2>1. sent'[x] = Send(w, n, kind).sent /\ pendingOutput'[x] = Send(w, n, kind).out
    BY <1>6 DEF Publish, SendTo
  <2>2. Within(w.sent, 0..Len(log')) /\ Within(w.out, Outputs') /\ n \in (0..Len(log')) \cap Nat
    BY <1>1, <1>2, <1>3, <1>4
  <2>. HIDE DEF n, w
  <2>3. /\ Within(Send(w, n, kind).sent, 0..Len(log'))
        /\ Within(Send(w, n, kind).out, Outputs')
        /\ \/ Send(w, n, kind).sent = w.sent
           \/ w.conn = "open" /\ Len(w.sent) <= Len(Send(w, n, kind).sent)
    BY <1>2, <1>3, <1>4, <2>2, SendKeepsNames
  <2>. QED BY <1>3, <1>5, <1>6, <2>1, <2>3 DEF NamedAt, Given, SnapshotSent
<1>7. CASE ~(x \in subscribers /\ SnapshotSent(x))
  <2>1. sent'[x] = sent[x] /\ pendingOutput'[x] = pendingOutput[x]
    BY <1>7 DEF Publish, SendTo
  <2>. QED BY <1>2, <1>5, <2>1 DEF NamedAt, Given
<1>. QED BY <1>6, <1>7

\* One message given to the sender of a handler past its snapshot's start.
LEMMA SendGiven ==
    ASSUME TypeOK, NEW x \in Sockets, NamedAt(x), pc[x] \in {"frames", "replay", "live"},
           NEW i \in 0..Len(log), NEW kind, SendTo({x}, i, kind),
           kind = "output" => i \in Outputs
    PROVE  /\ Within(sent'[x], 0..Len(log)) /\ Within(pendingOutput'[x], Outputs)
           /\ Given(x)
<1>. DEFINE w == Sender(x)
<1>1. /\ w \in SenderStates /\ w.out = pendingOutput[x] /\ w.sent = sent[x]
      /\ w.conn = conn[x]
  BY SenderType
<1>2. Len(log) \in Nat
  BY DEF TypeOK
<1>3. /\ Outputs \subseteq 0..Len(log) /\ i \in (0..Len(log)) \cap Nat
  BY <1>2 DEF Outputs
<1>4. sent'[x] = Send(w, i, kind).sent /\ pendingOutput'[x] = Send(w, i, kind).out
  BY DEF SendTo
<1>5. Within(w.sent, 0..Len(log)) /\ Within(w.out, Outputs)
  BY <1>1 DEF NamedAt
<1>. HIDE DEF w
<1>6. /\ Within(Send(w, i, kind).sent, 0..Len(log))
      /\ Within(Send(w, i, kind).out, Outputs)
      /\ \/ Send(w, i, kind).sent = w.sent
         \/ w.conn = "open" /\ Len(w.sent) <= Len(Send(w, i, kind).sent)
  BY <1>1, <1>3, <1>5, SendKeepsNames
<1>. QED BY <1>1, <1>4, <1>6 DEF Given

\* The snapshot.
LEMMA SnapshotGiven ==
    ASSUME TypeOK, NEW x \in Sockets, NamedAt(x), SendsSnapshot(x)
    PROVE  NamedAt(x)' /\ Given(x)
<1>1. /\ pc[x] = "frames" /\ SendTo({x}, 0, "snapshot")
      /\ log' = log /\ pendingMessages' = pendingMessages
  BY DEF SendsSnapshot, recordVars
<1>2. 0 \in 0..Len(log)
  BY DEF TypeOK
<1>3. /\ Within(sent'[x], 0..Len(log)) /\ Within(pendingOutput'[x], Outputs)
      /\ Given(x)
  BY <1>1, <1>2, SendGiven
<1>. QED BY <1>1, <1>3 DEF NamedAt, Outputs

\* A message that waited for the snapshot.
LEMMA ReplayGiven ==
    ASSUME TypeOK, NEW x \in Sockets, NamedAt(x), ReplaysMessage(x)
    PROVE  NamedAt(x)' /\ Given(x)
<1>. DEFINE i == Head(pendingMessages[x])
<1>1. /\ pc[x] = "replay" /\ SendTo({x}, i, log[i]) /\ log' = log
      /\ pendingMessages[x] # <<>> /\ pendingMessages'[x] = Tail(pendingMessages[x])
  BY DEF ReplaysMessage, recordVars, TypeOK
<1>2. /\ i \in 1..Len(log) /\ Within(Tail(pendingMessages[x]), 1..Len(log))
  <2>1. pendingMessages[x] \in Seq(Nat)
    BY DEF TypeOK
  <2>. QED BY <1>1, <2>1, WithinTail DEF NamedAt
<1>3. i \in 0..Len(log) /\ (log[i] = "output" => i \in Outputs)
  BY <1>2 DEF Outputs
<1>. HIDE DEF i
<1>4. /\ Within(sent'[x], 0..Len(log)) /\ Within(pendingOutput'[x], Outputs)
      /\ Given(x)
  BY <1>1, <1>3, SendGiven
<1>. QED BY <1>1, <1>2, <1>4 DEF NamedAt, Outputs

\* What waited for the tick.
LEMMA FlushGiven ==
    ASSUME TypeOK, NEW x \in Sockets, NamedAt(x), StreamAt(x), Flushes(x)
    PROVE  NamedAt(x)' /\ Given(x)
<1>. DEFINE w == Sender(x)
<1>1. /\ w \in SenderStates /\ w.out = pendingOutput[x] /\ w.sent = sent[x]
      /\ w.conn = conn[x]
  BY SenderType
<1>2. /\ pendingOutput[x] # <<>> /\ log' = log /\ pendingMessages' = pendingMessages
      /\ pendingOutput'[x] = <<>> /\ sent'[x] = Flush(w).sent
  BY DEF Flushes, recordVars, TypeOK
<1>3. pc[x] \in {"replay", "live"}
  BY <1>2 DEF StreamAt, SnapshotSent
<1>4. Within(w.sent, 0..Len(log)) /\ Within(w.out, 0..Len(log)) /\ Within(<<>>, Outputs)
  <2>1. Outputs \subseteq 0..Len(log)
    BY DEF TypeOK, Outputs
  <2>2. Within(sent[x], 0..Len(log)) /\ Within(pendingOutput[x], Outputs)
    BY DEF NamedAt
  <2>3. Within(pendingOutput[x], 0..Len(log))
    BY <2>1, <2>2, WithinSubset
  <2>4. Within(<<>>, Outputs)
    BY DEF Within
  <2>. QED BY <1>1, <2>2, <2>3, <2>4
<1>. HIDE DEF w
<1>5. /\ Within(Flush(w).sent, 0..Len(log))
      /\ \/ Flush(w).sent = w.sent
         \/ w.conn = "open" /\ Len(w.sent) <= Len(Flush(w).sent)
  BY <1>1, <1>4, FlushKeepsNames
<1>. QED BY <1>1, <1>2, <1>3, <1>4, <1>5 DEF NamedAt, Given, Outputs

\* Every step keeps the names, and gives every client nothing or more.
LEMMA NextNamed ==
    TypeOK /\ TypeOK' /\ StreamInv /\ NamedInv /\ [Next]_vars
        => NamedInv' /\ \A x \in Sockets : Given(x)
<1>. SUFFICES ASSUME TypeOK, TypeOK', StreamInv, NamedInv, [Next]_vars, NEW x \in Sockets
              PROVE  NamedAt(x)' /\ Given(x)
  BY DEF NamedInv
<1>. USE DEF recordVars, mirrorVars, attachVars, senderVars, aliveVars, frameVars
<1>1. NamedAt(x) /\ StreamAt(x)
  BY DEF NamedInv, StreamInv
<1>2. ASSUME log' = log, sent'[x] = sent[x], pendingMessages'[x] = pendingMessages[x],
             pendingOutput'[x] \in {pendingOutput[x], <<>>}
      PROVE  NamedAt(x)' /\ Given(x)
  BY <1>1, <1>2, NothingGiven
<1>3. CASE DataArrives \/ PtyExits \/ CwdChanges
  <2>1. PICK kind \in Kinds : Publish(kind)
    BY <1>3 DEF DataArrives, PtyExits, CwdChanges, Kinds
  <2>. QED BY <1>1, <2>1, PublishGiven
<1>4. ASSUME FrameEffect PROVE NamedAt(x)' /\ Given(x)
  <2>1. CASE Publish("terminal_updated")
    BY <1>1, <2>1, PublishGiven DEF Kinds
  <2>2. CASE UNCHANGED <<log, pendingMessages, senderVars, conn>>
    BY <1>2, <2>2
  <2>. QED BY <1>4, <2>1, <2>2 DEF FrameEffect
<1>5. CASE CloseTerminal \/ MirrorParses
  BY <1>2, <1>5 DEF CloseTerminal, MirrorParses
<1>6. ASSUME NEW s \in Sockets, SyncStep(s) PROVE NamedAt(x)' /\ Given(x)
  <2>1. CASE HandlesBufferedFrame(s)
    BY <1>4, <2>1 DEF HandlesBufferedFrame
  <2>2. CASE SendsSnapshot(s)
    <3>1. CASE x = s
      BY <1>1, <2>2, <3>1, SnapshotGiven
    <3>2. CASE x # s
      BY <1>2, <2>2, <3>2 DEF SendsSnapshot, SendTo, TypeOK
    <3>. QED BY <3>1, <3>2
  <2>3. CASE ReplaysMessage(s)
    <3>1. CASE x = s
      BY <1>1, <2>3, <3>1, ReplayGiven
    <3>2. CASE x # s
      BY <1>2, <2>3, <3>2 DEF ReplaysMessage, SendTo, TypeOK
    <3>. QED BY <3>1, <3>2
  <2>4. CASE GoesLive(s)
    BY <1>2, <2>4 DEF GoesLive
  <2>. QED BY <1>6, <2>1, <2>2, <2>3, <2>4 DEF SyncStep
<1>7. ASSUME NEW s \in Sockets, FrameArrives(s) PROVE NamedAt(x)' /\ Given(x)
  BY <1>2, <1>4, <1>7 DEF FrameArrives
<1>8. ASSUME NEW s \in Sockets, Flushes(s) PROVE NamedAt(x)' /\ Given(x)
  <2>1. CASE x = s
    BY <1>1, <1>8, <2>1, FlushGiven
  <2>2. CASE x # s
    BY <1>2, <1>8, <2>2 DEF Flushes, TypeOK
  <2>. QED BY <2>1, <2>2
<1>9. ASSUME NEW s \in Sockets,
             \/ Connect(s) \/ AuthRefused(s) \/ AuthAccepted(s) \/ AttachReturns(s)
             \/ HandlerNotFound(s) \/ HandlerClosed(s) \/ HandlerResumes(s)
      PROVE  NamedAt(x)' /\ Given(x)
  BY <1>2, <1>9 DEF Connect, AuthRefused, AuthAccepted, AttachReturns, HandlerNotFound,
                    HandlerClosed, HandlerResumes, TypeOK
<1>10. ASSUME NEW s \in Sockets,
              \/ HeartbeatTicks(s) \/ PongArrives(s) \/ SocketDrains(s) \/ PeerCloses(s)
              \/ PeerVanishes(s) \/ SessionRevoked(s) \/ SocketCloses(s)
       PROVE  NamedAt(x)' /\ Given(x)
  BY <1>2, <1>10 DEF HeartbeatTicks, PongArrives, SocketDrains, PeerCloses, PeerVanishes,
                     SessionRevoked, SocketCloses, TypeOK
<1>11. CASE UNCHANGED vars
  BY <1>2, <1>11 DEF vars
<1>. QED
  BY <1>3, <1>5, <1>6, <1>7, <1>8, <1>9, <1>10, <1>11
  DEF Next, TerminalStep, ServerStep, ClientStep

-----------------------------------------------------------------------------
(* The feed.                                                                *)

\* A handler that neither begins to listen nor comes back.
Stays(x) ==
    /\ start'[x] = start[x]
    /\ Listening(x)' = Listening(x)
    /\ Listening(x) /\ conn'[x] = "open" => conn[x] = "open"
    /\ pc[x] \in {"notFound", "done"} => pc'[x] \in {"notFound", "done"}

\* A socket's readyState never goes back to open by sending.
LEMMA SendToCloses ==
    ASSUME TypeOK, NEW x \in Sockets, NEW S, NEW i \in Nat, NEW kind, SendTo(S, i, kind)
    PROVE  conn'[x] = "open" => conn[x] = "open"
<1>. DEFINE w == Sender(x)
<1>1. w \in SenderStates /\ w.conn = conn[x]
  BY SenderType
<1>2. conn'[x] = Send(w, i, kind).conn \/ conn'[x] = conn[x]
  BY DEF SendTo
<1>. HIDE DEF w
<1>3. Send(w, i, kind).conn = w.conn \/ (w.conn = "open" /\ Send(w, i, kind).conn = "closing")
  BY <1>1, SendFacts
<1>. QED BY <1>1, <1>2, <1>3

\* Every step but the one that subscribes a handler leaves every client where
\* it is, or lets it leave.
LEMMA NextStays ==
    ASSUME TypeOK, TypeOK', ControlInv, [Next]_vars, ~ \E s \in Sockets : AuthAccepted(s),
           NEW x \in Sockets
    PROVE  Stays(x)
<1>. USE DEF recordVars, mirrorVars, attachVars, senderVars, aliveVars, frameVars
<1>1. ASSUME start' = start, pc' = pc, conn'[x] = "open" => conn[x] = "open"
      PROVE  Stays(x)
  BY <1>1 DEF Stays, Listening
<1>2. ASSUME NEW kind, Publish(kind) PROVE conn'[x] = "open" => conn[x] = "open"
  <2>1. Len(log) + 1 \in Nat
    BY DEF TypeOK
  <2>2. SendTo({s \in subscribers : SnapshotSent(s)}, Len(log) + 1, kind)
    BY <1>2 DEF Publish
  <2>. QED BY <2>1, <2>2, SendToCloses
<1>3. CASE DataArrives \/ PtyExits \/ CwdChanges
  <2>1. PICK kind : Publish(kind)
    BY <1>3 DEF DataArrives, PtyExits, CwdChanges
  <2>. QED BY <1>1, <1>2, <1>3, <2>1 DEF DataArrives, PtyExits, CwdChanges
<1>4. CASE CloseTerminal
  BY <1>1, <1>4 DEF CloseTerminal
<1>5. CASE MirrorParses
  <2>1. /\ start' = start /\ conn' = conn /\ queue # <<>>
    BY <1>5 DEF MirrorParses
  <2>2. CASE UNCHANGED pc
    BY <1>1, <2>1, <2>2
  <2>3. CASE /\ Head(queue).type = "sentinel"
             /\ pc' = [pc EXCEPT ![Head(queue).socket] = "resolved"]
    <3>1. 1 \in 1..Len(queue) /\ Head(queue) = queue[1]
      BY <2>1 DEF TypeOK
    <3>2. pc[Head(queue).socket] = "attaching"
      BY <2>3, <3>1 DEF ControlInv, QueueInv
    <3>3. pc'[x] = pc[x] \/ (pc[x] = "attaching" /\ pc'[x] = "resolved")
      BY <2>3, <3>2 DEF TypeOK
    <3>. QED BY <2>1, <3>3 DEF Stays, Listening
  <2>. QED BY <1>5, <2>2, <2>3 DEF MirrorParses
<1>6. ASSUME FrameEffect PROVE conn'[x] = "open" => conn[x] = "open"
  BY <1>2, <1>6 DEF FrameEffect
<1>7. ASSUME NEW s \in Sockets, SyncStep(s) PROVE Stays(x)
  <2>1. CASE HandlesBufferedFrame(s)
    BY <1>1, <1>6, <2>1 DEF HandlesBufferedFrame
  <2>2. CASE SendsSnapshot(s)
    <3>1. conn'[x] = "open" => conn[x] = "open"
      BY <2>2, SendToCloses, 0 \in Nat DEF SendsSnapshot
    <3>. QED BY <2>2, <3>1 DEF SendsSnapshot, Stays, Listening, TypeOK
  <2>3. CASE ReplaysMessage(s)
    <3>1. Head(pendingMessages[s]) \in Nat
      <4>1. pendingMessages[s] \in Seq(Nat) /\ pendingMessages[s] # <<>>
        BY <2>3 DEF ReplaysMessage, TypeOK
      <4>. QED BY <4>1
    <3>2. conn'[x] = "open" => conn[x] = "open"
      BY <2>3, <3>1, SendToCloses DEF ReplaysMessage
    <3>. QED BY <1>1, <2>3, <3>2 DEF ReplaysMessage
  <2>4. CASE GoesLive(s)
    BY <2>4 DEF GoesLive, Stays, Listening, TypeOK
  <2>. QED BY <1>7, <2>1, <2>2, <2>3, <2>4 DEF SyncStep
<1>8. ASSUME NEW s \in Sockets, FrameArrives(s) PROVE Stays(x)
  BY <1>1, <1>6, <1>8 DEF FrameArrives
<1>9. ASSUME NEW s \in Sockets, Flushes(s) PROVE Stays(x)
  <2>1. conn'[x] = "open" => conn[x] = "open"
    <3>1. CASE x = s
      <4>1. Sender(s) \in SenderStates /\ Sender(s).conn = conn[s]
        BY SenderType
      <4>2. \/ Flush(Sender(s)).conn = conn[s]
            \/ conn[s] = "open" /\ Flush(Sender(s)).conn = "closing"
        BY <4>1, FlushFacts
      <4>. QED BY <1>9, <3>1, <4>2 DEF Flushes, TypeOK
    <3>2. CASE x # s
      BY <1>9, <3>2 DEF Flushes, TypeOK
    <3>. QED BY <3>1, <3>2
  <2>. QED BY <1>1, <1>9, <2>1 DEF Flushes
<1>10. ASSUME NEW s \in Sockets,
              \/ Connect(s) \/ AuthRefused(s) \/ AttachReturns(s)
              \/ HandlerNotFound(s) \/ HandlerClosed(s) \/ HandlerResumes(s)
       PROVE  Stays(x)
  <2>1. start' = start
    BY <1>10 DEF Connect, AuthRefused, AttachReturns, HandlerNotFound, HandlerClosed,
                 HandlerResumes
  <2>2. CASE Connect(s)
    BY <2>1, <2>2 DEF Connect, Stays, Listening, TypeOK
  <2>3. CASE AuthRefused(s)
    BY <2>1, <2>3 DEF AuthRefused, Stays, Listening, TypeOK
  <2>4. CASE AttachReturns(s)
    BY <2>1, <2>4 DEF AttachReturns, Stays, Listening, TypeOK
  <2>5. CASE HandlerNotFound(s)
    BY <2>1, <2>5 DEF HandlerNotFound, Stays, Listening, TypeOK
  <2>6. CASE HandlerClosed(s) \/ HandlerResumes(s)
    BY <2>1, <2>6 DEF HandlerClosed, HandlerResumes, Stays, Listening, TypeOK
  <2>. QED BY <1>10, <2>2, <2>3, <2>4, <2>5, <2>6
<1>11. ASSUME NEW s \in Sockets,
              \/ HeartbeatTicks(s) \/ PongArrives(s) \/ SocketDrains(s) \/ PeerCloses(s)
              \/ PeerVanishes(s) \/ SessionRevoked(s) \/ SocketCloses(s)
       PROVE  Stays(x)
  BY <1>1, <1>11 DEF HeartbeatTicks, PongArrives, SocketDrains, PeerCloses, PeerVanishes,
                     SessionRevoked, SocketCloses, TypeOK
<1>12. CASE UNCHANGED vars
  BY <1>1, <1>12 DEF vars
<1>. QED
  BY <1>3, <1>4, <1>5, <1>7, <1>8, <1>9, <1>10, <1>11, <1>12
  DEF Next, TerminalStep, ServerStep, ClientStep

\* At most one message is published.
LEMMA NextLog ==
    TypeOK /\ [Next]_vars => log' = log \/ \E k \in Kinds : log' = Append(log, k)
<1>. SUFFICES ASSUME TypeOK, [Next]_vars
              PROVE  log' = log \/ \E k \in Kinds : log' = Append(log, k)
  OBVIOUS
<1>. USE DEF recordVars, senderVars
<1>1. CASE DataArrives \/ PtyExits \/ CwdChanges
  BY <1>1 DEF DataArrives, PtyExits, CwdChanges, Publish, Kinds
<1>2. CASE CloseTerminal \/ MirrorParses \/ UNCHANGED vars
  BY <1>2 DEF CloseTerminal, MirrorParses, vars
<1>3. ASSUME FrameEffect PROVE log' = log \/ log' = Append(log, "terminal_updated")
  BY <1>3 DEF FrameEffect, Publish
<1>4. ASSUME NEW s \in Sockets, SyncStep(s)
      PROVE  log' = log \/ log' = Append(log, "terminal_updated")
  BY <1>3, <1>4 DEF SyncStep, HandlesBufferedFrame, SendsSnapshot, ReplaysMessage, GoesLive
<1>5. ASSUME NEW s \in Sockets, FrameArrives(s)
      PROVE  log' = log \/ log' = Append(log, "terminal_updated")
  BY <1>3, <1>5 DEF FrameArrives
<1>6. ASSUME NEW s \in Sockets, ServerStep(s) PROVE log' = log
  BY <1>6 DEF ServerStep, AuthRefused, AuthAccepted, AttachReturns, HandlerNotFound,
              HandlerClosed, HandlerResumes, Flushes, HeartbeatTicks, SocketCloses
<1>7. ASSUME NEW s \in Sockets,
             \/ Connect(s) \/ PongArrives(s) \/ SocketDrains(s) \/ PeerCloses(s)
             \/ PeerVanishes(s) \/ SessionRevoked(s)
      PROVE  log' = log
  BY <1>7 DEF Connect, PongArrives, SocketDrains, PeerCloses, PeerVanishes, SessionRevoked
<1>. QED
  BY <1>1, <1>2, <1>4, <1>5, <1>6, <1>7 DEF Next, TerminalStep, ClientStep, Kinds

\* A run of named messages is a window of the feed, and no longer than it.
LEMMA RunIsWindow ==
    ASSUME NEW b \in Nat, NEW n \in Nat, b <= n, NEW q \in Seq(Nat), Run(b, q),
           Within(q, 0..n)
    PROVE  Len(q) <= n - b + 1 /\ q = Feed!Window(b, Len(q))
<1>. DEFINE m == Len(q)
<1>1. m \in Nat /\ q = [j \in 1..m |-> q[j]]
  BY LenProperties
<1>2. \A j \in 1..m : q[j] = (IF j = 1 THEN 0 ELSE b + j - 1) /\ q[j] \in 0..n
  BY DEF Run, Within
<1>. HIDE DEF m
<1>3. m <= n - b + 1
  <2>1. CASE m <= 1
    BY <1>1, <2>1
  <2>2. CASE m > 1
    <3>1. m \in 1..m /\ m # 1
      BY <1>1, <2>2
    <3>2. b + m - 1 <= n
      BY <1>2, <3>1
    <3>. QED BY <1>1, <3>2
  <2>. QED BY <1>1, <2>1, <2>2
<1>4. q = Feed!Window(b, m)
  <2>1. Feed!Window(b, m) = [j \in 1..m |-> IF j = 1 THEN 0 ELSE b + j - 1]
    BY DEF Feed!Window
  <2>2. [j \in 1..m |-> q[j]] = [j \in 1..m |-> IF j = 1 THEN 0 ELSE b + j - 1]
    BY <1>2
  <2>. QED BY <1>1, <2>1, <2>2
<1>. QED BY <1>3, <1>4 DEF m

\* A handler that calls attachTerminal joins.
LEMMA SubscribeJoins ==
    ASSUME TypeOK, NEW s \in Sockets, AuthAccepted(s)
    PROVE  Feed!Join(s)
<1>1. /\ pc[s] = "auth" /\ start' = [start EXCEPT ![s] = Len(log)]
      /\ UNCHANGED <<log, sent, conn>>
      /\ \E p \in {"notFound", "attaching", "resolved"} : pc' = [pc EXCEPT ![s] = p]
  BY DEF AuthAccepted, senderVars
<1>. DEFINE state == [x \in Sockets |-> FeedState(x)]
            stateNext == [x \in Sockets |-> FeedState(x)']
<1>2. FeedState(s) = "absent" /\ FeedState(s)' \in {"watching", "left"}
  BY <1>1 DEF FeedState, Listening, TypeOK
<1>3. ASSUME NEW x \in Sockets, x # s PROVE FeedState(x)' = FeedState(x)
  BY <1>1, <1>3 DEF FeedState, Listening, TypeOK
<1>4. stateNext = [state EXCEPT ![s] = FeedState(s)']
  BY <1>3
<1>. QED BY <1>1, <1>2, <1>4 DEF Feed!Join

\* Every other step is an advance of the feed.
LEMMA OthersAdvance ==
    ASSUME TypeOK, TypeOK', StreamInv', NamedInv',
           log' = log \/ \E k \in Kinds : log' = Append(log, k),
           \A x \in Sockets : Given(x) /\ Stays(x)
    PROVE  Feed!Advance
<1>1. start' = start
  BY DEF Stays, TypeOK
<1>2. sent' \in [Sockets -> Seq(Nat)]
  BY DEF TypeOK
<1>. DEFINE state == [x \in Sockets |-> FeedState(x)]
<1>3. ASSUME NEW x \in Sockets PROVE Feed!MayGive(x)
  <2>1. CASE sent'[x] = sent[x]
    BY <2>1 DEF Feed!MayGive
  <2>2. CASE /\ conn[x] = "open" /\ pc[x] \in {"frames", "replay", "live"}
             /\ Len(sent[x]) <= Len(sent'[x])
    <3>1. state[x] = "watching"
      BY <2>2 DEF FeedState, Listening
    <3>2. /\ start[x] \in Nat /\ Len(log') \in Nat /\ start[x] <= Len(log')
          /\ sent'[x] \in Seq(Nat) /\ sent[x] \in Seq(Nat)
          /\ Run(start[x], sent'[x]) /\ Within(sent'[x], 0..Len(log'))
      BY <1>1 DEF TypeOK, StreamInv, StreamAt, NamedInv, NamedAt
    <3>3. /\ Len(sent'[x]) <= Len(log') - start[x] + 1
          /\ sent'[x] = Feed!Window(start[x], Len(sent'[x]))
      BY <3>2, RunIsWindow
    <3>4. Len(sent'[x]) \in Len(sent[x])..(Len(log') - start[x] + 1)
      <4>1. Len(sent'[x]) \in Nat /\ Len(sent[x]) \in Nat
        BY <3>2, LenProperties
      <4>. QED BY <2>2, <3>2, <3>3, <4>1
    <3>. QED BY <3>1, <3>3, <3>4 DEF Feed!MayGive
  <2>. QED BY <2>1, <2>2 DEF Given
<1>4. ASSUME NEW x \in Sockets PROVE Feed!MayLeave(x)
  <2>1. \/ FeedState(x)' = FeedState(x)
        \/ FeedState(x) = "watching" /\ FeedState(x)' = "left"
    BY DEF FeedState, Stays
  <2>. QED BY <2>1 DEF Feed!MayLeave
<1>. QED BY <1>1, <1>2, <1>3, <1>4 DEF Feed!Advance

\* For its clients a terminal is one feed: whoever attaches is handed the
\* snapshot and then the messages published since, each once, in order, and
\* nothing once his socket began to close.
THEOREM StreamImplementsFeed == Spec => ImplementsFeed
<1>1. Init => Feed!Init
  BY DEF Init, Feed!Init, FeedState, Listening
<1>2. Init => NamedInv
  BY DEF Init, NamedInv, NamedAt, Within
<1>3. ASSUME TypeOK, TypeOK', ControlInv, StreamInv, StreamInv', NamedInv, [Next]_vars
      PROVE  NamedInv' /\ [Feed!Next]_(Feed!vars)
  <2>1. NamedInv' /\ \A x \in Sockets : Given(x)
    BY <1>3, NextNamed
  <2>2. CASE \E s \in Sockets : AuthAccepted(s)
    BY <1>3, <2>1, <2>2, SubscribeJoins DEF Feed!Next
  <2>3. CASE ~ \E s \in Sockets : AuthAccepted(s)
    <3>1. \A x \in Sockets : Stays(x)
      BY <1>3, <2>3, NextStays
    <3>2. Feed!Advance
      BY <1>3, <2>1, <3>1, NextLog, OthersAdvance
    <3>. QED BY <2>1, <3>2 DEF Feed!Next
  <2>. QED BY <2>2, <2>3
<1>. QED BY <1>1, <1>2, <1>3, StreamInvariant, PTL DEF Spec, ImplementsFeed, Feed!Spec

-----------------------------------------------------------------------------
(* The exit.                                                                *)

Attached == {"attached", "frames", "replay", "live"}

\* The log has an exit exactly when the shell has exited; a client attached to
\* a shell that was still running has it before him.
ExitInv ==
    /\ status = "running" => \A i \in 1..Len(log) : log[i] # "exit"
    /\ status = "exited" => \E i \in 1..Len(log) : log[i] = "exit"
    /\ \A x \in Sockets :
          pc[x] \in Attached /\ attachedStatus[x] # "exited" =>
              \A i \in 1..start[x] : log[i] # "exit"

\* A step that leaves the status alone, publishes no exit, and attaches nobody.
LEMMA ExitKept ==
    ASSUME TypeOK, StreamInv, ExitInv, status' = status, attachedStatus' = attachedStatus,
           log' = log \/ \E k \in Kinds \ {"exit"} : log' = Append(log, k),
           \A x \in Sockets : pc'[x] \in Attached => pc[x] \in Attached /\ start'[x] = start[x]
    PROVE  ExitInv'
<1>1. /\ Len(log) \in Nat /\ LogGoesOn
      /\ \A i \in 1..Len(log') : log'[i] = "exit" => i \in 1..Len(log)
  <2>1. CASE log' = log
    BY <2>1 DEF LogGoesOn, TypeOK
  <2>2. ASSUME NEW k \in Kinds \ {"exit"}, log' = Append(log, k)
        PROVE  /\ Len(log) \in Nat /\ LogGoesOn
               /\ \A i \in 1..Len(log') : log'[i] = "exit" => i \in 1..Len(log)
    <3>1. /\ Len(log) \in Nat /\ Len(log') = Len(log) + 1 /\ log'[Len(log) + 1] = k
          /\ \A i \in 1..Len(log) : log'[i] = log[i]
      BY <2>2 DEF TypeOK
    <3>. QED BY <2>2, <3>1 DEF LogGoesOn
  <2>. QED BY <2>1, <2>2
<1>2. Len(log') \in Nat /\ 1..Len(log) \subseteq 1..Len(log')
  <2>1. Len(log') \in Nat
    BY DEF TypeOK
  <2>. QED BY <1>1, <2>1 DEF LogGoesOn
<1>3. status' = "running" => \A i \in 1..Len(log') : log'[i] # "exit"
  BY <1>1 DEF ExitInv, LogGoesOn
<1>4. status' = "exited" => \E i \in 1..Len(log') : log'[i] = "exit"
  BY <1>1, <1>2 DEF ExitInv, LogGoesOn
<1>5. ASSUME NEW x \in Sockets, pc'[x] \in Attached, attachedStatus'[x] # "exited",
             NEW i \in 1..start'[x]
      PROVE  log'[i] # "exit"
  <2>1. pc[x] \in Attached /\ i \in 1..start[x] /\ start[x] \in Nat /\ start[x] <= Len(log)
    BY <1>5 DEF TypeOK, StreamInv, StreamAt
  <2>2. i \in 1..Len(log)
    BY <1>1, <2>1
  <2>. QED BY <1>1, <1>5, <2>1, <2>2 DEF ExitInv, LogGoesOn
<1>. QED BY <1>3, <1>4, <1>5 DEF ExitInv

\* Every step keeps the exit in the log and before who attached to a running shell.
LEMMA NextExit == TypeOK /\ TypeOK' /\ StreamInv /\ ExitInv /\ [Next]_vars => ExitInv'
<1>. SUFFICES ASSUME TypeOK, TypeOK', StreamInv, ExitInv, [Next]_vars PROVE ExitInv'
  OBVIOUS
<1>. USE DEF recordVars, mirrorVars, attachVars, senderVars, aliveVars, frameVars
<1>1. ASSUME status' = status, attachedStatus' = attachedStatus, start' = start,
             log' = log \/ log' = Append(log, "output") \/ log' = Append(log, "terminal_updated"),
             \A x \in Sockets : pc'[x] \in Attached => pc[x] \in Attached
      PROVE  ExitInv'
  BY <1>1, ExitKept DEF Kinds
<1>2. CASE DataArrives \/ CwdChanges
  BY <1>1, <1>2 DEF DataArrives, CwdChanges, Publish
<1>3. CASE PtyExits
  <2>1. /\ status' = "exited" /\ Publish("exit")
        /\ UNCHANGED <<pc, start, attachedStatus>>
    BY <1>3 DEF PtyExits
  <2>2. /\ Len(log) \in Nat /\ Len(log') = Len(log) + 1 /\ log'[Len(log) + 1] = "exit"
        /\ \A i \in 1..Len(log) : log'[i] = log[i]
    BY <2>1, PublishedLog DEF Kinds, LogGoesOn
  <2>3. \E i \in 1..Len(log') : log'[i] = "exit"
    BY <2>2
  <2>4. ASSUME NEW x \in Sockets, pc'[x] \in Attached, attachedStatus'[x] # "exited",
               NEW i \in 1..start'[x]
        PROVE  log'[i] # "exit"
    <3>1. start[x] \in Nat /\ start[x] <= Len(log) /\ i \in 1..start[x]
      BY <2>1 DEF TypeOK, StreamInv, StreamAt
    <3>. QED BY <2>1, <2>2, <2>4, <3>1 DEF ExitInv
  <2>. QED BY <2>1, <2>3, <2>4 DEF ExitInv
<1>4. CASE CloseTerminal
  <2>1. /\ status' = "closed" /\ UNCHANGED <<log, pc, start, attachedStatus>>
    BY <1>4 DEF CloseTerminal
  <2>. QED BY <2>1 DEF ExitInv
<1>5. CASE MirrorParses
  <2>1. \A x \in Sockets : pc'[x] = pc[x] \/ pc'[x] = "resolved"
    BY <1>5 DEF MirrorParses, TypeOK
  <2>. QED BY <1>1, <1>5, <2>1 DEF MirrorParses, Attached
<1>6. ASSUME FrameEffect PROVE log' = log \/ log' = Append(log, "terminal_updated")
  BY <1>6 DEF FrameEffect, Publish
<1>7. ASSUME NEW s \in Sockets, SyncStep(s) PROVE ExitInv'
  <2>1. /\ status' = status /\ start' = start /\ attachedStatus' = attachedStatus
        /\ log' = log \/ log' = Append(log, "terminal_updated")
    BY <1>6, <1>7
    DEF SyncStep, HandlesBufferedFrame, SendsSnapshot, ReplaysMessage, GoesLive
  <2>2. pc' = pc \/ (pc[s] \in Attached /\ \E p \in Phases : pc' = [pc EXCEPT ![s] = p])
    BY <1>7 DEF SyncStep, HandlesBufferedFrame, SendsSnapshot, ReplaysMessage, GoesLive,
                Attached, Phases
  <2>3. \A x \in Sockets : pc'[x] \in Attached => pc[x] \in Attached
    BY <2>2 DEF TypeOK
  <2>. QED BY <1>1, <2>1, <2>3
<1>8. ASSUME NEW s \in Sockets, FrameArrives(s) PROVE ExitInv'
  BY <1>1, <1>6, <1>8 DEF FrameArrives
<1>9. ASSUME NEW s \in Sockets, AuthAccepted(s) PROVE ExitInv'
  <2>1. /\ UNCHANGED <<status, log, attachedStatus>>
        /\ \A x \in Sockets : x # s => pc'[x] = pc[x] /\ start'[x] = start[x]
        /\ pc'[s] \in {"notFound", "attaching", "resolved"}
    BY <1>9 DEF AuthAccepted, TypeOK
  <2>2. \A x \in Sockets : pc'[x] \in Attached => pc[x] \in Attached /\ start'[x] = start[x]
    BY <2>1 DEF Attached
  <2>. QED BY <2>1, <2>2, ExitKept
<1>10. ASSUME NEW s \in Sockets, AttachReturns(s) PROVE ExitInv'
  <2>1. CASE ~TerminalIsOpen
    <3>1. \A x \in Sockets : pc'[x] = pc[x] \/ pc'[x] = "notFound"
      BY <1>10, <2>1 DEF AttachReturns, TypeOK
    <3>. QED BY <1>1, <1>10, <2>1, <3>1 DEF AttachReturns, Attached
  <2>2. CASE TerminalIsOpen
    <3>1. /\ UNCHANGED <<status, log, start>> /\ status \in {"running", "exited"}
          /\ attachedStatus'[s] = status
          /\ \A x \in Sockets : x # s => pc'[x] = pc[x] /\ attachedStatus'[x] = attachedStatus[x]
      BY <1>10, <2>2 DEF AttachReturns, TerminalIsOpen, TypeOK
    <3>2. start[s] \in Nat /\ Len(log) \in Nat /\ start[s] <= Len(log)
      BY DEF TypeOK, StreamInv, StreamAt
    <3>3. attachedStatus'[s] # "exited" => \A i \in 1..start[s] : log[i] # "exit"
      BY <3>1, <3>2 DEF ExitInv
    <3>. QED BY <3>1, <3>3 DEF ExitInv
  <2>. QED BY <2>1, <2>2
<1>11. ASSUME NEW s \in Sockets,
              \/ Connect(s) \/ AuthRefused(s) \/ HandlerNotFound(s) \/ HandlerClosed(s)
              \/ HandlerResumes(s)
       PROVE  ExitInv'
  <2>1. UNCHANGED <<status, log, start, attachedStatus>>
    BY <1>11 DEF Connect, AuthRefused, HandlerNotFound, HandlerClosed, HandlerResumes
  <2>2. \A x \in Sockets : pc'[x] \in Attached => pc[x] \in Attached
    BY <1>11 DEF Connect, AuthRefused, HandlerNotFound, HandlerClosed, HandlerResumes,
                 Attached, TypeOK
  <2>. QED BY <1>1, <2>1, <2>2
<1>12. ASSUME NEW s \in Sockets,
              \/ Flushes(s) \/ HeartbeatTicks(s) \/ PongArrives(s) \/ SocketDrains(s)
              \/ PeerCloses(s) \/ PeerVanishes(s) \/ SessionRevoked(s) \/ SocketCloses(s)
       PROVE  ExitInv'
  BY <1>1, <1>12 DEF Flushes, HeartbeatTicks, PongArrives, SocketDrains, PeerCloses,
                     PeerVanishes, SessionRevoked, SocketCloses
<1>13. CASE UNCHANGED vars
  BY <1>1, <1>13 DEF vars
<1>. QED
  BY <1>2, <1>3, <1>4, <1>5, <1>7, <1>8, <1>9, <1>10, <1>11, <1>12, <1>13
  DEF Next, TerminalStep, ServerStep, ClientStep

\* Whoever watches a shell that has exited knows it: whenever the exit fell, it
\* is in the status his snapshot came with or among what he was sent.
THEOREM ExitIsAlwaysKnown == Spec => []ExitIsKnown
<1>1. Init => NamedInv /\ ExitInv
  BY DEF Init, NamedInv, NamedAt, Within, ExitInv, Attached
<1>2. ASSUME TypeOK, StreamInv, NamedInv, ExitInv, NEW s \in subscribers,
             pc[s] = "live", conn[s] = "open", status = "exited", attachedStatus[s] # "exited"
      PROVE  \E j \in 2..Len(sent[s]) : log[sent[s][j]] = "exit"
  <2>. DEFINE b == start[s]
              n == Len(sent[s])
              m == Len(pendingOutput[s])
  <2>1. /\ s \in Sockets /\ b \in Nat /\ n \in Nat /\ m \in Nat /\ Len(log) \in Nat
    BY <1>2 DEF TypeOK
  <2>2. /\ StreamAt(s) /\ NamedAt(s) /\ SnapshotSent(s)
    BY <1>2, <2>1 DEF StreamInv, NamedInv, SnapshotSent
  <2>3. /\ Run(b, sent[s]) /\ n >= 1 /\ Continues(b, n, pendingOutput[s])
        /\ n + m + Len(pendingMessages[s]) = Len(log) - b + 1
        /\ pendingMessages[s] = <<>>
    BY <1>2, <2>2 DEF StreamAt, Flowing, Ahead
  <2>4. n + m = Len(log) - b + 1
    <3>. DEFINE k == Len(pendingMessages[s])
    <3>1. k = 0 /\ n + m + k = Len(log) - b + 1
      BY <2>3
    <3>. HIDE DEF b, n, m, k
    <3>. QED BY <2>1, <3>1
  <2>5. PICK e \in 1..Len(log) : log[e] = "exit"
    BY <1>2 DEF ExitInv
  <2>6. e > b
    BY <1>2, <2>1, <2>5 DEF ExitInv, Attached
  <2>7. \A k \in 1..m : pendingOutput[s][k] = b + n + k - 1 /\ log[pendingOutput[s][k]] = "output"
    BY <2>2, <2>3 DEF Continues, NamedAt, Within, Outputs
  <2>8. \A j \in 1..n : sent[s][j] = IF j = 1 THEN 0 ELSE b + j - 1
    BY <2>3 DEF Run
  <2>. HIDE DEF b, n, m
  <2>9. e - b + 1 <= n
    <3>1. SUFFICES ASSUME e - b + 1 > n PROVE FALSE
      BY <2>1, <2>5
    <3>2. /\ e - b + 1 - n \in 1..m /\ b + n + (e - b + 1 - n) - 1 = e
      BY <2>1, <2>4, <2>5, <2>6, <3>1
    <3>. QED BY <2>5, <2>7, <3>2
  <2>10. e - b + 1 \in 2..n /\ sent[s][e - b + 1] = e
    BY <2>1, <2>5, <2>6, <2>8, <2>9
  <2>. QED BY <2>5, <2>10 DEF n
<1>3. TypeOK /\ StreamInv /\ NamedInv /\ ExitInv => ExitIsKnown
  BY <1>2 DEF ExitIsKnown
<1>4. TypeOK /\ TypeOK' /\ StreamInv /\ NamedInv /\ ExitInv /\ [Next]_vars
        => NamedInv' /\ ExitInv'
  BY NextNamed, NextExit
<1>. QED BY <1>1, <1>3, <1>4, StreamInvariant, PTL DEF Spec
=============================================================================
