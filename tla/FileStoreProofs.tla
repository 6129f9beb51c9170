--------------------------- MODULE FileStoreProofs ---------------------------
(***************************************************************************)
(* Theorems about FileStore, for every set of updates and readers and any  *)
(* number of crashes.                                                      *)
(***************************************************************************)
EXTENDS FileStore, TLAPS

\* Appending adds one element.
LEMMA RangeAppend ==
    ASSUME NEW S, NEW q \in Seq(S), NEW x \in S
    PROVE  Range(Append(q, x)) = Range(q) \union {x}
BY DEF Range

\* An element appended to a sequence without repetition, and not in it, leaves
\* it one.
LEMMA AppendDistinct ==
    ASSUME NEW S, NEW q \in Seq(S), NEW x \in S,
           \A i, j \in 1..Len(q) : q[i] = q[j] => i = j,
           x \notin Range(q)
    PROVE  \A i, j \in 1..Len(Append(q, x)) :
               Append(q, x)[i] = Append(q, x)[j] => i = j
BY DEF Range

\* The tail of a sequence without repetition is one, without the head.
LEMMA TailDistinct ==
    ASSUME NEW S, NEW q \in Seq(S), q # <<>>,
           \A i, j \in 1..Len(q) : q[i] = q[j] => i = j
    PROVE  /\ Tail(q) \in Seq(S)
           /\ Range(Tail(q)) = Range(q) \ {Head(q)}
           /\ \A i, j \in 1..Len(Tail(q)) : Tail(q)[i] = Tail(q)[j] => i = j
<1>1. /\ Tail(q) \in Seq(S)
      /\ Len(q) \in Nat \ {0}
      /\ Len(Tail(q)) = Len(q) - 1
      /\ \A i \in 1..Len(Tail(q)) : Tail(q)[i] = q[i + 1]
      /\ Head(q) = q[1]
  OBVIOUS
<1>2. Range(Tail(q)) \subseteq Range(q) \ {Head(q)}
  BY <1>1 DEF Range
<1>3. ASSUME NEW x \in Range(q) \ {Head(q)} PROVE x \in Range(Tail(q))
  <2>1. PICK i \in 1..Len(q) : x = q[i]
    BY DEF Range
  <2>2. i # 1
    BY <2>1, <1>1, <1>3
  <2>3. i - 1 \in 1..Len(Tail(q)) /\ Tail(q)[i - 1] = q[i]
    BY <2>2, <1>1
  <2>. QED BY <2>1, <2>3 DEF Range
<1>4. \A i, j \in 1..Len(Tail(q)) : Tail(q)[i] = Tail(q)[j] => i = j
  BY <1>1
<1>. QED BY <1>1, <1>2, <1>3, <1>4

-----------------------------------------------------------------------------
Busy == {"read", "computed", "written", "renamed"}

\* A server that is up has a state file, and only such a server runs updates.
ServerInv ==
    /\ server = "up" => exists
    /\ ~exists => file = <<>>
    /\ \A u \in Updates : phase[u] \in Running => server = "up"

\* Only the first of the queue has begun.
TurnInv ==
    \A u \in Updates : phase[u] \in Busy => updateQueue # <<>> /\ Head(updateQueue) = u

\* What a run read is still the file, and what it writes adds itself to it.
ValueInv ==
    \A u \in Updates :
        /\ phase[u] = "read" => value[u] = file
        /\ phase[u] \in {"computed", "written"} =>
              /\ value[u] = Append(file, u)
              /\ u \in Exclusive => Range(file) \intersect Exclusive = {}

\* The file holds the updates that were renamed into it, and no others.
FileInv ==
    \A u \in Updates :
        /\ phase[u] \in {"renamed", "done"} => u \in Range(file)
        /\ u \in Range(file) => phase[u] \in {"renamed", "done", "lost"}

\* What was done when a read was called is in the file until it opens it.
ReadInv ==
    \A r \in Readers :
        reading[r] = "called" => doneBefore[r] \subseteq Range(file)

SafeInv == ServerInv /\ TurnInv /\ ValueInv /\ FileInv /\ ReadInv /\ ExclusiveOnce /\ ReadsAreFresh

\* The queue's part of TypeOK.
QueueInv ==
    /\ updateQueue \in Seq(Updates)
    /\ Range(updateQueue) = {u \in Updates : phase[u] \in Running}
    /\ \A i, j \in 1..Len(updateQueue) : updateQueue[i] = updateQueue[j] => i = j

\* The rest of it.
PlainTypes ==
    /\ exists \in BOOLEAN
    /\ file \in Seq(Updates)
    /\ server \in {"down", "starting", "up"}
    /\ crashes \in Nat
    /\ phase \in [Updates -> {"uncalled"} \union Running \union Outcomes]
    /\ value \in [Updates -> Seq(Updates)]
    /\ calls \in Seq(Updates)
    /\ reading \in [Readers -> ReadStates]
    /\ seen \in [Readers -> Seq(Updates)]
    /\ doneBefore \in [Readers -> SUBSET Updates]

IInv == PlainTypes /\ QueueInv /\ SafeInv

\* Its two parts on types are TypeOK.
LEMMA IInvTypes == IInv => TypeOK
BY DEF IInv, TypeOK, PlainTypes, QueueInv

\* A server that never ran satisfies the invariant.
LEMMA InitIInv == Init => IInv
<1>. SUFFICES ASSUME Init PROVE IInv
  OBVIOUS
<1>1. Range(<<>>) = {}
  BY DEF Range
<1>2. PlainTypes
  <2>1. <<>> \in Seq(Updates)
    OBVIOUS
  <2>. QED BY <2>1 DEF Init, PlainTypes, ReadStates
<1>3. QueueInv
  BY <1>1 DEF Init, QueueInv, Running
<1>4. SafeInv
  BY <1>1 DEF Init, SafeInv, ServerInv, TurnInv, ValueInv, FileInv, ReadInv,
              ExclusiveOnce, ReadsAreFresh, Running, Busy
<1>. QED BY <1>2, <1>3, <1>4 DEF IInv

\* The process and the state file: a start, a created file, a kill.
LEMMA ProcessStep ==
    ASSUME IInv, Starts \/ InitFindsFile \/ InitCreatesFile \/ Killed
    PROVE  IInv'
<1>. USE DEF IInv
<1>1. CASE Starts
  BY <1>1 DEF Starts, PlainTypes, QueueInv, SafeInv, ServerInv, TurnInv, ValueInv, FileInv, ReadInv,
              ExclusiveOnce, ReadsAreFresh, diskVars, updateVars, readVars
<1>2. CASE InitFindsFile
  BY <1>2 DEF InitFindsFile, PlainTypes, QueueInv, SafeInv, ServerInv, TurnInv, ValueInv, FileInv, ReadInv,
              ExclusiveOnce, ReadsAreFresh, diskVars, updateVars, readVars
<1>3. CASE InitCreatesFile
  <2>1. file' = file
    BY <1>3 DEF InitCreatesFile, InitWrites, SafeInv, ServerInv
  <2>. QED BY <1>3, <2>1 DEF InitCreatesFile, PlainTypes, QueueInv, SafeInv, ServerInv, TurnInv, ValueInv,
              FileInv, ReadInv, ExclusiveOnce, ReadsAreFresh, updateVars, readVars
<1>4. CASE Killed
  <2>1. \A u \in Updates : phase'[u] \notin Running /\ phase'[u] \in {"uncalled"} \union Outcomes
    BY <1>4 DEF Killed, PlainTypes, Running, Outcomes
  <2>2. \A u \in Updates : phase'[u] = phase[u] \/ (phase[u] \in Running /\ phase'[u] = "lost")
    BY <1>4 DEF Killed, PlainTypes
  <2>3. \A r \in Readers : reading'[r] = reading[r] \/ reading'[r] = "lost"
    BY <1>4 DEF Killed, PlainTypes
  <2>4. PlainTypes'
    BY <1>4 DEF Killed, PlainTypes, Running, Outcomes, ReadStates, diskVars
  <2>5. Range(<<>>) = {}
    BY DEF Range
  <2>6. QueueInv'
    BY <1>4, <2>1, <2>5 DEF Killed, QueueInv
  <2>7. SafeInv'
    BY <1>4, <2>1, <2>2, <2>3 DEF Killed, SafeInv, ServerInv, TurnInv, ValueInv, FileInv, ReadInv,
       ExclusiveOnce, ReadsAreFresh, Running, Busy, diskVars
  <2>. QED BY <2>4, <2>6, <2>7
<1>. QED BY <1>1, <1>2, <1>3, <1>4

-----------------------------------------------------------------------------
\* Whoever has begun is the first of the queue, so he is alone.
LEMMA OneRuns ==
    ASSUME IInv, NEW u \in Updates, updateQueue # <<>>, Head(updateQueue) = u,
           NEW v \in Updates, v # u
    PROVE  phase[v] \notin Busy
BY DEF IInv, SafeInv, TurnInv

\* The queue keeps its form when its first call settles.
LEMMA SettlesFirst ==
    ASSUME PlainTypes, QueueInv, NEW u \in Updates, NEW o \in Outcomes,
           updateQueue # <<>>, Head(updateQueue) = u,
           phase' = [phase EXCEPT ![u] = o],
           updateQueue' = Tail(updateQueue)
    PROVE  QueueInv'
<1>1. /\ Tail(updateQueue) \in Seq(Updates)
      /\ Range(Tail(updateQueue)) = Range(updateQueue) \ {u}
      /\ \A i, j \in 1..Len(Tail(updateQueue)) :
             Tail(updateQueue)[i] = Tail(updateQueue)[j] => i = j
  BY TailDistinct DEF QueueInv
<1>2. /\ phase'[u] = o /\ o \notin Running
      /\ \A v \in Updates : v # u => phase'[v] = phase[v]
  BY DEF PlainTypes, Running, Outcomes
<1>3. Range(updateQueue) = {v \in Updates : phase[v] \in Running}
  BY DEF QueueInv
<1>. QED BY <1>1, <1>2, <1>3 DEF QueueInv

\* It keeps its form while its first call runs on.
LEMMA RunsOn ==
    ASSUME PlainTypes, QueueInv, NEW u \in Updates, NEW p \in Running,
           phase[u] \in Running,
           phase' = [phase EXCEPT ![u] = p],
           updateQueue' = updateQueue
    PROVE  QueueInv'
BY DEF PlainTypes, QueueInv

\* A call of update().
LEMMA CallStep ==
    ASSUME IInv, NEW u \in Updates, UpdateCalled(u)
    PROVE  IInv'
<1>. USE DEF IInv
<1>1. /\ server = "up" /\ phase[u] = "uncalled"
      /\ phase' = [phase EXCEPT ![u] = "queued"]
      /\ updateQueue' = Append(updateQueue, u)
      /\ calls' = Append(calls, u)
      /\ UNCHANGED <<exists, file, server, crashes, value, reading, seen, doneBefore>>
  BY DEF UpdateCalled, Enqueued, diskVars, readVars
<1>2. /\ phase'[u] = "queued"
      /\ \A v \in Updates : v # u => phase'[v] = phase[v]
  BY <1>1 DEF PlainTypes
<1>3. PlainTypes'
  BY <1>1 DEF PlainTypes, Running
<1>4. u \notin Range(updateQueue)
  BY <1>1 DEF QueueInv, Running
<1>5. QueueInv'
  <2>1. Range(updateQueue') = Range(updateQueue) \union {u}
    BY <1>1, RangeAppend DEF QueueInv
  <2>2. \A i, j \in 1..Len(Append(updateQueue, u)) :
            Append(updateQueue, u)[i] = Append(updateQueue, u)[j] => i = j
    BY <1>4, AppendDistinct DEF QueueInv
  <2>3. Range(updateQueue') = {v \in Updates : phase'[v] \in Running}
    BY <1>2, <2>1 DEF QueueInv, Running
  <2>4. updateQueue' \in Seq(Updates)
    BY <1>1 DEF QueueInv
  <2>. QED BY <1>1, <2>2, <2>3, <2>4 DEF QueueInv
<1>6. TurnInv'
  <2>. SUFFICES ASSUME NEW v \in Updates, phase'[v] \in Busy
                PROVE  updateQueue' # <<>> /\ Head(updateQueue') = v
    BY DEF TurnInv
  <2>1. updateQueue # <<>> /\ Head(updateQueue) = v
    BY <1>2 DEF SafeInv, TurnInv, Busy
  <2>. QED BY <1>1, <2>1 DEF QueueInv
<1>7. SafeInv'
  BY <1>1, <1>2, <1>6 DEF SafeInv, ServerInv, ValueInv, FileInv, ReadInv, ExclusiveOnce,
     ReadsAreFresh, Running
<1>. QED BY <1>3, <1>5, <1>7

\* The run of an update, up to its write.
LEMMA BeforeWrite ==
    ASSUME IInv, NEW u \in Updates,
           RunReads(u) \/ UpdaterReturns(u) \/ WritesTemp(u)
    PROVE  IInv'
<1>. USE DEF IInv
<1>1. phase[u] \in Running /\ updateQueue # <<>> /\ Head(updateQueue) = u
  BY DEF RunReads, UpdaterReturns, WritesTemp, ItsTurn, SafeInv, TurnInv, Running, Busy
<1>2. PICK p \in {"read", "computed", "written"} : phase' = [phase EXCEPT ![u] = p]
  BY DEF RunReads, UpdaterReturns, WritesTemp
<1>3. /\ phase'[u] = p
      /\ \A v \in Updates : v # u => phase'[v] = phase[v] /\ phase[v] \notin Busy
  BY <1>1, <1>2, OneRuns DEF PlainTypes
<1>4. UNCHANGED <<exists, file, server, crashes, updateQueue, calls, reading, seen, doneBefore>>
  BY DEF RunReads, UpdaterReturns, WritesTemp, diskVars, readVars
<1>5. p \in Running
  BY DEF Running
<1>6. QueueInv'
  BY <1>1, <1>2, <1>4, <1>5, RunsOn
<1>7. value' \in [Updates -> Seq(Updates)] /\ ValueInv'
  <2>1. CASE RunReads(u)
    <3>1. value' = [value EXCEPT ![u] = file] /\ phase'[u] = "read"
      BY <2>1, <1>3 DEF RunReads, PlainTypes
    <3>. QED BY <3>1, <1>3, <1>4 DEF PlainTypes, ValueInv, Busy
  <2>2. CASE UpdaterReturns(u)
    <3>1. /\ value' = [value EXCEPT ![u] = Append(@, u)] /\ phase'[u] = "computed"
          /\ value[u] = file
          /\ u \in Exclusive => Range(file) \intersect Exclusive = {}
      BY <2>2, <1>3 DEF UpdaterReturns, Refuses, SafeInv, ValueInv, PlainTypes
    <3>2. value' \in [Updates -> Seq(Updates)] /\ value'[u] = Append(file, u)
      BY <3>1 DEF PlainTypes
    <3>. QED BY <3>1, <3>2, <1>3, <1>4 DEF ValueInv, Busy
  <2>3. CASE WritesTemp(u)
    <3>1. value' = value /\ phase'[u] = "written" /\ phase[u] = "computed"
      BY <2>3, <1>3 DEF WritesTemp, PlainTypes
    <3>. QED BY <3>1, <1>3, <1>4 DEF PlainTypes, SafeInv, ValueInv, Busy
  <2>. QED BY <2>1, <2>2, <2>3
<1>8. PlainTypes'
  BY <1>2, <1>4, <1>5, <1>7 DEF PlainTypes
<1>9. phase[u] \in {"queued", "read", "computed"}
  BY DEF RunReads, UpdaterReturns, WritesTemp
<1>10. SafeInv'
  BY <1>1, <1>3, <1>4, <1>7, <1>9 DEF SafeInv, ServerInv, TurnInv, FileInv, ReadInv, ExclusiveOnce,
     ReadsAreFresh, Running, Busy
<1>. QED BY <1>6, <1>8, <1>10

\* The rename: the file gains the update.
LEMMA RenameStep ==
    ASSUME IInv, NEW u \in Updates, Renames(u)
    PROVE  IInv'
<1>. USE DEF IInv
<1>1. /\ phase[u] = "written" /\ phase[u] \in Running /\ phase[u] \in Busy
      /\ phase' = [phase EXCEPT ![u] = "renamed"]
      /\ UNCHANGED <<exists, server, crashes, updateQueue, value, calls, reading, seen, doneBefore>>
  BY DEF Renames, Running, Busy, readVars
<1>2. updateQueue # <<>> /\ Head(updateQueue) = u
  BY <1>1 DEF SafeInv, TurnInv
<1>3. /\ phase'[u] = "renamed"
      /\ \A v \in Updates : v # u => phase'[v] = phase[v] /\ phase[v] \notin Busy
  BY <1>1, <1>2, OneRuns DEF PlainTypes
<1>4. /\ file' = Append(file, u)
      /\ u \in Exclusive => Range(file) \intersect Exclusive = {}
  BY <1>1 DEF Renames, SafeInv, ValueInv
<1>5. Range(file') = Range(file) \union {u}
  BY <1>4, RangeAppend DEF PlainTypes
<1>6. "renamed" \in Running
  BY DEF Running
<1>7. QueueInv'
  BY <1>1, <1>6, RunsOn
<1>8. PlainTypes'
  BY <1>1, <1>4, <1>6 DEF PlainTypes
<1>9. exists /\ server = "up"
  BY <1>1 DEF SafeInv, ServerInv
<1>10. ServerInv' /\ TurnInv'
  BY <1>1, <1>2, <1>3, <1>9 DEF SafeInv, ServerInv, TurnInv, Busy
<1>11. ValueInv'
  BY <1>3 DEF ValueInv, Busy
<1>12. FileInv' /\ ReadInv' /\ ExclusiveOnce' /\ ReadsAreFresh'
  BY <1>1, <1>3, <1>4, <1>5 DEF SafeInv, FileInv, ReadInv, ExclusiveOnce, ReadsAreFresh, Busy
<1>. QED BY <1>7, <1>8, <1>10, <1>11, <1>12 DEF SafeInv

\* An update's promise settles, one way or the other.
LEMMA SettleStep ==
    ASSUME IInv, NEW u \in Updates, UpdaterThrows(u) \/ UpdateDone(u) \/ RunFails(u)
    PROVE  IInv'
<1>. USE DEF IInv
<1>1. updateQueue # <<>> /\ Head(updateQueue) = u /\ phase[u] \in Running
  BY DEF UpdaterThrows, UpdateDone, RunFails, MayFail, ItsTurn, SafeInv, TurnInv, Running, Busy
<1>2. PICK o \in {"refused", "failed", "done"} :
        /\ phase' = [phase EXCEPT ![u] = o]
        /\ o = "done" => phase[u] = "renamed"
        /\ o # "done" => phase[u] \in {"queued", "read", "computed", "written"}
  BY DEF UpdaterThrows, UpdateDone, RunFails, MayFail
<1>3. /\ updateQueue' = Tail(updateQueue)
      /\ UNCHANGED <<exists, file, server, crashes, value, calls, reading, seen, doneBefore>>
  BY DEF UpdaterThrows, UpdateDone, RunFails, SettledByError, Settled, diskVars, readVars
<1>4. /\ phase'[u] = o
      /\ \A v \in Updates : v # u => phase'[v] = phase[v] /\ phase[v] \notin Busy
  BY <1>1, <1>2, OneRuns DEF PlainTypes
<1>5. o \in Outcomes
  BY DEF Outcomes
<1>6. QueueInv'
  BY <1>1, <1>2, <1>3, <1>5, SettlesFirst
<1>7. PlainTypes'
  BY <1>2, <1>3, <1>5, <1>6 DEF PlainTypes, QueueInv
<1>8. TurnInv' /\ ValueInv'
  BY <1>4 DEF TurnInv, ValueInv, Busy
<1>9. ServerInv' /\ FileInv' /\ ReadInv' /\ ExclusiveOnce' /\ ReadsAreFresh'
  BY <1>2, <1>3, <1>4 DEF SafeInv, ServerInv, FileInv, ReadInv, ExclusiveOnce, ReadsAreFresh,
     Running
<1>. QED BY <1>6, <1>7, <1>8, <1>9 DEF SafeInv

\* A read outside the queue.
LEMMA ReaderStep ==
    ASSUME IInv, NEW r \in Readers, ReadStep(r)
    PROVE  IInv'
<1>. USE DEF IInv
<1>1. UNCHANGED <<exists, file, server, crashes, updateQueue, phase, value, calls>>
  BY DEF ReadStep, ReadCalled, ReadOpens, ReadAnswered, ReadFails, diskVars, updateVars
<1>2. PlainTypes'
  BY <1>1 DEF ReadStep, ReadCalled, ReadOpens, ReadAnswered, ReadFails, PlainTypes, ReadStates
<1>3. QueueInv' /\ ServerInv' /\ TurnInv' /\ ValueInv' /\ FileInv' /\ ExclusiveOnce'
  BY <1>1 DEF QueueInv, SafeInv, ServerInv, TurnInv, ValueInv, FileInv, ExclusiveOnce
<1>4. ReadInv' /\ ReadsAreFresh'
  <2>1. CASE ReadCalled(r)
    <3>1. /\ doneBefore' = [doneBefore EXCEPT ![r] = {u \in Updates : phase[u] = "done"}]
          /\ reading' = [reading EXCEPT ![r] = "called"]
          /\ seen' = seen
      BY <2>1 DEF ReadCalled
    <3>2. {u \in Updates : phase[u] = "done"} \subseteq Range(file)
      BY DEF SafeInv, FileInv
    <3>3. /\ reading'[r] = "called" /\ doneBefore'[r] \subseteq Range(file)
          /\ \A s \in Readers : s # r => reading'[s] = reading[s] /\ doneBefore'[s] = doneBefore[s]
      BY <3>1, <3>2 DEF PlainTypes
    <3>. QED BY <1>1, <3>1, <3>3 DEF SafeInv, ReadInv, ReadsAreFresh
  <2>2. CASE ReadOpens(r)
    <3>1. /\ reading[r] = "called"
          /\ reading' = [reading EXCEPT ![r] = "taken"]
          /\ seen' = [seen EXCEPT ![r] = file]
          /\ doneBefore' = doneBefore
      BY <2>2 DEF ReadOpens
    <3>2. /\ reading'[r] = "taken" /\ seen'[r] = file
          /\ \A s \in Readers : s # r => reading'[s] = reading[s] /\ seen'[s] = seen[s]
      BY <3>1 DEF PlainTypes
    <3>. QED BY <1>1, <3>1, <3>2 DEF SafeInv, ReadInv, ReadsAreFresh
  <2>3. CASE ReadAnswered(r) \/ ReadFails(r)
    <3>1. /\ seen' = seen /\ doneBefore' = doneBefore
          /\ \A s \in Readers : s # r => reading'[s] = reading[s]
          /\ reading'[r] # "called"
          /\ reading'[r] = "answered" => reading[r] = "taken"
          /\ reading'[r] # "taken"
      BY <2>3 DEF ReadAnswered, ReadFails, PlainTypes
    <3>. QED BY <1>1, <3>1 DEF SafeInv, ReadInv, ReadsAreFresh
  <2>. QED BY <2>1, <2>2, <2>3 DEF ReadStep
<1>. QED BY <1>2, <1>3, <1>4 DEF SafeInv

\* Every step keeps the invariant.
LEMMA NextIInv == IInv /\ [Next]_vars => IInv'
<1>. SUFFICES ASSUME IInv, [Next]_vars PROVE IInv'
  OBVIOUS
<1>1. CASE Starts \/ InitFindsFile \/ InitCreatesFile \/ Killed
  BY <1>1, ProcessStep
<1>2. ASSUME NEW u \in Updates, UpdateCalled(u) PROVE IInv'
  BY <1>2, CallStep
<1>3. ASSUME NEW u \in Updates, RunStep(u) PROVE IInv'
  BY <1>3, BeforeWrite, RenameStep, SettleStep DEF RunStep
<1>4. ASSUME NEW r \in Readers, ReadStep(r) PROVE IInv'
  BY <1>4, ReaderStep
<1>5. CASE UNCHANGED vars
  BY <1>5 DEF vars, diskVars, updateVars, readVars, IInv, PlainTypes, QueueInv, SafeInv, ServerInv,
     TurnInv, ValueInv, FileInv, ReadInv, ExclusiveOnce, ReadsAreFresh
<1>. QED BY <1>1, <1>2, <1>3, <1>4, <1>5 DEF Next

\* The invariant holds in every reachable state.
LEMMA SpecIInv == Spec => []IInv
BY InitIInv, NextIInv, PTL DEF Spec

-----------------------------------------------------------------------------
\* The queue holds the unsettled calls, each once, and the rest is of its type.
THEOREM StoreTypeCorrect == Spec => []TypeOK
BY SpecIInv, IInvTypes, PTL

\* An update whose caller was told it succeeded is in the state file for ever,
\* whatever later fails, however often the server is killed.
THEOREM DoneIsKept == Spec => []DoneSurvives
<1>1. IInv => DoneSurvives
  BY DEF IInv, SafeInv, FileInv, DoneSurvives
<1>. QED BY <1>1, SpecIInv, PTL

\* An update whose caller was told it failed is in no state file.
THEOREM FailedIsGone == Spec => []FailedLeavesNoTrace
<1>1. IInv => FailedLeavesNoTrace
  BY DEF IInv, SafeInv, FileInv, FailedLeavesNoTrace
<1>. QED BY <1>1, SpecIInv, PTL

\* Of any number of exclusive updates, such as first-time setups of the
\* password, at most one ever reaches the state file.
THEOREM OneExclusive == Spec => []ExclusiveOnce
<1>1. IInv => ExclusiveOnce
  BY DEF IInv, SafeInv
<1>. QED BY <1>1, SpecIInv, PTL

\* A read sees every update that was done when it was called.
THEOREM ReadsSeeDone == Spec => []ReadsAreFresh
<1>1. IInv => ReadsAreFresh
  BY DEF IInv, SafeInv
<1>. QED BY <1>1, SpecIInv, PTL

-----------------------------------------------------------------------------
(* Updates take effect in the order of their calls.                         *)

\* u comes before v in q.
Before(q, u, v) == \E i, j \in 1..Len(q) : i < j /\ q[i] = u /\ q[j] = v

Distinct(q) == \A i, j \in 1..Len(q) : q[i] = q[j] => i = j

\* What is appended comes last.
LEMMA BeforeAppended ==
    ASSUME NEW S, NEW q \in Seq(S), NEW x \in S, NEW u, NEW v
    PROVE  /\ Before(q, u, v) => Before(Append(q, x), u, v)
           /\ u \in Range(q) => Before(Append(q, x), u, x)
           /\ Before(Append(q, x), u, v) /\ v # x => Before(q, u, v)
<1>1. /\ Len(Append(q, x)) = Len(q) + 1 /\ Len(q) \in Nat
      /\ Append(q, x)[Len(q) + 1] = x
      /\ \A i \in 1..Len(q) : Append(q, x)[i] = q[i]
  OBVIOUS
<1>2. Before(q, u, v) => Before(Append(q, x), u, v)
  BY <1>1 DEF Before
<1>3. u \in Range(q) => Before(Append(q, x), u, x)
  BY <1>1 DEF Before, Range
<1>4. ASSUME Before(Append(q, x), u, v), v # x PROVE Before(q, u, v)
  <2>1. PICK i, j \in 1..Len(q) + 1 : i < j /\ Append(q, x)[i] = u /\ Append(q, x)[j] = v
    BY <1>1, <1>4 DEF Before
  <2>2. j \in 1..Len(q) /\ i \in 1..Len(q)
    BY <1>1, <1>4, <2>1
  <2>. QED BY <1>1, <2>1, <2>2 DEF Before
<1>. QED BY <1>2, <1>3, <1>4

\* Without repetitions nothing comes before itself, or two things before
\* each other.
LEMMA BeforeIsStrict ==
    ASSUME NEW S, NEW q \in Seq(S), Distinct(q), NEW u, NEW v, Before(q, u, v)
    PROVE  u # v /\ ~Before(q, v, u)
BY DEF Before, Distinct

\* The calls are those made; the queue and what is not yet in the file are in
\* the order of the calls, after all that is in the file.
CallsInv ==
    /\ Distinct(calls)
    /\ \A u \in Updates : u \in Range(calls) <=> phase[u] # "uncalled"

Waiting == {"queued", "read", "computed", "written"}

OrderInv ==
    /\ \A m, n \in 1..Len(updateQueue) :
          m < n => Before(calls, updateQueue[m], updateQueue[n])
    /\ \A u \in Range(file), v \in Updates : phase[v] \in Waiting => Before(calls, u, v)
    /\ \A u, v \in Range(file) : Before(calls, u, v) => Before(file, u, v)

\* Steps that call and apply nothing.
LEMMA QuietOrder ==
    ASSUME IInv, CallsInv, OrderInv, calls' = calls, file' = file,
           updateQueue' \in {updateQueue, Tail(updateQueue), <<>>},
           updateQueue' = Tail(updateQueue) => updateQueue # <<>> \/ updateQueue' = <<>>,
           \A v \in Updates : /\ phase'[v] = "uncalled" <=> phase[v] = "uncalled"
                              /\ phase'[v] \in Waiting => phase[v] \in Waiting
    PROVE  CallsInv' /\ OrderInv'
<1>1. CallsInv'
  BY DEF CallsInv
<1>2. \A m, n \in 1..Len(updateQueue') :
          m < n => Before(calls, updateQueue'[m], updateQueue'[n])
  <2>0. updateQueue \in Seq(Updates)
    BY DEF IInv, QueueInv
  <2>1. CASE updateQueue' = updateQueue
    BY <2>1 DEF OrderInv
  <2>2. CASE updateQueue' = Tail(updateQueue) /\ updateQueue # <<>>
    <3>1. /\ Len(updateQueue) \in Nat /\ Len(updateQueue') = Len(updateQueue) - 1
          /\ \A i \in 1..Len(updateQueue') : updateQueue'[i] = updateQueue[i + 1]
      BY <2>0, <2>2
    <3>. QED BY <3>1 DEF OrderInv
  <2>3. CASE updateQueue' = <<>>
    BY <2>3
  <2>. QED BY <2>1, <2>2, <2>3
<1>. QED BY <1>1, <1>2 DEF OrderInv

\* A call comes after all others.
LEMMA CallOrder ==
    ASSUME IInv, CallsInv, OrderInv, NEW u \in Updates, UpdateCalled(u)
    PROVE  CallsInv' /\ OrderInv'
<1>1. /\ phase[u] = "uncalled" /\ file' = file
      /\ calls' = Append(calls, u) /\ updateQueue' = Append(updateQueue, u)
      /\ phase'[u] = "queued" /\ \A v \in Updates : v # u => phase'[v] = phase[v]
  BY DEF UpdateCalled, Enqueued, diskVars, IInv, PlainTypes
<1>2. calls \in Seq(Updates) /\ updateQueue \in Seq(Updates) /\ file \in Seq(Updates)
  BY DEF IInv, PlainTypes, QueueInv
<1>3. u \notin Range(calls) /\ Range(calls') = Range(calls) \union {u}
  BY <1>1, <1>2, RangeAppend DEF CallsInv
<1>4. Distinct(calls')
  BY <1>1, <1>2, <1>3, AppendDistinct DEF CallsInv, Distinct
<1>5. CallsInv'
  BY <1>1, <1>3, <1>4 DEF CallsInv
<1>6. \A v, w \in Updates : Before(calls, v, w) => Before(calls', v, w)
  BY <1>1, <1>2, BeforeAppended
<1>7. \A v \in Range(calls) : Before(calls', v, u)
  BY <1>1, <1>2, BeforeAppended
<1>8. Range(file) \subseteq Range(calls) /\ Range(file) \subseteq Updates
  <2>1. Range(file) \subseteq Updates
    BY <1>2 DEF Range
  <2>. QED BY <2>1 DEF IInv, SafeInv, FileInv, CallsInv
<1>9. Range(updateQueue) \subseteq Range(calls) /\ Range(updateQueue) \subseteq Updates
  BY DEF IInv, QueueInv, CallsInv, Running
<1>10. ASSUME NEW m \in 1..Len(updateQueue'), NEW n \in 1..Len(updateQueue'), m < n
       PROVE  Before(calls', updateQueue'[m], updateQueue'[n])
  <2>1. /\ Len(updateQueue) \in Nat /\ Len(updateQueue') = Len(updateQueue) + 1
        /\ updateQueue'[Len(updateQueue) + 1] = u
        /\ \A i \in 1..Len(updateQueue) : updateQueue'[i] = updateQueue[i]
    BY <1>1, <1>2
  <2>2. m \in 1..Len(updateQueue) /\ updateQueue'[m] \in Range(updateQueue)
    BY <1>10, <2>1 DEF Range
  <2>3. CASE n = Len(updateQueue) + 1
    BY <1>7, <1>9, <2>1, <2>2, <2>3
  <2>4. CASE n \in 1..Len(updateQueue)
    <3>1. updateQueue'[n] \in Range(updateQueue)
      BY <2>1, <2>4 DEF Range
    <3>2. Before(calls, updateQueue[m], updateQueue[n])
      BY <1>10, <2>2, <2>4 DEF OrderInv
    <3>. QED BY <1>6, <1>9, <2>1, <2>2, <2>4, <3>1, <3>2
  <2>. QED BY <2>1, <2>3, <2>4
<1>11. ASSUME NEW v \in Range(file), NEW w \in Updates, phase'[w] \in Waiting
       PROVE  Before(calls', v, w)
  <2>1. CASE w = u
    BY <1>7, <1>8, <2>1
  <2>2. CASE w # u
    <3>1. Before(calls, v, w)
      BY <1>1, <1>11, <2>2 DEF OrderInv
    <3>. QED BY <1>6, <1>8, <3>1
  <2>. QED BY <2>1, <2>2
<1>12. ASSUME NEW v \in Range(file), NEW w \in Range(file), Before(calls', v, w)
       PROVE  Before(file, v, w)
  <2>1. w # u
    BY <1>3, <1>8
  <2>2. Before(calls, v, w)
    BY <1>1, <1>2, <1>12, <2>1, BeforeAppended
  <2>. QED BY <2>2 DEF OrderInv
<1>13. OrderInv'
  BY <1>1, <1>10, <1>11, <1>12 DEF OrderInv
<1>. QED BY <1>5, <1>13

\* A rename applies the earliest call of those that are not in the file.
LEMMA RenameOrder ==
    ASSUME IInv, CallsInv, OrderInv, NEW u \in Updates, Renames(u)
    PROVE  CallsInv' /\ OrderInv'
<1>1. /\ phase[u] = "written" /\ updateQueue' = updateQueue /\ calls' = calls
      /\ phase'[u] = "renamed" /\ \A v \in Updates : v # u => phase'[v] = phase[v]
  BY DEF Renames, IInv, PlainTypes
<1>2. file' = Append(file, u) /\ updateQueue # <<>> /\ Head(updateQueue) = u
  BY <1>1 DEF Renames, IInv, SafeInv, ValueInv, TurnInv, Busy
<1>3. file \in Seq(Updates) /\ updateQueue \in Seq(Updates) /\ calls \in Seq(Updates)
  BY DEF IInv, PlainTypes, QueueInv
<1>4. Range(file') = Range(file) \union {u}
  BY <1>2, <1>3, RangeAppend
<1>5. CallsInv'
  BY <1>1 DEF CallsInv
<1>6. ASSUME NEW v \in Updates, phase'[v] \in Waiting PROVE Before(calls, u, v)
  <2>1. v # u /\ v \in Range(updateQueue)
    BY <1>1, <1>6 DEF Waiting, IInv, QueueInv, Running
  <2>2. PICK n \in 1..Len(updateQueue) : updateQueue[n] = v
    BY <2>1 DEF Range
  <2>3. n # 1 /\ updateQueue[1] = u /\ 1 \in 1..Len(updateQueue) /\ 1 < n
    BY <1>2, <1>3, <2>1, <2>2
  <2>. QED BY <2>2, <2>3 DEF OrderInv
<1>7. ASSUME NEW v \in Range(file'), NEW w \in Updates, phase'[w] \in Waiting
      PROVE  Before(calls, v, w)
  <2>1. CASE v = u
    BY <1>6, <1>7, <2>1
  <2>2. CASE v \in Range(file)
    <3>1. phase[w] \in Waiting
      BY <1>1, <1>7 DEF Waiting
    <3>. QED BY <2>2, <3>1 DEF OrderInv
  <2>. QED BY <1>4, <2>1, <2>2
<1>8. ASSUME NEW v \in Range(file'), NEW w \in Range(file'), Before(calls, v, w)
      PROVE  Before(file', v, w)
  <2>1. v # w /\ ~Before(calls, w, v)
    BY <1>3, <1>8, BeforeIsStrict DEF CallsInv
  <2>2. CASE w = u
    <3>1. v \in Range(file)
      BY <1>4, <2>1, <2>2
    <3>. QED BY <1>2, <1>3, <2>2, <3>1, BeforeAppended
  <2>3. CASE w # u /\ v # u
    <3>1. Before(file, v, w)
      BY <1>4, <1>8, <2>3 DEF OrderInv
    <3>. QED BY <1>2, <1>3, <3>1, BeforeAppended
  <2>4. CASE w # u /\ v = u
    <3>1. w \in Range(file)
      BY <1>4, <2>4
    <3>2. Before(calls, w, u)
      BY <1>1, <3>1 DEF OrderInv, Waiting
    <3>. QED BY <2>1, <2>4, <3>2
  <2>. QED BY <2>2, <2>3, <2>4
<1>9. OrderInv'
  BY <1>1, <1>7, <1>8 DEF OrderInv
<1>. QED BY <1>5, <1>9

\* Every step keeps the order.
LEMMA NextOrder == IInv /\ CallsInv /\ OrderInv /\ [Next]_vars => CallsInv' /\ OrderInv'
<1>. SUFFICES ASSUME IInv, CallsInv, OrderInv, [Next]_vars PROVE CallsInv' /\ OrderInv'
  OBVIOUS
<1>1. CASE Starts \/ InitFindsFile \/ UNCHANGED vars
  BY <1>1, QuietOrder DEF Starts, InitFindsFile, vars, diskVars, updateVars
<1>2. CASE InitCreatesFile
  <2>1. file' = file
    BY <1>2 DEF InitCreatesFile, InitWrites, IInv, SafeInv, ServerInv
  <2>. QED BY <1>2, <2>1, QuietOrder DEF InitCreatesFile, updateVars
<1>3. CASE Killed
  <2>1. \A v \in Updates : phase'[v] = phase[v] \/ (phase[v] \in Running /\ phase'[v] = "lost")
    BY <1>3 DEF Killed, IInv, PlainTypes
  <2>2. \A v \in Updates : /\ phase'[v] = "uncalled" <=> phase[v] = "uncalled"
                           /\ phase'[v] \in Waiting => phase[v] \in Waiting
    BY <2>1 DEF Running, Waiting
  <2>. QED BY <1>3, <2>2, QuietOrder DEF Killed, diskVars
<1>4. ASSUME NEW u \in Updates, UpdateCalled(u) PROVE CallsInv' /\ OrderInv'
  BY <1>4, CallOrder
<1>5. ASSUME NEW u \in Updates, RunStep(u) PROVE CallsInv' /\ OrderInv'
  <2>1. CASE Renames(u)
    BY <2>1, RenameOrder
  <2>2. CASE RunReads(u) \/ UpdaterReturns(u) \/ WritesTemp(u)
    <3>1. \A v \in Updates : /\ phase'[v] = "uncalled" <=> phase[v] = "uncalled"
                             /\ phase'[v] \in Waiting => phase[v] \in Waiting
      BY <2>2 DEF RunReads, UpdaterReturns, WritesTemp, IInv, PlainTypes, Waiting
    <3>. QED BY <2>2, <3>1, QuietOrder DEF RunReads, UpdaterReturns, WritesTemp, diskVars
  <2>3. CASE UpdaterThrows(u) \/ UpdateDone(u) \/ RunFails(u)
    <3>1. \A v \in Updates : /\ phase'[v] = "uncalled" <=> phase[v] = "uncalled"
                             /\ phase'[v] \in Waiting => phase[v] \in Waiting
      BY <2>3 DEF UpdaterThrows, UpdateDone, RunFails, MayFail, IInv, PlainTypes, Waiting
    <3>2. updateQueue # <<>> /\ updateQueue' = Tail(updateQueue)
      BY <2>3 DEF UpdaterThrows, UpdateDone, RunFails, MayFail, ItsTurn, SettledByError, Settled,
         IInv, SafeInv, TurnInv, Busy
    <3>. QED BY <2>3, <3>1, <3>2, QuietOrder DEF UpdaterThrows, UpdateDone, RunFails, diskVars
  <2>. QED BY <1>5, <2>1, <2>2, <2>3 DEF RunStep
<1>6. ASSUME NEW r \in Readers, ReadStep(r) PROVE CallsInv' /\ OrderInv'
  BY <1>6, QuietOrder DEF ReadStep, ReadCalled, ReadOpens, ReadAnswered, ReadFails, diskVars, updateVars
<1>. QED BY <1>1, <1>2, <1>3, <1>4, <1>5, <1>6 DEF Next

\* Whatever fails between them and however often the server is killed, updates
\* are in the file in the order of their calls.
THEOREM CallOrderIsKept == Spec => []AppliedInCallOrder
<1>1. Init => CallsInv /\ OrderInv
  BY DEF Init, CallsInv, OrderInv, Distinct, Range, Waiting
<1>2. IInv /\ CallsInv /\ OrderInv => AppliedInCallOrder
  <2>. SUFFICES ASSUME IInv, OrderInv, NEW i \in 1..Len(calls), NEW j \in 1..Len(calls), i < j,
                       calls[i] \in Range(file), calls[j] \in Range(file)
                PROVE  \E k, l \in 1..Len(file) : k < l /\ file[k] = calls[i] /\ file[l] = calls[j]
    BY DEF AppliedInCallOrder
  <2>1. Before(calls, calls[i], calls[j])
    BY DEF Before
  <2>2. Before(file, calls[i], calls[j])
    BY <2>1 DEF OrderInv
  <2>. QED BY <2>2 DEF Before
<1>. QED BY <1>1, <1>2, SpecIInv, NextOrder, PTL DEF Spec

-----------------------------------------------------------------------------
(* FileStore implements AtomicStore.                                        *)

\* What AtomicStore calls applied is what the file holds.
LEMMA AppliedIsRange == Store!Applied = Range(file)
BY DEF Store!Applied, Range

\* What callers see of an update that is not running is its phase.
LEMMA AnswerOfUpdate ==
    ASSUME PlainTypes, NEW u \in Updates, NEW p, phase' = [phase EXCEPT ![u] = p]
    PROVE  [v \in Updates |-> IF phase'[v] \in Running THEN "none" ELSE phase'[v]] =
             [[v \in Updates |-> IF phase[v] \in Running THEN "none" ELSE phase[v]]
                EXCEPT ![u] = IF p \in Running THEN "none" ELSE p]
BY DEF PlainTypes

\* The steps of the process are a crash or invisible.
LEMMA ProcessRefines ==
    ASSUME IInv, Starts \/ InitFindsFile \/ InitCreatesFile \/ Killed
    PROVE  [Store!Next]_(Store!vars)
<1>1. CASE Starts \/ InitFindsFile
  BY <1>1 DEF Starts, InitFindsFile, diskVars, updateVars, readVars, Store!vars
<1>2. CASE InitCreatesFile
  <2>1. file' = file
    BY <1>2 DEF InitCreatesFile, InitWrites, IInv, SafeInv, ServerInv
  <2>. QED BY <1>2, <2>1 DEF InitCreatesFile, updateVars, readVars, Store!vars
<1>3. CASE Killed
  <2>1. \A u \in Updates :
          (IF phase'[u] \in Running THEN "none" ELSE phase'[u]) =
             IF phase[u] \in Running THEN "lost" ELSE phase[u]
    BY <1>3 DEF Killed, Running
  <2>2. \A u \in Updates : phase[u] # "none"
    BY DEF IInv, PlainTypes, Running, Outcomes
  <2>3. Store!Crash
    BY <1>3, <2>1, <2>2 DEF Killed, Store!Crash, diskVars
  <2>. QED BY <2>3 DEF Store!Next
<1>. QED BY <1>1, <1>2, <1>3

\* A call of update() is a call; a rename applies it; a run that settles
\* answers it; its other steps are invisible.
LEMMA UpdateRefines ==
    ASSUME IInv, NEW u \in Updates, UpdateCalled(u) \/ RunStep(u)
    PROVE  [Store!Next]_(Store!vars)
<1>. USE DEF IInv
<1>. DEFINE answer == [v \in Updates |-> IF phase[v] \in Running THEN "none" ELSE phase[v]]
<1>1. CASE UpdateCalled(u)
  <2>1. answer[u] = "uncalled" /\ answer' = [answer EXCEPT ![u] = "none"]
    BY <1>1, AnswerOfUpdate DEF UpdateCalled, Running
  <2>. QED BY <1>1, <2>1 DEF UpdateCalled, diskVars, readVars, Store!Call, Store!Next
<1>2. CASE RunReads(u) \/ UpdaterReturns(u) \/ WritesTemp(u)
  <2>1. answer[u] = "none" /\ answer' = [answer EXCEPT ![u] = "none"]
    BY <1>2, AnswerOfUpdate DEF RunReads, UpdaterReturns, WritesTemp, Running
  <2>2. answer' = answer
    BY <2>1
  <2>. QED BY <1>2, <2>2 DEF RunReads, UpdaterReturns, WritesTemp, diskVars, readVars, Store!vars
<1>3. CASE Renames(u)
  <2>1. answer[u] = "none" /\ answer' = [answer EXCEPT ![u] = "none"]
    BY <1>3, AnswerOfUpdate DEF Renames, Running
  <2>2. /\ file' = Append(file, u)
        /\ u \in Exclusive => Range(file) \intersect Exclusive = {}
        /\ u \notin Range(file)
    BY <1>3 DEF Renames, SafeInv, ValueInv, FileInv
  <2>3. answer' = answer
    BY <2>1
  <2>. QED BY <1>3, <2>1, <2>2, <2>3, AppliedIsRange DEF Renames, readVars, Store!Apply, Store!Next
<1>4. CASE UpdaterThrows(u)
  <2>1. answer[u] = "none" /\ answer' = [answer EXCEPT ![u] = "refused"]
    BY <1>4, AnswerOfUpdate DEF UpdaterThrows, Running
  <2>2. u \notin Range(file) /\ u \in Exclusive /\ Range(file) \intersect Exclusive # {}
    BY <1>4 DEF UpdaterThrows, Refuses, SafeInv, ValueInv, FileInv
  <2>. QED BY <1>4, <2>1, <2>2, AppliedIsRange
           DEF UpdaterThrows, diskVars, readVars, Store!Answer, Store!Next
<1>5. CASE UpdateDone(u)
  <2>1. answer[u] = "none" /\ answer' = [answer EXCEPT ![u] = "done"]
    BY <1>5, AnswerOfUpdate DEF UpdateDone, Running
  <2>2. u \in Range(file)
    BY <1>5 DEF UpdateDone, SafeInv, FileInv
  <2>. QED BY <1>5, <2>1, <2>2, AppliedIsRange DEF UpdateDone, diskVars, readVars, Store!Answer, Store!Next
<1>6. CASE RunFails(u)
  <2>1. answer[u] = "none" /\ answer' = [answer EXCEPT ![u] = "failed"]
    BY <1>6, AnswerOfUpdate DEF RunFails, MayFail, Running
  <2>2. u \notin Range(file)
    BY <1>6 DEF RunFails, MayFail, SafeInv, FileInv
  <2>. QED BY <1>6, <2>1, <2>2, AppliedIsRange DEF RunFails, diskVars, readVars, Store!Answer, Store!Next
<1>. QED BY <1>1, <1>2, <1>3, <1>4, <1>5, <1>6 DEF RunStep

\* A read is a read.
LEMMA ReadRefines ==
    ASSUME NEW r \in Readers, ReadStep(r)
    PROVE  [Store!Next]_(Store!vars)
BY DEF ReadStep, ReadCalled, ReadOpens, ReadAnswered, ReadFails, diskVars, updateVars,
       Store!ReadCalled, Store!ReadTaken, Store!ReadAnswered, Store!ReadFails, Store!Next

\* For its callers the store is one state with atomic updates and reads, of
\* which a crash takes nothing: whatever fails and however often it is killed.
THEOREM StoreIsAtomic == Spec => ImplementsAtomicStore
<1>1. Init => Store!Init
  BY DEF Init, Store!Init, Running
<1>2. IInv /\ [Next]_vars => [Store!Next]_(Store!vars)
  <2>. SUFFICES ASSUME IInv, [Next]_vars PROVE [Store!Next]_(Store!vars)
    OBVIOUS
  <2>1. CASE UNCHANGED vars
    BY <2>1 DEF vars, diskVars, updateVars, readVars, Store!vars
  <2>. QED BY <2>1, ProcessRefines, UpdateRefines, ReadRefines DEF Next
<1>. QED BY <1>1, <1>2, SpecIInv, PTL DEF Spec, ImplementsAtomicStore, Store!Spec
=============================================================================
