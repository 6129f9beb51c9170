-------------------------- MODULE LayoutSyncProofs ---------------------------
(***************************************************************************)
(* Theorems about LayoutSync, for any number of browsers and edits.        *)
(*                                                                         *)
(* The invariant speaks of one client at a time, of what the server has    *)
(* stored, and of the edits there are: a step of one client cannot disturb *)
(* it for another, since layouts are only appended and edits only made.    *)
(***************************************************************************)
EXTENDS LayoutSync, TLAPS

\* The parts of TypeOK.
VariableTypes ==
    /\ saved \in Seq(Layouts)
    /\ made \in SUBSET Edits
    /\ phase \in [Clients -> {"closed", "loading", "ready", "failed", "gone"}]
    /\ state \in [Clients -> Layouts]
    /\ revision \in [Clients -> Revisions]
    /\ timer \in [Clients -> BOOLEAN]
    /\ hasty \in [Clients -> BOOLEAN]
    /\ undone \in [Clients -> BOOLEAN]
    /\ blind \in [Clients -> BOOLEAN]
    /\ DOMAIN lastPersisted = Clients
    /\ DOMAIN pending = Clients
    /\ DOMAIN cache = Clients

CallTypes == calls \in [Clients -> SUBSET CallRecords]

MemoTypes(c) ==
    /\ lastPersisted[c] = NoLayout \/ lastPersisted[c] \in Layouts
    /\ pending[c] = NoLayout \/ pending[c] \in Layouts
    /\ cache[c] = NoLayout \/ cache[c] \in Layouts

TimerRuns(c) == timer[c] <=> pending[c] # NoLayout /\ phase[c] \in {"ready", "failed"}

\* What a response says of the server.
ServedCall(k) ==
    /\ k.step \in {"loaded", "got"} => k.rev \in 0..Len(saved)
    /\ k.step = "saved" => k.rev \in 1..Len(saved) /\ saved[k.rev] = k.layout

\* KnownRevisionIsServers of one client.
Known(c) ==
    revision[c] > 0 => revision[c] <= Len(saved) /\ lastPersisted[c] = saved[revision[c]]

\* The load is the only call of a client that loads, and ends with it; edits
\* are pending where one has loaded, or failed to.
Phases(c) ==
    /\ phase[c] = "closed" => calls[c] = {}
    /\ phase[c] \in {"closed", "loading"} => revision[c] = NoRevision /\ pending[c] = NoLayout
    /\ phase[c] = "loading" => \A k1, k2 \in calls[c] : k1 = k2
    /\ phase[c] = "ready" => revision[c] # NoRevision
    /\ \A k \in calls[c] : phase[c] = "loading" <=> k.step \in {"load", "loaded"}
    /\ pending[c] # NoLayout => phase[c] = "ready" \/ (phase[c] = "failed" /\ blind[c])

\* Layouts show only what was made: an edit is never in a layout already.
MadeSaved == \A n \in 1..Len(saved) : saved[n] \subseteq made
Made(c) ==
    /\ state[c] \subseteq made
    /\ lastPersisted[c] # NoLayout => lastPersisted[c] \subseteq made
    /\ cache[c] # NoLayout => cache[c] \subseteq made
    /\ pending[c] # NoLayout => pending[c] \subseteq made
    /\ \A k \in calls[c] : k.layout \subseteq made

\* A user who waits for his saves, edits only what was loaded and undoes
\* nothing has one call under way at most, none while an edit is pending; what
\* is pending or being saved is what he sees and what his browser caches, and
\* it extends the layout of the revision it will replace.
Careful(c) == ~hasty[c] /\ ~undone[c] /\ ~blind[c]
CarefulCall(c, k) ==
    /\ k.step \notin {"load", "loaded"} => k.layout = state[c] /\ cache[c] = state[c]
    /\ k.step = "put" => k.rev \in 0..Len(saved)
    /\ k.step = "put" /\ k.rev > 0 => saved[k.rev] \subseteq k.layout
CarefulOK(c) ==
    /\ \A k1, k2 \in calls[c] : k1 = k2
    /\ pending[c] # NoLayout =>
          calls[c] = {} /\ pending[c] = state[c] /\ cache[c] = state[c]
    /\ \A k \in calls[c] : CarefulCall(c, k)
    /\ lastPersisted[c] # NoLayout => lastPersisted[c] \subseteq state[c]
    /\ calls[c] = {} /\ pending[c] = NoLayout /\ revision[c] # NoRevision =>
          state[c] = lastPersisted[c] \/ cache[c] = state[c]

ClientInv(c) ==
    /\ MemoTypes(c)
    /\ TimerRuns(c)
    /\ \A k \in calls[c] : ServedCall(k)
    /\ Known(c)
    /\ Phases(c)
    /\ Made(c)
    /\ Careful(c) => CarefulOK(c)

KeptInv == NobodyBlind /\ NobodyHasty /\ NobodyUndoes => NothingOverwritten

IInv ==
    /\ VariableTypes
    /\ CallTypes
    /\ MadeSaved
    /\ \A c \in Clients : ClientInv(c)
    /\ KeptInv

-----------------------------------------------------------------------------
\* Layouts are only appended, and edits are only made.
Grows ==
    /\ saved' \in Seq(Layouts)
    /\ Len(saved) <= Len(saved')
    /\ \A n \in 1..Len(saved) : saved'[n] = saved[n]
    /\ made \subseteq made'

\* Another client's step.
Keeps(d) ==
    /\ phase'[d] = phase[d] /\ state'[d] = state[d] /\ revision'[d] = revision[d]
    /\ lastPersisted'[d] = lastPersisted[d] /\ pending'[d] = pending[d] /\ timer'[d] = timer[d]
    /\ calls'[d] = calls[d] /\ cache'[d] = cache[d]
    /\ hasty'[d] = hasty[d] /\ undone'[d] = undone[d] /\ blind'[d] = blind[d]

\* A client that takes no part in a step keeps its invariant.
LEMMA OthersKeepInv ==
    ASSUME IInv, NEW d \in Clients, Grows, Keeps(d)
    PROVE  ClientInv(d)'
<1>0. ClientInv(d) /\ saved \in Seq(Layouts) /\ made \in SUBSET Edits /\ revision[d] \in Revisions
      /\ calls[d] \subseteq CallRecords
  BY DEF IInv, VariableTypes, CallTypes
<1>1. MemoTypes(d)' /\ TimerRuns(d)'
  BY <1>0 DEF Keeps, ClientInv, MemoTypes, TimerRuns
<1>2. ASSUME NEW k \in calls'[d] PROVE ServedCall(k)'
  BY <1>0, <1>2 DEF Keeps, Grows, ClientInv, ServedCall
<1>3. Known(d)'
  BY <1>0 DEF Keeps, Grows, ClientInv, Known, Revisions, NoRevision
<1>4. Phases(d)'
  BY <1>0 DEF Keeps, ClientInv, Phases
<1>5. Made(d)'
  BY <1>0 DEF Keeps, Grows, ClientInv, Made
<1>6. Careful(d)' => CarefulOK(d)'
  <2>. SUFFICES ASSUME Careful(d)' PROVE CarefulOK(d)'
    OBVIOUS
  <2>1. CarefulOK(d)
    BY <1>0 DEF Keeps, ClientInv, Careful
  <2>2. ASSUME NEW k \in calls'[d] PROVE CarefulCall(d, k)'
    BY <1>0, <2>1, <2>2 DEF Keeps, Grows, CarefulOK, CarefulCall
  <2>. QED BY <2>1, <2>2 DEF Keeps, CarefulOK
<1>. QED BY <1>1, <1>2, <1>3, <1>4, <1>5, <1>6 DEF ClientInv

\* What the server stores is a layout.
LEMMA StoredIsLayout ==
    ASSUME saved \in Seq(Layouts), NEW n \in 0..Len(saved)
    PROVE  /\ Stored(n) = NoLayout \/ Stored(n) \in Layouts
           /\ n > 0 => Stored(n) = saved[n] /\ saved[n] \in Layouts
           /\ Stored(n) # NoLayout => n > 0
BY NoLayoutAssumption DEF Stored

\* GET keeps the invariant.
LEMMA ServerReadsIInv ==
    ASSUME IInv, NEW c \in Clients, NEW k \in calls[c], ServerReads(c, k)
    PROVE  IInv'
<1>. USE NoLayoutAssumption
<1>0. ClientInv(c) /\ VariableTypes /\ CallTypes /\ MadeSaved /\ KeptInv /\ k \in CallRecords
  BY DEF IInv, CallTypes
<1>1. VariableTypes'
  BY <1>0 DEF VariableTypes, ServerReads, refVars, saveVars, historyVars
<1>2. CallTypes'
  BY <1>0 DEF CallTypes, ServerReads, Becomes, CallRecords, Call, Responses, Revisions
<1>3. Grows
  BY <1>0, <1>1 DEF Grows, VariableTypes, ServerReads
<1>4. ASSUME NEW d \in Clients, d # c PROVE Keeps(d)
  BY <1>0, <1>4 DEF Keeps, CallTypes, ServerReads, Becomes, refVars, saveVars, historyVars
<1>5. MadeSaved'
  BY <1>0 DEF MadeSaved, ServerReads
<1>6. KeptInv'
  BY <1>0 DEF KeptInv, NobodyBlind, NobodyHasty, NobodyUndoes, NothingOverwritten,
              ServerReads, historyVars
<1>7. ClientInv(c)'
  <2>1. MemoTypes(c)'
    BY <1>0 DEF ClientInv, MemoTypes, ServerReads, refVars, saveVars
  <2>2. TimerRuns(c)'
    BY <1>0 DEF ClientInv, TimerRuns, ServerReads, saveVars
  <2>3. ASSUME NEW q \in calls'[c] PROVE ServedCall(q)'
    BY <1>0, <2>3 DEF ClientInv, ServedCall, CallTypes, ServerReads, Becomes, Call
  <2>4. Known(c)'
    BY <1>0 DEF ClientInv, Known, ServerReads, refVars
  <2>5. Phases(c)'
    <3>1. \/ calls'[c] = (calls[c] \ {k}) \union {Call("loaded", k.layout, Len(saved))}
             /\ k.step = "load"
          \/ calls'[c] = (calls[c] \ {k}) \union {Call("got", k.layout, Len(saved))}
             /\ k.step = "get"
      BY <1>0 DEF CallTypes, ServerReads, Becomes
    <3>2. UNCHANGED <<phase[c], revision[c], pending[c], blind[c]>>
      BY <1>0 DEF ServerReads, refVars, saveVars, historyVars
    <3>. QED BY <1>0, <3>1, <3>2 DEF ClientInv, Phases, Call
  <2>6. Made(c)'
    BY <1>0 DEF ClientInv, Made, MadeSaved, CallTypes, ServerReads, Becomes, refVars,
                saveVars, historyVars, Call, Responses
  <2>7. Careful(c)' => CarefulOK(c)'
    BY <1>0 DEF ClientInv, Careful, CarefulOK, CarefulCall, Phases, ServedCall, TimerRuns,
                CallTypes, ServerReads, Becomes, refVars, saveVars, historyVars, Call,
                Requests, Responses
  <2>. QED BY <2>1, <2>2, <2>3, <2>4, <2>5, <2>6, <2>7 DEF ClientInv
<1>. QED BY <1>1, <1>2, <1>3, <1>4, <1>5, <1>6, <1>7, OthersKeepInv DEF IInv

\* PUT: only here a layout is stored, over the one its base extends.
LEMMA ServerSavesIInv ==
    ASSUME IInv, NEW c \in Clients, NEW k \in calls[c], ServerSaves(c, k)
    PROVE  IInv'
<1>. USE NoLayoutAssumption
<1>0. ClientInv(c) /\ VariableTypes /\ CallTypes /\ MadeSaved /\ KeptInv /\ k \in CallRecords
  BY DEF IInv, CallTypes
<1>01. k.step = "put" /\ k.layout \in Layouts
  BY <1>0 DEF ServerSaves, CallRecords
<1>02. \/ /\ Accepts(k.rev) /\ saved' = Append(saved, k.layout)
          /\ calls' = [calls EXCEPT ![c] = (@ \ {k}) \union {Call("saved", k.layout, Len(saved) + 1)}]
       \/ /\ ~Accepts(k.rev) /\ saved' = saved
          /\ calls' = [calls EXCEPT ![c] = (@ \ {k}) \union {Call("stale", k.layout, Len(saved))}]
  BY DEF ServerSaves, Becomes
<1>03. /\ saved' \in Seq(Layouts)
       /\ \/ Len(saved') = Len(saved) + 1 /\ saved'[Len(saved')] = k.layout /\ Accepts(k.rev)
          \/ Len(saved') = Len(saved)
       /\ \A n \in 1..Len(saved) : saved'[n] = saved[n]
  <2>1. saved \in Seq(Layouts)
    BY <1>0 DEF VariableTypes
  <2>2. CASE saved' = Append(saved, k.layout) /\ Accepts(k.rev)
    <3>. HIDE DEF Accepts
    <3>. QED BY <1>01, <2>1, <2>2
  <2>3. CASE saved' = saved
    BY <2>1, <2>3
  <2>. QED BY <1>02, <2>2, <2>3
<1>1. VariableTypes'
  BY <1>0, <1>03 DEF VariableTypes, ServerSaves, refVars, saveVars, historyVars
<1>2. CallTypes'
  <2>1. Len(saved) \in Nat
    BY <1>0
  <2>2. /\ Call("saved", k.layout, Len(saved) + 1) \in CallRecords
        /\ Call("stale", k.layout, Len(saved)) \in CallRecords
    BY <1>01, <2>1 DEF CallRecords, Call, Responses, Revisions
  <2>. HIDE DEF Call, CallRecords
  <2>. QED BY <1>0, <1>02, <2>2 DEF CallTypes
<1>3. Grows
  BY <1>0, <1>1 DEF Grows, VariableTypes, ServerSaves, Becomes, historyVars, Responses
<1>4. ASSUME NEW d \in Clients, d # c PROVE Keeps(d)
  BY <1>0, <1>4 DEF Keeps, CallTypes, ServerSaves, Becomes, refVars, saveVars, historyVars
<1>5. MadeSaved'
  BY <1>0 DEF MadeSaved, ClientInv, Made, ServerSaves, refVars, saveVars, historyVars,
              Requests, Responses
<1>6. KeptInv'
  <2>. SUFFICES ASSUME (NobodyBlind /\ NobodyHasty /\ NobodyUndoes)'
                PROVE  NothingOverwritten'
    BY DEF KeptInv
  <2>1. NothingOverwritten /\ Careful(c)
    BY <1>0 DEF ServerSaves, historyVars, KeptInv, NobodyBlind, NobodyHasty, NobodyUndoes,
                Careful
  <2>2. CarefulCall(c, k)
    BY <1>0, <2>1 DEF ClientInv, CarefulOK
  <2>3. ASSUME Accepts(k.rev), Len(saved) > 0 PROVE saved[Len(saved)] \subseteq k.layout
    BY <1>0, <1>01, <2>2, <2>3 DEF CarefulCall, Accepts, NoRevision
  <2>4. Len(saved) \in Nat
    BY <1>0
  <2>. QED BY <1>03, <2>1, <2>3, <2>4 DEF NothingOverwritten
<1>7. ClientInv(c)'
  <2>1. MemoTypes(c)'
    BY <1>0 DEF ClientInv, MemoTypes, ServerSaves, refVars, saveVars
  <2>2. TimerRuns(c)'
    BY <1>0 DEF ClientInv, TimerRuns, ServerSaves, saveVars
  <2>3. ASSUME NEW q \in calls'[c] PROVE ServedCall(q)'
    BY <1>0, <2>3 DEF ClientInv, ServedCall, CallTypes, ServerSaves, Becomes, Call
  <2>4. Known(c)'
    <3>1. revision'[c] = revision[c] /\ lastPersisted'[c] = lastPersisted[c] /\ revision[c] \in Int
      BY <1>0 DEF ServerSaves, refVars, VariableTypes, Revisions, NoRevision
    <3>2. Len(saved) \in Nat
      BY <1>0
    <3>. QED BY <1>0, <1>03, <3>1, <3>2 DEF ClientInv, Known
  <2>5. Phases(c)'
    <3>1. \/ calls'[c] = (calls[c] \ {k}) \union {Call("saved", k.layout, Len(saved) + 1)}
          \/ calls'[c] = (calls[c] \ {k}) \union {Call("stale", k.layout, Len(saved))}
      BY <1>0, <1>02 DEF CallTypes
    <3>2. UNCHANGED <<phase[c], revision[c], pending[c], blind[c]>>
      BY <1>0 DEF ServerSaves, refVars, saveVars, historyVars
    <3>. QED BY <1>0, <1>01, <3>1, <3>2 DEF ClientInv, Phases, Call
  <2>6. Made(c)'
    BY <1>0 DEF ClientInv, Made, TimerRuns, CallTypes, ServerSaves, Becomes, refVars,
                saveVars, Call, Requests
  <2>7. Careful(c)' => CarefulOK(c)'
    BY <1>0 DEF ClientInv, Careful, CarefulOK, CarefulCall, Known, ServedCall, CallTypes,
                ServerSaves, Becomes, refVars, saveVars, historyVars, Call, Responses
  <2>. QED BY <2>1, <2>2, <2>3, <2>4, <2>5, <2>6, <2>7 DEF ClientInv
<1>. QED BY <1>1, <1>2, <1>3, <1>4, <1>5, <1>6, <1>7, OthersKeepInv DEF IInv

\* Opening keeps it.
LEMMA OpensIInv ==
    ASSUME IInv, NEW c \in Clients, Opens(c)
    PROVE  IInv'
<1>. USE NoLayoutAssumption
<1>0. ClientInv(c) /\ VariableTypes /\ CallTypes /\ MadeSaved /\ KeptInv
  BY DEF IInv
<1>1. VariableTypes'
  BY <1>0 DEF VariableTypes, Opens, refVars, saveVars, historyVars
<1>2. CallTypes'
  BY <1>0 DEF CallTypes, Opens, CallRecords, Call, Requests, Revisions, Layouts
<1>3. Grows
  BY <1>0, <1>1 DEF Grows, VariableTypes, Opens
<1>4. ASSUME NEW d \in Clients, d # c PROVE Keeps(d)
  BY <1>0, <1>4 DEF Keeps, Opens, refVars, saveVars, historyVars
<1>5. MadeSaved'
  BY <1>0 DEF MadeSaved, Opens
<1>6. KeptInv'
  BY <1>0 DEF KeptInv, NobodyBlind, NobodyHasty, NobodyUndoes, NothingOverwritten, Opens,
              refVars, historyVars, Call, NoRevision
<1>7. ClientInv(c)'
  <2>1. MemoTypes(c)'
    BY <1>0 DEF ClientInv, MemoTypes, Opens, refVars, saveVars
  <2>2. TimerRuns(c)'
    BY <1>0 DEF ClientInv, TimerRuns, Opens, saveVars
  <2>3. ASSUME NEW q \in calls'[c] PROVE ServedCall(q)'
    BY <1>0, <2>3 DEF ServedCall, CallTypes, Opens, Call
  <2>4. Known(c)'
    BY <1>0 DEF ClientInv, Known, Opens, refVars
  <2>5. Phases(c)'
    <3>1. /\ calls'[c] = {Call("load", {}, NoRevision)}
          /\ phase[c] = "closed" /\ phase'[c] = "loading"
          /\ UNCHANGED <<revision[c], pending[c], blind[c]>>
      BY <1>0 DEF VariableTypes, CallTypes, Opens, refVars, saveVars, historyVars
    <3>2. \A q \in calls'[c] : q.step = "load" /\ q = Call("load", {}, NoRevision)
      BY <3>1 DEF Call
    <3>. QED BY <1>0, <3>1, <3>2 DEF ClientInv, Phases
  <2>6. Made(c)'
    BY <1>0 DEF ClientInv, Made, Opens, refVars, saveVars, Call
  <2>7. Careful(c)' => CarefulOK(c)'
    <3>1. /\ calls'[c] = {Call("load", {}, NoRevision)}
          /\ UNCHANGED <<state[c], lastPersisted[c], pending[c], cache[c], hasty[c], undone[c], blind[c]>>
      BY <1>0 DEF CallTypes, Opens, refVars, saveVars, historyVars
    <3>2. pending[c] = NoLayout
      <4>1. Phases(c) /\ phase[c] = "closed"
        BY <1>0 DEF Opens, ClientInv
      <4>. QED BY <4>1 DEF Phases
    <3>3. /\ calls'[c] # {}
          /\ \A q \in calls'[c] : q.step = "load" /\ CarefulCall(c, q)'
          /\ \A k1, k2 \in calls'[c] : k1 = k2
      BY <3>1 DEF CarefulCall, Call
    <3>4. SUFFICES ASSUME Careful(c)' PROVE CarefulOK(c)'
      OBVIOUS
    <3>5. CarefulOK(c)
      BY <1>0, <3>1, <3>4 DEF ClientInv, Careful
    <3>. QED BY <3>1, <3>2, <3>3, <3>5 DEF CarefulOK
  <2>. QED BY <2>1, <2>2, <2>3, <2>4, <2>5, <2>6, <2>7 DEF ClientInv
<1>. QED BY <1>1, <1>2, <1>3, <1>4, <1>5, <1>6, <1>7, OthersKeepInv DEF IInv

\* The loaded, the migrated or the empty layout.
LEMMA HydratesIInv ==
    ASSUME IInv, NEW c \in Clients, NEW k \in calls[c], Hydrates(c, k)
    PROVE  IInv'
<1>. USE NoLayoutAssumption
<1>0. ClientInv(c) /\ VariableTypes /\ CallTypes /\ MadeSaved /\ KeptInv /\ k \in CallRecords
  BY DEF IInv, CallTypes
<1>01. ServedCall(k) /\ k.step = "loaded"
  BY <1>0 DEF ClientInv, Hydrates
<1>02. k.rev \in 0..Len(saved)
  BY <1>01 DEF ServedCall
<1>03. Stored(k.rev) = NoLayout \/ Stored(k.rev) \in Layouts
  BY <1>0, <1>02, StoredIsLayout DEF VariableTypes
<1>04. PICK layout \in Layouts :
         /\ state' = [state EXCEPT ![c] = layout]
         /\ lastPersisted' = [lastPersisted EXCEPT ![c] = layout]
  BY <1>0, <1>03 DEF Hydrates, ClientInv, MemoTypes, Layouts
<1>1. VariableTypes'
  <2>1. k.rev \in Revisions
    BY <1>0, <1>02 DEF Revisions
  <2>2. /\ revision' = [revision EXCEPT ![c] = k.rev]
        /\ phase' = [phase EXCEPT ![c] = "ready"]
        /\ UNCHANGED <<saved, made, pending, timer, cache, hasty, undone, blind>>
    BY DEF Hydrates, saveVars, historyVars
  <2>. QED BY <1>0, <1>04, <2>1, <2>2 DEF VariableTypes
<1>2. CallTypes'
  BY <1>0 DEF CallTypes, ClientInv, MemoTypes, Hydrates, CallRecords, Call, Requests
<1>3. Grows
  BY <1>0, <1>1 DEF Grows, VariableTypes, Hydrates
<1>4. ASSUME NEW d \in Clients, d # c PROVE Keeps(d)
  BY <1>0, <1>4 DEF Keeps, Hydrates, saveVars, historyVars
<1>5. MadeSaved'
  BY <1>0 DEF MadeSaved, Hydrates
<1>6. KeptInv'
  BY <1>0 DEF KeptInv, NobodyBlind, NobodyHasty, NobodyUndoes, NothingOverwritten, Hydrates,
              historyVars
<1>7. ClientInv(c)'
  <2>1. MemoTypes(c)'
    BY <1>0, <1>04 DEF ClientInv, MemoTypes, VariableTypes, Hydrates, saveVars
  <2>2. TimerRuns(c)'
    BY <1>0 DEF ClientInv, TimerRuns, Phases, Hydrates, saveVars
  <2>3. ASSUME NEW q \in calls'[c] PROVE ServedCall(q)'
    BY <1>0, <2>3 DEF ClientInv, ServedCall, Hydrates, Call
  <2>4. Known(c)'
    BY <1>0 DEF ClientInv, Known, ServedCall, VariableTypes, Hydrates, Stored, Layouts
  <2>5. Phases(c)'
    BY <1>0 DEF ClientInv, Phases, ServedCall, VariableTypes, CallTypes, Hydrates, Call,
                NoRevision
  <2>6. Made(c)'
    BY <1>0 DEF ClientInv, Made, ServedCall, MadeSaved, Hydrates, Stored, saveVars, Call
  <2>7. Careful(c)' => CarefulOK(c)'
    BY <1>0 DEF ClientInv, CarefulOK, CarefulCall, Phases, ServedCall, VariableTypes,
                Hydrates, Stored, saveVars, Call, Layouts
  <2>. QED BY <2>1, <2>2, <2>3, <2>4, <2>5, <2>6, <2>7 DEF ClientInv
<1>. QED BY <1>1, <1>2, <1>3, <1>4, <1>5, <1>6, <1>7, OthersKeepInv DEF IInv

\* A failed load.
LEMMA LoadFailsIInv ==
    ASSUME IInv, NEW c \in Clients, NEW k \in calls[c], LoadFails(c, k)
    PROVE  IInv'
<1>. USE NoLayoutAssumption
<1>0. ClientInv(c) /\ VariableTypes /\ CallTypes /\ MadeSaved /\ KeptInv /\ k \in CallRecords
  BY DEF IInv, CallTypes
<1>1. VariableTypes'
  BY <1>0 DEF VariableTypes, LoadFails, refVars, saveVars, historyVars
<1>2. CallTypes'
  BY <1>0 DEF CallTypes, LoadFails, Returns
<1>3. Grows
  BY <1>0, <1>1 DEF Grows, VariableTypes, LoadFails
<1>4. ASSUME NEW d \in Clients, d # c PROVE Keeps(d)
  BY <1>0, <1>4 DEF Keeps, LoadFails, Returns, refVars, saveVars, historyVars
<1>5. MadeSaved'
  BY <1>0 DEF MadeSaved, LoadFails
<1>6. KeptInv'
  BY <1>0 DEF KeptInv, NobodyBlind, NobodyHasty, NobodyUndoes, NothingOverwritten,
              LoadFails, historyVars
<1>7. ClientInv(c)'
  <2>1. MemoTypes(c)'
    BY <1>0 DEF ClientInv, MemoTypes, LoadFails, refVars, saveVars
  <2>2. TimerRuns(c)'
    BY <1>0 DEF ClientInv, TimerRuns, Phases, LoadFails, saveVars
  <2>3. ASSUME NEW q \in calls'[c] PROVE ServedCall(q)'
    BY <1>0, <2>3 DEF ClientInv, ServedCall, LoadFails, Returns
  <2>4. Known(c)'
    BY <1>0 DEF ClientInv, Known, LoadFails, refVars
  <2>5. Phases(c)'
    BY <1>0 DEF ClientInv, Phases, VariableTypes, CallTypes, LoadFails, Returns, saveVars
  <2>6. Made(c)'
    BY <1>0 DEF ClientInv, Made, LoadFails, Returns, refVars, saveVars
  <2>7. Careful(c)' => CarefulOK(c)'
    BY <1>0 DEF ClientInv, Careful, CarefulOK, Phases, CallTypes, LoadFails, Returns,
                refVars, saveVars, historyVars
  <2>. QED BY <2>1, <2>2, <2>3, <2>4, <2>5, <2>6, <2>7 DEF ClientInv
<1>. QED BY <1>1, <1>2, <1>3, <1>4, <1>5, <1>6, <1>7, OthersKeepInv DEF IInv

\* An edit: where it is careful, the first call after it is its save.
LEMMA EditIInv ==
    ASSUME IInv, NEW c \in Clients, NEW e \in Edits, Edit(c, e)
    PROVE  IInv'
<1>. USE NoLayoutAssumption
<1>0. ClientInv(c) /\ VariableTypes /\ CallTypes /\ MadeSaved /\ KeptInv
  BY DEF IInv
<1>1. VariableTypes'
  BY <1>0 DEF VariableTypes, ClientInv, MemoTypes, Edit, Changes, Rearmed, refVars,
              saveVars, historyVars, CallRecords, Call, Requests, Responses, Revisions,
              NoRevision, Layouts
<1>2. CallTypes'
  BY <1>0 DEF CallTypes, Edit, Changes
<1>3. Grows
  BY <1>0, <1>1 DEF Grows, VariableTypes, Edit, Changes
<1>4. ASSUME NEW d \in Clients, d # c PROVE Keeps(d)
  BY <1>0, <1>4 DEF Keeps, VariableTypes, Edit, Changes
<1>5. MadeSaved'
  BY <1>0 DEF MadeSaved, Edit, Changes
<1>6. KeptInv'
  BY <1>0 DEF KeptInv, NobodyBlind, NobodyHasty, NobodyUndoes, NothingOverwritten,
              VariableTypes, Edit, Changes
<1>7. ClientInv(c)'
  <2>1. MemoTypes(c)'
    BY <1>0 DEF ClientInv, MemoTypes, VariableTypes, Edit, Changes, Layouts
  <2>2. TimerRuns(c)'
    <3>1. phase'[c] = phase[c] /\ phase[c] \in {"ready", "failed"}
      BY DEF Edit, Changes
    <3>2. \/ timer'[c] = TRUE /\ pending'[c] # NoLayout
          \/ timer'[c] = timer[c] /\ pending'[c] = pending[c]
      BY <1>0, <2>1 DEF Edit, Changes, Rearmed, VariableTypes, Layouts
    <3>. QED BY <1>0, <3>1, <3>2 DEF ClientInv, TimerRuns
  <2>3. ASSUME NEW q \in calls'[c] PROVE ServedCall(q)'
    BY <1>0, <2>3 DEF ClientInv, ServedCall, Edit, Changes
  <2>4. Known(c)'
    BY <1>0 DEF ClientInv, Known, Edit, Changes
  <2>5. Phases(c)'
    BY <1>0 DEF ClientInv, Phases, ServedCall, VariableTypes, CallTypes, Edit, Changes,
                Rearmed, refVars, saveVars, historyVars, CallRecords, Call, Requests,
                Responses, Revisions, NoRevision, Layouts
  <2>6. Made(c)'
    BY <1>0 DEF ClientInv, Made, VariableTypes, Edit, Changes
  <2>7. Careful(c)' => CarefulOK(c)'
    BY <1>0 DEF ClientInv, Careful, CarefulOK, CarefulCall, Known, Phases, ServedCall,
                TimerRuns, VariableTypes, CallTypes, Edit, Changes, Rearmed, refVars,
                saveVars, historyVars, CallRecords, Call, Requests, Responses, Revisions,
                NoRevision, Layouts
  <2>. QED BY <2>1, <2>2, <2>3, <2>4, <2>5, <2>6, <2>7 DEF ClientInv
<1>. QED BY <1>1, <1>2, <1>3, <1>4, <1>5, <1>6, <1>7, OthersKeepInv DEF IInv

\* An undone edit is not careful any more.
LEMMA UndoIInv ==
    ASSUME IInv, NEW c \in Clients, Undo(c)
    PROVE  IInv'
<1>. USE NoLayoutAssumption
<1>0. ClientInv(c) /\ VariableTypes /\ CallTypes /\ MadeSaved /\ KeptInv
  BY DEF IInv
<1>1. VariableTypes'
  BY <1>0 DEF VariableTypes, ClientInv, MemoTypes, Undo, Changes
<1>2. CallTypes'
  BY <1>0 DEF CallTypes, Undo, Changes
<1>3. Grows
  BY <1>0, <1>1 DEF Grows, VariableTypes, Undo, Changes
<1>4. ASSUME NEW d \in Clients, d # c PROVE Keeps(d)
  BY <1>0, <1>4 DEF Keeps, Undo, Changes
<1>5. MadeSaved'
  BY <1>0 DEF MadeSaved, Undo, Changes
<1>6. KeptInv'
  BY <1>0 DEF KeptInv, NobodyUndoes, VariableTypes, Undo
<1>7. ClientInv(c)'
  <2>1. MemoTypes(c)'
    BY <1>0 DEF ClientInv, MemoTypes, Undo, Changes
  <2>2. TimerRuns(c)'
    BY <1>0 DEF ClientInv, TimerRuns, Undo, Changes
  <2>3. ASSUME NEW q \in calls'[c] PROVE ServedCall(q)'
    BY <1>0, <2>3 DEF ClientInv, ServedCall, Undo, Changes
  <2>4. Known(c)'
    BY <1>0 DEF ClientInv, Known, Undo, Changes
  <2>5. Phases(c)'
    BY <1>0 DEF ClientInv, Phases, Undo, Changes
  <2>6. Made(c)'
    BY <1>0 DEF ClientInv, Made, Undo, Changes
  <2>7. Careful(c)' => CarefulOK(c)'
    BY <1>0 DEF Careful, VariableTypes, Undo
  <2>. QED BY <2>1, <2>2, <2>3, <2>4, <2>5, <2>6, <2>7 DEF ClientInv
<1>. QED BY <1>1, <1>2, <1>3, <1>4, <1>5, <1>6, <1>7, OthersKeepInv DEF IInv

\* The debounce ends.
LEMMA TimerFiresIInv ==
    ASSUME IInv, NEW c \in Clients, TimerFires(c)
    PROVE  IInv'
<1>. USE NoLayoutAssumption
<1>0. ClientInv(c) /\ VariableTypes /\ CallTypes /\ MadeSaved /\ KeptInv
  BY DEF IInv
<1>1. VariableTypes'
  BY <1>0 DEF VariableTypes, TimerFires, refVars, historyVars
<1>2. CallTypes'
  BY <1>0 DEF VariableTypes, CallTypes, ClientInv, MemoTypes, TimerRuns, TimerFires,
              CallRecords, Call, Requests
<1>3. Grows
  BY <1>0, <1>1 DEF Grows, VariableTypes, TimerFires
<1>4. ASSUME NEW d \in Clients, d # c PROVE Keeps(d)
  BY <1>0, <1>4 DEF Keeps, TimerFires, refVars, historyVars
<1>5. MadeSaved'
  BY <1>0 DEF MadeSaved, TimerFires
<1>6. KeptInv'
  BY <1>0 DEF KeptInv, NobodyBlind, NobodyHasty, NobodyUndoes, NothingOverwritten,
              TimerFires, historyVars, Call
<1>7. ClientInv(c)'
  <2>1. MemoTypes(c)'
    BY <1>0 DEF ClientInv, MemoTypes, TimerFires, refVars
  <2>2. TimerRuns(c)'
    BY <1>0 DEF TimerRuns, VariableTypes, TimerFires
  <2>3. ASSUME NEW q \in calls'[c] PROVE ServedCall(q)'
    BY <1>0, <2>3 DEF ClientInv, ServedCall, TimerFires, Call
  <2>4. Known(c)'
    BY <1>0 DEF ClientInv, Known, TimerFires, refVars
  <2>5. Phases(c)'
    <3>1. /\ calls'[c] = calls[c] \union {Call("put", pending[c], revision[c])}
          /\ pending'[c] = NoLayout
          /\ UNCHANGED <<phase[c], revision[c], blind[c]>>
      BY <1>0 DEF VariableTypes, CallTypes, TimerFires, refVars, historyVars
    <3>2. phase[c] \in {"ready", "failed"}
      BY <1>0 DEF TimerFires, ClientInv, TimerRuns
    <3>. QED BY <1>0, <3>1, <3>2 DEF ClientInv, Phases, Call
  <2>6. Made(c)'
    BY <1>0 DEF ClientInv, Made, TimerRuns, TimerFires, refVars, Call
  <2>7. Careful(c)' => CarefulOK(c)'
    BY <1>0 DEF ClientInv, Careful, CarefulOK, CarefulCall, Known, Phases, TimerRuns,
                VariableTypes, TimerFires, refVars, historyVars, Call, Revisions, Layouts
  <2>. QED BY <2>1, <2>2, <2>3, <2>4, <2>5, <2>6, <2>7 DEF ClientInv
<1>. QED BY <1>1, <1>2, <1>3, <1>4, <1>5, <1>6, <1>7, OthersKeepInv DEF IInv

\* The flush at unmount.
LEMMA UnmountsIInv ==
    ASSUME IInv, NEW c \in Clients, Unmounts(c)
    PROVE  IInv'
<1>. USE NoLayoutAssumption
<1>0. ClientInv(c) /\ VariableTypes /\ CallTypes /\ MadeSaved /\ KeptInv
  BY DEF IInv
<1>1. VariableTypes'
  BY <1>0 DEF VariableTypes, Unmounts, refVars, historyVars
<1>2. CallTypes'
  BY <1>0 DEF VariableTypes, CallTypes, ClientInv, MemoTypes, Unmounts, CallRecords, Call,
              Requests
<1>3. Grows
  BY <1>0, <1>1 DEF Grows, VariableTypes, Unmounts
<1>4. ASSUME NEW d \in Clients, d # c PROVE Keeps(d)
  BY <1>0, <1>4 DEF Keeps, VariableTypes, CallTypes, Unmounts, refVars, historyVars
<1>5. MadeSaved'
  BY <1>0 DEF MadeSaved, Unmounts
<1>6. KeptInv'
  BY <1>0 DEF KeptInv, NobodyBlind, NobodyHasty, NobodyUndoes, NothingOverwritten, Unmounts,
              historyVars
<1>7. ClientInv(c)'
  <2>1. MemoTypes(c)'
    BY <1>0 DEF ClientInv, MemoTypes, VariableTypes, Unmounts, refVars
  <2>2. TimerRuns(c)'
    BY <1>0 DEF TimerRuns, VariableTypes, Unmounts
  <2>3. ASSUME NEW q \in calls'[c] PROVE ServedCall(q)'
    BY <1>0, <2>3 DEF ClientInv, ServedCall, CallTypes, Unmounts, Call
  <2>4. Known(c)'
    BY <1>0 DEF ClientInv, Known, Unmounts, refVars
  <2>5. Phases(c)'
    BY <1>0 DEF Phases, VariableTypes, CallTypes, Unmounts, Loads, Call
  <2>6. Made(c)'
    BY <1>0 DEF ClientInv, Made, VariableTypes, CallTypes, Unmounts, Loads, refVars, Call
  <2>7. Careful(c)' => CarefulOK(c)'
    BY <1>0 DEF ClientInv, Careful, CarefulOK, CarefulCall, Known, Phases, TimerRuns,
                VariableTypes, CallTypes, Unmounts, refVars, historyVars, Call, Requests,
                Responses, Revisions, NoRevision, Layouts
  <2>. QED BY <2>1, <2>2, <2>3, <2>4, <2>5, <2>6, <2>7 DEF ClientInv
<1>. QED BY <1>1, <1>2, <1>3, <1>4, <1>5, <1>6, <1>7, OthersKeepInv DEF IInv

\* A save returns.
LEMMA SaveReturnsIInv ==
    ASSUME IInv, NEW c \in Clients, NEW k \in calls[c], SaveReturns(c, k)
    PROVE  IInv'
<1>. USE NoLayoutAssumption
<1>0. ClientInv(c) /\ VariableTypes /\ CallTypes /\ MadeSaved /\ KeptInv /\ k \in CallRecords
  BY DEF IInv, CallTypes
<1>1. VariableTypes'
  BY <1>0 DEF VariableTypes, SaveReturns, saveVars, historyVars, CallRecords
<1>2. CallTypes'
  BY <1>0 DEF CallTypes, SaveReturns, Returns
<1>3. Grows
  BY <1>0, <1>1 DEF Grows, VariableTypes, SaveReturns
<1>4. ASSUME NEW d \in Clients, d # c PROVE Keeps(d)
  BY <1>0, <1>4 DEF Keeps, SaveReturns, Returns, saveVars, historyVars
<1>5. MadeSaved'
  BY <1>0 DEF MadeSaved, SaveReturns
<1>6. KeptInv'
  BY <1>0 DEF KeptInv, NobodyBlind, NobodyHasty, NobodyUndoes, NothingOverwritten,
              SaveReturns, historyVars
<1>7. ClientInv(c)'
  <2>1. MemoTypes(c)'
    <3>1. k.rev \in 1..Len(saved)
      BY <1>0 DEF SaveReturns, ClientInv, ServedCall
    <3>2. Stored(k.rev) \in Layouts
      BY <1>0, <3>1, StoredIsLayout DEF VariableTypes
    <3>. QED BY <1>0, <3>2 DEF SaveReturns, Persisted, ClientInv, MemoTypes, saveVars
  <2>2. TimerRuns(c)'
    BY <1>0 DEF ClientInv, TimerRuns, SaveReturns, saveVars
  <2>3. ASSUME NEW q \in calls'[c] PROVE ServedCall(q)'
    BY <1>0, <2>3 DEF ClientInv, ServedCall, SaveReturns, Returns
  <2>4. Known(c)'
    BY <1>0 DEF ClientInv, Known, ServedCall, VariableTypes, SaveReturns, Persisted, Stored
  <2>5. Phases(c)'
    <3>1. k.rev \in 1..Len(saved) /\ k.step = "saved"
      BY <1>0 DEF SaveReturns, ClientInv, ServedCall
    <3>2. /\ calls'[c] = calls[c] \ {k}
          /\ revision'[c] = k.rev /\ k.rev # NoRevision
          /\ UNCHANGED <<phase[c], pending[c], blind[c]>>
      BY <1>0, <3>1 DEF VariableTypes, CallTypes, SaveReturns, Returns, saveVars,
                        historyVars, NoRevision
    <3>3. phase[c] # "loading" /\ phase[c] # "closed"
      <4>1. Phases(c)
        BY <1>0 DEF ClientInv
      <4>. QED BY <3>1, <4>1 DEF Phases
    <3>. QED BY <1>0, <3>2, <3>3 DEF ClientInv, Phases
  <2>6. Made(c)'
    BY <1>0 DEF ClientInv, Made, ServedCall, SaveReturns, Persisted, Stored, Returns,
                saveVars
  <2>7. Careful(c)' => CarefulOK(c)'
    BY <1>0 DEF ClientInv, Careful, CarefulOK, CarefulCall, ServedCall, SaveReturns,
                Persisted, Stored, Returns, saveVars, historyVars
  <2>. QED BY <2>1, <2>2, <2>3, <2>4, <2>5, <2>6, <2>7 DEF ClientInv
<1>. QED BY <1>1, <1>2, <1>3, <1>4, <1>5, <1>6, <1>7, OthersKeepInv DEF IInv

\* A conflict.
LEMMA ConflictReturnsIInv ==
    ASSUME IInv, NEW c \in Clients, NEW k \in calls[c], ConflictReturns(c, k)
    PROVE  IInv'
<1>. USE NoLayoutAssumption
<1>0. ClientInv(c) /\ VariableTypes /\ CallTypes /\ MadeSaved /\ KeptInv /\ k \in CallRecords
  BY DEF IInv, CallTypes
<1>1. VariableTypes'
  BY <1>0 DEF VariableTypes, ConflictReturns, refVars, saveVars, historyVars
<1>2. CallTypes'
  BY <1>0 DEF CallTypes, ConflictReturns, Becomes, CallRecords, Call, Requests, Revisions
<1>3. Grows
  BY <1>0, <1>1 DEF Grows, VariableTypes, ConflictReturns
<1>4. ASSUME NEW d \in Clients, d # c PROVE Keeps(d)
  BY <1>0, <1>4 DEF Keeps, ConflictReturns, Becomes, refVars, saveVars, historyVars
<1>5. MadeSaved'
  BY <1>0 DEF MadeSaved, ConflictReturns
<1>6. KeptInv'
  BY <1>0 DEF KeptInv, NobodyBlind, NobodyHasty, NobodyUndoes, NothingOverwritten,
              ConflictReturns, historyVars
<1>7. ClientInv(c)'
  <2>1. MemoTypes(c)'
    BY <1>0 DEF ClientInv, MemoTypes, ConflictReturns, refVars, saveVars
  <2>2. TimerRuns(c)'
    BY <1>0 DEF ClientInv, TimerRuns, ConflictReturns, saveVars
  <2>3. ASSUME NEW q \in calls'[c] PROVE ServedCall(q)'
    BY <1>0, <2>3 DEF ClientInv, ServedCall, ConflictReturns, Becomes, Call
  <2>4. Known(c)'
    BY <1>0 DEF ClientInv, Known, ConflictReturns, refVars
  <2>5. Phases(c)'
    BY <1>0 DEF ClientInv, Phases, ConflictReturns, Becomes, refVars, saveVars, historyVars,
                Call
  <2>6. Made(c)'
    BY <1>0 DEF ClientInv, Made, ConflictReturns, Becomes, refVars, saveVars, Call
  <2>7. Careful(c)' => CarefulOK(c)'
    BY <1>0 DEF ClientInv, Careful, CarefulOK, CarefulCall, ConflictReturns, Becomes,
                refVars, saveVars, historyVars, Call
  <2>. QED BY <2>1, <2>2, <2>3, <2>4, <2>5, <2>6, <2>7 DEF ClientInv
<1>. QED BY <1>1, <1>2, <1>3, <1>4, <1>5, <1>6, <1>7, OthersKeepInv DEF IInv

\* The server's layout is adopted.
LEMMA AdoptsIInv ==
    ASSUME IInv, NEW c \in Clients, NEW k \in calls[c], Adopts(c, k)
    PROVE  IInv'
<1>. USE NoLayoutAssumption
<1>0. ClientInv(c) /\ VariableTypes /\ CallTypes /\ MadeSaved /\ KeptInv /\ k \in CallRecords
  BY DEF IInv, CallTypes
<1>01. ServedCall(k) /\ k.step = "got"
  BY <1>0 DEF ClientInv, Adopts
<1>02. k.rev \in 0..Len(saved)
  BY <1>01 DEF ServedCall
<1>03. Stored(k.rev) = NoLayout \/ Stored(k.rev) \in Layouts
  BY <1>0, <1>02, StoredIsLayout DEF VariableTypes
<1>1. VariableTypes'
  BY <1>0, <1>02, <1>03 DEF VariableTypes, Adopts, Adopted, saveVars, historyVars, Revisions
<1>2. CallTypes'
  BY <1>0 DEF CallTypes, Adopts, Returns
<1>3. Grows
  BY <1>0, <1>1 DEF Grows, VariableTypes, Adopts
<1>4. ASSUME NEW d \in Clients, d # c PROVE Keeps(d)
  BY <1>0, <1>4 DEF Keeps, VariableTypes, Adopts, Returns, saveVars, historyVars
<1>5. MadeSaved'
  BY <1>0 DEF MadeSaved, Adopts
<1>6. KeptInv'
  BY <1>0 DEF KeptInv, NobodyBlind, NobodyHasty, NobodyUndoes, NothingOverwritten, Adopts,
              Returns, historyVars
<1>7. ClientInv(c)'
  <2>1. MemoTypes(c)'
    BY <1>0, <1>03 DEF ClientInv, MemoTypes, VariableTypes, Adopts, saveVars
  <2>2. TimerRuns(c)'
    BY <1>0 DEF ClientInv, TimerRuns, Adopts, saveVars
  <2>3. ASSUME NEW q \in calls'[c] PROVE ServedCall(q)'
    BY <1>0, <2>3 DEF ClientInv, ServedCall, Adopts, Returns
  <2>4. Known(c)'
    BY <1>0 DEF ClientInv, Known, ServedCall, VariableTypes, Adopts, Stored, Layouts
  <2>5. Phases(c)'
    <3>1. /\ calls'[c] = calls[c] \ {k}
          /\ revision'[c] = k.rev /\ k.rev # NoRevision
          /\ UNCHANGED <<phase[c], pending[c], blind[c]>>
      BY <1>0, <1>02 DEF VariableTypes, CallTypes, Adopts, Returns, saveVars, historyVars,
                         NoRevision
    <3>2. phase[c] # "loading" /\ phase[c] # "closed"
      <4>1. Phases(c)
        BY <1>0 DEF ClientInv
      <4>. QED BY <1>01, <4>1 DEF Phases
    <3>. QED BY <1>0, <3>1, <3>2 DEF ClientInv, Phases
  <2>6. Made(c)'
    BY <1>0 DEF ClientInv, Made, ServedCall, MadeSaved, VariableTypes, CallTypes, Adopts,
                Adopted, Stored, Returns, saveVars
  <2>7. Careful(c)' => CarefulOK(c)'
    BY <1>0 DEF ClientInv, Careful, CarefulOK, CarefulCall, VariableTypes, CallTypes,
                Adopts, Adopted, Returns, saveVars, historyVars
  <2>. QED BY <2>1, <2>2, <2>3, <2>4, <2>5, <2>6, <2>7 DEF ClientInv
<1>. QED BY <1>1, <1>2, <1>3, <1>4, <1>5, <1>6, <1>7, OthersKeepInv DEF IInv

\* A request or its answer is lost.
LEMMA CallFailsIInv ==
    ASSUME IInv, NEW c \in Clients, NEW k \in calls[c], CallFails(c, k)
    PROVE  IInv'
<1>. USE NoLayoutAssumption
<1>0. ClientInv(c) /\ VariableTypes /\ CallTypes /\ MadeSaved /\ KeptInv /\ k \in CallRecords
  BY DEF IInv, CallTypes
<1>1. VariableTypes'
  BY <1>0 DEF VariableTypes, CallFails, refVars, saveVars, historyVars
<1>2. CallTypes'
  BY <1>0 DEF CallTypes, CallFails, Returns
<1>3. Grows
  BY <1>0, <1>1 DEF Grows, VariableTypes, CallFails
<1>4. ASSUME NEW d \in Clients, d # c PROVE Keeps(d)
  BY <1>0, <1>4 DEF Keeps, CallFails, Returns, refVars, saveVars, historyVars
<1>5. MadeSaved'
  BY <1>0 DEF MadeSaved, CallFails
<1>6. KeptInv'
  BY <1>0 DEF KeptInv, NobodyBlind, NobodyHasty, NobodyUndoes, NothingOverwritten,
              VariableTypes, CallFails, historyVars
<1>7. ClientInv(c)'
  <2>1. MemoTypes(c)'
    BY <1>0 DEF ClientInv, MemoTypes, CallFails, refVars, saveVars, CallRecords
  <2>2. TimerRuns(c)'
    BY <1>0 DEF ClientInv, TimerRuns, CallFails, saveVars
  <2>3. ASSUME NEW q \in calls'[c] PROVE ServedCall(q)'
    BY <1>0, <2>3 DEF ClientInv, ServedCall, CallFails, Returns
  <2>4. Known(c)'
    BY <1>0 DEF ClientInv, Known, CallFails, refVars
  <2>5. Phases(c)'
    BY <1>0 DEF ClientInv, Phases, CallFails, Returns, refVars, saveVars, historyVars
  <2>6. Made(c)'
    BY <1>0 DEF ClientInv, Made, CallFails, Returns, refVars, saveVars
  <2>7. Careful(c)' => CarefulOK(c)'
    BY <1>0 DEF ClientInv, Careful, CarefulOK, CarefulCall, TimerRuns, CallFails, Returns,
                refVars, saveVars, historyVars
  <2>. QED BY <2>1, <2>2, <2>3, <2>4, <2>5, <2>6, <2>7 DEF ClientInv
<1>. QED BY <1>1, <1>2, <1>3, <1>4, <1>5, <1>6, <1>7, OthersKeepInv DEF IInv

-----------------------------------------------------------------------------
\* Nothing is stored; at most a layout of an earlier version is cached.
LEMMA InitIInv == Init => IInv
<1>. SUFFICES ASSUME Init PROVE IInv
  OBVIOUS
<1>. USE NoLayoutAssumption
<1>1. cache \in [Clients -> {{e} : e \in Edits} \union {NoLayout}]
  BY DEF Init
<1>2. \A c \in Clients : cache[c] = NoLayout \/ \E e \in Edits : cache[c] = {e}
  BY <1>1
<1>3. \A c \in Clients : cache[c] # NoLayout => cache[c] \subseteq made
  BY <1>1 DEF Init
<1>4. made \in SUBSET Edits
  BY <1>2 DEF Init
<1>5. VariableTypes /\ CallTypes
  BY <1>1, <1>4 DEF Init, VariableTypes, CallTypes, Layouts, Revisions
<1>6. ASSUME NEW c \in Clients PROVE ClientInv(c)
  BY <1>2, <1>3 DEF Init, ClientInv, MemoTypes, TimerRuns, Known, Phases, Made, CarefulOK,
                    Layouts, NoRevision
<1>7. MadeSaved /\ KeptInv
  BY DEF Init, MadeSaved, KeptInv, NothingOverwritten
<1>. QED BY <1>5, <1>6, <1>7 DEF IInv

\* Every step keeps the invariant.
LEMMA NextIInv == IInv /\ [Next]_vars => IInv'
<1>. SUFFICES ASSUME IInv, [Next]_vars PROVE IInv'
  OBVIOUS
<1>1. ASSUME NEW c \in Clients, ClientStep(c) PROVE IInv'
  BY <1>1, OpensIInv, UndoIInv, TimerFiresIInv, UnmountsIInv, EditIInv DEF ClientStep
<1>2. ASSUME NEW c \in Clients, NEW k \in calls[c], CallStep(c, k) PROVE IInv'
  BY <1>2, ServerReadsIInv, ServerSavesIInv, HydratesIInv, LoadFailsIInv, SaveReturnsIInv,
     ConflictReturnsIInv, AdoptsIInv, CallFailsIInv DEF CallStep
<1>3. ASSUME UNCHANGED vars PROVE IInv'
  <2>1. VariableTypes' /\ CallTypes' /\ MadeSaved' /\ KeptInv'
    BY <1>3 DEF IInv, vars, refVars, saveVars, historyVars, VariableTypes, CallTypes,
                MadeSaved, KeptInv, NobodyBlind, NobodyHasty, NobodyUndoes,
                NothingOverwritten
  <2>2. Grows
    BY <1>3 DEF Grows, IInv, VariableTypes, vars
  <2>3. \A d \in Clients : Keeps(d)
    BY <1>3 DEF Keeps, vars, refVars, saveVars, historyVars
  <2>. QED BY <2>1, <2>2, <2>3, OthersKeepInv DEF IInv
<1>. QED BY <1>1, <1>2, <1>3 DEF Next

\* The invariant holds in every reachable state.
LEMMA SpecIInv == Spec => []IInv
BY InitIInv, NextIInv, PTL DEF Spec

\* Every variable keeps its type; a debounce runs exactly while an edit is
\* pending in a mounted workspace.
THEOREM LayoutTypeCorrect == Spec => []TypeOK
<1>1. IInv => TypeOK
  BY DEF IInv, VariableTypes, CallTypes, ClientInv, MemoTypes, TimerRuns, TypeOK
<1>. QED BY <1>1, SpecIInv, PTL

\* In whatever order responses return to whatever number of calls, the layout
\* a workspace holds for persisted is the server's of the revision it names.
THEOREM RevisionsAreServers == Spec => []KnownRevisionIsServers
<1>1. IInv => KnownRevisionIsServers
  BY DEF IInv, ClientInv, Known, KnownRevisionIsServers
<1>. QED BY <1>1, SpecIInv, PTL

\* Careful users of any number of browsers never overwrite each other.
THEOREM SavedEditsAlwaysStay == Spec => []SavedEditsStay
<1>1. IInv => SavedEditsStay
  BY DEF IInv, KeptInv, SavedEditsStay
<1>. QED BY <1>1, SpecIInv, PTL

\* What a careful user sees at rest is saved, or in his browser's cache.
THEOREM RestingEditsAreKept == Spec => []RestingEditIsKept
<1>1. IInv => RestingEditIsKept
  BY DEF IInv, ClientInv, Careful, CarefulOK, RestingEditIsKept
<1>. QED BY <1>1, SpecIInv, PTL
=============================================================================
