----------------------------- MODULE LayoutSync -----------------------------
(***************************************************************************)
(* How browsers keep the workspace layout on the server: the routes of     *)
(* terminalLayoutRoutes.ts, which save a layout only over the revision it  *)
(* names, and TerminalWorkspace.tsx, which edits a layout, saves it after  *)
(* a debounce and adopts the server's layout after a conflict.             *)
(*                                                                         *)
(* A layout is the set of edits it shows.  The server's update runs in     *)
(* FileStore's queue, so it is one step; requests and responses travel     *)
(* independently and may fail.  All browsers know the same terminals, so   *)
(* reconstructing the state from a layout and serializing it gives that    *)
(* layout.                                                                 *)
(*                                                                         *)
(* An edit is one that dispatchLayoutChange queues.  Those that it does    *)
(* not queue are left out: commands given while the page loads, also when  *)
(* their answer comes later (Workspace has them), and those whose answer   *)
(* comes after the unmount, when the timer's callback drops what was       *)
(* queued.                                                                 *)
(***************************************************************************)
EXTENDS Integers, Sequences

CONSTANTS
    Clients,        \* browsers, each with a localStorage of its own
    Edits,          \* what users do to layouts, each once
    NoLayout        \* null

ASSUME NoLayoutAssumption == \A layout \in SUBSET Edits : layout # NoLayout

VARIABLES
    saved,          \* the layouts the server stored; the last has revision Len(saved)
    made,           \* history: the edits made so far
    \* one TerminalWorkspace per client
    phase,          \* "closed", "loading", "ready", "failed" (the load), "gone":
                    \* unmounted
    state,          \* stateRef, serialized
    revision,       \* layoutRevisionRef
    lastPersisted,  \* lastPersistedLayoutJsonRef
    pending,        \* pendingLayoutSaveRef
    timer,          \* saveTimerRef is set
    calls,          \* its persistLayout calls and load in progress
    cache,          \* its localStorage
    hasty,          \* history: it edited during a call
    undone,         \* history: it undid an edit within the debounce
    blind           \* history: it edited after its load failed

refVars  == <<state, revision, lastPersisted>>
saveVars == <<pending, timer>>
historyVars == <<hasty, undone, blind>>
vars == <<saved, made, phase, refVars, saveVars, calls, cache, historyVars>>

Layouts == SUBSET Edits
NoRevision == -1
Revisions == Nat \union {NoRevision}

\* A call's request is under way ("load", "put", "get") or its response is.
\* layout is what it saves; rev the revision it replaces or is answered with.
Requests  == {"load", "put", "get"}
Responses == {"loaded", "saved", "stale", "got"}
Call(step, layout, rev) == [step |-> step, layout |-> layout, rev |-> rev]
CallRecords == [step : Requests \union Responses, layout : Layouts, rev : Revisions]

\* The debounce runs exactly while an edit is pending, in a mounted workspace.
TypeOK ==
    /\ saved \in Seq(Layouts)
    /\ made \in SUBSET Edits
    /\ phase \in [Clients -> {"closed", "loading", "ready", "failed", "gone"}]
    /\ state \in [Clients -> Layouts]
    /\ revision \in [Clients -> Revisions]
    /\ timer \in [Clients -> BOOLEAN]
    /\ calls \in [Clients -> SUBSET CallRecords]
    /\ hasty \in [Clients -> BOOLEAN]
    /\ undone \in [Clients -> BOOLEAN]
    /\ blind \in [Clients -> BOOLEAN]
    /\ \A c \in Clients :
          /\ \A m \in {lastPersisted[c], pending[c], cache[c]} :
                m = NoLayout \/ m \in Layouts
          /\ timer[c] <=> pending[c] # NoLayout /\ phase[c] \in {"ready", "failed"}

\* Nothing is stored yet; a browser may hold a layout of an earlier version,
\* which kept layouts in localStorage only.
Init ==
    /\ saved = <<>>
    /\ phase = [c \in Clients |-> "closed"]
    /\ state = [c \in Clients |-> {}]
    /\ revision = [c \in Clients |-> NoRevision]
    /\ lastPersisted = [c \in Clients |-> NoLayout]
    /\ pending = [c \in Clients |-> NoLayout]
    /\ timer = [c \in Clients |-> FALSE]
    /\ calls = [c \in Clients |-> {}]
    /\ cache \in [Clients -> {{e} : e \in Edits} \union {NoLayout}]
    /\ made = UNION {cache[c] : c \in {d \in Clients : cache[d] # NoLayout}}
    /\ hasty = [c \in Clients |-> FALSE]
    /\ undone = [c \in Clients |-> FALSE]
    /\ blind = [c \in Clients |-> FALSE]

-----------------------------------------------------------------------------
(* The server.                                                              *)

Stored(n) == IF n = 0 THEN NoLayout ELSE saved[n]

Becomes(c, k, k2) == calls' = [calls EXCEPT ![c] = (@ \ {k}) \union {k2}]
Returns(c, k) == calls' = [calls EXCEPT ![c] = @ \ {k}]

\* GET /api/terminal-layout.
ServerReads(c, k) ==
    /\ \/ k.step = "load" /\ Becomes(c, k, Call("loaded", k.layout, Len(saved)))
       \/ k.step = "get" /\ Becomes(c, k, Call("got", k.layout, Len(saved)))
    /\ UNCHANGED <<saved, made, phase, refVars, saveVars, cache, historyVars>>

\* Whether a save is accepted: it names no base, or the current revision.
\* (Mutant: a base that is not the latest is accepted.)
Accepts_Any(base) == TRUE
Accepts(base) == base \in {NoRevision, Len(saved)}

\* PUT /api/terminal-layout.
ServerSaves(c, k) ==
    /\ k.step = "put"
    /\ \/ /\ Accepts(k.rev)
          /\ saved' = Append(saved, k.layout)
          /\ Becomes(c, k, Call("saved", k.layout, Len(saved) + 1))
       \/ /\ ~Accepts(k.rev)
          /\ Becomes(c, k, Call("stale", k.layout, Len(saved)))
          /\ UNCHANGED saved
    /\ UNCHANGED <<made, phase, refVars, saveVars, cache, historyVars>>

-----------------------------------------------------------------------------
(* loadWorkspace.                                                           *)

Opens(c) ==
    /\ phase[c] = "closed"
    /\ phase' = [phase EXCEPT ![c] = "loading"]
    /\ calls' = [calls EXCEPT ![c] = {Call("load", {}, NoRevision)}]
    /\ UNCHANGED <<saved, made, refVars, saveVars, cache, historyVars>>

\* The server's layout, else the cached one, which is then saved, else none.
Hydrates(c, k) ==
    /\ k.step = "loaded" /\ phase[c] = "loading"
    /\ LET migrates == Stored(k.rev) = NoLayout /\ cache[c] # NoLayout
           layout == IF Stored(k.rev) # NoLayout THEN Stored(k.rev)
                     ELSE IF migrates THEN cache[c] ELSE {}
       IN  /\ state' = [state EXCEPT ![c] = layout]
           /\ lastPersisted' = [lastPersisted EXCEPT ![c] = layout]
           /\ calls' = [calls EXCEPT ![c] =
                  (@ \ {k}) \union (IF migrates THEN {Call("put", layout, k.rev)} ELSE {})]
    /\ revision' = [revision EXCEPT ![c] = k.rev]
    /\ phase' = [phase EXCEPT ![c] = "ready"]
    /\ UNCHANGED <<saved, made, saveVars, cache, historyVars>>

\* The workspace stays usable after a failed load.
LoadFails(c, k) ==
    /\ k.step \in {"load", "loaded"} /\ phase[c] = "loading"
    /\ phase' = [phase EXCEPT ![c] = "failed"]
    /\ Returns(c, k)
    /\ UNCHANGED <<saved, made, refVars, saveVars, cache, historyVars>>

-----------------------------------------------------------------------------
(* Edits and their debounced save.                                          *)

\* Mutant: the running timer is cleared and not set again.
Rearmed_Cleared(c) == ~timer[c]
Rearmed(c) == TRUE

\* dispatchLayoutChange and queueLayoutSave: a layout that is the persisted
\* one is not queued, and leaves what is queued alone.
Changes(c, layout) ==
    /\ state' = [state EXCEPT ![c] = layout]
    /\ \/ /\ layout # lastPersisted[c]
          /\ pending' = [pending EXCEPT ![c] = layout]
          /\ cache' = [cache EXCEPT ![c] = layout]
          /\ timer' = [timer EXCEPT ![c] = Rearmed(c)]
       \/ /\ layout = lastPersisted[c]
          /\ UNCHANGED <<pending, cache, timer>>
    /\ UNCHANGED <<saved, phase, revision, lastPersisted, calls>>

Edit(c, e) ==
    /\ phase[c] \in {"ready", "failed"}
    /\ e \notin made
    /\ made' = made \union {e}
    /\ hasty' = [hasty EXCEPT ![c] = @ \/ calls[c] # {}]
    /\ blind' = [blind EXCEPT ![c] = @ \/ phase[c] = "failed"]
    /\ Changes(c, state[c] \union {e})
    /\ UNCHANGED undone

\* The user undoes the edit of the debounce: back to the persisted layout.
Undo(c) ==
    /\ phase[c] = "ready"
    /\ pending[c] # NoLayout
    /\ lastPersisted[c] # NoLayout /\ state[c] # lastPersisted[c]
    /\ undone' = [undone EXCEPT ![c] = TRUE]
    /\ Changes(c, lastPersisted[c])
    /\ UNCHANGED <<made, hasty, blind>>

\* The debounce ends: persistLayout sends the PUT, with the revision of now.
TimerFires(c) ==
    /\ timer[c]
    /\ timer' = [timer EXCEPT ![c] = FALSE]
    /\ pending' = [pending EXCEPT ![c] = NoLayout]
    /\ calls' = [calls EXCEPT ![c] = @ \union {Call("put", pending[c], revision[c])}]
    /\ UNCHANGED <<saved, made, phase, refVars, cache, historyVars>>

Loads(c) == {k \in calls[c] : k.step \in {"load", "loaded"}}

\* Unmount: the load is cancelled, the pending layout is sent at once.
Unmounts(c) ==
    /\ phase[c] \in {"loading", "ready", "failed"}
    /\ phase' = [phase EXCEPT ![c] = "gone"]
    /\ timer' = [timer EXCEPT ![c] = FALSE]
    /\ pending' = [pending EXCEPT ![c] = NoLayout]
    /\ \/ /\ pending[c] # NoLayout
          /\ calls' = [calls EXCEPT ![c] =
                 (@ \ Loads(c)) \union {Call("put", pending[c], revision[c])}]
          /\ cache' = [cache EXCEPT ![c] = pending[c]]
       \/ /\ pending[c] = NoLayout
          /\ calls' = [calls EXCEPT ![c] = @ \ Loads(c)]
          /\ UNCHANGED cache
    /\ UNCHANGED <<saved, made, refVars, historyVars>>

-----------------------------------------------------------------------------
(* persistLayout after its awaits; it runs on in an unmounted workspace.    *)

\* Mutant: what is on the screen by now is taken for persisted.
Persisted_State(c, k) == state[c]
Persisted(c, k) == Stored(k.rev)

SaveReturns(c, k) ==
    /\ k.step = "saved"
    /\ revision' = [revision EXCEPT ![c] = k.rev]
    /\ lastPersisted' = [lastPersisted EXCEPT ![c] = Persisted(c, k)]
    /\ cache' = [cache EXCEPT ![c] = Persisted(c, k)]
    /\ Returns(c, k)
    /\ UNCHANGED <<saved, made, phase, state, saveVars, historyVars>>

\* 409: the server's layout is asked for.
ConflictReturns(c, k) ==
    /\ k.step = "stale"
    /\ Becomes(c, k, Call("get", k.layout, NoRevision))
    /\ UNCHANGED <<saved, made, phase, refVars, saveVars, cache, historyVars>>

\* Mutant: the revision and the persisted layout are taken, the screen stays.
Adopted_NotShown(c, k) == state[c]
Adopted(c, k) == Stored(k.rev)

\* The answer to a 409's GET.  A layout that is pending stays pending.
Adopts(c, k) ==
    /\ k.step = "got"
    /\ revision' = [revision EXCEPT ![c] = k.rev]
    /\ \/ /\ Stored(k.rev) # NoLayout
          /\ state' = [state EXCEPT ![c] = Adopted(c, k)]
          /\ lastPersisted' = [lastPersisted EXCEPT ![c] = Stored(k.rev)]
          /\ cache' = [cache EXCEPT ![c] = Stored(k.rev)]
       \/ /\ Stored(k.rev) = NoLayout
          /\ UNCHANGED <<state, lastPersisted, cache>>
    /\ Returns(c, k)
    /\ UNCHANGED <<saved, made, phase, saveVars, historyVars>>

\* The request does not reach the server, the server fails, or the response
\* is lost: the layout is left in the cache.
CallFails(c, k) ==
    /\ k.step \in {"put", "saved", "stale", "get", "got"}
    /\ cache' = [cache EXCEPT ![c] = k.layout]
    /\ Returns(c, k)
    /\ UNCHANGED <<saved, made, phase, refVars, saveVars, historyVars>>

-----------------------------------------------------------------------------
CallStep(c, k) ==
    \/ ServerReads(c, k) \/ ServerSaves(c, k)
    \/ Hydrates(c, k) \/ LoadFails(c, k)
    \/ SaveReturns(c, k) \/ ConflictReturns(c, k) \/ Adopts(c, k) \/ CallFails(c, k)

ClientStep(c) ==
    \/ Opens(c) \/ Undo(c) \/ TimerFires(c) \/ Unmounts(c)
    \/ \E e \in Edits : Edit(c, e)

Next ==
    \E c \in Clients : ClientStep(c) \/ \E k \in calls[c] : CallStep(c, k)

Spec == Init /\ [][Next]_vars

-----------------------------------------------------------------------------
(* Properties.                                                              *)

\* The revision a workspace will save over is the revision of the layout it
\* holds for persisted: the two never come from different responses, in
\* whatever order responses return.
KnownRevisionIsServers ==
    \A c \in Clients : revision[c] > 0 =>
        revision[c] <= Len(saved) /\ lastPersisted[c] = saved[revision[c]]

NobodyBlind  == \A c \in Clients : ~blind[c]
NobodyHasty  == \A c \in Clients : ~hasty[c]
NobodyUndoes == \A c \in Clients : ~undone[c]

\* No save takes an edit off the server that another browser saved there.
NothingOverwritten == \A n \in 1..Len(saved) - 1 : saved[n] \subseteq saved[n + 1]

\* It holds as long as every user waits for his save before he edits again,
\* edits only what was loaded and undoes nothing: through lost responses, conflicts, unmounts
\* and migrated layouts.
SavedEditsStay == NobodyBlind /\ NobodyHasty /\ NobodyUndoes => NothingOverwritten

\* A workspace that loaded and is at rest shows the layout it last exchanged
\* with the server, or its edits are at least in the local cache.
RestingEditIsKept ==
    \A c \in Clients :
        revision[c] # NoRevision /\ calls[c] = {} /\ pending[c] = NoLayout
          /\ ~hasty[c] /\ ~undone[c] /\ ~blind[c] =>
            state[c] = lastPersisted[c] \/ cache[c] = state[c]

\* The test "adopts the server layout instead of overwriting after a stale
\* revision conflict": browsers that loaded and undo nothing never overwrite.
AdoptsInsteadOfOverwriting == NobodyBlind /\ NobodyUndoes => NothingOverwritten
=============================================================================
