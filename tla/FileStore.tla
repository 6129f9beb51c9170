------------------------------ MODULE FileStore ------------------------------
(***************************************************************************)
(* The state file of one Leominal server: init, read and update of         *)
(* FileStore, over a file system whose calls may fail and under a process  *)
(* that may be killed between any two of them.                             *)
(*                                                                         *)
(* The state is named by the updates applied to it, in order.  An action   *)
(* ends at an await.  A write goes to a temporary file of its own and is   *)
(* renamed over the state file; temporary files are never read, so the     *)
(* phase of the update stands for its temporary file.  A killed process    *)
(* loses its memory, not the file system's; a power failure is not         *)
(* modelled (the code does not fsync).                                     *)
(***************************************************************************)
EXTENDS Integers, Sequences

CONSTANTS
    Updates,        \* calls of update()
    Exclusive,      \* those whose updater throws after another of them, such
                    \* as the second setupPassword
    Readers,        \* calls of read()
    MaxCrashes      \* bound: how often the process is killed

ASSUME ExclusiveAssumption == Exclusive \subseteq Updates
ASSUME CrashesAssumption == MaxCrashes \in Nat

VARIABLES
    exists,         \* the state file is there
    file,           \* the updates in it, in order
    server,         \* "down", "starting" (init), "up"
    crashes,        \* how often it was killed
    updateQueue,    \* the updates called and not settled, in order of call
    phase,          \* of an update: where its run is, and how it ended
    value,          \* what its run read, then what it writes
    calls,          \* history: the updates in order of call
    reading,        \* of a reader: "idle", "called", "taken", ...
    seen,           \* what it read
    doneBefore      \* history: the updates done when it was called

diskVars   == <<exists, file>>
updateVars == <<updateQueue, phase, value, calls>>
readVars   == <<reading, seen, doneBefore>>
vars == <<diskVars, server, crashes, updateVars, readVars>>

Range(q) == {q[i] : i \in 1..Len(q)}

\* "read" and "computed" are before the write, "written" is before the rename
\* and "renamed" before the answer.
Running  == {"queued", "read", "computed", "written", "renamed"}
Outcomes == {"done", "refused", "failed", "lost"}

ReadStates == {"idle", "called", "taken", "answered", "failed", "lost"}

\* The queue holds the calls that are not settled, each once.
TypeOK ==
    /\ exists \in BOOLEAN
    /\ file \in Seq(Updates)
    /\ server \in {"down", "starting", "up"}
    /\ crashes \in Nat
    /\ updateQueue \in Seq(Updates)
    /\ Range(updateQueue) = {u \in Updates : phase[u] \in Running}
    /\ \A i, j \in 1..Len(updateQueue) : updateQueue[i] = updateQueue[j] => i = j
    /\ phase \in [Updates -> {"uncalled"} \union Running \union Outcomes]
    /\ value \in [Updates -> Seq(Updates)]
    /\ calls \in Seq(Updates)
    /\ reading \in [Readers -> ReadStates]
    /\ seen \in [Readers -> Seq(Updates)]
    /\ doneBefore \in [Readers -> SUBSET Updates]

Init ==
    /\ exists = FALSE
    /\ file = <<>>
    /\ server = "down"
    /\ crashes = 0
    /\ updateQueue = <<>>
    /\ phase = [u \in Updates |-> "uncalled"]
    /\ value = [u \in Updates |-> <<>>]
    /\ calls = <<>>
    /\ reading = [r \in Readers |-> "idle"]
    /\ seen = [r \in Readers |-> <<>>]
    /\ doneBefore = [r \in Readers |-> {}]

-----------------------------------------------------------------------------
(* The process: start, init(), kill.                                        *)

Starts ==
    /\ server = "down"
    /\ server' = "starting"
    /\ UNCHANGED <<diskVars, crashes, updateVars, readVars>>

\* read() found a file.
InitFindsFile ==
    /\ server = "starting"
    /\ exists
    /\ server' = "up"
    /\ UNCHANGED <<diskVars, crashes, updateVars, readVars>>

\* Whether init writes the empty state: on ENOENT.  (Mutant: on any error, so
\* on a read that failed for want of file descriptors too.)
InitWrites_OnAnyError == TRUE
InitWrites == ~exists

\* write(emptyState()) gets as far as its rename.
InitCreatesFile ==
    /\ server = "starting"
    /\ InitWrites
    /\ exists' = TRUE
    /\ file' = <<>>
    /\ server' = "up"
    /\ UNCHANGED <<crashes, updateVars, readVars>>

Killed ==
    /\ server # "down"
    /\ crashes < MaxCrashes
    /\ crashes' = crashes + 1
    /\ server' = "down"
    /\ updateQueue' = <<>>
    /\ phase' = [u \in Updates |-> IF phase[u] \in Running THEN "lost" ELSE phase[u]]
    /\ reading' = [r \in Readers |->
                      IF reading[r] \in {"called", "taken"} THEN "lost" ELSE reading[r]]
    /\ UNCHANGED <<diskVars, value, calls, seen, doneBefore>>

-----------------------------------------------------------------------------
(* update().                                                                *)

\* Mutant: the newest call goes first.
Enqueued_First(u) == <<u>> \o updateQueue
Enqueued(u) == Append(updateQueue, u)

\* updateQueue.then(run, run).
UpdateCalled(u) ==
    /\ server = "up"
    /\ phase[u] = "uncalled"
    /\ phase' = [phase EXCEPT ![u] = "queued"]
    /\ updateQueue' = Enqueued(u)
    /\ calls' = Append(calls, u)
    /\ UNCHANGED <<diskVars, server, crashes, value, readVars>>

\* The promise the run waits for has settled.  (Mutant: it waits for none.)
ItsTurn_Always(u) == TRUE
ItsTurn(u) == updateQueue # <<>> /\ Head(updateQueue) = u

\* read() at the start of the run.
RunReads(u) ==
    /\ phase[u] = "queued"
    /\ ItsTurn(u)
    /\ value' = [value EXCEPT ![u] = file]
    /\ phase' = [phase EXCEPT ![u] = "read"]
    /\ UNCHANGED <<diskVars, server, crashes, updateQueue, calls, readVars>>

\* The promise of the first call, which is u, settles.
Settled(u) == Tail(updateQueue)

\* A run that threw settles its promise too.  (Mutant: the queue goes on only
\* after a success.)
SettledByError_Stuck(u) == updateQueue
SettledByError(u) == Settled(u)

\* An exclusive updater finds its precondition gone.  (Mutant: it trusts the
\* check its caller made before the update.)
Refuses_Never(u) == FALSE
Refuses(u) == u \in Exclusive /\ Range(value[u]) \intersect Exclusive # {}

UpdaterThrows(u) ==
    /\ phase[u] = "read"
    /\ Refuses(u)
    /\ phase' = [phase EXCEPT ![u] = "refused"]
    /\ updateQueue' = SettledByError(u)
    /\ UNCHANGED <<diskVars, server, crashes, value, calls, readVars>>

UpdaterReturns(u) ==
    /\ phase[u] = "read"
    /\ ~Refuses(u)
    /\ value' = [value EXCEPT ![u] = Append(@, u)]
    /\ phase' = [phase EXCEPT ![u] = "computed"]
    /\ UNCHANGED <<diskVars, server, crashes, updateQueue, calls, readVars>>

\* Mutant: the state file itself is opened with 'w', which empties it.
WritesTemp_InPlace(u) ==
    /\ phase[u] = "computed"
    /\ phase' = [phase EXCEPT ![u] = "written"]
    /\ file' = <<>>
    /\ UNCHANGED <<exists, server, crashes, updateQueue, value, calls, readVars>>

\* mkdir, open(tempPath), writeFile, close.
WritesTemp(u) ==
    /\ phase[u] = "computed"
    /\ phase' = [phase EXCEPT ![u] = "written"]
    /\ UNCHANGED <<diskVars, server, crashes, updateQueue, value, calls, readVars>>

\* rename(tempPath, this.path).
Renames(u) ==
    /\ phase[u] = "written"
    /\ file' = value[u]
    /\ phase' = [phase EXCEPT ![u] = "renamed"]
    /\ UNCHANGED <<exists, server, crashes, updateQueue, value, calls, readVars>>

\* The update's promise resolves and the caller answers.
UpdateDone(u) ==
    /\ phase[u] = "renamed"
    /\ phase' = [phase EXCEPT ![u] = "done"]
    /\ updateQueue' = Settled(u)
    /\ UNCHANGED <<diskVars, server, crashes, value, calls, readVars>>

\* Where a file-system call of the run may fail: nothing comes after the
\* rename.  (Mutant: something does, such as a chmod of the new file.)
MayFail_AfterRename(u) ==
    (phase[u] = "queued" /\ ItsTurn(u)) \/ phase[u] \in {"computed", "written", "renamed"}
MayFail(u) ==
    (phase[u] = "queued" /\ ItsTurn(u)) \/ phase[u] \in {"computed", "written"}

RunFails(u) ==
    /\ MayFail(u)
    /\ phase' = [phase EXCEPT ![u] = "failed"]
    /\ updateQueue' = SettledByError(u)
    /\ UNCHANGED <<diskVars, server, crashes, value, calls, readVars>>

-----------------------------------------------------------------------------
(* read() outside the queue.                                                *)

ReadCalled(r) ==
    /\ server = "up"
    /\ reading[r] = "idle"
    /\ reading' = [reading EXCEPT ![r] = "called"]
    /\ doneBefore' = [doneBefore EXCEPT ![r] = {u \in Updates : phase[u] = "done"}]
    /\ UNCHANGED <<diskVars, server, crashes, updateVars, seen>>

\* readFile opens the file: a rename after this leaves it the old contents.
ReadOpens(r) ==
    /\ reading[r] = "called"
    /\ reading' = [reading EXCEPT ![r] = "taken"]
    /\ seen' = [seen EXCEPT ![r] = file]
    /\ UNCHANGED <<diskVars, server, crashes, updateVars, doneBefore>>

ReadAnswered(r) ==
    /\ reading[r] = "taken"
    /\ reading' = [reading EXCEPT ![r] = "answered"]
    /\ UNCHANGED <<diskVars, server, crashes, updateVars, seen, doneBefore>>

ReadFails(r) ==
    /\ reading[r] = "called"
    /\ reading' = [reading EXCEPT ![r] = "failed"]
    /\ UNCHANGED <<diskVars, server, crashes, updateVars, seen, doneBefore>>

-----------------------------------------------------------------------------
RunStep(u) ==
    \/ RunReads(u) \/ UpdaterThrows(u) \/ UpdaterReturns(u) \/ WritesTemp(u)
    \/ Renames(u) \/ UpdateDone(u) \/ RunFails(u)

ReadStep(r) == ReadCalled(r) \/ ReadOpens(r) \/ ReadAnswered(r) \/ ReadFails(r)

Next ==
    \/ Starts \/ InitFindsFile \/ InitCreatesFile \/ Killed
    \/ \E u \in Updates : UpdateCalled(u) \/ RunStep(u)
    \/ \E r \in Readers : ReadStep(r)

Spec == Init /\ [][Next]_vars

\* The event loop continues every run whose promise has settled.  Nothing is
\* assumed of the callers, or of who restarts the server.
FairSpec == Spec /\ \A u \in Updates : WF_vars(RunStep(u))

-----------------------------------------------------------------------------
(* Properties.                                                              *)

\* An update whose caller was told it succeeded is in the file, through later
\* updates, failures of the file system, crashes and restarts.
DoneSurvives == \A u \in Updates : phase[u] = "done" => u \in Range(file)

\* An update whose caller was told it failed is not in the file, not even
\* through what a later update read.
FailedLeavesNoTrace ==
    \A u \in Updates : phase[u] \in {"refused", "failed"} => u \notin Range(file)

\* Of the calls that each find the password unset, one sets it: the rest are
\* refused by the check their updater repeats inside the queue.
ExclusiveOnce ==
    \A u, v \in Range(file) \intersect Exclusive : u = v

\* Updates take effect in the order in which they were called.
AppliedInCallOrder ==
    \A i, j \in 1..Len(calls) :
        i < j /\ calls[i] \in Range(file) /\ calls[j] \in Range(file) =>
            \E k, l \in 1..Len(file) : k < l /\ file[k] = calls[i] /\ file[l] = calls[j]

\* A read outside the queue sees every update that was done when it was
\* called, however many renames it races with.
ReadsAreFresh ==
    \A r \in Readers : reading[r] \in {"taken", "answered"} => doneBefore[r] \subseteq Range(seen[r])

\* An update is answered, whatever the updates before it came to.
EveryUpdateEnds == \A u \in Updates : (phase[u] \in Running) ~> (phase[u] \in Outcomes)

-----------------------------------------------------------------------------
\* An update is applied by its rename and a read takes the state when it
\* opens the file: the store is atomic.
Store == INSTANCE AtomicStore WITH
    state <- file,
    answer <- [u \in Updates |-> IF phase[u] \in Running THEN "none" ELSE phase[u]]

ImplementsAtomicStore == Store!Spec
=============================================================================
