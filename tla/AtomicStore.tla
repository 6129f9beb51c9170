----------------------------- MODULE AtomicStore -----------------------------
(***************************************************************************)
(* What FileStore promises its callers: one state, to which an update is   *)
(* applied whole, at one moment between its call and its answer, or not at *)
(* all; a read gets the state of one moment between its call and its       *)
(* answer; a crash takes nothing back.                                     *)
(***************************************************************************)
EXTENDS Integers, Sequences

CONSTANTS
    Updates,        \* calls of update()
    Exclusive,      \* those whose updater refuses after another of them
    Readers         \* calls of read()

VARIABLES
    state,          \* the updates applied so far, in order
    answer,         \* of an update
    reading,        \* of a reader: "idle", "called", "taken", "answered", "failed", "lost"
    seen            \* what a reader was given

vars == <<state, answer, reading, seen>>

Applied == {state[i] : i \in 1..Len(state)}

Init ==
    /\ state = <<>>
    /\ answer = [u \in Updates |-> "uncalled"]
    /\ reading = [r \in Readers |-> "idle"]
    /\ seen = [r \in Readers |-> <<>>]

Call(u) ==
    /\ answer[u] = "uncalled"
    /\ answer' = [answer EXCEPT ![u] = "none"]
    /\ UNCHANGED <<state, reading, seen>>

Apply(u) ==
    /\ answer[u] = "none"
    /\ u \notin Applied
    /\ u \in Exclusive => Applied \intersect Exclusive = {}
    /\ state' = Append(state, u)
    /\ UNCHANGED <<answer, reading, seen>>

\* Nothing that was refused or failed is in the state, ever.
Answer(u) ==
    /\ answer[u] = "none"
    /\ \/ u \in Applied /\ answer' = [answer EXCEPT ![u] = "done"]
       \/ u \notin Applied /\ answer' = [answer EXCEPT ![u] = "failed"]
       \/ /\ u \notin Applied /\ Applied \intersect Exclusive # {} /\ u \in Exclusive
          /\ answer' = [answer EXCEPT ![u] = "refused"]
    /\ UNCHANGED <<state, reading, seen>>

ReadCalled(r) ==
    /\ reading[r] = "idle"
    /\ reading' = [reading EXCEPT ![r] = "called"]
    /\ UNCHANGED <<state, answer, seen>>

ReadTaken(r) ==
    /\ reading[r] = "called"
    /\ reading' = [reading EXCEPT ![r] = "taken"]
    /\ seen' = [seen EXCEPT ![r] = state]
    /\ UNCHANGED <<state, answer>>

ReadAnswered(r) ==
    /\ reading[r] = "taken"
    /\ reading' = [reading EXCEPT ![r] = "answered"]
    /\ UNCHANGED <<state, answer, seen>>

ReadFails(r) ==
    /\ reading[r] = "called"
    /\ reading' = [reading EXCEPT ![r] = "failed"]
    /\ UNCHANGED <<state, answer, seen>>

\* Whoever waits gets no answer; what was applied stays.
Crash ==
    /\ answer' = [u \in Updates |-> IF answer[u] = "none" THEN "lost" ELSE answer[u]]
    /\ reading' = [r \in Readers |->
                      IF reading[r] \in {"called", "taken"} THEN "lost" ELSE reading[r]]
    /\ UNCHANGED <<state, seen>>

Next ==
    \/ \E u \in Updates : Call(u) \/ Apply(u) \/ Answer(u)
    \/ \E r \in Readers : ReadCalled(r) \/ ReadTaken(r) \/ ReadAnswered(r) \/ ReadFails(r)
    \/ Crash

Spec == Init /\ [][Next]_vars
=============================================================================
