---------------------------- MODULE TerminalFeed ----------------------------
(***************************************************************************)
(* What a terminal promises its viewers: there is one feed of messages.    *)
(* A viewer joins at some position; from there on it is given the snapshot *)
(* (0) and then the messages of the feed, each once, in order, without a   *)
(* gap, at its own pace, until it leaves.                                  *)
(***************************************************************************)
EXTENDS Integers, Sequences

CONSTANTS Viewers, Kinds

VARIABLES
    feed,       \* the kinds of all messages so far
    state,      \* of a viewer: "absent", "watching", "left"
    base,       \* Len(feed) when it joined
    given       \* what it was given so far

vars == <<feed, state, base, given>>

Init ==
    /\ feed = <<>>
    /\ state = [v \in Viewers |-> "absent"]
    /\ base = [v \in Viewers |-> 0]
    /\ given = [v \in Viewers |-> <<>>]

\* The first n things a viewer that joined at b is given.
Window(b, n) == [j \in 1..n |-> IF j = 1 THEN 0 ELSE b + j - 1]

\* A viewer joins; its connection may be gone already.
Join(v) ==
    /\ state[v] = "absent"
    /\ base' = [base EXCEPT ![v] = Len(feed)]
    /\ \E st \in {"watching", "left"} : state' = [state EXCEPT ![v] = st]
    /\ UNCHANGED <<feed, given>>

\* What one step may do to a viewer: give it more of the feed while it
\* watches, let it leave; a viewer that is absent or left gets nothing.
MayGive(v) ==
    \/ given'[v] = given[v]
    \/ /\ state[v] = "watching"
       /\ \E n \in Len(given[v])..(Len(feed') - base[v] + 1) :
              given'[v] = Window(base[v], n)

MayLeave(v) ==
    \/ state'[v] = state[v]
    \/ state[v] = "watching" /\ state'[v] = "left"

\* At most one message is published, and every viewer catches up as it likes.
Advance ==
    /\ \/ feed' = feed
       \/ \E k \in Kinds : feed' = Append(feed, k)
    /\ base' = base
    /\ given' \in [Viewers -> Seq(Nat)]
    /\ DOMAIN state' = Viewers
    /\ \A v \in Viewers : MayGive(v) /\ MayLeave(v)

Next == Advance \/ \E v \in Viewers : Join(v)

Spec == Init /\ [][Next]_vars
=============================================================================
