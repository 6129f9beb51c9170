---------------------------- MODULE TerminalSize ----------------------------
(***************************************************************************)
(* The size of one terminal of TerminalManager: client resizes, and the    *)
(* nudge, which shrinks the terminal by a row when a client attaches and   *)
(* restores it from a timer 50 ms later, so that the shell's foreground    *)
(* program repaints.                                                       *)
(*                                                                         *)
(* summary, mirror and pty get their size together, in applySize: one      *)
(* size stands for the three.                                              *)
(***************************************************************************)
EXTENDS Integers

CONSTANTS
    MaxCols,        \* maxTerminalCols
    MaxRows,        \* maxTerminalRows
    Requests        \* the columns and rows clients write in a resize frame

ASSUME MaxAssumption == MaxCols \in Nat \ {0} /\ MaxRows \in Nat \ {0}
ASSUME RequestsAssumption == Requests \subseteq Int

VARIABLES
    status,         \* "running", "exited", "closed"
    cols, rows,     \* record.summary, the mirror and the pty's winsize
    nudge,          \* the timer and what its closure captured
    announced,      \* history: the size clients were told last
    wanted          \* history: the size the last client asked for

vars == <<status, cols, rows, nudge, announced, wanted>>

NoNudge == [inFlight |-> FALSE, cols |-> 1, rows |-> 1]

Size(c, r) == [cols |-> c, rows |-> r]

\* A size within the clamps of applySize.
Sizes == [cols : 1..MaxCols, rows : 1..MaxRows]

TypeOK ==
    /\ status \in {"running", "exited", "closed"}
    /\ Size(cols, rows) \in Sizes
    /\ nudge \in [inFlight : BOOLEAN, cols : 1..MaxCols, rows : 1..MaxRows]
    /\ announced \in Sizes
    /\ wanted \in Sizes

\* normalizeDimension and clampDimension for integers.  (Mutant: no ceiling.)
Normalize(value, fallback) == IF value > 0 THEN value ELSE fallback
Clamp_NoCeiling(value, max) == IF value < 1 THEN 1 ELSE value
Clamp(value, max) ==
    IF value < 1 THEN 1 ELSE IF value > max THEN max ELSE value

\* createTerminal with any requested size; 80 and 24 where none is given.
Init ==
    /\ status = "running"
    /\ \E c, r \in Requests :
          /\ cols = Clamp(Normalize(c, 80), MaxCols)
          /\ rows = Clamp(Normalize(r, 24), MaxRows)
    /\ nudge = NoNudge
    /\ announced = Size(cols, rows)
    /\ wanted = Size(cols, rows)

Changes(c, r) == cols # Clamp(c, MaxCols) \/ rows # Clamp(r, MaxRows)

\* applySize: nothing at all when the clamped size is the current one.
ApplySize(c, r) ==
    IF Changes(c, r)
    THEN cols' = Clamp(c, MaxCols) /\ rows' = Clamp(r, MaxRows)
    ELSE UNCHANGED <<cols, rows>>

\* terminal_updated is published for a change, not for a repeated size.
Announce(c, r) ==
    announced' = IF Changes(c, r) THEN Size(Clamp(c, MaxCols), Clamp(r, MaxRows)) ELSE announced

\* resizeTerminal.
Resize(c, r) ==
    LET nc == Normalize(c, cols)
        nr == Normalize(r, rows)
    IN  /\ status = "running"
        /\ ApplySize(nc, nr)
        /\ Announce(nc, nr)
        /\ wanted' = Size(Clamp(nc, MaxCols), Clamp(nr, MaxRows))
        /\ UNCHANGED <<status, nudge>>

\* nudgeTerminal: at most one is in flight, and a one-row terminal has none.
Nudge ==
    /\ status = "running"
    /\ rows >= 2
    /\ ~nudge.inFlight
    /\ nudge' = [inFlight |-> TRUE, cols |-> cols, rows |-> rows]
    /\ ApplySize(cols, rows - 1)
    /\ UNCHANGED <<status, announced, wanted>>

\* Whether the timer finds the terminal as the nudge left it.  (Mutants: it
\* restores over any size, compares the rows only, or compares them with the
\* rows before the shrink.)
RestoreApplies_Always == status = "running"
RestoreApplies_RowsOnly == status = "running" /\ rows = nudge.rows - 1
RestoreApplies_OldRows == status = "running" /\ cols = nudge.cols /\ rows = nudge.rows
RestoreApplies ==
    /\ status = "running"
    /\ cols = nudge.cols
    /\ rows = nudge.rows - 1

NudgeTimer ==
    /\ nudge.inFlight
    /\ nudge' = NoNudge
    /\ IF RestoreApplies
       THEN ApplySize(nudge.cols, nudge.rows)
       ELSE UNCHANGED <<cols, rows>>
    /\ UNCHANGED <<status, announced, wanted>>

\* onExit and closeTerminal; the timer keeps running through both.
PtyExits ==
    /\ status = "running"
    /\ status' = "exited"
    /\ UNCHANGED <<cols, rows, nudge, announced, wanted>>

CloseTerminal ==
    /\ status # "closed"
    /\ status' = "closed"
    /\ UNCHANGED <<cols, rows, nudge, announced, wanted>>

Next ==
    \/ \E c, r \in Requests : Resize(c, r)
    \/ Nudge \/ NudgeTimer \/ PtyExits \/ CloseTerminal

Spec == Init /\ [][Next]_vars

-----------------------------------------------------------------------------
(* Properties.                                                              *)

\* What holds whatever resizes fall between the shrink and the restore: the
\* size asked for last stands, unless it was the very size the nudge shrank
\* to; then the restore adds its row, although nudgeTerminal's comment says of
\* a terminal "resized meanwhile" that it "no longer applies".
LastRequestStandsOrMetNudge ==
    status = "running" /\ ~nudge.inFlight =>
        wanted \in {Size(cols, rows), Size(cols, rows - 1)}

\* The nudge tells no client its sizes.  Still no sequence of nudges and
\* resizes takes the terminal more than a row from what clients were told.
DriftIsBounded ==
    status = "running" =>
        /\ announced.cols = cols
        /\ rows - announced.rows \in {-1, 0, 1}

\* The shrink is undone: no running shell stays a row short of what clients
\* were told.
RowIsGivenBack ==
    (status = "running" /\ nudge.inFlight)
        ~> (status # "running" \/ rows >= announced.rows)
=============================================================================
