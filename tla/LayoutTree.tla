----------------------------- MODULE LayoutTree -----------------------------
(***************************************************************************)
(* The layout trees of shared/types.ts: a pane with a terminal, a pane     *)
(* with an editor, or a split of two trees; and what terminalReducer.ts    *)
(* does to trees.  Ratios are tenths.                                      *)
(*                                                                         *)
(* A tree is a function from the positions of its nodes.  A position is    *)
(* the path to the node, as in the code's paths to dividers: 0 for a       *)
(* split's first tree, 1 for its second.  The tree without a node, null in *)
(* the code, has no position.                                              *)
(***************************************************************************)
EXTENDS Integers, Sequences, FiniteSets, SequencesExt, FiniteSetsExt

Pane(t)   == [type |-> "pane", id |-> t]
Editor(e) == [type |-> "editor", id |-> e]
Split(direction, ratio) == [type |-> "split", direction |-> direction, ratio |-> ratio]

Directions == {"horizontal", "vertical"}
Nodes == [type : {"pane", "editor"}, id : Nat \ {0}]
           \union [type : {"split"}, direction : Directions, ratio : 1..9]

\* The positions of the dividers, and of the panes with terminals or editors;
\* the nodes in the panes.
Leaves(t) == {p \in DOMAIN t : t[p].type # "split"}
Dividers(t) == DOMAIN t \ Leaves(t)
LeavesIn(t) == {t[p] : p \in Leaves(t)}

\* A split has both of its trees; only below a split are there other nodes.
IsTree(t) ==
    /\ t = [p \in DOMAIN t |-> t[p]] /\ IsFiniteSet(DOMAIN t)
    /\ \A p \in DOMAIN t : p \in Seq({0, 1}) /\ t[p] \in Nodes
    /\ \A p \in DOMAIN t : \A i \in DOMAIN p : SubSeq(p, 1, i - 1) \in Dividers(t)
    /\ \A p \in Dividers(t), side \in {0, 1} : Append(p, side) \in DOMAIN t

Leaf(node) == [p \in {<<>>} |-> node]

\* collectTerminalIds, containsTerminal.
Panes(t) == {p \in DOMAIN t : t[p].type = "pane"}
TerminalsIn(t) == {t[p].id : p \in Panes(t)}
ContainsTerminal(t, x) == x \in TerminalsIn(t)

\* The first of collectTerminalIds.
LeftOf(p, q) ==
    \E k \in DOMAIN p \intersect DOMAIN q : p[k] < q[k] /\ \A i \in 1..k-1 : p[i] = q[i]
FirstPane(t) == CHOOSE p \in Panes(t) : \A q \in Panes(t) \ {p} : LeftOf(p, q)
FirstTerminal(t) == t[FirstPane(t)].id

\* The elements of a sequence at some of its indices, in order.
Subsequence(q, I) ==
    [k \in 1..Cardinality(I) |-> q[CHOOSE i \in I : Cardinality({j \in I : j <= i}) = k]]

-----------------------------------------------------------------------------
(* The tree without the leaves that are not in kept: removePane,            *)
(* removeEditorLayoutPane, pruneLayout and pruneEditorPanes.  (Ratios in a  *)
(* state are clamped already, so pruneLayout's clamp changes nothing.)      *)

KeptBelow(t, kept, p) == \E q \in Leaves(t) : IsPrefix(p, q) /\ t[q] \in kept

\* The other side of the split at which the i-th step to p is taken.
Beside(p, i) == Append(SubSeq(p, 1, i - 1), 1 - p[i])

\* A split with one side gone is its other side.
\* (Mutant: the remaining side goes with it.)
Remaining_BothOrNone(t, kept) ==
    {p \in DOMAIN t :
        /\ \A i \in DOMAIN p : KeptBelow(t, kept, Beside(p, i))
        /\ IF t[p].type = "split" THEN \A side \in {0, 1} : KeptBelow(t, kept, Append(p, side))
           ELSE t[p] \in kept}
Remaining(t, kept) ==
    {p \in DOMAIN t :
        IF t[p].type = "split" THEN \A side \in {0, 1} : KeptBelow(t, kept, Append(p, side))
        ELSE t[p] \in kept}

NewPosition(t, kept, p) == Subsequence(p, {i \in DOMAIN p : KeptBelow(t, kept, Beside(p, i))})

Pruned(t, kept) ==
    LET left == Remaining(t, kept)
    IN  [q \in {NewPosition(t, kept, p) : p \in left} |->
            t[CHOOSE p \in left : NewPosition(t, kept, p) = q]]

-----------------------------------------------------------------------------
\* replacePane, where a terminal's pane is split with a new node.
PaneSplit(t, x, direction, node) ==
    LET at == {p \in Panes(t) : t[p].id = x}
    IN  [p \in DOMAIN t \union {Append(q, side) : q \in at, side \in {0, 1}} |->
            IF p \in at THEN Split(direction, 5)
            ELSE IF p \in DOMAIN t THEN t[p]
            ELSE IF p[Len(p)] = 0 THEN Pane(x) ELSE node]

ClampRatio(ratio) == IF ratio < 1 THEN 1 ELSE IF ratio > 9 THEN 9 ELSE ratio

\* setRatioAtPath: a path that leaves the tree changes nothing.
RatioSet(t, path, ratio) ==
    IF path \in Dividers(t) THEN [t EXCEPT ![path].ratio = ratio] ELSE t

\* The depth a saved tree may not exceed.
Depth(t) == 1 + Max({Len(p) : p \in DOMAIN t})
=============================================================================
