--------------------------- MODULE PaneNavigation ---------------------------
(***************************************************************************)
(* paneNavigation.ts: where the keyboard moves the focus, from the places  *)
(* of the panes on the screen.  Coordinates are integers: the screen is    *)
(* Side wide and high, enough for exact tenths at every split.  The code's *)
(* epsilon, below any difference that occurs then, is 0.                   *)
(***************************************************************************)
EXTENDS LayoutTree

CONSTANT Side

Bounds(left, top, right, bottom) == [left |-> left, top |-> top, right |-> right, bottom |-> bottom]

\* One side of a split that has these bounds.
Half(split, side, b) ==
    LET x == b.left + ((b.right - b.left) * split.ratio) \div 10
        y == b.top + ((b.bottom - b.top) * split.ratio) \div 10
    IN  IF split.direction = "vertical"
        THEN IF side = 0 THEN [b EXCEPT !.right = x] ELSE [b EXCEPT !.left = x]
        ELSE IF side = 0 THEN [b EXCEPT !.bottom = y] ELSE [b EXCEPT !.top = y]

\* collectPaneEntries: the terminals' panes with their places.
BoundsAt(root, p) ==
    LET b[k \in 0..Len(p)] ==
            IF k = 0 THEN Bounds(0, 0, Side, Side)
            ELSE Half(root[SubSeq(p, 1, k - 1)], p[k], b[k - 1])
    IN  b[Len(p)]
Placed(root) == {[id |-> root[p].id, bounds |-> BoundsAt(root, p)] : p \in Panes(root)}

\* getPaneScreenReadingOrder: from the top, then from the left.
Before(e, f) ==
    \/ e.bounds.top < f.bounds.top
    \/ e.bounds.top = f.bounds.top /\ e.bounds.left < f.bounds.left
ScreenOrder(root) == SetToSortSeq(Placed(root), Before)
ReadingOrder(root) == LET order == ScreenOrder(root) IN [i \in DOMAIN order |-> order[i].id]

\* A pane's place as seen by one who looks in a direction: what is near and
\* far along it, and low and high across it.
Facing(b, direction) ==
    CASE direction = "right" -> [near |-> b.left, far |-> b.right, low |-> b.top, high |-> b.bottom]
      [] direction = "left"  -> [near |-> -b.right, far |-> -b.left, low |-> b.top, high |-> b.bottom]
      [] direction = "down"  -> [near |-> b.top, far |-> b.bottom, low |-> b.left, high |-> b.right]
      [] direction = "up"    -> [near |-> -b.bottom, far |-> -b.top, low |-> b.left, high |-> b.right]

Larger(m, n)  == IF m > n THEN m ELSE n
Smaller(m, n) == IF m < n THEN m ELSE n
Distance(m, n) == IF m > n THEN m - n ELSE n - m

\* scoreDirectionalCandidate: a candidate's centre lies ahead, and it
\* overlaps across.  (Mutant: it must lie wholly beside the pane.)
Ahead_Beside(a, c) ==
    /\ c.near + c.far > a.near + a.far
    /\ c.low >= a.low /\ c.high <= a.high
Ahead(a, c) ==
    /\ c.near + c.far > a.near + a.far
    /\ Smaller(a.high, c.high) > Larger(a.low, c.low)
Score(a, c, index) ==
    <<Larger(0, c.near - a.far), Distance(a.low + a.high, c.low + c.high),
      -(Smaller(a.high, c.high) - Larger(a.low, c.low)), index>>
Better(p, q) == \E i \in 1..4 : p[i] < q[i] /\ \A j \in 1..i-1 : p[j] = q[j]

NoTarget == 0

\* getDirectionalPaneTarget.
DirectionalTarget(root, active, direction) ==
    LET order == ScreenOrder(root)
        View(i) == Facing(order[i].bounds, direction)
        At == {i \in DOMAIN order : order[i].id = active}
        from == CHOOSE i \in At : TRUE
        ahead == {i \in DOMAIN order \ At : Ahead(View(from), View(i))}
        S(i) == Score(View(from), View(i), i)
    IN  IF At = {} \/ ahead = {} THEN NoTarget
        ELSE order[CHOOSE i \in ahead : \A j \in ahead \ {i} : Better(S(i), S(j))].id

\* getRelativePaneTarget: the next pane (1) or the previous (-1), around.
RelativeTarget(root, active, offset) ==
    LET order == ReadingOrder(root)
        At == {i \in DOMAIN order : order[i] = active}
    IN  IF At = {} \/ Len(order) < 2 THEN NoTarget
        ELSE order[1 + (((CHOOSE i \in At : TRUE) - 1 + offset + Len(order)) % Len(order))]

\* getPaneTargetByIndex.
IndexTarget(root, index) ==
    IF index \in DOMAIN ReadingOrder(root) THEN ReadingOrder(root)[index] ELSE NoTarget
=============================================================================
