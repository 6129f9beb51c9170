---------------------------- MODULE MCWorkspace -----------------------------
(* Workspace with a few terminals, workspaces and events.                   *)
EXTENDS Workspace

\* A split of two trees.
Joined(split, first, second) ==
    [p \in {<<>>} \union {<<0>> \o q : q \in DOMAIN first} \union {<<1>> \o q : q \in DOMAIN second} |->
        IF p = <<>> THEN split ELSE IF p[1] = 0 THEN first[Tail(p)] ELSE second[Tail(p)]]

\* Three panes, as splits of 1, and of 1 or 2, leave them.
MCRatios == {2, 5}
MCPane(t) == Leaf(Pane(t))
MCStoredTrees ==
    {Joined(Split(d, r), Joined(Split(e, 5), MCPane(1), MCPane(3)), MCPane(2)) :
        d, e \in Directions, r \in MCRatios}
      \union {Joined(Split(d, 5), MCPane(1), Joined(Split(e, 7), MCPane(2), MCPane(3))) :
        d, e \in Directions}
=============================================================================
