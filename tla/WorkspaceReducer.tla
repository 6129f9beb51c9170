-------------------------- MODULE WorkspaceReducer --------------------------
(***************************************************************************)
(* terminalReducer.ts: the state of the browser's workspaces and every     *)
(* operation on it, as operators on state records, with the layout that is *)
(* saved and what is restored from it.                                     *)
(*                                                                         *)
(* A terminal is its id, a positive number; a tab has the id of the        *)
(* terminal it was made for.  Summaries (title, cwd, status) are left out: *)
(* "terminals" is the keys of the code's map, in insertion order.          *)
(***************************************************************************)
EXTENDS LayoutTree

NoId == 0               \* null, where an id may be missing
DefaultWorkspace == 1   \* 'workspace-default'

NewWorkspace(id) == [id |-> id, title |-> "given", tabs |-> <<>>, activeTab |-> NoId]
EmptyDefault == NewWorkspace(DefaultWorkspace)
EmptyState == [workspaces |-> <<>>, active |-> NoId, terminals |-> <<>>]
TabFor(t) == [id |-> t, title |-> "given", root |-> Leaf(Pane(t)), activeTerminal |-> t]
TabsFor(terminals) == [i \in DOMAIN terminals |-> TabFor(terminals[i])]

Ids(q) == {q[i].id : i \in DOMAIN q}

\* The element with this id, else the first: getActiveWorkspace, getActiveTab.
Current(q, id) ==
    LET at == {i \in DOMAIN q : q[i].id = id} IN q[IF at = {} THEN 1 ELSE Min(at)]
ActiveWorkspace(s) == Current(s.workspaces, s.active)
HasTab(s) == s.workspaces # <<>> /\ ActiveWorkspace(s).tabs # <<>>
ActiveTab(s) == LET w == ActiveWorkspace(s) IN Current(w.tabs, w.activeTab)

\* Change applied to the element with this id.
Edited(q, id, Change(_)) == [i \in DOMAIN q |-> IF q[i].id = id THEN Change(q[i]) ELSE q[i]]
EditWorkspace(s, w, Change(_)) == [s EXCEPT !.workspaces = Edited(s.workspaces, w, Change)]
EditTab(s, w, tab, Change(_)) ==
    EditWorkspace(s, w, LAMBDA v : [v EXCEPT !.tabs = Edited(v.tabs, tab, Change)])
EditActiveTab(s, Change(_)) == EditTab(s, ActiveWorkspace(s).id, ActiveTab(s).id, Change)

\* listWorkspaceTerminalIds, and those of several workspaces.
TerminalsOf(w) == UNION {TerminalsIn(tab.root) : tab \in ToSet(w.tabs)}
ShownIn(ws) == UNION {TerminalsOf(w) : w \in ToSet(ws)}
Shown(s) == ShownIn(s.workspaces)

AllTabs(s) == UNION {ToSet(w.tabs) : w \in ToSet(s.workspaces)}
LeavesShown(s) == UNION {LeavesIn(tab.root) : tab \in AllTabs(s)}

Known(s, t) == IF t \in ToSet(s.terminals) THEN s.terminals ELSE Append(s.terminals, t)

-----------------------------------------------------------------------------
(* Pruning: a tab without terminals goes, with its editors; ids that no     *)
(* longer exist are replaced by the first one.                              *)

\* Mutant: the first tab becomes the active one.
NormalizeActiveTab_First(w) ==
    [w EXCEPT !.activeTab = IF w.tabs = <<>> THEN NoId ELSE w.tabs[1].id]
NormalizeActiveTab(w) ==
    [w EXCEPT !.activeTab = IF @ \in Ids(w.tabs) THEN @
                            ELSE IF w.tabs = <<>> THEN NoId ELSE w.tabs[1].id]

\* Mutant: the active terminal of a tab stays although its pane is gone.
ActiveAmong_Stays(tab, root) == tab.activeTerminal
ActiveAmong(tab, root) ==
    IF ContainsTerminal(root, tab.activeTerminal) THEN tab.activeTerminal ELSE FirstTerminal(root)

PrunedTab(tab, kept) ==
    LET root == Pruned(tab.root, kept)
    IN  [tab EXCEPT !.root = root, !.activeTerminal = ActiveAmong(tab, root)]

PrunedTabs(tabs, kept) ==
    LET left == Subsequence(tabs, {i \in DOMAIN tabs : TerminalsIn(Pruned(tabs[i].root, kept)) # {}})
    IN  [i \in DOMAIN left |-> PrunedTab(left[i], kept)]

PrunedWorkspace(w, kept) == NormalizeActiveTab([w EXCEPT !.tabs = PrunedTabs(w.tabs, kept)])
PrunedWorkspaces(ws, kept) == [i \in DOMAIN ws |-> PrunedWorkspace(ws[i], kept)]

PrunedTo(s, kept) ==
    [s EXCEPT !.workspaces = PrunedWorkspaces(s.workspaces, kept),
              !.active = IF @ \in Ids(s.workspaces) THEN @
                         ELSE IF s.workspaces = <<>> THEN NoId ELSE s.workspaces[1].id]

\* Removing terminals one by one comes to the same as removing all at once.
Without(terminals, ids) ==
    Subsequence(terminals, {i \in DOMAIN terminals : terminals[i] \notin ids})
RemoveTerminals(s, ids) ==
    [PrunedTo(s, LeavesShown(s) \ {Pane(t) : t \in ids}) EXCEPT !.terminals = Without(@, ids)]
RemoveEditor(s, e) == PrunedTo(s, LeavesShown(s) \ {Editor(e)})

-----------------------------------------------------------------------------
(* The operations.                                                          *)

SelectWorkspace(s, id) == IF id \in Ids(s.workspaces) THEN [s EXCEPT !.active = id] ELSE s

CreateWorkspace(s, id) ==
    IF id \in Ids(s.workspaces) THEN SelectWorkspace(s, id)
    ELSE [s EXCEPT !.workspaces = Append(@, NewWorkspace(id)), !.active = id]

RenameWorkspace(s, id, title) == EditWorkspace(s, id, LAMBDA w : [w EXCEPT !.title = title])

CloseWorkspace(s, id) ==
    IF Len(s.workspaces) <= 1 \/ id \notin Ids(s.workspaces) THEN s
    ELSE LET left == Subsequence(s.workspaces, {i \in DOMAIN s.workspaces : s.workspaces[i].id # id})
         IN  [workspaces |-> left,
              active |-> IF s.active = id THEN left[1].id ELSE s.active,
              terminals |-> Without(s.terminals, TerminalsOf(Current(s.workspaces, id)))]

CreateTab(s, t) ==
    LET base == IF s.workspaces = <<>> THEN [s EXCEPT !.workspaces = <<EmptyDefault>>] ELSE s
        id == ActiveWorkspace(base).id
    IN  [EditWorkspace(base, id, LAMBDA w : [w EXCEPT !.tabs = Append(@, TabFor(t)), !.activeTab = t])
            EXCEPT !.active = id, !.terminals = Known(s, t)]

\* Where a new pane goes: the active pane is split in two.
SplitTab(tab, node, direction) ==
    [tab EXCEPT !.root = PaneSplit(@, tab.activeTerminal, direction, node)]

\* Mutant: a terminal whose tab is gone by the time it is created is dropped.
SplitActive_Dropped(s, t, direction) ==
    IF ~HasTab(s) THEN s
    ELSE [EditActiveTab(s, LAMBDA tab :
             [SplitTab(tab, Pane(t), direction) EXCEPT !.activeTerminal = t])
            EXCEPT !.terminals = Known(s, t)]
SplitActive(s, t, direction) ==
    IF ~HasTab(s) THEN CreateTab(s, t)
    ELSE [EditActiveTab(s, LAMBDA tab :
             [SplitTab(tab, Pane(t), direction) EXCEPT !.activeTerminal = t])
            EXCEPT !.terminals = Known(s, t)]

SplitEditor(s, e, direction) ==
    IF ~HasTab(s) THEN s
    ELSE EditActiveTab(s, LAMBDA tab : SplitTab(tab, Editor(e), direction))

SelectTab(s, id) ==
    IF s.workspaces = <<>> \/ id \notin Ids(ActiveWorkspace(s).tabs) THEN s
    ELSE EditWorkspace(s, ActiveWorkspace(s).id, LAMBDA w : [w EXCEPT !.activeTab = id])

RenamedTabs(tabs, id, title) == Edited(tabs, id, LAMBDA tab : [tab EXCEPT !.title = title])
RenameTab(s, id, title) ==
    LET ws == s.workspaces
    IN  [s EXCEPT !.workspaces =
            [i \in DOMAIN ws |-> [ws[i] EXCEPT !.tabs = RenamedTabs(ws[i].tabs, id, title)]]]

\* The pane's tab and workspace become the active ones.
SelectPane(s, t) ==
    LET owners == {i \in DOMAIN s.workspaces : t \in TerminalsOf(s.workspaces[i])}
    IN  IF owners = {} THEN s
        ELSE LET w == s.workspaces[Min(owners)]
                 tab == w.tabs[Min({j \in DOMAIN w.tabs : ContainsTerminal(w.tabs[j].root, t)})]
             IN  [EditWorkspace(EditTab(s, w.id, tab.id,
                                        LAMBDA v : [v EXCEPT !.activeTerminal = t]),
                                w.id, LAMBDA v : [v EXCEPT !.activeTab = tab.id])
                    EXCEPT !.active = w.id]

ResizePane(s, path, ratio) ==
    IF ~HasTab(s) THEN s
    ELSE EditActiveTab(s, LAMBDA tab : [tab EXCEPT !.root = RatioSet(@, path, ClampRatio(ratio))])

-----------------------------------------------------------------------------
(* What is saved, and what is restored from it.                             *)

NoLayout == [workspaces |-> <<>>, active |-> NoId]

\* serializeWorkspaceState: no editors.
Serialize(s) ==
    LET p == PrunedTo(s, {leaf \in LeavesShown(s) : leaf.type = "pane"})
    IN  [workspaces |-> p.workspaces, active |-> p.active]

Unrepresented(listed, ws) == Without(listed, ShownIn(ws))

\* reconstructTerminalState: of the saved tabs those with listed terminals,
\* and a new tab in the active workspace for each terminal that none shows.
Reconstruct(listed, saved) ==
    LET ws == IF saved.workspaces = <<>> THEN <<EmptyDefault>>
              ELSE PrunedWorkspaces(saved.workspaces, {Pane(listed[i]) : i \in DOMAIN listed})
        target == IF saved.active \in Ids(ws) THEN saved.active ELSE ws[1].id
        added == Unrepresented(listed, ws)
    IN  [workspaces |-> Edited(ws, target, LAMBDA w :
             NormalizeActiveTab([w EXCEPT !.tabs = @ \o TabsFor(added)])),
         active |-> target,
         terminals |-> listed]
=============================================================================
