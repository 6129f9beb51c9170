----------------------------- MODULE Workspace ------------------------------
(***************************************************************************)
(* A browser's workspace (TerminalWorkspace.tsx over terminalReducer.ts),  *)
(* the terminals of the server it shows (TerminalManager.ts behind         *)
(* terminalRoutes.ts) and the saved layout, with other devices that work   *)
(* on the same server.                                                     *)
(*                                                                         *)
(* The commands that create or close terminals or open files, and the      *)
(* saves of the layout, wait for the server; their requests are served and *)
(* answered in any order and may fail.  Loading reads the terminals and    *)
(* the layout by two independent requests.                                 *)
(*                                                                         *)
(* stateRef and the rendered state are one.  A terminal.updated (a shell   *)
(* that ends) only changes the summary of a terminal that the page knows;  *)
(* one that arrives after the terminal was removed, whose key it adds to   *)
(* terminalsById again, is left out.  So is what the script of an          *)
(* unmounted workspace still writes to localStorage once its save has      *)
(* succeeded.                                                              *)
(***************************************************************************)
EXTENDS WorkspaceReducer, PaneNavigation

CONSTANTS
    StoredTrees,    \* the layout may be one an earlier session stored: one tab,
                    \* of one of these trees
    MaxTerminals,   \* bound: terminals ever created
    MaxWorkspaces,  \* bound: workspaces of a layout
    MaxEvents,      \* bound: commands of this browser's user, reloads and failed
                    \* loads of its page and edits of other devices, in total
    MaxCalls,       \* bound: commands waiting for the server at once
    MaxSaves,       \* bound: saves of this page waiting for the server at once
    Ratios,         \* where dividers are dragged to, tenths
    MaxDepth        \* maxLayoutNodeDepth

\* A stored tree shows the terminals 1 to their number, each in one pane.
ASSUME ConstantsAssumption ==
    /\ MaxWorkspaces \in Nat /\ Ratios \subseteq Int
    /\ \A root \in StoredTrees :
          /\ IsTree(root)
          /\ \A p, q \in Panes(root) : root[p].id = root[q].id => p = q
          /\ 1 \in TerminalsIn(root)
          /\ TerminalsIn(root) = 1..Cardinality(TerminalsIn(root))

VARIABLES
    created,    \* the number of terminals ever created; their ids are 1..created
    running,    \* TerminalManager.terminals: those that are not closed
    layout,     \* the layout the server stored
    rev,        \* its revision
    \* this browser
    phase,      \* "loading", "ready"
    listed,     \* what its load read, or Unread
    read,
    local,      \* the layout its load found in the browser's cache
    state,      \* stateRef, and the rendered state
    persisted,  \* lastPersistedLayoutJsonRef
    revision,   \* layoutRevisionRef
    pending,    \* the changed layout that waits for its debounce, or NoLayout
    saves,      \* the saves under way, of this page and of those before it
    cache,      \* the layout in localStorage; it is read only if the server has
                \* none, and left out (NoLayout) once it has one
    ops,        \* its commands that wait for the server
    \* history
    mine,       \* terminals created for this browser
    lost,       \* those whose creation this page was not told of, or told
                \* while it could not keep it
    tangled,    \* two tabs had to get the same id, as when a creation is answered
                \* after the page's load has shown its terminal
    events      \* commands, reloads and other devices' edits so far

serverVars == <<created, running, layout, rev>>
loadVars   == <<phase, listed, read, local>>
knownVars  == <<persisted, revision>>
saveVars   == <<knownVars, pending, saves, cache>>
historyVars == <<mine, lost, tangled, events>>
vars == <<serverVars, loadVars, state, saveVars, ops, historyVars>>

Unread == [read |-> FALSE, value |-> <<>>]
Read(v) == [read |-> TRUE, value |-> v]
Titles == {"given", "renamed"}

\* A command's calls.  at: its number among the events.  loading: the page
\* was loading when it was given, which is what its closure sees.  alive: the
\* page that waits is still there and no call has failed.
\* Of a creation: where it puts the terminal, the terminal once it is
\* created.  Of a closing: the terminals it closes, those whose call is under
\* way, the workspace to close after them or NoId.
Creation(place) ==
    [kind |-> "create", place |-> place, terminal |-> NoId,
     at |-> events + 1, loading |-> phase = "loading", alive |-> TRUE]
Closing(ids, w) ==
    [kind |-> "close", ids |-> ids, todo |-> ids, workspace |-> w,
     at |-> events + 1, loading |-> phase = "loading", alive |-> TRUE]
Opening == [kind |-> "open", at |-> events + 1, loading |-> phase = "loading", alive |-> TRUE]

\* A save: its request is under way ("put"), or its response, with the layout
\* and the revision it tells: of the save ("saved"), or after a conflict of
\* the layout that was fetched then ("got").
Save(l, base) == [step |-> "put", layout |-> l, rev |-> base, at |-> events, alive |-> TRUE]
Response(c, step, l, r) == [step |-> step, layout |-> l, rev |-> r, at |-> c.at, alive |-> TRUE]

\* The request goes on when the page is gone; a response is for nobody then.
Left(c) == [step |-> "put", layout |-> c.layout, rev |-> c.rev, at |-> c.at, alive |-> FALSE]

NoRevision == -1

\* A new server; or one with the terminals and the layout of an earlier
\* session: its first revision, and counted as one event.
Starts(terminals, stored, n) ==
    /\ created = Cardinality(terminals) /\ running = terminals
    /\ layout = stored /\ rev = n
    /\ events = n
    /\ phase = "loading" /\ listed = Unread /\ read = Unread /\ local = NoLayout
    /\ state = EmptyState
    /\ persisted = NoLayout /\ revision = NoRevision /\ pending = NoLayout
    /\ saves = {} /\ cache = NoLayout
    /\ ops = {}
    /\ mine = {} /\ lost = {} /\ tangled = FALSE

OneTab(root) == [TabFor(1) EXCEPT !.root = root]
Init ==
    \/ Starts({}, NoLayout, 0)
    \/ \E root \in StoredTrees :
          Starts(TerminalsIn(root),
                 [workspaces |-> <<[EmptyDefault EXCEPT !.tabs = <<OneTab(root)>>, !.activeTab = 1]>>,
                  active |-> DefaultWorkspace], 1)

Event == events < MaxEvents /\ events' = events + 1

\* listTerminals: in order of creation.
Listed == Subsequence([t \in 1..created |-> t], running)

\* normalizeTerminalLayoutState accepts it.
Storable(l) ==
    \A i \in DOMAIN l.workspaces : \A j \in DOMAIN l.workspaces[i].tabs :
        Depth(l.workspaces[i].tabs[j].root) <= MaxDepth

\* The server stores a layout; writeSavedLayout.
Stores(l) == layout' = l /\ rev' = rev + 1 /\ cache' = NoLayout
Caches(l) == cache' = IF layout = NoLayout THEN l ELSE cache

\* dispatchLayoutChange: nothing is queued by a command that was given while
\* the page loaded, even if it is answered later, nor a layout that is the
\* persisted one.
Changes(s, loading) ==
    /\ state' = s
    /\ IF ~loading /\ s.workspaces # <<>> /\ Serialize(s) # persisted
       THEN pending' = Serialize(s) /\ Caches(Serialize(s))
       ELSE UNCHANGED <<pending, cache>>

-----------------------------------------------------------------------------
(* Loading: loadWorkspace.                                                  *)

ReadsTerminals ==
    /\ phase = "loading" /\ ~listed.read
    /\ listed' = Read(Listed)
    /\ UNCHANGED <<serverVars, phase, read, local, state, saveVars, ops, historyVars>>

ReadsLayout ==
    /\ phase = "loading" /\ ~read.read
    /\ read' = Read(layout)
    /\ revision' = rev
    /\ UNCHANGED <<serverVars, phase, listed, local, state, persisted, pending, saves, cache, ops, historyVars>>

\* A server without terminals is asked for one.
CreatesFirst ==
    /\ phase = "loading" /\ listed.read /\ read.read
    /\ listed.value = <<>> /\ created < MaxTerminals
    /\ created' = created + 1
    /\ running' = running \union {created'}
    /\ mine' = mine \union {created'}
    /\ listed' = Read(<<created'>>)
    /\ UNCHANGED <<layout, rev, phase, read, local, state, saveVars, ops, lost, events, tangled>>

\* A saved tab lost the terminal it was made for and keeps others; the
\* terminal, if it is listed, gets a second tab with this id.
Tangles(terminals, saved) ==
    \E tab \in AllTabs(saved) :
        /\ tab.id \in ToSet(terminals) \ Shown(saved)
        /\ TerminalsIn(tab.root) \intersect ToSet(terminals) # {}

\* What the page showed before is dropped, a tab opened meanwhile too.  A
\* layout from the browser's cache is saved at once.
Hydrates ==
    LET migrates == read.value = NoLayout /\ local # NoLayout
        source == IF migrates THEN local ELSE read.value
    IN  /\ phase = "loading" /\ listed.read /\ read.read /\ listed.value # <<>>
        /\ phase' = "ready"
        /\ state' = Reconstruct(listed.value, source)
        /\ persisted' = Serialize(state')
        /\ saves' = IF migrates THEN saves \union {Save(persisted', revision)} ELSE saves
        /\ lost' = (lost \union ToSet(state.terminals)) \ ToSet(listed.value)
        /\ tangled' = (tangled \/ Tangles(listed.value, source))
        /\ listed' = Unread /\ read' = Unread /\ local' = NoLayout
        /\ UNCHANGED <<serverVars, revision, pending, cache, ops, mine, events>>

\* The page stays usable, and knows no revision.
LoadFails ==
    /\ phase = "loading" /\ Event
    /\ phase' = "ready"
    /\ lost' = lost \union (mine \ ToSet(state.terminals))
    /\ listed' = Unread /\ read' = Unread /\ local' = NoLayout
    /\ revision' = NoRevision
    /\ UNCHANGED <<serverVars, state, persisted, pending, saves, cache, ops, mine, tangled>>

\* The browser loads the page anew; or the workspace is unmounted, which sends
\* what is pending at once, and mounted again.  The calls of the page that
\* goes are served all the same, then or later.
Reloads ==
    /\ phase = "ready" /\ Event
    /\ phase' = "loading"
    /\ state' = EmptyState
    /\ persisted' = NoLayout /\ revision' = NoRevision /\ pending' = NoLayout
    /\ \E sent \in SUBSET ({pending} \ {NoLayout}) :
          /\ saves' = {Left(c) : c \in {d \in saves : d.step = "put"}
                                        \union {Save(l, revision) : l \in sent}}
          /\ IF sent = {} THEN UNCHANGED cache ELSE Caches(pending)
    /\ local' = IF Storable(cache') THEN cache' ELSE NoLayout
    /\ ops' = {[op EXCEPT !.alive = FALSE] : op \in ops}
    /\ UNCHANGED <<serverVars, listed, read, mine, lost, tangled>>

-----------------------------------------------------------------------------
(* Commands that only change the layout.                                    *)

LayoutCommand(s) ==
    /\ Event
    /\ Changes(s, phase = "loading")
    /\ UNCHANGED <<serverVars, loadVars, knownVars, saves, ops, mine, lost, tangled>>

NewId(s) == CHOOSE id \in 1..MaxWorkspaces + 1 : id \notin Ids(s.workspaces) \union {DefaultWorkspace}

CreatesWorkspace ==
    /\ Len(state.workspaces) < MaxWorkspaces
    /\ LayoutCommand(CreateWorkspace(state, NewId(state)))
SelectsWorkspace == \E id \in Ids(state.workspaces) : LayoutCommand(SelectWorkspace(state, id))
RenamesWorkspace ==
    \E id \in Ids(state.workspaces), title \in Titles : LayoutCommand(RenameWorkspace(state, id, title))
SelectsTab == HasTab(state) /\ \E id \in Ids(ActiveWorkspace(state).tabs) : LayoutCommand(SelectTab(state, id))
RenamesTab ==
    /\ HasTab(state)
    /\ \E id \in Ids(ActiveWorkspace(state).tabs), title \in Titles : LayoutCommand(RenameTab(state, id, title))
SelectsPane ==
    /\ phase = "ready" /\ HasTab(state)
    /\ \E t \in TerminalsIn(ActiveTab(state).root) : LayoutCommand(SelectPane(state, t))
ResizesPane ==
    /\ phase = "ready" /\ HasTab(state)
    /\ \E path \in {<<>>, <<0>>, <<1>>}, ratio \in Ratios : LayoutCommand(ResizePane(state, path, ratio))

ClosesEditor ==
    \E leaf \in {l \in LeavesShown(state) : l.type = "editor"} : LayoutCommand(RemoveEditor(state, leaf.id))

\* paneTargetForShortcut.
Targets(root, active) ==
    {DirectionalTarget(root, active, d) : d \in {"left", "right", "up", "down"}}
      \union {RelativeTarget(root, active, 1), RelativeTarget(root, active, -1)}
      \union {IndexTarget(root, i) : i \in 1..3}

\* handleWorkspaceKeyDown.
PressesKey ==
    /\ HasTab(state)
    /\ \E t \in Targets(ActiveTab(state).root, ActiveTab(state).activeTerminal) \ {NoTarget} :
          LayoutCommand(SelectPane(state, t))

-----------------------------------------------------------------------------
(* Commands that create terminals or open files.                            *)

Asks(op) ==
    /\ Event
    /\ Cardinality(ops) < MaxCalls
    /\ ops' = ops \union {op}
    /\ UNCHANGED <<serverVars, loadVars, state, saveVars, mine, lost, tangled>>

Becomes(op, op2) == ops' = (ops \ {op}) \union {op2}

\* createNewTab, split; the button for a split needs an active pane.
CreatesTab == Asks(Creation("tab"))
Splits == HasTab(state) /\ \E d \in Directions : Asks(Creation(d))

\* POST /api/terminals.
ServerCreates(op) ==
    /\ op.kind = "create" /\ op.terminal = NoId
    /\ created < MaxTerminals
    /\ created' = created + 1
    /\ running' = running \union {created'}
    /\ mine' = mine \union {created'}
    /\ Becomes(op, [op EXCEPT !.terminal = created'])
    /\ UNCHANGED <<layout, rev, loadVars, state, saveVars, lost, events, tangled>>

\* The page shows the terminal already, or a tab that keeps its id without it.
Retaken(op) ==
    \/ op.terminal \in ToSet(state.terminals)
    \/ op.terminal \in {tab.id : tab \in AllTabs(state)} /\ (op.place = "tab" \/ ~HasTab(state))

\* The answer places the terminal where the active pane is by now.
CreateReturns(op) ==
    /\ op.kind = "create" /\ op.terminal # NoId /\ op.alive
    /\ Changes(IF op.place = "tab" THEN CreateTab(state, op.terminal)
               ELSE SplitActive(state, op.terminal, op.place),
               op.loading)
    /\ ops' = ops \ {op}
    /\ tangled' = (tangled \/ Retaken(op))
    /\ UNCHANGED <<serverVars, loadVars, knownVars, saves, mine, lost, events>>

\* The request or the answer is lost, or the page is gone.
CreateFails(op) ==
    /\ op.kind = "create"
    /\ lost' = lost \union ({op.terminal} \ (ToSet(state.terminals) \union {NoId}))
    /\ ops' = ops \ {op}
    /\ UNCHANGED <<serverVars, loadVars, state, saveVars, mine, events, tangled>>

\* openFileInEditorPane: every file it opens gets an editor of its own, beside
\* the pane that is active by the time it is read; its read may fail.
OpensFile == HasTab(state) /\ Asks(Opening)
FileReturns(op) ==
    /\ op.kind = "open" /\ op.alive
    /\ Changes(SplitEditor(state, op.at, "vertical"), op.loading)
    /\ ops' = ops \ {op}
    /\ UNCHANGED <<serverVars, loadVars, knownVars, saves, historyVars>>
FileFails(op) ==
    /\ op.kind = "open"
    /\ ops' = ops \ {op}
    /\ UNCHANGED <<serverVars, loadVars, state, saveVars, historyVars>>

-----------------------------------------------------------------------------
(* Commands that close terminals.                                           *)

\* The last pane of a tab and the last tab of a workspace have no button.
ClosesPane ==
    /\ phase = "ready" /\ HasTab(state) /\ Cardinality(Leaves(ActiveTab(state).root)) > 1
    /\ \E t \in TerminalsIn(ActiveTab(state).root) : Asks(Closing({t}, NoId))
ClosesTab ==
    /\ HasTab(state) /\ Len(ActiveWorkspace(state).tabs) > 1
    /\ \E tab \in ToSet(ActiveWorkspace(state).tabs) : Asks(Closing(TerminalsIn(tab.root), NoId))

ClosesWorkspace ==
    /\ Len(state.workspaces) > 1
    /\ \E w \in ToSet(state.workspaces) : Asks(Closing(TerminalsOf(w), w.id))

\* DELETE /api/terminals/:id; a terminal that is gone already is as good.
ServerCloses(op, t) ==
    /\ op.kind = "close" /\ t \in op.todo
    /\ running' = running \ {t}
    /\ Becomes(op, [op EXCEPT !.todo = @ \ {t}])
    /\ UNCHANGED <<created, layout, rev, loadVars, state, saveVars, historyVars>>

\* One call fails: no pane is removed, the other calls go on.
CloseFails(op, t) ==
    /\ op.kind = "close" /\ t \in op.todo
    /\ Becomes(op, [op EXCEPT !.todo = @ \ {t}, !.alive = FALSE])
    /\ UNCHANGED <<serverVars, loadVars, state, saveVars, historyVars>>

\* A closed workspace goes with terminals that were opened in it meanwhile,
\* whose shells stay.
Removed(op) ==
    IF op.workspace # NoId THEN CloseWorkspace(state, op.workspace)
    ELSE RemoveTerminals(state, op.ids)

CloseReturns(op) ==
    /\ op.kind = "close" /\ op.todo = {}
    /\ ops' = ops \ {op}
    /\ IF op.alive
       THEN /\ Changes(Removed(op), op.loading)
            /\ lost' = lost \union (ToSet(state.terminals) \ (ToSet(Removed(op).terminals) \union op.ids))
       ELSE UNCHANGED <<state, pending, cache, lost>>
    /\ UNCHANGED <<serverVars, loadVars, knownVars, saves, mine, events, tangled>>

-----------------------------------------------------------------------------
(* Saving: persistLayout.                                                   *)

\* The debounce ends.
Saves ==
    /\ pending # NoLayout /\ Cardinality(saves) < MaxSaves
    /\ pending' = NoLayout
    /\ saves' = saves \union {Save(pending, revision)}
    /\ UNCHANGED <<serverVars, loadVars, state, knownVars, cache, ops, historyVars>>

\* The response to a save, if the page that waits for it is there.
Answers(c, step, l, r) ==
    saves' = (saves \ {c}) \union
             (IF c.alive THEN {Response(c, step, l, r)} ELSE {})

\* PUT /api/terminal-layout, and after a conflict GET; nothing that happens
\* between the two would be seen.  A base that differs from the revision stays
\* different, and one that was named and differs means that there is a layout.
ServerSaves(c) ==
    /\ c.step = "put" /\ Storable(c.layout)
    /\ IF c.rev \in {NoRevision, rev}
       THEN Stores(c.layout) /\ Answers(c, "saved", c.layout, rev')
       ELSE Answers(c, "got", layout, rev) /\ UNCHANGED <<layout, rev, cache>>
    /\ UNCHANGED <<created, running, loadVars, state, knownVars, pending, ops, historyVars>>

\* The page remembers what it saved, or adopts what another device saved.
SaveReturns(c) ==
    /\ c.step # "put"
    /\ saves' = saves \ {c}
    /\ revision' = c.rev
    /\ IF c.step = "saved"
       THEN persisted' = c.layout /\ UNCHANGED <<state, tangled>>
       ELSE /\ state' = Reconstruct(state.terminals, c.layout)
            /\ persisted' = Serialize(state')
            /\ tangled' = (tangled \/ Tangles(state.terminals, c.layout))
    /\ UNCHANGED <<serverVars, loadVars, pending, cache, ops, mine, lost, events>>

\* The network or the server fails, before or after the layout is stored, or
\* the layout is refused: the page knows of no save, and nothing is tried again
\* until the next change.  Of a page that is gone the script may be, too.
\* (Mutant: the layout is marked as persisted.)
SaveFails_Marked(c) ==
    /\ saves' = saves \ {c}
    /\ persisted' = IF c.alive THEN c.layout ELSE persisted
    /\ UNCHANGED <<serverVars, loadVars, state, revision, pending, cache, ops, historyVars>>
SaveFails(c) ==
    /\ saves' = saves \ {c}
    /\ \/ Caches(c.layout)
       \/ ~c.alive /\ UNCHANGED cache
    /\ UNCHANGED <<serverVars, loadVars, state, knownVars, pending, ops, historyVars>>

-----------------------------------------------------------------------------
(* Other devices: one loads, its user gives one command and the layout is   *)
(* saved, in one step.                                                      *)

OtherSaves(s) ==
    /\ Event
    /\ Storable(Serialize(s))
    /\ Stores(Serialize(s))
    /\ tangled' = (tangled \/ Tangles(Listed, layout))
    /\ UNCHANGED <<loadVars, state, knownVars, pending, saves, ops, mine, lost>>

OtherDevice ==
    /\ running # {}
    /\ LET s == Reconstruct(Listed, layout) IN
       \/ /\ created < MaxTerminals
          /\ created' = created + 1 /\ running' = running \union {created'}
          /\ \/ OtherSaves(CreateTab(s, created'))
             \/ OtherSaves(SplitActive(s, created', "vertical"))
       \/ \E t \in running :
             /\ running' = running \ {t}
             /\ OtherSaves(RemoveTerminals(s, {t}))
             /\ UNCHANGED created
       \/ /\ Len(s.workspaces) < MaxWorkspaces
          /\ OtherSaves(CreateWorkspace(s, NewId(s)))
          /\ UNCHANGED <<created, running>>

-----------------------------------------------------------------------------
Loading == ReadsTerminals \/ ReadsLayout \/ CreatesFirst \/ Hydrates \/ LoadFails \/ Reloads
Local ==
    \/ CreatesWorkspace \/ SelectsWorkspace \/ RenamesWorkspace
    \/ SelectsTab \/ RenamesTab \/ SelectsPane \/ PressesKey \/ ResizesPane
    \/ ClosesEditor
Remote ==
    \/ CreatesTab \/ Splits \/ OpensFile \/ ClosesPane \/ ClosesTab \/ ClosesWorkspace
    \/ \E op \in ops :
          \/ ServerCreates(op) \/ CreateReturns(op) \/ CreateFails(op)
          \/ FileReturns(op) \/ FileFails(op) \/ CloseReturns(op)
          \/ op.kind = "close" /\ \E t \in op.todo : ServerCloses(op, t) \/ CloseFails(op, t)

Saving == Saves \/ \E c \in saves : ServerSaves(c) \/ SaveReturns(c) \/ SaveFails(c)

Next == Loading \/ Local \/ Remote \/ Saving \/ OtherDevice

Spec == Init /\ [][Next]_vars

-----------------------------------------------------------------------------
(* Properties.                                                              *)

\* The comment on the layers' keys: tab ids collide across workspaces in
\* corrupt or hand-edited layouts only, so workspace and tab id identify a tab.
LayerKeysDiffer ==
    \A w \in ToSet(state.workspaces) : Cardinality(Ids(w.tabs)) = Len(w.tabs)

\* The panes of a state: workspace, tab and position in the tab's tree.
Places(s) ==
    UNION {UNION {{<<i, j, p>> : p \in Panes(s.workspaces[i].tabs[j].root)} :
                  j \in DOMAIN s.workspaces[i].tabs} : i \in DOMAIN s.workspaces}
TerminalAt(s, x) == s.workspaces[x[1]].tabs[x[2]].root[x[3]].id

\* Every terminal the page knows is in exactly one pane, and every pane's
\* terminal is known: after loads that race with other devices, conflicts,
\* closings and reloads, unless they were tangled.
EachShownOnce == ~tangled =>
    /\ Shown(state) = ToSet(state.terminals)
    /\ \A x, y \in Places(state) : TerminalAt(state, x) = TerminalAt(state, y) => x = y

\* The active workspace and tab exist and a tab's active terminal has a pane
\* in it, so that input goes where the user looks and a split is not lost.
FocusIsSound == ~tangled =>
    /\ state.workspaces # <<>> => state.active \in Ids(state.workspaces)
    /\ \A w \in ToSet(state.workspaces) :
          /\ IF w.tabs = <<>> THEN w.activeTab = NoId ELSE w.activeTab \in Ids(w.tabs)
          /\ \A tab \in ToSet(w.tabs) : tab.activeTerminal \in TerminalsIn(tab.root)

\* When a page takes what it shows for saved (it compares, before it queues a
\* save, with what it last knew persisted) and has the server's revision, a
\* reload shows the same workspaces, tabs, panes, sizes and focus, without the
\* editors: whatever saves overlapped, failed or met conflicts.  (Tabs that the
\* stored layout lacks come in the server's order then.)
ReloadRestores ==
    ~tangled /\ phase = "ready" /\ Serialize(state) = persisted
      /\ revision = rev /\ layout # NoLayout
      /\ running = ToSet(state.terminals)
      /\ (state.terminals = Listed \/ Unrepresented(Listed, layout.workspaces) = <<>>) =>
        LET back == Reconstruct(Listed, layout)
        IN  /\ Serialize(back) = Serialize(state)
            /\ back.active = state.active
            /\ \A i \in DOMAIN state.workspaces :
                  back.workspaces[i].activeTab = state.workspaces[i].activeTab

\* A shell that was started for this browser is shown by it, or its answer is
\* on the way: except those whose answer was lost or whose place was dropped
\* by a load or by closing the workspace it was opened in.
ShellsAreShown ==
    phase = "ready" =>
        (mine \intersect running) \ lost \subseteq
            Shown(state) \union {op.terminal : op \in {o \in ops : o.kind = "create"}}

\* In a tab without editors the arrow keys reach every terminal from every
\* other one, whatever splits, closings and drags led to it.
Arrows(root) ==
    {<<t, DirectionalTarget(root, t, d)>> : t \in TerminalsIn(root),
                                            d \in {"left", "right", "up", "down"}}
ArrowsReachAll ==
    HasTab(state) /\ Leaves(ActiveTab(state).root) = Panes(ActiveTab(state).root) =>
        LET root == ActiveTab(state).root
            all == TerminalsIn(root)
            arrows == Arrows(root)
            Further(S) == S \union {t \in all : \E u \in S : <<u, t>> \in arrows}
        IN  \A t \in all : Further(Further(Further({t}))) = all
=============================================================================
