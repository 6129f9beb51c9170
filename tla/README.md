# Leominal in TLA+

Leominal is a personal web terminal: one Node.js process serves a React
workspace, runs host shells through node-pty and connects them to browsers
over WebSockets.  This directory holds TLA+ models of the parts of it where
order, failure and timing matter, TLC configurations that check them on small
instances, and proofs, checked by TLAPS, that the most important properties
hold for every instance.  Paths below are those of the repository, under
`src/`; `TM` is `src/server/terminal/TerminalManager.ts`, `TWS` is
`src/server/routes/terminalWebSocket.ts`, `FS` is
`src/server/storage/fileStore.ts`, `LR` is
`src/server/routes/terminalLayoutRoutes.ts` and `TW` is
`src/client/terminal/TerminalWorkspace.tsx`.

    tlc -config StreamSafety.cfg MCTerminalStream.tla     # a run
    tlapm FileStoreProofs.tla                             # the proofs of a module

## 1. Inventory

| component | state it keeps | operations | talks to | what is hard |
|---|---|---|---|---|
| Terminal manager (`TM`) | terminals by id: summary, pty, headless mirror, subscribers, nudge flag | create, attach, write, resize, nudge, close, cwd refresh | PTYs (callbacks), the WebSocket route (subscriber callbacks), the terminal routes | attach awaits while output, exit, resize and close go on; the mirror's buffer overflows; timers outlive what they captured |
| Terminal WebSocket route (`TWS`) | per socket: buffered frames, pending messages, the sender's coalesced output, heartbeat | upgrade, attach, replay, flush, heartbeat, cleanup | manager, auth service (check, revocation), ws | two awaits with live listeners, or none yet; slow and vanished clients; close at any point |
| State file store (`FS`) | `state.json`, a queue of updates | init, read, update | every service that persists | concurrent updates, failing calls, a kill between write and rename |
| Layout routes (`LR`) | the layout and its revision, in the state file | GET, PUT with compare-and-set | `FS`, browsers | stale revisions, lost responses |
| Workspace in the browser (`TW`) | layout, the revision it knows, pending save, debounce timer, localStorage | load, migrate, edit, save, adopt, unmount | layout routes, reducer | edits during a round trip, conflicts, failed loads |
| Authentication (`src/server/auth`) | sessions, TOTP enrolments and challenges, rate-limit buckets; credentials in the state file | setup, login, TOTP login, enrolment, validate, logout | `FS`, all routes, sockets (revocation events) | state read before an await and used after it; sessions revoked meanwhile |
| Uploads (`src/server/uploads`) | per request: planned targets, created files, limits | plan, write, finish, abort | file system, terminal cwd | names taken between plan and open; partial failure |
| File explorer (`src/server/files`) | none; signed root and preview tokens | list, read, versioned write, create, move, previewed delete | file system shared with the shell | check, then act, against other writers |
| Explorer and editor views (`src/client/files`) | draft, saved version, request and save generations | autosave, conflict, navigation | file routes | late answers |
| Terminal pane (`XtermPane.tsx`) | socket, backoff, size reported last | connect, reconnect, fit and report, input | `TWS` | reconnect timers, sizes remembered across connections |
| Workspace reducer (`terminalReducer.ts`) | workspaces, tabs, split trees | create, split, close, move, reconstruct | `TW` | saved layouts naming terminals that are gone |
| Service script (`scripts/leominalctl`) | a pid file | start, stop, restart, deploy | the OS, launchd | races over the pid file |
| Routes, configuration, views | – | wiring, parsing, rendering | – | – |

What makes the main ones correct:

* **Stream** – every browser attached to a terminal gets the screen as it was
  when it subscribed and from then on every message, each once, in order; a
  browser that cannot be served is cut off at a message boundary; nothing is
  held for a socket that is gone; a shell's exit is known to every viewer.
* **Size** – a terminal has the size its clients were told and asked for.
* **Store** – an update is applied whole, at one moment, or not at all; what
  was confirmed is never lost, what was refused never surfaces.
* **Layout** – no browser takes another's saved edit off the server without
  having seen it; a browser's own edits are saved or at least cached.
* **Workspace** – every terminal is in exactly one pane, the focus is on a pane
  that is shown, a reload restores what the page takes for saved, no shell runs
  unseen.
* **Pane** – a browser's pane and the terminal agree on the size, across lost
  sockets; a pane that lost its socket gets another.
* **Authentication** – a request is accepted only for a session that is still
  valid; enrolment leaves exactly one verified session.
* **Uploads, files** – nothing that exists is overwritten by somebody who has not
  seen it; failures clean up after themselves and after nobody else; no draft
  is left unsaved in silence.

`PROJECT.json` lists every hazard at its line with the properties aimed at it.

## 2. Modules

| module | what it is |
|---|---|
| `TerminalFeed` | abstract: one feed of messages, each viewer is given a snapshot and a gapless continuation |
| `TerminalStream` | one terminal and its WebSocket handlers, step by step; implements `TerminalFeed` |
| `TerminalStreamProofs` | its types, its inductive invariants, and the theorems that no message is lost or doubled, about what a close releases, the order of frames and what snapshots show |
| `TerminalFeedProofs` | the theorem that it implements `TerminalFeed`, and that an exit is known |
| `TerminalSize` | resizes and the nudge |
| `TerminalPane` | a browser's pane over `TerminalSize`: its socket, its fits, its reports |
| `TerminalPaneProofs` | its theorems and those of `TerminalSize` |
| `AtomicStore` | abstract: a state with atomic updates and reads |
| `FileStore` | init, read and the update queue over a failing file system and a killed process; implements `AtomicStore` |
| `FileStoreProofs` | its theorems |
| `AuthService` | sessions, second factor, and the sockets sessions hold open |
| `AuthServiceProofs` | its theorems |
| `LayoutSync` | layout routes and browsers that load, edit, save and meet conflicts |
| `LayoutSyncProofs` | its theorems |
| `LayoutTree` | split trees and the reducer's operations on them |
| `WorkspaceReducer` | the reducer over workspaces, tabs and trees; serializing and reconstructing |
| `PaneNavigation` | where the arrow keys move the focus |
| `Workspace` | a browser's workspace with the server's terminals, its requests, and other devices; uses the three above |
| `WorkspaceProofs` | the theorems about trees, reducer and workspace: what the operations do to trees and to the layout, and what holds of every reachable workspace |
| `HostFiles` | external: a directory of the host, names and nodes |
| `FileService` | the explorer's and the editor's requests, await by await, over `HostFiles` |
| `UploadService` | uploads over the same names |
| `TextEditor` | an editor pane and its saves |
| `FileWork` | all of these together with a shell that works in the directory |
| `FileWorkProofs` | its theorems |
| `MC…` | modules instantiated for TLC: symmetry sets, containers, stored trees, names |

### TerminalStream

Node runs one callback at a time, so an action is the code between two points
where it gives the event loop back.  The handler's `pc` names its awaits:
`auth` (`await authenticateTerminalRequest`), `attaching` (the sentinel's
promise), `resolved` and `attached` (the two continuations, in
`attachTerminal` and in the handler), then `frames` and `replay` inside the
synchronous block of TWS:145–170, `live` and `done`.  While a handler is in
its block, `Yielded` keeps every other callback out.

`log` names messages by position; `pendingMessages`, `pendingOutput` and
`sent` hold these names, 0 for a snapshot.  `queue` is xterm's write buffer
with the flush sentinels, `parsed` what the mirror's screen shows, and
`snapshot[s]` what was serialized.  `TerminalSocketSender` is the operators
`Send`, `Flush`, `SendNow` on a record of its state.  `conn` is `readyState`,
`peer` says whether the client still answers.  `start`, `stale`, `discarded`,
`arrived`, `unheard` and `handled` are history.

External: the write buffer's limit (it throws above a capacity, counted in
chunks), ws (a closing socket closes; a vanished peer neither drains nor
pongs) and the clients.

Left out: message contents, `pong` and `error` replies (sent directly, no part
of the stream), the scrollback fallbacks of a snapshot, `writeToTerminal`, the
REST listing.  A terminal's size is a module of its own: in the stream a resize
is a frame that may publish `terminal_updated`, and a nudge publishes nothing.
A frame that arrives during the session check is heard by nobody (`unheard`).

### TerminalSize

`applySize` sets pty, mirror and summary to one size, so one pair of variables
stands for the three.  `announced` is the size clients were last told (in a
`terminal_updated`), `wanted` the size last asked for.  Requests are any
integers, as a resize frame may carry, `Normalize` and `Clamp` are the code's.

### TerminalPane

Extends `TerminalSize` with one pane of `XtermPane.tsx`, its socket and the
handler at the other end.  `conn` is the pane's view of the socket, `link` the
handler's await: `checking` the session (frames are missed), `attaching` (they
wait), `sending` (the synchronous block, in which frames that waited come before
the nudge and after the snapshot), `attached`.  `shown` is the size of the xterm,
`reported` is `lastReportedSizeRef`, which survives a reconnect; `fits` says that
one of the timers of `scheduleFitAndReportSize` is set.  Other clients resize,
attach (a nudge) and close.  `strayed` is history: the last report was lost, or
another client has resized since.  The delays of the timers and the doubling of
the reconnect's are left out; a timer may fire at any time after it was set.
The stream's messages other than snapshots and exits do not touch the size.

### FileStore

The file's contents are named by the updates applied to it.  An action ends at
an `await`; `phase[u]` is where the run of `update` is.  `updateQueue` is the
promise chain of FS:159–163: `ItsTurn` is "the promise before has settled".
`Exclusive` updates are those whose updater throws if another exclusive one is
in the state, as in `setupPassword` (`authService.ts:146`).  Any file-system
call may fail (`RunFails`, `ReadFails`), and the process may be killed between
any two awaits (`Killed`) and started again.  Reads outside the queue
(`FileStore.read` from routes) open the file at one moment, which is all a
rename leaves visible.  Temporary files are never read, so a phase stands for
one.  A power failure is not modelled: the code does not fsync and promises
nothing about it.

### LayoutSync

A layout is the set of edits it shows: what the properties ask is whether an
edit got lost.  `saved` holds all layouts the server stored, so that
`Len(saved)` is the current revision.  A call (`calls[c]`) is a request or a
response on its way; calls of one browser overlap and answer in any order, or
fail at any point.  Not modelled: an edit given while the page loads and answered
later, which queues nothing (TW:295; `Workspace` has it), and one answered after
the unmount, which is dropped (TW:452).  `Opens`, `Hydrates`, `LoadFails` are `loadWorkspace`;
`Edit`, `Undo`, `TimerFires`, `Unmounts` the editing and its debounce;
`SaveReturns`, `ConflictReturns`, `Adopts`, `CallFails` the rest of
`persistLayout`.  `hasty`, `undone` and `blind` are history: they tell apart
the users under which a property is stated.

The server's `update` runs in `FileStore`'s queue.  By `ImplementsAtomicStore`
it is atomic, so it is one step here.

### LayoutTree, WorkspaceReducer, PaneNavigation, Workspace

`LayoutTree` and `WorkspaceReducer` are the pure functions of
`terminalReducer.ts`: an operator per case of the reducer and per helper it
uses, on records.  A tree is a function from the positions of its nodes, the
paths of 0 and 1 by which the code addresses its dividers; the empty function is
the code's null.  `IsTree` says what the type of a node says: above a node are
splits, and a split has both of its trees.  What the code computes by recursion over nodes is then said of
positions: `Pruned` keeps the leaves that are kept and the splits with a kept
leaf on both sides (`Remaining`), each at its old path without the steps at
splits that lost their other side (`NewPosition`); `PaneSplit` adds two positions
below a pane; `RatioSet` changes the node at one.  A terminal is a number; a tab has the id of the terminal it
was made for, as `tabForTerminal` makes it; ratios are tenths.  `Reconstruct`
takes a list of terminals and a stored layout to a state, `Serialize` the other
way.  `PaneNavigation` computes the panes' places on a screen of `Side` units,
exact for the splits that occur, and the target of an arrow as the code scores
it.

`ConstantsAssumption` says of the layout an earlier session may have left that
its tree is a tree, that it shows each of its terminals in one pane and that
these are numbered from 1; and of the bounds that they are numbers.

`Workspace` is the browser that dispatches them.  `ReadsTerminals` and
`ReadsLayout` are the two requests of `loadWorkspace`, which may see two
different moments of the server; `Hydrates` joins them.  A command that needs
the server is an operation in `ops`, whose request is served, answered or lost at
any later time, against whatever state the page has by then, or after a reload.
Files are opened so too, each in an editor of its own, any number in one tab.
`loading` of an operation is what the closure of its command saw: `Changes`
queues a save by it, not by what the page does by then.

`saves` are the runs of `persistLayout`, also those of pages that are gone: a
`Save` is a request (`put`) until the server stores or rejects it
(`ServerSaves`), then a response, of the save (`saved`) or of the GET after a
conflict (`got`), which `SaveReturns` takes up.  `SaveFails` is a failure at any
point of it, of the network or the server, before or after the layout was stored,
or a refused layout; nothing is tried again.  `Reloads` is an unmount, which sends
what is pending, or a reload of the page by the browser, which may or may not; what
was sent is served at any later time, beside the requests of the next page.
`cache` is the layout in localStorage and `local` what a load found there; a
server without a layout gets it (`Hydrates`).  `OtherDevice` creates and closes
terminals and stores its own layout.  `mine`, `lost` and `tangled` are history:
shells this browser asked for, those whose answer was lost or whose place was
dropped by a load, an adoption or by closing a workspace, and whether two tabs
had to get one id, as when an answer comes for a terminal a reload has shown
already (`Retaken`).
Not modelled: `terminal.updated` and `terminal.exited`, which change a summary
and no layout, except that one that arrives late adds the key of a removed
terminal to `terminalsById` again; `activePane.closed`, which is dispatched
nowhere; and what the script of an unmounted workspace still writes to
localStorage when its save succeeds.

### HostFiles, FileService, UploadService, TextEditor, FileWork

`HostFiles` is the file system as the services use it: names bound to nodes; a
version is the node and the stamp of its last change.  Contents are numbers,
each given once, so that a lost one is seen.  `FileService` cuts every request
where another writer can come in between: `writeText` at the open, the check of
the version, the rename and the stat; `moveEntry` at the copy, the check and the
unlink; deletion between the preview and the check and between the check and the
removal.  `raced` is history: the contents stored where a request will not look
again (`Misses`), the gaps a program without locks has to have:

* `writeText` after its second check and before its rename, and after the rename
  until it has read the new version, which can be somebody else's;
* a write into the opened file replaced by another inode;
* a move after its check; its destination until the unlink; a directory's
  rename, which overwrites an empty one; and, between the copy and the check, the
  node it copied from coming back under its name after another one was there
  (`Returns`);
* a deletion after it looked the second time; for a directory the version is
  that of the directory itself, which a write into one of its files does not
  touch, so that what such a write stores after the preview is not seen either;
* an upload, which on failure or abort removes by name the file it is writing and
  those it has written.

A preview's token is signed and not stored: `previewed` keeps it after a deletion
it was used for.

`UploadService` plans names, creates exclusively, and on failure or abort removes
the files it made.  Names are flat: the parents that uploads of folders make
(`uploadService.ts:119`) and their refusal when they are unsafe are not modelled,
and an abort leaves these directories.  `TextEditor` is `TextEditorPane.tsx`: the interval's save, the
generation that tells whether an answer is awaited, conflicts, and the remount
in `SplitPane.tsx`, at which the draft is lost.  A 409 also answers a save from
another directory (the shell's cwd changed) and one whose own answer was lost;
both are shown as "File changed on disk.".

### AuthService

A request is a slot that is used again after its answer; `req[r]` is what its
handler has in its local variables, `pc` the await it is at.  `checking` and
`checked` are the two sides of the moment the state file is read in
`validateSession`: the session's record is taken before it (`held` is its
`twoFactorVerified`; marking a session makes a new record, so a record taken
earlier stays unverified), the verdict is given after it.  Enrolment routes check
twice, first the route, then the service (`Checks`).  `reading`, `updating` and
`hashing` are the operations' own awaits; an update takes effect in one step,
by `ImplementsAtomicStore`.  Revoking a session closes the sockets that
subscribed to it in the same step (`Notified`), as the listeners are called
synchronously.  Maps are the sets of their keys (`sessions`, `enrolments`,
`challenges`) with what the records hold beside them.  `used`, `confirmed`,
`loggedOut`, `overlapped` and the fields `valid` and `present` are history.

Left out: rate limits (any try may be denied), hashing, the check of a code
against the clock (it is right or wrong), malformed requests, cookies, the
terminals a logout closes (`CloseTerminal` in `TerminalStream`), and a restart,
which keeps the file only.

## 3. Runs

| run | question | instance | states |
|---|---|---|---|
| `StreamSafety` | do two browsers each get a gapless stream, however they meet; does the code implement `TerminalFeed` | 2 sockets, mirror capacity 1, high-water mark 1, 2 messages | 1.83 million (with symmetry) |
| `StreamOneClient` | frames in order; close releases everything; attaches end, messages are sent, vanished clients noticed | 1 socket, 3 messages, 2 frames | 327 000 |
| `StreamCloseDuringAuth` | does a close during the session check leak | 1 socket | violation |
| `SizeNudge` | do a pane and its terminal agree, however sockets, nudges and other clients interfere; is the nudge's row given back; does a pane come back | clamps 2 × 3, requests 0–4, 2 container sizes, 3 turns from outside, 1 frame on its way | 384 000 |
| `FileStoreAtomic` | is the store atomic, durable, live | 3 updates, 2 exclusive, 1 reader, 2 kills | 79 000 |
| `LayoutSafety` | are saved edits kept while users wait for their saves | 2 browsers, 3 edits | 413 000 (with symmetry) |
| `LayoutOverwrite` | does adoption after a conflict never overwrite | the same | violation |
| `AuthSafety` | are only valid sessions let through, is revocation complete, do confirmations and logouts survive one another | 2 requests at once, 2 sessions, 2 enrolments, 1 challenge, clock 0–1, lifetimes 1 | 1.12 million (with symmetry) |
| `AuthConfirmPreserved` | does confirming keep the session | the same | violation |
| `WorkspaceSafety` | is every terminal in one pane, the focus sound, a reload faithful, no shell unseen; do the arrows reach every pane of a tab without editors | 4 terminals, 2 workspaces, 2 commands and 2 saves at once, 3 events, stored trees of up to 3 panes | 671 000 |
| `WorkspaceTabIds` | can tabs of one workspace get the same key | the same | violation |
| `FileWork` | is anything lost but in the named gaps, is an editor ever wrong about its file, do failures clean up, is every draft saved or its trouble shown | a file, a directory, a free name; 2 requests at once, 4 events, uploads of 2 files | 853 000 |

Why the bounds are enough to mean something.  With mirror capacity 1 and
high-water mark 1 both overflow at the second message, so the catch branches
and the slow-client cutoff are reached with two or three; two sockets are the
least in which one handler's synchronous block, nudged by the other's frames
or its close, could disturb another.  Three messages allow a message before,
during and after an attach.  The clamps lie inside the range of requests, so
zero, in range, at and above the maximum all occur; the containers are one row
below the largest terminal, so that a nudge can meet a report, and larger than
it; three turns are a loss, a resize by another client and a change of the page.  Two exclusive updates and
a plain one give every overlap of success, refusal and failure; two kills allow
one during recovery.  Two browsers and three edits allow a conflict, an edit
during it and a third save over the result.  Two request slots are used again
and again: two requests overlap at every pair of awaits, while what they did
before stays in the sessions, the file and open sockets; lifetimes of one tick let
anything expire between two steps; two enrolments are the least that compete.
Three events of a workspace are, say, a split, another device's close and a
reload, over a stored tree of one of twelve shapes or none; requests are served and
answered in any order, and so are two saves, the least that overlap.  Four events in a directory are an upload, a save, a
move or deletion and a write by the shell, or the same with a failure; the steps of the requests are not
counted, so they interleave at every await.  `MaxEvents`, `MaxTurns`,
`MaxTerminals`, `MaxWorkspaces`, `MaxCalls`, `MaxSaves`, `MaxFiles` and `MaxFrames` are bounds of
the models; the code's own limits (128 workspaces, 512 tabs, 4096 nodes) are
not reached, but for the depth of a tree (`MaxDepth` for its 64), beyond which a
layout is rejected.  Deadlock is not checked: a closed
terminal without clients, a store whose updates are answered and browsers that
are gone have nothing left to do.

Symmetry is used only in runs without liveness properties; clients, browsers
and edits are interchangeable.

**Fairness.** `TerminalStream!Fairness` assumes that the event loop runs every
ready callback and timer (flush, heartbeat, the continuations of awaits), that
the session check answers, that xterm works off its write buffer, and that ws
closes a closing socket, for which it has a timer of its own.  Nothing is
assumed of clients, the PTY or the user: messages need not arrive, frames need
not be answered, sockets need not drain.  `TerminalPane!PaneSpec` assumes that
timers fire (the nudge's, the reconnect's, a fit's), frames arrive or their
socket drops, and snapshots get written; not that other clients, the user or the
network do anything.  `FileWork!Fairness` assumes that requests go on and the
editor's interval fires; the events from outside are never obliged to happen.
`FileStore!FairSpec` assumes that a run whose turn it is goes on, not that
anybody calls or restarts anything.

No fairness is assumed of `AuthService`, `LayoutSync` and `Workspace`, which have
safety properties only.

**Mutants.** Every property of a passing run has a mutant in `PROJECT.json`:
a definition named `X_Y` beside `X` is `X` with a plausible bug, under which
TLC finds the property violated.

### What the runs found

1. *Close during the session check.* TWS:105–107 explains why listeners must
   exist before the attach await, but they do not exist during the auth await
   before it: a socket that closes there leaves a subscriber and a heartbeat
   interval behind (`ClosedSocketHoldsNothing`).
   By the same comment a frame that arrives there, for example the browser's
   first resize, is dropped silently: `unheard` in `TerminalStream`,
   `ServerMisses` in `TerminalPane`.
2. *A tab's id is its first terminal's, for ever.* The layers' keys assume that
   ids collide only across workspaces in damaged layouts (TW:747); a page that
   reads the terminals before and the layout after another device closed a tab's
   first terminal gives two tabs of one workspace one id (`LayerKeysDiffer`).
   The reducer then takes both for one; `tangled` excludes this from the other
   properties of `Workspace`.
3. *Adoption overwrites after all.* An edit made during the round trip after a
   409 stays pending, and is saved with the adopted revision, without the
   adopted edits (`AdoptsInsteadOfOverwriting`).
4. *Confirming signs out.* A request of the confirming session that took its
   record before it was marked and reads the file after the secret was stored
   revokes the session the release notes say is preserved
   (`ConfirmingSessionPreserved`).  `ConfirmingSessionKept` shows that nothing
   else does: with one request of that session at a time it stays.

Two more behaviours of `AuthService` are allowed by the code and excluded by
what the properties say.  A check that is reading the file lets a session
through that was revoked after it was looked up (`AcceptedWasValid` says: it was
valid then), so a socket can subscribe to a session that is gone
(`RevokedSocketsClose` speaks of those whose session was there).  And a
challenge verified twice at once yields two sessions.

A resize to exactly the size a nudge shrank the terminal to gets the nudge's row
added, although the timer's comment (TM:272) says that a resize cancels the
restore; `LastRequestStandsOrMetNudge` says that this is all that can happen to
a request.

Behaviours of `TerminalPane`, `Workspace` and `FileWork` that the code allows and
the properties name as exceptions:

* a report that was lost with its socket is not sent again, since the pane
  remembers it as reported (`strayed` in `PaneAgrees`);
* closing the last terminal of a tab closes its editors; adopting the server's
  layout after a conflict drops editor panes and terminals this page does not
  know; closing a workspace drops from the page the terminals opened in it
  meanwhile; a tab asked for during a reload is lost or shown twice
  (`lost`, `tangled` in `ShellsAreShown` and the others);
* a move whose source vanished after the copy leaves the copy and reports an
  error; previewing a deletion of a directory does not see changes inside; a
  remounted editor loses its draft, though never what was saved
  (`OnlyTypedIsSaved`);
* an aborted upload leaves the directories it made (`FailedLeavesNothing` speaks
  of files);
* a tab, a split or a file asked for while the page loads and answered after it
  has loaded is shown, and no save is queued, since the closure still has
  `loading` (TW:295): until another change is saved, a reload brings back the tab
  that was in front before.  And a save that fails is not tried again before the
  next change.  So a page may show what neither the server nor its own record of
  it has; `ReloadRestores` speaks of a page that shows what it takes for saved;
* the arrows go from terminal to terminal, over whatever editors lie between, and
  two editors can keep two terminals from overlapping on either axis.  Split t1
  down for t2 and t2 right for t3, open a file in t2 and one in t1 and close t2:
  of t1 above an editor, beside an editor above t3, no arrow leaves t1 or t3, so
  `ArrowsReachAll` speaks of tabs without editors.

Two more behaviours are in `LayoutSync`, and the properties exclude them, since
nothing in the repository promises otherwise: a workspace whose load failed
saves without a revision and so over anything (`blind`), and an edit undone
within the debounce is saved all the same (`undone`).

## 4. Proofs

All theorems hold for every value of the constants under the named assumptions
of the modules (`MirrorCapAssumption`, `HighWaterAssumption`,
`BoundsAssumption`: capacities and bounds are naturals; `MaxAssumption`: clamps
are at least 1; `RequestsAssumption`: requests are integers;
`ExclusiveAssumption`, `CrashesAssumption`; `FileWorkAssumption`: finitely many names,
which are positive numbers, and a directory whose first files have such names; `PaneAssumption`: a container's size
is positive and one of the requests; `NoLayoutAssumption`).

* **TerminalStreamProofs**: `StreamTypeCorrect`, `StreamIsGapFree`,
  `StreamLosesNothing`.  `GapFree` speaks of `sent` only and is not inductive:
  what is sent next comes from `pendingOutput` and `pendingMessages`.  The
  invariant `StreamInv` says of every socket that the three continue one
  another from `start`, and together reach the end of `log` while it
  subscribes and its socket is open; that before the snapshot nothing is sent
  or coalesced; and in which phases a handler can be a subscriber at all.  It
  needs `ControlInv`: at most one handler is in its synchronous block, and a
  queued sentinel belongs to a handler that awaits it, so that no parse moves
  another handler.  Lemmas `SendNowFacts`, `FlushFacts` and `SendFacts` say what
  the sender does with a message; the rest follows action by action.
  Also in it: `CloseAlwaysReleases`, `FramesStayInOrder`, `SnapshotsAreExact`.
  `CloseInv` adds to `CloseReleases` what holds of a closed
  socket in every phase: its handler is never in its block, so nothing it
  awaits can set a timer or coalesce output again.  `FramesInv` numbers what
  was handled and what is buffered, and says that nothing is buffered once
  frames are handled at once.  `MirrorInv` says of every published chunk that it
  is parsed, queued or refused, and of every queued sentinel that the chunks
  before it were published before its handler subscribed and those behind it
  after.
* **TerminalFeedProofs**: `StreamImplementsFeed`: `AuthAccepted` maps to `Join`,
  every other step to `Advance`.  `StreamInv` makes of what was sent a window of
  the feed; that the window does not reach past the feed needs `NamedInv`
  (what is sent, coalesced or waits names a message of the log), and `Given`
  and `Stays` say what one step may do to a client.  `ExitIsAlwaysKnown` follows
  because only output is coalesced (`NamedInv`), so that an exit published after
  the attach is among what was sent, and because a client attached to a running
  shell has the exit before it (`ExitInv`).
* **TerminalPaneProofs**: of `TerminalSize`, `SizeTypeCorrect`,
  `DriftStaysBounded`, `LastRequestIsKept`: the invariant adds when a difference
  may exist, a row short only while an untouched nudge is in flight, a row over
  only after one was restored over a request for the nudged size.  Of
  `TerminalPane`, `PaneImplementsSize`, so that all theorems about
  `TerminalSize` hold of a terminal with a pane, and `PaneAgreesAlways`.
  `PaneInv` says of a report that waits that it is the last in line and the one
  the pane remembers; that without one waiting the terminal was asked for what
  was reported; and that a visible pane of an open socket, without a fit to come,
  has reported its container's size.  With `LastRequestIsKept`, about the
  terminal alone, the pane's size follows.
* **LayoutSyncProofs**: `LayoutTypeCorrect`, `RevisionsAreServers`,
  `SavedEditsAlwaysStay`, `RestingEditsAreKept`: all the properties of
  `LayoutSync`.  `SavedEditsStay` speaks of the server only; why a save that is
  accepted extends what it replaces has to be carried from the edit through the
  debounce and the request (`CarefulOK`): a user who waits has one call at a
  time, what is pending extends what his browser holds for persisted, and that
  is the server's layout of the revision the save will name (`Known`).
  `OthersKeepInv` says once that a client's step disturbs no other client.
* **FileStoreProofs**: `StoreTypeCorrect`, `DoneIsKept`, `FailedIsGone`,
  `OneExclusive`, `ReadsSeeDone`, `CallOrderIsKept`, `StoreIsAtomic`: all the
  safety properties of `FileStore`.  The inductive invariant says that only the
  first of the queue has begun (`TurnInv`), so that what it read is still the
  file (`ValueInv`) when it renames; that the file holds exactly what was
  renamed into it (`FileInv`); and that a server that is up has a file, so that
  init never replaces one (`ServerInv`).  `OrderInv` adds that queue and file are
  in the order of the calls and that what is queued comes after what is applied.
  Under these invariants each step of `FileStore` is mapped to a step of
  `AtomicStore` or to none: the update happens at the rename, the answer later.
* **AuthServiceProofs**: `AuthInvariant` and from it `AuthTypeCorrect`,
  `AuthAcceptsValid`, `AuthOneEnrolment`, `AuthLogoutIsFinal`,
  `AuthClosesSockets`, from `NoneAssumption` and `TimeAssumption`.
  `AcceptedWasValid` is not inductive: it needs to know of a check in flight that
  either the session was valid when looked up, or the record in hand is
  unverified and a secret is stored, which the read will see because a secret is
  never removed.  `RequestOK` says this of one request, as a constant operator of
  the request and the parts of the state it depends on; `Undisturbed` says which
  changes of the rest leave it true, `RequestSteps` and `RequestRevokes` lift it
  to all requests, and each action has a lemma that checks its own request.
  `AuthKeepsConfirming` (`ConfirmingSessionKept`) rests on `KeepInv`: two
  requests of one session in flight are noticed; at most one confirmation stores
  its secret, and none after one is answered; until then the session of a
  confirmation in flight is there, and from then on it is there and verified,
  because every later check of it knows that it is verified.  `FollowingKeeps`
  covers all steps that begin no check and revoke no session in use so.

* **FileWorkProofs**: `FilesTypeCorrect`, `EditorIsRight`, `FailuresLeaveNothing`,
  `NothingIsLost`, `WhatIsSavedWasTyped`: all the safety properties of
  `FileWork`, for any directory, any number of requests at a time and any number
  of events.  `FilesInv` says of the files that a node has one name, and of each
  request what it may rely on (`Fine`): what a write, a move or a deletion will
  replace or remove is what it knows (`Only`), a version it holds still tells the
  content it was given to (`Known`), or else the content was noted in `raced`.
  A request is disturbed by another's step only through its own gap (`Meets`), so
  that the cross terms of some twenty kinds of steps and five kinds of requests
  are one lemma for each (`ReadStays`, `WriteStays`, ...).  `StepNames` then says
  that to the names a step does one of seven things.  On these seven rest
  `FailuresLeaveNothing` and `NothingIsLost`.  The latter is not inductive in any
  form that looks at one request: of two moves of one content each has the
  other's file as its copy.  `Slack` counts instead: what is not given up has more
  names (`Homes`) than moves about to take one away (`Movers`).  `TypedInv`
  is what makes `OnlyTypedIsSaved` inductive: a save is awaited only by an editor
  in which something was typed since it was mounted.

The proof of `FileWork` corrected its model where the bounded run had not: a
file the upload is still writing is removed by name as well as those it has kept; a
node may return under the name a move copied from; what is written inside a
previewed directory is not seen wherever the directory is by then; a node that was
moved away from the name an aborted upload made it under may be moved back there;
and an editor's version says nothing of a directory that took its file's name.

* **WorkspaceProofs**: `EveryTerminalShownOnce` (`EachShownOnce`),
  `FocusStaysSound` (`FocusIsSound`), `StartedShellsAreShown`
  (`ShellsAreShown`) and `ReloadIsFaithful` (`ReloadRestores`), for any number of
  terminals, workspaces, events and commands in flight and any stored trees, from
  `ConstantsAssumption`.
  They rest on lemmas about the code's pure functions, in three layers.

  *Trees.*  `PrunedTree`: pruning a tree leaves a tree, with exactly the leaves
  that were kept, each once if each was there once.  What has to be shown is that
  the remaining nodes do not meet (`NewPositionsApart`): where two
  paths part, the split has a kept leaf on both sides, so that this step is kept
  in both and at the same rank; and that each split that remains has a node on
  both sides again, under splits only (`NewAbove`, `NewBelow`).  `SplitTree`: splitting a pane keeps every leaf
  and adds the new one.
  *The layout.*  One lemma for each operation of the reducer: what it does to
  the terminals shown and known, to tab ids and focus
  (`TerminalsRemoved`, `PaneSelected`, `Serialized`, `Reconstructed`, ...).
  `ProperState` is what holds in any case (trees are trees, ids exist,
  the focus is on a pane); `SoundState` adds what holds until something is
  tangled: no terminal has two panes and no two tabs of a workspace share an id
  (`Apart`), and what is shown is what is known.
  *The steps.*  `IInv` is inductive, with one lemma for each action.  It has to
  say more than the properties do of three kinds of state.  Layouts that wait
  anywhere (`Remembered`: the server's, the one read by a load, the pending one, the
  cached ones and those of saves under way) are proper and apart, since each may be
  shown later.  Ids of tabs and terminals, wherever they
  are, do not exceed `created`, so that a terminal the server creates is new to
  every one of these layouts.  And of a command in flight (`CallOK`): the calls
  of a closing that have returned closed their terminals unless one failed, so
  that removing its panes hides no shell that runs.
  The ids of tabs have to be followed too: an operation on the
  active tab changes every tab with its id, so without that the tabs differ a split would show a
  terminal twice.

  *A page at rest.*  `ReloadRestores` compares what the page shows with what a load
  of the stored layout would show, whenever the page takes what it shows for
  persisted and has the server's revision; `RInv` says how the two came to be the
  same.  Revisions only grow, so that a response with the server's revision has the
  server's layout (`RevisionsInv`); nothing a page sent or asked for before its
  load counts for it after (`LoadingInv`); what was queued, sent or persisted has
  workspaces, and so has the page (`SavesInv`).  From these follows `PersistedInv`.
  With the server's revision, what is persisted is the stored layout, and then
  `SavedRestored` is the round trip: pruning a tree to what it shows leaves it as it
  is.  Or it is what a load or a conflict made of the stored layout, with new tabs
  for terminals the layout lacks, and was never stored (`Restorable`).  The next
  load makes these tabs again, in the order in which the server lists the terminals
  by then, where the page's tabs have the order of its own load.
  `Restorable` therefore follows the new tabs whose terminal still runs through
  every operation (`OwnTabs`, `KeepsOrder`): each still shows its terminal, and
  they follow one another as the terminals do in what the page knows.
  From this `RestoredAgain` concludes that the second load makes the same
  tabs.  The order says nothing of a tab that gets an id another tab has,
  which is why `tangled` is needed here too.

Checked by TLC only, and why:

* liveness, which like ENABLED is out of TLAPS's reach;
* `ArrowsReachAll`, a statement about the geometry of the panes, and one that is
  meant for trees of the instance's size (three steps reach every pane of a tab
  without editors);
* what is refuted: the four runs that end in a violation.

Type correctness of `TerminalStream`, `TerminalSize`, `FileStore`, `LayoutSync`,
`AuthService` and `FileWork` is proved and therefore not checked by a run.

## 5. Not modelled, and the plan

See the components of `PROJECT.json` for each part.  In short:

* *Sign-in and settings views, rendering, styles, input composition, clipboard,
  touch, fonts, configuration, the PTY adapter*: data transformations or I/O
  without protocol.
* *The rate limiter*: arithmetic on one bucket's window; `AuthService` lets it
  deny any try.
* *Validation*: of a layout the depth of its trees is modelled, the other limits
  and the shape of requests are not; paths are names in one directory, so
  containment and symbolic links are not.
* *The explorer's list and dialogs*, the upload drop in the browser.
* *`pty.resize` that throws* (TM:351) and cwd refreshes out of order (TM:326):
  a terminal has one size, and its cwd is where the shell is.
* *`leominalctl`*: a shell script around a pid file.

Next, in this order:

1. Two editors on one file, and two browsers in `Workspace`, each with its own
   saves in flight.
2. A restart in `AuthService`, and the limiter's window.
