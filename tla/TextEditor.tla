----------------------------- MODULE TextEditor ------------------------------
(***************************************************************************)
(* An editor pane in the browser: TextEditorPane.tsx, and the parts of     *)
(* TerminalWorkspace.tsx and SplitPane.tsx that open and mount it.  Every  *)
(* second it saves what has not been saved; what it does with the answer   *)
(* of a save depends on whether it still waits for it (awaited): the       *)
(* component may have been unmounted, or the request given up as lost.     *)
(***************************************************************************)
EXTENDS FileService

VARIABLE ed     \* the editor: what it opened, last knows of, and shows

NoEditor ==
    [open |-> FALSE, path |-> None, opened |-> NoRead, read |-> NoRead, draft |-> None,
     saving |-> FALSE, conflict |-> FALSE, error |-> FALSE]

\* Mounted with what was read when the file was opened.
Mounted(p, read) ==
    [NoEditor EXCEPT !.open = TRUE, !.path = p, !.opened = read, !.read = read, !.draft = read.content]

Unsaved == ed.open /\ ed.draft # ed.read.content

FreshId == CHOOSE i \in 1..(Cardinality(calls) + 1) : \A c \in calls : c.id # i

Unawaited(c) == IF c.kind = "write" THEN [c EXCEPT !.awaited = FALSE] ELSE c

-----------------------------------------------------------------------------
\* openFileInEditorPane.
AsksToRead(p) ==
    /\ ~ed.open /\ \A c \in calls : c.kind # "read"
    /\ calls' = calls \union {ReadCall(FreshId, p)}
    /\ UNCHANGED <<fsVars, previewed, cwd, ed>>

EditorOpens(c) ==
    /\ c.kind = "read" /\ c.step = "answered"
    /\ ed' = Mounted(c.path, c.read)
    /\ Ends(c)
    /\ UNCHANGED <<fsVars, previewed, cwd>>

Types ==
    /\ ed.open
    /\ clock' = clock + 1
    /\ ed' = [ed EXCEPT !.draft = clock', !.conflict = FALSE, !.error = FALSE]
    /\ UNCHANGED <<entry, node, stored, gone, raced, undone, serviceVars>>

\* The interval, and the Save button: saveLatest.
Saves ==
    /\ Unsaved /\ ~ed.conflict /\ ~ed.saving
    /\ calls' = calls \union {WriteCall(FreshId, ed.path, ed.read, ed.draft)}
    /\ ed' = [ed EXCEPT !.saving = TRUE, !.error = FALSE]
    /\ UNCHANGED <<fsVars, previewed, cwd>>

\* An answer that is not awaited any more changes nothing.  (Mutant: it is
\* taken whoever it is for.)
IsAwaited_Always(c) == ed.open
IsAwaited(c) == c.awaited

\* However the save ends, the next one may start.  (Mutant: not after an
\* error.)
Saved_StuckOnError(e, c) ==
    CASE c.result = "ok" -> [e EXCEPT !.read = c.read, !.saving = FALSE]
      [] c.result = "conflict" -> [e EXCEPT !.conflict = TRUE, !.saving = FALSE]
      [] c.result = "error" -> [e EXCEPT !.draft = ed.draft]
Saved(e, c) ==
    [CASE c.result = "ok" -> [e EXCEPT !.read = c.read]
       [] c.result = "conflict" -> [e EXCEPT !.conflict = TRUE]
       [] c.result = "error" -> [e EXCEPT !.error = TRUE]
     EXCEPT !.saving = FALSE]

SaveReturns(c) ==
    /\ c.kind = "write" /\ c.step = "answered"
    /\ ed' = IF IsAwaited(c) THEN Saved(ed, c) ELSE ed
    /\ Ends(c)
    /\ UNCHANGED <<fsVars, previewed, cwd>>

\* The connection fails: the server goes on.
SaveIsLost(c) ==
    /\ c.kind = "write" /\ c.awaited
    /\ ed' = Saved(ed, [c EXCEPT !.result = "error"])
    /\ Advances(c, Unawaited(c))
    /\ UNCHANGED <<fsVars, previewed, cwd>>

\* The pane is mounted anew: its neighbour was closed, and the split with it.
EditorRemounts ==
    /\ ed.open
    /\ ed' = Mounted(ed.path, ed.opened)
    /\ calls' = {Unawaited(c) : c \in calls}
    /\ UNCHANGED <<fsVars, previewed, cwd>>

EditorCloses ==
    /\ ed.open
    /\ ed' = NoEditor
    /\ calls' = {Unawaited(c) : c \in calls}
    /\ UNCHANGED <<fsVars, previewed, cwd>>

EditorStep == Saves \/ \E c \in calls : EditorOpens(c) \/ SaveReturns(c)
=============================================================================
