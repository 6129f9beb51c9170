------------------------------ MODULE FileWork -------------------------------
(***************************************************************************)
(* The files of one directory with all that works on them: an editor, the  *)
(* file explorer's requests, uploads, and whoever else has a shell.  What  *)
(* people, failures and the shell do is counted as events, and bounded;    *)
(* the requests' own steps, the saving and the answers are not.            *)
(***************************************************************************)
EXTENDS UploadService, TextEditor

CONSTANTS
    Kinds,          \* what the first names are bound to at first
    MaxEvents,      \* bound: what happens from outside
    MaxCalls        \* bound: the requests at a time

ASSUME FileWorkAssumption ==
    /\ MaxEvents \in Nat /\ MaxCalls \in Nat \ {0} /\ MaxFiles \in Nat \ {0}
    /\ Paths \subseteq Nat \ {0} /\ IsFiniteSet(Paths)
    /\ Kinds \in Seq({"file", "directory"}) /\ DOMAIN Kinds \subseteq Paths

VARIABLE events

vars == <<fsVars, serviceVars, ed, events>>

Init ==
    /\ FsInit(Kinds)
    /\ calls = {} /\ previewed = NoPreview /\ cwd = "root"
    /\ ed = NoEditor
    /\ events = 0

Happens == events < MaxEvents /\ events' = events + 1
Asks == Happens /\ Cardinality(calls) < MaxCalls

-----------------------------------------------------------------------------
(* The shell.                                                               *)

ShellWrites(p) ==
    /\ KindAt(p) = "file"
    /\ Writes(p, clock + 1, ContentAt(p), Missed(calls, p, "in place"))
    /\ UNCHANGED <<serviceVars, ed>>

ShellPuts(p) ==
    /\ KindAt(p) # "directory"
    /\ Binds(p, "file", clock + 1, ContentAt(p), Missed(calls, p, "anew"))
    /\ UNCHANGED <<serviceVars, ed>>

ShellRemoves(p) ==
    /\ entry[p] # None
    /\ Unbinds({p}, ContentAt(p), {})
    /\ UNCHANGED <<serviceVars, ed>>

\* Inside the directory p a file is written, or one is made.
ShellWorksInside(p, made) ==
    /\ KindAt(p) = "directory" /\ (made \/ node[entry[p]].count > 0)
    /\ clock' = clock + 1
    /\ node' = [node EXCEPT ![entry[p]].data = clock',
                            ![entry[p]].stamp = IF made THEN clock' ELSE @,
                            ![entry[p]].count = IF made THEN @ + 1 ELSE @]
    /\ stored' = stored \union {clock'} /\ gone' = gone \union ContentAt(p)
    /\ Raced(clock', Missed(calls, p, "in place") \/ (~made /\ previewed.version[1] = entry[p]))
    /\ UNCHANGED <<entry, undone, serviceVars, ed>>

ChangesDirectory ==
    /\ cwd' = IF cwd = "root" THEN "elsewhere" ELSE "root"
    /\ UNCHANGED <<fsVars, calls, previewed, ed>>

\* The server restarts: its requests end where they are, and fail.
ServerRestarts ==
    /\ calls # {}
    /\ calls' = {}
    /\ ed' = IF ed.saving THEN [ed EXCEPT !.saving = FALSE, !.error = TRUE] ELSE ed
    /\ UNCHANGED <<fsVars, previewed, cwd>>

-----------------------------------------------------------------------------
Requests ==
    \/ \E p \in Paths : AsksToRead(p) \/ ((\E q \in Paths : MoveStarts(FreshId, p, q)) /\ UNCHANGED ed)
    \/ (DeleteInspects(FreshId) \/ UploadStarts(FreshId)) /\ UNCHANGED ed

Immediate ==
    \/ \E p \in Paths, kind \in {"file", "directory"} : Creates(p, kind) /\ UNCHANGED ed
    \/ \E p \in Paths : Previews(p) /\ UNCHANGED ed

Failures ==
    \/ \E c \in calls : (WriteFails(c) \/ UploadFileFails(c) \/ UploadAborts(c)) /\ UNCHANGED ed
    \/ \E c \in calls : SaveIsLost(c)
    \/ ServerRestarts

Shell ==
    \/ \E p \in Paths : ShellWrites(p) \/ ShellPuts(p) \/ ShellRemoves(p)
    \/ \E p \in Paths, made \in BOOLEAN : ShellWorksInside(p, made)
    \/ ChangesDirectory

Person == Types \/ EditorRemounts \/ EditorCloses

Outside == (Asks /\ Requests) \/ (Happens /\ (Immediate \/ Failures \/ Shell \/ Person))

Works == ServiceStep /\ UNCHANGED <<ed, events>>
Uploads == UploadStep /\ UNCHANGED <<ed, events>>
Edits == EditorStep /\ UNCHANGED events

Next == Outside \/ Works \/ Uploads \/ Edits

Fairness == WF_vars(Works) /\ WF_vars(Edits)
Spec == Init /\ [][Next]_vars /\ Fairness

-----------------------------------------------------------------------------
\* What was ever stored is still on disk, unless it was given up by somebody
\* who knew it, or was stored in one of the gaps: fileExplorerService.ts and
\* uploadService.ts lose nothing else.
LostOnlyInAGap == stored \ (OnDisk \union gone) \subseteq raced

\* An editor that knows the version its file has now also knows its content
\* (or somebody wrote in a gap): so a save that the version lets pass
\* overwrites nothing its author has not seen.
EditorKnowsItsFile ==
    ed.open /\ ed.read.version = VersionAt(ed.path) /\ KindAt(ed.path) = "file" =>
        ContentAt(ed.path) \subseteq {ed.read.content} \union raced

\* What an editor has to save was typed into it: the content it was mounted
\* with is never saved over what an earlier mount of it has saved.
OnlyTypedIsSaved == Unsaved => ed.draft # ed.opened.content

\* An upload of files that was aborted, a file of it that failed and a move
\* that was refused leave no file of theirs behind.  (The directories that an
\* upload of a folder makes do stay; see UploadService.)
FailedLeavesNothing == \A u \in undone : entry[u[1]] # u[2]

\* A draft that is not saved gets saved, or the editor says why it is not.
DraftIsSavedOrShown == Unsaved ~> (~Unsaved \/ ed.conflict \/ ed.error)
=============================================================================
