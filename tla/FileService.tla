---------------------------- MODULE FileService -----------------------------
(***************************************************************************)
(* The requests of the file explorer and the editor, as fileRoutes.ts and  *)
(* fileExplorerService.ts serve them.  Between two of a request's steps    *)
(* other requests, uploads and the shell may change the same names.        *)
(*                                                                         *)
(* Steps that others cannot come between with an effect are one: checking  *)
(* the root and opening; writing the temporary file and checking again.    *)
(***************************************************************************)
EXTENDS HostFiles

VARIABLES
    calls,      \* the requests under way
    previewed,  \* what the deletion that was previewed last would delete
    cwd         \* where the shell is: "root" or "elsewhere"

serviceVars == <<calls, previewed, cwd>>

NoPreview == [path |-> None, kind |-> "none", version |-> NoVersion, count |-> 0, data |-> None]

Advances(c, d) == calls' = (calls \ {c}) \union {d}
Ends(c) == calls' = calls \ {c}

\* The answer of a read or a write: its result, what was read.
Answered(c, result, read) == Advances(c, [c EXCEPT !.step = "answered", !.result = result, !.read = read])
NoRead == [content |-> None, version |-> NoVersion]

\* A gap: c will not notice that something is stored under p now, written
\* into its node or bound anew, and acts on the name all the same.
Misses(c, p, how) ==
    \/ /\ c.kind = "write" /\ c.path = p
       /\ c.step \in {"checked", "renamed"} \/ (c.step = "opened" /\ (how = "anew" \/ entry[p] # c.expected[1]))
    \/ c.kind = "move" /\ c.path = p /\ c.step = "checked"
    \/ c.kind = "move" /\ c.to = p /\ (c.step = "copied" \/ (c.step = "resolved" /\ c.directory))
    \/ c.kind = "delete" /\ c.path = p /\ c.step = "inspected"
    \/ c.kind = "upload" /\ (p \in c.kept \/ (c.step = "writing" /\ p = c.at))
Missed(others, p, how) == \E c \in others : Misses(c, p, how)

\* A gap too: the node i is moved back under p after another one was copied
\* from there, and is taken for it.
Returns(others, p, i) ==
    \E c \in others : c.kind = "move" /\ c.path = p /\ c.step = "copied" /\ c.version = Version(i)

\* verifyRequestRoot: the token names the directory the shell was in.
RootStands == cwd = "root"

-----------------------------------------------------------------------------
(* readText.                                                                *)

ReadCall(id, p) ==
    [id |-> id, kind |-> "read", path |-> p, step |-> "called", version |-> NoVersion,
     result |-> "none", read |-> NoRead]

ReadOpens(c) ==
    /\ c.kind = "read" /\ c.step = "called"
    /\ IF RootStands /\ KindAt(c.path) = "file"
       THEN Advances(c, [c EXCEPT !.step = "opened", !.version = VersionAt(c.path)])
       ELSE Ends(c)
    /\ UNCHANGED <<fsVars, previewed, cwd>>

\* The content may be newer than the version.  (Mutant: the version is taken
\* from the path, after the content.)
VersionRead_After(c) == VersionAt(c.path)
VersionRead(c) == c.version
ReadAnswers(c) ==
    /\ c.kind = "read" /\ c.step = "opened"
    /\ Answered(c, "ok", [content |-> node[c.version[1]].data, version |-> VersionRead(c)])
    /\ UNCHANGED <<fsVars, previewed, cwd>>

-----------------------------------------------------------------------------
(* writeText.                                                               *)

\* read: what the editor knows, text: what it saves.
WriteCall(id, p, read, text) ==
    [id |-> id, kind |-> "write", path |-> p, step |-> "called", text |-> text,
     expected |-> read.version, base |-> read.content, awaited |-> TRUE,
     result |-> "none", read |-> NoRead]

WriteOpens(c) ==
    /\ c.kind = "write" /\ c.step = "called"
    /\ CASE ~RootStands -> Answered(c, "conflict", NoRead)
         [] RootStands /\ entry[c.path] = None -> Answered(c, "error", NoRead)
         [] RootStands /\ entry[c.path] # None ->
              IF KindAt(c.path) # "file" THEN Answered(c, "error", NoRead)
              ELSE IF SameVersion(c.expected, VersionAt(c.path))
              THEN Advances(c, [c EXCEPT !.step = "opened"])
              ELSE Answered(c, "conflict", NoRead)
    /\ UNCHANGED <<fsVars, previewed, cwd>>

\* The temporary file is written, and the open file looked at again: it may
\* have another name by now, or none.
WriteChecks(c) ==
    /\ c.kind = "write" /\ c.step = "opened"
    /\ IF SameVersion(c.expected, Version(c.expected[1]))
       THEN Advances(c, [c EXCEPT !.step = "checked"])
       ELSE Answered(c, "conflict", NoRead)
    /\ UNCHANGED <<fsVars, previewed, cwd>>

\* Writing the temporary file fails, or its renaming: it is removed.
WriteFails(c) ==
    /\ c.kind = "write" /\ c.step \in {"opened", "checked"}
    /\ Answered(c, "error", NoRead)
    /\ UNCHANGED <<fsVars, previewed, cwd>>

WriteRenames(c) ==
    /\ c.kind = "write" /\ c.step = "checked"
    /\ IF KindAt(c.path) = "directory" THEN Answered(c, "error", NoRead) /\ UNCHANGED fsVars
       ELSE /\ Binds(c.path, "file", c.text, {c.base}, Missed(calls \ {c}, c.path, "anew"))
            /\ Advances(c, [c EXCEPT !.step = "renamed"])
    /\ UNCHANGED <<previewed, cwd>>

\* The version answered is that of whatever has the name now.
WriteAnswers(c) ==
    /\ c.kind = "write" /\ c.step = "renamed"
    /\ IF entry[c.path] = None THEN Answered(c, "error", NoRead)
       ELSE Answered(c, "ok", [content |-> c.text, version |-> VersionAt(c.path)])
    /\ UNCHANGED <<fsVars, previewed, cwd>>

-----------------------------------------------------------------------------
(* createEntry: a name that is taken is refused, the file opened with      *)
(* O_EXCL.                                                                  *)

Creates(p, kind) ==
    /\ RootStands /\ entry[p] = None
    /\ Binds(p, kind, clock + 1, {}, Missed(calls, p, "anew"))
    /\ UNCHANGED serviceVars

-----------------------------------------------------------------------------
(* moveEntry.                                                               *)

MoveCall(id, p, q) ==
    [id |-> id, kind |-> "move", path |-> p, to |-> q, step |-> "resolved",
     version |-> VersionAt(p), directory |-> KindAt(p) = "directory", copy |-> None, data |-> None]

MoveStarts(id, p, q) ==
    /\ RootStands /\ entry[p] # None /\ entry[q] = None
    /\ calls' = calls \union {MoveCall(id, p, q)}
    /\ UNCHANGED <<fsVars, previewed, cwd>>

\* copyFile with COPYFILE_EXCL.
MoveCopies(c) ==
    /\ c.kind = "move" /\ c.step = "resolved" /\ ~c.directory
    /\ IF KindAt(c.path) = "file" /\ entry[c.to] = None
       THEN /\ Binds(c.to, "file", node[entry[c.path]].data, {}, Missed(calls \ {c}, c.to, "anew"))
            /\ Advances(c, [c EXCEPT !.step = "copied", !.copy = Len(node'), !.data = node[entry[c.path]].data])
       ELSE Ends(c) /\ UNCHANGED fsVars
    /\ UNCHANGED <<previewed, cwd>>

\* A source that changed stays, and the copy goes; the copy of one that is
\* gone stays, with an error.
MoveChecks(c) ==
    /\ c.kind = "move" /\ c.step = "copied"
    /\ IF entry[c.path] = None THEN Ends(c) /\ UNCHANGED fsVars
       ELSE IF SameVersion(VersionAt(c.path), c.version)
       THEN Advances(c, [c EXCEPT !.step = "checked"]) /\ UNCHANGED fsVars
       ELSE Ends(c) /\ Unbinds({c.to} \ {q \in Paths : KindAt(q) = "directory"}, {}, {<<c.to, c.copy>>})
    /\ UNCHANGED <<previewed, cwd>>

MoveUnlinks(c) ==
    /\ c.kind = "move" /\ c.step = "checked"
    /\ IF KindAt(c.path) = "file" THEN Unbinds({c.path}, {}, {}) ELSE UNCHANGED fsVars
    /\ Ends(c)
    /\ UNCHANGED <<previewed, cwd>>

MoveRenames(c) ==
    /\ c.kind = "move" /\ c.step = "resolved" /\ c.directory
    /\ IF MayRename(c.path, c.to)
       THEN Renames(c.path, c.to, Missed(calls \ {c}, c.to, "anew") \/ Returns(calls, c.to, entry[c.path]))
       ELSE UNCHANGED fsVars
    /\ Ends(c)
    /\ UNCHANGED <<previewed, cwd>>

-----------------------------------------------------------------------------
(* previewDelete and deleteEntry.                                           *)

\* inspectDeleteTarget; the token holds it, signed.
Target(p) ==
    [path |-> p, kind |-> KindAt(p), version |-> VersionAt(p),
     count |-> IF KindAt(p) = "directory" THEN node[entry[p]].count ELSE 0,
     data |-> node[entry[p]].data]

Previews(p) ==
    /\ RootStands /\ entry[p] # None
    /\ previewed' = Target(p)
    /\ UNCHANGED <<fsVars, calls, cwd>>

\* The token must name what is there now, whatever it contains.
AsPreviewed(p, token) == [Target(p) EXCEPT !.data = token.data] = token

\* A token is as good the next time.
DeleteInspects(id) ==
    /\ previewed # NoPreview
    /\ RootStands /\ entry[previewed.path] # None /\ AsPreviewed(previewed.path, previewed)
    /\ calls' = calls \union {[id |-> id, kind |-> "delete", path |-> previewed.path,
                              step |-> "inspected", token |-> previewed]}
    /\ UNCHANGED <<fsVars, previewed, cwd>>

DeleteRemoves(c) ==
    /\ c.kind = "delete" /\ c.step = "inspected"
    /\ IF entry[c.path] # None /\ (KindAt(c.path) = "directory" => c.token.kind = "directory")
       THEN Unbinds({c.path}, {c.token.data}, {})
       ELSE UNCHANGED fsVars
    /\ Ends(c)
    /\ UNCHANGED <<previewed, cwd>>

-----------------------------------------------------------------------------
ServiceStep ==
    \E c \in calls :
        \/ ReadOpens(c) \/ ReadAnswers(c)
        \/ WriteOpens(c) \/ WriteChecks(c) \/ WriteRenames(c) \/ WriteAnswers(c)
        \/ MoveCopies(c) \/ MoveChecks(c) \/ MoveUnlinks(c) \/ MoveRenames(c)
        \/ DeleteRemoves(c)
=============================================================================
