--------------------------- MODULE UploadService ----------------------------
(***************************************************************************)
(* Uploads: uploadRoutes.ts over uploadService.ts and uploadPaths.ts.  The *)
(* files of one upload arrive one after the other, here all with the name  *)
(* "a", and are stored under the first names that were free when the       *)
(* upload was planned.  A file counts as its content from when it is       *)
(* created on.  Names are flat: the directories that writeFile makes for   *)
(* the files of a folder, its check that they are inside (else             *)
(* unsafe_parent_path), and that abort leaves them behind, are not         *)
(* modelled.                                                               *)
(***************************************************************************)
EXTENDS FileService

CONSTANT MaxFiles       \* uploadMaxFiles

\* planUploadTargets: the first names that are not taken.
FreeNames == {p \in Paths : entry[p] = None}
Plan(n) == {p \in FreeNames : Cardinality({q \in FreeNames : q < p}) < n}

\* plan: the names of the files that are still to come; made[p]: the node of
\* the file p once it is created; kept: those that are complete; at: the one
\* that is being written.
UploadCall(id, n) ==
    [id |-> id, kind |-> "upload", plan |-> Plan(n), at |-> None, step |-> "next",
     made |-> [p \in Paths |-> None], kept |-> {}]

UploadStarts(id) ==
    /\ RootStands
    /\ \E n \in 1..MaxFiles :
          /\ n <= Cardinality(FreeNames)
          /\ calls' = calls \union {UploadCall(id, n)}
    /\ UNCHANGED <<fsVars, previewed, cwd>>

\* writeFile opens with 'wx': a name that was taken meanwhile fails the file.
\* Its parent, the destination, is there and inside.
UploadCreates(c) ==
    /\ c.kind = "upload" /\ c.step = "next"
    /\ \E p \in c.plan :
          /\ \A q \in c.plan : p <= q
          /\ IF entry[p] = None
             THEN /\ Binds(p, "file", clock + 1, {}, Missed(calls \ {c}, p, "anew"))
                  /\ Advances(c, [c EXCEPT !.step = "writing", !.plan = @ \ {p}, !.at = p,
                                           !.made[p] = Len(node')])
             ELSE /\ Advances(c, [c EXCEPT !.plan = @ \ {p}])
                  /\ UNCHANGED fsVars
    /\ UNCHANGED <<previewed, cwd>>

UploadCompletes(c) ==
    /\ c.kind = "upload" /\ c.step = "writing"
    /\ node' = [node EXCEPT ![c.made[c.at]].stamp = clock + 1]
    /\ clock' = clock + 1
    /\ Advances(c, [c EXCEPT !.step = "next", !.kept = @ \union {c.at}])
    /\ UNCHANGED <<entry, stored, gone, raced, undone, previewed, cwd>>

\* The names of some of c's files are unlinked, whoever's files have them by
\* now, so that c leaves nothing of what it made of mine.
Takes(c, which, mine) ==
    Unbinds(which \ {p \in Paths : KindAt(p) = "directory"},
            {node[c.made[p]].data : p \in mine}, {<<p, c.made[p]>> : p \in mine})

\* Too large, for itself or for its upload, or it cannot be written.
UploadFileFails(c) ==
    /\ c.kind = "upload" /\ c.step = "writing"
    /\ Takes(c, {c.at}, {c.at})
    /\ Advances(c, [c EXCEPT !.step = "next"])
    /\ UNCHANGED <<previewed, cwd>>

\* abort: the request broke off, or what comes next is not part of it.
\* (Mutant: of the files that are complete only the last one goes.)
ToAbort_Last(c) == {p \in c.kept : \A q \in c.kept : q <= p}
ToAbort(c) == c.kept
UploadAborts(c) ==
    /\ c.kind = "upload" /\ c.step = "next"
    /\ Takes(c, ToAbort(c), c.kept)
    /\ Ends(c)
    /\ UNCHANGED <<previewed, cwd>>

\* Files the plan has and the request has not are missing, no more.
UploadFinishes(c) ==
    /\ c.kind = "upload" /\ c.step = "next"
    /\ Ends(c)
    /\ UNCHANGED <<fsVars, previewed, cwd>>

UploadStep ==
    \E c \in calls :
        UploadCreates(c) \/ UploadCompletes(c) \/ UploadFileFails(c) \/ UploadAborts(c) \/ UploadFinishes(c)
=============================================================================
