----------------------------- MODULE HostFiles ------------------------------
(***************************************************************************)
(* The directory a file root names, as the file system keeps it: names,    *)
(* the nodes they are bound to, and what the calls of node:fs/promises do  *)
(* to them.  A version (size, mtime, inode) is the node with the stamp of  *)
(* its last change: every change gives another one.  A directory is one    *)
(* node too, whose data stands for all that is inside.                     *)
(*                                                                         *)
(* The rest is history: which contents were ever stored here, which of     *)
(* them somebody meant to give up, and which were stored where a request   *)
(* that is under way looks no more.                                        *)
(***************************************************************************)
EXTENDS Naturals, Sequences, FiniteSets

CONSTANT Paths          \* the names in the directory: 1 is "a", n is "a n"

VARIABLES
    entry,      \* entry[p]: the node p is bound to, or None
    node,       \* the nodes ever made
    clock,      \* the last stamp or content given
    stored,     \* the contents ever stored
    gone,       \* of these, those given up on purpose
    raced,      \* of these, those stored in a gap (see FileService)
    undone      \* <<p, i>>: a request bound p to i, had to take it back, and
                \* no move has bound p to i since

fsVars == <<entry, node, clock, stored, gone, raced, undone>>

None == 0
NoVersion == <<None, 0>>
Version(i) == <<i, node[i].stamp>>
VersionAt(p) == IF entry[p] = None THEN NoVersion ELSE Version(entry[p])
KindAt(p) == IF entry[p] = None THEN "none" ELSE node[entry[p]].kind
ContentAt(p) == IF entry[p] = None THEN {} ELSE {node[entry[p]].data}
OnDisk == UNION {ContentAt(p) : p \in Paths}

\* The versions are compared whole.  (Mutant: by their inodes.)
SameVersion_Inode(v, w) == v[1] = w[1]
SameVersion(v, w) == v = w

FsInit(kinds) ==
    /\ node = [i \in DOMAIN kinds |-> [kind |-> kinds[i], stamp |-> i, data |-> i, count |-> 1]]
    /\ entry = [p \in Paths |-> IF p \in DOMAIN kinds THEN p ELSE None]
    /\ clock = Len(kinds) /\ stored = DOMAIN kinds
    /\ gone = {} /\ raced = {} /\ undone = {}

Raced(d, missed) == raced' = raced \union IF missed THEN {d} ELSE {}

\* A new node with content d under the name p, instead of what is there;
\* missed: a request will not notice it; meant: the content given up by it.
Binds(p, kind, d, meant, missed) ==
    /\ clock' = clock + 1
    /\ node' = Append(node, [kind |-> kind, stamp |-> clock', data |-> d, count |-> 0])
    /\ entry' = [entry EXCEPT ![p] = Len(node')]
    /\ stored' = stored \union {d} /\ gone' = gone \union meant
    /\ Raced(d, missed)
    /\ UNCHANGED undone

\* Content d is written into the node of p.
Writes(p, d, meant, missed) ==
    /\ clock' = clock + 1
    /\ node' = [node EXCEPT ![entry[p]].stamp = clock', ![entry[p]].data = d]
    /\ stored' = stored \union {d} /\ gone' = gone \union meant
    /\ Raced(d, missed)
    /\ UNCHANGED <<entry, undone>>

\* unlink, rm; mine: the bindings a request takes back by it.
Unbinds(ps, meant, mine) ==
    /\ entry' = [p \in Paths |-> IF p \in ps THEN None ELSE entry[p]]
    /\ gone' = gone \union meant
    /\ undone' = undone \union mine
    /\ UNCHANGED <<node, clock, stored, raced>>

\* rename, where the system allows it.
MayRename(p, q) ==
    /\ entry[p] # None
    /\ \/ entry[q] = None
       \/ KindAt(p) = "directory" /\ KindAt(q) = "directory" /\ node[entry[q]].count = 0
       \/ KindAt(p) = "file" /\ KindAt(q) = "file"
Renames(p, q, missed) ==
    /\ entry' = [entry EXCEPT ![p] = None, ![q] = entry[p]]
    /\ undone' = undone \ {<<q, entry[p]>>}
    /\ Raced(node[entry[p]].data, missed)
    /\ UNCHANGED <<node, clock, stored, gone>>
=============================================================================
