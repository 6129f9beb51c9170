--------------------------- MODULE FileWorkProofs ---------------------------
(***************************************************************************)
(* Theorems about FileWork, for every directory, any number of requests    *)
(* at a time and any number of events.                                     *)
(***************************************************************************)
EXTENDS FileWork, FiniteSetTheorems, TLAPS

NodeType == [kind : {"file", "directory"}, stamp : Nat, data : Nat, count : Nat]
VersionType == Nat \X Nat
ReadType == [content : Nat, version : VersionType]
Results == {"none", "ok", "conflict", "error"}
TokenType == [path : Paths \union {None}, kind : {"none", "file", "directory"},
              version : VersionType, count : Nat, data : Nat]

ReadCalls == [id : Nat, kind : {"read"}, path : Paths, step : {"called", "opened", "answered"},
              version : VersionType, result : Results, read : ReadType]
WriteCalls == [id : Nat, kind : {"write"}, path : Paths,
               step : {"called", "opened", "checked", "renamed", "answered"},
               text : Nat, expected : VersionType, base : Nat, awaited : BOOLEAN,
               result : Results, read : ReadType]
MoveCalls == [id : Nat, kind : {"move"}, path : Paths, to : Paths,
              step : {"resolved", "copied", "checked"}, version : VersionType,
              directory : BOOLEAN, copy : Nat, data : Nat]
DeleteCalls == [id : Nat, kind : {"delete"}, path : Paths, step : {"inspected"}, token : TokenType]
UploadCalls == [id : Nat, kind : {"upload"}, plan : SUBSET Paths, at : Paths \union {None},
                step : {"next", "writing"}, made : [Paths -> Nat], kept : SUBSET Paths]

-----------------------------------------------------------------------------
(* The invariant of the file system.                                        *)

FsOK ==
    /\ node \in Seq(NodeType) /\ clock \in Nat
    /\ entry \in [Paths -> 0..Len(node)]
    /\ \A p, q \in Paths : entry[p] = entry[q] /\ entry[p] # None => p = q
    /\ \A i \in DOMAIN node : node[i].stamp <= clock /\ node[i].data <= clock
    /\ stored \subseteq 0..clock
    /\ \A p \in Paths : ContentAt(p) \subseteq stored
    /\ undone \subseteq Paths \X DOMAIN node

IsFile(i) == i \in DOMAIN node /\ node[i].kind = "file"

\* What the name p has is one of S, or was stored in a gap.
Only(p, S) == ContentAt(p) \subseteq S \union raced

\* The version v was given to the content d.
Known(v, d) ==
    /\ v[1] \in DOMAIN node /\ v[2] <= clock
    /\ IsFile(v[1]) /\ node[v[1]].stamp = v[2] => node[v[1]].data \in {d} \union raced

-----------------------------------------------------------------------------
(* The invariant of a request: what it will replace or remove is what it    *)
(* knows, or was stored in a gap.                                           *)

ReadOK(c) ==
    /\ c \in ReadCalls
    /\ c.step = "opened" => IsFile(c.version[1]) /\ c.version[2] <= clock
    /\ c.step = "answered" => Known(c.read.version, c.read.content) /\ c.read.content <= clock

WriteOK(c) ==
    /\ c \in WriteCalls
    /\ Known(c.expected, c.base) /\ c.text <= clock
    /\ c.step \in {"opened", "checked"} => IsFile(c.expected[1])
    /\ c.step = "opened" /\ entry[c.path] # c.expected[1] => Only(c.path, {})
    /\ c.step = "checked" => Only(c.path, {c.base})
    /\ c.step = "renamed" => Only(c.path, {c.text})
    /\ c.step = "answered" => c.result # "none"
    /\ c.step = "answered" /\ c.result = "ok" =>
          Known(c.read.version, c.read.content) /\ c.read.content = c.text

MoveOK(c) ==
    /\ c \in MoveCalls /\ c.path # c.to
    /\ c.version[1] \in DOMAIN node /\ c.version[2] <= clock
    /\ ~c.directory => IsFile(c.version[1])
    /\ c.step = "resolved" /\ c.directory => Only(c.to, {})
    /\ c.step = "copied" =>
          /\ ~c.directory /\ IsFile(c.copy) /\ Only(c.to, {c.data})
          /\ VersionAt(c.path) = c.version => Only(c.path, {c.data})
    /\ c.step = "checked" => Only(c.path, {c.data})
    /\ c.step \in {"copied", "checked"} => c.data \in stored

DeleteOK(c) ==
    /\ c \in DeleteCalls
    /\ Only(c.path, {c.token.data})

\* The files that an upload has to remove if it fails.
Mine(c) == c.kept \union IF c.step = "writing" THEN {c.at} ELSE {}
UploadOK(c) ==
    /\ c \in UploadCalls
    /\ c.step = "writing" => c.at \in Paths
    /\ \A p \in Mine(c) : IsFile(c.made[p]) /\ (entry[p] # c.made[p] => Only(p, {}))

Fine(c) == ReadOK(c) \/ WriteOK(c) \/ MoveOK(c) \/ DeleteOK(c) \/ UploadOK(c)

-----------------------------------------------------------------------------
(* What a step may do to the file system, as far as requests care.          *)

Grows ==
    /\ clock <= clock' /\ DOMAIN node \subseteq DOMAIN node'
    /\ raced \subseteq raced' /\ stored \subseteq stored'
    /\ \A i \in DOMAIN node :
          /\ node'[i].kind = node[i].kind
          /\ \/ node'[i] = node[i]
             \/ node'[i].stamp > clock
             \/ node[i].kind = "directory"

\* A request that is not part of the step either has no gap where a name is
\* changed, or the content is noted.
Meets(c) ==
    \A p \in Paths :
        \/ entry'[p] = None
        \/ ContentAt(p)' \subseteq raced'
        \/ entry'[p] = entry[p] /\ ContentAt(p)' = ContentAt(p)
        \/ entry'[p] = entry[p] /\ ~Misses(c, p, "in place")
        \/ /\ entry'[p] # entry[p] /\ ~Misses(c, p, "anew")
           /\ ~(c.kind = "move" /\ c.path = p /\ c.step = "copied" /\ c.version = VersionAt(p)')

\* What is known of a version stays true: a changed file has another one.
LEMMA KnownStays ==
    ASSUME FsOK, FsOK', Grows, NEW v \in VersionType, NEW d, Known(v, d)
    PROVE  Known(v, d)'
<1>1. v[1] \in DOMAIN node /\ v[1] \in DOMAIN node' /\ v[2] <= clock' /\ v[2] \in Nat /\ clock \in Nat
  BY DEF FsOK, Grows, Known, VersionType
<1>2. ASSUME IsFile(v[1])', node'[v[1]].stamp = v[2] PROVE node'[v[1]].data \in {d} \union raced'
  <2>1. node[v[1]].kind = "file" /\ ~(node'[v[1]].stamp > clock)
    BY <1>1, <1>2 DEF Grows, Known, IsFile
  <2>2. node'[v[1]] = node[v[1]]
    BY <1>1, <2>1 DEF Grows
  <2>. QED BY <1>1, <1>2, <2>1, <2>2 DEF Known, IsFile, Grows
<1>. QED BY <1>1, <1>2 DEF Known

\* A node keeps its kind.
LEMMA FileStays ==
    ASSUME Grows, NEW i, IsFile(i)
    PROVE  IsFile(i)'
BY DEF Grows, IsFile

\* A step that the files allow leaves a read what it knows: versions are never
\* given again.
LEMMA ReadStays ==
    ASSUME FsOK, FsOK', Grows, NEW c, ReadOK(c)
    PROVE  ReadOK(c)'
<1>1. c \in ReadCalls /\ c.version \in VersionType /\ c.read \in ReadType
  BY DEF ReadOK, ReadCalls
<1>2. c.step = "opened" => IsFile(c.version[1])' /\ c.version[2] <= clock'
  BY <1>1, FileStays DEF ReadOK, FsOK, Grows, VersionType
<1>3. c.step = "answered" => Known(c.read.version, c.read.content)' /\ c.read.content <= clock'
  BY <1>1, KnownStays DEF ReadOK, ReadType, FsOK, Grows
<1>. QED BY <1>1, <1>2, <1>3 DEF ReadOK

\* A step that does not meet a write's gap, or is noted, leaves the write what
\* it knows.
LEMMA WriteStays ==
    ASSUME FsOK, FsOK', Grows, NEW c, WriteOK(c), Meets(c)
    PROVE  WriteOK(c)'
<1>1. /\ c \in WriteCalls /\ c.path \in Paths /\ c.expected \in VersionType /\ c.base \in Nat
      /\ c.read \in ReadType /\ c.text \in Nat /\ c.kind = "write"
  BY DEF WriteOK, WriteCalls
<1>2. Known(c.expected, c.base)' /\ c.text <= clock'
  <2>1. Known(c.expected, c.base)'
    BY <1>1, KnownStays DEF WriteOK
  <2>2. c.text <= clock /\ clock <= clock' /\ clock \in Nat /\ clock' \in Nat
    BY DEF WriteOK, FsOK, Grows
  <2>. QED BY <1>1, <2>1, <2>2
<1>3. c.step \in {"opened", "checked"} => IsFile(c.expected[1])'
  BY FileStays DEF WriteOK
<1>4. c.step = "opened" /\ entry'[c.path] # c.expected[1] => Only(c.path, {})'
  BY <1>1 DEF WriteOK, Meets, Misses, Only, ContentAt, Grows
<1>5. c.step = "checked" => Only(c.path, {c.base})'
  BY <1>1 DEF WriteOK, Meets, Misses, Only, ContentAt, Grows
<1>6. c.step = "renamed" => Only(c.path, {c.text})'
  BY <1>1 DEF WriteOK, Meets, Misses, Only, ContentAt, Grows
<1>7. c.step = "answered" /\ c.result = "ok" =>
          Known(c.read.version, c.read.content)' /\ c.read.content = c.text
  BY <1>1, KnownStays DEF WriteOK, ReadType
<1>. QED BY <1>1, <1>2, <1>3, <1>4, <1>5, <1>6, <1>7 DEF WriteOK

\* The same of a move: its source, its destination and the copy it has made.
LEMMA MoveStays ==
    ASSUME FsOK, FsOK', Grows, NEW c, MoveOK(c), Meets(c)
    PROVE  MoveOK(c)'
<1>1. /\ c \in MoveCalls /\ c.path \in Paths /\ c.to \in Paths /\ c.version \in VersionType
      /\ c.kind = "move"
  BY DEF MoveOK, MoveCalls
<1>2. c.version[1] \in DOMAIN node' /\ c.version[2] <= clock'
  BY <1>1 DEF MoveOK, FsOK, Grows, VersionType
<1>3. /\ ~c.directory => IsFile(c.version[1])'
      /\ c.step = "copied" => IsFile(c.copy)' /\ ~c.directory
  BY FileStays DEF MoveOK
<1>4. c.step = "resolved" /\ c.directory => Only(c.to, {})'
  BY <1>1 DEF MoveOK, Meets, Misses, Only, ContentAt, Grows
<1>5. c.step = "copied" => Only(c.to, {c.data})'
  BY <1>1 DEF MoveOK, Meets, Misses, Only, ContentAt, Grows
<1>6. ASSUME c.step = "copied", VersionAt(c.path)' = c.version PROVE Only(c.path, {c.data})'
  <2>1. entry'[c.path] # None /\ entry'[c.path] = c.version[1] /\ node'[c.version[1]].stamp = c.version[2]
    BY <1>1, <1>2, <1>6 DEF VersionAt, Version, NoVersion, None, FsOK, VersionType
  <2>2. CASE ContentAt(c.path)' \subseteq raced'
    BY <2>2 DEF Only
  <2>3. CASE entry'[c.path] = entry[c.path]
    <3>0. IsFile(c.version[1]) /\ c.version[2] <= clock /\ c.version[2] \in Nat /\ clock \in Nat
      BY <1>1, <1>6 DEF MoveOK, FsOK, VersionType
    <3>1. node'[c.version[1]] = node[c.version[1]]
      BY <2>1, <3>0 DEF Grows, IsFile
    <3>2. VersionAt(c.path) = c.version /\ ContentAt(c.path)' = ContentAt(c.path)
      BY <1>1, <1>6, <2>1, <2>3, <3>1 DEF VersionAt, Version, ContentAt, VersionType
    <3>. QED BY <1>6, <3>2 DEF MoveOK, Only, Grows
  <2>4. CASE entry'[c.path] # entry[c.path] /\ ~(ContentAt(c.path)' \subseteq raced')
    BY <1>1, <1>6, <2>1, <2>4 DEF Meets
  <2>. QED BY <2>2, <2>3, <2>4
<1>7. c.step = "checked" => Only(c.path, {c.data})'
  BY <1>1 DEF MoveOK, Meets, Misses, Only, ContentAt, Grows
<1>8. c.step \in {"copied", "checked"} => c.data \in stored'
  BY DEF MoveOK, Grows
<1>. QED BY <1>1, <1>2, <1>3, <1>4, <1>5, <1>6, <1>7, <1>8 DEF MoveOK

\* The same of a deletion, which knows the token it looked up for the second
\* time.
LEMMA DeleteStays ==
    ASSUME Grows, NEW c, DeleteOK(c), Meets(c)
    PROVE  DeleteOK(c)'
BY DEF DeleteOK, DeleteCalls, Meets, Misses, Only, ContentAt, Grows

\* The same of an upload, which knows the nodes it has made.
LEMMA UploadStays ==
    ASSUME Grows, NEW c, UploadOK(c), Meets(c)
    PROVE  UploadOK(c)'
<1>1. c \in UploadCalls /\ c.kind = "upload" /\ c.kept \subseteq Paths
  BY DEF UploadOK, UploadCalls
<1>2. ASSUME NEW p \in Mine(c)
      PROVE  IsFile(c.made[p])' /\ (entry'[p] # c.made[p] => Only(p, {})')
  <2>1. p \in Paths /\ \A how \in {"anew", "in place"} : Misses(c, p, how)
    BY <1>1, <1>2 DEF UploadOK, Mine, Misses
  <2>2. IsFile(c.made[p])'
    BY FileStays DEF UploadOK
  <2>3. entry'[p] # c.made[p] => Only(p, {})'
    BY <1>2, <2>1 DEF UploadOK, Meets, Only, ContentAt, Grows
  <2>. QED BY <2>2, <2>3
<1>. QED BY <1>1, <1>2 DEF UploadOK, Mine

\* A request that meets a step stays as it is.
LEMMA FineStays ==
    ASSUME FsOK, FsOK', Grows, NEW c, Fine(c), Meets(c)
    PROVE  Fine(c)'
BY ReadStays, WriteStays, MoveStays, DeleteStays, UploadStays DEF Fine
-----------------------------------------------------------------------------
(* The operations of the file system.                                       *)

LEMMA PathsAreNumbers == Paths \subseteq Nat \ {0} /\ IsFiniteSet(Paths)
BY FileWorkAssumption

\* A new node: its name has it, and the other names have what they had.
LEMMA BindsStep ==
    ASSUME FsOK, NEW p \in Paths, NEW kind \in {"file", "directory"}, NEW d \in 0..clock + 1,
           NEW meant, NEW missed, Binds(p, kind, d, meant, missed)
    PROVE  /\ FsOK' /\ Grows
           /\ Len(node) \in Nat /\ entry'[p] = Len(node) + 1 /\ Len(node') = Len(node) + 1
           /\ node'[Len(node) + 1] = [kind |-> kind, stamp |-> clock', data |-> d, count |-> 0]
           /\ \A i \in DOMAIN node : node'[i] = node[i]
           /\ \A q \in Paths \ {p} : entry'[q] = entry[q]
           /\ \A q \in Paths : ContentAt(q)' = IF q = p THEN {d} ELSE ContentAt(q)
<1>0. clock \in Nat /\ Len(node) \in Nat /\ DOMAIN node = 1..Len(node) /\ clock' = clock + 1
  BY DEF FsOK, Binds
<1>1. /\ node' \in Seq(NodeType) /\ Len(node') = Len(node) + 1 /\ DOMAIN node' = 1..Len(node) + 1
      /\ node'[Len(node) + 1] = [kind |-> kind, stamp |-> clock', data |-> d, count |-> 0]
      /\ \A i \in DOMAIN node : node'[i] = node[i]
  BY <1>0 DEF FsOK, Binds, NodeType
<1>2. /\ entry' \in [Paths -> 0..Len(node')] /\ entry'[p] = Len(node) + 1
      /\ \A q \in Paths \ {p} : entry'[q] = entry[q]
  BY <1>0, <1>1 DEF FsOK, Binds
<1>3. \A q, r \in Paths : entry'[q] = entry'[r] /\ entry'[q] # None => q = r
  BY <1>0, <1>2 DEF FsOK
<1>4. \A i \in DOMAIN node' : node'[i].stamp <= clock' /\ node'[i].data <= clock'
  <2>1. ASSUME NEW i \in DOMAIN node' PROVE node'[i].stamp <= clock' /\ node'[i].data <= clock'
    <3>1. CASE i \in DOMAIN node
      <4>1. node[i] \in NodeType /\ node[i].stamp <= clock /\ node[i].data <= clock
        BY <3>1 DEF FsOK
      <4>. QED BY <1>0, <1>1, <3>1, <4>1 DEF NodeType
    <3>2. CASE i = Len(node) + 1
      BY <1>0, <1>1, <3>2
    <3>. QED BY <1>0, <1>1, <2>1, <3>1, <3>2
  <2>. QED BY <2>1
<1>5. stored' = stored \union {d} /\ stored' \subseteq 0..clock'
  BY <1>0 DEF FsOK, Binds
<1>6. \A q \in Paths : ContentAt(q)' = IF q = p THEN {d} ELSE ContentAt(q)
  <2>1. ContentAt(p)' = {d}
    BY <1>0, <1>1, <1>2 DEF ContentAt, None
  <2>2. ASSUME NEW q \in Paths \ {p} PROVE ContentAt(q)' = ContentAt(q)
    <3>1. entry'[q] = entry[q] /\ (entry[q] # None => entry[q] \in DOMAIN node)
      BY <1>0, <1>2 DEF FsOK, None
    <3>. QED BY <1>1, <3>1 DEF ContentAt
  <2>. QED BY <2>1, <2>2
<1>7. \A q \in Paths : ContentAt(q)' \subseteq stored'
  BY <1>5, <1>6 DEF FsOK
<1>8. undone' \subseteq Paths \X DOMAIN node'
  BY <1>0, <1>1 DEF FsOK, Binds
<1>9. FsOK'
  BY <1>0, <1>1, <1>2, <1>3, <1>4, <1>5, <1>7, <1>8 DEF FsOK
<1>10. Grows
  BY <1>0, <1>1, <1>5 DEF Grows, Binds, Raced
<1>. QED BY <1>0, <1>1, <1>2, <1>6, <1>9, <1>10

\* A request whose gap it falls into finds it noted.
LEMMA BindsMeets ==
    ASSUME FsOK, NEW p \in Paths, NEW kind \in {"file", "directory"}, NEW d \in 0..clock + 1,
           NEW meant, NEW missed, Binds(p, kind, d, meant, missed),
           NEW c, Fine(c), Misses(c, p, "anew") => missed
    PROVE  Meets(c)
<1>1. /\ Len(node) \in Nat /\ entry'[p] = Len(node) + 1 /\ entry'[p] # entry[p]
      /\ \A q \in Paths \ {p} : entry'[q] = entry[q] /\ ContentAt(q)' = ContentAt(q)
      /\ ContentAt(p)' = {d}
  <2>1. /\ Len(node) \in Nat /\ entry'[p] = Len(node) + 1
        /\ \A q \in Paths \ {p} : entry'[q] = entry[q]
        /\ \A q \in Paths : ContentAt(q)' = IF q = p THEN {d} ELSE ContentAt(q)
    BY BindsStep
  <2>2. entry[p] \in 0..Len(node)
    BY DEF FsOK
  <2>. QED BY <2>1, <2>2
<1>2. missed => ContentAt(p)' \subseteq raced'
  BY <1>1 DEF Binds, Raced
<1>3. ~(c.kind = "move" /\ c.version = VersionAt(p)')
  <2>1. VersionAt(p)' = <<Len(node) + 1, node'[Len(node) + 1].stamp>>
    BY <1>1 DEF VersionAt, Version, None
  <2>2. c.kind = "move" => c.version[1] \in DOMAIN node
    BY DEF Fine, ReadOK, ReadCalls, WriteOK, WriteCalls, MoveOK, DeleteOK, DeleteCalls, UploadOK, UploadCalls
  <2>3. Len(node) + 1 \notin DOMAIN node
    BY <1>1 DEF FsOK
  <2>. QED BY <2>1, <2>2, <2>3
<1>. QED BY <1>1, <1>2, <1>3 DEF Meets

\* A node that has a name is changed: its new version differs from all before,
\* unless it is a directory.
LEMMA ChangesStep ==
    ASSUME FsOK, NEW p \in Paths, NEW i \in DOMAIN node, NEW n \in NodeType,
           node' = [node EXCEPT ![i] = n], clock' = clock + 1, entry' = entry,
           undone' = undone, raced \subseteq raced', stored \subseteq stored',
           stored' \subseteq 0..clock',
           n.kind = node[i].kind, n.kind = "directory" \/ n.stamp = clock',
           n.stamp <= clock', n.data <= clock', n.data \in stored' \/ n.data = node[i].data
    PROVE  /\ FsOK' /\ Grows
           /\ \A q \in Paths : entry[q] # i => ContentAt(q)' = ContentAt(q)
           /\ \A q \in Paths : entry[q] = i => ContentAt(q)' = {n.data}
<1>0. clock \in Nat /\ Len(node) \in Nat /\ DOMAIN node = 1..Len(node)
  BY DEF FsOK
<1>1. /\ node' \in Seq(NodeType) /\ Len(node') = Len(node) /\ DOMAIN node' = DOMAIN node
      /\ node'[i] = n /\ \A j \in DOMAIN node \ {i} : node'[j] = node[j]
  BY <1>0 DEF FsOK
<1>2. \A j \in DOMAIN node' : node'[j].stamp <= clock' /\ node'[j].data <= clock'
  <2>1. ASSUME NEW j \in DOMAIN node \ {i} PROVE node'[j].stamp <= clock' /\ node'[j].data <= clock'
    <3>1. node[j] \in NodeType /\ node[j].stamp <= clock /\ node[j].data <= clock
      BY DEF FsOK
    <3>. QED BY <1>0, <1>1, <3>1 DEF NodeType
  <2>. QED BY <1>1, <2>1
<1>3. /\ \A q \in Paths : entry[q] # i => ContentAt(q)' = ContentAt(q)
      /\ \A q \in Paths : entry[q] = i => ContentAt(q)' = {n.data}
  BY <1>0, <1>1 DEF ContentAt, FsOK, None
<1>4. \A q \in Paths : ContentAt(q)' \subseteq stored'
  <2>1. ASSUME NEW q \in Paths, entry[q] = i, n.data = node[i].data PROVE n.data \in stored'
    BY <1>0, <2>1 DEF FsOK, ContentAt, None
  <2>. QED BY <1>3, <2>1 DEF FsOK
<1>5. FsOK'
  BY <1>0, <1>1, <1>2, <1>4 DEF FsOK
<1>6. Grows
  BY <1>0, <1>1 DEF Grows
<1>. QED BY <1>3, <1>5, <1>6

\* Names are taken away.
LEMMA UnbindsStep ==
    ASSUME FsOK, NEW ps, NEW meant, NEW mine, mine \subseteq Paths \X DOMAIN node,
           Unbinds(ps, meant, mine)
    PROVE  /\ FsOK' /\ Grows
           /\ \A q \in Paths : ContentAt(q)' = IF q \in ps THEN {} ELSE ContentAt(q)
           /\ \A c : Meets(c)
<1>1. /\ \A q \in Paths : entry'[q] = IF q \in ps THEN None ELSE entry[q]
      /\ entry' \in [Paths -> 0..Len(node)]
  BY DEF Unbinds, FsOK, None
<1>2. \A q \in Paths : ContentAt(q)' = IF q \in ps THEN {} ELSE ContentAt(q)
  BY <1>1 DEF Unbinds, ContentAt, None
<1>3. FsOK'
  BY <1>1, <1>2 DEF FsOK, Unbinds, None
<1>4. Grows
  BY DEF Grows, Unbinds, FsOK
<1>5. \A c : Meets(c)
  BY <1>1, <1>2 DEF Meets
<1>. QED BY <1>2, <1>3, <1>4, <1>5

\* A node gets another name.
LEMMA RenamesStep ==
    ASSUME FsOK, NEW p \in Paths, NEW q \in Paths, p # q, entry[p] # None, NEW missed, Renames(p, q, missed)
    PROVE  /\ FsOK' /\ Grows
           /\ entry'[p] = None /\ entry'[q] = entry[p] /\ \A r \in Paths \ {p, q} : entry'[r] = entry[r]
           /\ ContentAt(p)' = {} /\ ContentAt(q)' = ContentAt(p) /\ ContentAt(p) = {node[entry[p]].data}
           /\ \A r \in Paths \ {p, q} : ContentAt(r)' = ContentAt(r)
<1>1. /\ entry' \in [Paths -> 0..Len(node)]
      /\ entry'[p] = None /\ entry'[q] = entry[p] /\ \A r \in Paths \ {p, q} : entry'[r] = entry[r]
  BY DEF Renames, FsOK, None
<1>2. /\ ContentAt(p)' = {} /\ ContentAt(q)' = ContentAt(p) /\ ContentAt(p) = {node[entry[p]].data}
      /\ \A r \in Paths \ {p, q} : ContentAt(r)' = ContentAt(r)
  BY <1>1 DEF Renames, ContentAt
<1>3. \A r, s \in Paths : entry'[r] = entry'[s] /\ entry'[r] # None => r = s
  BY <1>1 DEF FsOK
<1>4. \A r \in Paths : ContentAt(r)' \subseteq stored'
  BY <1>2 DEF FsOK, Renames
<1>5. FsOK'
  BY <1>1, <1>3, <1>4 DEF FsOK, Renames
<1>6. Grows
  BY DEF Grows, Renames, Raced, FsOK
<1>. QED BY <1>1, <1>2, <1>5, <1>6

\* A rename disturbs only requests whose gap it meets, at either of its names.
LEMMA RenamesMeets ==
    ASSUME FsOK, NEW p \in Paths, NEW q \in Paths, p # q, entry[p] # None, NEW missed, Renames(p, q, missed),
           NEW c, Misses(c, q, "anew") \/ Returns({c}, q, entry[p]) => missed
    PROVE  Meets(c)
<1>1. /\ entry'[p] = None /\ entry'[q] = entry[p] /\ entry'[q] # entry[q]
      /\ \A r \in Paths \ {p, q} : entry'[r] = entry[r] /\ ContentAt(r)' = ContentAt(r)
      /\ ContentAt(q)' = {node[entry[p]].data}
  BY RenamesStep DEF FsOK
<1>2. missed => ContentAt(q)' \subseteq raced'
  BY <1>1 DEF Renames, Raced
<1>3. VersionAt(q)' = Version(entry[p])
  BY <1>1 DEF VersionAt, Version, Renames
<1>. QED BY <1>1, <1>2, <1>3 DEF Meets, Returns

-----------------------------------------------------------------------------
(* The requests, the preview and the editor together.                       *)

CallsOK ==
    /\ IsFiniteSet(calls)
    /\ \A c, e \in calls : c.id = e.id => c = e
    /\ \A c \in calls : Fine(c)

\* As Known, and a directory too shows the same as long as its version stays.
PreviewOK ==
    \/ previewed = NoPreview
    \/ /\ previewed \in TokenType /\ previewed.path \in Paths
       /\ previewed.version[1] \in DOMAIN node /\ previewed.version[2] <= clock
       /\ node[previewed.version[1]].stamp = previewed.version[2] =>
             node[previewed.version[1]].data \in {previewed.data} \union raced

EditorType ==
    [open : BOOLEAN, path : Paths \union {None}, opened : ReadType, read : ReadType, draft : Nat,
     saving : BOOLEAN, conflict : BOOLEAN, error : BOOLEAN]
EditorOK ==
    /\ ed \in EditorType
    /\ ed.open => /\ ed.path \in Paths /\ ed.draft <= clock /\ ed.opened.content <= clock
                  /\ Known(ed.opened.version, ed.opened.content)
                  /\ Known(ed.read.version, ed.read.content)

FilesInv == FsOK /\ CallsOK /\ PreviewOK /\ EditorOK

\* No directory shows something else under the same version.
Plainly == \A i \in DOMAIN node : node'[i] = node[i] \/ node'[i].stamp > clock

\* A request that is fine is so in the way of its kind.
LEMMA KindTells ==
    ASSUME NEW c, Fine(c)
    PROVE  /\ c.kind = "read" => ReadOK(c)
           /\ c.kind = "write" => WriteOK(c)
           /\ c.kind = "move" => MoveOK(c)
           /\ c.kind = "delete" => DeleteOK(c)
           /\ c.kind = "upload" => UploadOK(c)
           /\ c.id \in Nat
<1>1. ReadOK(c) => c.kind = "read" /\ c.id \in Nat
  BY DEF ReadOK, ReadCalls
<1>2. WriteOK(c) => c.kind = "write" /\ c.id \in Nat
  BY DEF WriteOK, WriteCalls
<1>3. MoveOK(c) => c.kind = "move" /\ c.id \in Nat
  BY DEF MoveOK, MoveCalls
<1>4. DeleteOK(c) => c.kind = "delete" /\ c.id \in Nat
  BY DEF DeleteOK, DeleteCalls
<1>5. UploadOK(c) => c.kind = "upload" /\ c.id \in Nat
  BY DEF UploadOK, UploadCalls
<1>6. ReadOK(c) \/ WriteOK(c) \/ MoveOK(c) \/ DeleteOK(c) \/ UploadOK(c)
  BY DEF Fine
<1>. QED BY <1>1, <1>2, <1>3, <1>4, <1>5, <1>6

\* What a bound name has.
LEMMA Bound ==
    ASSUME FsOK, NEW p \in Paths, entry[p] # None
    PROVE  /\ entry[p] \in DOMAIN node /\ entry[p] \in Nat
           /\ node[entry[p]] \in NodeType /\ node[entry[p]].data <= clock
           /\ VersionAt(p) = <<entry[p], node[entry[p]].stamp>>
           /\ VersionAt(p) \in VersionType /\ Known(VersionAt(p), node[entry[p]].data)
           /\ KindAt(p) = node[entry[p]].kind
           /\ ContentAt(p) = {node[entry[p]].data}
<1>1. entry[p] \in DOMAIN node /\ entry[p] \in Nat
  BY DEF FsOK, None
<1>2. /\ node[entry[p]] \in NodeType /\ node[entry[p]].data <= clock
      /\ node[entry[p]].stamp <= clock
  BY <1>1 DEF FsOK
<1>3. VersionAt(p) = <<entry[p], node[entry[p]].stamp>> /\ VersionAt(p) \in VersionType
  BY <1>1, <1>2 DEF VersionAt, Version, VersionType, NodeType
<1>. QED BY <1>1, <1>2, <1>3 DEF Known, KindAt, ContentAt

\* Where no file changes, what is fine stays fine.
LEMMA Quiet ==
    ASSUME FsOK, UNCHANGED fsVars
    PROVE  /\ FsOK' /\ Grows /\ Plainly
           /\ \A c : Fine(c) => Fine(c)'
<1>1. /\ entry' = entry /\ node' = node /\ clock' = clock /\ stored' = stored /\ gone' = gone
      /\ raced' = raced /\ undone' = undone
  BY DEF fsVars
<1>2. \A q : ContentAt(q)' = ContentAt(q)
  BY <1>1 DEF ContentAt
<1>3. FsOK' /\ Grows /\ Plainly
  BY <1>1, <1>2 DEF FsOK, Grows, Plainly
<1>4. \A c : Meets(c)
  BY <1>1, <1>2 DEF Meets
<1>. QED BY <1>3, <1>4, FineStays

\* One request goes on and is fine, the others stay fine.
LEMMA AdvanceOK ==
    ASSUME CallsOK, NEW c \in calls, NEW d, Advances(c, d), d.id = c.id, Fine(d)',
           \A e \in calls \ {c} : Fine(e)'
    PROVE  CallsOK'
<1>1. IsFiniteSet(calls')
  BY FS_AddElement, FS_RemoveElement DEF CallsOK, Advances
<1>. QED BY <1>1 DEF CallsOK, Advances

\* One request ends, the others stay fine.
LEMMA EndOK ==
    ASSUME CallsOK, NEW c \in calls, Ends(c), \A e \in calls \ {c} : Fine(e)'
    PROVE  CallsOK'
<1>1. IsFiniteSet(calls')
  BY FS_RemoveElement DEF CallsOK, Ends
<1>. QED BY <1>1 DEF CallsOK, Ends

\* There are finitely many requests, so that there is an id for another.
LEMMA FreshIdIsNew ==
    ASSUME CallsOK
    PROVE  FreshId \in Nat /\ \A c \in calls : c.id # FreshId
<1>. DEFINE ids == {c.id : c \in calls}
            n == Cardinality(calls)
            f == [c \in calls |-> c.id]
<1>1. IsFiniteSet(calls) /\ n \in Nat
  BY FS_CardinalityType DEF CallsOK
<1>2. f \in Surjection(calls, ids)
  BY DEF Surjection
<1>3. IsFiniteSet(ids) /\ Cardinality(ids) <= n /\ Cardinality(ids) \in Nat
  BY <1>1, <1>2, FS_Surjection, FS_CardinalityType
<1>4. IsFiniteSet(1..(n + 1)) /\ Cardinality(1..(n + 1)) = n + 1
  BY <1>1, FS_Interval
<1>5. \E i \in 1..(n + 1) : i \notin ids
  <2>1. SUFFICES ASSUME 1..(n + 1) \subseteq ids PROVE FALSE
    OBVIOUS
  <2>2. Cardinality(1..(n + 1)) <= Cardinality(ids)
    BY <1>3, <2>1, FS_Subset
  <2>. QED BY <1>1, <1>3, <1>4, <2>2
<1>6. \E i \in 1..(n + 1) : \A c \in calls : c.id # i
  BY <1>5
<1>7. FreshId \in 1..(n + 1) /\ \A c \in calls : c.id # FreshId
  BY <1>6, Zenon DEF FreshId
<1>. QED BY <1>1, <1>7

\* A request comes in and is fine, the others stay fine.
LEMMA AddOK ==
    ASSUME CallsOK, NEW d, calls' = calls \union {d}, d.id = FreshId, Fine(d)',
           \A e \in calls : Fine(e)'
    PROVE  CallsOK'
<1>1. IsFiniteSet(calls')
  BY FS_AddElement DEF CallsOK
<1>. QED BY <1>1, FreshIdIsNew DEF CallsOK

\* What a delete preview names is as it was previewed, or has another version.
LEMMA PreviewStays ==
    ASSUME FsOK, FsOK', Grows, Plainly, PreviewOK, previewed' = previewed
    PROVE  PreviewOK'
<1>1. CASE previewed = NoPreview
  BY <1>1 DEF PreviewOK
<1>2. CASE previewed # NoPreview
  <2>0. /\ previewed \in TokenType /\ previewed.path \in Paths
        /\ previewed.version[1] \in DOMAIN node /\ previewed.version[2] <= clock
    BY <1>2 DEF PreviewOK
  <2>1. /\ previewed.version[1] \in DOMAIN node' /\ previewed.version[2] <= clock'
        /\ previewed.version[2] \in Nat /\ clock \in Nat
    <3>1. previewed.version[2] \in Nat
      BY <2>0 DEF TokenType, VersionType
    <3>. QED BY <2>0, <3>1 DEF Grows, FsOK
  <2>2. ASSUME node'[previewed.version[1]].stamp = previewed.version[2]
        PROVE  node'[previewed.version[1]] = node[previewed.version[1]]
    BY <2>0, <2>1, <2>2 DEF Plainly
  <2>. QED BY <1>2, <2>0, <2>1, <2>2 DEF PreviewOK, Grows
<1>. QED BY <1>1, <1>2

\* What an editor holds as read was read under the version it holds.
LEMMA EditorStays ==
    ASSUME FsOK, FsOK', Grows, EditorOK, ed' = ed
    PROVE  EditorOK'
<1>1. ed.opened \in ReadType /\ ed.read \in ReadType /\ ed.draft \in Nat
  BY DEF EditorOK, EditorType
<1>2. ed.open => Known(ed.opened.version, ed.opened.content)' /\ Known(ed.read.version, ed.read.content)'
  BY <1>1, KnownStays DEF EditorOK, ReadType
<1>3. clock \in Nat /\ clock' \in Nat /\ clock <= clock' /\ ed.opened.content \in Nat
  BY <1>1 DEF FsOK, Grows, ReadType
<1>4. ed.open => ed.draft <= clock' /\ ed.opened.content <= clock'
  BY <1>1, <1>3 DEF EditorOK
<1>. QED BY <1>2, <1>4 DEF EditorOK

-----------------------------------------------------------------------------
(* Each step of a request.                                                  *)

Keeps == FsOK' /\ Grows /\ Plainly /\ CallsOK'

\* A step that changes no file and one request.
LEMMA QuietAdvance ==
    ASSUME FsOK, CallsOK, UNCHANGED fsVars, NEW c \in calls, NEW d, Advances(c, d), d.id = c.id, Fine(d)
    PROVE  Keeps
<1>1. /\ FsOK' /\ Grows /\ Plainly
      /\ \A e : Fine(e) => Fine(e)'
  BY Quiet
<1>2. CallsOK'
  BY <1>1, AdvanceOK DEF CallsOK
<1>. QED BY <1>1, <1>2 DEF Keeps

\* A request ends and changes no file.
LEMMA QuietEnd ==
    ASSUME FsOK, CallsOK, UNCHANGED fsVars, NEW c \in calls, Ends(c)
    PROVE  Keeps
<1>1. /\ FsOK' /\ Grows /\ Plainly
      /\ \A e : Fine(e) => Fine(e)'
  BY Quiet
<1>2. CallsOK'
  BY <1>1, EndOK DEF CallsOK
<1>. QED BY <1>1, <1>2 DEF Keeps

\* A request comes in and changes no file.
LEMMA QuietAdd ==
    ASSUME FsOK, CallsOK, UNCHANGED fsVars, NEW d, calls' = calls \union {d}, d.id = FreshId, Fine(d)
    PROVE  Keeps
<1>1. /\ FsOK' /\ Grows /\ Plainly
      /\ \A e : Fine(e) => Fine(e)'
  BY Quiet
<1>2. CallsOK'
  BY <1>1, AddOK DEF CallsOK
<1>. QED BY <1>1, <1>2 DEF Keeps

\* readText: the open, and the answer with what was read.
LEMMA ReadKeeps ==
    ASSUME FilesInv, NEW c \in calls, ReadOpens(c) \/ ReadAnswers(c)
    PROVE  Keeps
<1>0. FsOK /\ CallsOK /\ UNCHANGED fsVars
  BY DEF FilesInv, ReadOpens, ReadAnswers
<1>1. ReadOK(c) /\ c \in ReadCalls /\ c.path \in Paths /\ c.version \in VersionType
  BY KindTells DEF FilesInv, CallsOK, ReadOpens, ReadAnswers, ReadOK, ReadCalls
<1>2. CASE ReadOpens(c)
  <2>1. CASE Ends(c)
    BY <1>0, <2>1, QuietEnd
  <2>2. CASE ~Ends(c)
    <3>. DEFINE d == [c EXCEPT !.step = "opened", !.version = VersionAt(c.path)]
    <3>1. Advances(c, d) /\ KindAt(c.path) = "file"
      BY <1>2, <2>2 DEF ReadOpens
    <3>2. entry[c.path] # None
      BY <3>1 DEF KindAt
    <3>3. /\ VersionAt(c.path) \in VersionType /\ VersionAt(c.path)[2] <= clock
          /\ IsFile(VersionAt(c.path)[1])
      BY <1>0, <1>1, <3>1, <3>2, Bound DEF Known, IsFile
    <3>4. d \in ReadCalls /\ d.id = c.id /\ d.step = "opened" /\ d.version = VersionAt(c.path)
      BY <1>1, <3>3 DEF ReadCalls
    <3>5. Fine(d)
      BY <3>3, <3>4 DEF Fine, ReadOK
    <3>. QED BY <1>0, <3>1, <3>4, <3>5, QuietAdvance
  <2>. QED BY <2>1, <2>2
<1>3. CASE ReadAnswers(c)
  <2>. DEFINE r == [content |-> node[c.version[1]].data, version |-> c.version]
              d == [c EXCEPT !.step = "answered", !.result = "ok", !.read = r]
  <2>1. Advances(c, d) /\ c.step = "opened"
    BY <1>3 DEF ReadAnswers, Answered, VersionRead
  <2>2. /\ IsFile(c.version[1]) /\ c.version[2] <= clock
        /\ node[c.version[1]].data \in Nat /\ node[c.version[1]].data <= clock
    <3>1. IsFile(c.version[1]) /\ c.version[2] <= clock
      BY <1>1, <2>1 DEF ReadOK
    <3>2. node[c.version[1]] \in NodeType /\ node[c.version[1]].data <= clock
      BY <1>0, <3>1 DEF IsFile, FsOK
    <3>. QED BY <3>1, <3>2 DEF NodeType
  <2>3. r \in ReadType /\ Known(r.version, r.content) /\ r.content <= clock
    BY <1>1, <2>2 DEF ReadType, Known, IsFile
  <2>4. d \in ReadCalls /\ d.id = c.id /\ d.step = "answered" /\ d.read = r
    BY <1>1, <2>3 DEF ReadCalls, Results
  <2>5. Fine(d)
    BY <2>3, <2>4 DEF Fine, ReadOK
  <2>. QED BY <1>0, <2>1, <2>4, <2>5, QuietAdvance
<1>. QED BY <1>2, <1>3

\* The answer of a write that did not succeed.
LEMMA Refused ==
    ASSUME FsOK, NEW c, WriteOK(c), NEW result \in {"conflict", "error"}
    PROVE  /\ Fine([c EXCEPT !.step = "answered", !.result = result, !.read = NoRead])
           /\ [c EXCEPT !.step = "answered", !.result = result, !.read = NoRead].id = c.id
<1>. DEFINE d == [c EXCEPT !.step = "answered", !.result = result, !.read = NoRead]
<1>1. NoRead \in ReadType
  BY DEF NoRead, ReadType, NoVersion, VersionType, None
<1>2. /\ d \in WriteCalls /\ d.id = c.id /\ d.step = "answered" /\ d.result = result
      /\ d.expected = c.expected /\ d.base = c.base /\ d.text = c.text
  BY <1>1 DEF WriteOK, WriteCalls, Results
<1>3. WriteOK(d)
  BY <1>2 DEF WriteOK
<1>. QED BY <1>2, <1>3 DEF Fine

\* writeText: the open, the check, a failure and the answer.
LEMMA WriteKeeps ==
    ASSUME FilesInv, NEW c \in calls, WriteOpens(c) \/ WriteChecks(c) \/ WriteFails(c) \/ WriteAnswers(c)
    PROVE  Keeps
<1>0. FsOK /\ CallsOK /\ UNCHANGED fsVars
  BY DEF FilesInv, WriteOpens, WriteChecks, WriteFails, WriteAnswers
<1>1. /\ WriteOK(c) /\ c \in WriteCalls /\ c.path \in Paths /\ c.expected \in VersionType
      /\ c.text \in Nat /\ c.base \in Nat
  <2>1. c.kind = "write"
    BY DEF WriteOpens, WriteChecks, WriteFails, WriteAnswers
  <2>2. WriteOK(c)
    BY <1>0, <2>1, KindTells DEF CallsOK
  <2>. QED BY <2>2 DEF WriteOK, WriteCalls
<1>2. ASSUME NEW result \in {"conflict", "error"}, Answered(c, result, NoRead) PROVE Keeps
  BY <1>0, <1>1, <1>2, Refused, QuietAdvance DEF Answered
<1>3. CASE WriteOpens(c)
  <2>. DEFINE d == [c EXCEPT !.step = "opened"]
  <2>1. \/ Answered(c, "conflict", NoRead) \/ Answered(c, "error", NoRead)
        \/ /\ Advances(c, d) /\ entry[c.path] # None /\ KindAt(c.path) = "file"
           /\ c.expected = VersionAt(c.path)
    BY <1>3 DEF WriteOpens, SameVersion
  <2>2. CASE /\ Advances(c, d) /\ entry[c.path] # None /\ KindAt(c.path) = "file"
             /\ c.expected = VersionAt(c.path)
    <3>1. d \in WriteCalls /\ d.id = c.id /\ d = [c EXCEPT !.step = "opened"] /\ d.step = "opened"
          /\ d.expected = c.expected /\ d.base = c.base /\ d.text = c.text /\ d.path = c.path
      BY <1>1 DEF WriteCalls
    <3>2. IsFile(c.expected[1]) /\ entry[c.path] = c.expected[1]
      BY <1>0, <1>1, <2>2, Bound DEF IsFile
    <3>3. WriteOK(d)
      BY <1>1, <3>1, <3>2 DEF WriteOK
    <3>. QED BY <1>0, <2>2, <3>1, <3>3, QuietAdvance DEF Fine
  <2>. QED BY <1>2, <2>1, <2>2
<1>4. CASE WriteChecks(c)
  <2>. DEFINE d == [c EXCEPT !.step = "checked"]
  <2>1. \/ Answered(c, "conflict", NoRead)
        \/ Advances(c, d) /\ c.expected = Version(c.expected[1])
    BY <1>4 DEF WriteChecks, SameVersion
  <2>2. CASE Advances(c, d) /\ c.expected = Version(c.expected[1])
    <3>1. d \in WriteCalls /\ d.id = c.id /\ d.step = "checked"
          /\ d.expected = c.expected /\ d.base = c.base /\ d.text = c.text /\ d.path = c.path
      BY <1>1 DEF WriteCalls
    <3>2. c.step = "opened" /\ IsFile(c.expected[1]) /\ Known(c.expected, c.base)
          /\ node[c.expected[1]].stamp = c.expected[2]
      BY <1>1, <1>4, <2>2 DEF WriteOK, WriteChecks, Version, VersionType
    <3>3. node[c.expected[1]].data \in {c.base} \union raced
      BY <3>2 DEF Known
    <3>4. Only(c.path, {c.base})
      BY <1>1, <3>2, <3>3 DEF WriteOK, Only, ContentAt
    <3>5. WriteOK(d)
      BY <1>1, <3>1, <3>2, <3>4 DEF WriteOK
    <3>. QED BY <1>0, <2>2, <3>1, <3>5, QuietAdvance DEF Fine
  <2>. QED BY <1>2, <2>1, <2>2
<1>5. CASE WriteFails(c)
  BY <1>2, <1>5 DEF WriteFails
<1>6. CASE WriteAnswers(c)
  <2>. DEFINE r == [content |-> c.text, version |-> VersionAt(c.path)]
              d == [c EXCEPT !.step = "answered", !.result = "ok", !.read = r]
  <2>1. \/ Answered(c, "error", NoRead)
        \/ Advances(c, d) /\ entry[c.path] # None
    BY <1>6 DEF WriteAnswers, Answered
  <2>2. CASE Advances(c, d) /\ entry[c.path] # None
    <3>1. Only(c.path, {c.text})
      BY <1>1, <1>6 DEF WriteOK, WriteAnswers
    <3>2. /\ VersionAt(c.path) \in VersionType /\ VersionAt(c.path)[1] = entry[c.path]
          /\ Known(VersionAt(c.path), node[entry[c.path]].data) /\ ContentAt(c.path) = {node[entry[c.path]].data}
      BY <1>0, <1>1, <2>2, Bound
    <3>3. r \in ReadType /\ Known(r.version, r.content)
      BY <1>1, <3>1, <3>2 DEF ReadType, Only, Known
    <3>4. /\ d \in WriteCalls /\ d.id = c.id /\ d.step = "answered" /\ d.read = r
          /\ d.expected = c.expected /\ d.base = c.base /\ d.text = c.text /\ d.path = c.path
      BY <1>1, <3>3 DEF WriteCalls, Results
    <3>5. WriteOK(d)
      BY <1>1, <3>3, <3>4 DEF WriteOK
    <3>. QED BY <1>0, <2>2, <3>4, <3>5, QuietAdvance DEF Fine
  <2>. QED BY <1>2, <2>1, <2>2
<1>. QED BY <1>3, <1>4, <1>5, <1>6

-----------------------------------------------------------------------------
\* A step that changes files, and one request, meets the others.
LEMMA StepAdvances ==
    ASSUME FsOK, CallsOK, FsOK', Grows, Plainly, NEW c \in calls, NEW d, Advances(c, d), d.id = c.id,
           Fine(d)', \A e \in calls \ {c} : Meets(e)
    PROVE  Keeps
BY FineStays, AdvanceOK DEF CallsOK, Keeps

\* A request changes files in no gap of another, and ends.
LEMMA StepEnds ==
    ASSUME FsOK, CallsOK, FsOK', Grows, Plainly, NEW c \in calls, Ends(c),
           \A e \in calls \ {c} : Meets(e)
    PROVE  Keeps
BY FineStays, EndOK DEF CallsOK, Keeps

\* Files change in no gap of a request.
LEMMA StepLeaves ==
    ASSUME FsOK, CallsOK, FsOK', Grows, Plainly, calls' = calls, \A e \in calls : Meets(e)
    PROVE  Keeps
<1>1. \A e \in calls : Fine(e)'
  BY FineStays DEF CallsOK
<1>. QED BY <1>1 DEF CallsOK, Keeps

\* Binding a name, for the requests that look on.
LEMMA BindsKeeps ==
    ASSUME FsOK, CallsOK, NEW p \in Paths, NEW kind \in {"file", "directory"}, NEW d \in 0..clock + 1,
           NEW meant, NEW missed, Binds(p, kind, d, meant, missed),
           NEW S \in SUBSET calls, Missed(S, p, "anew") => missed
    PROVE  FsOK' /\ Grows /\ Plainly /\ \A e \in S : Meets(e)
<1>1. FsOK' /\ Grows /\ \A i \in DOMAIN node : node'[i] = node[i]
  BY BindsStep
<1>2. ASSUME NEW e \in S PROVE Meets(e)
  <2>1. Fine(e) /\ (Misses(e, p, "anew") => missed)
    BY DEF CallsOK, Missed
  <2>. QED BY <2>1, BindsMeets
<1>. QED BY <1>1, <1>2 DEF Plainly

\* writeText: the rename, over what it knows or what came into its gap.
LEMMA WriteRenamesKeeps ==
    ASSUME FilesInv, NEW c \in calls, WriteRenames(c)
    PROVE  Keeps
<1>0. FsOK /\ CallsOK /\ c.kind = "write" /\ c.step = "checked" /\ clock \in Nat
  BY DEF FilesInv, FsOK, WriteRenames
<1>1. WriteOK(c)
  BY <1>0, KindTells DEF CallsOK
<1>2. /\ c \in WriteCalls /\ c.path \in Paths /\ c.expected \in VersionType
      /\ c.text \in Nat /\ c.base \in Nat /\ c.text <= clock
  BY <1>1 DEF WriteOK, WriteCalls
<1>3. CASE UNCHANGED fsVars /\ Answered(c, "error", NoRead)
  BY <1>0, <1>1, <1>3, Refused, QuietAdvance DEF Answered
<1>4. CASE KindAt(c.path) # "directory"
  <2>. DEFINE d == [c EXCEPT !.step = "renamed"]
              missed == Missed(calls \ {c}, c.path, "anew")
  <2>1. Binds(c.path, "file", c.text, {c.base}, missed) /\ Advances(c, d)
    BY <1>4 DEF WriteRenames
  <2>2. c.text \in 0..clock + 1
    BY <1>0, <1>2
  <2>3. /\ FsOK' /\ Grows /\ ContentAt(c.path)' = {c.text}
    <3>1. FsOK' /\ Grows /\ \A q \in Paths : ContentAt(q)' = IF q = c.path THEN {c.text} ELSE ContentAt(q)
      BY <1>0, <1>2, <2>1, <2>2, BindsStep
    <3>. QED BY <1>2, <3>1
  <2>4. Plainly /\ \A e \in calls \ {c} : Meets(e)
    BY <1>0, <1>2, <2>1, <2>2, BindsKeeps
  <2>5. Known(c.expected, c.base)'
    BY <1>0, <1>1, <1>2, <2>3, KnownStays DEF WriteOK
  <2>6. d \in WriteCalls /\ d.id = c.id /\ d.step = "renamed"
        /\ d.expected = c.expected /\ d.base = c.base /\ d.text = c.text /\ d.path = c.path
    BY <1>2 DEF WriteCalls
  <2>7. Only(c.path, {c.text})' /\ c.text <= clock'
    BY <1>0, <1>2, <2>3 DEF Only, Grows, FsOK
  <2>8. WriteOK(d)'
    BY <2>5, <2>6, <2>7 DEF WriteOK
  <2>. QED BY <1>0, <2>1, <2>3, <2>4, <2>6, <2>8, StepAdvances DEF Fine
<1>. QED BY <1>3, <1>4 DEF WriteRenames

\* moveEntry: both names are resolved.
LEMMA MoveStartsKeeps ==
    ASSUME FilesInv, NEW p \in Paths, NEW q \in Paths, MoveStarts(FreshId, p, q)
    PROVE  Keeps
<1>. DEFINE d == MoveCall(FreshId, p, q)
<1>0. FsOK /\ CallsOK /\ UNCHANGED fsVars /\ entry[p] # None /\ entry[q] = None /\ p # q
      /\ calls' = calls \union {d}
  BY DEF FilesInv, MoveStarts
<1>1. FreshId \in Nat
  BY <1>0, FreshIdIsNew
<1>2. /\ VersionAt(p) \in VersionType /\ Known(VersionAt(p), node[entry[p]].data)
      /\ VersionAt(p)[1] = entry[p] /\ entry[p] \in DOMAIN node
      /\ KindAt(p) = node[entry[p]].kind /\ KindAt(p) \in {"file", "directory"}
  BY <1>0, Bound DEF NodeType
<1>3. /\ d.id = FreshId /\ d.path = p /\ d.to = q /\ d.step = "resolved" /\ d.version = VersionAt(p)
      /\ d.directory = (KindAt(p) = "directory")
  BY DEF MoveCall
<1>4. d \in MoveCalls
  BY <1>1, <1>2 DEF MoveCall, MoveCalls, None
<1>5. Only(q, {})
  BY <1>0 DEF Only, ContentAt
<1>6. MoveOK(d)
  BY <1>0, <1>2, <1>3, <1>4, <1>5 DEF MoveOK, Known, IsFile
<1>. QED BY <1>0, <1>3, <1>6, QuietAdd DEF Fine

\* What the steps of a move start from.
LEMMA MoveFacts ==
    ASSUME FilesInv, NEW c \in calls, c.kind = "move"
    PROVE  /\ FsOK /\ CallsOK /\ MoveOK(c) /\ c \in MoveCalls
           /\ c.path \in Paths /\ c.to \in Paths /\ c.path # c.to /\ c.version \in VersionType
           /\ c.directory \in BOOLEAN /\ clock \in Nat
<1>1. FsOK /\ CallsOK /\ MoveOK(c) /\ clock \in Nat
  BY KindTells DEF FilesInv, CallsOK, FsOK
<1>. QED BY <1>1 DEF MoveOK, MoveCalls

\* moveEntry: the exclusive copy.
LEMMA MoveCopiesKeeps ==
    ASSUME FilesInv, NEW c \in calls, MoveCopies(c)
    PROVE  Keeps
<1>0. c.kind = "move" /\ ~c.directory
  BY DEF MoveCopies
<1>1. /\ FsOK /\ CallsOK /\ MoveOK(c) /\ c \in MoveCalls
      /\ c.path \in Paths /\ c.to \in Paths /\ c.path # c.to /\ c.version \in VersionType /\ clock \in Nat
  BY <1>0, MoveFacts
<1>2. CASE Ends(c) /\ UNCHANGED fsVars
  BY <1>1, <1>2, QuietEnd
<1>3. CASE KindAt(c.path) = "file" /\ entry[c.to] = None
  <2>. DEFINE missed == Missed(calls \ {c}, c.to, "anew")
  <2>0. PICK v, j : v = node[entry[c.path]].data /\ j = Len(node')
    OBVIOUS
  <2>. DEFINE d == [c EXCEPT !.step = "copied", !.copy = j, !.data = v]
  <2>1. Binds(c.to, "file", v, {}, missed) /\ Advances(c, d)
    BY <1>3, <2>0 DEF MoveCopies
  <2>2. entry[c.path] # None
    BY <1>3 DEF KindAt
  <2>3. v \in Nat /\ v <= clock /\ v \in 0..clock + 1 /\ ContentAt(c.path) = {v}
    BY <1>1, <2>0, <2>2, Bound DEF NodeType
  <2>4. /\ FsOK' /\ Grows /\ ContentAt(c.to)' = {v} /\ ContentAt(c.path)' = {v}
        /\ j \in Nat \ {0} /\ Len(node') = j
        /\ node'[j] = [kind |-> "file", stamp |-> clock', data |-> v, count |-> 0]
    <3>1. /\ FsOK' /\ Grows
          /\ \A q \in Paths : ContentAt(q)' = IF q = c.to THEN {v} ELSE ContentAt(q)
          /\ Len(node) \in Nat /\ Len(node') = Len(node) + 1
          /\ node'[Len(node) + 1] = [kind |-> "file", stamp |-> clock', data |-> v, count |-> 0]
      BY <1>1, <2>1, <2>3, BindsStep
    <3>. QED BY <1>1, <2>0, <2>3, <3>1
  <2>5. Plainly /\ \A e \in calls \ {c} : Meets(e)
    BY <1>1, <2>1, <2>3, BindsKeeps
  <2>6. IsFile(j)'
    BY <2>4 DEF IsFile, FsOK
  <2>7. /\ d \in MoveCalls /\ d.id = c.id /\ d.step = "copied" /\ d.copy = j /\ d.data = v
        /\ d.path = c.path /\ d.to = c.to /\ d.version = c.version /\ d.directory = c.directory
    BY <1>1, <2>3, <2>4 DEF MoveCalls
  <2>8. IsFile(c.version[1])' /\ c.version[1] \in DOMAIN node' /\ c.version[2] <= clock'
    <3>1. IsFile(c.version[1]) /\ c.version[2] <= clock
      BY <1>0, <1>1 DEF MoveOK
    <3>2. IsFile(c.version[1])'
      BY <2>4, <3>1, FileStays
    <3>3. c.version[2] \in Nat /\ clock' \in Nat /\ clock <= clock'
      BY <1>1, <2>4 DEF VersionType, FsOK, Grows
    <3>. QED BY <1>1, <3>1, <3>2, <3>3 DEF IsFile
  <2>9. v \in stored'
    BY <2>1 DEF Binds
  <2>10. Only(c.to, {v})' /\ Only(c.path, {v})'
    BY <2>4 DEF Only
  <2>11. MoveOK(d)'
    BY <1>0, <1>1, <2>6, <2>7, <2>8, <2>9, <2>10 DEF MoveOK
  <2>. QED BY <1>1, <2>1, <2>4, <2>5, <2>7, <2>11, StepAdvances DEF Fine
<1>. QED BY <1>2, <1>3 DEF MoveCopies

\* moveEntry: the second look at the source, with the copy removed or kept, and
\* the unlink.
LEMMA MoveEndsKeeps ==
    ASSUME FilesInv, NEW c \in calls, MoveChecks(c) \/ MoveUnlinks(c)
    PROVE  Keeps
<1>1. /\ FsOK /\ CallsOK /\ MoveOK(c) /\ c \in MoveCalls
      /\ c.path \in Paths /\ c.to \in Paths /\ c.path # c.to /\ c.version \in VersionType /\ clock \in Nat
  BY MoveFacts DEF MoveChecks, MoveUnlinks
<1>2. CASE Ends(c) /\ UNCHANGED fsVars
  BY <1>1, <1>2, QuietEnd
<1>3. ASSUME NEW ps, NEW mine, mine \subseteq Paths \X DOMAIN node, Ends(c), Unbinds(ps, {}, mine)
      PROVE  Keeps
  <2>1. FsOK' /\ Grows /\ \A e : Meets(e)
    BY <1>1, <1>3, UnbindsStep
  <2>2. Plainly
    BY <1>3 DEF Plainly, Unbinds
  <2>. QED BY <1>1, <1>3, <2>1, <2>2, StepEnds
<1>4. CASE MoveChecks(c)
  <2>1. c.step = "copied" /\ IsFile(c.copy)
    BY <1>1, <1>4 DEF MoveChecks, MoveOK
  <2>2. CASE UNCHANGED fsVars /\ ~Ends(c)
    <3>. DEFINE d == [c EXCEPT !.step = "checked"]
    <3>1. Advances(c, d) /\ VersionAt(c.path) = c.version
      BY <1>4, <2>2 DEF MoveChecks, SameVersion
    <3>2. /\ d \in MoveCalls /\ d.id = c.id /\ d.step = "checked" /\ d.data = c.data
          /\ d.path = c.path /\ d.to = c.to /\ d.version = c.version /\ d.directory = c.directory
      BY <1>1 DEF MoveCalls
    <3>3. MoveOK(d)
      BY <1>1, <2>1, <3>1, <3>2 DEF MoveOK
    <3>. QED BY <1>1, <2>2, <3>1, <3>2, <3>3, QuietAdvance DEF Fine
  <2>3. CASE ~UNCHANGED fsVars
    <3>1. Ends(c) /\ Unbinds({c.to} \ {q \in Paths : KindAt(q) = "directory"}, {}, {<<c.to, c.copy>>})
      BY <1>4, <2>3 DEF MoveChecks
    <3>2. {<<c.to, c.copy>>} \subseteq Paths \X DOMAIN node
      BY <1>1, <2>1 DEF IsFile
    <3>. QED BY <1>3, <3>1, <3>2
  <2>. QED BY <1>2, <2>2, <2>3
<1>5. CASE MoveUnlinks(c)
  <2>1. Ends(c) /\ (UNCHANGED fsVars \/ Unbinds({c.path}, {}, {}))
    BY <1>5 DEF MoveUnlinks
  <2>. QED BY <1>2, <1>3, <2>1
<1>. QED BY <1>4, <1>5

\* moveEntry: the rename of a directory.
LEMMA MoveRenamesKeeps ==
    ASSUME FilesInv, NEW c \in calls, MoveRenames(c)
    PROVE  Keeps
<1>1. /\ FsOK /\ CallsOK /\ c.path \in Paths /\ c.to \in Paths /\ c.path # c.to
  BY MoveFacts DEF MoveRenames
<1>2. Ends(c)
  BY DEF MoveRenames
<1>3. CASE UNCHANGED fsVars
  BY <1>1, <1>2, <1>3, QuietEnd
<1>4. CASE ~UNCHANGED fsVars
  <2>. DEFINE missed == Missed(calls \ {c}, c.to, "anew") \/ Returns(calls, c.to, entry[c.path])
  <2>1. Renames(c.path, c.to, missed) /\ entry[c.path] # None
    BY <1>4 DEF MoveRenames, MayRename
  <2>2. FsOK' /\ Grows
    BY <1>1, <2>1, RenamesStep
  <2>3. Plainly
    BY <2>1 DEF Plainly, Renames
  <2>4. ASSUME NEW e \in calls \ {c} PROVE Meets(e)
    <3>1. Misses(e, c.to, "anew") \/ Returns({e}, c.to, entry[c.path]) => missed
      BY DEF Missed, Returns
    <3>. QED BY <1>1, <2>1, <3>1, RenamesMeets
  <2>. QED BY <1>1, <1>2, <2>2, <2>3, <2>4, StepEnds
<1>. QED BY <1>3, <1>4

-----------------------------------------------------------------------------
\* Removing names disturbs no request.
LEMMA UnbindsKeeps ==
    ASSUME FsOK, CallsOK, NEW ps, NEW meant, NEW mine, mine \subseteq Paths \X DOMAIN node,
           Unbinds(ps, meant, mine)
    PROVE  FsOK' /\ Grows /\ Plainly /\ \A e : Meets(e)
<1>1. FsOK' /\ Grows /\ \A e : Meets(e)
  BY UnbindsStep
<1>2. Plainly
  BY DEF Plainly, Unbinds
<1>. QED BY <1>1, <1>2

\* A deletion looks for the second time.
LEMMA DeleteInspectsKeeps ==
    ASSUME FilesInv, DeleteInspects(FreshId)
    PROVE  Keeps
<1>. DEFINE d == [id |-> FreshId, kind |-> "delete", path |-> previewed.path,
                  step |-> "inspected", token |-> previewed]
<1>0. /\ FsOK /\ CallsOK /\ UNCHANGED fsVars /\ calls' = calls \union {d}
      /\ previewed # NoPreview /\ entry[previewed.path] # None
      /\ [Target(previewed.path) EXCEPT !.data = previewed.data] = previewed
  BY DEF FilesInv, DeleteInspects, AsPreviewed
<1>1. FreshId \in Nat
  BY <1>0, FreshIdIsNew
<1>2. /\ previewed \in TokenType /\ previewed.path \in Paths
      /\ node[previewed.version[1]].stamp = previewed.version[2] =>
             node[previewed.version[1]].data \in {previewed.data} \union raced
  BY <1>0 DEF FilesInv, PreviewOK
<1>3. /\ VersionAt(previewed.path) = <<entry[previewed.path], node[entry[previewed.path]].stamp>>
      /\ ContentAt(previewed.path) = {node[entry[previewed.path]].data}
  BY <1>0, <1>2, Bound
<1>4. previewed.version = VersionAt(previewed.path)
  <2>1. [Target(previewed.path) EXCEPT !.data = previewed.data].version = VersionAt(previewed.path)
    BY DEF Target
  <2>. QED BY <1>0, <2>1
<1>5. Only(previewed.path, {previewed.data})
  BY <1>2, <1>3, <1>4 DEF Only
<1>6. d \in DeleteCalls /\ d.id = FreshId /\ d.path = previewed.path /\ d.token = previewed
  BY <1>1, <1>2 DEF DeleteCalls
<1>7. DeleteOK(d)
  BY <1>5, <1>6 DEF DeleteOK
<1>. QED BY <1>0, <1>6, <1>7, QuietAdd DEF Fine

\* deleteEntry: the removal.
LEMMA DeleteRemovesKeeps ==
    ASSUME FilesInv, NEW c \in calls, DeleteRemoves(c)
    PROVE  Keeps
<1>1. FsOK /\ CallsOK /\ Ends(c)
  BY DEF FilesInv, DeleteRemoves
<1>2. CASE UNCHANGED fsVars
  BY <1>1, <1>2, QuietEnd
<1>3. CASE Unbinds({c.path}, {c.token.data}, {})
  <2>1. FsOK' /\ Grows /\ Plainly /\ \A e : Meets(e)
    BY <1>1, <1>3, UnbindsKeeps
  <2>. QED BY <1>1, <2>1, StepEnds
<1>. QED BY <1>2, <1>3 DEF DeleteRemoves

\* createEntry: the exclusive open or mkdir.
LEMMA CreatesKeeps ==
    ASSUME FilesInv, NEW p \in Paths, NEW kind \in {"file", "directory"}, Creates(p, kind)
    PROVE  Keeps
<1>1. /\ FsOK /\ CallsOK /\ clock + 1 \in 0..clock + 1 /\ calls' = calls
      /\ Binds(p, kind, clock + 1, {}, Missed(calls, p, "anew"))
  BY DEF FilesInv, Creates, FsOK, serviceVars
<1>2. FsOK' /\ Grows /\ Plainly /\ \A e \in calls : Meets(e)
  BY <1>1, BindsKeeps
<1>. QED BY <1>1, <1>2, StepLeaves

\* An upload is planned.
LEMMA UploadStartsKeeps ==
    ASSUME FilesInv, UploadStarts(FreshId)
    PROVE  Keeps
<1>0. FsOK /\ CallsOK /\ UNCHANGED fsVars
  BY DEF FilesInv, UploadStarts
<1>1. FreshId \in Nat
  BY <1>0, FreshIdIsNew
<1>2. PICK n \in 1..MaxFiles : calls' = calls \union {UploadCall(FreshId, n)}
  BY DEF UploadStarts
<1>. DEFINE d == UploadCall(FreshId, n)
<1>3. d.id = FreshId /\ d.step = "next" /\ d.kept = {}
  BY DEF UploadCall
<1>4. Plan(n) \subseteq Paths
  BY DEF Plan, FreeNames
<1>5. d \in UploadCalls
  BY <1>1, <1>4 DEF UploadCall, UploadCalls, None
<1>6. UploadOK(d)
  BY <1>3, <1>5 DEF UploadOK, Mine
<1>. QED BY <1>0, <1>2, <1>3, <1>6, QuietAdd DEF Fine

\* What the steps of an upload start from.
LEMMA UploadFacts ==
    ASSUME FilesInv, NEW c \in calls, c.kind = "upload"
    PROVE  /\ FsOK /\ CallsOK /\ UploadOK(c) /\ c \in UploadCalls
           /\ c.kept \subseteq Paths /\ c.plan \subseteq Paths /\ c.made \in [Paths -> Nat]
           /\ clock \in Nat
<1>1. FsOK /\ CallsOK /\ UploadOK(c) /\ clock \in Nat
  BY KindTells DEF FilesInv, CallsOK, FsOK
<1>. QED BY <1>1 DEF UploadOK, UploadCalls

\* writeFile: the exclusive open of the next target.
LEMMA UploadCreatesKeeps ==
    ASSUME FilesInv, NEW c \in calls, UploadCreates(c)
    PROVE  Keeps
<1>1. /\ FsOK /\ CallsOK /\ UploadOK(c) /\ c \in UploadCalls
      /\ c.kept \subseteq Paths /\ c.plan \subseteq Paths /\ c.made \in [Paths -> Nat] /\ clock \in Nat
  BY UploadFacts DEF UploadCreates
<1>2. PICK p \in c.plan :
         IF entry[p] = None
         THEN /\ Binds(p, "file", clock + 1, {}, Missed(calls \ {c}, p, "anew"))
              /\ Advances(c, [c EXCEPT !.step = "writing", !.plan = @ \ {p}, !.at = p,
                                       !.made[p] = Len(node')])
         ELSE /\ Advances(c, [c EXCEPT !.plan = @ \ {p}])
              /\ UNCHANGED fsVars
  BY DEF UploadCreates
<1>3. p \in Paths
  BY <1>1, <1>2
<1>4. CASE entry[p] # None
  <2>. DEFINE d == [c EXCEPT !.plan = @ \ {p}]
  <2>1. /\ d \in UploadCalls /\ d.id = c.id /\ d.step = c.step /\ d.kept = c.kept /\ d.at = c.at
        /\ d.made = c.made
    BY <1>1 DEF UploadCalls
  <2>2. UploadOK(d)
    BY <1>1, <2>1 DEF UploadOK, Mine
  <2>. QED BY <1>1, <1>2, <1>4, <2>1, <2>2, QuietAdvance DEF Fine
<1>5. CASE entry[p] = None
  <2>0. PICK j : j = Len(node')
    OBVIOUS
  <2>. DEFINE d == [c EXCEPT !.step = "writing", !.plan = @ \ {p}, !.at = p, !.made[p] = j]
              missed == Missed(calls \ {c}, p, "anew")
  <2>1. Binds(p, "file", clock + 1, {}, missed) /\ Advances(c, d) /\ clock + 1 \in 0..clock + 1
    BY <1>1, <1>2, <1>5, <2>0
  <2>2. /\ FsOK' /\ Grows /\ j \in Nat \ {0} /\ entry'[p] = j /\ Len(node') = j
        /\ node'[j] = [kind |-> "file", stamp |-> clock', data |-> clock + 1, count |-> 0]
        /\ \A q \in Paths \ {p} : entry'[q] = entry[q] /\ ContentAt(q)' = ContentAt(q)
    <3>1. /\ FsOK' /\ Grows
          /\ Len(node) \in Nat /\ entry'[p] = Len(node) + 1 /\ Len(node') = Len(node) + 1
          /\ node'[Len(node) + 1] = [kind |-> "file", stamp |-> clock', data |-> clock + 1, count |-> 0]
          /\ \A q \in Paths \ {p} : entry'[q] = entry[q]
          /\ \A q \in Paths : ContentAt(q)' = IF q = p THEN {clock + 1} ELSE ContentAt(q)
      BY <1>1, <1>3, <2>1, BindsStep
    <3>. QED BY <2>0, <3>1
  <2>3. Plainly /\ \A e \in calls \ {c} : Meets(e)
    BY <1>1, <1>3, <2>1, BindsKeeps
  <2>4. IsFile(j)'
    BY <2>2 DEF IsFile, FsOK
  <2>5. /\ d \in UploadCalls /\ d.id = c.id /\ d.step = "writing" /\ d.at = p /\ d.kept = c.kept
        /\ d.made[p] = j /\ \A q \in Paths \ {p} : d.made[q] = c.made[q]
    BY <1>1, <1>3, <2>2 DEF UploadCalls
  <2>6. ASSUME NEW q \in Mine(d) PROVE IsFile(d.made[q])' /\ (entry'[q] # d.made[q] => Only(q, {})')
    <3>1. CASE q = p
      BY <2>2, <2>4, <2>5, <3>1
    <3>2. CASE q # p
      <4>1. q \in c.kept /\ q \in Paths /\ d.made[q] = c.made[q]
        BY <1>1, <2>5, <2>6, <3>2 DEF Mine
      <4>2. IsFile(c.made[q]) /\ (entry[q] # c.made[q] => Only(q, {}))
        BY <1>1, <4>1 DEF UploadOK, Mine
      <4>3. IsFile(c.made[q])'
        BY <2>2, <4>2, FileStays
      <4>4. ContentAt(q)' = ContentAt(q) /\ entry'[q] = entry[q] /\ raced \subseteq raced'
        BY <2>2, <3>2, <4>1 DEF Grows
      <4>. QED BY <4>1, <4>2, <4>3, <4>4 DEF Only
    <3>. QED BY <3>1, <3>2
  <2>7. UploadOK(d)'
    BY <1>3, <2>5, <2>6 DEF UploadOK, Mine
  <2>. QED BY <1>1, <2>1, <2>2, <2>3, <2>5, <2>7, StepAdvances DEF Fine
<1>. QED BY <1>4, <1>5

\* writeFile: the file has arrived.
LEMMA UploadCompletesKeeps ==
    ASSUME FilesInv, NEW c \in calls, UploadCompletes(c)
    PROVE  Keeps
<1>1. /\ FsOK /\ CallsOK /\ UploadOK(c) /\ c \in UploadCalls
      /\ c.kept \subseteq Paths /\ c.made \in [Paths -> Nat] /\ clock \in Nat
  BY UploadFacts DEF UploadCompletes
<1>2. /\ c.step = "writing" /\ c.at \in Paths /\ IsFile(c.made[c.at])
      /\ c.made[c.at] \in DOMAIN node /\ node[c.made[c.at]] \in NodeType
      /\ node[c.made[c.at]].data <= clock
  <2>1. c.step = "writing" /\ c.at \in Paths /\ IsFile(c.made[c.at])
    BY <1>1 DEF UploadCompletes, UploadOK, Mine
  <2>. QED BY <1>1, <2>1 DEF IsFile, FsOK
<1>. DEFINE i == c.made[c.at]
            n == [node[i] EXCEPT !.stamp = clock + 1]
            d == [c EXCEPT !.step = "next", !.kept = @ \union {c.at}]
<1>3. /\ n \in NodeType /\ n.kind = node[i].kind /\ n.stamp = clock + 1 /\ n.data = node[i].data
  BY <1>1, <1>2 DEF NodeType
<1>4. /\ node' = [node EXCEPT ![i] = n] /\ clock' = clock + 1 /\ entry' = entry /\ undone' = undone
      /\ raced' = raced /\ stored' = stored /\ Advances(c, d)
  BY DEF UploadCompletes
<1>5. stored' \subseteq 0..clock'
  BY <1>1, <1>4 DEF FsOK
<1>6. /\ FsOK' /\ Grows
      /\ \A q \in Paths : entry[q] # i => ContentAt(q)' = ContentAt(q)
      /\ \A q \in Paths : entry[q] = i => ContentAt(q)' = {n.data}
  <2>1. n.stamp <= clock' /\ n.data <= clock' /\ n.stamp = clock'
    BY <1>1, <1>2, <1>3, <1>4 DEF NodeType
  <2>. QED BY <1>1, <1>2, <1>3, <1>4, <1>5, <2>1, ChangesStep
<1>7. \A q \in Paths : ContentAt(q)' = ContentAt(q)
  <2>1. i # None
    BY <1>1, <1>2 DEF FsOK, None
  <2>2. \A q \in Paths : entry[q] = i => ContentAt(q) = {node[i].data}
    BY <2>1 DEF ContentAt
  <2>. QED BY <1>3, <1>6, <2>2
<1>8. Plainly
  BY <1>1, <1>2, <1>3, <1>4 DEF Plainly, FsOK
<1>9. \A e : Meets(e)
  BY <1>4, <1>7 DEF Meets
<1>10. UploadOK(c)'
  BY <1>1, <1>6, <1>9, UploadStays
<1>11. /\ d \in UploadCalls /\ d.id = c.id /\ d.step = "next" /\ d.kept = c.kept \union {c.at}
       /\ d.made = c.made
  BY <1>1, <1>2 DEF UploadCalls
<1>12. UploadOK(d)'
  BY <1>2, <1>10, <1>11 DEF UploadOK, Mine
<1>. QED BY <1>1, <1>4, <1>6, <1>8, <1>9, <1>11, <1>12, StepAdvances DEF Fine

\* writeFile fails, or the upload aborts and removes what it made.
LEMMA UploadFailsKeeps ==
    ASSUME FilesInv, NEW c \in calls, UploadFileFails(c) \/ UploadAborts(c)
    PROVE  Keeps
<1>1. /\ FsOK /\ CallsOK /\ UploadOK(c) /\ c \in UploadCalls
      /\ c.kept \subseteq Paths /\ c.made \in [Paths -> Nat] /\ clock \in Nat
  BY UploadFacts DEF UploadFileFails, UploadAborts
<1>2. ASSUME NEW which, NEW mine \in SUBSET Mine(c), Takes(c, which, mine)
      PROVE  FsOK' /\ Grows /\ Plainly /\ \A e : Meets(e)
  <2>1. \A p \in mine : p \in Paths /\ IsFile(c.made[p])
    BY <1>1, <1>2 DEF UploadOK, Mine
  <2>2. {<<p, c.made[p]>> : p \in mine} \subseteq Paths \X DOMAIN node
    BY <2>1 DEF IsFile
  <2>. QED BY <1>1, <1>2, <2>2, UnbindsKeeps DEF Takes
<1>3. CASE UploadFileFails(c)
  <2>. DEFINE d == [c EXCEPT !.step = "next"]
  <2>1. Takes(c, {c.at}, {c.at}) /\ Advances(c, d) /\ {c.at} \in SUBSET Mine(c)
    BY <1>3 DEF UploadFileFails, Mine
  <2>2. FsOK' /\ Grows /\ Plainly /\ \A e : Meets(e)
    BY <1>2, <2>1
  <2>3. UploadOK(c)'
    BY <1>1, <2>2, UploadStays
  <2>4. d \in UploadCalls /\ d.id = c.id /\ d.step = "next" /\ d.kept = c.kept /\ d.made = c.made
    BY <1>1 DEF UploadCalls
  <2>5. UploadOK(d)'
    BY <2>3, <2>4 DEF UploadOK, Mine
  <2>. QED BY <1>1, <2>1, <2>2, <2>4, <2>5, StepAdvances DEF Fine
<1>4. CASE UploadAborts(c)
  <2>1. Takes(c, c.kept, c.kept) /\ Ends(c) /\ c.kept \in SUBSET Mine(c)
    BY <1>4 DEF UploadAborts, ToAbort, Mine
  <2>2. FsOK' /\ Grows /\ Plainly /\ \A e : Meets(e)
    BY <1>2, <2>1
  <2>. QED BY <1>1, <2>1, <2>2, StepEnds
<1>. QED BY <1>3, <1>4

\* The upload is answered.
LEMMA UploadFinishesKeeps ==
    ASSUME FilesInv, NEW c \in calls, UploadFinishes(c)
    PROVE  Keeps
BY QuietEnd DEF FilesInv, UploadFinishes

-----------------------------------------------------------------------------
(* The editor.                                                              *)

\* The editor alone changes.
LEMMA EditorBecomes ==
    ASSUME FsOK, UNCHANGED fsVars, ed' \in EditorType,
           ed'.open => /\ ed'.path \in Paths /\ ed'.draft <= clock /\ ed'.opened.content <= clock
                       /\ Known(ed'.opened.version, ed'.opened.content)
                       /\ Known(ed'.read.version, ed'.read.content)
    PROVE  EditorOK'
<1>1. ed'.opened.version \in VersionType /\ ed'.read.version \in VersionType
  BY DEF EditorType, ReadType
<1>2. FsOK' /\ Grows /\ clock' = clock
  BY Quiet DEF fsVars
<1>3. ASSUME NEW v \in VersionType, NEW d, Known(v, d) PROVE Known(v, d)'
  BY <1>2, <1>3, KnownStays
<1>. QED BY <1>1, <1>2, <1>3 DEF EditorOK

\* The editor of a file that was read is one that knows it.
LEMMA MountedIs ==
    ASSUME NEW p \in Paths, NEW read \in ReadType
    PROVE  /\ Mounted(p, read) \in EditorType
           /\ Mounted(p, read).path = p /\ Mounted(p, read).draft = read.content
           /\ Mounted(p, read).opened = read /\ Mounted(p, read).read = read
           /\ Mounted(p, read).open /\ ~Mounted(p, read).saving
BY DEF Mounted, NoEditor, NoRead, NoVersion, None, EditorType, ReadType, VersionType

\* There is no editor at the start and after a close.
LEMMA NoEditorIs == NoEditor \in EditorType /\ ~NoEditor.open
BY DEF NoEditor, NoRead, NoVersion, None, EditorType, ReadType, VersionType

\* A file is opened from the explorer.
LEMMA AsksKeeps ==
    ASSUME FilesInv, NEW p \in Paths, AsksToRead(p)
    PROVE  Keeps
<1>. DEFINE d == ReadCall(FreshId, p)
<1>1. FsOK /\ CallsOK /\ UNCHANGED fsVars /\ calls' = calls \union {d} /\ FreshId \in Nat
  BY FreshIdIsNew DEF FilesInv, AsksToRead
<1>2. d \in ReadCalls /\ d.id = FreshId /\ d.step = "called"
  BY <1>1 DEF ReadCall, ReadCalls, Results, NoRead, NoVersion, None, ReadType, VersionType
<1>3. ReadOK(d)
  BY <1>2 DEF ReadOK
<1>. QED BY <1>1, <1>2, <1>3, QuietAdd DEF Fine

\* The editor is mounted with what was read.
LEMMA EditorOpensKeeps ==
    ASSUME FilesInv, NEW c \in calls, EditorOpens(c)
    PROVE  Keeps /\ EditorOK'
<1>1. FsOK /\ CallsOK /\ UNCHANGED fsVars /\ Ends(c) /\ ed' = Mounted(c.path, c.read)
  BY DEF FilesInv, EditorOpens
<1>2. ReadOK(c)
  BY <1>1, KindTells DEF CallsOK, EditorOpens
<1>3. /\ c.path \in Paths /\ c.read \in ReadType
      /\ Known(c.read.version, c.read.content) /\ c.read.content <= clock
  BY <1>2 DEF ReadOK, ReadCalls, EditorOpens
<1>4. EditorOK'
  BY <1>1, <1>3, MountedIs, EditorBecomes
<1>. QED BY <1>1, <1>4, QuietEnd

\* Somebody types.
LEMMA TypesKeeps ==
    ASSUME FilesInv, Types
    PROVE  Keeps /\ EditorOK'
<1>1. /\ FsOK /\ CallsOK /\ EditorOK /\ clock \in Nat /\ clock' = clock + 1
      /\ entry' = entry /\ node' = node /\ stored' = stored /\ gone' = gone /\ raced' = raced
      /\ undone' = undone /\ calls' = calls /\ ed.open
      /\ ed' = [ed EXCEPT !.draft = clock', !.conflict = FALSE, !.error = FALSE]
  BY DEF FilesInv, FsOK, Types, serviceVars
<1>2. \A q : ContentAt(q)' = ContentAt(q)
  BY <1>1 DEF ContentAt
<1>3. FsOK'
  <2>1. ASSUME NEW i \in DOMAIN node PROVE node[i].stamp <= clock' /\ node[i].data <= clock'
    <3>1. node[i] \in NodeType /\ node[i].stamp <= clock /\ node[i].data <= clock
      BY <1>1 DEF FsOK
    <3>. QED BY <1>1, <3>1 DEF NodeType
  <2>2. stored' \subseteq 0..clock'
    BY <1>1 DEF FsOK
  <2>. QED BY <1>1, <1>2, <2>1, <2>2 DEF FsOK
<1>4. Grows /\ Plainly
  BY <1>1 DEF Grows, Plainly
<1>5. \A e : Meets(e)
  BY <1>1, <1>2 DEF Meets
<1>6. Keeps
  BY <1>1, <1>3, <1>4, <1>5, StepLeaves
<1>7. EditorOK'
  <2>1. /\ ed \in EditorType /\ ed.path \in Paths /\ ed.opened \in ReadType /\ ed.read \in ReadType
        /\ Known(ed.opened.version, ed.opened.content) /\ Known(ed.read.version, ed.read.content)
        /\ ed.opened.content <= clock
    BY <1>1 DEF EditorOK, EditorType
  <2>0. /\ ed' \in EditorType /\ ed'.path = ed.path /\ ed'.draft = clock'
        /\ ed'.opened = ed.opened /\ ed'.read = ed.read
    <3>1. PICK x \in Nat : x = clock'
      BY <1>1
    <3>2. ed' = [ed EXCEPT !.draft = x, !.conflict = FALSE, !.error = FALSE]
      BY <1>1, <3>1
    <3>. QED BY <2>1, <3>1, <3>2 DEF EditorType
  <2>2. Known(ed.opened.version, ed.opened.content)' /\ Known(ed.read.version, ed.read.content)'
    <3>1. Known(ed.opened.version, ed.opened.content)
      BY <2>1
    <3>2. ASSUME NEW r \in ReadType, Known(r.version, r.content)
          PROVE  /\ r.version[1] \in DOMAIN node' /\ r.version[2] <= clock'
                 /\ IsFile(r.version[1])' /\ node'[r.version[1]].stamp = r.version[2] =>
                       node'[r.version[1]].data \in {r.content} \union raced'
      BY <1>1, <1>3, <1>4, <3>2, KnownStays DEF ReadType, Known
    <3>3. ed'.opened = ed.opened /\ ed'.read = ed.read
      BY <2>0
    <3>. QED BY <2>1, <3>2, <3>3 DEF Known
  <2>4. clock' <= clock' /\ ed.opened.content <= clock'
    BY <1>1, <2>1 DEF ReadType
  <2>. QED BY <2>0, <2>1, <2>2, <2>4 DEF EditorOK
<1>. QED BY <1>6, <1>7

\* The editor asks for a save of its draft under the version it holds.
LEMMA SavesKeeps ==
    ASSUME FilesInv, Saves
    PROVE  Keeps /\ EditorOK'
<1>. DEFINE d == WriteCall(FreshId, ed.path, ed.read, ed.draft)
<1>1. /\ FsOK /\ CallsOK /\ EditorOK /\ UNCHANGED fsVars /\ calls' = calls \union {d} /\ ed.open
      /\ ed' = [ed EXCEPT !.saving = TRUE, !.error = FALSE] /\ FreshId \in Nat
  BY FreshIdIsNew DEF FilesInv, Saves, Unsaved
<1>2. /\ ed \in EditorType /\ ed.path \in Paths /\ ed.opened \in ReadType /\ ed.read \in ReadType
      /\ ed.draft \in Nat /\ ed.draft <= clock /\ ed.opened.content <= clock
      /\ Known(ed.opened.version, ed.opened.content) /\ Known(ed.read.version, ed.read.content)
  BY <1>1 DEF EditorOK, EditorType
<1>3. /\ d.id = FreshId /\ d.step = "called" /\ d.expected = ed.read.version
      /\ d.base = ed.read.content /\ d.text = ed.draft
  BY DEF WriteCall
<1>4. d \in WriteCalls
  <2>1. NoRead \in ReadType
    BY DEF NoRead, NoVersion, None, ReadType, VersionType
  <2>2. ed.read.version \in VersionType /\ ed.read.content \in Nat
    BY <1>2 DEF ReadType
  <2>. QED BY <1>1, <1>2, <2>1, <2>2 DEF WriteCall, WriteCalls, Results
<1>5. WriteOK(d)
  BY <1>2, <1>3, <1>4 DEF WriteOK
<1>6. Keeps
  BY <1>1, <1>3, <1>5, QuietAdd DEF Fine
<1>7. /\ ed' \in EditorType /\ ed'.path = ed.path /\ ed'.draft = ed.draft
      /\ ed'.opened = ed.opened /\ ed'.read = ed.read
  BY <1>1, <1>2 DEF EditorType
<1>8. EditorOK'
  BY <1>1, <1>2, <1>7, EditorBecomes
<1>. QED BY <1>6, <1>8

\* What the answer of a save makes of the editor.
LEMMA SavedIs ==
    ASSUME EditorOK, NEW c, c.result \in {"ok", "conflict", "error"},
           c.result = "ok" => c.read \in ReadType /\ Known(c.read.version, c.read.content)
    PROVE  /\ Saved(ed, c) \in EditorType
           /\ Saved(ed, c).open = ed.open /\ Saved(ed, c).path = ed.path /\ Saved(ed, c).draft = ed.draft
           /\ Saved(ed, c).opened = ed.opened
           /\ Saved(ed, c).read = IF c.result = "ok" THEN c.read ELSE ed.read
<1>1. ed \in EditorType
  BY DEF EditorOK
<1>2. CASE c.result = "ok"
  <2>1. Saved(ed, c) = [[ed EXCEPT !.read = c.read] EXCEPT !.saving = FALSE]
    BY <1>2 DEF Saved
  <2>. QED BY <1>1, <1>2, <2>1 DEF EditorType
<1>3. CASE c.result = "conflict"
  <2>1. Saved(ed, c) = [[ed EXCEPT !.conflict = TRUE] EXCEPT !.saving = FALSE]
    BY <1>3 DEF Saved
  <2>. QED BY <1>1, <1>3, <2>1 DEF EditorType
<1>4. CASE c.result = "error"
  <2>1. Saved(ed, c) = [[ed EXCEPT !.error = TRUE] EXCEPT !.saving = FALSE]
    BY <1>4 DEF Saved
  <2>. QED BY <1>1, <1>4, <2>1 DEF EditorType
<1>. QED BY <1>2, <1>3, <1>4

\* What the steps of an editor start from.
LEMMA EditorFacts ==
    ASSUME EditorOK
    PROVE  /\ ed \in EditorType
           /\ ed.open => /\ ed.path \in Paths /\ ed.draft <= clock /\ ed.opened.content <= clock
                         /\ Known(ed.opened.version, ed.opened.content)
                         /\ Known(ed.read.version, ed.read.content)
BY DEF EditorOK

\* The answer of a save: the version it brings, a conflict, or an error.
LEMMA SaveReturnsKeeps ==
    ASSUME FilesInv, NEW c \in calls, SaveReturns(c)
    PROVE  Keeps /\ EditorOK'
<1>1. /\ FsOK /\ CallsOK /\ EditorOK /\ UNCHANGED fsVars /\ Ends(c)
      /\ c.kind = "write" /\ c.step = "answered"
      /\ ed' = ed \/ ed' = Saved(ed, c)
  BY DEF FilesInv, SaveReturns
<1>2. WriteOK(c)
  BY <1>1, KindTells DEF CallsOK
<1>3. /\ c.read \in ReadType /\ c.result \in {"ok", "conflict", "error"}
      /\ c.result = "ok" => Known(c.read.version, c.read.content)
  BY <1>1, <1>2 DEF WriteOK, WriteCalls, Results
<1>4. CASE ed' = ed
  <2>1. ed' \in EditorType
    BY <1>1, <1>4, EditorFacts
  <2>2. ed'.open => /\ ed'.path \in Paths /\ ed'.draft <= clock /\ ed'.opened.content <= clock
                       /\ Known(ed'.opened.version, ed'.opened.content)
                       /\ Known(ed'.read.version, ed'.read.content)
    BY <1>1, <1>4, EditorFacts
  <2>. QED BY <1>1, <2>1, <2>2, EditorBecomes, QuietEnd
<1>5. CASE ed' = Saved(ed, c)
  <2>1. /\ ed' \in EditorType /\ ed'.open = ed.open /\ ed'.path = ed.path /\ ed'.draft = ed.draft
        /\ ed'.opened = ed.opened /\ ed'.read = IF c.result = "ok" THEN c.read ELSE ed.read
    BY <1>1, <1>3, <1>5, SavedIs
  <2>2. ed'.open => /\ ed'.path \in Paths /\ ed'.draft <= clock /\ ed'.opened.content <= clock
                       /\ Known(ed'.opened.version, ed'.opened.content)
                       /\ Known(ed'.read.version, ed'.read.content)
    BY <1>1, <1>3, <2>1, EditorFacts
  <2>. QED BY <1>1, <2>1, <2>2, EditorBecomes, QuietEnd
<1>. QED BY <1>1, <1>4, <1>5, QuietEnd

\* That nobody waits for its answer is all the same to a request.
LEMMA UnawaitedIs ==
    ASSUME NEW c, Fine(c)
    PROVE  Fine(Unawaited(c)) /\ Unawaited(c).id = c.id
<1>1. CASE c.kind # "write"
  BY <1>1 DEF Unawaited
<1>2. CASE c.kind = "write"
  <2>. DEFINE d == [c EXCEPT !.awaited = FALSE]
  <2>1. WriteOK(c) /\ c \in WriteCalls
    BY <1>2, KindTells DEF WriteOK
  <2>2. /\ d \in WriteCalls /\ d.id = c.id /\ d.path = c.path /\ d.step = c.step /\ d.text = c.text
        /\ d.expected = c.expected /\ d.base = c.base /\ d.result = c.result /\ d.read = c.read
    BY <2>1 DEF WriteCalls
  <2>3. WriteOK(d)
    BY <2>1, <2>2 DEF WriteOK
  <2>. QED BY <1>2, <2>2, <2>3 DEF Unawaited, Fine
<1>. QED BY <1>1, <1>2

\* The answer of a save is lost.
LEMMA SaveIsLostKeeps ==
    ASSUME FilesInv, NEW c \in calls, SaveIsLost(c)
    PROVE  Keeps /\ EditorOK'
<1>. DEFINE e == [c EXCEPT !.result = "error"]
<1>1. /\ FsOK /\ CallsOK /\ EditorOK /\ UNCHANGED fsVars /\ Advances(c, Unawaited(c))
      /\ c.kind = "write" /\ ed' = Saved(ed, e) /\ Fine(c)
  BY DEF FilesInv, SaveIsLost, CallsOK
<1>2. e.result = "error"
  BY <1>1, KindTells DEF WriteOK, WriteCalls
<1>3. /\ ed' \in EditorType /\ ed'.open = ed.open /\ ed'.path = ed.path /\ ed'.draft = ed.draft
      /\ ed'.opened = ed.opened /\ ed'.read = ed.read
  <2>1. e.result \in {"ok", "conflict", "error"} /\ ~(e.result = "ok")
    BY <1>2
  <2>2. /\ Saved(ed, e) \in EditorType /\ Saved(ed, e).open = ed.open /\ Saved(ed, e).path = ed.path
        /\ Saved(ed, e).draft = ed.draft /\ Saved(ed, e).opened = ed.opened
        /\ Saved(ed, e).read = IF e.result = "ok" THEN e.read ELSE ed.read
    <3>. HIDE DEF e
    <3>. QED BY <1>1, <2>1, SavedIs
  <2>. QED BY <1>1, <2>1, <2>2
<1>4. EditorOK'
  BY <1>1, <1>3, EditorFacts, EditorBecomes
<1>. QED BY <1>1, <1>4, UnawaitedIs, QuietAdvance

\* The editor no longer waits for its requests.
LEMMA UnawaitsKeeps ==
    ASSUME FilesInv, UNCHANGED fsVars, calls' = {Unawaited(c) : c \in calls}
    PROVE  Keeps
<1>1. FsOK /\ CallsOK /\ FsOK' /\ Grows /\ Plainly /\ \A c : Fine(c) => Fine(c)'
  BY Quiet DEF FilesInv
<1>2. IsFiniteSet(calls')
  <2>. DEFINE f == [c \in calls |-> Unawaited(c)]
  <2>1. f \in Surjection(calls, calls')
    BY DEF Surjection
  <2>. QED BY <1>1, <2>1, FS_Surjection DEF CallsOK
<1>3. \A c \in calls : Fine(Unawaited(c)) /\ Unawaited(c).id = c.id
  BY <1>1, UnawaitedIs DEF CallsOK
<1>4. \A c \in calls' : Fine(c)'
  BY <1>1, <1>3
<1>5. \A c, e \in calls' : c.id = e.id => c = e
  BY <1>1, <1>3 DEF CallsOK
<1>. QED BY <1>1, <1>2, <1>4, <1>5 DEF CallsOK, Keeps

\* The editor is mounted anew, or closed.
LEMMA MountsKeeps ==
    ASSUME FilesInv, EditorRemounts \/ EditorCloses
    PROVE  Keeps /\ EditorOK'
<1>1. FsOK /\ EditorOK /\ UNCHANGED fsVars /\ calls' = {Unawaited(c) : c \in calls} /\ ed.open
  BY DEF FilesInv, EditorRemounts, EditorCloses
<1>2. CASE EditorRemounts
  <2>1. /\ ed.path \in Paths /\ ed.opened \in ReadType /\ ed.opened.content <= clock
        /\ Known(ed.opened.version, ed.opened.content)
    BY <1>1 DEF EditorOK, EditorType
  <2>2. ed' = Mounted(ed.path, ed.opened)
    BY <1>2 DEF EditorRemounts
  <2>. QED BY <1>1, <2>1, <2>2, MountedIs, EditorBecomes, UnawaitsKeeps
<1>3. CASE EditorCloses
  BY <1>1, <1>3, NoEditorIs, EditorBecomes, UnawaitsKeeps DEF EditorCloses
<1>. QED BY <1>2, <1>3

-----------------------------------------------------------------------------
(* The shell, and the server's restart.                                     *)

\* A node that has the name p changes, which the requests in a gap find noted.
LEMMA ChangesMeets ==
    ASSUME FsOK, NEW p \in Paths, entry[p] # None, entry' = entry, NEW d,
           \A q \in Paths : entry[q] # entry[p] => ContentAt(q)' = ContentAt(q),
           ContentAt(p)' = {d}, NEW missed, raced' = raced \union IF missed THEN {d} ELSE {},
           Missed(calls, p, "in place") => missed
    PROVE  \A c \in calls : Meets(c)
<1>1. ASSUME NEW c \in calls, NEW q \in Paths
      PROVE  \/ ContentAt(q)' \subseteq raced'
             \/ entry'[q] = entry[q] /\ ContentAt(q)' = ContentAt(q)
             \/ entry'[q] = entry[q] /\ ~Misses(c, q, "in place")
  <2>1. CASE q # p
    BY <2>1 DEF FsOK
  <2>2. CASE q = p
    BY <2>2 DEF Missed
  <2>. QED BY <2>1, <2>2
<1>. QED BY <1>1 DEF Meets

\* The shell writes into a file, or into a directory that is there.
LEMMA ShellWritesKeeps ==
    ASSUME FilesInv, NEW p \in Paths, ShellWrites(p)
    PROVE  Keeps
<1>0. PICK i, missed : i = entry[p] /\ missed = Missed(calls, p, "in place")
  OBVIOUS
<1>1. FsOK /\ CallsOK /\ clock \in Nat /\ entry[p] # None /\ node[i].kind = "file"
  BY <1>0 DEF FilesInv, FsOK, ShellWrites, KindAt
<1>2. i \in DOMAIN node /\ node[i] \in NodeType
  BY <1>0, <1>1, Bound
<1>3. PICK n \in NodeType : /\ n = [node[i] EXCEPT !.stamp = clock + 1, !.data = clock + 1]
                            /\ n.kind = node[i].kind /\ n.stamp = clock + 1 /\ n.data = clock + 1
  <2>1. PICK m \in NodeType, s \in Nat : m = node[i] /\ s = clock + 1
    BY <1>1, <1>2
  <2>2. /\ [m EXCEPT !.stamp = s, !.data = s] \in NodeType
        /\ [m EXCEPT !.stamp = s, !.data = s].kind = m.kind
        /\ [m EXCEPT !.stamp = s, !.data = s].stamp = s
        /\ [m EXCEPT !.stamp = s, !.data = s].data = s
    BY DEF NodeType
  <2>. QED BY <2>1, <2>2, Zenon
<1>4. /\ node' = [node EXCEPT ![i] = n] /\ clock' = clock + 1 /\ entry' = entry /\ undone' = undone
      /\ raced' = raced \union (IF missed THEN {clock + 1} ELSE {})
      /\ stored' = stored \union {clock + 1} /\ calls' = calls
  <2>1. node' = [node EXCEPT ![i].stamp = clock + 1, ![i].data = clock + 1]
    BY <1>0 DEF ShellWrites, Writes
  <2>2. node' = [node EXCEPT ![i] = n]
    BY <1>2, <1>3, <2>1
  <2>. QED BY <1>0, <2>2 DEF ShellWrites, Writes, Raced, serviceVars
<1>5. stored' \subseteq 0..clock'
  BY <1>1, <1>4 DEF FsOK
<1>6. /\ FsOK' /\ Grows
      /\ \A q \in Paths : entry[q] # i => ContentAt(q)' = ContentAt(q)
      /\ \A q \in Paths : entry[q] = i => ContentAt(q)' = {n.data}
  <2>1. n.stamp <= clock' /\ n.data <= clock' /\ n.stamp = clock' /\ n.data \in stored'
    BY <1>1, <1>3, <1>4
  <2>2. raced \subseteq raced' /\ stored \subseteq stored'
    BY <1>4
  <2>. QED BY <1>1, <1>2, <1>3, <1>4, <1>5, <2>1, <2>2, ChangesStep
<1>7. Plainly
  BY <1>1, <1>2, <1>3, <1>4 DEF Plainly, FsOK
<1>8. \A e \in calls : Meets(e)
  BY <1>0, <1>1, <1>3, <1>4, <1>6, ChangesMeets
<1>. QED BY <1>1, <1>4, <1>6, <1>7, <1>8, StepLeaves

\* The shell puts a file under a name, or removes a name.
LEMMA ShellNamesKeeps ==
    ASSUME FilesInv, NEW p \in Paths, ShellPuts(p) \/ ShellRemoves(p)
    PROVE  Keeps
<1>1. FsOK /\ CallsOK /\ calls' = calls /\ clock + 1 \in 0..clock + 1
  BY DEF FilesInv, FsOK, ShellPuts, ShellRemoves, serviceVars
<1>2. CASE ShellPuts(p)
  <2>1. Binds(p, "file", clock + 1, ContentAt(p), Missed(calls, p, "anew"))
    BY <1>2 DEF ShellPuts
  <2>2. FsOK' /\ Grows /\ Plainly /\ \A e \in calls : Meets(e)
    BY <1>1, <2>1, BindsKeeps
  <2>. QED BY <1>1, <2>2, StepLeaves
<1>3. CASE ShellRemoves(p)
  <2>1. FsOK' /\ Grows /\ Plainly /\ \A e : Meets(e)
    BY <1>1, <1>3, UnbindsKeeps DEF ShellRemoves
  <2>. QED BY <1>1, <2>1, StepLeaves
<1>. QED BY <1>2, <1>3

\* What is done inside a directory may leave its version as it was: then the
\* preview that has this version finds it noted.
LEMMA ShellInsideKeeps ==
    ASSUME FilesInv, NEW p \in Paths, NEW made \in BOOLEAN, ShellWorksInside(p, made)
    PROVE  FsOK' /\ Grows /\ CallsOK' /\ PreviewOK'
<1>0. PICK i, missed :
         i = entry[p] /\ missed = (Missed(calls, p, "in place") \/ (~made /\ previewed.version[1] = i))
  OBVIOUS
<1>1. FsOK /\ CallsOK /\ PreviewOK /\ clock \in Nat /\ entry[p] # None /\ node[i].kind = "directory"
  BY <1>0 DEF FilesInv, FsOK, ShellWorksInside, KindAt
<1>2. i \in DOMAIN node /\ node[i] \in NodeType /\ node[i].stamp <= clock
  <2>1. i \in DOMAIN node
    BY <1>0, <1>1, Bound
  <2>. QED BY <1>1, <2>1 DEF FsOK
<1>3. PICK n \in NodeType :
        /\ node' = [node EXCEPT ![i] = n] /\ n.kind = "directory" /\ n.data = clock + 1
        /\ n.stamp = IF made THEN clock + 1 ELSE node[i].stamp
  <2>0. clock' = clock + 1
    BY DEF ShellWorksInside
  <2>1. PICK m \in NodeType, s \in Nat : m = node[i] /\ s = clock' /\ s = clock + 1
    BY <1>1, <1>2, <2>0
  <2>2. node' = [node EXCEPT ![i].data = s, ![i].stamp = IF made THEN s ELSE @,
                             ![i].count = IF made THEN @ + 1 ELSE @]
    BY <1>0, <2>1 DEF ShellWorksInside
  <2>3. PICK n : n = [m EXCEPT !.data = s, !.stamp = IF made THEN s ELSE @,
                               !.count = IF made THEN @ + 1 ELSE @]
    OBVIOUS
  <2>4. node' = [node EXCEPT ![i] = n]
    <3>1. n = [node[i] EXCEPT !.data = s, !.stamp = IF made THEN s ELSE @,
                              !.count = IF made THEN @ + 1 ELSE @]
      BY <2>1, <2>3
    <3>. QED BY <1>2, <2>2, <3>1
  <2>5. n \in NodeType /\ n.kind = m.kind /\ n.data = s /\ n.stamp = IF made THEN s ELSE m.stamp
    <3>1. PICK k \in Nat, t \in Nat : /\ k = IF made THEN m.count + 1 ELSE m.count
                                     /\ t = IF made THEN s ELSE m.stamp
      BY DEF NodeType
    <3>2. n = [m EXCEPT !.data = s, !.stamp = t, !.count = k]
      BY <2>3, <3>1
    <3>. QED BY <3>1, <3>2 DEF NodeType
  <2>. QED BY <1>1, <2>1, <2>4, <2>5
<1>4. /\ node' = [node EXCEPT ![i] = n] /\ clock' = clock + 1 /\ entry' = entry /\ undone' = undone
      /\ raced' = raced \union (IF missed THEN {clock + 1} ELSE {})
      /\ stored' = stored \union {clock + 1} /\ calls' = calls /\ previewed' = previewed
  <2>1. clock' = clock + 1
    BY DEF ShellWorksInside
  <2>2. /\ entry' = entry /\ undone' = undone /\ calls' = calls /\ previewed' = previewed
        /\ stored' = stored \union {clock + 1}
    BY <2>1 DEF ShellWorksInside, serviceVars
  <2>3. raced' = raced \union (IF missed THEN {clock + 1} ELSE {})
    BY <1>0, <2>1 DEF ShellWorksInside, Raced
  <2>. QED BY <1>3, <2>1, <2>2, <2>3
<1>5. stored' \subseteq 0..clock'
  BY <1>1, <1>4 DEF FsOK
<1>6. /\ FsOK' /\ Grows
      /\ \A q \in Paths : entry[q] # i => ContentAt(q)' = ContentAt(q)
      /\ \A q \in Paths : entry[q] = i => ContentAt(q)' = {n.data}
  <2>1. n.stamp <= clock' /\ n.data <= clock' /\ n.data \in stored'
    BY <1>1, <1>2, <1>3, <1>4 DEF NodeType
  <2>2. raced \subseteq raced' /\ stored \subseteq stored'
    BY <1>4
  <2>. QED BY <1>1, <1>2, <1>3, <1>4, <1>5, <2>1, <2>2, ChangesStep
<1>7. \A e \in calls : Meets(e)
  <2>1. Missed(calls, p, "in place") => missed
    BY <1>0
  <2>. QED BY <1>0, <1>1, <1>3, <1>4, <1>6, <2>1, ChangesMeets
<1>8. CallsOK'
  <2>1. \A e \in calls : Fine(e)'
    BY <1>1, <1>6, <1>7, FineStays DEF CallsOK
  <2>. QED BY <1>1, <1>4, <2>1 DEF CallsOK
<1>9. PreviewOK'
  <2>1. CASE previewed = NoPreview
    BY <1>4, <2>1 DEF PreviewOK
  <2>2. CASE previewed # NoPreview
    <3>. DEFINE j == previewed.version[1]
    <3>1. /\ previewed \in TokenType /\ previewed.path \in Paths /\ previewed.version \in VersionType
          /\ j \in DOMAIN node /\ previewed.version[2] <= clock
          /\ node[j].stamp = previewed.version[2] => node[j].data \in {previewed.data} \union raced
      BY <1>1, <2>2 DEF PreviewOK, TokenType
    <3>2. j \in DOMAIN node' /\ previewed.version[2] <= clock'
      <4>1. previewed.version[2] \in Nat
        BY <3>1 DEF VersionType
      <4>. QED BY <1>1, <1>4, <1>6, <3>1, <4>1 DEF Grows
    <3>3. node'[j].stamp = previewed.version[2] => node'[j].data \in {previewed.data} \union raced'
      <4>1. CASE j # i
        BY <1>1, <1>2, <1>4, <3>1, <4>1 DEF FsOK
      <4>2. CASE j = i /\ made
        <5>1. node'[j].stamp = clock + 1
          BY <1>1, <1>2, <1>3, <1>4, <4>2 DEF FsOK
        <5>. QED BY <1>1, <3>1, <5>1 DEF VersionType
      <4>3. CASE j = i /\ ~made
        <5>1. node'[j].data = clock + 1 /\ clock + 1 \in raced'
          BY <1>0, <1>1, <1>2, <1>3, <1>4, <4>3 DEF FsOK
        <5>. QED BY <5>1
      <4>. QED BY <4>1, <4>2, <4>3
    <3>. QED BY <1>4, <3>1, <3>2, <3>3 DEF PreviewOK
  <2>. QED BY <2>1, <2>2
<1>. QED BY <1>6, <1>8, <1>9

\* The server is restarted: all requests are gone, and what they hold stays on
\* disk.
LEMMA RestartKeeps ==
    ASSUME FilesInv, ServerRestarts
    PROVE  Keeps /\ EditorOK'
<1>1. FsOK /\ EditorOK /\ UNCHANGED fsVars /\ calls' = {}
  BY DEF FilesInv, ServerRestarts
<1>2. FsOK' /\ Grows /\ Plainly
  BY <1>1, Quiet
<1>3. CallsOK'
  BY <1>1, FS_EmptySet DEF CallsOK
<1>4. /\ ed' \in EditorType /\ ed'.open = ed.open /\ ed'.path = ed.path /\ ed'.draft = ed.draft
      /\ ed'.opened = ed.opened /\ ed'.read = ed.read
  <2>1. ed' = ed \/ ed' = [ed EXCEPT !.saving = FALSE, !.error = TRUE]
    BY DEF ServerRestarts
  <2>. QED BY <1>1, <2>1, EditorFacts DEF EditorType
<1>5. EditorOK'
  BY <1>1, <1>4, EditorFacts, EditorBecomes
<1>. QED BY <1>2, <1>3, <1>5 DEF Keeps

-----------------------------------------------------------------------------
(* All steps together.                                                      *)

LEMMA PreviewsKeeps ==
    ASSUME FilesInv, NEW p \in Paths, Previews(p)
    PROVE  Keeps /\ PreviewOK'
<1>1. /\ FsOK /\ CallsOK /\ UNCHANGED fsVars /\ calls' = calls /\ entry[p] # None
      /\ previewed' = Target(p)
  BY DEF FilesInv, Previews
<1>2. FsOK' /\ Grows /\ Plainly /\ \A c : Fine(c) => Fine(c)'
  BY <1>1, Quiet
<1>3. CallsOK'
  BY <1>1, <1>2 DEF CallsOK
<1>4. /\ entry[p] \in DOMAIN node /\ node[entry[p]] \in NodeType /\ KindAt(p) = node[entry[p]].kind
      /\ VersionAt(p) = <<entry[p], node[entry[p]].stamp>> /\ VersionAt(p) \in VersionType
      /\ node[entry[p]].stamp <= clock
  BY <1>1, Bound DEF Known
<1>5. Target(p) \in TokenType
  <2>1. KindAt(p) \in {"none", "file", "directory"} /\ node[entry[p]].data \in Nat /\ node[entry[p]].count \in Nat
    BY <1>4 DEF NodeType
  <2>. QED BY <1>4, <2>1 DEF Target, TokenType
<1>6. /\ Target(p).path = p /\ Target(p).version = VersionAt(p)
      /\ Target(p).data = node[entry[p]].data
  BY DEF Target
<1>7. PreviewOK'
  BY <1>1, <1>4, <1>5, <1>6 DEF PreviewOK, fsVars
<1>. QED BY <1>2, <1>3, <1>7 DEF Keeps

\* All steps of the explorer service.
LEMMA ServiceKeeps ==
    ASSUME FilesInv, ServiceStep
    PROVE  Keeps /\ previewed' = previewed
<1>1. PICK c \in calls :
        \/ ReadOpens(c) \/ ReadAnswers(c)
        \/ WriteOpens(c) \/ WriteChecks(c) \/ WriteRenames(c) \/ WriteAnswers(c)
        \/ MoveCopies(c) \/ MoveChecks(c) \/ MoveUnlinks(c) \/ MoveRenames(c)
        \/ DeleteRemoves(c)
  BY DEF ServiceStep
<1>2. Keeps
  BY <1>1, ReadKeeps, WriteKeeps, WriteRenamesKeeps, MoveCopiesKeeps, MoveEndsKeeps, MoveRenamesKeeps,
     DeleteRemovesKeeps
<1>3. previewed' = previewed
  BY <1>1 DEF ReadOpens, ReadAnswers, WriteOpens, WriteChecks, WriteRenames, WriteAnswers, MoveCopies,
     MoveChecks, MoveUnlinks, MoveRenames, DeleteRemoves
<1>. QED BY <1>2, <1>3

\* All steps of an upload.
LEMMA UploadKeeps ==
    ASSUME FilesInv, UploadStep
    PROVE  Keeps /\ previewed' = previewed
<1>1. PICK c \in calls :
        UploadCreates(c) \/ UploadCompletes(c) \/ UploadFileFails(c) \/ UploadAborts(c) \/ UploadFinishes(c)
  BY DEF UploadStep
<1>2. Keeps
  BY <1>1, UploadCreatesKeeps, UploadCompletesKeeps, UploadFailsKeeps, UploadFinishesKeeps
<1>3. previewed' = previewed
  BY <1>1 DEF UploadCreates, UploadCompletes, UploadFileFails, UploadAborts, UploadFinishes
<1>. QED BY <1>2, <1>3

\* All steps of the editor and of the person in front of it.
LEMMA EditorKeeps ==
    ASSUME FilesInv, EditorStep \/ Person \/ \E c \in calls : SaveIsLost(c)
    PROVE  Keeps /\ EditorOK' /\ previewed' = previewed
<1>1. Keeps /\ EditorOK'
  BY SavesKeeps, EditorOpensKeeps, SaveReturnsKeeps, TypesKeeps, MountsKeeps, SaveIsLostKeeps
     DEF EditorStep, Person
<1>2. previewed' = previewed
  BY DEF EditorStep, Person, Saves, EditorOpens, SaveReturns, Types, EditorRemounts, EditorCloses,
     SaveIsLost, serviceVars
<1>. QED BY <1>1, <1>2

\* All requests that come in.
LEMMA RequestsKeep ==
    ASSUME FilesInv, Requests
    PROVE  Keeps /\ PreviewOK' /\ ed' = ed
<1>1. CASE \E p \in Paths : AsksToRead(p) \/ ((\E q \in Paths : MoveStarts(FreshId, p, q)) /\ UNCHANGED ed)
  <2>1. Keeps
    BY <1>1, AsksKeeps, MoveStartsKeeps
  <2>2. previewed' = previewed /\ ed' = ed
    BY <1>1 DEF AsksToRead, MoveStarts
  <2>. QED BY <2>1, <2>2, PreviewStays DEF Keeps, FilesInv
<1>2. CASE DeleteInspects(FreshId) /\ ed' = ed
  <2>1. Keeps /\ previewed' = previewed
    BY <1>2, DeleteInspectsKeeps DEF DeleteInspects
  <2>. QED BY <1>2, <2>1, PreviewStays DEF Keeps, FilesInv
<1>3. CASE UploadStarts(FreshId) /\ ed' = ed
  <2>1. Keeps /\ previewed' = previewed
    BY <1>3, UploadStartsKeeps DEF UploadStarts
  <2>. QED BY <1>3, <2>1, PreviewStays DEF Keeps, FilesInv
<1>. QED BY <1>1, <1>2, <1>3 DEF Requests

\* All that happens without being asked for by an editor or a request under
\* way.
LEMMA OutsideKeeps ==
    ASSUME FilesInv, Immediate \/ Failures \/ Shell
    PROVE  FsOK' /\ Grows /\ CallsOK' /\ PreviewOK' /\ EditorOK'
<1>0. FsOK /\ CallsOK /\ PreviewOK /\ EditorOK
  BY DEF FilesInv
<1>1. ASSUME Keeps, previewed' = previewed, ed' = ed \/ EditorOK'
      PROVE  FsOK' /\ Grows /\ CallsOK' /\ PreviewOK' /\ EditorOK'
  BY <1>0, <1>1, PreviewStays, EditorStays DEF Keeps
<1>2. CASE Immediate
  <2>1. ASSUME NEW p \in Paths, NEW kind \in {"file", "directory"}, Creates(p, kind), UNCHANGED ed
        PROVE  FsOK' /\ Grows /\ CallsOK' /\ PreviewOK' /\ EditorOK'
    BY <1>1, <2>1, CreatesKeeps DEF Creates, serviceVars
  <2>2. ASSUME NEW p \in Paths, Previews(p), UNCHANGED ed
        PROVE  FsOK' /\ Grows /\ CallsOK' /\ PreviewOK' /\ EditorOK'
    BY <1>0, <2>2, PreviewsKeeps, EditorStays DEF Keeps
  <2>. QED BY <1>2, <2>1, <2>2 DEF Immediate
<1>3. CASE Failures
  <2>1. ASSUME NEW c \in calls, WriteFails(c) \/ UploadFileFails(c) \/ UploadAborts(c), UNCHANGED ed
        PROVE  FsOK' /\ Grows /\ CallsOK' /\ PreviewOK' /\ EditorOK'
    BY <1>1, <2>1, WriteKeeps, UploadFailsKeeps DEF WriteFails, UploadFileFails, UploadAborts
  <2>2. ASSUME NEW c \in calls, SaveIsLost(c)
        PROVE  FsOK' /\ Grows /\ CallsOK' /\ PreviewOK' /\ EditorOK'
    BY <1>1, <2>2, SaveIsLostKeeps DEF SaveIsLost
  <2>3. CASE ServerRestarts
    BY <1>1, <2>3, RestartKeeps DEF ServerRestarts
  <2>. QED BY <1>3, <2>1, <2>2, <2>3 DEF Failures
<1>4. CASE Shell
  <2>1. ASSUME NEW p \in Paths, ShellWrites(p) \/ ShellPuts(p) \/ ShellRemoves(p)
        PROVE  FsOK' /\ Grows /\ CallsOK' /\ PreviewOK' /\ EditorOK'
    <3>1. Keeps
      BY <2>1, ShellWritesKeeps, ShellNamesKeeps
    <3>2. previewed' = previewed /\ ed' = ed
      BY <2>1 DEF ShellWrites, ShellPuts, ShellRemoves, serviceVars
    <3>. QED BY <1>1, <3>1, <3>2
  <2>2. ASSUME NEW p \in Paths, NEW made \in BOOLEAN, ShellWorksInside(p, made)
        PROVE  FsOK' /\ Grows /\ CallsOK' /\ PreviewOK' /\ EditorOK'
    <3>1. ed' = ed
      BY <2>2 DEF ShellWorksInside
    <3>. QED BY <1>0, <2>2, <3>1, ShellInsideKeeps, EditorStays
  <2>3. CASE ChangesDirectory
    <3>1. FsOK' /\ Grows /\ Plainly /\ \A c : Fine(c) => Fine(c)'
      BY <1>0, <2>3, Quiet DEF ChangesDirectory
    <3>2. calls' = calls /\ previewed' = previewed /\ ed' = ed
      BY <2>3 DEF ChangesDirectory
    <3>3. CallsOK'
      BY <1>0, <3>1, <3>2 DEF CallsOK
    <3>. QED BY <1>1, <3>1, <3>2, <3>3 DEF Keeps
  <2>. QED BY <1>4, <2>1, <2>2, <2>3 DEF Shell
<1>. QED BY <1>2, <1>3, <1>4

\* The invariant is inductive.
LEMMA StepKeeps ==
    ASSUME FilesInv, Next
    PROVE  FilesInv' /\ Grows
<1>0. FsOK /\ CallsOK /\ PreviewOK /\ EditorOK
  BY DEF FilesInv
<1>1. CASE Requests
  BY <1>0, <1>1, RequestsKeep, EditorStays DEF Keeps, FilesInv
<1>2. CASE Immediate \/ Failures \/ Shell
  BY <1>2, OutsideKeeps DEF FilesInv
<1>3. CASE (ServiceStep \/ UploadStep) /\ UNCHANGED ed
  <2>1. Keeps /\ previewed' = previewed
    BY <1>3, ServiceKeeps, UploadKeeps
  <2>. QED BY <1>0, <1>3, <2>1, PreviewStays, EditorStays DEF Keeps, FilesInv
<1>4. CASE EditorStep \/ Person
  <2>1. Keeps /\ EditorOK' /\ previewed' = previewed
    BY <1>4, EditorKeeps
  <2>. QED BY <1>0, <2>1, PreviewStays DEF Keeps, FilesInv
<1>. QED BY <1>1, <1>2, <1>3, <1>4 DEF Next, Outside, Works, Uploads, Edits

\* And kept where nothing happens.
LEMMA StutterKeeps ==
    ASSUME FilesInv, UNCHANGED vars
    PROVE  FilesInv'
<1>0. FsOK /\ CallsOK /\ PreviewOK /\ EditorOK /\ UNCHANGED fsVars /\ calls' = calls
      /\ previewed' = previewed /\ ed' = ed
  BY DEF FilesInv, vars, serviceVars
<1>1. FsOK' /\ Grows /\ Plainly /\ \A c : Fine(c) => Fine(c)'
  BY <1>0, Quiet
<1>2. CallsOK'
  BY <1>0, <1>1 DEF CallsOK
<1>. QED BY <1>0, <1>1, <1>2, PreviewStays, EditorStays DEF FilesInv

\* It holds of the directory as it is found.
LEMMA InitKeeps == Init => FilesInv
<1>. SUFFICES ASSUME Init PROVE FilesInv
  OBVIOUS
<1>1. /\ node = [i \in DOMAIN Kinds |-> [kind |-> Kinds[i], stamp |-> i, data |-> i, count |-> 1]]
      /\ entry = [p \in Paths |-> IF p \in DOMAIN Kinds THEN p ELSE None]
      /\ clock = Len(Kinds) /\ stored = DOMAIN Kinds /\ raced = {} /\ undone = {}
      /\ calls = {} /\ previewed = NoPreview /\ ed = NoEditor
  BY DEF Init, FsInit
<1>2. /\ Kinds \in Seq({"file", "directory"}) /\ Len(Kinds) \in Nat /\ DOMAIN Kinds = 1..Len(Kinds)
      /\ DOMAIN Kinds \subseteq Paths
  BY FileWorkAssumption
<1>3. /\ node \in Seq(NodeType) /\ DOMAIN node = 1..Len(Kinds) /\ Len(node) = Len(Kinds)
      /\ \A i \in DOMAIN node : node[i].stamp = i /\ node[i].data = i
  <2>1. \A i \in 1..Len(Kinds) : [kind |-> Kinds[i], stamp |-> i, data |-> i, count |-> 1] \in NodeType
    BY <1>2 DEF NodeType
  <2>. QED BY <1>1, <1>2, <2>1
<1>4. \A p \in Paths : ContentAt(p) = IF p \in DOMAIN Kinds THEN {p} ELSE {}
  <2>1. ASSUME NEW p \in Paths PROVE ContentAt(p) = IF p \in DOMAIN Kinds THEN {p} ELSE {}
    <3>1. CASE p \in DOMAIN Kinds
      <4>1. p \in Nat /\ p # 0 /\ entry[p] = p
        BY <1>1, <1>2, <3>1
      <4>. QED BY <1>2, <1>3, <3>1, <4>1 DEF ContentAt, None
    <3>2. CASE p \notin DOMAIN Kinds
      BY <1>1, <3>2 DEF ContentAt
    <3>. QED BY <3>1, <3>2
  <2>. QED BY <2>1
<1>5. entry \in [Paths -> 0..Len(node)] /\ \A p, q \in Paths : entry[p] = entry[q] /\ entry[p] # None => p = q
  BY <1>1, <1>2, <1>3 DEF None
<1>6. FsOK
  BY <1>1, <1>2, <1>3, <1>4, <1>5 DEF FsOK
<1>7. CallsOK
  BY <1>1, FS_EmptySet DEF CallsOK
<1>8. EditorOK
  BY <1>1, NoEditorIs DEF EditorOK
<1>. QED BY <1>1, <1>6, <1>7, <1>8 DEF FilesInv, PreviewOK

\* What every request, the preview and the editor know of the files is so, or
\* was changed in a gap.
THEOREM FilesTypeCorrect == Spec => []FilesInv
<1>1. FilesInv /\ [Next]_vars => FilesInv'
  BY StepKeeps, StutterKeeps
<1>. QED BY <1>1, InitKeeps, PTL DEF Spec

\* An editor that has its file's version has its content (TextEditorPane.tsx).
THEOREM EditorIsRight == Spec => []EditorKnowsItsFile
<1>1. FilesInv => EditorKnowsItsFile
  <2>1. SUFFICES ASSUME FilesInv, ed.open, ed.read.version = VersionAt(ed.path), KindAt(ed.path) = "file"
                 PROVE  ContentAt(ed.path) \subseteq {ed.read.content} \union raced
    BY DEF EditorKnowsItsFile
  <2>2. FsOK /\ ed.path \in Paths /\ Known(ed.read.version, ed.read.content)
    BY <2>1, EditorFacts DEF FilesInv
  <2>3. entry[ed.path] # None
    BY <2>1 DEF KindAt
  <2>4. /\ VersionAt(ed.path) = <<entry[ed.path], node[entry[ed.path]].stamp>>
        /\ entry[ed.path] \in DOMAIN node /\ node[entry[ed.path]].kind = "file"
        /\ ContentAt(ed.path) = {node[entry[ed.path]].data}
    BY <2>1, <2>2, <2>3, Bound
  <2>. QED BY <2>1, <2>2, <2>4 DEF Known, IsFile
<1>. QED BY <1>1, FilesTypeCorrect, PTL

-----------------------------------------------------------------------------
(* What a step does to the names, and to the moves that hold a copy.        *)

Moving(c) == c.kind = "move" /\ c.step \in {"copied", "checked"}

\* No move makes a copy.
NoCopies == \A e \in calls' : Moving(e) => \E c \in calls : Moving(c) /\ c.id = e.id /\ c.data = e.data

\* Nothing is stored, and no name changes.
Still ==
    /\ UNCHANGED <<entry, stored, undone>> /\ gone \subseteq gone' /\ raced \subseteq raced'
    /\ \A p \in Paths : ContentAt(p)' = ContentAt(p)
    /\ NoCopies

\* A name is bound to new content, over content that is given up.
Stores ==
    /\ \E p \in Paths, kind \in {"file", "directory"}, d \in 0..clock + 1 : \E meant, missed :
          Binds(p, kind, d, meant, missed) /\ ContentAt(p) \subseteq meant \union raced
    /\ NoCopies

\* New content comes into the node of a name.
Alters ==
    /\ \E p \in Paths :
          /\ ContentAt(p) \subseteq gone' /\ entry[p] # None /\ ContentAt(p)' = {clock + 1}
          /\ \A q \in Paths \ {p} : ContentAt(q)' = ContentAt(q)
    /\ stored' = stored \union {clock + 1} /\ gone \subseteq gone' /\ raced \subseteq raced'
    /\ UNCHANGED <<entry, undone>> /\ NoCopies

\* Names are taken away whose content is given up, among them what mine says.
Removes ==
    /\ \E ps, meant, mine :
          /\ Unbinds(ps, meant, mine) /\ mine \subseteq Paths \X DOMAIN node
          /\ \A p \in Paths : p \in ps => ContentAt(p) \subseteq meant \union raced
          /\ \A u \in mine : u[1] \in ps \/ entry[u[1]] # u[2]
    /\ NoCopies

\* A move makes its copy.
Copies ==
    \E c \in calls, q \in Paths : \E d :
        /\ c.kind = "move" /\ entry[q] = None
        /\ \E p \in Paths : \E missed : ContentAt(p) = {d.data} /\ Binds(q, "file", d.data, {}, missed)
        /\ Advances(c, d) /\ d.id = c.id

\* A move ends, and takes a name away that has what it holds, or keeps it.
EndsWith(c, p, ps, mine) ==
    /\ Moving(c) /\ ps \subseteq {p} /\ Only(p, {c.data}) /\ Ends(c)
    /\ Unbinds(ps, {}, mine) /\ mine \subseteq Paths \X DOMAIN node
    /\ \A u \in mine : u[1] \in ps \/ entry[u[1]] # u[2]
MoveEnds == \E c \in calls, p \in Paths : \E ps, mine : EndsWith(c, p, ps, mine)

\* A directory is moved, over one whose content is given up.
Moves ==
    /\ \E p \in Paths, q \in Paths : \E missed :
          p # q /\ entry[p] # None /\ Renames(p, q, missed) /\ Only(q, {})
    /\ NoCopies

NamesStep == Still \/ Stores \/ Alters \/ Removes \/ Copies \/ MoveEnds \/ Moves

\* A request that ends makes no copy.
LEMMA EndsCopyNothing ==
    ASSUME NEW c, Ends(c)
    PROVE  NoCopies
BY DEF NoCopies, Ends

\* Nor does one that goes on and is no move, or is the move it was.
LEMMA AdvancesCopyNothing ==
    ASSUME NEW c \in calls, NEW d, Advances(c, d),
           Moving(d) => Moving(c) /\ c.id = d.id /\ c.data = d.data
    PROVE  NoCopies
BY DEF NoCopies, Advances

\* Nor does one that comes in.
LEMMA AddsCopyNothing ==
    ASSUME NEW d, calls' = calls \union {d}, ~Moving(d)
    PROVE  NoCopies
BY DEF NoCopies

\* Nor does a step without requests.
LEMMA LeavesCopyNothing ==
    ASSUME calls' = calls
    PROVE  NoCopies
BY DEF NoCopies

\* A step that changes no file.
LEMMA QuietIsStill ==
    ASSUME UNCHANGED fsVars, NoCopies
    PROVE  Still
BY DEF fsVars, Still, ContentAt

\* A request stays what it is, whatever else of it changes.
LEMMA ReadNames ==
    ASSUME FilesInv, NEW c \in calls, ReadOpens(c) \/ ReadAnswers(c)
    PROVE  Still
<1>1. c \in ReadCalls /\ UNCHANGED fsVars
  BY KindTells DEF FilesInv, CallsOK, ReadOpens, ReadAnswers, ReadOK
<1>2. NoCopies
  <2>1. CASE Ends(c)
    BY <2>1, EndsCopyNothing
  <2>2. ASSUME NEW d, Advances(c, d), d.kind = "read" PROVE NoCopies
    BY <2>2, AdvancesCopyNothing DEF Moving
  <2>3. CASE ReadOpens(c) /\ ~Ends(c)
    <3>. DEFINE d == [c EXCEPT !.step = "opened", !.version = VersionAt(c.path)]
    <3>1. Advances(c, d)
      BY <2>3 DEF ReadOpens
    <3>2. d.kind = "read"
      BY <1>1 DEF ReadCalls
    <3>. QED BY <2>2, <3>1, <3>2
  <2>4. CASE ReadAnswers(c)
    <3>. DEFINE r == [content |-> node[c.version[1]].data, version |-> VersionRead(c)]
                d == [c EXCEPT !.step = "answered", !.result = "ok", !.read = r]
    <3>1. Advances(c, d)
      BY <2>4 DEF ReadAnswers, Answered
    <3>2. d.kind = "read"
      BY <1>1 DEF ReadCalls
    <3>. QED BY <2>2, <3>1, <3>2
  <2>. QED BY <2>1, <2>3, <2>4
<1>. QED BY <1>1, <1>2, QuietIsStill

\* A write stores at its rename, over what it knows, and at nothing else.
LEMMA WriteNames ==
    ASSUME FilesInv, NEW c \in calls,
           WriteOpens(c) \/ WriteChecks(c) \/ WriteRenames(c) \/ WriteFails(c) \/ WriteAnswers(c)
    PROVE  Still \/ Stores
<1>1. c.kind = "write" /\ FsOK
  BY DEF FilesInv, WriteOpens, WriteChecks, WriteFails, WriteAnswers, WriteRenames
<1>2. WriteOK(c) /\ c \in WriteCalls
  <2>1. WriteOK(c)
    BY <1>1, KindTells DEF FilesInv, CallsOK
  <2>. QED BY <2>1 DEF WriteOK
<1>3. ASSUME NEW d, Advances(c, d), d.kind = "write" PROVE NoCopies
  BY <1>3, AdvancesCopyNothing DEF Moving
<1>4. ASSUME NEW result, NEW read, Answered(c, result, read) PROVE NoCopies
  <2>. DEFINE d == [c EXCEPT !.step = "answered", !.result = result, !.read = read]
  <2>1. d.kind = "write"
    BY <1>2 DEF WriteCalls
  <2>. QED BY <1>3, <1>4, <2>1 DEF Answered
<1>5. ASSUME NEW step, Advances(c, [c EXCEPT !.step = step]) PROVE NoCopies
  <2>. DEFINE d == [c EXCEPT !.step = step]
  <2>1. d.kind = "write"
    BY <1>2 DEF WriteCalls
  <2>. QED BY <1>3, <1>5, <2>1
<1>6. CASE UNCHANGED fsVars
  <2>1. \/ \E result, read : Answered(c, result, read)
        \/ \E step : Advances(c, [c EXCEPT !.step = step])
    BY DEF WriteOpens, WriteChecks, WriteRenames, WriteFails, WriteAnswers
  <2>. QED BY <1>4, <1>5, <1>6, <2>1, QuietIsStill
<1>7. CASE WriteRenames(c) /\ ~UNCHANGED fsVars
  <2>1. /\ Binds(c.path, "file", c.text, {c.base}, Missed(calls \ {c}, c.path, "anew"))
        /\ Advances(c, [c EXCEPT !.step = "renamed"]) /\ c.step = "checked"
    BY <1>7 DEF WriteRenames
  <2>2. c.path \in Paths /\ c.text \in 0..clock + 1 /\ ContentAt(c.path) \subseteq {c.base} \union raced
    <3>1. c.path \in Paths /\ c.text \in Nat /\ c.text <= clock /\ Only(c.path, {c.base}) /\ clock \in Nat
      BY <1>1, <1>2, <2>1 DEF WriteOK, WriteCalls, FsOK
    <3>. QED BY <3>1 DEF Only
  <2>3. NoCopies
    BY <1>5, <2>1
  <2>. QED BY <2>1, <2>2, <2>3 DEF Stores
<1>8. UNCHANGED fsVars \/ WriteRenames(c)
  BY DEF WriteOpens, WriteChecks, WriteFails, WriteAnswers
<1>. QED BY <1>6, <1>7, <1>8

\* A move that starts changes nothing.
LEMMA MoveStartsNames ==
    ASSUME NEW p \in Paths, NEW q \in Paths, MoveStarts(FreshId, p, q)
    PROVE  Still
<1>1. UNCHANGED fsVars /\ calls' = calls \union {MoveCall(FreshId, p, q)}
  BY DEF MoveStarts
<1>2. ~Moving(MoveCall(FreshId, p, q))
  BY DEF Moving, MoveCall
<1>. QED BY <1>1, <1>2, AddsCopyNothing, QuietIsStill

\* A move of a file copies, or is refused because the name is taken.
LEMMA MoveCopiesNames ==
    ASSUME FilesInv, NEW c \in calls, MoveCopies(c)
    PROVE  Still \/ Copies
<1>1. /\ c.kind = "move" /\ FsOK /\ c \in MoveCalls /\ c.path \in Paths /\ c.to \in Paths
  BY MoveFacts DEF MoveCopies
<1>2. CASE Ends(c) /\ UNCHANGED fsVars
  BY <1>2, EndsCopyNothing, QuietIsStill
<1>3. CASE KindAt(c.path) = "file" /\ entry[c.to] = None
  <2>1. PICK v, j : v = node[entry[c.path]].data /\ j = Len(node')
    OBVIOUS
  <2>. DEFINE d == [c EXCEPT !.step = "copied", !.copy = j, !.data = v]
  <2>2. /\ Binds(c.to, "file", v, {}, Missed(calls \ {c}, c.to, "anew"))
        /\ Advances(c, d)
    BY <1>3, <2>1 DEF MoveCopies
  <2>3. d.id = c.id /\ d.data = v
    BY <1>1 DEF MoveCalls
  <2>4. ContentAt(c.path) = {v}
    BY <1>3, <2>1 DEF ContentAt, KindAt
  <2>. HIDE DEF d
  <2>5. Binds(c.to, "file", d.data, {}, Missed(calls \ {c}, c.to, "anew")) /\ ContentAt(c.path) = {d.data}
    BY <2>2, <2>3, <2>4
  <2>. QED BY <1>1, <1>3, <2>2, <2>3, <2>5 DEF Copies
<1>. QED BY <1>2, <1>3 DEF MoveCopies

\* A move of a file ends with one of its two names taken away, or with none.
LEMMA MoveEndsNames ==
    ASSUME FilesInv, NEW c \in calls, MoveChecks(c) \/ MoveUnlinks(c)
    PROVE  Still \/ MoveEnds
<1>1. /\ c.kind = "move" /\ FsOK /\ MoveOK(c) /\ c \in MoveCalls
      /\ c.path \in Paths /\ c.to \in Paths
  BY MoveFacts DEF MoveChecks, MoveUnlinks
<1>2. CASE Ends(c) /\ UNCHANGED fsVars
  BY <1>2, EndsCopyNothing, QuietIsStill
<1>3. CASE MoveChecks(c)
  <2>1. Moving(c) /\ Only(c.to, {c.data}) /\ IsFile(c.copy)
    BY <1>1, <1>3 DEF MoveChecks, MoveOK, Moving
  <2>2. CASE UNCHANGED fsVars /\ ~Ends(c)
    <3>. DEFINE d == [c EXCEPT !.step = "checked"]
    <3>1. Advances(c, d)
      BY <1>3, <2>2 DEF MoveChecks
    <3>2. d.id = c.id /\ d.data = c.data
      BY <1>1 DEF MoveCalls
    <3>. QED BY <2>1, <2>2, <3>1, <3>2, AdvancesCopyNothing, QuietIsStill
  <2>3. CASE ~UNCHANGED fsVars
    <3>. DEFINE ps == {c.to} \ {q \in Paths : KindAt(q) = "directory"}
                mine == {<<c.to, c.copy>>}
    <3>1. Ends(c) /\ Unbinds(ps, {}, mine)
      BY <1>3, <2>3 DEF MoveChecks
    <3>2. mine \subseteq Paths \X DOMAIN node
      BY <1>1, <2>1 DEF IsFile
    <3>3. c.to \in ps \/ entry[c.to] # c.copy
      <4>1. KindAt(c.to) = "directory" => entry[c.to] # c.copy
        BY <2>1 DEF KindAt, IsFile
      <4>. QED BY <1>1, <4>1
    <3>4. \A u \in mine : u[1] \in ps \/ entry[u[1]] # u[2]
      BY <3>3
    <3>5. ps \in SUBSET Paths /\ ps \subseteq {c.to}
      BY <1>1
    <3>. HIDE DEF ps, mine
    <3>6. EndsWith(c, c.to, ps, mine)
      BY <2>1, <3>1, <3>2, <3>4, <3>5 DEF EndsWith
    <3>. QED BY <1>1, <3>6 DEF MoveEnds
  <2>. QED BY <1>2, <2>2, <2>3
<1>4. CASE MoveUnlinks(c)
  <2>1. Moving(c) /\ Only(c.path, {c.data})
    BY <1>1, <1>4 DEF MoveUnlinks, MoveOK, Moving
  <2>2. Ends(c) /\ (UNCHANGED fsVars \/ Unbinds({c.path}, {}, {}))
    BY <1>4 DEF MoveUnlinks
  <2>3. CASE Unbinds({c.path}, {}, {})
    <3>1. EndsWith(c, c.path, {c.path}, {})
      BY <2>1, <2>2, <2>3 DEF EndsWith
    <3>. QED BY <1>1, <3>1 DEF MoveEnds
  <2>. QED BY <1>2, <2>2, <2>3
<1>. QED BY <1>3, <1>4

\* A move of a directory renames it, or is refused.
LEMMA MoveRenamesNames ==
    ASSUME FilesInv, NEW c \in calls, MoveRenames(c)
    PROVE  Still \/ Moves
<1>1. /\ FsOK /\ MoveOK(c) /\ c.path \in Paths /\ c.to \in Paths /\ c.path # c.to
  BY MoveFacts DEF MoveRenames
<1>2. NoCopies
  BY EndsCopyNothing DEF MoveRenames
<1>3. CASE UNCHANGED fsVars
  BY <1>2, <1>3, QuietIsStill
<1>4. CASE ~UNCHANGED fsVars
  <2>1. /\ entry[c.path] # None
        /\ \E missed : Renames(c.path, c.to, missed)
    BY <1>4 DEF MoveRenames, MayRename
  <2>2. Only(c.to, {})
    BY <1>1 DEF MoveOK, MoveRenames
  <2>. QED BY <1>1, <1>2, <2>1, <2>2 DEF Moves
<1>. QED BY <1>3, <1>4

\* A deletion removes what its token names.
LEMMA DeleteNames ==
    ASSUME FilesInv
    PROVE  /\ DeleteInspects(FreshId) => Still
           /\ \A c \in calls : DeleteRemoves(c) => Still \/ Removes
<1>1. ASSUME DeleteInspects(FreshId) PROVE Still
  <2>. DEFINE d == [id |-> FreshId, kind |-> "delete", path |-> previewed.path,
                    step |-> "inspected", token |-> previewed]
  <2>1. UNCHANGED fsVars /\ calls' = calls \union {d}
    BY <1>1 DEF DeleteInspects
  <2>2. ~Moving(d)
    BY DEF Moving
  <2>. QED BY <2>1, <2>2, AddsCopyNothing, QuietIsStill
<1>2. ASSUME NEW c \in calls, DeleteRemoves(c) PROVE Still \/ Removes
  <2>1. NoCopies /\ DeleteOK(c)
    BY <1>2, EndsCopyNothing, KindTells DEF DeleteRemoves, FilesInv, CallsOK
  <2>2. CASE UNCHANGED fsVars
    BY <2>1, <2>2, QuietIsStill
  <2>3. CASE Unbinds({c.path}, {c.token.data}, {})
    <3>1. \A p \in Paths : p \in {c.path} => ContentAt(p) \subseteq {c.token.data} \union raced
      BY <2>1 DEF DeleteOK, Only
    <3>. QED BY <2>1, <2>3, <3>1 DEF Removes
  <2>. QED BY <1>2, <2>2, <2>3 DEF DeleteRemoves
<1>. QED BY <1>1, <1>2

\* A created entry is new.
LEMMA CreatesNames ==
    ASSUME FilesInv, NEW p \in Paths, NEW kind \in {"file", "directory"}, Creates(p, kind)
    PROVE  Stores
<1>1. /\ clock + 1 \in 0..clock + 1 /\ calls' = calls /\ ContentAt(p) = {}
      /\ Binds(p, kind, clock + 1, {}, Missed(calls, p, "anew"))
  BY DEF FilesInv, Creates, FsOK, serviceVars, ContentAt
<1>. QED BY <1>1, LeavesCopyNothing DEF Stores

\* An upload stores what was sent under new names, and removes only what it
\* stored.
LEMMA UploadNames ==
    ASSUME FilesInv, NEW c \in calls,
           UploadCreates(c) \/ UploadCompletes(c) \/ UploadFileFails(c) \/ UploadAborts(c) \/ UploadFinishes(c)
    PROVE  Still \/ Stores \/ Removes
<1>1. /\ FsOK /\ CallsOK /\ UploadOK(c) /\ c \in UploadCalls
      /\ c.kept \subseteq Paths /\ c.plan \subseteq Paths /\ c.made \in [Paths -> Nat] /\ clock \in Nat
  BY UploadFacts DEF UploadCreates, UploadCompletes, UploadFileFails, UploadAborts, UploadFinishes
<1>2. ASSUME NEW d, Advances(c, d), d.kind = "upload" PROVE NoCopies
  BY <1>2, AdvancesCopyNothing DEF Moving
<1>3. ASSUME NEW mine \in SUBSET Mine(c), Takes(c, mine, mine), NoCopies PROVE Removes
  <2>. DEFINE ps == mine \ {p \in Paths : KindAt(p) = "directory"}
              meant == {node[c.made[p]].data : p \in mine}
              us == {<<p, c.made[p]>> : p \in mine}
  <2>1. \A p \in mine : p \in Paths /\ IsFile(c.made[p]) /\ (entry[p] # c.made[p] => Only(p, {}))
    BY <1>1, <1>3 DEF UploadOK, Mine
  <2>2. us \subseteq Paths \X DOMAIN node
    BY <2>1 DEF IsFile
  <2>3. ASSUME NEW p \in Paths, p \in ps PROVE ContentAt(p) \subseteq meant \union raced
    <3>1. p \in mine /\ node[c.made[p]].data \in meant
      BY <2>3
    <3>. QED BY <2>1, <3>1 DEF ContentAt, Only
  <2>4. ASSUME NEW u \in us PROVE u[1] \in ps \/ entry[u[1]] # u[2]
    <3>1. PICK p \in mine : u = <<p, c.made[p]>>
      BY <2>4
    <3>2. KindAt(p) = "directory" => entry[p] # c.made[p]
      BY <2>1 DEF KindAt, IsFile
    <3>. QED BY <2>1, <3>1, <3>2
  <2>5. Unbinds(ps, meant, us)
    BY <1>3 DEF Takes
  <2>6. \A p \in Paths : p \in ps => ContentAt(p) \subseteq meant \union raced
    BY <2>3
  <2>7. \A u \in us : u[1] \in ps \/ entry[u[1]] # u[2]
    BY <2>4
  <2>. HIDE DEF ps, meant, us
  <2>. QED BY <1>3, <2>2, <2>5, <2>6, <2>7 DEF Removes
<1>4. CASE UploadCreates(c)
  <2>1. PICK p \in c.plan :
         IF entry[p] = None
         THEN /\ Binds(p, "file", clock + 1, {}, Missed(calls \ {c}, p, "anew"))
              /\ Advances(c, [c EXCEPT !.step = "writing", !.plan = @ \ {p}, !.at = p,
                                       !.made[p] = Len(node')])
         ELSE /\ Advances(c, [c EXCEPT !.plan = @ \ {p}])
              /\ UNCHANGED fsVars
    BY <1>4 DEF UploadCreates
  <2>2. CASE entry[p] # None
    <3>1. [c EXCEPT !.plan = @ \ {p}].kind = "upload"
      BY <1>1 DEF UploadCalls
    <3>. QED BY <1>2, <2>1, <2>2, <3>1, QuietIsStill
  <2>3. CASE entry[p] = None
    <3>1. PICK j : j = Len(node')
      OBVIOUS
    <3>2. [c EXCEPT !.step = "writing", !.plan = @ \ {p}, !.at = p, !.made[p] = j].kind = "upload"
      BY <1>1 DEF UploadCalls
    <3>3. NoCopies
      BY <1>2, <2>1, <2>3, <3>1, <3>2
    <3>4. p \in Paths /\ clock + 1 \in 0..clock + 1 /\ ContentAt(p) = {}
      BY <1>1, <2>1, <2>3 DEF ContentAt
    <3>. QED BY <2>1, <2>3, <3>3, <3>4 DEF Stores
  <2>. QED BY <2>2, <2>3
<1>5. CASE UploadCompletes(c)
  <2>1. /\ c.made[c.at] \in DOMAIN node /\ UNCHANGED <<entry, stored, gone, raced, undone>>
        /\ node' = [node EXCEPT ![c.made[c.at]].stamp = clock + 1]
    BY <1>1, <1>5 DEF UploadCompletes, UploadOK, Mine, IsFile
  <2>2. \A i \in DOMAIN node : node'[i].data = node[i].data
    BY <1>1, <2>1 DEF FsOK, NodeType
  <2>3. \A p \in Paths : ContentAt(p)' = ContentAt(p)
    BY <1>1, <2>1, <2>2, Bound DEF ContentAt
  <2>4. [c EXCEPT !.step = "next", !.kept = @ \union {c.at}].kind = "upload"
    BY <1>1 DEF UploadCalls
  <2>5. NoCopies
    BY <1>2, <1>5, <2>4 DEF UploadCompletes
  <2>. QED BY <2>1, <2>3, <2>5 DEF Still
<1>6. CASE UploadFileFails(c)
  <2>1. [c EXCEPT !.step = "next"].kind = "upload"
    BY <1>1 DEF UploadCalls
  <2>2. NoCopies /\ Takes(c, {c.at}, {c.at}) /\ {c.at} \in SUBSET Mine(c)
    BY <1>2, <1>6, <2>1 DEF UploadFileFails, Mine
  <2>. QED BY <1>3, <2>2
<1>7. CASE UploadAborts(c)
  <2>1. NoCopies /\ Takes(c, c.kept, c.kept) /\ c.kept \in SUBSET Mine(c)
    BY <1>7, EndsCopyNothing DEF UploadAborts, ToAbort, Mine
  <2>. QED BY <1>3, <2>1
<1>8. CASE UploadFinishes(c)
  BY <1>8, EndsCopyNothing, QuietIsStill DEF UploadFinishes
<1>. QED BY <1>4, <1>5, <1>6, <1>7, <1>8

\* An editor changes no file itself.
LEMMA EditorNames ==
    ASSUME FilesInv, EditorStep \/ Person \/ \E c \in calls : SaveIsLost(c)
    PROVE  Still
<1>1. CASE Saves
  <2>1. UNCHANGED fsVars /\ calls' = calls \union {WriteCall(FreshId, ed.path, ed.read, ed.draft)}
    BY <1>1 DEF Saves
  <2>2. ~Moving(WriteCall(FreshId, ed.path, ed.read, ed.draft))
    BY DEF Moving, WriteCall
  <2>. QED BY <2>1, <2>2, AddsCopyNothing, QuietIsStill
<1>2. ASSUME NEW c \in calls, EditorOpens(c) \/ SaveReturns(c) PROVE Still
  BY <1>2, EndsCopyNothing, QuietIsStill DEF EditorOpens, SaveReturns
<1>3. ASSUME NEW c \in calls, SaveIsLost(c) PROVE Still
  <2>1. c.kind = "write" /\ UNCHANGED fsVars /\ Advances(c, [c EXCEPT !.awaited = FALSE])
    BY <1>3 DEF SaveIsLost, Unawaited
  <2>2. c \in WriteCalls
    BY <2>1, KindTells DEF WriteOK, FilesInv, CallsOK
  <2>3. [c EXCEPT !.awaited = FALSE].kind = "write"
    BY <2>2 DEF WriteCalls
  <2>. QED BY <2>1, <2>3, AdvancesCopyNothing, QuietIsStill DEF Moving
<1>4. CASE Types
  BY <1>4, LeavesCopyNothing DEF Types, Still, ContentAt, serviceVars
<1>5. CASE EditorRemounts \/ EditorCloses
  <2>1. UNCHANGED fsVars /\ calls' = {Unawaited(c) : c \in calls}
    BY <1>5 DEF EditorRemounts, EditorCloses
  <2>2. \A c \in calls : Moving(Unawaited(c)) => Unawaited(c) = c
    <3>1. ASSUME NEW c \in calls, c.kind = "write" PROVE ~Moving(Unawaited(c))
      <4>1. c \in WriteCalls
        BY <3>1, KindTells DEF WriteOK, FilesInv, CallsOK
      <4>2. [c EXCEPT !.awaited = FALSE].kind = "write"
        BY <4>1 DEF WriteCalls
      <4>. QED BY <3>1, <4>2 DEF Unawaited, Moving
    <3>. QED BY <3>1 DEF Unawaited
  <2>3. NoCopies
    BY <2>1, <2>2 DEF NoCopies
  <2>. QED BY <2>1, <2>3, QuietIsStill
<1>. QED BY <1>1, <1>2, <1>3, <1>4, <1>5 DEF EditorStep, Person

\* A file that is opened stays as it is.
LEMMA AsksNames ==
    ASSUME NEW p \in Paths, AsksToRead(p)
    PROVE  Still
<1>1. UNCHANGED fsVars /\ calls' = calls \union {ReadCall(FreshId, p)}
  BY DEF AsksToRead
<1>2. ~Moving(ReadCall(FreshId, p))
  BY DEF Moving, ReadCall
<1>. QED BY <1>1, <1>2, AddsCopyNothing, QuietIsStill

\* A planned upload has no name yet.
LEMMA UploadStartsNames ==
    ASSUME UploadStarts(FreshId)
    PROVE  Still
<1>1. PICK n \in 1..MaxFiles : calls' = calls \union {UploadCall(FreshId, n)}
  BY DEF UploadStarts
<1>2. ~Moving(UploadCall(FreshId, n))
  BY DEF Moving, UploadCall
<1>3. UNCHANGED fsVars
  BY DEF UploadStarts
<1>. QED BY <1>1, <1>2, <1>3, AddsCopyNothing, QuietIsStill

\* Content d comes into the node of p.
LEMMA AltersIs ==
    ASSUME FsOK, NEW p \in Paths, entry[p] # None, NEW n \in NodeType, n.data = clock + 1,
           node' = [node EXCEPT ![entry[p]] = n], UNCHANGED <<entry, undone>>, calls' = calls,
           stored' = stored \union {clock + 1}, gone' = gone \union ContentAt(p), raced \subseteq raced'
    PROVE  Alters
<1>1. entry[p] \in DOMAIN node
  BY Bound
<1>2. ContentAt(p)' = {clock + 1}
  BY <1>1 DEF FsOK, ContentAt
<1>3. \A q \in Paths \ {p} : ContentAt(q)' = ContentAt(q)
  <2>1. ASSUME NEW q \in Paths \ {p}, entry[q] # None PROVE node'[entry[q]] = node[entry[q]]
    BY <2>1, Bound DEF FsOK
  <2>. QED BY <2>1 DEF ContentAt
<1>. QED BY <1>2, <1>3, LeavesCopyNothing DEF Alters

\* The shell gives up what it overwrites or removes.
LEMMA ShellNames ==
    ASSUME FilesInv, Shell
    PROVE  Still \/ Stores \/ Alters \/ Removes
<1>0. FsOK /\ CallsOK /\ clock \in Nat
  BY DEF FilesInv, FsOK
<1>1. ASSUME NEW p \in Paths, ShellWrites(p) PROVE Alters
  <2>1. entry[p] # None
    BY <1>1 DEF ShellWrites, KindAt
  <2>2. PICK m \in NodeType, i \in DOMAIN node, s \in Nat : i = entry[p] /\ m = node[i] /\ s = clock + 1
    BY <1>0, <2>1, Bound
  <2>3. i \in DOMAIN node
    BY <1>0, <2>1, <2>2, Bound
  <2>4. PICK n : n = [m EXCEPT !.stamp = s, !.data = s]
    OBVIOUS
  <2>5. n \in NodeType /\ n.data = s
    BY <2>3, <2>4 DEF NodeType
  <2>6. node' = [node EXCEPT ![i].stamp = clock + 1, ![i].data = clock + 1]
    BY <1>1, <2>2 DEF ShellWrites, Writes
  <2>7. n = [node[i] EXCEPT !.stamp = clock + 1, !.data = clock + 1]
    BY <2>2, <2>4
  <2>8. node' = [node EXCEPT ![entry[p]] = n]
    <3>1. node' = [node EXCEPT ![i] = n]
      BY <2>3, <2>6, <2>7
    <3>. QED BY <2>2, <3>1
  <2>9. /\ UNCHANGED <<entry, undone>> /\ calls' = calls /\ stored' = stored \union {clock + 1}
        /\ gone' = gone \union ContentAt(p) /\ raced \subseteq raced'
    BY <1>1 DEF ShellWrites, Writes, Raced, serviceVars
  <2>. QED BY <1>0, <2>1, <2>2, <2>5, <2>8, <2>9, AltersIs
<1>2. ASSUME NEW p \in Paths, ShellPuts(p) PROVE Stores
  <2>1. /\ Binds(p, "file", clock + 1, ContentAt(p), Missed(calls, p, "anew")) /\ calls' = calls
        /\ clock + 1 \in 0..clock + 1
    BY <1>0, <1>2 DEF ShellPuts, serviceVars
  <2>. QED BY <2>1, LeavesCopyNothing DEF Stores
<1>3. ASSUME NEW p \in Paths, ShellRemoves(p) PROVE Removes
  <2>1. Unbinds({p}, ContentAt(p), {}) /\ calls' = calls
    BY <1>3 DEF ShellRemoves, serviceVars
  <2>. QED BY <2>1, LeavesCopyNothing DEF Removes
<1>4. ASSUME NEW p \in Paths, NEW made \in BOOLEAN, ShellWorksInside(p, made) PROVE Alters
  <2>1. entry[p] # None /\ clock' = clock + 1
    BY <1>4 DEF ShellWorksInside, KindAt
  <2>2. PICK m \in NodeType, i \in DOMAIN node, s \in Nat : i = entry[p] /\ m = node[i] /\ s = clock' /\ s = clock + 1
    BY <1>0, <2>1, Bound
  <2>3. i \in DOMAIN node
    BY <1>0, <2>1, <2>2, Bound
  <2>4. PICK n : n = [m EXCEPT !.data = s, !.stamp = IF made THEN s ELSE @,
                               !.count = IF made THEN @ + 1 ELSE @]
    OBVIOUS
  <2>5. n \in NodeType /\ n.data = s
    <3>1. PICK k \in Nat, t \in Nat : /\ k = IF made THEN m.count + 1 ELSE m.count
                                     /\ t = IF made THEN s ELSE m.stamp
      BY <2>3 DEF NodeType
    <3>2. n = [m EXCEPT !.data = s, !.stamp = t, !.count = k]
      BY <2>4, <3>1
    <3>. QED BY <2>3, <3>1, <3>2 DEF NodeType
  <2>6. node' = [node EXCEPT ![i].data = s, ![i].stamp = IF made THEN s ELSE @,
                             ![i].count = IF made THEN @ + 1 ELSE @]
    BY <1>4, <2>2 DEF ShellWorksInside
  <2>7. n = [node[i] EXCEPT !.data = s, !.stamp = IF made THEN s ELSE @,
                            !.count = IF made THEN @ + 1 ELSE @]
    BY <2>2, <2>4
  <2>8. node' = [node EXCEPT ![entry[p]] = n]
    <3>1. node' = [node EXCEPT ![i] = n]
      BY <2>3, <2>6, <2>7
    <3>. QED BY <2>2, <3>1
  <2>9. /\ UNCHANGED <<entry, undone>> /\ calls' = calls /\ stored' = stored \union {clock + 1}
        /\ gone' = gone \union ContentAt(p) /\ raced \subseteq raced'
    BY <1>4, <2>1 DEF ShellWorksInside, Raced, serviceVars
  <2>. QED BY <1>0, <2>1, <2>2, <2>5, <2>8, <2>9, AltersIs
<1>5. CASE ChangesDirectory
  BY <1>5, LeavesCopyNothing, QuietIsStill DEF ChangesDirectory
<1>. QED BY <1>1, <1>2, <1>3, <1>4, <1>5 DEF Shell

\* Every step is one of the seven kinds.
LEMMA StepNames ==
    ASSUME FilesInv, Next
    PROVE  NamesStep
<1>1. CASE Requests
  BY <1>1, AsksNames, MoveStartsNames, DeleteNames, UploadStartsNames DEF Requests, NamesStep
<1>2. CASE Immediate
  <2>1. ASSUME NEW p \in Paths, Previews(p) PROVE Still
    BY <2>1, LeavesCopyNothing, QuietIsStill DEF Previews
  <2>. QED BY <1>2, <2>1, CreatesNames DEF Immediate, NamesStep
<1>3. CASE Failures
  <2>1. ASSUME ServerRestarts PROVE Still
    BY <2>1, QuietIsStill DEF ServerRestarts, NoCopies
  <2>. QED BY <1>3, <2>1, WriteNames, UploadNames, EditorNames DEF Failures, NamesStep
<1>4. CASE Shell
  BY <1>4, ShellNames DEF NamesStep
<1>5. CASE ServiceStep
  BY <1>5, ReadNames, WriteNames, MoveCopiesNames, MoveEndsNames, MoveRenamesNames, DeleteNames
     DEF ServiceStep, NamesStep
<1>6. CASE UploadStep
  BY <1>6, UploadNames DEF UploadStep, NamesStep
<1>7. CASE EditorStep \/ Person
  BY <1>7, EditorNames DEF NamesStep
<1>. QED BY <1>1, <1>2, <1>3, <1>4, <1>5, <1>6, <1>7 DEF Next, Outside, Works, Uploads, Edits

\* And so is no step.
LEMMA StutterNames ==
    ASSUME UNCHANGED vars
    PROVE  Still
<1>1. UNCHANGED fsVars /\ calls' = calls
  BY DEF vars, serviceVars
<1>. QED BY <1>1, LeavesCopyNothing, QuietIsStill

-----------------------------------------------------------------------------
\* What failed leaves nothing: what it took back is not bound again.
LEMMA FailedStays ==
    ASSUME FilesInv, FailedLeavesNothing, NamesStep
    PROVE  FailedLeavesNothing'
<1>0. FsOK /\ undone \subseteq Paths \X DOMAIN node /\ Len(node) \in Nat /\ DOMAIN node = 1..Len(node)
  BY DEF FilesInv, FsOK
<1>1. CASE Still \/ Alters
  BY <1>1 DEF Still, Alters, FailedLeavesNothing
<1>2. ASSUME NEW p \in Paths, NEW kind \in {"file", "directory"}, NEW d \in 0..clock + 1, NEW meant,
             NEW missed, Binds(p, kind, d, meant, missed)
      PROVE  FailedLeavesNothing'
  <2>2. /\ entry'[p] = Len(node) + 1 /\ \A q \in Paths \ {p} : entry'[q] = entry[q]
    BY <1>0, <1>2, BindsStep
  <2>3. undone' = undone
    BY <1>2 DEF Binds
  <2>. QED BY <1>0, <2>2, <2>3 DEF FailedLeavesNothing
<1>3. ASSUME NEW ps, NEW meant, NEW mine, Unbinds(ps, meant, mine), mine \subseteq Paths \X DOMAIN node,
             \A u \in mine : u[1] \in ps \/ entry[u[1]] # u[2]
      PROVE  FailedLeavesNothing'
  <2>1. undone' = undone \union mine /\ \A q \in Paths : entry'[q] = IF q \in ps THEN None ELSE entry[q]
    BY <1>3 DEF Unbinds
  <2>2. \A u \in undone' : u[1] \in Paths /\ u[2] # None
    BY <1>0, <1>3, <2>1 DEF None
  <2>. QED BY <1>3, <2>1, <2>2 DEF FailedLeavesNothing
<1>4. CASE Moves
  <2>0. PICK p \in Paths, q \in Paths : p # q /\ entry[p] # None /\ \E missed : Renames(p, q, missed)
    BY <1>4 DEF Moves
  <2>1. PICK missed : p # q /\ entry[p] # None /\ Renames(p, q, missed)
    BY <2>0
  <2>2. /\ entry'[p] = None /\ entry'[q] = entry[p] /\ \A r \in Paths \ {p, q} : entry'[r] = entry[r]
    BY <1>0, <2>1, RenamesStep
  <2>3. undone' = undone \ {<<q, entry[p]>>}
    BY <2>1 DEF Renames
  <2>4. ASSUME NEW u \in undone' PROVE entry'[u[1]] # u[2]
    <3>1. u \in undone /\ u # <<q, entry[p]>> /\ u[1] \in Paths /\ u[2] \in DOMAIN node /\ u = <<u[1], u[2]>>
      BY <1>0, <2>3, <2>4
    <3>2. entry[u[1]] # u[2] /\ u[2] # None
      BY <1>0, <3>1 DEF FailedLeavesNothing, None
    <3>. QED BY <2>2, <3>1, <3>2
  <2>. QED BY <2>4 DEF FailedLeavesNothing
<1>5. CASE Copies
  <2>1. PICK c \in calls, q \in Paths : \E d :
            \E p \in Paths : \E missed : ContentAt(p) = {d.data} /\ Binds(q, "file", d.data, {}, missed)
    BY <1>5 DEF Copies
  <2>2. PICK d, p, missed : p \in Paths /\ ContentAt(p) = {d.data} /\ Binds(q, "file", d.data, {}, missed)
    BY <2>1
  <2>3. d.data \in 0..clock + 1
    <3>1. d.data \in 0..clock /\ clock \in Nat
      BY <1>0, <2>2 DEF FsOK
    <3>. QED BY <3>1
  <2>. QED BY <1>2, <2>2, <2>3
<1>. QED BY <1>1, <1>2, <1>3, <1>4, <1>5 DEF NamesStep, Stores, Removes, MoveEnds, EndsWith

\* What an upload that broke off, a file that failed and a move that was
\* refused have made is not there (uploadService.ts, moveEntry).
THEOREM FailuresLeaveNothing == Spec => []FailedLeavesNothing
<1>1. Init => FailedLeavesNothing
  BY DEF Init, FsInit, FailedLeavesNothing
<1>2. FilesInv /\ FailedLeavesNothing /\ [Next]_vars => FailedLeavesNothing'
  BY StepNames, StutterNames, FailedStays DEF NamesStep
<1>. QED BY <1>1, <1>2, FilesTypeCorrect, PTL DEF Spec

-----------------------------------------------------------------------------
(* Nothing is lost: a content that nobody gave up and that was not stored   *)
(* in a gap has more names than there are moves that are about to take one  *)
(* of its names away.                                                       *)

Homes(d) == {p \in Paths : d \in ContentAt(p)}
Movers(d) == {c.id : c \in {c \in calls : Moving(c) /\ c.data = d}}
Slack == \A d \in stored \ (gone \union raced) : Cardinality(Homes(d)) > Cardinality(Movers(d))

\* More of these and fewer of those.
LEMMA CountsKeep ==
    ASSUME NEW H, NEW H2, NEW M, NEW M2, IsFiniteSet(H2), IsFiniteSet(M),
           H \subseteq H2, M2 \subseteq M, Cardinality(H) > Cardinality(M)
    PROVE  Cardinality(H2) > Cardinality(M2)
<1>1. /\ IsFiniteSet(H) /\ IsFiniteSet(M2) /\ Cardinality(H) <= Cardinality(H2)
      /\ Cardinality(M2) <= Cardinality(M)
  BY FS_Subset
<1>2. /\ Cardinality(H) \in Nat /\ Cardinality(H2) \in Nat /\ Cardinality(M) \in Nat
      /\ Cardinality(M2) \in Nat
  BY <1>1, FS_CardinalityType
<1>. QED BY <1>1, <1>2

\* One less of both.
LEMMA CountsLess ==
    ASSUME NEW H, NEW H2, NEW M, NEW M2, NEW h, NEW m, IsFiniteSet(H), IsFiniteSet(H2), IsFiniteSet(M), m \in M,
           H \ {h} \subseteq H2, M2 \subseteq M \ {m}, Cardinality(H) > Cardinality(M)
    PROVE  Cardinality(H2) > Cardinality(M2)
<1>1. /\ Cardinality(H \ {h}) \in {Cardinality(H), Cardinality(H) - 1}
      /\ Cardinality(M \ {m}) = Cardinality(M) - 1
      /\ IsFiniteSet(M \ {m}) /\ IsFiniteSet(H \ {h})
  BY FS_RemoveElement
<1>2. Cardinality(H) \in Nat /\ Cardinality(M) \in Nat
  BY FS_CardinalityType
<1>3. Cardinality(H \ {h}) > Cardinality(M \ {m})
  BY <1>1, <1>2
<1>. QED BY <1>1, <1>3, CountsKeep

\* One more of both.
LEMMA CountsMore ==
    ASSUME NEW H, NEW H2, NEW M, NEW M2, NEW h, NEW m, IsFiniteSet(H), IsFiniteSet(H2), IsFiniteSet(M), h \notin H,
           H \union {h} \subseteq H2, M2 \subseteq M \union {m}, Cardinality(H) > Cardinality(M)
    PROVE  Cardinality(H2) > Cardinality(M2)
<1>1. /\ Cardinality(H \union {h}) = Cardinality(H) + 1
      /\ Cardinality(M \union {m}) \in {Cardinality(M), Cardinality(M) + 1}
      /\ IsFiniteSet(M \union {m})
  BY FS_AddElement
<1>2. Cardinality(H) \in Nat /\ Cardinality(M) \in Nat
  BY FS_CardinalityType
<1>3. Cardinality(H \union {h}) > Cardinality(M \union {m})
  BY <1>1, <1>2
<1>. QED BY <1>1, <1>3, CountsKeep

\* One for another.
LEMMA CountsSwap ==
    ASSUME NEW H, NEW H2, NEW M, NEW M2, NEW h, NEW k, IsFiniteSet(H), IsFiniteSet(H2), IsFiniteSet(M),
           k \notin H, (H \ {h}) \union {k} \subseteq H2, M2 \subseteq M, Cardinality(H) > Cardinality(M)
    PROVE  Cardinality(H2) > Cardinality(M2)
<1>1. /\ Cardinality(H \ {h}) \in {Cardinality(H), Cardinality(H) - 1} /\ IsFiniteSet(H \ {h})
  BY FS_RemoveElement
<1>2. Cardinality((H \ {h}) \union {k}) = Cardinality(H \ {h}) + 1
  BY <1>1, FS_AddElement
<1>3. Cardinality(H) \in Nat /\ Cardinality(M) \in Nat
  BY FS_CardinalityType
<1>4. Cardinality((H \ {h}) \union {k}) > Cardinality(M)
  BY <1>1, <1>2, <1>3
<1>. QED BY <1>4, CountsKeep

\* Both are finite, before a step and after it.
LEMMA Countable ==
    ASSUME FilesInv, NEW d
    PROVE  /\ IsFiniteSet(Homes(d)) /\ IsFiniteSet(Homes(d)') /\ IsFiniteSet(Movers(d))
           /\ NoCopies => Movers(d)' \subseteq Movers(d)
           /\ d \notin stored => Movers(d) = {}
<1>1. IsFiniteSet(Homes(d)) /\ IsFiniteSet(Homes(d)')
  BY PathsAreNumbers, FS_Subset DEF Homes
<1>2. IsFiniteSet(Movers(d))
  <2>. DEFINE S == {c \in calls : Moving(c) /\ c.data = d}
              f == [c \in S |-> c.id]
  <2>1. IsFiniteSet(S)
    BY FS_Subset DEF FilesInv, CallsOK
  <2>2. f \in Surjection(S, Movers(d))
    BY DEF Surjection, Movers
  <2>. HIDE DEF S, f
  <2>. QED BY <2>1, <2>2, FS_Surjection
<1>3. NoCopies => Movers(d)' \subseteq Movers(d)
  BY DEF NoCopies, Movers, Moving
<1>4. d \notin stored => Movers(d) = {}
  BY KindTells DEF FilesInv, CallsOK, Movers, Moving, MoveOK
<1>. QED BY <1>1, <1>2, <1>3, <1>4

\* Each kind of step leaves a content more names than moves that will take one
\* away.
LEMMA SlackStays ==
    ASSUME FilesInv, Slack, NamesStep
    PROVE  Slack'
<1>0. FsOK /\ clock \in Nat /\ clock + 1 \notin stored
  BY DEF FilesInv, FsOK
<1>1. gone \subseteq gone' /\ raced \subseteq raced' /\ stored \subseteq stored'
  BY DEF NamesStep, Still, Stores, Alters, Removes, Copies, MoveEnds, EndsWith, Moves, Binds, Unbinds, Renames, Raced
<1>. SUFFICES ASSUME NEW d \in stored', d \notin gone' \union raced'
              PROVE  Cardinality(Homes(d)') > Cardinality(Movers(d)')
  BY DEF Slack
<1>2. /\ IsFiniteSet(Homes(d)) /\ IsFiniteSet(Homes(d)') /\ IsFiniteSet(Movers(d))
      /\ NoCopies => Movers(d)' \subseteq Movers(d)
      /\ d \notin stored => Movers(d) = {}
  BY Countable
<1>3. d \in stored => Cardinality(Homes(d)) > Cardinality(Movers(d))
  BY <1>1 DEF Slack
<1>4. ASSUME d \in stored, NoCopies, \A p \in Paths : d \in ContentAt(p) => d \in ContentAt(p)'
      PROVE  Cardinality(Homes(d)') > Cardinality(Movers(d)')
  <2>1. Homes(d) \subseteq Homes(d)'
    BY <1>4 DEF Homes
  <2>. QED BY <1>2, <1>3, <1>4, <2>1, CountsKeep
<1>5. ASSUME d \notin stored, NoCopies, NEW p \in Paths, d \in ContentAt(p)'
      PROVE  Cardinality(Homes(d)') > Cardinality(Movers(d)')
  <2>1. Movers(d)' = {} /\ Cardinality({}) = 0
    BY <1>2, <1>5, FS_EmptySet
  <2>2. Homes(d)' # {}
    BY <1>5 DEF Homes
  <2>3. Cardinality(Homes(d)') \in Nat /\ Cardinality(Homes(d)') # 0
    BY <1>2, <2>2, FS_CardinalityType, FS_EmptySet
  <2>. QED BY <2>1, <2>3
<1>6. CASE Still
  BY <1>4, <1>6 DEF Still
<1>7. CASE Stores
  <2>1. PICK p \in Paths, kind \in {"file", "directory"}, e \in 0..clock + 1 : \E meant, missed :
          Binds(p, kind, e, meant, missed) /\ ContentAt(p) \subseteq meant \union raced
    BY <1>7 DEF Stores
  <2>2. PICK meant, missed : Binds(p, kind, e, meant, missed) /\ ContentAt(p) \subseteq meant \union raced
    BY <2>1
  <2>3. \A q \in Paths : ContentAt(q)' = IF q = p THEN {e} ELSE ContentAt(q)
    BY <1>0, <2>2, BindsStep
  <2>4. d \notin ContentAt(p) /\ stored' = stored \union {e}
    BY <1>1, <2>2 DEF Binds
  <2>5. NoCopies
    BY <1>7 DEF Stores
  <2>. QED BY <1>4, <1>5, <2>3, <2>4, <2>5
<1>8. CASE Alters
  <2>1. PICK p \in Paths : /\ ContentAt(p) \subseteq gone' /\ entry[p] # None /\ ContentAt(p)' = {clock + 1}
                           /\ \A q \in Paths \ {p} : ContentAt(q)' = ContentAt(q)
    BY <1>8 DEF Alters
  <2>2. stored' = stored \union {clock + 1} /\ NoCopies
    BY <1>8 DEF Alters
  <2>. QED BY <1>4, <1>5, <2>1, <2>2
<1>9. CASE Removes
  <2>1. PICK ps, meant, mine :
          /\ Unbinds(ps, meant, mine) /\ mine \subseteq Paths \X DOMAIN node
          /\ \A p \in Paths : p \in ps => ContentAt(p) \subseteq meant \union raced
    BY <1>9 DEF Removes
  <2>2. \A q \in Paths : ContentAt(q)' = IF q \in ps THEN {} ELSE ContentAt(q)
    BY <1>0, <2>1, UnbindsStep
  <2>3. stored' = stored /\ gone' = gone \union meant
    BY <2>1 DEF Unbinds
  <2>4. NoCopies
    BY <1>9 DEF Removes
  <2>. QED BY <1>1, <1>4, <2>1, <2>2, <2>3, <2>4
<1>10. CASE Copies
  <2>0. PICK c \in calls, q \in Paths : \E e :
          /\ c.kind = "move" /\ entry[q] = None /\ Advances(c, e) /\ e.id = c.id
          /\ \E p \in Paths : \E missed : ContentAt(p) = {e.data} /\ Binds(q, "file", e.data, {}, missed)
    BY <1>10 DEF Copies
  <2>1. PICK e :
          /\ c.kind = "move" /\ entry[q] = None /\ Advances(c, e) /\ e.id = c.id
          /\ \E p \in Paths : \E missed : ContentAt(p) = {e.data} /\ Binds(q, "file", e.data, {}, missed)
    BY <2>0
  <2>2. PICK p \in Paths : \E missed : ContentAt(p) = {e.data} /\ Binds(q, "file", e.data, {}, missed)
    BY <2>1
  <2>3. PICK missed : ContentAt(p) = {e.data} /\ Binds(q, "file", e.data, {}, missed)
    BY <2>2
  <2>4. e.data \in stored /\ e.data \in 0..clock + 1
    <3>1. e.data \in stored /\ e.data \in 0..clock
      BY <1>0, <2>3 DEF FsOK
    <3>. QED BY <1>0, <3>1
  <2>5. \A r \in Paths : ContentAt(r)' = IF r = q THEN {e.data} ELSE ContentAt(r)
    BY <1>0, <2>3, <2>4, BindsStep
  <2>6. d \in stored
    BY <2>3, <2>4 DEF Binds
  <2>7. ContentAt(q) = {}
    BY <2>1 DEF ContentAt
  <2>8. CASE d = e.data
    <3>1. q \notin Homes(d) /\ Homes(d) \union {q} \subseteq Homes(d)'
      BY <2>5, <2>7, <2>8 DEF Homes
    <3>2. Movers(d)' \subseteq Movers(d) \union {c.id}
      BY <2>1 DEF Movers, Advances
    <3>. QED BY <1>2, <1>3, <2>6, <3>1, <3>2, CountsMore
  <2>9. CASE d # e.data
    <3>1. Homes(d) \subseteq Homes(d)'
      BY <2>5, <2>7 DEF Homes
    <3>2. Movers(d)' \subseteq Movers(d)
      BY <2>1, <2>9 DEF Movers, Advances
    <3>. QED BY <1>2, <1>3, <2>6, <3>1, <3>2, CountsKeep
  <2>. QED BY <2>8, <2>9
<1>11. CASE MoveEnds
  <2>1. PICK c \in calls, p \in Paths : \E ps, mine : EndsWith(c, p, ps, mine)
    BY <1>11 DEF MoveEnds
  <2>2. PICK ps, mine : EndsWith(c, p, ps, mine)
    BY <2>1
  <2>3. /\ Moving(c) /\ ps \subseteq {p} /\ Only(p, {c.data}) /\ Ends(c)
        /\ Unbinds(ps, {}, mine) /\ mine \subseteq Paths \X DOMAIN node
    BY <2>2 DEF EndsWith
  <2>4. \A q \in Paths : ContentAt(q)' = IF q \in ps THEN {} ELSE ContentAt(q)
    BY <1>0, <2>3, UnbindsStep
  <2>5. stored' = stored
    BY <2>3 DEF Unbinds
  <2>6. CASE d = c.data
    <3>1. Homes(d) \ {p} \subseteq Homes(d)'
      BY <2>3, <2>4 DEF Homes
    <3>2. c.id \in Movers(d)
      BY <2>3, <2>6 DEF Movers
    <3>3. Movers(d)' \subseteq Movers(d) \ {c.id}
      BY <2>3 DEF Movers, Ends, FilesInv, CallsOK
    <3>. QED BY <1>2, <1>3, <2>5, <3>1, <3>2, <3>3, CountsLess
  <2>7. CASE d # c.data
    <3>1. d \notin ContentAt(p)
      BY <1>1, <2>3, <2>7 DEF Only
    <3>. QED BY <1>4, <2>3, <2>4, <2>5, <3>1, EndsCopyNothing
  <2>. QED BY <2>6, <2>7
<1>12. CASE Moves
  <2>1. PICK p \in Paths, q \in Paths : \E missed :
          p # q /\ entry[p] # None /\ Renames(p, q, missed) /\ Only(q, {})
    BY <1>12 DEF Moves
  <2>2. PICK missed : p # q /\ entry[p] # None /\ Renames(p, q, missed) /\ Only(q, {})
    BY <2>1
  <2>3. /\ ContentAt(p)' = {} /\ ContentAt(q)' = ContentAt(p)
        /\ \A r \in Paths \ {p, q} : ContentAt(r)' = ContentAt(r)
    BY <1>0, <2>2, RenamesStep
  <2>4. d \notin ContentAt(q) /\ stored' = stored
    BY <1>1, <2>2 DEF Only, Renames
  <2>5. NoCopies
    BY <1>12 DEF Moves
  <2>6. CASE d \in ContentAt(p)
    <3>1. q \notin Homes(d) /\ (Homes(d) \ {p}) \union {q} \subseteq Homes(d)'
      BY <2>3, <2>4, <2>6 DEF Homes
    <3>. QED BY <1>2, <1>3, <2>4, <2>5, <3>1, CountsSwap
  <2>7. CASE d \notin ContentAt(p)
    BY <1>4, <2>3, <2>4, <2>5, <2>7
  <2>. QED BY <2>6, <2>7
<1>. QED BY <1>6, <1>7, <1>8, <1>9, <1>10, <1>11, <1>12 DEF NamesStep

\* Nothing that was stored is lost but what was given up, or stored in a gap
\* (fileExplorerService.ts, uploadService.ts).
THEOREM NothingIsLost == Spec => []LostOnlyInAGap
<1>1. Init => Slack
  <2>1. SUFFICES ASSUME Init, NEW d \in stored PROVE Cardinality(Homes(d)) > Cardinality(Movers(d))
    BY DEF Slack
  <2>2. d \in DOMAIN Kinds /\ d \in Paths /\ d # None /\ entry[d] = d /\ node[d].data = d /\ calls = {}
    <3>1. d \in DOMAIN Kinds /\ d \in Paths /\ d # 0
      BY <2>1, FileWorkAssumption DEF Init, FsInit
    <3>. QED BY <2>1, <3>1 DEF Init, FsInit, None
  <2>3. d \in Homes(d)
    BY <2>2 DEF Homes, ContentAt
  <2>4. Movers(d) = {} /\ Cardinality({}) = 0
    BY <2>2, FS_EmptySet DEF Movers
  <2>5. IsFiniteSet(Homes(d))
    BY PathsAreNumbers, FS_Subset DEF Homes
  <2>6. Cardinality(Homes(d)) \in Nat /\ Cardinality(Homes(d)) # 0
    BY <2>3, <2>5, FS_CardinalityType, FS_EmptySet
  <2>. QED BY <2>4, <2>6
<1>2. FilesInv /\ Slack /\ [Next]_vars => Slack'
  BY StepNames, StutterNames, SlackStays DEF NamesStep
<1>3. FilesInv /\ Slack => LostOnlyInAGap
  <2>1. SUFFICES ASSUME FilesInv, Slack, NEW d \in stored \ (gone \union raced) PROVE d \in OnDisk
    BY DEF LostOnlyInAGap
  <2>2. Cardinality(Homes(d)) > Cardinality(Movers(d)) /\ IsFiniteSet(Movers(d))
    BY <2>1, Countable DEF Slack
  <2>3. Cardinality(Movers(d)) \in Nat /\ Cardinality({}) = 0
    BY <2>2, FS_CardinalityType, FS_EmptySet
  <2>4. Homes(d) # {}
    BY <2>2, <2>3
  <2>. QED BY <2>4 DEF Homes, OnDisk
<1>. QED BY <1>1, <1>2, <1>3, FilesTypeCorrect, PTL DEF Spec

-----------------------------------------------------------------------------
(* What is saved was typed: the editor waits for a save only once something *)
(* was typed since it was mounted.                                          *)

NoneAwaited == \A c \in calls : c.kind = "write" => ~c.awaited
TypedInv ==
    /\ ~ed.open => NoneAwaited
    /\ \A c \in calls : c.kind = "read" => ~ed.open /\ \A e \in calls : e.kind = "read" => c = e
    /\ ed.open => \/ ed.draft # ed.opened.content
                  \/ ed.read.content = ed.opened.content /\ NoneAwaited

\* No read and no save is asked for.
AsksNothing ==
    \A e \in calls' : e.kind \in {"read", "write"} =>
        \E c \in calls : c.id = e.id /\ c.kind = e.kind /\ (e.kind = "write" /\ e.awaited => c.awaited)

\* A request that ends asks for nothing.
LEMMA EndsAsksNothing ==
    ASSUME NEW c, Ends(c)
    PROVE  AsksNothing
BY DEF AsksNothing, Ends

\* Nor does one that goes on.
LEMMA AdvancesAsksNothing ==
    ASSUME NEW c \in calls, NEW d, Advances(c, d),
           d.id = c.id /\ d.kind = c.kind /\ (d.kind = "write" /\ d.awaited => c.awaited)
    PROVE  AsksNothing
BY DEF AsksNothing, Advances

\* The explorer service asks for nothing.
LEMMA ServiceAsksNothing ==
    ASSUME FilesInv, NEW c \in calls,
           \/ ReadOpens(c) \/ ReadAnswers(c)
           \/ WriteOpens(c) \/ WriteChecks(c) \/ WriteRenames(c) \/ WriteAnswers(c) \/ WriteFails(c)
           \/ MoveCopies(c) \/ MoveChecks(c) \/ MoveUnlinks(c) \/ MoveRenames(c)
           \/ DeleteRemoves(c)
    PROVE  AsksNothing
<1>1. CASE Ends(c)
  BY <1>1, EndsAsksNothing
<1>2. CASE (ReadOpens(c) \/ ReadAnswers(c)) /\ ~Ends(c)
  <2>1. c \in ReadCalls
    BY <1>2, KindTells DEF FilesInv, CallsOK, ReadOpens, ReadAnswers, ReadOK
  <2>2. PICK step, version, result, read :
           Advances(c, [c EXCEPT !.step = step, !.version = version])
           \/ Advances(c, [c EXCEPT !.step = step, !.result = result, !.read = read])
    BY <1>2 DEF ReadOpens, ReadAnswers, Answered
  <2>3. /\ [c EXCEPT !.step = step, !.version = version].id = c.id
        /\ [c EXCEPT !.step = step, !.version = version].kind = c.kind /\ c.kind = "read"
        /\ [c EXCEPT !.step = step, !.result = result, !.read = read].id = c.id
        /\ [c EXCEPT !.step = step, !.result = result, !.read = read].kind = c.kind
    BY <2>1 DEF ReadCalls
  <2>. QED BY <2>2, <2>3, AdvancesAsksNothing
<1>3. CASE WriteOpens(c) \/ WriteChecks(c) \/ WriteRenames(c) \/ WriteAnswers(c) \/ WriteFails(c)
  <2>1. c \in WriteCalls
    BY <1>3, KindTells
       DEF FilesInv, CallsOK, WriteOpens, WriteChecks, WriteRenames, WriteAnswers, WriteFails, WriteOK
  <2>2. \/ \E step : Advances(c, [c EXCEPT !.step = step])
        \/ \E result, read : Answered(c, result, read)
    BY <1>3 DEF WriteOpens, WriteChecks, WriteRenames, WriteAnswers, WriteFails
  <2>3. ASSUME NEW step, Advances(c, [c EXCEPT !.step = step]) PROVE AsksNothing
    <3>1. /\ [c EXCEPT !.step = step].id = c.id /\ [c EXCEPT !.step = step].kind = c.kind
          /\ [c EXCEPT !.step = step].awaited = c.awaited
      BY <2>1 DEF WriteCalls
    <3>. QED BY <2>3, <3>1, AdvancesAsksNothing
  <2>4. ASSUME NEW result, NEW read, Answered(c, result, read) PROVE AsksNothing
    <3>. DEFINE d == [c EXCEPT !.step = "answered", !.result = result, !.read = read]
    <3>1. d.id = c.id /\ d.kind = c.kind /\ d.awaited = c.awaited
      BY <2>1 DEF WriteCalls
    <3>. QED BY <2>4, <3>1, AdvancesAsksNothing DEF Answered
  <2>. QED BY <2>2, <2>3, <2>4
<1>4. CASE (MoveCopies(c) \/ MoveChecks(c)) /\ ~Ends(c)
  <2>1. c \in MoveCalls /\ c.kind = "move"
    BY <1>4, MoveFacts DEF MoveCopies, MoveChecks
  <2>2. PICK step, copy, data :
           Advances(c, [c EXCEPT !.step = step]) \/ Advances(c, [c EXCEPT !.step = step, !.copy = copy, !.data = data])
    BY <1>4 DEF MoveCopies, MoveChecks
  <2>3. /\ [c EXCEPT !.step = step].id = c.id /\ [c EXCEPT !.step = step].kind = c.kind
        /\ [c EXCEPT !.step = step, !.copy = copy, !.data = data].id = c.id
        /\ [c EXCEPT !.step = step, !.copy = copy, !.data = data].kind = c.kind
    BY <2>1 DEF MoveCalls
  <2>. QED BY <2>1, <2>2, <2>3, AdvancesAsksNothing
<1>5. CASE MoveUnlinks(c) \/ MoveRenames(c) \/ DeleteRemoves(c)
  BY <1>5, EndsAsksNothing DEF MoveUnlinks, MoveRenames, DeleteRemoves
<1>. QED BY <1>1, <1>2, <1>3, <1>4, <1>5

\* Nor does an upload.
LEMMA UploadAsksNothing ==
    ASSUME FilesInv, NEW c \in calls,
           UploadCreates(c) \/ UploadCompletes(c) \/ UploadFileFails(c) \/ UploadAborts(c) \/ UploadFinishes(c)
    PROVE  AsksNothing
<1>1. c \in UploadCalls /\ c.kind = "upload"
  BY UploadFacts DEF UploadCreates, UploadCompletes, UploadFileFails, UploadAborts, UploadFinishes
<1>2. ASSUME NEW d, Advances(c, d), d.id = c.id /\ d.kind = "upload" PROVE AsksNothing
  BY <1>1, <1>2, AdvancesAsksNothing
<1>3. CASE UploadCreates(c)
  <2>1. PICK plan, p, j :
           \/ Advances(c, [c EXCEPT !.step = "writing", !.plan = plan, !.at = p, !.made[p] = j])
           \/ Advances(c, [c EXCEPT !.plan = plan])
    BY <1>3 DEF UploadCreates
  <2>2. /\ [c EXCEPT !.step = "writing", !.plan = plan, !.at = p, !.made[p] = j].id = c.id
        /\ [c EXCEPT !.step = "writing", !.plan = plan, !.at = p, !.made[p] = j].kind = "upload"
        /\ [c EXCEPT !.plan = plan].id = c.id /\ [c EXCEPT !.plan = plan].kind = "upload"
    BY <1>1 DEF UploadCalls
  <2>. QED BY <1>2, <2>1, <2>2
<1>4. CASE UploadCompletes(c) \/ UploadFileFails(c)
  <2>1. PICK kept :
           Advances(c, [c EXCEPT !.step = "next", !.kept = kept]) \/ Advances(c, [c EXCEPT !.step = "next"])
    BY <1>4 DEF UploadCompletes, UploadFileFails
  <2>2. /\ [c EXCEPT !.step = "next", !.kept = kept].id = c.id
        /\ [c EXCEPT !.step = "next", !.kept = kept].kind = "upload"
        /\ [c EXCEPT !.step = "next"].id = c.id /\ [c EXCEPT !.step = "next"].kind = "upload"
    BY <1>1 DEF UploadCalls
  <2>. QED BY <1>2, <2>1, <2>2
<1>5. CASE UploadAborts(c) \/ UploadFinishes(c)
  BY <1>5, EndsAsksNothing DEF UploadAborts, UploadFinishes
<1>. QED BY <1>3, <1>4, <1>5

\* Everything but what the editor does, and asking for a file to open.
LEMMA OthersAskNothing ==
    ASSUME FilesInv, Next
    PROVE  \/ AsksNothing /\ ed' = ed
           \/ ServerRestarts \/ (\E c \in calls : SaveIsLost(c)) \/ EditorStep \/ Person
           \/ \E p \in Paths : AsksToRead(p)
<1>1. ASSUME NEW d, calls' = calls \union {d}, d.kind \notin {"read", "write"} PROVE AsksNothing
  BY <1>1 DEF AsksNothing
<1>2. ASSUME calls' = calls PROVE AsksNothing
  BY <1>2 DEF AsksNothing
<1>3. CASE Requests
  <2>1. ASSUME NEW p \in Paths, NEW q \in Paths, MoveStarts(FreshId, p, q) PROVE AsksNothing
    <3>1. MoveCall(FreshId, p, q).kind = "move"
      BY DEF MoveCall
    <3>. QED BY <1>1, <2>1, <3>1 DEF MoveStarts
  <2>2. ASSUME DeleteInspects(FreshId) PROVE AsksNothing
    BY <1>1, <2>2 DEF DeleteInspects
  <2>3. ASSUME UploadStarts(FreshId) PROVE AsksNothing
    BY <1>1, <2>3 DEF UploadStarts, UploadCall
  <2>. QED BY <1>3, <2>1, <2>2, <2>3 DEF Requests
<1>4. CASE Immediate \/ Shell
  <2>1. calls' = calls /\ ed' = ed
    BY <1>4 DEF Immediate, Shell, Creates, Previews, ShellWrites, ShellPuts, ShellRemoves, ShellWorksInside,
                ChangesDirectory, serviceVars
  <2>. QED BY <1>2, <2>1
<1>5. CASE Failures
  BY <1>5, ServiceAsksNothing, UploadAsksNothing DEF Failures
<1>6. CASE (ServiceStep \/ UploadStep) /\ UNCHANGED ed
  BY <1>6, ServiceAsksNothing, UploadAsksNothing DEF ServiceStep, UploadStep
<1>. QED BY <1>3, <1>4, <1>5, <1>6 DEF Next, Outside, Works, Uploads, Edits

\* Who asks for nothing and leaves the editor alone changes nothing about it.
LEMMA TypedStays ==
    ASSUME TypedInv, CallsOK, CallsOK', AsksNothing, ed' = ed
    PROVE  TypedInv'
<1>1. NoneAwaited => NoneAwaited'
  BY DEF NoneAwaited, AsksNothing
<1>2. ASSUME NEW c \in calls', c.kind = "read" PROVE ~ed'.open /\ \A e \in calls' : e.kind = "read" => c = e
  <2>1. PICK b \in calls : b.id = c.id /\ b.kind = "read"
    BY <1>2 DEF AsksNothing
  <2>2. ASSUME NEW e \in calls', e.kind = "read" PROVE c = e
    <3>1. PICK f \in calls : f.id = e.id /\ f.kind = "read"
      BY <2>2 DEF AsksNothing
    <3>2. b = f
      BY <2>1, <3>1 DEF TypedInv
    <3>. QED BY <1>2, <2>1, <2>2, <3>1, <3>2 DEF CallsOK
  <2>. QED BY <2>1, <2>2 DEF TypedInv
<1>. QED BY <1>1, <1>2 DEF TypedInv

\* An editor saves only what differs from what it was mounted with, at every
\* step of it.
LEMMA EditorTyped ==
    ASSUME FilesInv, FilesInv', TypedInv,
           \/ ServerRestarts \/ (\E c \in calls : SaveIsLost(c)) \/ EditorStep \/ Person
           \/ \E p \in Paths : AsksToRead(p)
    PROVE  TypedInv'
<1>0. CallsOK /\ EditorOK /\ ed \in EditorType /\ CallsOK'
  BY DEF FilesInv, EditorOK
\* The editor changes nothing of what it is about.
<1>1. ASSUME AsksNothing, ed'.open = ed.open, ed'.draft = ed.draft, ed'.opened = ed.opened, ed'.read = ed.read
      PROVE  TypedInv'
  <2>1. NoneAwaited => NoneAwaited'
    BY <1>1 DEF NoneAwaited, AsksNothing
  <2>2. ASSUME NEW c \in calls', c.kind = "read" PROVE ~ed'.open /\ \A e \in calls' : e.kind = "read" => c = e
    <3>1. PICK b \in calls : b.id = c.id /\ b.kind = "read"
      BY <1>1, <2>2 DEF AsksNothing
    <3>2. ASSUME NEW e \in calls', e.kind = "read" PROVE c = e
      <4>1. PICK f \in calls : f.id = e.id /\ f.kind = "read"
        BY <1>1, <3>2 DEF AsksNothing
      <4>2. b = f
        BY <3>1, <4>1 DEF TypedInv
      <4>. QED BY <1>0, <2>2, <3>1, <3>2, <4>1, <4>2 DEF CallsOK
    <3>. QED BY <1>1, <3>1, <3>2 DEF TypedInv
  <2>. QED BY <1>1, <2>1, <2>2 DEF TypedInv
<1>2. CASE ServerRestarts
  <2>1. ed' = ed \/ ed' = [ed EXCEPT !.saving = FALSE, !.error = TRUE]
    BY <1>2 DEF ServerRestarts
  <2>2. ed'.open = ed.open /\ ed'.draft = ed.draft /\ ed'.opened = ed.opened /\ ed'.read = ed.read
    BY <1>0, <2>1 DEF EditorType
  <2>. QED BY <1>1, <1>2, <2>2 DEF ServerRestarts, AsksNothing
<1>3. ASSUME NEW c \in calls, SaveIsLost(c) PROVE TypedInv'
  <2>1. c.kind = "write" /\ c.awaited /\ Advances(c, [c EXCEPT !.awaited = FALSE])
        /\ ed' = Saved(ed, [c EXCEPT !.result = "error"])
    BY <1>3 DEF SaveIsLost, Unawaited
  <2>2. c \in WriteCalls
    BY <1>0, <2>1, KindTells DEF CallsOK, WriteOK
  <2>3. /\ [c EXCEPT !.awaited = FALSE].id = c.id /\ [c EXCEPT !.awaited = FALSE].kind = c.kind
        /\ ~[c EXCEPT !.awaited = FALSE].awaited
    BY <2>2 DEF WriteCalls
  <2>4. AsksNothing
    BY <2>1, <2>3, AdvancesAsksNothing
  <2>5. PICK x : x = [c EXCEPT !.result = "error"]
    OBVIOUS
  <2>6. x.result = "error"
    BY <2>2, <2>5 DEF WriteCalls
  <2>7. ed'.open = ed.open /\ ed'.draft = ed.draft /\ ed'.opened = ed.opened /\ ed'.read = ed.read
    <3>1. ed' = Saved(ed, x) /\ x.result \in {"ok", "conflict", "error"}
      BY <2>1, <2>5, <2>6
    <3>2. /\ Saved(ed, x).open = ed.open /\ Saved(ed, x).draft = ed.draft /\ Saved(ed, x).opened = ed.opened
          /\ Saved(ed, x).read = IF x.result = "ok" THEN x.read ELSE ed.read
      BY <1>0, <2>6, <3>1, SavedIs
    <3>. QED BY <2>6, <3>1, <3>2
  <2>. QED BY <1>1, <2>4, <2>7
<1>4. CASE Saves
  <2>1. /\ calls' = calls \union {WriteCall(FreshId, ed.path, ed.read, ed.draft)}
        /\ ed' = [ed EXCEPT !.saving = TRUE, !.error = FALSE] /\ ed.open /\ ed.draft # ed.read.content
    BY <1>4 DEF Saves, Unsaved
  <2>2. ed'.open = ed.open /\ ed'.draft = ed.draft /\ ed'.opened = ed.opened /\ ed'.read = ed.read
    BY <1>0, <2>1 DEF EditorType
  <2>3. ed.draft # ed.opened.content
    BY <2>1 DEF TypedInv
  <2>4. \A c \in calls' : c.kind # "read"
    BY <2>1 DEF TypedInv, WriteCall
  <2>. QED BY <2>1, <2>2, <2>3, <2>4 DEF TypedInv
<1>5. ASSUME NEW c \in calls, EditorOpens(c) PROVE TypedInv'
  <2>1. /\ calls' = calls \ {c} /\ c.kind = "read" /\ ed' = Mounted(c.path, c.read) /\ ~ed.open
    BY <1>5 DEF EditorOpens, Ends, TypedInv
  <2>2. c.path \in Paths /\ c.read \in ReadType
    BY <1>0, <2>1, KindTells DEF CallsOK, ReadOK, ReadCalls
  <2>3. ed'.open /\ ed'.opened = c.read /\ ed'.read = c.read
    BY <2>1, <2>2, MountedIs
  <2>4. NoneAwaited'
    BY <2>1 DEF TypedInv, NoneAwaited
  <2>5. \A e \in calls' : e.kind # "read"
    BY <2>1 DEF TypedInv
  <2>. QED BY <2>3, <2>4, <2>5 DEF TypedInv
<1>6. ASSUME NEW c \in calls, SaveReturns(c) PROVE TypedInv'
  <2>1. c.kind = "write" /\ c.step = "answered" /\ Ends(c) /\ AsksNothing
        /\ ed' = IF c.awaited THEN Saved(ed, c) ELSE ed
    BY <1>6, EndsAsksNothing DEF SaveReturns, IsAwaited
  <2>2. CASE ~c.awaited
    BY <1>0, <2>1, <2>2, TypedStays
  <2>3. CASE c.awaited
    <3>1. ed.open /\ ed.draft # ed.opened.content
      BY <2>1, <2>3 DEF TypedInv, NoneAwaited
    <3>2. /\ c.read \in ReadType /\ c.result \in {"ok", "conflict", "error"}
          /\ c.result = "ok" => Known(c.read.version, c.read.content)
      <4>1. WriteOK(c)
        BY <1>0, <2>1, KindTells DEF CallsOK
      <4>. QED BY <2>1, <4>1 DEF WriteOK, WriteCalls, Results
    <3>3. ed'.open /\ ed'.draft # ed'.opened.content
      <4>1. Saved(ed, c).open = ed.open /\ Saved(ed, c).draft = ed.draft /\ Saved(ed, c).opened = ed.opened
        BY <1>0, <3>2, SavedIs
      <4>. QED BY <2>1, <2>3, <3>1, <4>1
    <3>4. \A e \in calls' : e.kind # "read"
      BY <2>1, <3>1 DEF TypedInv, Ends
    <3>. QED BY <3>3, <3>4 DEF TypedInv
  <2>. QED BY <2>2, <2>3
<1>7. CASE Types
  <2>1. /\ ed.open /\ clock' = clock + 1 /\ calls' = calls
        /\ ed' = [ed EXCEPT !.draft = clock', !.conflict = FALSE, !.error = FALSE]
    BY <1>7 DEF Types, serviceVars
  <2>2. PICK x : x = clock'
    OBVIOUS
  <2>3. ed' = [ed EXCEPT !.draft = x, !.conflict = FALSE, !.error = FALSE]
    BY <2>1, <2>2
  <2>4. ed'.open /\ ed'.draft = x /\ ed'.opened = ed.opened
    BY <1>0, <2>1, <2>3 DEF EditorType
  <2>5. x # ed.opened.content
    <3>1. ed.opened.content \in Nat /\ ed.opened.content <= clock /\ clock \in Nat
      BY <1>0, <2>1, EditorFacts DEF EditorType, ReadType, FilesInv, FsOK
    <3>. QED BY <2>1, <2>2, <3>1
  <2>6. \A e \in calls' : e.kind # "read"
    BY <2>1 DEF TypedInv
  <2>. QED BY <2>4, <2>5, <2>6 DEF TypedInv
<1>8. CASE EditorRemounts \/ EditorCloses
  <2>1. ed.open /\ calls' = {Unawaited(c) : c \in calls}
    BY <1>8 DEF EditorRemounts, EditorCloses
  <2>2. ASSUME NEW c \in calls
        PROVE  Unawaited(c).kind # "read" /\ (Unawaited(c).kind = "write" => ~Unawaited(c).awaited)
    <3>1. CASE c.kind # "write"
      BY <2>1, <3>1 DEF Unawaited, TypedInv
    <3>2. CASE c.kind = "write"
      <4>1. c \in WriteCalls
        BY <1>0, <3>2, KindTells DEF CallsOK, WriteOK
      <4>2. [c EXCEPT !.awaited = FALSE].kind = "write" /\ ~[c EXCEPT !.awaited = FALSE].awaited
        BY <4>1 DEF WriteCalls
      <4>. QED BY <3>2, <4>2 DEF Unawaited
    <3>. QED BY <3>1, <3>2
  <2>3. NoneAwaited' /\ \A c \in calls' : c.kind # "read"
    BY <2>1, <2>2 DEF NoneAwaited
  <2>4. ~ed'.open \/ (ed'.open /\ ed'.read = ed'.opened)
    <3>1. CASE EditorRemounts
      BY <1>0, <2>1, <3>1, EditorFacts, MountedIs DEF EditorRemounts, EditorType
    <3>2. CASE EditorCloses
      BY <3>2, NoEditorIs DEF EditorCloses
    <3>. QED BY <1>8, <3>1, <3>2
  <2>. QED BY <2>3, <2>4 DEF TypedInv
<1>9. ASSUME NEW p \in Paths, AsksToRead(p) PROVE TypedInv'
  <2>1. /\ ~ed.open /\ ed' = ed /\ calls' = calls \union {ReadCall(FreshId, p)}
        /\ \A c \in calls : c.kind # "read"
    BY <1>9 DEF AsksToRead
  <2>2. NoneAwaited'
    BY <2>1 DEF TypedInv, NoneAwaited, ReadCall
  <2>. QED BY <2>1, <2>2 DEF TypedInv
<1>. QED BY <1>2, <1>3, <1>4, <1>5, <1>6, <1>7, <1>8, <1>9 DEF EditorStep, Person

\* An editor saves only what was typed into it since it was mounted
\* (TextEditorPane.tsx).
THEOREM WhatIsSavedWasTyped == Spec => []OnlyTypedIsSaved
<1>1. Init => TypedInv
  BY NoEditorIs DEF Init, TypedInv, NoneAwaited
<1>2. FilesInv /\ FilesInv' /\ TypedInv /\ [Next]_vars => TypedInv'
  <2>1. SUFFICES ASSUME FilesInv, FilesInv', TypedInv, [Next]_vars PROVE TypedInv'
    OBVIOUS
  <2>2. CASE Next
    BY <2>1, <2>2, OthersAskNothing, TypedStays, EditorTyped DEF FilesInv
  <2>3. CASE UNCHANGED vars
    BY <2>1, <2>3, TypedStays DEF vars, serviceVars, AsksNothing, FilesInv
  <2>. QED BY <2>1, <2>2, <2>3
<1>3. TypedInv => OnlyTypedIsSaved
  BY DEF TypedInv, OnlyTypedIsSaved, Unsaved
<1>. QED BY <1>1, <1>2, <1>3, FilesTypeCorrect, PTL DEF Spec

=============================================================================
