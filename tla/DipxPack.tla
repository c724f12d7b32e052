------------------------------ MODULE DipxPack ------------------------------
(***************************************************************************)
(* dipx.Pack (dipx/dipx.go, helpers.go): a breadth-first walk over the     *)
(* source tree from the entry file, a manifest of what it met, and the     *)
(* bundle.  Editors may change files while it walks; every file is read at *)
(* most once.                                                              *)
(*                                                                         *)
(* A source file has the name it gets in the bundle: bundlePathFor only    *)
(* puts "workflows/" before the relative path.  A ref is resolved on disk  *)
(* here and lexically in the bundle by Open; the two need not agree.       *)
(***************************************************************************)
EXTENDS DipxBundle, FiniteSets

CONSTANTS
    Entry,              \* the entry file
    DiskResolve(_, _),  \* DiskResolve(ref, cur): resolveRefOnDisk
    Trees,              \* the source trees it may start with
    EditsOf,            \* EditsOf[p]: what p may be changed to
    MaxEdits,           \* bound: edits while it packs
    Missing, Symlink    \* what a path of a tree may hold besides a content

ASSUME EntryAssumption == Entry \in Paths

DiskTargets(p, content) ==
    [i \in DOMAIN content.refs |-> DiskResolve(content.refs[i], p)]

\* What a path may hold: a file, perhaps an empty one, whose refs lead to paths
\* or out of the tree, or no file that Pack would open.
IsSource(p, c) ==
    \/ c \in {Missing, Symlink}
    \/ /\ c.refs \in Seq(STRING) /\ c.size \in Nat
       /\ DiskTargets(p, c) \in Seq(Paths \cup {Escapes})

ASSUME SourcesAssumption ==
    /\ \A t \in Trees : DOMAIN t = Paths /\ \A p \in Paths : IsSource(p, t[p])
    /\ \A p \in Paths : \A c \in EditsOf[p] : IsSource(p, c)

\* All that a path may ever hold.
Contents == (UNION {Range(t) : t \in Trees}) \cup (UNION {EditsOf[p] : p \in Paths})

ASSUME MarkerAssumption ==
    NoManifest \notin [version : {1}, entry : Paths, files : Seq([path : Paths, sha : Contents])]

VARIABLES
    disk,       \* path -> content, Missing or Symlink
    phase,      \* "walk", "manifest", "write" or "done"
    outcome,    \* "none", "ok" or the error Pack returned
    queue,      \* packWalkState.queue
    visited,    \* packWalkState.visited
    all,        \* packWalkState.all: the packed files, with their contents
    output,     \* the bundle written
    edits       \* bounds the edits

vars == <<disk, phase, outcome, queue, visited, all, output, edits>>

Init ==
    /\ disk \in Trees
    /\ phase = "walk" /\ outcome = "none"
    /\ queue = <<Entry>> /\ visited = {} /\ all = <<>>
    /\ output = NoManifest /\ edits = 0

Edit ==
    /\ edits < MaxEdits /\ phase # "done"
    /\ \E p \in Paths : \E c \in EditsOf[p] : disk' = [disk EXCEPT ![p] = c]
    /\ edits' = edits + 1
    /\ UNCHANGED <<phase, outcome, queue, visited, all, output>>

Quit(r) == phase' = "done" /\ outcome' = r

\* What readAndRecord and enqueueRefs find wrong with a file, in their order.
SourceError(p) ==
    IF disk[p] = Missing THEN "IOError"
    ELSE IF disk[p] = Symlink THEN "PathUnsafe"
    ELSE IF disk[p].size > PerFileCap THEN "CapExceeded"
    ELSE IF ~disk[p].parses THEN (IF p = Entry THEN "EntryParse" ELSE "SubgraphParse")
    ELSE IF p \in Unsafe THEN "PathUnsafe"
    ELSE IF Escapes \in Range(DiskTargets(p, disk[p])) THEN "RefEscape"
    ELSE "none"

\* Mutant: only the first ref of a file is followed.
VisitFirstRef ==
    /\ phase = "walk" /\ queue # <<>>
    /\ LET cur == Head(queue)
       IN  IF cur \in visited
           THEN queue' = Tail(queue) /\ UNCHANGED <<phase, outcome, visited, all>>
           ELSE /\ visited' = visited \cup {cur}
                /\ IF SourceError(cur) # "none"
                   THEN Quit(SourceError(cur)) /\ UNCHANGED <<queue, all>>
                   ELSE /\ all' = Append(all, File(cur, disk[cur]))
                        /\ queue' = IF disk[cur].refs = <<>> THEN Tail(queue)
                                    ELSE Append(Tail(queue), DiskTargets(cur, disk[cur])[1])
                        /\ UNCHANGED <<phase, outcome>>
    /\ UNCHANGED <<disk, output, edits>>

\* Mutant: the visited set is not consulted.
VisitForever ==
    /\ phase = "walk" /\ queue # <<>>
    /\ LET cur == Head(queue)
       IN  /\ visited' = visited \cup {cur}
           /\ IF SourceError(cur) # "none"
              THEN Quit(SourceError(cur)) /\ UNCHANGED <<queue, all>>
              ELSE /\ all' = IF cur \in visited THEN all ELSE Append(all, File(cur, disk[cur]))
                   /\ queue' = Tail(queue) \o DiskTargets(cur, disk[cur])
                   /\ UNCHANGED <<phase, outcome>>
    /\ UNCHANGED <<disk, output, edits>>

\* visitNext
VisitNext ==
    /\ phase = "walk" /\ queue # <<>>
    /\ LET cur == Head(queue)
       IN  IF cur \in visited
           THEN queue' = Tail(queue) /\ UNCHANGED <<phase, outcome, visited, all>>
           ELSE /\ visited' = visited \cup {cur}
                /\ IF SourceError(cur) # "none"
                   THEN Quit(SourceError(cur)) /\ UNCHANGED <<queue, all>>
                   ELSE /\ all' = Append(all, File(cur, disk[cur]))
                        /\ queue' = Tail(queue) \o DiskTargets(cur, disk[cur])
                        /\ UNCHANGED <<phase, outcome>>
    /\ UNCHANGED <<disk, output, edits>>

WalkEnds ==
    /\ phase = "walk" /\ queue = <<>>
    /\ phase' = "manifest"
    /\ UNCHANGED <<disk, outcome, queue, visited, all, output, edits>>

\* The files by path: sort.Slice with the order of the paths, of which there
\* are no two alike.
Position(p) == CHOOSE i \in DOMAIN PathOrder : PathOrder[i] = p
Before(fs, f) == {g \in Range(fs) : Position(g.path) < Position(f.path)}
Sorted(fs) == [k \in DOMAIN fs |-> CHOOSE f \in Range(fs) : Cardinality(Before(fs, f)) = k - 1]

BuildManifest ==
    /\ phase = "manifest"
    /\ LET error == ShapeError(Manifest(Entry, Sorted(all)))
       IN  IF error = "none" THEN phase' = "write" /\ UNCHANGED outcome ELSE Quit(error)
    /\ UNCHANGED <<disk, queue, visited, all, output, edits>>

\* Mutant: the contents are read again for the zip.
WriteBundleFromDisk ==
    /\ phase = "write"
    /\ output' = [zip |-> [i \in DOMAIN all |-> ZipEntry(Sorted(all)[i].path, disk[Sorted(all)[i].path])],
                  manifest |-> Manifest(Entry, Sorted(all))]
    /\ Quit("ok")
    /\ UNCHANGED <<disk, queue, visited, all, edits>>

WriteBundle ==
    /\ phase = "write"
    /\ output' = [zip |-> [i \in DOMAIN all |-> ZipEntry(Sorted(all)[i].path, Sorted(all)[i].sha)],
                  manifest |-> Manifest(Entry, Sorted(all))]
    /\ Quit("ok")
    /\ UNCHANGED <<disk, queue, visited, all, edits>>

\* The context is looked at in the walk, before the manifest is used and
\* while the bundle is written.
PackCancelled ==
    /\ phase \in {"walk", "write"}
    /\ Quit("Cancelled")
    /\ UNCHANGED <<disk, queue, visited, all, output, edits>>

PackStep == VisitNext \/ WalkEnds \/ BuildManifest \/ WriteBundle
Next == PackStep \/ PackCancelled \/ Edit

Spec == Init /\ [][Next]_vars /\ WF_vars(PackStep)

-----------------------------------------------------------------------------
(* Properties                                                              *)

Outcomes ==
    {"none", "ok", "IOError", "PathUnsafe", "CapExceeded", "EntryParse", "SubgraphParse",
     "RefEscape", "ManifestInvalid", "Cancelled"}

TypeOK ==
    /\ phase \in {"walk", "manifest", "write", "done"}
    /\ outcome \in Outcomes /\ (phase = "done") = (outcome # "none")
    /\ queue \in Seq(Paths) /\ visited \subseteq Paths
    /\ \A i \in DOMAIN all : all[i].path \in Paths \ Unsafe
    /\ edits \in Nat

PackedPaths == {all[i].path : i \in DOMAIN all}
RefsPacked == UNION {Range(DiskTargets(all[i].path, all[i].sha)) : i \in DOMAIN all}

\* The digests of the manifest are those of the bytes in the zip ("Pack reads
\* each source file exactly once", the format's design document, line 292).
DigestsMatch ==
    /\ Len(output.zip) = Len(output.manifest.files)
    /\ \A i \in DOMAIN output.zip :
          /\ output.zip[i].name = output.manifest.files[i].path
          /\ output.zip[i].content = output.manifest.files[i].sha

(* "Walks every transitively-reachable subgraph ref" (dipx.go:226): the    *)
(* bundle has the entry, every file that the packed text of a file refers  *)
(* to, and no others, each once and with the digest of the bytes written,  *)
(* however the sources changed between their reading and the writing.      *)
BundleIsClosure ==
    outcome = "ok" =>
        /\ PackedPaths = {Entry} \cup RefsPacked
        /\ Cardinality(PackedPaths) = Len(all)
        /\ PathsOf(output.manifest) = PackedPaths /\ output.manifest.entry = Entry
        /\ DigestsMatch

=============================================================================
