----------------------------- MODULE DipxBundle -----------------------------
(***************************************************************************)
(* What dipx.Pack writes and dipx.Open reads (dipx/manifest.go, resolve.go,*)
(* helpers.go): bundles, manifests and the references between workflows.   *)
(*                                                                         *)
(*    content    [refs : Seq(Ref), size, parses, conditions]               *)
(*               the bytes of one .dip file, as far as the code looks: the *)
(*               refs of its nodes, its length, whether the parser accepts *)
(*               it and whether its conditions do.  The digest of a        *)
(*               content is the content itself: SHA-256 does not collide.  *)
(*    manifest   [version, entry, files : Seq([path, sha])]                *)
(*    bundle     [zip : Seq([name, content]), manifest]                    *)
(*               the file entries of the zip, manifest.json aside.         *)
(***************************************************************************)
EXTENDS Sequences, SequencesExt, Integers

CONSTANTS
    PathOrder,      \* the paths in lexicographic order
    Unsafe,         \* those of them that Canonicalize refuses
    Resolve(_, _),  \* Resolve(ref, parent): resolveLexically; Escapes if refused
    Fold(_),        \* strings.ToLower
    MaxFiles,       \* 10000
    PerFileCap,     \* 50 MB
    TotalCap,       \* 100 MB
    MaxDepth,       \* 64
    NoManifest      \* a zip without manifest.json

Escapes == ""
Paths == Range(PathOrder)

ASSUME PathsAssumption ==
    PathOrder \in Seq(Paths) /\ Escapes \notin Paths /\ Unsafe \subseteq Paths

ASSUME CapsAssumption ==
    /\ MaxFiles \in Nat /\ MaxDepth \in Nat
    /\ PerFileCap \in Nat \ {0} /\ TotalCap \in Nat

Content(refs, size, parses, conditions) ==
    [refs |-> refs, size |-> size, parses |-> parses, conditions |-> conditions]

File(path, sha) == [path |-> path, sha |-> sha]
ZipEntry(name, content) == [name |-> name, content |-> content]
Manifest(entry, files) == [version |-> 1, entry |-> entry, files |-> files]

PathsOf(m) == {m.files[i].path : i \in DOMAIN m.files}

\* Two positions of s hold the same thing, seen through Key.
Repeats(s, Key(_)) == \E i, j \in DOMAIN s : i < j /\ Key(s[i]) = Key(s[j])

(***************************************************************************)
(* verifyManifestShape.  The files are looked at one by one, so the first  *)
(* faulty one decides the error.                                           *)
(***************************************************************************)
FaultyFiles(m) ==
    {i \in DOMAIN m.files :
        \/ m.files[i].path \in Unsafe
        \/ \E j \in 1..(i - 1) : Fold(m.files[j].path) = Fold(m.files[i].path)}

ShapeError(m) ==
    IF m.version # 1 THEN "UnsupportedFormatVersion"
    ELSE IF m.files = <<>> THEN "ManifestInvalid"
    ELSE IF FaultyFiles(m) # {}
         THEN IF m.files[Min(FaultyFiles(m))].path \in Unsafe THEN "PathUnsafe" ELSE "ManifestInvalid"
    ELSE IF m.entry \in Unsafe THEN "PathUnsafe"
    ELSE IF m.entry \notin PathsOf(m) THEN "EntryNotInManifest"
    ELSE "none"

\* refsForWorkflow: where the refs of a file lead, in the order of its nodes.
RefTargets(path, content) ==
    [i \in DOMAIN content.refs |-> Resolve(content.refs[i], path)]

=============================================================================
