------------------------------ MODULE DipxOpen ------------------------------
(***************************************************************************)
(* dipx.Open (dipx/dipx.go, zipio.go, helpers.go, resolve.go): the stages  *)
(* a bundle passes before anybody sees a workflow of it.  A stage that     *)
(* finds a fault ends the call with that error.  The two loops are         *)
(* stepwise: the hash check, whose cap shrinks with what it has read, and  *)
(* the depth-first search for reference cycles.                            *)
(***************************************************************************)
EXTENDS DipxBundle

CONSTANTS
    Bundles,        \* the bundles that may be opened
    CanCancel       \* TRUE: the context may be cancelled

(* The entries of a zip, the files of a manifest and the refs of a content *)
(* are sequences, a content has a length, and a manifest names paths.      *)
IsBundle(b) ==
    /\ b.zip \in Seq(Range(b.zip))
    /\ \A i \in DOMAIN b.zip :
          b.zip[i].content.refs \in Seq(STRING) /\ b.zip[i].content.size \in Nat
    /\ b.manifest # NoManifest =>
          b.manifest.files \in Seq(Range(b.manifest.files)) /\ PathsOf(b.manifest) \subseteq Paths

ASSUME BundlesAssumption == \A b \in Bundles : IsBundle(b)

VARIABLES
    bundle, lax,    \* the inputs: the zip and the mode
    stage,          \* what comes next; "done" at the end
    result,         \* "none", "ok" or the error Open returned
    at,             \* position in manifest.files of the hash loop and of detectCyclesAll
    verified,       \* path -> content, the contents whose hash matched
    total,          \* uncompressed bytes so far
    stack,          \* dfsVisit: the active path, its nodes are gray
    nextRef,        \* nextRef[p]: position of the ref p's loop looks at next
    black           \* the nodes dfsVisit has left, for this root

search == <<stack, nextRef, black>>
vars == <<bundle, lax, stage, result, at, verified, total, search>>

manifest == bundle.manifest
files == manifest.files
Listed == PathsOf(manifest)
Graph(p) == IF p \in DOMAIN verified THEN RefTargets(p, verified[p]) ELSE <<>>

Begin ==
    /\ stage = "zip" /\ result = "none"
    /\ at = 1 /\ total = 0
    /\ verified = [p \in {} |-> Escapes]
    /\ stack = <<>> /\ nextRef = [p \in Paths |-> 1] /\ black = {}

Init == bundle \in Bundles /\ lax \in BOOLEAN /\ Begin

Finish(r) == stage' = "done" /\ result' = r

\* One stage: on to the next, or out with the error it found.
Pass(from, error, to) ==
    /\ stage = from
    /\ IF error = "none" THEN stage' = to /\ UNCHANGED result ELSE Finish(error)
    /\ UNCHANGED <<bundle, lax, at, verified, total, search>>

-----------------------------------------------------------------------------
(* The zip and its manifest *)

OpenConstrainedZip ==
    Pass("zip",
         IF Len(bundle.zip) + (IF manifest = NoManifest THEN 0 ELSE 1) > MaxFiles THEN "CapExceeded"
         ELSE IF Repeats(bundle.zip, LAMBDA e : Fold(e.name)) THEN "ZipFeatureForbidden"
         ELSE "none",
         "manifest")

ReadManifest ==
    Pass("manifest",
         IF manifest = NoManifest THEN "ManifestMissing" ELSE ShapeError(manifest),
         "extras")

CheckExtraEntries ==
    Pass("extras",
         IF ~lax /\ \E i \in DOMAIN bundle.zip : bundle.zip[i].name \notin Listed
         THEN "FileUnexpected" ELSE "none",
         "count")

CountFiles ==
    Pass("count", IF Len(files) > MaxFiles THEN "CapExceeded" ELSE "none", "hash")

-----------------------------------------------------------------------------
(* verifyEntriesLoop *)

EntriesNamed(name) == {i \in DOMAIN bundle.zip : bundle.zip[i].name = name}

ContentOf(name) == bundle.zip[CHOOSE i \in EntriesNamed(name) : TRUE].content

\* Mutant: every file has the whole per-file cap.
CapPerFile == PerFileCap

\* verifyEntryWithBudget: a file may use what the earlier ones left.
EffectiveCap == IF PerFileCap < TotalCap - total THEN PerFileCap ELSE TotalCap - total

HashError(f) ==
    IF EffectiveCap <= 0 THEN "CapExceeded"
    ELSE IF EntriesNamed(f.path) = {} THEN "FileMissing"
    ELSE IF ContentOf(f.path).size > EffectiveCap THEN "CapExceeded"
    ELSE IF ContentOf(f.path) # f.sha THEN "HashMismatch"
    ELSE "none"

VerifyEntry ==
    /\ stage = "hash" /\ at <= Len(files)
    /\ LET f == files[at]
       IN  IF HashError(f) = "none"
           THEN /\ verified' = [p \in DOMAIN verified \cup {f.path} |->
                                   IF p = f.path THEN ContentOf(p) ELSE verified[p]]
                /\ total' = total + ContentOf(f.path).size
                /\ at' = at + 1
                /\ UNCHANGED <<stage, result>>
           ELSE Finish(HashError(f)) /\ UNCHANGED <<at, verified, total>>
    /\ UNCHANGED <<bundle, lax, search>>

HashesDone ==
    /\ stage = "hash" /\ at > Len(files)
    /\ stage' = "parse" /\ at' = 1
    /\ UNCHANGED <<bundle, lax, result, verified, total, search>>

-----------------------------------------------------------------------------
(* parseAndLink *)

\* The map of the files is walked in any order: any faulty one is reported.
ParseAllWorkflows ==
    /\ stage = "parse"
    /\ LET faulty == {p \in Listed : ~verified[p].parses}
       IN  IF faulty = {} THEN Pass("parse", "none", "refs")
           ELSE \E p \in faulty :
                   Pass("parse", IF p = manifest.entry THEN "EntryParse" ELSE "SubgraphParse", "refs")

\* buildRefGraph refuses a ref that leaves workflows/, verifyRefsListed one
\* that leads to a file the manifest does not have.
TargetsOf(p) == Range(Graph(p))

\* Mutant: only the entry's refs have to be listed.
CheckRefsOfEntry ==
    Pass("refs",
         IF \E p \in Listed : Escapes \in TargetsOf(p) THEN "PathUnsafe"
         ELSE IF ~(TargetsOf(manifest.entry) \subseteq Listed) THEN "RefEscape" ELSE "none",
         "walk")

CheckRefs ==
    Pass("refs",
         IF \E p \in Listed : Escapes \in TargetsOf(p) THEN "PathUnsafe"
         ELSE IF \E p \in Listed : ~(TargetsOf(p) \subseteq Listed) THEN "RefEscape" ELSE "none",
         "walk")

Top == Last(stack)
Gray == Range(stack)

\* detectCycles: a search with fresh colours from the next file.
StartSearch ==
    /\ stage = "walk" /\ stack = <<>> /\ at <= Len(files)
    /\ stack' = <<files[at].path>>
    /\ nextRef' = [nextRef EXCEPT ![files[at].path] = 1]
    /\ black' = {}
    /\ UNCHANGED <<bundle, lax, stage, result, at, verified, total>>

\* Mutant: a node on the active path is not told from one already left.
VisitNewOnly ==
    /\ stage = "walk" /\ stack # <<>>
    /\ nextRef[Top] <= Len(Graph(Top))
    /\ LET next == Graph(Top)[nextRef[Top]]
       IN  IF next \in Gray \cup black
           THEN nextRef' = [nextRef EXCEPT ![Top] = @ + 1] /\ UNCHANGED <<stack, stage, result>>
           ELSE IF Len(stack) > MaxDepth THEN Finish("CapExceeded") /\ UNCHANGED <<stack, nextRef>>
           ELSE /\ stack' = Append(stack, next)
                /\ nextRef' = [nextRef EXCEPT ![Top] = @ + 1, ![next] = 1]
                /\ UNCHANGED <<stage, result>>
    /\ UNCHANGED <<bundle, lax, at, verified, total, black>>

\* Mutant: a node already left counts as one on the active path.
VisitBlackAsGray ==
    /\ stage = "walk" /\ stack # <<>>
    /\ nextRef[Top] <= Len(Graph(Top))
    /\ LET next == Graph(Top)[nextRef[Top]]
       IN  IF next \in Gray \cup black THEN Finish("RefCycle") /\ UNCHANGED <<stack, nextRef>>
           ELSE IF Len(stack) > MaxDepth THEN Finish("CapExceeded") /\ UNCHANGED <<stack, nextRef>>
           ELSE /\ stack' = Append(stack, next)
                /\ nextRef' = [nextRef EXCEPT ![Top] = @ + 1, ![next] = 1]
                /\ UNCHANGED <<stage, result>>
    /\ UNCHANGED <<bundle, lax, at, verified, total, black>>

\* dfsVisitEdge, with the depth check of the visit it makes.
VisitEdge ==
    /\ stage = "walk" /\ stack # <<>>
    /\ nextRef[Top] <= Len(Graph(Top))
    /\ LET next == Graph(Top)[nextRef[Top]]
       IN  IF next \in Gray THEN Finish("RefCycle") /\ UNCHANGED <<stack, nextRef>>
           ELSE IF next \in black
           THEN nextRef' = [nextRef EXCEPT ![Top] = @ + 1] /\ UNCHANGED <<stack, stage, result>>
           ELSE IF Len(stack) > MaxDepth THEN Finish("CapExceeded") /\ UNCHANGED <<stack, nextRef>>
           ELSE /\ stack' = Append(stack, next)
                /\ nextRef' = [nextRef EXCEPT ![Top] = @ + 1, ![next] = 1]
                /\ UNCHANGED <<stage, result>>
    /\ UNCHANGED <<bundle, lax, at, verified, total, black>>

LeaveNode ==
    /\ stage = "walk" /\ stack # <<>>
    /\ nextRef[Top] > Len(Graph(Top))
    /\ stack' = Front(stack)
    /\ black' = black \cup {Top}
    /\ at' = IF Len(stack) = 1 THEN at + 1 ELSE at
    /\ UNCHANGED <<bundle, lax, stage, result, verified, total, nextRef>>

WalkDone ==
    /\ stage = "walk" /\ stack = <<>> /\ at > Len(files)
    /\ Pass("walk", "none", "conditions")

NormalizeConditions ==
    /\ stage = "conditions"
    /\ Finish(IF \A p \in Listed : verified[p].conditions THEN "ok" ELSE "SubgraphParse")
    /\ UNCHANGED <<bundle, lax, at, verified, total, search>>

\* The context is looked at before each of these stages.
Cancelled ==
    /\ CanCancel
    /\ stage \in {"zip", "extras", "count", "parse", "refs", "conditions"}
          \/ (stage = "hash" /\ at <= Len(files))
    /\ Finish("Cancelled")
    /\ UNCHANGED <<bundle, lax, at, verified, total, search>>

Next ==
    \/ OpenConstrainedZip \/ ReadManifest \/ CheckExtraEntries \/ CountFiles
    \/ VerifyEntry \/ HashesDone
    \/ ParseAllWorkflows \/ CheckRefs
    \/ StartSearch \/ VisitEdge \/ LeaveNode \/ WalkDone
    \/ NormalizeConditions \/ Cancelled

Spec == Init /\ [][Next]_vars /\ WF_vars(Next)

-----------------------------------------------------------------------------
(* Properties                                                              *)

Errors ==
    {"CapExceeded", "ZipFeatureForbidden", "ManifestMissing", "UnsupportedFormatVersion",
     "ManifestInvalid", "PathUnsafe", "EntryNotInManifest", "FileUnexpected", "FileMissing",
     "HashMismatch", "EntryParse", "SubgraphParse", "RefEscape", "RefCycle", "Cancelled"}

Stages == {"zip", "manifest", "extras", "count", "hash", "parse", "refs", "walk", "conditions", "done"}

TypeOK ==
    /\ lax \in BOOLEAN
    /\ stage \in Stages /\ result \in {"none", "ok"} \cup Errors
    /\ (stage = "done") = (result # "none")
    /\ at \in Nat \ {0} /\ total \in Nat
    /\ DOMAIN verified \subseteq Paths
    /\ stack \in Seq(Paths) /\ black \subseteq Paths
    /\ nextRef \in [Paths -> Nat \ {0}]

\* Every non-empty set of nodes has one without an edge into the set.
Acyclic(S) ==
    \A T \in SUBSET S : T # {} => \E p \in T : TargetsOf(p) \cap T = {}

\* SizeUpTo[n]: the uncompressed bytes of the first n files of the manifest.
Present(i) == EntriesNamed(files[i].path) # {}
SizeOf(i) == IF Present(i) THEN ContentOf(files[i].path).size ELSE 0
SizeUpTo ==
    LET sum[n \in 0..Len(files)] == IF n = 0 THEN 0 ELSE sum[n - 1] + SizeOf(n)
    IN  sum

Fits(i) == SizeOf(i) <= PerFileCap /\ SizeUpTo[i] <= TotalCap
Matches(i) == Present(i) /\ ContentOf(files[i].path) = files[i].sha

\* The first n files are there, within the caps and with the listed digests.
InOrder(n) == \A i \in DOMAIN files \cap 1..n : Matches(i) /\ Fits(i)

(* What Open accepts is what the manifest promises: the files listed are   *)
(* there with the listed contents, no others in strict mode, each within   *)
(* its cap and together within the total one, and these contents are what  *)
(* the bundle hands out.                                                   *)
ContentsAreVerified ==
    result = "ok" =>
        /\ InOrder(Len(files))
        /\ DOMAIN verified = Listed
        /\ \A i \in DOMAIN files : verified[files[i].path] = files[i].sha
        /\ ~lax => \A i \in DOMAIN bundle.zip : bundle.zip[i].name \in Listed

(* ... every ref leads to a file of the bundle, ...                        *)
RefsAreClosed == result = "ok" => \A p \in Listed : TargetsOf(p) \subseteq Listed

(* ... and no chain of refs comes back to where it was, reachable from the *)
(* entry or not ("the ref graph is acyclic when rooted at any              *)
(* manifest-listed workflow", helpers.go:111).                             *)
RefsAreAcyclic == result = "ok" => Acyclic(Listed)

RefsClosed == \A p \in Listed : TargetsOf(p) \subseteq Listed
AllParse == \A p \in Listed : ContentOf(p).parses

\* An error of a stage is only seen when all earlier stages passed: the
\* order of dipx.go:94.
EarlierStagesPassed(r) ==
    /\ r \in {"FileMissing", "HashMismatch", "EntryParse"} => ShapeError(manifest) = "none"
    /\ r \in {"EntryParse", "SubgraphParse", "RefEscape", "RefCycle"} => InOrder(Len(files))
    /\ r \in {"RefEscape", "RefCycle"} => AllParse
    /\ r = "RefCycle" => RefsClosed

ZipOrManifestAtFault(r) ==
    /\ r = "ZipFeatureForbidden" =>
          \E i, j \in DOMAIN bundle.zip : i # j /\ Fold(bundle.zip[i].name) = Fold(bundle.zip[j].name)
    /\ r = "ManifestMissing" => manifest = NoManifest
    /\ r = "UnsupportedFormatVersion" => manifest.version # 1
    /\ r = "ManifestInvalid" =>
          files = <<>> \/ \E i, j \in DOMAIN files : i # j /\ Fold(files[i].path) = Fold(files[j].path)
    /\ r = "EntryNotInManifest" => manifest.entry \notin Listed
    /\ r = "FileUnexpected" => ~lax /\ \E i \in DOMAIN bundle.zip : bundle.zip[i].name \notin Listed
    /\ r = "PathUnsafe" => \/ (Listed \cup {manifest.entry}) \cap Unsafe # {}
                           \/ \E p \in Listed : Escapes \in TargetsOf(p)

\* The file the loop of the digests stopped at is the first one at fault: it
\* is not there, or too large for what is left, or fits and differs.
FileAtFault(r) ==
    /\ at \in DOMAIN files /\ InOrder(at - 1)
    /\ r = "FileMissing" => ~Present(at)
    /\ r = "HashMismatch" => Present(at) /\ Fits(at) /\ ~Matches(at)
    /\ r = "CapExceeded" => SizeUpTo[at - 1] = TotalCap \/ ~Fits(at)

TooManyFiles ==
    \/ Len(bundle.zip) > MaxFiles
    \/ manifest # NoManifest /\ (Len(bundle.zip) + 1 > MaxFiles \/ Len(files) > MaxFiles)

ChainTooLong ==
    /\ Len(stack) > MaxDepth
    /\ \A i \in 1..(Len(stack) - 1) : stack[i + 1] \in TargetsOf(stack[i])

\* A condition is only refused in a bundle with nothing else wrong.
TextAtFault(r) ==
    /\ r = "EntryParse" => ~ContentOf(manifest.entry).parses
    /\ r = "SubgraphParse" =>
          \/ \E p \in Listed \ {manifest.entry} : ~ContentOf(p).parses
          \/ /\ \E p \in Listed : ~ContentOf(p).conditions
             /\ AllParse /\ RefsClosed /\ Acyclic(Listed)

\* The bundle deserves to be refused with r.
Earned(r) ==
    /\ EarlierStagesPassed(r) /\ ZipOrManifestAtFault(r) /\ TextAtFault(r)
    /\ r \in {"FileMissing", "HashMismatch"} => FileAtFault(r)
    /\ r = "CapExceeded" => TooManyFiles \/ FileAtFault(r) \/ ChainTooLong
    /\ r = "RefEscape" => ~RefsClosed
    /\ r = "RefCycle" => ~Acyclic(Listed)
    /\ r = "Cancelled" =>
          CanCancel /\ stack = <<>> /\ (manifest # NoManifest => InOrder(at - 1))

(* Every refusal has the cause it names, and none that an earlier stage    *)
(* should have found: no byte is parsed before all of them are verified    *)
(* (zipio.go:151), a digest or a cap is blamed on the first file at fault  *)
(* in the order of the manifest, a cycle is reported only where there is   *)
(* one and a depth only where a chain of more than MaxDepth refs is (the   *)
(* search takes a diamond for neither), and a cancellation never hides a   *)
(* file that was already found at fault.                                   *)
RefusalsAreEarned == Earned(result)

=============================================================================
