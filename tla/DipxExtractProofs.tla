------------------------- MODULE DipxExtractProofs --------------------------
(***************************************************************************)
(* What dipx.Extract promises to a caller that is alone: for every set of  *)
(* bundles, every number of calls, and an error or a crash at any file     *)
(* system call.  With two callers none of it holds (see the README).       *)
(***************************************************************************)
EXTENDS DipxExtract, TLAPS

-----------------------------------------------------------------------------
(* Lemmas about the file system calls                                      *)

(* Removing a file or an empty directory leaves a tree or nothing.         *)
LEMMA ShrinkIsTyped ==
  ASSUME NEW t \in Trees \cup {Absent}
  PROVE  Shrink(t) \subseteq Trees \cup {Absent}
<1>1. CASE t = Absent \/ DOMAIN t = {}
  BY <1>1 DEF Shrink
<1>2. CASE ~(t = Absent \/ DOMAIN t = {})
  <2>1. PICK fs \in SUBSET Names : t \in [fs -> Bundles \cup {Torn}]
    BY <1>2 DEF Trees
  <2>2. ASSUME NEW g \in DOMAIN t
        PROVE  [f \in DOMAIN t \ {g} |-> t[f]] \in [fs \ {g} -> Bundles \cup {Torn}]
    BY <2>1
  <2>3. ASSUME NEW g \in DOMAIN t
        PROVE  [f \in DOMAIN t \ {g} |-> t[f]] \in Trees
    BY <2>1, <2>2 DEF Trees
  <2>4. QED
    BY <1>2, <2>3 DEF Shrink
<1>3. QED
  BY <1>1, <1>2

(* Writing a file gives a tree with that file.                             *)
LEMMA PutIsTyped ==
  ASSUME NEW t \in Trees \cup {Absent}, NEW file \in Names, NEW c \in Bundles \cup {Torn}
  PROVE  Put(t, file, c) \in Trees
<1> DEFINE files == IF t = Absent THEN {} ELSE DOMAIN t
<1>1. files \in SUBSET Names /\ (t # Absent => t \in [files -> Bundles \cup {Torn}])
  BY DEF Trees
<1>2. Put(t, file, c) \in [files \cup {file} -> Bundles \cup {Torn}]
  BY <1>1 DEF Put
<1>3. files \cup {file} \in SUBSET Names
  BY <1>1
<1>4. QED
  BY <1>2, <1>3 DEF Trees

(* A bundle's own tree is a tree, and is not empty.                        *)
LEMMA WholeIsTree ==
  ASSUME NEW b \in Bundles
  PROVE  /\ FilesOf[b] \in SUBSET Names
         /\ Whole(b) \in Trees
         /\ Whole(b) # Absent
         /\ DOMAIN Whole(b) # {}
<1>1. FilesOf[b] \in SUBSET Names
  BY DEF Names
<1>2. Whole(b) \in [FilesOf[b] -> Bundles \cup {Torn}]
  BY DEF Whole
<1>3. Whole(b) \in Trees
  BY <1>1, <1>2 DEF Trees
<1>4. DOMAIN Whole(b) # {}
  BY BundlesAssumption DEF Whole
<1>5. QED
  BY <1>1, <1>3, <1>4, AbsentAssumption

(* A directory that holds a whole tree cannot be renamed over.             *)
LEMMA NoRenameOverWhole ==
  ASSUME NEW from, NEW to \in {Absent} \cup WholeTrees, CanRename(from, to)
  PROVE  to = Absent
BY WholeIsTree DEF CanRename, WholeTrees

-----------------------------------------------------------------------------
(* The inductive invariant                                                 *)

\* Up to the swap the destination is what the caller found, which without
\* --force is nothing.
Untouched(p) ==
    pc[p] \in {"check", "open", "clean", "mkdir", "write", "unback", "lstat", "place", "aside"} =>
        /\ dest = before[p]
        /\ pc[p] # "check" /\ ~forced[p] => dest = Absent

\* What the staging directory holds as it is filled.
Staged(p) ==
    /\ pc[p] = "mkdir" => staging = Absent
    /\ pc[p] = "write" =>
          /\ todo[p] \subseteq FilesOf[bundle[p]] \ {Manifest}
          /\ staging = [f \in FilesOf[bundle[p]] \ (todo[p] \cup {Manifest}) |-> bundle[p]]
    /\ pc[p] \in {"unback", "lstat", "place", "aside", "swap"} => staging = Whole(bundle[p])

\* Where the old destination is during the swap and after it.
OldPlace(p) ==
    /\ pc[p] = "place" => dest = Absent
    /\ pc[p] \in {"swap", "restore"} =>
          dest = Absent /\ backup = before[p] /\ backup \in WholeTrees /\ forced[p]
    /\ pc[p] \in {"unstage", "failed"} => before[p] \in {Absent, dest, backup}
    /\ pc[p] \in {"discard", "ok"} => dest = Whole(bundle[p])

IInv ==
    /\ TypeOK /\ DestIsWhole
    /\ \A p \in Procs : Untouched(p) /\ Staged(p) /\ OldPlace(p)

LEMMA InitIInv == Init => IInv
<1> SUFFICES ASSUME Init PROVE IInv
  OBVIOUS
<1>1. dest \in Trees \cup {Absent}
  BY WholeIsTree DEF Init, WholeTrees
<1>2. TypeOK
  BY <1>1 DEF Init, TypeOK, Labels, Resting
<1>3. ASSUME NEW p \in Procs PROVE pc[p] = "idle"
  BY DEF Init
<1>4. ASSUME NEW p \in Procs PROVE Untouched(p) /\ Staged(p) /\ OldPlace(p)
  BY <1>3 DEF Untouched, Staged, OldPlace
<1>5. DestIsWhole
  BY DEF Init, DestIsWhole
<1>6. QED
  BY <1>2, <1>4, <1>5 DEF IInv

(* A step of the only caller that moves no directory.                      *)
LEMMA QuietStepKeeps ==
  ASSUME NEW p \in Procs, Procs = {p}, IInv,
         UNCHANGED <<dirs, args, todo>>,
         \/ CheckDestExists(p) \/ OpenBundle(p) \/ LstatDest(p) \/ IOError(p) \/ Crash(p)
  PROVE  IInv'
<1> DEFINE Moves(from, to) == pc[p] \in from /\ pc'[p] = to
<1>1. pc' \in [Procs -> Labels]
  BY DEF IInv, TypeOK, CheckDestExists, OpenBundle, LstatDest, IOError, Crash, Goto, Labels, Resting, OnError
<1>2. TypeOK' /\ DestIsWhole'
  BY <1>1 DEF IInv, TypeOK, DestIsWhole, dirs, args
<1>3. UNCHANGED <<dest, staging, backup, bundle[p], forced[p], before[p], todo[p]>>
  BY DEF dirs, args
<1>4. Untouched(p) /\ Staged(p) /\ OldPlace(p)
  BY DEF IInv
<1>5. pc[p] \in Labels
  BY DEF IInv, TypeOK
<1>6. \/ Moves({"check"}, "failed")
      \/ Moves({"check"}, "open") /\ (~forced[p] => dest = Absent)
      \/ Moves({"open"}, "clean")
      \/ Moves({"lstat"}, "place") /\ dest = Absent
      \/ Moves({"lstat"}, "aside")
      \/ Moves({"open", "clean", "mkdir", "unstage"}, "failed")
      \/ Moves({"write", "lstat", "place", "aside", "restore"}, "unstage")
      \/ Moves({"unback"}, "lstat")
      \/ Moves({"swap"}, "restore")
      \/ Moves({"discard"}, "ok")
      \/ Moves(Labels, "idle")
  <2>1. CASE CheckDestExists(p) \/ OpenBundle(p) \/ LstatDest(p) \/ Crash(p)
    BY <1>5, <2>1 DEF CheckDestExists, OpenBundle, LstatDest, Crash, Goto, IInv, TypeOK
  <2>2. CASE IOError(p)
    <3>1. pc[p] \in DOMAIN OnError /\ pc'[p] = OnError[pc[p]]
      BY <2>2 DEF IOError, Goto, IInv, TypeOK
    <3>2. QED
      BY <3>1 DEF OnError
  <2>3. QED
    BY <2>1, <2>2
<1>7. Untouched(p)'
  BY <1>3, <1>4, <1>6 DEF Untouched
<1>8. Staged(p)'
  BY <1>3, <1>4, <1>6 DEF Staged
<1>9. OldPlace(p)'
  BY <1>3, <1>4, <1>6 DEF Untouched, OldPlace
<1>10. QED
  BY <1>2, <1>7, <1>8, <1>9 DEF IInv

LEMMA CallKeeps ==
  ASSUME NEW p \in Procs, Procs = {p}, IInv, Call(p)
  PROVE  IInv'
<1> USE DEF IInv, TypeOK, dirs
<1>1. /\ pc' \in [Procs -> Labels] /\ pc'[p] = "check"
      /\ before' \in [Procs -> Trees \cup {Absent}] /\ before'[p] = dest
      /\ bundle' \in [Procs -> Bundles] /\ forced' \in [Procs -> BOOLEAN]
      /\ calls' \in Nat
  BY DEF Call, Goto, Labels, OnError
<1>2. TypeOK' /\ DestIsWhole'
  BY <1>1 DEF Call, DestIsWhole
<1>3. Untouched(p)' /\ Staged(p)' /\ OldPlace(p)'
  BY <1>1 DEF Call, Untouched, Staged, OldPlace
<1>4. QED
  BY <1>2, <1>3

(* Filling the staging directory.                                          *)
LEMMA StagingStepKeeps ==
  ASSUME NEW p \in Procs, Procs = {p}, IInv,
         \/ CleanStaging(p) \/ MakeStaging(p) \/ WriteOneFile(p) \/ WriteManifest(p)
         \/ RemoveStaging(p) \/ TornWrite(p)
  PROVE  IInv'
<1> USE DEF IInv, TypeOK
<1> DEFINE b == bundle[p]
<1>1. b \in Bundles /\ FilesOf[b] \in SUBSET Names /\ Manifest \in FilesOf[b]
  BY WholeIsTree, BundlesAssumption
<1>2. /\ UNCHANGED <<dest, backup, args>> /\ pc' \in [Procs -> Labels]
      /\ pc[p] \in {"clean", "mkdir", "write", "unstage"}
      /\ pc'[p] \in {"clean", "mkdir", "write", "unback", "unstage", "failed", "idle"}
      /\ pc[p] = "unstage" => pc'[p] \in {"unstage", "failed"}
  BY DEF CleanStaging, MakeStaging, WriteOneFile, WriteManifest, RemoveStaging, TornWrite,
         Goto, Labels, Resting, OnError
<1>3. Untouched(p)'
  BY <1>2 DEF Untouched, args
<1>4. OldPlace(p)'
  BY <1>2 DEF Untouched, OldPlace, args
<1>5. DestIsWhole'
  BY <1>2 DEF DestIsWhole
<1>6. CASE CleanStaging(p) \/ RemoveStaging(p)
  <2>1. staging' \in Trees \cup {Absent}
    BY <1>6, ShrinkIsTyped DEF CleanStaging, RemoveStaging
  <2>2. Staged(p)'
    BY <1>2, <1>6 DEF CleanStaging, RemoveStaging, Goto, Staged, args
  <2>3. QED
    BY <1>2, <1>3, <1>4, <1>5, <1>6, <2>1, <2>2 DEF CleanStaging, RemoveStaging, args
<1>7. CASE MakeStaging(p)
  <2>1. /\ pc'[p] = "write" /\ todo'[p] = FilesOf[b] \ {Manifest}
        /\ todo' \in [Procs -> SUBSET Names]
    BY <1>1, <1>7 DEF MakeStaging, Goto
  <2>2. staging = Absent
    BY <1>7 DEF MakeStaging, Staged
  <2>3. staging' = [f \in {} |-> Torn]
    BY <1>7, <2>2 DEF MakeStaging
  <2>4. FilesOf[b] \ (todo'[p] \cup {Manifest}) = {}
    BY <2>1
  <2>5. staging' = [f \in FilesOf[b] \ (todo'[p] \cup {Manifest}) |-> b]
    BY <2>3, <2>4
  <2>6. Staged(p)'
    BY <1>2, <2>1, <2>5 DEF Staged, args
  <2>7. staging' \in [{} -> Bundles \cup {Torn}]
    BY <2>3
  <2>8. staging' \in Trees
    BY <2>7 DEF Trees
  <2>9. QED
    BY <1>2, <1>3, <1>4, <1>5, <2>1, <2>6, <2>8 DEF args
<1>8. CASE WriteOneFile(p)
  <2>1. PICK g \in todo[p] :
          staging' = Put(staging, g, b) /\ todo' = [todo EXCEPT ![p] = @ \ {g}]
    BY <1>8 DEF WriteOneFile
  <2>2. pc'[p] = "write" /\ pc[p] = "write"
    BY <1>8 DEF WriteOneFile
  <2>3. /\ todo[p] \subseteq FilesOf[b] \ {Manifest}
        /\ staging = [f \in FilesOf[b] \ (todo[p] \cup {Manifest}) |-> b]
    BY <2>2 DEF Staged
  <2>4. staging' \in Trees
    BY <1>1, <2>1, <2>3, PutIsTyped
  <2>5. staging # Absent
    <3>1. staging \in [FilesOf[b] \ (todo[p] \cup {Manifest}) -> Bundles \cup {Torn}]
      BY <1>1, <2>3
    <3>2. FilesOf[b] \ (todo[p] \cup {Manifest}) \in SUBSET Names
      BY <1>1
    <3>3. staging \in Trees
      BY <3>1, <3>2 DEF Trees
    <3>4. QED
      BY <3>3, AbsentAssumption
  <2>6. todo'[p] = todo[p] \ {g} /\ todo' \in [Procs -> SUBSET Names]
    BY <2>1
  <2>7. (FilesOf[b] \ (todo[p] \cup {Manifest})) \cup {g} = FilesOf[b] \ (todo'[p] \cup {Manifest})
    BY <2>1, <2>3, <2>6
  <2>8. staging' = [f \in FilesOf[b] \ (todo'[p] \cup {Manifest}) |-> b]
    <3>1. staging' = [f \in DOMAIN staging \cup {g} |-> IF f = g THEN b ELSE staging[f]]
      BY <2>1, <2>5 DEF Put
    <3>2. DOMAIN staging \cup {g} = FilesOf[b] \ (todo'[p] \cup {Manifest})
      BY <2>3, <2>7
    <3>3. \A f \in DOMAIN staging \cup {g} : (IF f = g THEN b ELSE staging[f]) = b
      BY <2>3
    <3>4. QED
      BY <3>1, <3>2, <3>3
  <2>9. Staged(p)'
    BY <1>2, <2>2, <2>3, <2>6, <2>8 DEF Staged, args
  <2>10. QED
    BY <1>2, <1>3, <1>4, <1>5, <2>4, <2>6, <2>9 DEF args
<1>9. CASE WriteManifest(p)
  <2>1. /\ pc[p] = "write" /\ todo[p] = {}
        /\ staging = [f \in FilesOf[b] \ {Manifest} |-> b]
    BY <1>9 DEF WriteManifest, Staged
  <2>2. CASE staging = Absent
    BY <1>2, <1>3, <1>4, <1>5, <1>9, <2>2 DEF WriteManifest, Goto, Staged, args
  <2>3. CASE staging # Absent
    <3>1. staging' = [f \in DOMAIN staging \cup {Manifest} |-> IF f = Manifest THEN b ELSE staging[f]]
      BY <1>9, <2>3 DEF WriteManifest, Put
    <3>2. DOMAIN staging \cup {Manifest} = FilesOf[b]
      BY <1>1, <2>1
    <3>3. \A f \in FilesOf[b] : (IF f = Manifest THEN b ELSE staging[f]) = b
      BY <2>1
    <3>4. staging' = Whole(b)
      BY <3>1, <3>2, <3>3 DEF Whole
    <3>5. pc'[p] = "unback"
      BY <1>9, <2>3 DEF WriteManifest, Goto
    <3>6. Staged(p)'
      BY <1>2, <3>4, <3>5 DEF Staged, args
    <3>7. QED
      BY <1>1, <1>2, <1>3, <1>4, <1>5, <1>9, <3>4, <3>6, WholeIsTree DEF WriteManifest, args
  <2>4. QED
    BY <2>2, <2>3
<1>10. CASE TornWrite(p)
  <2>1. pc'[p] \in {"unstage", "idle"} /\ pc[p] = "write"
    BY <1>10 DEF TornWrite, Goto
  <2>2. PICK f \in Names : staging' = Put(staging, f, Torn)
    BY <1>1, <1>10 DEF TornWrite
  <2>3. staging' \in Trees
    BY <2>2, PutIsTyped
  <2>4. Staged(p)'
    BY <2>1 DEF Staged
  <2>5. QED
    BY <1>2, <1>3, <1>4, <1>5, <1>10, <2>3, <2>4 DEF TornWrite, args
<1>11. QED
  BY <1>6, <1>7, <1>8, <1>9, <1>10

(* The swap.                                                               *)
LEMMA SwapStepKeeps ==
  ASSUME NEW p \in Procs, Procs = {p}, IInv,
         \/ RemoveBackup(p) \/ Place(p) \/ MoveAside(p) \/ Swap(p) \/ RestoreDest(p)
  PROVE  IInv'
<1> USE DEF IInv, TypeOK
<1> DEFINE b == bundle[p]
<1>1. b \in Bundles /\ Whole(b) \in Trees /\ Whole(b) \in WholeTrees /\ Whole(b) # Absent
  BY WholeIsTree DEF WholeTrees
<1>2. Untouched(p) /\ Staged(p) /\ OldPlace(p) /\ DestIsWhole
  OBVIOUS
<1>3. UNCHANGED <<bundle, forced, before, calls, todo>> /\ pc' \in [Procs -> Labels]
  BY DEF RemoveBackup, Place, MoveAside, Swap, RestoreDest, Goto, Labels, Resting, OnError, args
<1>4. CASE RemoveBackup(p)
  <2>1. backup' \in Trees \cup {Absent}
    BY <1>4, ShrinkIsTyped DEF RemoveBackup
  <2>2. UNCHANGED <<dest, staging>> /\ pc'[p] \in {"unback", "lstat", "discard", "ok"}
        /\ (pc[p] = "unback" => pc'[p] \in {"unback", "lstat"})
        /\ (pc[p] = "discard" => pc'[p] \in {"discard", "ok"})
        /\ pc[p] \in {"unback", "discard"}
    BY <1>4 DEF RemoveBackup, Goto
  <2>3. Untouched(p)' /\ Staged(p)' /\ OldPlace(p)'
    BY <1>2, <1>3, <2>2 DEF Untouched, Staged, OldPlace
  <2>4. QED
    BY <1>3, <2>1, <2>2, <2>3 DEF DestIsWhole
<1>5. CASE Place(p)
  <2>1. CASE CanRename(staging, dest)
    <3>1. /\ pc[p] = "place" /\ pc'[p] = "ok" /\ dest' = Whole(b)
          /\ staging' = Absent /\ backup' = backup
      BY <1>2, <1>5, <2>1 DEF Place, Goto, Staged
    <3>2. Untouched(p)' /\ Staged(p)' /\ OldPlace(p)'
      BY <1>3, <3>1 DEF Untouched, Staged, OldPlace
    <3>3. QED
      BY <1>1, <1>3, <3>1, <3>2 DEF DestIsWhole
  <2>2. CASE ~CanRename(staging, dest)
    <3>1. pc[p] = "place" /\ pc'[p] = "unstage" /\ UNCHANGED dirs
      BY <1>5, <2>2 DEF Place, Goto, dirs
    <3>2. Untouched(p)' /\ Staged(p)' /\ OldPlace(p)'
      BY <1>2, <1>3, <3>1 DEF Untouched, Staged, OldPlace, dirs
    <3>3. QED
      BY <1>3, <3>1, <3>2 DEF DestIsWhole, dirs
  <2>3. QED
    BY <2>1, <2>2
<1>6. CASE MoveAside(p)
  <2>1. CASE CanRename(dest, backup)
    <3>1. /\ pc[p] = "aside" /\ pc'[p] = "swap" /\ backup' = dest
          /\ dest' = Absent /\ staging' = staging /\ dest # Absent
      BY <1>6, <2>1 DEF MoveAside, Goto, CanRename
    <3>2. backup' \in WholeTrees /\ backup' = before'[p] /\ forced'[p]
      BY <1>2, <1>3, <3>1 DEF DestIsWhole, Untouched
    <3>3. Untouched(p)' /\ Staged(p)' /\ OldPlace(p)'
      BY <1>2, <1>3, <3>1, <3>2 DEF Untouched, Staged, OldPlace
    <3>4. QED
      BY <1>3, <3>1, <3>3 DEF DestIsWhole
  <2>2. CASE ~CanRename(dest, backup)
    <3>1. pc[p] = "aside" /\ pc'[p] = "unstage" /\ UNCHANGED dirs
      BY <1>6, <2>2 DEF MoveAside, Goto, dirs
    <3>2. Untouched(p)' /\ Staged(p)' /\ OldPlace(p)'
      BY <1>2, <1>3, <3>1 DEF Untouched, Staged, OldPlace, dirs
    <3>3. QED
      BY <1>3, <3>1, <3>2 DEF DestIsWhole, dirs
  <2>3. QED
    BY <2>1, <2>2
<1>7. CASE Swap(p)
  <2>1. CASE CanRename(staging, dest)
    <3>1. /\ pc[p] = "swap" /\ pc'[p] = "discard" /\ dest' = Whole(b)
          /\ staging' = Absent /\ backup' = backup
      BY <1>2, <1>7, <2>1 DEF Swap, Goto, Staged
    <3>2. Untouched(p)' /\ Staged(p)' /\ OldPlace(p)'
      BY <1>3, <3>1 DEF Untouched, Staged, OldPlace
    <3>3. QED
      BY <1>1, <1>3, <3>1, <3>2 DEF DestIsWhole
  <2>2. CASE ~CanRename(staging, dest)
    <3>1. pc[p] = "swap" /\ pc'[p] = "restore" /\ UNCHANGED dirs
      BY <1>7, <2>2 DEF Swap, Goto, dirs
    <3>2. Untouched(p)' /\ Staged(p)' /\ OldPlace(p)'
      BY <1>2, <1>3, <3>1 DEF Untouched, Staged, OldPlace, dirs
    <3>3. QED
      BY <1>3, <3>1, <3>2 DEF DestIsWhole, dirs
  <2>3. QED
    BY <2>1, <2>2
<1>8. CASE RestoreDest(p)
  <2>1. /\ pc[p] = "restore" /\ pc'[p] = "unstage" /\ staging' = staging
        /\ \/ dest' = backup /\ backup' = Absent
           \/ UNCHANGED <<dest, backup>>
    BY <1>8 DEF RestoreDest, Goto
  <2>2. backup = before[p] /\ backup \in WholeTrees
    BY <1>2, <2>1 DEF OldPlace
  <2>3. Untouched(p)' /\ Staged(p)' /\ OldPlace(p)'
    BY <1>3, <2>1, <2>2 DEF Untouched, Staged, OldPlace
  <2>4. DestIsWhole'
    BY <1>2, <2>1, <2>2 DEF DestIsWhole
  <2>5. QED
    BY <1>3, <2>1, <2>3, <2>4
<1>9. QED
  BY <1>4, <1>5, <1>6, <1>7, <1>8

LEMMA NextKeeps ==
  ASSUME NEW p \in Procs, Procs = {p}, IInv, [Next]_vars
  PROVE  IInv'
<1>1. CASE Call(p)
  BY <1>1, CallKeeps
<1>2. CASE \/ CheckDestExists(p) \/ OpenBundle(p) \/ LstatDest(p) \/ IOError(p) \/ Crash(p)
  BY <1>2, QuietStepKeeps
     DEF CheckDestExists, OpenBundle, LstatDest, IOError, Crash
<1>3. CASE \/ CleanStaging(p) \/ MakeStaging(p) \/ WriteOneFile(p) \/ WriteManifest(p)
           \/ RemoveStaging(p) \/ TornWrite(p)
  BY <1>3, StagingStepKeeps
<1>4. CASE \/ RemoveBackup(p) \/ Place(p) \/ MoveAside(p) \/ Swap(p) \/ RestoreDest(p)
  BY <1>4, SwapStepKeeps
<1>5. CASE UNCHANGED vars
  <2>1. TypeOK' /\ DestIsWhole'
    BY <1>5 DEF IInv, TypeOK, DestIsWhole, vars, dirs, args
  <2>2. Untouched(p)' /\ Staged(p)' /\ OldPlace(p)'
    BY <1>5 DEF IInv, Untouched, Staged, OldPlace, vars, dirs, args
  <2>3. QED
    BY <2>1, <2>2 DEF IInv
<1>6. QED
  BY <1>1, <1>2, <1>3, <1>4, <1>5 DEF Next, Step

-----------------------------------------------------------------------------
(* The theorems                                                            *)

(* The inductive invariant, for a caller that is alone.                    *)
THEOREM Inductive ==
  ASSUME NEW p \in Procs, Procs = {p}
  PROVE  Spec => []IInv
<1>1. Init => IInv
  BY InitIInv
<1>2. IInv /\ [Next]_vars => IInv'
  BY NextKeeps
<1>3. QED
  BY <1>1, <1>2, PTL DEF Spec

(* The destination is absent or exactly one bundle's tree, after every     *)
(* sequence of calls, errors and crashes.                                  *)
THEOREM ExtractIsWhole ==
  ASSUME NEW p \in Procs, Procs = {p}
  PROVE  Spec => []DestIsWhole
<1>1. IInv => DestIsWhole
  BY DEF IInv
<1>2. QED
  BY <1>1, Inductive, PTL

(* A call that succeeds leaves its own bundle's tree.                      *)
THEOREM ExtractSucceeds ==
  ASSUME NEW p \in Procs, Procs = {p}
  PROVE  Spec => []SuccessIsThisBundle
<1>1. IInv => SuccessIsThisBundle
  BY DEF IInv, OldPlace, SuccessIsThisBundle
<1>2. QED
  BY <1>1, Inductive, PTL

(* A call that has not succeeded has kept the old tree whole, under the    *)
(* destination's name or the backup's.                                     *)
THEOREM ExtractKeepsOld ==
  ASSUME NEW p \in Procs, Procs = {p}
  PROVE  Spec => []OldIsKept
<1>1. ASSUME IInv PROVE OldIsKept
  <2>1. pc[p] \in Labels /\ Untouched(p) /\ OldPlace(p)
    BY <1>1 DEF IInv, TypeOK
  <2>2. QED
    BY <2>1 DEF Untouched, OldPlace, OldIsKept, Labels, Resting, OnError
<1>2. QED
  BY <1>1, Inductive, PTL

(* Only a call with --force replaces a destination that exists.            *)
THEOREM ExtractRespectsForce ==
  ASSUME NEW p \in Procs, Procs = {p}
  PROVE  Spec => ReplacesOnlyByForce
<1>1. ASSUME IInv, [Next]_vars PROVE [ForcedChange]_vars
  <2>1. CASE dest' = dest
    BY <2>1 DEF ForcedChange
  <2>2. CASE dest' # dest
    <3>1. Place(p) \/ MoveAside(p) \/ Swap(p) \/ RestoreDest(p)
      BY <1>1, <2>2
         DEF Next, Step, vars, dirs, Call, CheckDestExists, OpenBundle, CleanStaging, MakeStaging,
             WriteOneFile, WriteManifest, RemoveBackup, LstatDest, RemoveStaging, IOError,
             TornWrite, Crash
    <3>2. OldPlace(p) /\ Untouched(p)
      BY <1>1 DEF IInv
    <3>3. CASE Place(p) \/ Swap(p) \/ RestoreDest(p)
      BY <3>2, <3>3 DEF Place, Swap, RestoreDest, OldPlace, ForcedChange
    <3>4. CASE MoveAside(p)
      BY <3>2, <3>4 DEF MoveAside, Untouched, ForcedChange
    <3>5. QED
      BY <3>1, <3>3, <3>4
  <2>3. QED
    BY <2>1, <2>2
<1>2. QED
  BY <1>1, Inductive, PTL DEF Spec, ReplacesOnlyByForce
=============================================================================
