---------------------------- MODULE DipxExtract -----------------------------
(***************************************************************************)
(* dipx.Extract: unpacking a bundle into a directory (dipx/dipx.go).       *)
(*                                                                         *)
(* The state is what the file system holds under three names: the          *)
(* destination, <destination>.tmp and <destination>.bak.  Each holds a     *)
(* tree, a function from the file names present to the bundle each file's  *)
(* bytes are from (Torn when a write stopped half way), or nothing.  One   *)
(* action is one file system call, so that a crash, an error or another    *)
(* process can come between any two of them.  Every process is one caller  *)
(* of Extract, which may call again after an error or a crash.             *)
(***************************************************************************)
EXTENDS Naturals

CONSTANTS
    Procs,      \* the callers
    Bundles,    \* the bundles they extract
    FilesOf,    \* FilesOf[b]: the files of bundle b, "manifest.json" included
    Absent,     \* no such directory
    Torn,       \* the content of a file whose write did not finish
    MaxCalls    \* bound: calls of Extract in all

Manifest == "manifest.json"

ASSUME BundlesAssumption ==
    /\ FilesOf \in [Bundles -> SUBSET STRING]
    /\ \A b \in Bundles : Manifest \in FilesOf[b]
    /\ Torn \notin Bundles

Names == UNION {FilesOf[b] : b \in Bundles}
Trees == UNION {[fs -> Bundles \cup {Torn}] : fs \in SUBSET Names}

ASSUME AbsentAssumption == Absent \notin Trees

VARIABLES
    dest, staging, backup,  \* Absent or a tree
    pc,         \* pc[p]: the next file system call of p, or its last result
    bundle,     \* bundle[p], forced[p]: the arguments of the call
    forced,
    todo,       \* todo[p]: the files stageBundle has still to write
    before,     \* before[p]: dest when the call was made
    calls

dirs == <<dest, staging, backup>>
args == <<bundle, forced, before, calls>>
vars == <<dirs, pc, args, todo>>

Resting == {"idle", "ok", "failed"}

Whole(b) == [f \in FilesOf[b] |-> b]
WholeTrees == {Whole(b) : b \in Bundles}

-----------------------------------------------------------------------------
(* File system calls *)

\* One of the steps of os.RemoveAll: a file goes, or the empty directory.
Shrink(t) ==
    IF t = Absent \/ DOMAIN t = {} THEN {Absent}
    ELSE {[f \in DOMAIN t \ {g} |-> t[f]] : g \in DOMAIN t}

\* os.WriteFile, with the os.MkdirAll before it.
Put(t, file, content) ==
    LET files == IF t = Absent THEN {} ELSE DOMAIN t
    IN  [f \in files \cup {file} |-> IF f = file THEN content ELSE t[f]]

\* os.Rename of a directory: the target may be an empty directory.
CanRename(from, to) == from # Absent /\ (to = Absent \/ DOMAIN to = {})

Goto(p, label) == pc' = [pc EXCEPT ![p] = label]

-----------------------------------------------------------------------------
(* The calls in the order of the code                                      *)

Init ==
    /\ dest \in {Absent} \cup WholeTrees
    /\ staging = Absent /\ backup = Absent
    /\ pc = [p \in Procs |-> "idle"]
    /\ bundle \in [Procs -> Bundles]
    /\ forced = [p \in Procs |-> FALSE]
    /\ todo = [p \in Procs |-> {}]
    /\ before = [p \in Procs |-> Absent]
    /\ calls = 0

Call(p) ==
    /\ pc[p] \in Resting /\ calls < MaxCalls
    /\ \E b \in Bundles, force \in BOOLEAN :
          /\ bundle' = [bundle EXCEPT ![p] = b]
          /\ forced' = [forced EXCEPT ![p] = force]
    /\ before' = [before EXCEPT ![p] = dest]
    /\ calls' = calls + 1
    /\ Goto(p, "check")
    /\ UNCHANGED <<dirs, todo>>

\* Mutant: the destination is not looked at.
SkipCheck(p) ==
    /\ pc[p] = "check"
    /\ Goto(p, "open")
    /\ UNCHANGED <<dirs, args, todo>>

CheckDestExists(p) ==
    /\ pc[p] = "check"
    /\ Goto(p, IF ~forced[p] /\ dest # Absent THEN "failed" ELSE "open")
    /\ UNCHANGED <<dirs, args, todo>>

OpenBundle(p) ==
    /\ pc[p] = "open"
    /\ Goto(p, "clean")
    /\ UNCHANGED <<dirs, args, todo>>

\* Mutant: what an earlier call left in the staging directory stays.
KeepStaging(p) ==
    /\ pc[p] = "clean"
    /\ Goto(p, "mkdir")
    /\ UNCHANGED <<dirs, args, todo>>

CleanStaging(p) ==
    /\ pc[p] = "clean"
    /\ IF staging = Absent
       THEN Goto(p, "mkdir") /\ UNCHANGED staging
       ELSE staging' \in Shrink(staging) /\ UNCHANGED pc
    /\ UNCHANGED <<dest, backup, args, todo>>

MakeStaging(p) ==
    /\ pc[p] = "mkdir"
    /\ staging' = IF staging = Absent THEN [f \in {} |-> Torn] ELSE staging
    /\ todo' = [todo EXCEPT ![p] = FilesOf[bundle[p]] \ {Manifest}]
    /\ Goto(p, "write")
    /\ UNCHANGED <<dest, backup, args>>

\* The bundle's files are a map: any order.
WriteOneFile(p) ==
    /\ pc[p] = "write"
    /\ \E f \in todo[p] :
          /\ staging' = Put(staging, f, bundle[p])
          /\ todo' = [todo EXCEPT ![p] = @ \ {f}]
    /\ UNCHANGED <<dest, backup, pc, args>>

\* Without a MkdirAll: an error if the staging directory is gone.
WriteManifest(p) ==
    /\ pc[p] = "write" /\ todo[p] = {}
    /\ IF staging = Absent
       THEN Goto(p, "unstage") /\ UNCHANGED staging
       ELSE staging' = Put(staging, Manifest, bundle[p]) /\ Goto(p, "unback")
    /\ UNCHANGED <<dest, backup, args, todo>>

\* os.RemoveAll(backup), before the swap and after it.
RemoveBackup(p) ==
    /\ pc[p] \in {"unback", "discard"}
    /\ IF backup = Absent
       THEN Goto(p, IF pc[p] = "unback" THEN "lstat" ELSE "ok") /\ UNCHANGED backup
       ELSE backup' \in Shrink(backup) /\ UNCHANGED pc
    /\ UNCHANGED <<dest, staging, args, todo>>

LstatDest(p) ==
    /\ pc[p] = "lstat"
    /\ Goto(p, IF dest = Absent THEN "place" ELSE "aside")
    /\ UNCHANGED <<dirs, args, todo>>

\* There was no destination: one rename.
Place(p) ==
    /\ pc[p] = "place"
    /\ IF CanRename(staging, dest)
       THEN dest' = staging /\ staging' = Absent /\ Goto(p, "ok")
       ELSE UNCHANGED <<dest, staging>> /\ Goto(p, "unstage")
    /\ UNCHANGED <<backup, args, todo>>

\* swapWithBackup: the destination moves aside, ...
MoveAside(p) ==
    /\ pc[p] = "aside"
    /\ IF CanRename(dest, backup)
       THEN backup' = dest /\ dest' = Absent /\ Goto(p, "swap")
       ELSE UNCHANGED <<dest, backup>> /\ Goto(p, "unstage")
    /\ UNCHANGED <<staging, args, todo>>

\* ... the staging directory takes its place ...
Swap(p) ==
    /\ pc[p] = "swap"
    /\ IF CanRename(staging, dest)
       THEN dest' = staging /\ staging' = Absent /\ Goto(p, "discard")
       ELSE UNCHANGED <<dest, staging>> /\ Goto(p, "restore")
    /\ UNCHANGED <<backup, args, todo>>

\* Mutant: after an error the old destination is dropped.
DropOld(p) ==
    /\ pc[p] = "restore"
    /\ backup' = Absent
    /\ Goto(p, "unstage")
    /\ UNCHANGED <<dest, staging, args, todo>>

\* ... or, when that fails, the destination moves back, if it can.
RestoreDest(p) ==
    /\ pc[p] = "restore"
    /\ IF CanRename(backup, dest)
       THEN dest' = backup /\ backup' = Absent
       ELSE UNCHANGED <<dest, backup>>
    /\ Goto(p, "unstage")
    /\ UNCHANGED <<staging, args, todo>>

\* os.RemoveAll(staging) on the way out of an error.
RemoveStaging(p) ==
    /\ pc[p] = "unstage"
    /\ IF staging = Absent
       THEN Goto(p, "failed") /\ UNCHANGED staging
       ELSE staging' \in Shrink(staging) /\ UNCHANGED pc
    /\ UNCHANGED <<dest, backup, args, todo>>

-----------------------------------------------------------------------------
(* Errors and crashes                                                      *)

\* Mutant: an error of the last rename is not returned.
OnErrorIgnored ==
    [check |-> "failed", open |-> "failed", clean |-> "failed", mkdir |-> "failed",
     write |-> "unstage", unback |-> "lstat", lstat |-> "unstage", place |-> "ok",
     aside |-> "unstage", swap |-> "ok", discard |-> "ok", restore |-> "unstage",
     unstage |-> "failed"]

\* Where the code goes when a call returns an error that the directories do
\* not explain: permissions, a full disk, another device, a cancelled context,
\* a bundle that Open refuses.
OnError ==
    [check |-> "failed", open |-> "failed", clean |-> "failed", mkdir |-> "failed",
     write |-> "unstage", unback |-> "lstat", lstat |-> "unstage", place |-> "unstage",
     aside |-> "unstage", swap |-> "restore", discard |-> "ok", restore |-> "unstage",
     unstage |-> "failed"]

IOError(p) ==
    /\ pc[p] \in DOMAIN OnError
    /\ pc[p] = "check" => ~forced[p]
    /\ Goto(p, OnError[pc[p]])
    /\ UNCHANGED <<dirs, args, todo>>

\* A write that fails, or is cut off by a crash, may leave part of the file.
TornWrite(p) ==
    /\ pc[p] = "write"
    /\ \E f \in (IF todo[p] = {} THEN {Manifest} ELSE todo[p]) :
          /\ f = Manifest => staging # Absent
          /\ staging' = Put(staging, f, Torn)
    /\ \E label \in {"unstage", "idle"} : Goto(p, label)
    /\ UNCHANGED <<dest, backup, args, todo>>

Crash(p) ==
    /\ pc[p] \notin Resting
    /\ Goto(p, "idle")
    /\ UNCHANGED <<dirs, args, todo>>

-----------------------------------------------------------------------------

Step(p) ==
    \/ CheckDestExists(p) \/ OpenBundle(p)
    \/ CleanStaging(p) \/ MakeStaging(p) \/ WriteOneFile(p) \/ WriteManifest(p)
    \/ RemoveBackup(p) \/ LstatDest(p) \/ Place(p)
    \/ MoveAside(p) \/ Swap(p) \/ RestoreDest(p) \/ RemoveStaging(p)

Next == \E p \in Procs : Call(p) \/ Step(p) \/ IOError(p) \/ TornWrite(p) \/ Crash(p)

\* The code waits for nothing: a call that is not cut off goes on.
Spec == Init /\ [][Next]_vars /\ \A p \in Procs : WF_vars(Step(p))

-----------------------------------------------------------------------------
(* Properties                                                              *)

Labels == Resting \cup DOMAIN OnError

TypeOK ==
    /\ {dest, staging, backup} \subseteq Trees \cup {Absent}
    /\ pc \in [Procs -> Labels]
    /\ bundle \in [Procs -> Bundles] /\ forced \in [Procs -> BOOLEAN]
    /\ todo \in [Procs -> SUBSET Names]
    /\ before \in [Procs -> Trees \cup {Absent}]
    /\ calls \in Nat

(* "Extract unpacks a .dipx into destDir atomically" (dipx.go:261): nobody *)
(* ever finds a part of a bundle, or files of two bundles, in the          *)
(* destination, whatever errors, crashes and retries came before.          *)
DestIsWhole == dest \in {Absent} \cup WholeTrees

(* A call that returns without error leaves exactly its bundle's files.    *)
SuccessIsThisBundle ==
    \A p \in Procs : pc[p] \in {"discard", "ok"} => dest = Whole(bundle[p])

(* Until the new tree is in place the old one is whole under one of its    *)
(* two names, even when the rename back fails too.                         *)
OldIsKept ==
    \A p \in Procs :
        before[p] # Absent /\ pc[p] \notin {"idle", "discard", "ok"} =>
            before[p] \in {dest, backup}

\* The process whose step changes an existing destination has --force.
ForcedChange ==
    \A p \in Procs : dest # Absent /\ dest' # dest /\ pc'[p] # pc[p] => forced[p]

(* Without --force (dipx.go:318) no call changes a destination that        *)
(* exists.                                                                 *)
ReplacesOnlyByForce == [][ForcedChange]_vars

(* "any pre-existing destDir is preserved" (dipx.go:263), over several     *)
(* calls: a directory that had a whole tree leads to one that still has    *)
(* one, under some name, after whatever crashes and errors.                *)
OriginalSurvives ==
    dest # Absent => [](\E t \in {dest, staging, backup} : t \in WholeTrees)

=============================================================================
