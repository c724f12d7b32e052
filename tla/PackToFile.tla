----------------------------- MODULE PackToFile -----------------------------
(***************************************************************************)
(* dippin pack -o <output> (cmd/dippin/cmd_pack.go): the entry is          *)
(* validated, the sources are read and packed into a temporary file with a *)
(* name of its own next to the output, which is renamed over the output.   *)
(* Several commands may run at once, editors change the sources meanwhile, *)
(* every file system call may fail, the removal that cleans up after a     *)
(* failure included, and a command may be killed.                          *)
(*                                                                         *)
(* What Pack reads and writes is the subject of DipxPack; here a bundle is *)
(* the version of the sources it was made from and how much of it is in    *)
(* the file.                                                               *)
(***************************************************************************)
EXTENDS Naturals

CONSTANTS
    Procs,      \* the commands
    TmpNames,   \* names os.CreateTemp may pick
    Versions,   \* versions of the source tree
    Valid,      \* those whose entry passes the validator
    Packable,   \* those dipx.Pack accepts
    Chunks,     \* bound: writes per bundle
    Absent,     \* no such file
    MaxCalls,   \* bound: commands started in all
    MaxEdits    \* bound: changes of the sources

ASSUME VersionsAssumption == Valid \subseteq Versions /\ Packable \subseteq Versions

ASSUME NamesAssumption == TmpNames # {}

ASSUME ChunksAssumption == Chunks \in Nat \ {0}

Part(v, n) == [version |-> v, written |-> n]
Files == [version : Versions, written : 0..Chunks]
WholeFiles == {Part(v, Chunks) : v \in Versions}

ASSUME AbsentAssumption == Absent \notin Files

VARIABLES
    source,     \* the version of the sources on disk
    dest,       \* the output file: Absent or one of Files
    tmp,        \* tmp[t]: the file of that name
    pc,         \* pc[p]: the next call of p, or how it ended
    name,       \* name[p]: its temporary file
    dry,        \* dry[p]: --dry-run, or output to stdout
    read,       \* read[p]: the version of the sources Pack read
    code,       \* code[p]: the exit code p ends with
    stuck,      \* stuck[t]: the exit code of the command that could not remove t,
                \* OK where none failed to; a history no action reads
    calls, edits

vars == <<source, dest, tmp, pc, name, dry, read, code, stuck, calls, edits>>

OK == 0
UserError == 1
IntegrityError == 2
IOError == 3
Codes == {OK, UserError, IntegrityError, IOError}

Resting == {"idle", "exited"}

Init ==
    /\ source \in Versions
    /\ dest \in {Absent} \cup WholeFiles
    /\ tmp = [t \in TmpNames |-> Absent]
    /\ pc = [p \in Procs |-> "idle"]
    /\ name = [p \in Procs |-> CHOOSE t \in TmpNames : TRUE]
    /\ dry = [p \in Procs |-> FALSE]
    /\ read = [p \in Procs |-> source]
    /\ code = [p \in Procs |-> OK]
    /\ stuck = [t \in TmpNames |-> OK]
    /\ calls = 0 /\ edits = 0

Goto(p, label) == pc' = [pc EXCEPT ![p] = label]

Exit(p, c) == Goto(p, "exited") /\ code' = [code EXCEPT ![p] = c]

Edit ==
    /\ edits < MaxEdits /\ edits' = edits + 1
    /\ source' \in Versions \ {source}
    /\ UNCHANGED <<dest, tmp, pc, name, dry, read, code, stuck, calls>>

Invoke(p) ==
    /\ pc[p] \in Resting /\ calls < MaxCalls /\ calls' = calls + 1
    /\ \E d \in BOOLEAN : dry' = [dry EXCEPT ![p] = d]
    /\ Goto(p, "validate")
    /\ UNCHANGED <<source, dest, tmp, name, read, code, stuck, edits>>

\* validateEntryPrePack
Validate(p) ==
    /\ pc[p] = "validate"
    /\ IF source \in Valid
       THEN Goto(p, IF dry[p] THEN "read" ELSE "create") /\ UNCHANGED code
       ELSE Exit(p, UserError)
    /\ UNCHANGED <<source, dest, tmp, name, dry, read, stuck, calls, edits>>

\* Mutant: the temporary file has the same name for everybody.
CreateFixed(p) ==
    /\ pc[p] = "create"
    /\ name' = [name EXCEPT ![p] = CHOOSE t \in TmpNames : TRUE]
    /\ tmp' = [tmp EXCEPT ![CHOOSE t \in TmpNames : TRUE] = Part(source, 0)]
    /\ Goto(p, "read")
    /\ UNCHANGED <<source, dest, dry, read, code, stuck, calls, edits>>

\* os.CreateTemp: a name nobody uses, or an error.
CreateTemp(p) ==
    /\ pc[p] = "create"
    /\ \/ \E t \in TmpNames :
            /\ tmp[t] = Absent
            /\ name' = [name EXCEPT ![p] = t]
            /\ tmp' = [tmp EXCEPT ![t] = Part(source, 0)]
            /\ Goto(p, "read") /\ UNCHANGED code
       \/ Exit(p, IOError) /\ UNCHANGED <<name, tmp>>
    /\ UNCHANGED <<source, dest, dry, read, stuck, calls, edits>>

\* The file is removed where there is one; the command exits with c.
GiveUp(p, c) ==
    /\ code' = [code EXCEPT ![p] = c]
    /\ Goto(p, IF dry[p] THEN "exited" ELSE "remove")

\* dipx.Pack walks the sources as they are now, before it writes anything.
ReadSources(p) ==
    /\ pc[p] = "read"
    /\ \/ /\ source \in Packable
          /\ read' = [read EXCEPT ![p] = source]
          /\ Goto(p, "write") /\ UNCHANGED code
       \/ source \notin Packable /\ GiveUp(p, IntegrityError) /\ UNCHANGED read
       \/ \E c \in {UserError, IOError} : GiveUp(p, c) /\ UNCHANGED read
    /\ UNCHANGED <<source, dest, tmp, name, dry, stuck, calls, edits>>

Full(p) == tmp[name[p]] # Absent /\ tmp[name[p]].written = Chunks

\* A write of writeBundle; a dry run writes to nowhere, or to stdout.
WriteChunk(p) ==
    /\ pc[p] = "write"
    /\ \/ dry[p] /\ Exit(p, OK) /\ UNCHANGED tmp
       \/ /\ ~dry[p] /\ ~Full(p)
          /\ tmp' = [tmp EXCEPT ![name[p]] =
                        Part(read[p], IF @ = Absent THEN 1 ELSE @.written + 1)]
          /\ UNCHANGED <<pc, code>>
       \/ ~dry[p] /\ Full(p) /\ Goto(p, "close") /\ UNCHANGED <<tmp, code>>
       \/ (dry[p] \/ ~Full(p)) /\ GiveUp(p, IOError) /\ UNCHANGED tmp
    /\ UNCHANGED <<source, dest, name, dry, read, stuck, calls, edits>>

\* If Close fails, bytes may be missing.
Close(p) ==
    /\ pc[p] = "close"
    /\ \/ Goto(p, "rename") /\ UNCHANGED <<tmp, code>>
       \/ /\ GiveUp(p, IOError)
          /\ tmp' \in {tmp, [tmp EXCEPT ![name[p]] = Part(read[p], 0)]}
    /\ UNCHANGED <<source, dest, name, dry, read, stuck, calls, edits>>

\* Mutant: the error of the rename is dropped.
RenameUnchecked(p) ==
    /\ pc[p] = "rename"
    /\ \/ dest' = tmp[name[p]] /\ tmp' = [tmp EXCEPT ![name[p]] = Absent]
       \/ UNCHANGED <<dest, tmp>>
    /\ Goto(p, "renamed")
    /\ UNCHANGED <<source, name, dry, read, code, stuck, calls, edits>>

\* os.Rename replaces the output in one step, or fails.
Rename(p) ==
    /\ pc[p] = "rename"
    /\ \/ /\ tmp[name[p]] # Absent
          /\ dest' = tmp[name[p]]
          /\ tmp' = [tmp EXCEPT ![name[p]] = Absent]
          /\ Goto(p, "renamed") /\ UNCHANGED code
       \/ GiveUp(p, IOError) /\ UNCHANGED <<dest, tmp>>
    /\ UNCHANGED <<source, name, dry, read, stuck, calls, edits>>

Succeed(p) ==
    /\ pc[p] = "renamed"
    /\ Exit(p, OK)
    /\ UNCHANGED <<source, dest, tmp, name, dry, read, stuck, calls, edits>>

\* Mutant: the temporary file is left where it is.
RemoveNothing(p) ==
    /\ pc[p] = "remove"
    /\ Goto(p, "exited")
    /\ UNCHANGED <<source, dest, tmp, name, dry, read, code, stuck, calls, edits>>

\* os.Remove, whose error is dropped: the command ends the same way.
Remove(p) ==
    /\ pc[p] = "remove"
    /\ \/ tmp' = [tmp EXCEPT ![name[p]] = Absent] /\ UNCHANGED stuck
       \/ stuck' = [stuck EXCEPT ![name[p]] = code[p]] /\ UNCHANGED tmp
    /\ Goto(p, "exited")
    /\ UNCHANGED <<source, dest, name, dry, read, code, calls, edits>>

\* The process is killed between two calls; the files stay.
Kill(p) ==
    /\ pc[p] \notin Resting \cup {"killed"}
    /\ Goto(p, "killed")
    /\ UNCHANGED <<source, dest, tmp, name, dry, read, code, stuck, calls, edits>>

Step(p) ==
    \/ Validate(p) \/ CreateTemp(p) \/ ReadSources(p) \/ WriteChunk(p) \/ Close(p)
    \/ Rename(p) \/ Succeed(p) \/ Remove(p)

Next == Edit \/ \E p \in Procs : Invoke(p) \/ Step(p) \/ Kill(p)

\* A command that is not killed goes on by itself.
Spec == Init /\ [][Next]_vars /\ \A p \in Procs : WF_vars(Step(p))

-----------------------------------------------------------------------------
(* Properties                                                              *)

Labels ==
    Resting \cup {"killed", "validate", "create", "read", "write", "close", "rename", "renamed", "remove"}

TypeOK ==
    /\ source \in Versions
    /\ dest \in {Absent} \cup Files
    /\ tmp \in [TmpNames -> {Absent} \cup Files]
    /\ pc \in [Procs -> Labels]
    /\ name \in [Procs -> TmpNames] /\ dry \in [Procs -> BOOLEAN]
    /\ read \in [Procs -> Versions]
    /\ code \in [Procs -> Codes]
    /\ stuck \in [TmpNames -> Codes]
    /\ calls \in Nat /\ edits \in Nat

(* "Mid-Pack failure leaves no partial output" (docs/superpowers/specs/    *)
(* 2026-05-06-dipx-bundle-format-design.md:548): whoever looks, whenever,  *)
(* finds no output or a whole bundle.                                      *)
DestIsWhole == dest \in {Absent} \cup WholeFiles

(* A temporary file belongs to a command that is at work or was killed, or *)
(* it is one that os.Remove could not take away, and then its command      *)
(* ended with an error: exit code 0 never leaves one behind, whoever else  *)
(* was packing to the same output.                                         *)
HasFile(p) == ~dry[p] /\ pc[p] \in {"read", "write", "close", "rename", "remove", "killed"}

NoLitter ==
    \A t \in TmpNames : tmp[t] # Absent =>
        (\E p \in Procs : HasFile(p) /\ name[p] = t) \/ stuck[t] # OK

(* The command implements AtomicFile: only a finished temporary file of    *)
(* its own, with the bundle of the sources it read, replaces the output;   *)
(* exit code 0 of a command that was to write means that it did, and any   *)
(* other end that it did not.                                              *)
CallOf(p) ==
    CASE pc[p] = "idle" -> "idle"
      [] pc[p] = "killed" -> "dead"
      [] pc[p] \in {"write", "close", "rename"} -> "ready"
      [] pc[p] = "renamed" -> "installed"
      [] pc[p] = "remove" -> "left"
      [] pc[p] = "exited" -> IF code[p] = OK /\ ~dry[p] THEN "ok" ELSE "left"
      [] OTHER -> "working"

Atomic == INSTANCE AtomicFile
            WITH Callers <- Procs, Values <- WholeFiles, content <- dest,
                 call <- [p \in Procs |-> CallOf(p)],
                 value <- [p \in Procs |-> Part(read[p], Chunks)]

ImplementsAtomicFile == Atomic!Spec

=============================================================================
