-------------------------- MODULE PackToFileProofs --------------------------
(***************************************************************************)
(* dippin pack replaces its output atomically, however many commands run,  *)
(* whatever fails and whoever is killed: PackToFile implements AtomicFile. *)
(***************************************************************************)
EXTENDS PackToFile, TLAPS

(* A command that has a temporary file is alone with it; what is in it is  *)
(* of the version the command read, and all of it is there when it comes   *)
(* to the rename.                                                          *)
Holds(p) == pc[p] \in {"read", "write", "close", "rename", "remove"} /\ ~dry[p]

OwnFiles ==
    \A p \in Procs : Holds(p) =>
        /\ tmp[name[p]] # Absent
        /\ \A q \in Procs : Holds(q) /\ q # p => name[q] # name[p]

ReadyIsWhole ==
    \A p \in Procs :
        /\ pc[p] \in {"create", "close", "rename", "renamed", "remove"} => ~dry[p]
        /\ pc[p] = "remove" => code[p] # OK
        /\ pc[p] = "read" /\ ~dry[p] => tmp[name[p]].written = 0
        /\ pc[p] = "write" /\ ~dry[p] =>
              tmp[name[p]].written = 0 \/ tmp[name[p]].version = read[p]
        /\ pc[p] \in {"close", "rename"} => tmp[name[p]] = Part(read[p], Chunks)

IInv == TypeOK /\ DestIsWhole /\ OwnFiles /\ ReadyIsWhole

-----------------------------------------------------------------------------
(* Files *)

LEMMA PartIsFile == \A v \in Versions, n \in 0..Chunks : Part(v, n) \in Files
BY DEF Part, Files

LEMMA WholeIsFile == WholeFiles \subseteq Files
BY PartIsFile, ChunksAssumption DEF WholeFiles

LEMMA FullIsPart == \A f \in Files : f.written = Chunks => f = Part(f.version, Chunks)
BY DEF Files, Part

LEMMA PartHas == \A v, n : Part(v, n).version = v /\ Part(v, n).written = n
BY DEF Part

-----------------------------------------------------------------------------
(* Types *)

LEMMA InitIInv == Init => IInv
<1> SUFFICES ASSUME Init PROVE IInv
  OBVIOUS
<1>1. (CHOOSE t \in TmpNames : TRUE) \in TmpNames
  BY NamesAssumption
<1>2. TypeOK
  BY <1>1, WholeIsFile DEF Init, TypeOK, Labels, Resting, Codes
<1>3. DestIsWhole /\ OwnFiles /\ ReadyIsWhole
  BY DEF Init, DestIsWhole, OwnFiles, ReadyIsWhole, Holds
<1>4. QED
  BY <1>2, <1>3 DEF IInv

(* A command moves to a label and may set its exit code.                   *)
LEMMA MovesType ==
    ASSUME TypeOK, NEW p \in Procs, NEW l \in Labels, NEW c \in Codes
    PROVE  /\ [pc EXCEPT ![p] = l] \in [Procs -> Labels]
           /\ [code EXCEPT ![p] = c] \in [Procs -> Codes]
BY DEF TypeOK

LEMMA StepKeepsTypes == ASSUME TypeOK, NEW p \in Procs, Step(p) PROVE TypeOK'
<1>1. pc' \in [Procs -> Labels] /\ code' \in [Procs -> Codes]
  <2> USE MovesType DEF Codes, Labels, Resting, Goto, Exit, GiveUp
  <2>1. CASE Validate(p)
    BY <2>1 DEF Validate, TypeOK
  <2>2. CASE CreateTemp(p)
    BY <2>2 DEF CreateTemp, TypeOK
  <2>3. CASE ReadSources(p)
    BY <2>3 DEF ReadSources, TypeOK
  <2>4. CASE WriteChunk(p)
    BY <2>4 DEF WriteChunk, TypeOK
  <2>5. CASE Close(p)
    BY <2>5 DEF Close, TypeOK
  <2>6. CASE Rename(p)
    BY <2>6 DEF Rename, TypeOK
  <2>7. CASE Succeed(p)
    BY <2>7 DEF Succeed, TypeOK
  <2>8. CASE Remove(p)
    BY <2>8 DEF Remove, TypeOK
  <2>9. QED
    BY <2>1, <2>2, <2>3, <2>4, <2>5, <2>6, <2>7, <2>8 DEF Step
<1>2. tmp' \in [TmpNames -> {Absent} \cup Files] /\ name' \in [Procs -> TmpNames]
  <2> USE DEF TypeOK
  <2>1. \A t \in TmpNames, f \in {Absent} \cup Files :
            [tmp EXCEPT ![t] = f] \in [TmpNames -> {Absent} \cup Files]
    OBVIOUS
  <2>2. name[p] \in TmpNames /\ source \in Versions /\ read[p] \in Versions
    OBVIOUS
  <2>3. Part(source, 0) \in Files /\ Part(read[p], 0) \in Files
    BY <2>2, PartIsFile, ChunksAssumption
  <2>4. CASE CreateTemp(p)
    BY <2>4, <2>1, <2>2, <2>3 DEF CreateTemp
  <2>5. CASE WriteChunk(p)
    <3>1. CASE ~dry[p] /\ ~Full(p) /\ tmp' = [tmp EXCEPT ![name[p]] =
                        Part(read[p], IF @ = Absent THEN 1 ELSE @.written + 1)]
      <4> DEFINE n == IF tmp[name[p]] = Absent THEN 1 ELSE tmp[name[p]].written + 1
      <4>1. tmp[name[p]] # Absent => tmp[name[p]].written \in 0..Chunks /\ tmp[name[p]].written # Chunks
        BY <2>2, <3>1 DEF Full, Files
      <4>2. n \in 0..Chunks
        BY <4>1, ChunksAssumption
      <4>3. Part(read[p], n) \in Files
        BY <4>2, <2>2, PartIsFile
      <4>4. tmp' = [tmp EXCEPT ![name[p]] = Part(read[p], n)]
        BY <3>1
      <4> HIDE DEF n
      <4>5. tmp' \in [TmpNames -> {Absent} \cup Files]
        BY <4>3, <4>4, <2>1, <2>2
      <4>6. QED
        BY <4>5, <2>5 DEF WriteChunk
    <3>2. CASE UNCHANGED tmp
      BY <3>2, <2>5 DEF WriteChunk
    <3>3. QED
      BY <3>1, <3>2, <2>5 DEF WriteChunk
  <2>6. CASE Close(p)
    BY <2>6, <2>1, <2>2, <2>3 DEF Close
  <2>7. CASE Rename(p)
    BY <2>7, <2>1, <2>2 DEF Rename
  <2>8. CASE Remove(p)
    BY <2>8, <2>1, <2>2 DEF Remove
  <2>9. CASE Validate(p) \/ ReadSources(p) \/ Succeed(p)
    BY <2>9 DEF Validate, ReadSources, Succeed
  <2>10. QED
    BY <2>4, <2>5, <2>6, <2>7, <2>8, <2>9 DEF Step
<1>3. dest' \in {Absent} \cup Files
  <2>1. dest' = dest \/ dest' = tmp[name[p]]
    BY DEF Step, Validate, CreateTemp, ReadSources, WriteChunk, Close, Rename, Succeed, Remove
  <2>2. tmp[name[p]] \in {Absent} \cup Files
    BY DEF TypeOK
  <2>3. QED
    BY <2>1, <2>2 DEF TypeOK
<1>4. /\ UNCHANGED <<source, dry, calls, edits>>
      /\ read' = read \/ read' = [read EXCEPT ![p] = source]
  BY DEF Step, Validate, CreateTemp, ReadSources, WriteChunk, Close, Rename, Succeed, Remove
<1>5. read' \in [Procs -> Versions]
  BY <1>4 DEF TypeOK
<1>6. stuck' \in [TmpNames -> Codes]
  <2>1. stuck' = stuck \/ stuck' = [stuck EXCEPT ![name[p]] = code[p]]
    BY DEF Step, Validate, CreateTemp, ReadSources, WriteChunk, Close, Rename, Succeed, Remove
  <2>2. name[p] \in TmpNames /\ code[p] \in Codes
    BY DEF TypeOK
  <2>3. QED
    BY <2>1, <2>2 DEF TypeOK
<1>7. QED
  BY <1>1, <1>2, <1>3, <1>4, <1>5, <1>6 DEF TypeOK

-----------------------------------------------------------------------------
(* One command's files are its own                                         *)

LEMMA PartsExist == \A v \in Versions, n \in 0..Chunks : Part(v, n) # Absent
BY PartIsFile, AbsentAssumption

(* What a step of p leaves alone, whatever the step.                       *)
LEMMA StepIsLocal ==
    ASSUME TypeOK, NEW p \in Procs, Step(p), NEW q \in Procs, q # p
    PROVE  /\ pc'[q] = pc[q] /\ name'[q] = name[q] /\ dry'[q] = dry[q]
           /\ code'[q] = code[q] /\ read'[q] = read[q]
BY DEF TypeOK, Step, Validate, CreateTemp, ReadSources, WriteChunk, Close, Rename, Succeed, Remove,
       Goto, Exit, GiveUp

(* A step of p writes, renames or removes no file that another one holds.  *)
LEMMA OthersUntouched ==
    ASSUME TypeOK, OwnFiles, ReadyIsWhole, NEW p \in Procs, Step(p), NEW q \in Procs, q # p, Holds(q)
    PROVE  tmp'[name[q]] = tmp[name[q]]
<1>1. name[q] \in TmpNames /\ name[p] \in TmpNames /\ tmp[name[q]] # Absent
  BY DEF TypeOK, OwnFiles
<1>2. CASE Holds(p)
  <2>1. name[p] # name[q]
    BY <1>2 DEF OwnFiles
  <2>2. \A t \in TmpNames \ {name[p]} : tmp'[t] = tmp[t]
    BY <1>2 DEF Step, Validate, CreateTemp, ReadSources, WriteChunk, Close, Rename, Succeed, Remove, Holds,
                TypeOK
  <2>3. QED
    BY <1>1, <2>1, <2>2
<1>3. CASE ~Holds(p)
  <2>1. CASE CreateTemp(p)
    <3>1. tmp' = tmp \/ \E t \in TmpNames : tmp[t] = Absent /\ tmp' = [tmp EXCEPT ![t] = Part(source, 0)]
      BY <2>1 DEF CreateTemp
    <3>2. QED
      BY <3>1, <1>1 DEF TypeOK
  <2>2. CASE ~CreateTemp(p)
    <3>1. tmp' = tmp
      BY <1>3, <2>2 DEF Step, Validate, ReadSources, WriteChunk, Close, Rename, Succeed, Remove,
                        Holds, ReadyIsWhole
    <3>2. QED
      BY <3>1
  <2>3. QED
    BY <2>1, <2>2
<1>4. QED
  BY <1>2, <1>3

(* What p holds after its step was created in it or held before.           *)
LEMMA HeldAfterStep ==
    ASSUME TypeOK, OwnFiles, ReadyIsWhole, NEW p \in Procs, Step(p), Holds(p)'
    PROVE  /\ tmp'[name'[p]] # Absent
           /\ \A q \in Procs \ {p} : Holds(q) => name[q] # name'[p]
<1>1. CASE CreateTemp(p)
  <2>1. PICK t \in TmpNames : /\ tmp[t] = Absent
                              /\ name' = [name EXCEPT ![p] = t]
                              /\ tmp' = [tmp EXCEPT ![t] = Part(source, 0)]
    BY <1>1 DEF CreateTemp, Holds, Exit, Goto, TypeOK
  <2>2. name'[p] = t /\ tmp'[t] = Part(source, 0)
    BY <2>1 DEF TypeOK
  <2>3. Part(source, 0) # Absent
    BY PartsExist, ChunksAssumption DEF TypeOK
  <2>4. \A q \in Procs \ {p} : Holds(q) => name[q] # t
    BY <2>1 DEF OwnFiles
  <2>5. QED
    BY <2>2, <2>3, <2>4
<1>2. CASE ~CreateTemp(p)
  <2>1. Holds(p) /\ name' = name
    BY <1>2 DEF Step, Validate, ReadSources, WriteChunk, Close, Rename, Succeed, Remove,
                Holds, Goto, Exit, GiveUp, TypeOK, ReadyIsWhole
  <2>2. tmp[name[p]] # Absent /\ \A q \in Procs \ {p} : Holds(q) => name[q] # name[p]
    BY <2>1 DEF OwnFiles
  <2>3. tmp'[name[p]] # Absent
    <3>1. name[p] \in TmpNames /\ tmp[name[p]] \in Files /\ read[p] \in Versions
      BY <2>2 DEF TypeOK
    <3>2. CASE UNCHANGED tmp
      BY <3>2, <2>2
    <3>3. CASE WriteChunk(p) /\ ~UNCHANGED tmp
      <4>1. tmp[name[p]].written \in 0..Chunks
        BY <3>1 DEF Files
      <4>2. tmp'[name[p]] = Part(read[p], tmp[name[p]].written + 1) /\ tmp[name[p]].written # Chunks
        BY <3>3, <3>1, <2>2 DEF WriteChunk, TypeOK, Full
      <4>3. QED
        BY <4>1, <4>2, <3>1, PartsExist, ChunksAssumption
    <3>4. CASE Close(p)
      <4>1. tmp' = tmp \/ tmp' = [tmp EXCEPT ![name[p]] = Part(read[p], 0)]
        BY <3>4 DEF Close
      <4>2. QED
        BY <4>1, <3>1, <2>2, PartsExist, ChunksAssumption DEF TypeOK
    <3>5. CASE Rename(p)
      BY <3>5, <2>2 DEF Rename, Holds, Goto, GiveUp, TypeOK
    <3>6. CASE Remove(p)
      BY <3>6 DEF Remove, Holds, Goto, TypeOK
    <3>7. QED
      BY <1>2, <3>2, <3>3, <3>4, <3>5, <3>6 DEF Step, Validate, ReadSources, Succeed
  <2>4. QED
    BY <2>1, <2>2, <2>3
<1>3. QED
  BY <1>1, <1>2

LEMMA StepKeepsOwnFiles ==
    ASSUME TypeOK, OwnFiles, ReadyIsWhole, NEW p \in Procs, Step(p) PROVE OwnFiles'
<1> SUFFICES ASSUME NEW q \in Procs, Holds(q)'
             PROVE  /\ tmp'[name'[q]] # Absent
                    /\ \A r \in Procs : Holds(r)' /\ r # q => name'[r] # name'[q]
  BY DEF OwnFiles
<1>1. \A r \in Procs \ {p} : name'[r] = name[r] /\ (Holds(r)' <=> Holds(r))
  BY StepIsLocal DEF Holds
<1>2. CASE q = p
  BY <1>1, <1>2, HeldAfterStep
<1>3. CASE q # p
  <2>1. Holds(q) /\ tmp'[name[q]] = tmp[name[q]] /\ name'[q] = name[q]
    BY <1>1, <1>3, OthersUntouched
  <2>2. tmp[name[q]] # Absent /\ \A r \in Procs \ {p, q} : Holds(r) => name[r] # name[q]
    BY <2>1 DEF OwnFiles
  <2>3. Holds(p)' => name'[p] # name'[q]
    BY <2>1, <1>3, HeldAfterStep
  <2>4. QED
    BY <1>1, <2>1, <2>2, <2>3
<1>4. QED
  BY <1>2, <1>3

(* What the file of p holds after each step of p.                          *)
LEMMA FileAfterStep ==
    ASSUME TypeOK, OwnFiles, ReadyIsWhole, NEW p \in Procs, Step(p)
    PROVE  LET f == tmp'[name'[p]]
           IN  /\ pc'[p] = "read" /\ ~dry'[p] => f.written = 0
               /\ pc'[p] = "write" /\ ~dry'[p] => f.written = 0 \/ f.version = read'[p]
               /\ pc'[p] \in {"close", "rename"} => f = Part(read'[p], Chunks)
<1> DEFINE f == tmp'[name'[p]]
           Good == /\ pc'[p] = "read" /\ ~dry'[p] => f.written = 0
                   /\ pc'[p] = "write" /\ ~dry'[p] => f.written = 0 \/ f.version = read'[p]
                   /\ pc'[p] \in {"close", "rename"} => f = Part(read'[p], Chunks)
<1>0. name[p] \in TmpNames /\ read[p] \in Versions /\ source \in Versions
  BY DEF TypeOK
<1>1. CASE Validate(p)
  BY <1>1 DEF Validate, Goto, Exit, TypeOK
<1>2. CASE CreateTemp(p)
  <2>1. pc'[p] = "read" \/ pc'[p] = "exited"
    BY <1>2 DEF CreateTemp, Goto, Exit, TypeOK
  <2>2. CASE pc'[p] = "read"
    <3>1. PICK t \in TmpNames : /\ name' = [name EXCEPT ![p] = t]
                                /\ tmp' = [tmp EXCEPT ![t] = Part(source, 0)]
      BY <1>2, <2>2 DEF CreateTemp, Goto, Exit, TypeOK
    <3>2. f = Part(source, 0)
      BY <3>1 DEF TypeOK
    <3>3. QED
      BY <2>2, <3>2, PartHas
  <2>3. QED
    BY <2>1, <2>2
<1>3. CASE ReadSources(p)
  <2>1. pc'[p] \in {"write", "exited", "remove"} /\ tmp' = tmp /\ name' = name
        /\ dry' = dry /\ pc[p] = "read"
    BY <1>3 DEF ReadSources, Goto, GiveUp, TypeOK
  <2>2. QED
    BY <2>1 DEF ReadyIsWhole
<1>4. CASE WriteChunk(p)
  <2>1. name' = name /\ dry' = dry /\ read' = read /\ pc[p] = "write"
    BY <1>4 DEF WriteChunk
  <2>2. CASE dry[p]
    BY <1>4, <2>1, <2>2 DEF WriteChunk, Goto, Exit, GiveUp, TypeOK
  <2>3. CASE ~dry[p] /\ pc'[p] = "write"
    <3>1. tmp' = [tmp EXCEPT ![name[p]] =
                        Part(read[p], IF @ = Absent THEN 1 ELSE @.written + 1)]
      BY <1>4, <2>3 DEF WriteChunk, Goto, Exit, GiveUp, TypeOK
    <3>2. f.version = read[p]
      BY <1>0, <2>1, <3>1, PartHas DEF TypeOK
    <3>3. QED
      BY <2>1, <2>3, <3>2
  <2>4. CASE ~dry[p] /\ pc'[p] = "close"
    <3>1. Full(p) /\ tmp' = tmp
      BY <1>4, <2>4 DEF WriteChunk, Goto, Exit, GiveUp, TypeOK
    <3>2. tmp[name[p]] \in Files /\ tmp[name[p]].written = Chunks
      BY <1>0, <3>1 DEF Full, TypeOK
    <3>3. tmp[name[p]].version = read[p]
      BY <2>1, <2>4, <3>2, ChunksAssumption DEF ReadyIsWhole
    <3>4. QED
      BY <2>1, <2>4, <3>1, <3>2, <3>3, FullIsPart
  <2>5. CASE ~dry[p] /\ pc'[p] \in {"exited", "remove"}
    BY <2>5
  <2>6. pc'[p] \in {"write", "close", "exited", "remove"}
    BY <1>4 DEF WriteChunk, Goto, Exit, GiveUp, TypeOK
  <2>7. QED
    BY <2>2, <2>3, <2>4, <2>5, <2>6
<1>5. CASE Close(p)
  <2>1. pc'[p] = "rename" => tmp' = tmp
    BY <1>5 DEF Close, Goto, GiveUp, TypeOK
  <2>2. pc'[p] \in {"rename", "remove", "exited"} /\ name' = name /\ read' = read /\ pc[p] = "close"
    BY <1>5 DEF Close, Goto, GiveUp, TypeOK
  <2>3. QED
    BY <2>1, <2>2 DEF ReadyIsWhole
<1>6. CASE Rename(p) \/ Succeed(p) \/ Remove(p)
  BY <1>6 DEF Rename, Succeed, Remove, Goto, Exit, GiveUp, TypeOK
<1>7. Good
  BY <1>1, <1>2, <1>3, <1>4, <1>5, <1>6 DEF Step
<1>8. QED
  BY <1>7

LEMMA StepKeepsReady ==
    ASSUME TypeOK, OwnFiles, ReadyIsWhole, NEW p \in Procs, Step(p) PROVE ReadyIsWhole'
<1> SUFFICES ASSUME NEW q \in Procs
             PROVE  /\ pc'[q] \in {"create", "close", "rename", "renamed", "remove"} => ~dry'[q]
                    /\ pc'[q] = "remove" => code'[q] # OK
                    /\ pc'[q] = "read" /\ ~dry'[q] => tmp'[name'[q]].written = 0
                    /\ pc'[q] = "write" /\ ~dry'[q] =>
                          tmp'[name'[q]].written = 0 \/ tmp'[name'[q]].version = read'[q]
                    /\ pc'[q] \in {"close", "rename"} => tmp'[name'[q]] = Part(read'[q], Chunks)
  BY DEF ReadyIsWhole
<1>1. CASE q = p
  <2>1. /\ pc'[p] \in {"create", "close", "rename", "renamed", "remove"} => ~dry'[p]
        /\ pc'[p] = "remove" => code'[p] # OK
    BY DEF Step, Validate, CreateTemp, ReadSources, WriteChunk, Close, Rename, Succeed, Remove,
           Goto, Exit, GiveUp, TypeOK, ReadyIsWhole, OK, UserError, IntegrityError, IOError
  <2>2. QED
    BY <1>1, <2>1, FileAfterStep
<1>2. CASE q # p
  <2>1. /\ pc'[q] = pc[q] /\ name'[q] = name[q] /\ dry'[q] = dry[q]
        /\ code'[q] = code[q] /\ read'[q] = read[q]
    BY <1>2, StepIsLocal
  <2>2. pc[q] \in {"close", "rename"} \/ (pc[q] \in {"read", "write"} /\ ~dry[q]) => Holds(q)
    BY DEF ReadyIsWhole, Holds
  <2>3. pc[q] \in {"close", "rename"} \/ (pc[q] \in {"read", "write"} /\ ~dry[q]) =>
            tmp'[name[q]] = tmp[name[q]]
    BY <1>2, <2>2, OthersUntouched
  <2>4. QED
    BY <2>1, <2>3 DEF ReadyIsWhole
<1>3. QED
  BY <1>1, <1>2

-----------------------------------------------------------------------------
(* The output                                                              *)

(* The output changes only by a rename, which puts a whole file there.     *)
LEMMA OutputByRename ==
    ASSUME TypeOK, ReadyIsWhole, NEW p \in Procs, Step(p)
    PROVE  dest' = dest \/ (pc[p] = "rename" /\ pc'[p] = "renamed" /\ dest' = Part(read[p], Chunks))
<1>1. CASE Rename(p)
  BY <1>1 DEF Rename, ReadyIsWhole, Goto, TypeOK
<1>2. CASE ~Rename(p)
  BY <1>2 DEF Step, Validate, CreateTemp, ReadSources, WriteChunk, Close, Succeed, Remove
<1>3. QED
  BY <1>1, <1>2

LEMMA NextKeeps == IInv /\ [Next]_vars => IInv'
<1> SUFFICES ASSUME IInv, [Next]_vars PROVE IInv'
  OBVIOUS
<1> USE DEF IInv
<1>1. ASSUME NEW p \in Procs, Step(p) PROVE IInv'
  <2>1. TypeOK' /\ OwnFiles' /\ ReadyIsWhole'
    BY <1>1, StepKeepsTypes, StepKeepsOwnFiles, StepKeepsReady
  <2>2. DestIsWhole'
    <3>1. Part(read[p], Chunks) \in WholeFiles
      BY DEF WholeFiles, TypeOK
    <3>2. QED
      BY <1>1, <3>1, OutputByRename DEF DestIsWhole
  <2>3. QED
    BY <2>1, <2>2
<1>2. CASE Edit
  BY <1>2 DEF Edit, TypeOK, DestIsWhole, OwnFiles, ReadyIsWhole, Holds
<1>3. ASSUME NEW p \in Procs, Invoke(p) \/ Kill(p) PROVE IInv'
  <2>1. /\ UNCHANGED <<source, dest, tmp, name, read, code, stuck, edits>>
        /\ \E l \in {"validate", "killed"} : pc' = [pc EXCEPT ![p] = l]
        /\ pc'[p] = "killed" => UNCHANGED dry
        /\ \E d \in BOOLEAN : dry' = [dry EXCEPT ![p] = d]
        /\ calls' \in Nat
    BY <1>3 DEF Invoke, Kill, Goto, TypeOK
  <2>2. TypeOK'
    BY <2>1 DEF TypeOK, Labels
  <2>3. \A q \in Procs : (Holds(q)' => Holds(q)) /\ (pc'[q] \in {"validate", "killed"} \/ (pc'[q] = pc[q] /\ dry'[q] = dry[q]))
    BY <2>1 DEF Holds, TypeOK
  <2>4. OwnFiles' /\ ReadyIsWhole' /\ DestIsWhole'
    BY <2>1, <2>3 DEF OwnFiles, ReadyIsWhole, DestIsWhole
  <2>5. QED
    BY <2>2, <2>4
<1>4. CASE UNCHANGED vars
  BY <1>4 DEF vars, TypeOK, DestIsWhole, OwnFiles, ReadyIsWhole, Holds
<1>5. QED
  BY <1>1, <1>2, <1>3, <1>4 DEF Next

(* Every run keeps the types and never shows a part of a bundle: "Mid-Pack *)
(* failure leaves no partial output" (the design document, line 548).      *)
THEOREM PackedIsWhole == Spec => [](TypeOK /\ DestIsWhole)
<1>1. IInv => TypeOK /\ DestIsWhole
  BY DEF IInv
<1>2. QED
  BY InitIInv, NextKeeps, <1>1, PTL DEF Spec

-----------------------------------------------------------------------------
(* Nothing is left lying about                                             *)

(* What could not be removed stays marked with the error of its command.   *)
LEMMA StuckStays ==
    ASSUME TypeOK, ReadyIsWhole, NEW p \in Procs, Step(p), NEW t \in TmpNames, stuck[t] # OK
    PROVE  stuck'[t] # OK
<1>1. CASE Remove(p)
  <2>1. code[p] # OK
    BY <1>1 DEF Remove, ReadyIsWhole
  <2>2. stuck' = stuck \/ stuck' = [stuck EXCEPT ![name[p]] = code[p]]
    BY <1>1 DEF Remove
  <2>3. QED
    BY <2>1, <2>2 DEF TypeOK
<1>2. CASE ~Remove(p)
  <2>1. stuck' = stuck
    BY <1>2 DEF Step, Validate, CreateTemp, ReadSources, WriteChunk, Close, Rename, Succeed
  <2>2. QED
    BY <2>1
<1>3. QED
  BY <1>1, <1>2

(* Letting go of a file: it is gone, or marked with the error that p ends  *)
(* with.                                                                   *)
LEMMA LettingGo ==
    ASSUME TypeOK, ReadyIsWhole, NEW p \in Procs, Step(p), HasFile(p), ~HasFile(p)'
    PROVE  tmp'[name[p]] = Absent \/ stuck'[name[p]] # OK
<1>1. CASE Remove(p)
  <2>1. code[p] # OK
    BY <1>1 DEF Remove, ReadyIsWhole
  <2>2. \/ tmp' = [tmp EXCEPT ![name[p]] = Absent]
        \/ stuck' = [stuck EXCEPT ![name[p]] = code[p]]
    BY <1>1 DEF Remove
  <2>3. name[p] \in TmpNames
    BY DEF TypeOK
  <2>4. QED
    BY <2>1, <2>2, <2>3 DEF TypeOK
<1>2. CASE ~Remove(p)
  BY <1>2 DEF Step, Validate, CreateTemp, ReadSources, WriteChunk, Close, Rename, Succeed,
              HasFile, Goto, Exit, GiveUp, TypeOK
<1>3. QED
  BY <1>1, <1>2

(* A step of p only touches p's file, the one it creates included, and     *)
(* takes it away before p lets go of it, or leaves it marked.              *)
LEMMA StepKeepsNoLitter ==
    ASSUME TypeOK, ReadyIsWhole, NoLitter, NEW p \in Procs, Step(p) PROVE NoLitter'
<1> SUFFICES ASSUME NEW t \in TmpNames, tmp'[t] # Absent, stuck'[t] = OK
             PROVE  \E q \in Procs : HasFile(q)' /\ name'[q] = t
  BY DEF NoLitter
<1>0. stuck[t] = OK
  BY StuckStays
<1>1. \A q \in Procs \ {p} : name'[q] = name[q] /\ (HasFile(q)' <=> HasFile(q))
  BY StepIsLocal DEF HasFile
<1>2. CASE CreateTemp(p)
  <2>1. CASE tmp' = tmp
    <3>1. PICK q \in Procs : HasFile(q) /\ name[q] = t
      BY <1>0, <2>1 DEF NoLitter
    <3>2. q # p
      BY <1>2, <3>1 DEF CreateTemp, HasFile
    <3>3. QED
      BY <1>1, <3>1, <3>2
  <2>2. CASE tmp' # tmp
    <3>1. PICK u \in TmpNames : /\ name' = [name EXCEPT ![p] = u]
                                /\ tmp' = [tmp EXCEPT ![u] = Part(source, 0)]
                                /\ Goto(p, "read")
      BY <1>2, <2>2 DEF CreateTemp
    <3>2. HasFile(p)' /\ name'[p] = u
      BY <1>2, <3>1 DEF CreateTemp, Goto, HasFile, ReadyIsWhole, TypeOK
    <3>3. CASE t = u
      BY <3>2, <3>3
    <3>4. CASE t # u
      <4>1. PICK q \in Procs : HasFile(q) /\ name[q] = t
        BY <1>0, <3>1, <3>4 DEF NoLitter, TypeOK
      <4>2. q # p
        BY <1>2, <4>1 DEF CreateTemp, HasFile
      <4>3. QED
        BY <1>1, <4>1, <4>2
    <3>5. QED
      BY <3>3, <3>4
  <2>3. QED
    BY <2>1, <2>2
<1>3. CASE ~CreateTemp(p)
  <2>1. name' = name
    BY <1>3 DEF Step, Validate, ReadSources, WriteChunk, Close, Rename, Succeed, Remove
  <2>2. CASE t = name[p] /\ HasFile(p)'
    BY <2>1, <2>2
  <2>3. CASE t # name[p] \/ ~HasFile(p)'
    <3>1. t # name[p] => tmp'[t] = tmp[t]
      BY <1>3 DEF Step, Validate, ReadSources, WriteChunk, Close, Rename, Succeed, Remove, TypeOK
    <3>2. HasFile(p) /\ ~HasFile(p)' => t # name[p]
      BY LettingGo
    <3>3. ~HasFile(p) => tmp' = tmp
      BY <1>3 DEF Step, Validate, ReadSources, WriteChunk, Close, Rename, Succeed, Remove,
                  HasFile, ReadyIsWhole
    <3>4. tmp[t] # Absent
      BY <2>3, <3>1, <3>2, <3>3
    <3>5. PICK q \in Procs : HasFile(q) /\ name[q] = t
      BY <1>0, <3>4 DEF NoLitter
    <3>6. q # p
      BY <2>3, <3>2, <3>5
    <3>7. QED
      BY <1>1, <3>5, <3>6
  <2>4. QED
    BY <2>2, <2>3
<1>4. QED
  BY <1>2, <1>3

(* A command that exits has renamed its temporary file over the output,    *)
(* removed it, or failed to (cmd_pack.go:123, 127 and 132 drop the error   *)
(* of os.Remove) and then it exits with an error: for any number of        *)
(* commands and names, the others lie behind a command still at work or    *)
(* killed.                                                                 *)
THEOREM NothingIsLeft == Spec => []NoLitter
<1>1. Init => NoLitter
  BY DEF Init, NoLitter
<1>2. IInv /\ NoLitter /\ [Next]_vars => NoLitter'
  <2> SUFFICES ASSUME IInv, NoLitter, [Next]_vars PROVE NoLitter'
    OBVIOUS
  <2>1. ASSUME NEW p \in Procs, Step(p) PROVE NoLitter'
    BY <2>1, StepKeepsNoLitter DEF IInv
  <2>2. ASSUME NEW p \in Procs, Invoke(p) \/ Kill(p) PROVE NoLitter'
    <3>1. UNCHANGED <<tmp, name, stuck>> /\ \A q \in Procs : HasFile(q) => HasFile(q)'
      BY <2>2 DEF Invoke, Kill, Goto, HasFile, Resting, IInv, TypeOK
    <3>2. QED
      BY <3>1 DEF NoLitter
  <2>3. CASE Edit \/ UNCHANGED vars
    BY <2>3 DEF Edit, vars, NoLitter, HasFile
  <2>4. QED
    BY <2>1, <2>2, <2>3 DEF Next
<1>3. QED
  BY InitIInv, NextKeeps, <1>1, <1>2, PTL DEF Spec

-----------------------------------------------------------------------------
(* The refinement                                                          *)

calling == [p \in Procs |-> CallOf(p)]
meant == [p \in Procs |-> Part(read[p], Chunks)]

(* A step of one command moves its own call only, and changes what it      *)
(* means to write only when it reads the sources.                          *)
LEMMA OneCallMoves ==
    ASSUME TypeOK, NEW p \in Procs, Step(p) \/ Invoke(p) \/ Kill(p)
    PROVE  /\ calling' = [calling EXCEPT ![p] = CallOf(p)']
           /\ meant' = [meant EXCEPT ![p] = Part(read'[p], Chunks)]
<1>1. /\ \A q \in Procs \ {p} : CallOf(q)' = CallOf(q)
      /\ \A q \in Procs \ {p} : read'[q] = read[q]
  <2>1. \A q \in Procs \ {p} : /\ pc'[q] = pc[q] /\ dry'[q] = dry[q]
                               /\ code'[q] = code[q] /\ read'[q] = read[q]
    <3>1. CASE Step(p)
      BY <3>1, StepIsLocal
    <3>2. CASE Invoke(p) \/ Kill(p)
      BY <3>2 DEF Invoke, Kill, Goto, TypeOK
    <3>3. QED
      BY <3>1, <3>2
  <2>2. QED
    BY <2>1 DEF CallOf
<1>2. QED
  BY <1>1 DEF calling, meant

(* Where a step of p takes the call of p, and what it does to the output.  *)
LEMMA StepOfCall ==
    ASSUME TypeOK, ReadyIsWhole, NEW p \in Procs, Step(p)
    PROVE  \/ CallOf(p)' = CallOf(p) /\ UNCHANGED <<dest, read>>
           \/ CallOf(p) \in {"working", "ready"} /\ CallOf(p)' = "left" /\ UNCHANGED <<dest, read>>
           \/ CallOf(p) = "working" /\ CallOf(p)' = "ready" /\ dest' = dest
           \/ /\ CallOf(p) = "ready" /\ CallOf(p)' = "installed"
              /\ dest' = Part(read[p], Chunks) /\ read' = read
           \/ CallOf(p) = "installed" /\ CallOf(p)' = "ok" /\ UNCHANGED <<dest, read>>
<1> USE DEF CallOf, Goto, Exit, GiveUp, TypeOK, OK, UserError, IntegrityError, IOError
<1>1. CASE Validate(p)
  BY <1>1 DEF Validate
<1>2. CASE CreateTemp(p)
  BY <1>2 DEF CreateTemp
<1>3. CASE ReadSources(p)
  BY <1>3 DEF ReadSources
<1>4. CASE WriteChunk(p)
  BY <1>4 DEF WriteChunk
<1>5. CASE Close(p)
  BY <1>5 DEF Close
<1>6. CASE Rename(p)
  BY <1>6 DEF Rename, ReadyIsWhole
<1>7. CASE Succeed(p)
  BY <1>7 DEF Succeed, ReadyIsWhole
<1>8. CASE Remove(p)
  BY <1>8 DEF Remove, ReadyIsWhole
<1>9. QED
  BY <1>1, <1>2, <1>3, <1>4, <1>5, <1>6, <1>7, <1>8 DEF Step

LEMMA InitImplements == Init => Atomic!Init
<1> SUFFICES ASSUME Init PROVE Atomic!Init
  OBVIOUS
<1>1. \A p \in Procs : CallOf(p) = "idle"
  BY DEF Init, CallOf
<1>2. dest \in WholeFiles \cup {Absent}
  BY DEF Init
<1>3. [p \in Procs |-> Part(read[p], Chunks)] \in [Procs -> WholeFiles]
  BY DEF Init, WholeFiles
<1>4. QED
  BY <1>1, <1>2, <1>3 DEF Atomic!Init

LEMMA NextImplements == IInv /\ [Next]_vars => [Atomic!Next]_<<dest, meant, calling>>
<1> SUFFICES ASSUME IInv, [Next]_vars, ~UNCHANGED <<dest, meant, calling>> PROVE Atomic!Next
  OBVIOUS
<1> USE DEF IInv
<1>1. ASSUME NEW p \in Procs, Step(p) \/ Invoke(p) \/ Kill(p) PROVE Atomic!Next
  <2>1. calling' = [calling EXCEPT ![p] = CallOf(p)'] /\ calling[p] = CallOf(p)
    BY <1>1, OneCallMoves DEF calling
  <2>2. meant' = [meant EXCEPT ![p] = Part(read'[p], Chunks)] /\ meant[p] = Part(read[p], Chunks)
    BY <1>1, OneCallMoves DEF meant
  <2>3. read' = read => meant' = meant
    BY DEF meant
  <2>4. CASE Step(p)
    <3>1. CASE CallOf(p)' = CallOf(p) /\ UNCHANGED <<dest, read>>
      <4>1. calling' = calling
        BY <2>1, <3>1 DEF calling
      <4>2. QED
        BY <2>3, <3>1, <4>1
    <3>2. CASE CallOf(p) \in {"working", "ready"} /\ CallOf(p)' = "left" /\ UNCHANGED <<dest, read>>
      BY <2>1, <2>3, <3>2 DEF calling, meant, Atomic!Next, Atomic!Move, Atomic!Leave
    <3>3. CASE CallOf(p) = "working" /\ CallOf(p)' = "ready" /\ dest' = dest
      <4>1. read'[p] \in Versions
        BY <2>4, StepKeepsTypes DEF TypeOK
      <4>2. Part(read'[p], Chunks) \in WholeFiles
        BY <4>1 DEF WholeFiles
      <4>3. QED
        BY <2>1, <2>2, <3>3, <4>2 DEF calling, meant, Atomic!Next, Atomic!Move, Atomic!Settle
    <3>4. CASE /\ CallOf(p) = "ready" /\ CallOf(p)' = "installed"
               /\ dest' = Part(read[p], Chunks) /\ read' = read
      BY <2>1, <2>2, <2>3, <3>4 DEF calling, meant, Atomic!Next, Atomic!Move, Atomic!Install
    <3>5. CASE CallOf(p) = "installed" /\ CallOf(p)' = "ok" /\ UNCHANGED <<dest, read>>
      BY <2>1, <2>3, <3>5 DEF calling, meant, Atomic!Next, Atomic!Move, Atomic!Succeed
    <3>6. QED
      BY <2>4, <3>1, <3>2, <3>3, <3>4, <3>5, StepOfCall
  <2>5. CASE Invoke(p)
    <3>1. CallOf(p) \in {"idle", "ok", "left"} /\ CallOf(p)' = "working" /\ UNCHANGED <<dest, read>>
      BY <2>5 DEF Invoke, CallOf, Goto, Resting, TypeOK
    <3>2. QED
      BY <2>1, <2>3, <3>1 DEF calling, meant, Atomic!Next, Atomic!Begin, Atomic!Move
  <2>6. CASE Kill(p)
    <3>1. /\ CallOf(p) \in {"working", "ready", "installed", "left"} /\ CallOf(p)' = "dead"
          /\ UNCHANGED <<dest, read>>
      BY <2>6 DEF Kill, CallOf, Goto, Resting, TypeOK
    <3>2. QED
      BY <2>1, <2>3, <3>1 DEF calling, meant, Atomic!Next, Atomic!Die, Atomic!Move
  <2>7. QED
    BY <1>1, <2>4, <2>5, <2>6
<1>2. CASE Edit
  BY <1>2 DEF Edit, calling, meant, CallOf
<1>3. CASE UNCHANGED vars
  BY <1>3 DEF vars, calling, meant, CallOf
<1>4. QED
  BY <1>1, <1>2, <1>3 DEF Next

(* "File output is atomic" (docs/cli.md:705), for any number of commands,  *)
(* versions and temporary names: a command that exits with 0 has put the   *)
(* bundle of the sources it read in the place of the output, in one step.  *)
THEOREM PackIsAtomic == Spec => ImplementsAtomicFile
<1>1. QED
  BY InitIInv, NextKeeps, InitImplements, NextImplements, PTL
     DEF Spec, ImplementsAtomicFile, Atomic!Spec, calling, meant

=============================================================================
