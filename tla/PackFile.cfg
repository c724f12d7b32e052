SPECIFICATION Spec
CONSTANTS
    v1 = v1
    v2 = v2
    v3 = v3
    t1 = t1
    t2 = t2
    t3 = t3
    p1 = p1
    p2 = p2
    Procs = {p1, p2}
    TmpNames = {t1, t2, t3}
    Versions <- MCVersions
    Valid <- MCValid
    Packable <- MCPackable
    Chunks = 2
    Absent = Absent
    MaxCalls = 2
    MaxEdits = 1
INVARIANTS DestIsWhole NoLitter
PROPERTY ImplementsAtomicFile
CHECK_DEADLOCK FALSE
