SPECIFICATION Spec
CONSTANTS
    b1 = b1
    b2 = b2
    Bundles = {b1, b2}
    FilesOf <- MCFilesOf
    Absent = Absent
    Torn = Torn
    Procs = {p1}
    MaxCalls = 3
INVARIANTS DestIsWhole SuccessIsThisBundle OldIsKept
PROPERTY ReplacesOnlyByForce
CHECK_DEADLOCK FALSE
