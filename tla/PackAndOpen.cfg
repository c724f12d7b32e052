SPECIFICATION RoundTripSpec
CONSTANTS
    PathOrder <- MCPathOrder
    Unsafe <- MCUnsafe
    Resolve <- MCResolve
    DiskResolve <- MCDiskResolve
    Fold <- MCFold
    MaxFiles = 4
    PerFileCap = 3
    TotalCap = 4
    MaxDepth = 2
    NoManifest = NoManifest
    Missing = Missing
    Symlink = Symlink
    Entry = "a.dip"
    Trees <- MCTrees
    EditsOf <- MCEditsOf
    MaxEdits = 2
INVARIANTS
    BundleIsClosure
    RefusedForCause
PROPERTY RoundTripEnds
CHECK_DEADLOCK FALSE
