SPECIFICATION Spec
CONSTANTS
    PathOrder <- MCPathOrder
    Unsafe <- MCUnsafe
    Resolve <- MCResolve
    Fold <- MCFold
    MaxFiles = 4
    PerFileCap = 3
    TotalCap = 4
    MaxDepth = 1
    NoManifest = NoManifest
    CanCancel = TRUE
    Bundles <- MCBundles
INVARIANTS ContentsAreVerified RefsAreClosed RefsAreAcyclic RefusalsAreEarned
CHECK_DEADLOCK FALSE
