SPECIFICATION Spec
CONSTANTS
    Keys <- MCKeys
    None = None
    Unset = ""
    reconcilers <- MCReconcilers
    patchReconcilers <- MCPatchReconcilers
    statusReconcilers <- MCStatusReconcilers
    cleanupFns = {"C"}
    WithPredicate <- MCWithPredicate
    Reads <- MCReads
    Make <- MCMake
    TestObjects <- MCTestObjects
    MaxEdits = 1
    Depth = 2
INVARIANTS
    TypeOK
    Converges
    OutputsTracked
PROPERTIES
    ReadersRerun
    ResultsTell
    RevertedOnce
