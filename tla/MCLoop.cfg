SPECIFICATION Spec
CONSTANTS
    Objects <- MCObjects
    reconcilers <- MCReconcilers
    statusReconcilers <- MCStatusReconcilers
    cleanupFns = {"A"}
    Filtered = {"A", "B"}
    OutputOf <- MCOutputOf
    Fetches <- MCFetches
    Accepts <- MCAccepts
    Touched <- MCTouched
    Interrupted <- MCInterrupted
    None = None
    Missing = Missing
    MaxChanges = 1
    MaxTroubles = 1
    MaxQueue = 1
    MaxBusy = 1
INVARIANTS
    TypeOK
    UpToDate
PROPERTIES
    CallbackBeforeGone
    ForeignKept
    OrphansUnlessUnrecorded
