SPECIFICATION Spec
CONSTANTS
    Objects <- MCObjects
    reconcilers <- MCReconcilers
    statusReconcilers <- MCStatusReconcilers
    cleanupFns = {"A"}
    Filtered = {"A", "B", "O"}
    OutputOf <- MCOutputOf
    Fetches <- MCFetches
    Accepts <- MCAccepts
    Touched <- MCTouched
    Interrupted <- MCUninterrupted
    None = None
    Missing = Missing
    MaxChanges = 1
    MaxTroubles = 1
    MaxQueue = 1
    MaxBusy = 1
PROPERTY OnlyOrphansCollected
