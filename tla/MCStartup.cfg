SPECIFICATION FairSpec
CONSTANTS
    GVKs <- MCGVKs
    Programs <- MCPrograms
    Fetched <- MCFetched
    MaxBusy = 1
    MaxFailures = 1
INVARIANTS
    TypeOK
    WatchedOnce
    IDsApart
    NothingLeftToResync
PROPERTIES
    OnlyOrphansCollected
    EventuallyWatched
CHECK_DEADLOCK FALSE
