SPECIFICATION FairSpec
CONSTANTS
    Primaries = {"route"}
    Targets = {"gw1", "gw2"}
    Specs = {"gw1", "gw2"}
    Wanted <- ByName
    Handlers = {"primaries"}
    Absent = Absent
    None = None
    MaxQueue = 1
    MaxChanges = 1
    MaxFailures = 1
    MaxRestarts = 1
INVARIANTS
    TypeOK
    NoContributionForgotten
PROPERTIES
    RevertsRecorded
    DeletionFinishes
    EventuallyInPlace
