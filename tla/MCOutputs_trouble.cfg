SPECIFICATION FairSpec
CONSTANTS
    Primaries = {"app"}
    Deps = {}
    Outputs = {"app-cm"}
    Specs = {"on", "off"}
    Vals = {}
    Fetches <- NoneFetched
    Desired <- BySwitch
    Absent = Absent
    None = None
    MaxQueue = 1
    MaxChanges = 1
    MaxFailures = 1
    MaxRestarts = 1
INVARIANTS
    TypeOK
    NoOutputForgotten
    ResyncRepairs
PROPERTY
    EventuallyRestored
