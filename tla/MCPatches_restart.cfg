SPECIFICATION Spec
CONSTANTS
    Primaries = {"route"}
    Targets = {"gw1", "gw2"}
    Specs = {"gw1"}
    Wanted <- ByName
    Handlers = {}
    Absent = Absent
    None = None
    MaxQueue = 1
    MaxChanges = 1
    MaxFailures = 0
    MaxRestarts = 1
PROPERTY
    RevertsBeforeRelease
