SPECIFICATION Spec
CONSTANTS
    Primaries = {"app"}
    Deps = {"flag"}
    Outputs = {"app-cm"}
    Specs = {"v1"}
    Vals = {"on"}
    Fetches <- FlagFetched
    Desired <- ShowFlag
    Absent = Absent
    None = None
    MaxQueue = 1
    MaxChanges = 1
    MaxFailures = 0
    MaxRestarts = 0
INVARIANT
    ResyncRepairs
