SPECIFICATION FairSpec
CONSTANTS
    Primaries = {a, b}
    Absent = Absent
    Failed = Failed
    None = None
    MaxRetries = 2
    MaxChanges = 1
    MaxFailures = 2
INVARIANTS
    TypeOK
    OutputRemembered
    ResyncRepairs
PROPERTIES
    DeletedByLastUnlessMixed
    EventuallyInPlace
