SPECIFICATION Spec
CONSTANTS
    Primaries = {a, b}
    Absent = Absent
    Failed = Failed
    None = None
    MaxRetries = 2
    MaxChanges = 1
    MaxFailures = 0
SYMMETRY Symmetry
PROPERTY
    DeletedOnlyByLast
