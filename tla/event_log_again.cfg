\* The same key is appended again after a purge.
CONSTANTS
    Keys = {a, b, c}
    None = None
    Retention = 2
    ArchiveAfter = 1
    MaxTime = 5
SPECIFICATION LogSpec
INVARIANTS
    AppendIdempotent
CHECK_DEADLOCK FALSE
