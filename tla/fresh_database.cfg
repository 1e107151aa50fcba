CONSTANTS
    Apis = {"api", "loopback"}
    LateGroups = {"lineage", "task", "integrity"}
    MaxFalls = 1
SPECIFICATION SchemaLiveSpec
PROPERTIES
    FreshIsServed
CHECK_DEADLOCK FALSE
