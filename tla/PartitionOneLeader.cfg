SPECIFICATION Spec
CONSTANTS
    Single = {"s1", "s2"}
    Distributed = {"d1"}
    Body <- MCBody
    Principal <- MCPrincipal
    Queries <- MCQueries
    Pid = 1
    MaxBatchSize = 2
    MaxClock = 4
    MaxLog = 1
    MaxLeaders = 0
    Stray = FALSE
    BatchConflicts = FALSE
    Retention = FALSE

    
PROPERTIES
    SnapshotStable
CHECK_DEADLOCK FALSE
