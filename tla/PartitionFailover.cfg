SPECIFICATION Spec
CONSTANTS
    Single = {"s1"}
    Distributed = {"d1", "d2"}
    Body <- MCBody
    Principal <- MCPrincipal
    Queries = {}
    Pid = 1
    MaxBatchSize = 1
    MaxClock = 3
    MaxLog = 1
    MaxLeaders = 1
    Stray = TRUE
    BatchConflicts = FALSE
    Retention = TRUE
INVARIANTS
    LockExclusion
    LocksReleasable
    SnapshotComplete
PROPERTIES
    DecisionBinding
CHECK_DEADLOCK FALSE
