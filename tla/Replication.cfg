CONSTANTS
    r1 = r1
    r2 = r2
    t1 = t1
    t3 = t3
    Replicas = {r1, r2}
    Initial = {r1}
    Leader = r1
    Requests <- Writers
    Pid = 1
    MaxStreamingSize = 1
    MaxLog = 3
    MaxCrashes = 1
    MaxEvents = 2
    WithinMargins = TRUE
    Retention = FALSE
SPECIFICATION Spec
CHECK_DEADLOCK FALSE
INVARIANTS
    
    IndexTruthful
    ReplayAgrees
