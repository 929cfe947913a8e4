CONSTANTS
    Byte = 2
    KeyBytes = 1
    MaxTs = 12
    PartitionCount = 2
    Hash <- MCHash
    Txns = {"t1", "t2", "s1", "s2"}
    Reads = {"g1", "q1", "q2", "n1"}
    Request <- MCRequest
    Snapshots = {3, 4}
    Together <- MCTogether
    Clock0 <- MCClock0
    MaxIteratorResults = 2
SPECIFICATION Spec
CHECK_DEADLOCK FALSE
INVARIANTS
    GlobalSnapshot
    AtomicVisibility
    NeverRefused
    VersionsImmutable
    
