CONSTANTS
    d1 = d1
    d2 = d2
    d3 = d3
    ControlIds = {1, 2}
    Servers = {d1, d2, d3}
    Registered0 <- First2
    Seated = 0
    Partitions = {0, 1}
    ReplicationFactor = 2
    MaxJoining = 2
    MaxJoiningForServer = 1
    MaxJoiningForPartition = 1
    MaxVersion = 12
    MaxLag = 1
    MaxFaults = 0
SPECIFICATION FairSpec
CHECK_DEADLOCK FALSE
INVARIANTS
    OneIdentity
    
PROPERTIES
    EventuallyBalanced
