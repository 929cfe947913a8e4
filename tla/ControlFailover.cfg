CONSTANTS
    d1 = d1
    d2 = d2
    d3 = d3
    ControlIds = {1, 2}
    Servers = {d1, d2, d3}
    Registered0 <- All3
    Seated = 2
    Partitions = {0, 1}
    ReplicationFactor = 2
    MaxJoining = 2
    MaxJoiningForServer = 1
    MaxJoiningForPartition = 1
    MaxVersion = 5
    MaxLag = 1
    MaxFaults = 1
SPECIFICATION Spec
CHECK_DEADLOCK FALSE
INVARIANTS
    OneReplicaPerServer
    VotersRestored
    
PROPERTIES
    ServingKept
