SPECIFICATION FairSpec
CONSTANTS
    d1 = d1
    d2 = d2
    d3 = d3
    d4 = d4
    ControlId = 1
    Tokens <- Four
    Seated = 3
    ReplicationFactor = 3
    MaxJoining = 2
    MaxJoiningForServer = 1
    MaxJoiningForPartition = 1
    MaxVersion = 4
    MaxFaults = 1

    
PROPERTIES
    MembersFollow
CHECK_DEADLOCK FALSE
