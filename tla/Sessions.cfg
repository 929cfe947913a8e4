SPECIFICATION FairSpec
CONSTANTS
    DataServers <- MCDataServers
    ApiServers <- MCApiServers
    Scenarios <- MCScenarios
    LeaderIn <- MCLeaderIn
    SendBufferSize = 2
    SessionIds = {1, 2}
PROPERTIES
    ConfigArrives
    
    ClosedForCause
CHECK_DEADLOCK FALSE
