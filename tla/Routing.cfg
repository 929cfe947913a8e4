SPECIFICATION FairSpec
CONSTANTS
    Parts = {0, 1}
    Nobody = "nobody"
    Proxy = "a1"
    Servers = {"s1", "s2"}
    Address <- MCAddress
    Scenarios <- MCScenarios
PROPERTIES
    ConnectionsSettle
    
    SessionFollows
CHECK_DEADLOCK FALSE
