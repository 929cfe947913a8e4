SPECIFICATION FairSpec
CONSTANTS
    Body <- MCBody
    Principal <- MCPrincipal
    Txns = {"t1", "t2"}
    Pids = {1, 2, 3}
    Lossy = {}
    Late = {}
    Crashes = FALSE
    MaxAttempts = 2
    Clocks <- MCSkewed
    MaxLeaders = 0
INVARIANTS
    WritesOrdered
    CommittedLast
    AbortedLast
PROPERTIES
    AllReturn
CHECK_DEADLOCK FALSE
