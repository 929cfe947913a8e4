SPECIFICATION Spec
CONSTANTS
    Body <- MCBody
    Principal <- MCPrincipal
    Txns = {"t1"}
    Pids = {1, 2, 3}
    Lossy = {"Prepare", "Commit", "Abort"}
    Late = {"Prepare", "Commit", "Abort"}
    Crashes = TRUE
    MaxAttempts = 1
    Clocks <- MCSkewed
    MaxLeaders = 2
INVARIANTS
    TruthTold
PROPERTIES
    AtomicCommitment
CHECK_DEADLOCK FALSE
