SPECIFICATION FairSpec
CONSTANTS
    MaxOffset = 1
    LogicalMax = 1
    MaxWall = 5
    MaxJump = 3
    MaxRestarts = 1
INVARIANTS
    DriftBounded
    NoSpuriousShutdown
PROPERTIES
    NowIsNeverAhead
    CallsEnd
    ImplementsMonotonicClock
CHECK_DEADLOCK FALSE
