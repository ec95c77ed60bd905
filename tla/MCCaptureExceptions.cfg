\* Each of these is violated, and TLC stops at the first: take that one out to see the next.
SPECIFICATION FairSpec
CONSTANTS
    Trace = {1}
    NoTrace = 0
    QueueCapacity = 2
    MaxRejections = 1
    Piece = {"log"}
    MaxSegments = 1
    PumpCapacity = 1
    MaxRestarts = 0
INVARIANTS
    CompleteFollowsItsLogs
PROPERTIES
    EveryExitDrains
CHECK_DEADLOCK FALSE
