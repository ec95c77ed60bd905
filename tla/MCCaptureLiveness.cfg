SPECIFICATION FairSpec
CONSTANTS
    Trace = {1}
    NoTrace = 0
    QueueCapacity = 2
    MaxRejections = 1
    Piece = {"none", "log", "noise", "alien"}
    MaxSegments = 2
    PumpCapacity = 1
    MaxRestarts = 0
INVARIANTS
    SuccessMeansDelivered
PROPERTIES
    SuccessIsJudged
CHECK_DEADLOCK FALSE
