SPECIFICATION Spec
CONSTANTS
    Trace = {1, 2}
    NoTrace = 0
    QueueCapacity = 2
    MaxRejections = 0
    Piece = {"log", "alien"}
    MaxSegments = 3
    PumpCapacity = 1
    MaxRestarts = 1
INVARIANTS
    TypeOK
    StreamStaysInOrder
PROPERTIES
    ContractKept
CHECK_DEADLOCK FALSE
