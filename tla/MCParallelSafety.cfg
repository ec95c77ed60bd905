SPECIFICATION Spec
CONSTANTS
    Session = {s1, s2}
    MaxRequests = 3
    MaxKills = 0
    PruneEvery = 2
    Chunks = 1
    PipeCapacity = 1
    KeepAlive = {FALSE}
    NoSession = NoSession
SYMMETRY Symmetry
CHECK_DEADLOCK FALSE
INVARIANTS
    TypeOK
    SuccessorWaits
    DrainTakesOnlyStaleResults
    ResultsNeverInterleave
PROPERTIES
    ServesSessionsInOrder
