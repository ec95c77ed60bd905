\* Each of these is violated, and TLC stops at the first: take that one out to see the next.
SPECIFICATION Spec
CONSTANTS
    Session = {s1}
    MaxRequests = 3
    MaxKills = 1
    PruneEvery = 2
    Chunks = 2
    PipeCapacity = 1
    KeepAlive = {FALSE}
    NoSession = NoSession
INVARIANTS
    ExecutorsNeverOverlap
    ClientGetsOwnResult
CHECK_DEADLOCK FALSE
