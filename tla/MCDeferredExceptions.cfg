\* Each of these is violated, and TLC stops at the first: take that one out to see the next.
SPECIFICATION FairSpec
CONSTANTS
    Session = {s1}
    MaxAttempts = 1
    MaxResult = 1
    ChunkSize = 1
    NoSession = noSession
INVARIANTS
    SweepFindsNobodyServing
PROPERTIES
    ReaderIsReleased
CHECK_DEADLOCK FALSE
