SPECIFICATION FairSpec
CONSTANTS
    Session = {s1}
    MaxAttempts = 2
    MaxResult = 1
    ChunkSize = 1
    NoSession = noSession
INVARIANTS
    TypeOK
    OneServingPerSession
    ServingKeepsItsChannels
PROPERTIES
    EveryRequestRemoved
CHECK_DEADLOCK FALSE
