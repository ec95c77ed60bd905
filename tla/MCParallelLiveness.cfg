SPECIFICATION FairSpec
CONSTANTS
    Session = {s1}
    MaxRequests = 2
    MaxKills = 1
    PruneEvery = 2
    Chunks = 1
    PipeCapacity = 1
    KeepAlive = {TRUE, FALSE}
    NoSession = NoSession
CHECK_DEADLOCK FALSE
PROPERTIES
    EveryCommandRuns
