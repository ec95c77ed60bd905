SPECIFICATION FairSpec
CONSTANTS
    Thread = {t1}
    MaxRequests = 3
    MaxStarts = 2
    Chunks = 2
    Watchdog = watchdog
    Default = default
    Nobody = nobody
    NoSession = NoSession
    MaxCuts = 1
    Limit = 1
    MaxCommands = 3
    MaxSends = 2
INVARIANTS
    TypeOK
    RepliesAreOwn
    ReadyIsTold
PROPERTIES
    ServerReturns
CHECK_DEADLOCK FALSE
