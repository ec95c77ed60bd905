SPECIFICATION FairSpec
CONSTANTS
    Thread = {t1}
    MaxRequests = 1
    MaxStarts = 1
    Chunks = 2
    Watchdog = watchdog
    Default = default
    Nobody = nobody
    NoSession = NoSession
    MaxCuts = 1
    Limit = 1
    MaxCommands = 1
    MaxSends = 0
PROPERTIES
    ServerAlwaysReturns
CHECK_DEADLOCK FALSE
