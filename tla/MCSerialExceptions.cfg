\* Each of these is violated, and TLC stops at the first: take that one out to see the next.
SPECIFICATION Spec
CONSTANTS
    Thread = {t1}
    MaxRequests = 3
    MaxStarts = 1
    Chunks = 2
    Watchdog = watchdog
    Default = default
    Nobody = nobody
    NoSession = NoSession
    MaxCuts = 1
    Limit = 2
    MaxCommands = 3
    MaxSends = 2
INVARIANTS
    EveryReplyIsOwn
    NoCommandIsMixed
    ReadyMeansTold
    ReadyMeansFound
CHECK_DEADLOCK FALSE
