SPECIFICATION FairSpec
CONSTANTS
    Path = {a, b}
    MaxVersion = 2
    MaxUploads = 1
    NWorkers = 2
    Long = {b}
INVARIANTS
    TypeOK
    SealCoversTheTree
    StreamIsTheJournal
    EveryTaskHasAnOutcome
    ReportsHaveNoGap
CHECK_DEADLOCK FALSE
PROPERTIES
    BulkEnds
