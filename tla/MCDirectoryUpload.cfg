SPECIFICATION Spec
CONSTANTS
    Path = {a, b}
    KindChoices <- MCKinds
    Growing = {1}
    Worker = {w1, w2}
    MaxInode = 2
    MaxLength = 2
    QueueSize = 1
    MaxFiles = 2
    Nobody = nobody
INVARIANTS
    TypeOK
    CompletedIsStored
    QuietMeansSettled
    ResponseAccounts
    NoRequestIsLost
SYMMETRY
    Symmetry
CHECK_DEADLOCK FALSE
