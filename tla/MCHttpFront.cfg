SPECIFICATION FairSpec
CONSTANTS
    Operation = {p, q}
    Represented = {q}
    Path = {p, q}
    AttemptLimit = 1
    MaxQueries = 2
    NBackends = 2
    NoAnswer = NoAnswer
    Unknown = Unknown
    NoFile = NoFile
    Down = Down
    MaxFaults = 1
INVARIANTS
    TypeOK
    EnvoyHasRoutes
    ReadyMeansDiscovered
    PublishedRoutesAreCurrent
CHECK_DEADLOCK FALSE
PROPERTIES
    RoutesFollowTheApi
