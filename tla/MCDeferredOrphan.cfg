SPECIFICATION Spec
CONSTANTS
    Session = {s1}
    MaxAttempts = 3
    MaxResult = 1
    ChunkSize = 1
    NoSession = noSession
CHECK_DEADLOCK FALSE
INVARIANTS
    SessionsAreExclusive
