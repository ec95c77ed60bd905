SPECIFICATION Spec
CONSTANTS
    Session = {s1, s2}
    MaxId = 3
    MaxFaults = 1
    NChunks = 1
    BatchSize = 1
INVARIANT StoredAreSearchable
CHECK_DEADLOCK FALSE
