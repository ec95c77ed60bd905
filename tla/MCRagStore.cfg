SPECIFICATION Spec
CONSTANTS
    Session = {s1, s2}
    MaxId = 3
    MaxFaults = 1
    NChunks = 1
    BatchSize = 1
SYMMETRY SessionSymmetry
INVARIANTS
    TypeOK
    SyncReconciles
    VectorsReconciled
    AddedIsStored
    RecordsAgree
CHECK_DEADLOCK FALSE
