\* Two peers of a chain of a full batch and a short one, which grows.
SPECIFICATION FairSpec
CONSTANTS
    Peer = {p1, p2}
    BatchSize = 2
    InitialBest = 3
    MaxBest = 4
    MaxConnects = 2
    MaxQueue = 2
INVARIANTS
    TypeOK
    NoGaps
    SyncedMeansCaughtUp
PROPERTY CatchesUp
CHECK_DEADLOCK FALSE
