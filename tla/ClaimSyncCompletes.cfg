\* One peer, and a chain of exactly one full batch.
SPECIFICATION FairSpec
CONSTANTS
    Peer = {p1}
    BatchSize = 2
    InitialBest = 2
    MaxBest = 2
    MaxConnects = 1
    MaxQueue = 2
PROPERTY SyncCompletes
CHECK_DEADLOCK FALSE
