\* One peer that announces two blocks.
SPECIFICATION Spec
CONSTANTS
    Peer = {p1}
    BatchSize = 2
    InitialBest = 1
    MaxBest = 3
    MaxConnects = 1
    MaxQueue = 2
INVARIANT HeadersAreTheChain
CHECK_DEADLOCK FALSE
