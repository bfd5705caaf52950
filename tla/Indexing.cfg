\* Two goroutines that call Run, Start and Stop, with and without peers.
SPECIFICATION FairSpec
CONSTANTS
    Caller = {c1, c2}
    a1 = a1
    a2 = a2
    Address = {a1, a2}
    MaxPeers = 1
    ExplicitPeers <- ExplicitLists
    SeedPeers <- SeedLists
    MaxCalls = 2
INVARIANTS
    TypeOK
    ResolvesEachOnce
    AgreesWithClient
    StopsAreSerial
    NilMeansDisconnected
PROPERTIES
    CallsReturn
\* Every caller has made its calls, or the program ended in a panic.
CHECK_DEADLOCK FALSE
