\* One goroutine.
SPECIFICATION Spec
CONSTANTS
    Caller = {c1}
    a1 = a1
    a2 = a2
    Address = {a1, a2}
    MaxPeers = 1
    ExplicitPeers <- NoList
    SeedPeers <- AllSeeds
    MaxCalls = 2
INVARIANT NotRunningIsStopped
\* Every caller has made its calls, or the program ended in a panic.
CHECK_DEADLOCK FALSE
