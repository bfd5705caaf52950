\* One goroutine that calls Run twice.
SPECIFICATION Spec
CONSTANTS
    Caller = {c1}
    a1 = a1
    a2 = a2
    Address = {a1, a2}
    MaxPeers = 2
    ExplicitPeers <- NoList
    SeedPeers <- AllSeeds
    MaxCalls = 2
PROPERTY CleanupIsSafe
CHECK_DEADLOCK FALSE
