\* A peer and one that it tells of.
SPECIFICATION Spec
CONSTANTS
    a1 = a1
    a2 = a2
    a3 = a3
    Address = {a1, a2}
    ManagedPeer <- OneEach
    MaxPeers = 2
    MaxFailureCount = 1
    AddrMsg <- AllAddresses
INVARIANT StopWaitsForAll
CHECK_DEADLOCK FALSE
