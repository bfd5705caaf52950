\* Three addresses that discover each other and compete for two slots.
SPECIFICATION Spec
CONSTANTS
    a1 = a1
    a2 = a2
    a3 = a3
    Address = {a1, a2, a3}
    ManagedPeer <- OneEach
    MaxPeers = 2
    MaxFailureCount = 1
    AddrMsg <- AllAddresses
SYMMETRY AddressSymmetry
INVARIANTS
    MaxPeersRespected
    RegisteredIsServed
    GoroutinesCounted
PROPERTY ImplementsBtcClient
CHECK_DEADLOCK FALSE
