\* Two peers with a slot each, and what the Go scheduler makes happen.
SPECIFICATION FairSpec
CONSTANTS
    a1 = a1
    a2 = a2
    a3 = a3
    Address = {a1, a2}
    ManagedPeer <- OneEach
    MaxPeers = 2
    MaxFailureCount = 1
    AddrMsg <- AllAddresses
PROPERTIES
    ImplementsBtcClient
    GivenUpLeaves
    KeepsReconnecting
    StoppedLoopsExit
    StopReturns
CHECK_DEADLOCK FALSE
