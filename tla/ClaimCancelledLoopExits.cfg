\* One peer.
SPECIFICATION FairSpec
CONSTANTS
    a1 = a1
    a2 = a2
    a3 = a3
    Address = {a1}
    ManagedPeer <- OneEach
    MaxPeers = 1
    MaxFailureCount = 1
    AddrMsg <- AllAddresses
PROPERTY CancelledLoopExits
CHECK_DEADLOCK FALSE
