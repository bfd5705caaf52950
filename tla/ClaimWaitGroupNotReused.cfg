\* Two peers, one added while Stop waits.
SPECIFICATION Spec
CONSTANTS
    a1 = a1
    a2 = a2
    a3 = a3
    Address = {a1, a2}
    ManagedPeer <- OneEach
    MaxPeers = 2
    MaxFailureCount = 1
    AddrMsg <- AllAddresses
INVARIANT WaitGroupNotReused
CHECK_DEADLOCK FALSE
