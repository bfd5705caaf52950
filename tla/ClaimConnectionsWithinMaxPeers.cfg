\* Two peers and one slot.
SPECIFICATION Spec
CONSTANTS
    a1 = a1
    a2 = a2
    a3 = a3
    Address = {a1, a2}
    ManagedPeer <- OneEach
    MaxPeers = 1
    MaxFailureCount = 1
    AddrMsg <- AllAddresses
INVARIANT ConnectionsWithinMaxPeers
CHECK_DEADLOCK FALSE
