\* One address that is removed and added again.
SPECIFICATION Spec
CONSTANTS
    a1 = a1
    a2 = a2
    a3 = a3
    Address = {a1}
    ManagedPeer <- FirstTwice
    MaxPeers = 1
    MaxFailureCount = 1
    AddrMsg <- AllAddresses
PROPERTY EvictsOnlyItself
CHECK_DEADLOCK FALSE
