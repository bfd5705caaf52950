\* Two addresses that compete for one slot, one of them registered twice.
SPECIFICATION Spec
CONSTANTS
    a1 = a1
    a2 = a2
    a3 = a3
    Address = {a1, a2}
    ManagedPeer <- FirstTwice
    MaxPeers = 1
    MaxFailureCount = 2
    AddrMsg <- AllAddresses
INVARIANTS
    TypeOK
    MaxPeersRespected
    RegisteredIsServed
    NoRunawayLoop
    GoroutinesCounted
    ConnectionOwned
    ListenersNotMisled
    SweepReachesAll
    GracefulStopIsFinal
    HealthChecksSpareTheLiving
PROPERTIES
    RemovedIsNotDialed
\* The program ends in a panic, or with every goroutine gone and no caller left.
CHECK_DEADLOCK FALSE
