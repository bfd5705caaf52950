CONSTANTS
    Thread = {t1, t2}
    Family <- Families
    Key <- Keys
    v1 = v1
    Value = {v1}
    Absent = Absent
    Updates <- SomeUpdates
    Batches <- SomeBatches
    MaxUnsynced = 2
    MaxCrashes = 1

SPECIFICATION FairSpec

INVARIANTS TypeOK EngineUsedOpen ReturnedWritesAreDurable
PROPERTIES ImplementsStore CloseReturns
