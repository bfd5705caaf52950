CONSTANTS
    Thread = {t1, t2}
    f1 = f1
    f2 = f2
    k1 = k1
    k2 = k2
    v1 = v1
    Family = {f1, f2}
    Key = {k1, k2}
    Value = {v1}
    Absent = Absent
    Updates <- SomeUpdates
    Batches <- SomeBatches

SPECIFICATION Spec

INVARIANT StagingIsSafe
