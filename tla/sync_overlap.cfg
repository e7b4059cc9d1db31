CONSTANTS
    RevId = {r1, r2, r3}
    Item = {i1}
    MaxRevision = 3
    ChangeRetention = 0
    TrashRetention = 3
    PageSize = 2
    MaxTime = 1
    r1 = r1
    r2 = r2
    r3 = r3
    d1 = d1
    d2 = d2
    w1 = w1
    w2 = w2
    w3 = w3
    Device = {d1, d2}
    Worker = {w1, w2, w3}
    Scenarios <- Overlaps
    MaxBatch = 100
    MaxFailures = 0
SPECIFICATION SyncSpec
INVARIANTS
    CacheHoldsEveryHead
CHECK_DEADLOCK FALSE
