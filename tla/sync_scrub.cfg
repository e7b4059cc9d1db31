CONSTANTS
    RevId = {r1, r2, r3, r4, r5}
    Item = {i1}
    MaxRevision = 5
    ChangeRetention = 3
    TrashRetention = 1
    PageSize = 2
    MaxTime = 0
    r1 = r1
    r2 = r2
    r3 = r3
    d1 = d1
    d2 = d2
    w1 = w1
    w2 = w2
    w3 = w3
    Device = {d1, d2}
    Worker = {w1, w2}
    Scenarios <- Scrubs
    MaxBatch = 100
    MaxFailures = 0
SPECIFICATION SyncSpec
INVARIANTS
    SyncedCacheIsScrubbed
CHECK_DEADLOCK FALSE
