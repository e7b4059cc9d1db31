CONSTANTS
    RevId = {r1, r2, r3, r4}
    Item = {i1}
    MaxRevision = 4
    ChangeRetention = 0
    TrashRetention = 1
    PageSize = 2
    MaxTime = 1
    r1 = r1
    r2 = r2
    r3 = r3
    d1 = d1
    d2 = d2
    w1 = w1
    w2 = w2
    w3 = w3
    Device = {d1, d2}
    Worker = {w1, w2, w3}
    Scenarios <- Safety
    MaxBatch = 2
    MaxFailures = 0
SPECIFICATION SyncSpec
INVARIANTS
    SyncedCacheIsReplica
    SerialCacheHoldsEveryHead
    NothingSavedIsLost
    CachedIsPendingOrAccepted
    PendingStaysCached
    QueueInOrder
    NoSilentRevival
CHECK_DEADLOCK FALSE
