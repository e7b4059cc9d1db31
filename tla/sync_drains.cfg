CONSTANTS
    RevId = {r1, r2, r3}
    Item = {i1}
    MaxRevision = 3
    ChangeRetention = 3
    TrashRetention = 3
    PageSize = 2
    MaxTime = 0
    r1 = r1
    r2 = r2
    r3 = r3
    d1 = d1
    d2 = d2
    w1 = w1
    w2 = w2
    w3 = w3
    Device = {d1, d2}
    Worker = {w1, w2}
    Scenarios <- Edits
    MaxBatch = 100
    MaxFailures = 1
SPECIFICATION FairSyncSpec
INVARIANTS
    SyncTypeOK
PROPERTIES
    QueueDrains
CHECK_DEADLOCK FALSE
