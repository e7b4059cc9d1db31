CONSTANTS
    RevId = {r1, r2, r3, r4}
    Item = {i1}
    MaxRevision = 4
    ChangeRetention = 0
    TrashRetention = 1
    PageSize = 2
    MaxTime = 1
SPECIFICATION ServerSpec
SYMMETRY Interchangeable
INVARIANTS
    TypeOK
    HeadsAreLeavesInv
    ContentOutlivesTombstoneInv
    HeadContentKeptInv
    PurgedChangesDroppedInv
    IncrementalCompleteInv
    ProjectionFollowsInv
    TombstoneCoversEarlierInv
    TombstoneNotRevivedInv
    ExpiryNeverConflicts
PROPERTIES
    KeepsRevisionGraph
CHECK_DEADLOCK FALSE
