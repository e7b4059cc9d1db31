CONSTANTS
    c1 = c1
    c2 = c2
    c3 = c3
    here = here
    there = there
    ann = ann
    bob = bob
    Client = {c1, c2, c3}
    SourceOf <- TwoSources
    Workloads <- Errands
    FirstDelayed = 3
    Delays <- ShortDelays
    FailureReset = 2
    LoginLife = 1
    InviteLife = 1
    Retention = 1
    PageSize = 2
    UUIDs <- DrawnUUIDs
    MaxTime = 2
    MaxCrashes = 1
SPECIFICATION Spec
INVARIANTS
    RegistrationInv
    RevokedIsRejected
    AuditIsTrue
    BurstIsBounded
    PagingIsComplete
