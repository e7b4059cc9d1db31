CONSTANTS
    Client = {c1, c2}
    Interface = {}
    AutoLocks = {0, 2}
SPECIFICATION FairSpec
INVARIANTS
    TypeOK
    ExitsClean
    TimerStaysStopped
PROPERTIES
    NoSocketNoSecrets
    NothingAfterLogout
    OwnerGoneLocks
    EveryoneIsAnswered
    IdleSessionLocks
CHECK_DEADLOCK FALSE
