CONSTANTS
    Client = {c1}
    Interface = {c1}
    AutoLocks = {2}
SPECIFICATION FairSpec
PROPERTIES
    IdleSessionLocks
CHECK_DEADLOCK FALSE
