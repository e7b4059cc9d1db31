SPECIFICATION Spec
CONSTANTS
    s1 = s1
    s2 = s2
    Slots = {s1, s2}
    Items = {1, 2, 3, 4}
    Errands <- Cursory
INVARIANT
    FolderWarningStands
CHECK_DEADLOCK FALSE
