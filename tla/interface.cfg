SPECIFICATION Spec
CONSTANTS
    s1 = s1
    s2 = s2
    Slots = {s1, s2}
    Items = {1, 2, 3, 4}
    Errands <- Everything
INVARIANTS
    SelectionsStand
    PurgeIsConfirmed
    RemovalMovesItemsFirst
    OneRootPerItem
    BreachResultIsCurrent
CHECK_DEADLOCK FALSE
