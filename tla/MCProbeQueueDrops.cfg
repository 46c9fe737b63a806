SPECIFICATION Spec
CONSTANTS
    p1 = p1
    p2 = p2
    Producers = {p1, p2}
    Capacity = 2
    Weight <- MCWeight
    DropMax = 3
    MaxEmits = 2
INVARIANTS
    DisableReportsDrops
CHECK_DEADLOCK FALSE
