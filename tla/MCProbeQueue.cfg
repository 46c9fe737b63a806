SPECIFICATION FairSpec
CONSTANTS
    p1 = p1
    p2 = p2
    Producers = {p1, p2}
    Capacity = 2
    Weight <- MCWeight
    DropMax = 5
    MaxEmits = 2
INVARIANTS
    Consistent
    NoLostWakeup
    DropsCountedOnce
    DisableDeliversHead
PROPERTIES
    ImplementsFifo
    DropOnlyWhenFull
    RecordsDelivered
CHECK_DEADLOCK FALSE
