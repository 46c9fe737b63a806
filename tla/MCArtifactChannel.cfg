CONSTANTS
    MaxCount = 2
    MaxBytes = 3
    Sizes = {1, 3}
    Attempts = 2
    Modules = {2}
    MaxTransfers = 2
    MaxConnections = 2
    MaxFaults = 1
SPECIFICATION FairSpec
INVARIANTS
    Consistent
PROPERTIES
    ImplementsLedger
    AcceptedReported
    StopFinishes
CHECK_DEADLOCK FALSE
