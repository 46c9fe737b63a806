SPECIFICATION Spec
CONSTANTS
    NoDoc = NoDoc
    Docs = {d1, d2}
    Closing = {d1}
    MaxSessions = 2
    MaxCommands = 1
    MaxFailures = 1
    MaxQueue = 2
INVARIANTS
    Consistent
PROPERTIES
    ShownOwned
    ActsWhereShown
    LearnsEnd
CHECK_DEADLOCK FALSE
