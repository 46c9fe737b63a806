CONSTANTS
    a = a
    b = b
    s1 = s1
    t1 = t1
    t2 = t2
    Surface = {t1}
    Wasm = {t2}
    Sessions = {s1}
    Categories = {a, b}
    Policies <- MCPolicies
    GenMax = 15
    EpochMax = 4
    MaxStarts = 2
    MaxCalls = 1
    MaxTime = 1
SPECIFICATION FairSpec
INVARIANTS
    NoMixedPolicy
    OwnConfiguration
    CapturedInOwnConfiguration
PROPERTIES
    StopDisarms
CHECK_DEADLOCK FALSE
