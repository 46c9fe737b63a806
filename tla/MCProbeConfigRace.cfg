CONSTANTS
    a = a
    b = b
    s1 = s1
    t1 = t1
    t2 = t2
    Surface = {t1, t2}
    Wasm = {}
    Sessions = {s1}
    Categories = {a}
    Policies <- MCRacePolicies
    GenMax = 15
    EpochMax = 4
    MaxStarts = 2
    MaxCalls = 2
    MaxTime = 0
SPECIFICATION Spec
SYMMETRY Symmetric
INVARIANT Consistent
PROPERTY GenerationNeverReused
CHECK_DEADLOCK FALSE
