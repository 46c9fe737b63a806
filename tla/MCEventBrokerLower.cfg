CONSTANTS
    a = a
    b = b
    c = c
    Streams = {a, b, c}
    Capacity = 2
    CountMax = 7
    Sequences_ = {1, 3, 4, 5, 7}
    Payloads = {0}
    Inputs <- Data
    MaxIngest = 6
SPECIFICATION Spec
SYMMETRY StreamSymmetry
INVARIANTS
    GapsLowerBound
CHECK_DEADLOCK FALSE
