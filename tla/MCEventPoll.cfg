CONSTANTS
    a = a
    b = b
    a1 = a1
    a2 = a2
    b1 = b1
    NoRequest = NoRequest
    Events = {a1, a2, b1}
    Requests = {a, b}
    RequestOf <- MCRequestOf
    Rank <- MCRank
    MaxVersion = 3
    Early = {b1}
    MaxActions = 1
    MaxFailures = 1
    MaxChoices = 2
SPECIFICATION Spec
INVARIANTS
    Consistent
    NotModifiedIsCurrent
PROPERTIES
    AdmittedAfterActions
    AnswerOwned
    CatchesUp
    ProfileCatchesUp
CHECK_DEADLOCK FALSE
