CONSTANTS
    a = a
    b = b
    x = x
    y = y
    MaxId = 2
    FolderIds = {1, 2}
    FileIds = {1}
    FolderNames = {x, y}
    NewFolder = x
    Bodies = {a, b}
    MaxGeneration = 2
    MaxSaves = 2
    Found <- MCFound
    Edits <- MCEdits
SPECIFICATION Spec
INVARIANTS
    Consistent
PROPERTIES
    OverwritesOnlySeen
    DraftKept
    NoLateOverwrite
CHECK_DEADLOCK FALSE
