CONSTANTS
    A = A
    n1 = n1
    n2 = n2
    e1 = e1
    e2 = e2
    Broken = Broken
    MaxId = 2
    FolderIds = {1}
    FileIds = {1, 2}
    FolderNames = {}
    NewFolder = NewFolder
    Names = {A}
    Notes = {n1, n2}
    Versions = {e1, e2}
    MaxPins = 2
    MaxSends = 2
    MaxGeneration = 2
    Bodies <- MCBodies
    Found <- MCFound
    Edits <- MCEdits
SPECIFICATION NotesSpec
PROPERTIES
    NotesOverwritesOnlySeen
    NamesAdvance
    PinsVerified
    NotesDraftKept
CHECK_DEADLOCK FALSE
