SPECIFICATION Spec
CONSTANTS
    Ids = {1, 2, 3, 4}
    Digest <- MCDigest
    Size <- MCSize
    RecordBytes <- MCRecordBytes
    Sensitive = {4}
    MaxArtifact = 2
    MaxStore = 3
    MaxArtifacts = 2
    MaxManifest = 5
    MaxFrames = 3
    MaxFailures = 2
    MaxCrashes = 2
INVARIANTS
    Consistent
    EvidenceKept
    ReopensUnlessLinked
CHECK_DEADLOCK FALSE
