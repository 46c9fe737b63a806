---------------------------- MODULE MCArtifactStore ----------------------------
\* Artifacts 1 and 2 have the same content, and the manifest holds record 2 only as its first.
\* A blob that is left behind fills the store for artifact 3.
EXTENDS ArtifactStore

MCDigest == [i \in Ids |-> IF i = 2 THEN 1 ELSE i]
MCSize == [d \in {1, 3, 4} |-> IF d = 3 THEN 2 ELSE 1]
MCRecordBytes == [i \in Ids |-> IF i = 2 THEN 4 ELSE 2]
=============================================================================
