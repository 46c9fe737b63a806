-------------------------- MODULE MCArtifactChannel --------------------------
(* A small instance of ArtifactChannel for TLC. *)
EXTENDS ArtifactChannel
=============================================================================
