------------------------- MODULE MCAnalystWorkspace -------------------------
(* Small instance of AnalystWorkspace for TLC. *)
EXTENDS AnalystWorkspace

CONSTANTS a, b, x, y

\* A library with one file in the root folder.
MCFound == {[generation |-> 0, folders |-> (1 :> Root),
             files |-> (1 :> [created |-> 0, folder |-> 1, body |-> a])]}

\* The file is edited in place or moved.
MCEdits == (1 :> {[folder |-> 1, body |-> a], [folder |-> 2, body |-> b]})
=============================================================================
