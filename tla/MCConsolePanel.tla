--------------------------- MODULE MCConsolePanel ---------------------------
(***************************************************************************)
(* Two documents, so that the selection can change while a request waits,  *)
(* and two sessions, so that another window can replace the panel's own.   *)
(***************************************************************************)
EXTENDS ConsolePanel
=============================================================================
