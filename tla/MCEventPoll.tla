----------------------------- MODULE MCEventPoll -----------------------------
(* Small instance of EventPoll for TLC. *)
EXTENDS EventPoll, TLC

CONSTANTS a, b, a1, a2, b1

\* Request a is initiated and then started; request b is initiated.
MCRequestOf == (a1 :> a) @@ (a2 :> a) @@ (b1 :> b)
MCRank == (a1 :> 1) @@ (a2 :> 2) @@ (b1 :> 1)
=============================================================================
