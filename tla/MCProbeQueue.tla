---------------------------- MODULE MCProbeQueue ----------------------------
(* A small instance of ProbeQueue for TLC.  One producer's records weigh   *)
(* less than the drop counter holds, the other's fill it, so that the      *)
(* counter is met below, at and above its top.                             *)
EXTENDS ProbeQueue

CONSTANTS p1, p2

MCWeight == [r \in {p1, p2} \X (1 .. 2) |-> IF r[1] = p1 THEN 3 ELSE 5]
=============================================================================
