---------------------------- MODULE MCProbeConfig ----------------------------
(* Small instances of ProbeConfig for TLC. *)
EXTENDS ProbeConfig, TLC

CONSTANTS a, b, s1, t1, t2

\* The same session ID twice, with another mask and another expiry.
MCPolicies == {[session |-> s1, mask |-> {a}, expires |-> 1, emitter |-> TRUE],
               [session |-> s1, mask |-> {a, b}, expires |-> 2, emitter |-> TRUE]}

\* One policy: the threads race for the site across two equal configurations.
MCRacePolicies == {[session |-> s1, mask |-> {a}, expires |-> 1, emitter |-> TRUE]}
\* The racing threads are alike.
Symmetric == Permutations({t1, t2})
=============================================================================
