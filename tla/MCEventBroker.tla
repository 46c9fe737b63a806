--------------------------- MODULE MCEventBroker ---------------------------
(* Small instances of EventBroker for TLC. *)
EXTENDS EventBroker

CONSTANTS a, b, c

Record(stream, sequence, gap, payload) ==
    [stream |-> stream, sequence |-> sequence, gap |-> gap, payload |-> payload]

Data == {Record(s, q, FALSE, 0) : s \in Streams, q \in Sequences_}

\* Gap records, of one stream and number: a drop count and a payload that is none.
GapRecords == {Record(s, 1, TRUE, p) : s \in {a}, p \in Payloads}

MCInputs == Data \cup GapRecords

StreamSymmetry == Permutations(Streams \ {a})
=============================================================================
