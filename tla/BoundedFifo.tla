---------------------------- MODULE BoundedFifo ----------------------------
(***************************************************************************)
(* What the probe queue promises the browser process: a bounded FIFO.  A   *)
(* record that is accepted is handed over once, whole, and in the order of *)
(* acceptance; at most Capacity records wait.                              *)
(***************************************************************************)
EXTENDS Naturals, Sequences

CONSTANTS Items, Capacity

VARIABLES waiting, delivered

Init == waiting = <<>> /\ delivered = <<>>

Accept ==
    /\ Len(waiting) < Capacity
    /\ \E item \in Items : waiting' = Append(waiting, item)
    /\ UNCHANGED delivered

Deliver ==
    /\ waiting # <<>>
    /\ delivered' = Append(delivered, Head(waiting))
    /\ waiting' = Tail(waiting)

Next == Accept \/ Deliver

Spec == Init /\ [][Next]_<<waiting, delivered>>
=============================================================================
