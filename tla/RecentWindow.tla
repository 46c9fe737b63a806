---------------------------- MODULE RecentWindow ----------------------------
(***************************************************************************)
(* What a snapshot of the event broker shows: the newest arrivals, at most *)
(* Size of them, oldest first.                                             *)
(***************************************************************************)
EXTENDS Integers, Sequences

CONSTANTS Events, Size

VARIABLE window

Init == window = <<>>

Arrive(event) ==
    window' = IF Len(window) < Size THEN Append(window, event)
                                    ELSE Append(Tail(window), event)

Next == \E event \in Events : Arrive(event)

Spec == Init /\ [][Next]_window
=============================================================================
