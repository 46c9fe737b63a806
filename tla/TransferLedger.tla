--------------------------- MODULE TransferLedger ---------------------------
(***************************************************************************)
(* What the artifact channel promises the capture sink: a transfer that is *)
(* accepted is reported once, with one status; a lost channel is announced *)
(* once, after every accepted transfer has been reported, and accepts      *)
(* nothing more until it is opened again.                                  *)
(***************************************************************************)
CONSTANTS Ids, Statuses

VARIABLES accepted, reported, lost

Init == accepted = {} /\ reported = {} /\ lost = FALSE

Reported == {r.id : r \in reported}

Accept ==
    /\ ~ lost
    /\ \E id \in Ids \ accepted : accepted' = accepted \cup {id}
    /\ UNCHANGED <<reported, lost>>

Report ==
    /\ \E id \in accepted \ Reported, status \in Statuses :
          reported' = reported \cup {[id |-> id, status |-> status]}
    /\ UNCHANGED <<accepted, lost>>

AnnounceLoss ==
    /\ ~ lost /\ Reported = accepted
    /\ lost' = TRUE
    /\ UNCHANGED <<accepted, reported>>

Reopen ==
    /\ lost
    /\ lost' = FALSE
    /\ UNCHANGED <<accepted, reported>>

Next == Accept \/ Report \/ AnnounceLoss \/ Reopen

Spec == Init /\ [][Next]_<<accepted, reported, lost>>
=============================================================================
