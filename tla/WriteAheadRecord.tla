--------------------------- MODULE WriteAheadRecord ---------------------------
(***************************************************************************)
(* What the Execution Engine promises of the files it changes, with jobs,    *)
(* workers and messages left out: a change is recorded before it is made, is *)
(* made once, and is undone only where there is a record of it.             *)
(***************************************************************************)
CONSTANT Step

VARIABLES recorded, changed, undone

TypeOK == recorded \subseteq Step /\ changed \subseteq Step /\ undone \subseteq Step

Init == recorded = {} /\ changed = {} /\ undone = {}

Record(s) ==
    /\ s \notin recorded
    /\ recorded' = recorded \cup {s}
    /\ UNCHANGED <<changed, undone>>

Change(s) ==
    /\ s \in recorded \ changed
    /\ changed' = changed \cup {s}
    /\ UNCHANGED <<recorded, undone>>

\* The record may be of a change that was never made: undoing it is allowed.
Undo(s) ==
    /\ s \in recorded \ undone
    /\ undone' = undone \cup {s}
    /\ UNCHANGED <<recorded, changed>>

Next == \E s \in Step : Record(s) \/ Change(s) \/ Undo(s)

Spec == Init /\ [][Next]_<<recorded, changed, undone>>
=============================================================================
