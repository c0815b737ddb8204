------------------------------- MODULE Verdicts -------------------------------
(***************************************************************************)
(* What the approval system promises (ADR-020): every request gets one        *)
(* verdict, which then stands, and exactly the approved ones are worked on,    *)
(* once, from the moment of the verdict.                                     *)
(***************************************************************************)
EXTENDS Naturals

CONSTANT Items
VARIABLES verdict, work

Verdict == {"open", "approved", "rejected", "changes_requested", "expired"}

Init ==
    /\ verdict = [i \in Items |-> "open"]
    /\ work = [i \in Items |-> 0]

\* Some open requests are settled together.
Settles(those) ==
    /\ those # {} /\ \A i \in those : verdict[i] = "open"
    /\ \E v \in [those -> Verdict \ {"open"}] :
           /\ verdict' = [i \in Items |-> IF i \in those THEN v[i] ELSE verdict[i]]
           /\ work' = [i \in Items |-> IF i \in those /\ v[i] = "approved" THEN 1 ELSE work[i]]

Next == \E those \in SUBSET Items : Settles(those)

Spec == Init /\ [][Next]_<<verdict, work>>
=============================================================================
