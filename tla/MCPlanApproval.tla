---------------------------- MODULE MCPlanApproval ----------------------------
(***************************************************************************)
(* The instances of PlanApproval that TLC checks.                            *)
(***************************************************************************)
EXTENDS PlanApproval, FiniteSets, TLC

CONSTANTS c1, c2, p1, p2

OneClient  == {c1}
TwoClients == {c1, c2}
TwoPlans   == {p1, p2}
NoNodes    == {}
OneNode    == {p2}

AllDecisions == Decision
OnlyReject == {"reject"}

=============================================================================
