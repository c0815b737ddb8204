------------------------------ MODULE MCScheduler ------------------------------
(***************************************************************************)
(* The instances of Scheduler that TLC checks.                               *)
(***************************************************************************)
EXTENDS Scheduler, TLC

CONSTANTS t1, t2, wf1, wf2

\* A trigger per workflow, and two triggers of one workflow.
Apart    == (t1 :> wf1) @@ (t2 :> wf2)
Together == (t1 :> wf1) @@ (t2 :> wf1)
=============================================================================
