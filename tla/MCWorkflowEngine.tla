--------------------------- MODULE MCWorkflowEngine ---------------------------
(***************************************************************************)
(* The graphs of WorkflowEngine that TLC checks.                             *)
(***************************************************************************)
EXTENDS WorkflowEngine, TLC

CONSTANTS start, cond, wait, ask, act, done

\* An outcome that next_nodes does not list leads nowhere.
Leads(edges) == [o \in Outcome |-> IF o \in DOMAIN edges THEN edges[o] ELSE NoNode]

\* start -> wait (delay) -> ask (approval) -approved-> act -> done.
LineNodes == {start, wait, ask, act, done}
LineKind == (start :> "step") @@ (wait :> "delay") @@ (ask :> "approval")
            @@ (act :> "action") @@ (done :> "step")
LineEdge == (start :> Leads([default |-> wait])) @@ (wait :> Leads([default |-> ask]))
            @@ (ask :> Leads([approved |-> act, rejected |-> done]))
            @@ (act :> Leads([default |-> done])) @@ (done :> Leads(<<>>))

\* start -> cond -true-> ask -approved-> done, cond -false-> done.
ForkNodes == {start, cond, ask, done}
ForkKind == (start :> "step") @@ (cond :> "branch") @@ (ask :> "approval") @@ (done :> "step")
ForkEdge == (start :> Leads([default |-> cond])) @@ (cond :> Leads([true |-> ask, false |-> done]))
            @@ (ask :> Leads([approved |-> done])) @@ (done :> Leads(<<>>))
=============================================================================
