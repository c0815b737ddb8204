----------------------------- MODULE PlanApproval -----------------------------
(***************************************************************************)
(* The way from a recommendation to an execution job: plans are created for   *)
(* it, each with its approval request; a request is decided by people, one    *)
(* at a time or in bulk, by the creator at once (instant execution) or by a   *)
(* workflow's policy; an approval creates a job and enqueues it.             *)
(*                                                                         *)
(* A client is a database session with its process: an API request, or a      *)
(* worker inside an EXECUTE_ACTION node.  A step ends where the session reads  *)
(* a status it will act on, flushes a row that others then wait for, commits,  *)
(* or talks to the broker.                                                   *)
(***************************************************************************)
EXTENDS Naturals, FiniteSets

CONSTANTS
    Clients,    \* sessions that can be open at the same time
    Plans,      \* plans that may be created for the one recommendation
    NodePlans,  \* those a workflow's EXECUTE_ACTION node creates
    Decisions,  \* what people decide, of Decision
    Deaths      \* whether a client may die, or the broker refuse its call

Decision == {"approve", "reject", "request_changes"}

\* _APPROVAL_STATUS_BY_DECISION and _PLAN_STATUS_BY_DECISION agree on the names.
StatusOf == [approve |-> "approved", reject |-> "rejected",
             request_changes |-> "changes_requested"]

RequestStatus == {"none", "pending", "approved", "rejected", "changes_requested", "expired"}

\* "approved" covers a plan that is executing, "ended" one that was carried
\* out, failed or was rolled back.
PlanStatus == {"none", "pending_approval", "approved", "rejected", "changes_requested", "ended"}
InFlight == {"pending_approval", "approved"}

ASSUME PlanApprovalAssumption ==
    /\ IsFiniteSet(Clients)
    /\ NodePlans \subseteq Plans /\ Plans # {}
    /\ Decisions \subseteq Decision
    /\ Deaths \in BOOLEAN

VARIABLES
    planStatus,     \* execution_plans
    request,        \* approval_requests.status
    linked,         \* approval_requests.workflow_node_execution_id is set
    overdue,        \* the request's expires_at has passed
    made,           \* how many approval_decisions of each kind it has
    jobs, sent,     \* execution_jobs created, and enqueued
    resumed,        \* how often the waiting workflow was enqueued
    session         \* what each client is doing

planVars == <<planStatus, request, linked, made, jobs>>
vars == <<planVars, overdue, sent, resumed, session>>

\* A session: where it is, the plan and decision it is at, the ids of its batch
\* still to come, and the rows it has set to expired and not committed.
Session == [pc : {"idle", "create", "created", "next", "expire", "decide", "send", "resume"},
            plan : Plans, decision : Decision, batch : SUBSET Plans, expiring : SUBSET Plans]
Closed == [pc |-> "idle", plan |-> CHOOSE p \in Plans : TRUE, decision |-> "approve",
           batch |-> {}, expiring |-> {}]

TypeOK ==
    /\ planStatus \in [Plans -> PlanStatus]
    /\ request \in [Plans -> RequestStatus]
    /\ linked \in [Plans -> BOOLEAN]
    /\ overdue \in [Plans -> BOOLEAN]
    /\ made \in [Plans -> [Decision -> Nat]]
    /\ jobs \in [Plans -> Nat] /\ sent \in [Plans -> Nat] /\ resumed \in [Plans -> Nat]
    /\ session \in [Clients -> Session]

Init ==
    /\ planStatus = [p \in Plans |-> "none"]
    /\ request = [p \in Plans |-> "none"]
    /\ linked = [p \in Plans |-> FALSE]
    /\ overdue = [p \in Plans |-> FALSE]
    /\ made = [p \in Plans |-> [d \in Decision |-> 0]]
    /\ jobs = [p \in Plans |-> 0] /\ sent = [p \in Plans |-> 0]
    /\ resumed = [p \in Plans |-> 0]
    /\ session = [c \in Clients |-> Closed]

At(c, pc) == session[c].pc = pc

-----------------------------------------------------------------------------
(* Creating a plan *)

\* Mutant: a plan that waits for its approval is not counted.
HasActivePlan_Approved == \E p \in Plans : planStatus[p] = "approved"
HasActivePlan == \E p \in Plans : planStatus[p] \in InFlight

ChecksRecommendation(c, p) ==
    /\ At(c, "idle")
    /\ ~HasActivePlan
    /\ planStatus[p] = "none" /\ \A b \in Clients : At(b, "create") => session[b].plan # p
    /\ session' = [session EXCEPT ![c] = [@ EXCEPT !.pc = "create", !.plan = p]]
    /\ UNCHANGED <<planVars, overdue, sent, resumed>>

\* The plan and its request are inserted together; the check is not repeated.
CreatesPlan(c) ==
    /\ At(c, "create")
    /\ planStatus' = [planStatus EXCEPT ![session[c].plan] = "pending_approval"]
    /\ request' = [request EXCEPT ![session[c].plan] = "pending"]
    /\ session' = [session EXCEPT ![c] = [@ EXCEPT !.pc = "created"]]
    /\ UNCHANGED <<linked, overdue, made, jobs, sent, resumed>>

\* auto_decide_as_creator, or auto_decide_via_policy: approve what was just created.
DecidesAtOnce(c) ==
    /\ At(c, "created")
    /\ session' = [session EXCEPT ![c] = [@ EXCEPT !.pc = "next", !.batch = {session[c].plan},
                                       !.decision = "approve"]]
    /\ UNCHANGED <<planVars, overdue, sent, resumed>>

\* A REQUIRE_APPROVAL policy: the request is linked to the waiting node.
LinksNode(c) ==
    /\ At(c, "created")
    /\ session[c].plan \in NodePlans
    /\ linked' = [linked EXCEPT ![session[c].plan] = TRUE]
    /\ session' = [session EXCEPT ![c] = Closed]
    /\ UNCHANGED <<planStatus, request, overdue, made, jobs, sent, resumed>>

-----------------------------------------------------------------------------
(* decide, bulk_decide *)

\* A decision on a set of requests; a single decide is a batch of one.
StartsBatch(c, ids, d) ==
    /\ At(c, "idle")
    /\ ids # {} /\ \A p \in ids : request[p] # "none"
    /\ session' = [session EXCEPT ![c] = [@ EXCEPT !.pc = "next", !.batch = ids, !.decision = d]]
    /\ UNCHANGED <<planVars, overdue, sent, resumed>>

\* Mutant: the status is not looked at.
Decidable_Any(p) == request[p] # "none" /\ ~overdue[p]
Decidable(p) == request[p] = "pending" /\ ~overdue[p]

\* get_owned and the permission check find nothing wrong.
ReadsPending(c, p) ==
    /\ At(c, "next") /\ p \in session[c].batch
    /\ Decidable(p)
    /\ session' = [session EXCEPT ![c] = [@ EXCEPT !.pc = "decide", !.plan = p]]
    /\ UNCHANGED <<planVars, overdue, sent, resumed>>

\* expire_if_overdue has seen that the request is overdue ...
ReadsOverdue(c, p) ==
    /\ At(c, "next") /\ p \in session[c].batch
    /\ request[p] = "pending" /\ overdue[p]
    /\ session' = [session EXCEPT ![c] = [@ EXCEPT !.pc = "expire", !.plan = p]]
    /\ UNCHANGED <<planVars, overdue, sent, resumed>>

\* The row's lock is with a session that has changed it and not committed.
Waits(c, b) ==
    b # c /\ session[c].pc \in {"expire", "decide"} /\ session[c].plan \in session[b].expiring
HasRow(c) == \A b \in Clients : ~Waits(c, b)

\* Mutant: the item stays in the batch.
Rest_Same(c) == session[c].batch
Rest(c) == session[c].batch \ {session[c].plan}

\* ... and flushes "expired"; decide then raises, and nothing is committed.
FlushesExpired(c) ==
    /\ At(c, "expire") /\ HasRow(c)
    /\ session' = [session EXCEPT ![c] = [@ EXCEPT !.pc = "next",
                                       !.expiring = session[c].expiring \cup {session[c].plan},
                                       !.batch = Rest(c)]]
    /\ UNCHANGED <<planVars, overdue, sent, resumed>>

\* Already decided (by this session's own flush, too), or, for an approval, the
\* connector may not be written to: the item is passed over.
SkipsItem(c, p) ==
    /\ At(c, "next") /\ p \in session[c].batch
    /\ \/ request[p] # "pending"
       \/ Decidable(p) /\ session[c].decision = "approve"
    /\ session' = [session EXCEPT ![c] = [@ EXCEPT !.batch = session[c].batch \ {p}]]
    /\ UNCHANGED <<planVars, overdue, sent, resumed>>

\* Mutant: every decision creates a job.
CreatesJob_Always(d) == d \in Decision
CreatesJob(d) == d = "approve"

\* Mutant: the plan is left as it was.
PlanAfter_Same(p, d) == planStatus[p]
\* Mutant: it takes the status of the request, as that was before.
PlanAfter_Request(p, d) == request[p]
PlanAfter(p, d) == StatusOf[d]

\* One transaction, and with it whatever the session had flushed before.
CommitsDecision(c) ==
    LET p == session[c].plan  d == session[c].decision IN
    /\ At(c, "decide") /\ HasRow(c)
    /\ made' = [made EXCEPT ![p][d] = @ + 1]
    /\ request' = [q \in Plans |-> IF q = p THEN StatusOf[d]
                                   ELSE IF q \in session[c].expiring THEN "expired"
                                   ELSE request[q]]
    /\ planStatus' = [planStatus EXCEPT ![p] = PlanAfter(p, d)]
    /\ jobs' = [jobs EXCEPT ![p] = IF CreatesJob(d) THEN @ + 1 ELSE @]
    /\ session' = [session EXCEPT ![c] = [@ EXCEPT !.pc = IF CreatesJob(d) THEN "send" ELSE "resume",
                                       !.batch = Rest(c), !.expiring = {}]]
    /\ UNCHANGED <<linked, overdue, sent, resumed>>

SendsJob(c) ==
    /\ At(c, "send")
    /\ sent' = [sent EXCEPT ![session[c].plan] = @ + 1]
    /\ session' = [session EXCEPT ![c] = [@ EXCEPT !.pc = "resume"]]
    /\ UNCHANGED <<planVars, overdue, resumed>>

\* _resume_workflow_if_applicable: the link is read after the commit.
ResumesWorkflow(c) ==
    LET p == session[c].plan IN
    /\ At(c, "resume")
    /\ resumed' = [resumed EXCEPT ![p] = IF linked[p] THEN @ + 1 ELSE @]
    /\ session' = [session EXCEPT ![c] = [@ EXCEPT !.pc = "next"]]
    /\ UNCHANGED <<planVars, overdue, sent>>

\* The session is closed; what it had flushed and not committed is gone.
EndsBatch(c) ==
    /\ At(c, "next") /\ session[c].batch = {}
    /\ session' = [session EXCEPT ![c] = Closed]
    /\ UNCHANGED <<planVars, overdue, sent, resumed>>

\* The process dies, or its call to the broker fails with no VaultError.
Dies(c) ==
    /\ Deaths
    /\ ~At(c, "idle")
    /\ session' = [session EXCEPT ![c] = Closed]
    /\ UNCHANGED <<planVars, overdue, sent, resumed>>

\* The database ends one of the sessions that wait for each other's rows in a
\* circle; its error is no VaultError either.
LosesDeadlock(c) ==
    /\ \E circle \in SUBSET Clients :
           c \in circle /\ \A a \in circle : \E b \in circle : Waits(a, b)
    /\ session' = [session EXCEPT ![c] = Closed]
    /\ UNCHANGED <<planVars, overdue, sent, resumed>>

-----------------------------------------------------------------------------
(* Around it *)

\* _resume_waiting_approval finds the request overdue, and its run commits that.
WorkflowExpires(p) ==
    /\ linked[p] /\ request[p] = "pending" /\ overdue[p]
    /\ \A c \in Clients : p \notin session[c].expiring
    /\ request' = [request EXCEPT ![p] = "expired"]
    /\ UNCHANGED <<planStatus, linked, made, jobs, overdue, sent, resumed, session>>

TimePasses(p) ==
    /\ request[p] # "none" /\ ~overdue[p]
    /\ overdue' = [overdue EXCEPT ![p] = TRUE]
    /\ UNCHANGED <<planVars, sent, resumed, session>>

\* The execution engine ends the plan's run, in whatever way.
PlanEnds(p) ==
    /\ planStatus[p] = "approved" /\ sent[p] > 0
    /\ planStatus' = [planStatus EXCEPT ![p] = "ended"]
    /\ UNCHANGED <<request, linked, made, jobs, overdue, sent, resumed, session>>

Creates(c)  == CreatesPlan(c) \/ DecidesAtOnce(c) \/ LinksNode(c)
TakesItem(c) == \E p \in Plans : ReadsPending(c, p) \/ ReadsOverdue(c, p) \/ SkipsItem(c, p)
Decides(c)  == FlushesExpired(c) \/ CommitsDecision(c) \/ SendsJob(c) \/ ResumesWorkflow(c)
ClientStep(c) == Creates(c) \/ TakesItem(c) \/ Decides(c) \/ EndsBatch(c) \/ LosesDeadlock(c)

Next ==
    \/ \E c \in Clients, p \in Plans : ChecksRecommendation(c, p)
    \/ \E c \in Clients, ids \in SUBSET Plans, d \in Decisions : StartsBatch(c, ids, d)
    \/ \E c \in Clients : ClientStep(c) \/ Dies(c)
    \/ \E p \in Plans : WorkflowExpires(p) \/ TimePasses(p) \/ PlanEnds(p)

Spec == Init /\ [][Next]_vars

\* A request or a worker that is up carries on with what it has begun, and the
\* database hands a row's lock on in the order in which it was asked for.
FairSpec == Spec /\ \A c \in Clients : SF_vars(ClientStep(c))

-----------------------------------------------------------------------------
(* Properties *)

\* The decisions a request has.
DecisionsOf(p) == made[p]["approve"] + made[p]["reject"] + made[p]["request_changes"]

\* A job is created with an approval and with nothing else, whichever of the
\* ways into decide it came, and is enqueued at most once: an approval that is
\* cut short may leave a job that is never run, but no run lacks its approval.
JobsMatchApprovals == \A p \in Plans : jobs[p] = made[p]["approve"] /\ sent[p] <= jobs[p]

\* request.status, plan.status and the decision rows tell one story: the plan
\* goes with the verdict, and a request that merely expired decided nothing.
VerdictsAgree ==
    \A p \in Plans :
        /\ request[p] = "none" => planStatus[p] = "none" /\ DecisionsOf(p) = 0
        /\ request[p] \in {"pending", "expired"} =>
               planStatus[p] = "pending_approval" /\ DecisionsOf(p) = 0
        /\ \A d \in Decision : request[p] = StatusOf[d] =>
               made[p][d] > 0 /\ planStatus[p] \in {StatusOf[d], "ended"}

\* What a session is about to act on still stands: the request it decides is
\* pending and none it has itself expired, the check before a plan still holds.
ActsOnWhatItRead ==
    \A c \in Clients : LET s == session[c] IN
        /\ s.pc \in {"expire", "decide"} => request[s.plan] = "pending" /\ s.plan \in s.batch
        /\ s.batch \cap s.expiring = {} /\ \A p \in s.expiring : request[p] = "pending"
        /\ s.pc \in {"idle", "create", "created"} => s.expiring = {}
        /\ s.pc = "create" => planStatus[s.plan] = "none" /\ ~HasActivePlan

\* "One ApprovalRequest resolves to exactly one ApprovalDecision" (ADR-020).
OneDecision == \A p \in Plans : DecisionsOf(p) <= 1

\* The duplicate check of create_plan keeps a recommendation at one plan in
\* flight, over the whole life of its earlier plans.
OnePlanInFlight ==
    \A p, q \in Plans : planStatus[p] \in InFlight /\ planStatus[q] \in InFlight => p = q

\* Every request comes to its end, those included that wait for each other.
SessionsEnd == \A c \in Clients : ~At(c, "idle") ~> At(c, "idle")

\* "a human's decide() call both runs the normal plan-approval flow AND resumes
\* this paused workflow": no decided request leaves its node waiting.
DecidedResumes == \A p \in Plans : linked[p] /\ DecisionsOf(p) > 0 ~> resumed[p] > 0

\* One verdict for each request, and work for the approved ones alone: the
\* promise of the approval system, kept while one session decides at a time.
VerdictOf == [p \in Plans |-> IF request[p] \in {"none", "pending"} THEN "open" ELSE request[p]]
Promise == INSTANCE Verdicts WITH Items <- Plans, verdict <- VerdictOf, work <- jobs
DecidesOnce == Promise!Spec
=============================================================================
