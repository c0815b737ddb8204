---------------------------- MODULE WorkflowEngine ----------------------------
(***************************************************************************)
(* The Workflow Execution Engine: one WorkflowExecution, the workers whose    *)
(* run() walks its node graph, the people who decide its approval requests,   *)
(* the API that cancels, pauses and resumes it, and the messages that wake it. *)
(*                                                                         *)
(* A worker's rows of workflow_node_executions are flushed as it walks and    *)
(* committed only where a handler, a pause or the end of the walk commits: a   *)
(* step of this module ends there, or at a read of what others may change.    *)
(* Two workers that both look for a node's row before either has committed     *)
(* one insert two, each with its own request, delay and timer. Whoever looks   *)
(* later inserts none, so a worker inserts one row of a node at most, and a     *)
(* row is named by its node and by the worker that inserted it.               *)
(***************************************************************************)
EXTENDS Naturals

CONSTANTS
    Workers,     \* Celery worker processes
    NoWorker,    \* no row yet
    Nodes,       \* the nodes of the published version
    NoNode,      \* "no node", a current_node_id of None
    Trigger,     \* the one TRIGGER node
    Kind,        \* what each node does
    Edge,        \* next_nodes: where an outcome of a node leads
    MaxCrashes,  \* bound on worker-process crashes
    MaxPauses,   \* bound on pause requests
    MaxResumes   \* bound on resume requests

\* "step" is a node that completes at once: TRIGGER, AI_EVALUATION,
\* NOTIFICATION, END; "branch" a CONDITION, or a DECISION of two branches.
Kinds == {"step", "branch", "approval", "action", "delay"}
Outcome == {"default", "true", "false", "approved", "rejected", "changes_requested"}

\* A row of workflow_node_executions: "waiting" is WAITING_APPROVAL or
\* WAITING_DELAY, a completed or skipped one is the outcome it recorded.
RowState == {"none", "running", "waiting"} \cup Outcome

RequestStatus == {"none", "pending", "approved", "rejected", "changes_requested", "expired"}
Decided == {"approved", "rejected", "changes_requested"}

ExecutionStatus == {"none", "pending", "running", "paused", "completed", "failed", "cancelled"}
Active   == {"pending", "running", "paused"}
Terminal == {"completed", "failed", "cancelled"}

ASSUME WorkflowAssumption ==
    /\ NoWorker \notin Workers /\ NoNode \notin Nodes /\ Trigger \in Nodes
    /\ Kind \in [Nodes -> Kinds]
    /\ Edge \in [Nodes -> [Outcome -> Nodes \cup {NoNode}]]
    /\ MaxCrashes \in Nat /\ MaxPauses \in Nat /\ MaxResumes \in Nat

\* next_nodes.get(outcome) or next_nodes.get("default").
Target(n, o) == IF Edge[n][o] # NoNode THEN Edge[n][o] ELSE Edge[n]["default"]

VARIABLES
    status, cancelRequested, pauseRequested, current,   \* workflow_executions
    row,          \* workflow_node_executions: of a node, by a worker
    last,         \* which row of a node was created last
    request,      \* the approval_request of a row
    requested,    \* how many requests a node has made
    approved,     \* the nodes of which a request was approved
    elapsed,      \* whether the resume_at of a delay's row has passed
    timer,        \* messages sent with a countdown
    queue,        \* messages the broker can deliver
    sending,      \* API calls that have committed and not yet enqueued
    resuming,     \* resume calls that have read "paused", and this pause_requested,
                  \* and have not yet committed
    run,          \* what each worker is doing
    crashes, pauses, resumes    \* against the bounds

execVars    == <<status, cancelRequested, pauseRequested, current>>
rowVars     == <<row, last>>
requestVars == <<request, requested, approved>>
delayVars   == <<elapsed, timer>>
mailVars    == <<queue, sending, resuming>>
boundVars   == <<crashes, pauses, resumes>>
vars == <<execVars, rowVars, requestVars, delayVars, mailVars, run, boundVars>>

\* A worker inside run(): where it is, the node it is at, the rows it has flushed
\* and not committed, and, while it is at work on a node, whose row of the node it
\* has in hand and what it has found there.
Run == [pc : {"idle", "walk", "node", "plan", "schedule", "park", "ack"},
        node : Nodes \cup {NoNode}, rows : [Nodes -> [Workers -> RowState \cup {"same"}]],
        whose : Workers \cup {NoWorker}, found : RowState]
Session(pc, node, rows, whose) ==
    [pc |-> pc, node |-> node, rows |-> rows, whose |-> whose, found |-> "none"]
Untouched == [n \in Nodes |-> [v \in Workers |-> "same"]]
Idle   == Session("idle", NoNode, Untouched, NoWorker)
Leaves == Session("ack", NoNode, Untouched, NoWorker)

TypeOK ==
    /\ status \in ExecutionStatus /\ current \in Nodes \cup {NoNode}
    /\ cancelRequested \in BOOLEAN /\ pauseRequested \in BOOLEAN
    /\ row \in [Nodes -> [Workers -> RowState]] /\ last \in [Nodes -> Workers \cup {NoWorker}]
    /\ request \in [Nodes -> [Workers -> RequestStatus]] /\ requested \in [Nodes -> Nat]
    /\ approved \in SUBSET Nodes
    /\ elapsed \in [Nodes -> [Workers -> BOOLEAN]] /\ timer \in [Nodes -> [Workers -> Nat]]
    /\ queue \in Nat /\ sending \in Nat /\ resuming \in [BOOLEAN -> Nat]
    /\ run \in [Workers -> Run]
    /\ crashes \in 0 .. MaxCrashes /\ pauses \in 0 .. MaxPauses /\ resumes \in 0 .. MaxResumes

Init ==
    /\ status = "none" /\ current = NoNode
    /\ cancelRequested = FALSE /\ pauseRequested = FALSE
    /\ row = [n \in Nodes |-> [v \in Workers |-> "none"]]
    /\ last = [n \in Nodes |-> NoWorker]
    /\ request = [n \in Nodes |-> [v \in Workers |-> "none"]]
    /\ requested = [n \in Nodes |-> 0]
    /\ approved = {}
    /\ elapsed = [n \in Nodes |-> [v \in Workers |-> FALSE]]
    /\ timer = [n \in Nodes |-> [v \in Workers |-> 0]]
    /\ queue = 0 /\ sending = 0 /\ resuming = [flag \in BOOLEAN |-> 0]
    /\ run = [w \in Workers |-> Idle]
    /\ crashes = 0 /\ pauses = 0 /\ resumes = 0

-----------------------------------------------------------------------------
(* The API, and the passing of time *)

\* The run's row is committed, and then enqueued by Sends.
Triggers ==
    /\ status = "none"
    /\ status' = "pending"
    /\ sending' = sending + 1
    /\ UNCHANGED <<cancelRequested, pauseRequested, current, rowVars, requestVars, delayVars,
                   queue, resuming, run, boundVars>>

Sends ==
    /\ sending > 0
    /\ sending' = sending - 1
    /\ queue' = queue + 1
    /\ UNCHANGED <<execVars, rowVars, requestVars, delayVars, resuming, run, boundVars>>

Cancel ==
    /\ status \in Active
    /\ cancelRequested' = TRUE
    /\ UNCHANGED <<status, pauseRequested, current, rowVars, requestVars, delayVars, mailVars,
                   run, boundVars>>

Pause ==
    /\ status = "running"
    /\ pauses < MaxPauses
    /\ pauses' = pauses + 1
    /\ pauseRequested' = TRUE
    /\ UNCHANGED <<status, cancelRequested, current, rowVars, requestVars, delayVars, mailVars,
                   run, crashes, resumes>>

ResumeReads ==
    /\ status = "paused"
    /\ resumes < MaxResumes
    /\ resumes' = resumes + 1
    /\ resuming' = [resuming EXCEPT ![pauseRequested] = @ + 1]
    /\ UNCHANGED <<execVars, rowVars, requestVars, delayVars, queue, sending, run, crashes, pauses>>

\* A session that read the flag unset does not write it.
ResumeCommits ==
    /\ \E flag \in BOOLEAN :
           /\ resuming[flag] > 0
           /\ resuming' = [resuming EXCEPT ![flag] = @ - 1]
           /\ pauseRequested' = (pauseRequested /\ ~flag)
    /\ status' = "pending"
    /\ sending' = sending + 1
    /\ UNCHANGED <<cancelRequested, current, rowVars, requestVars, delayVars, queue, run, boundVars>>

\* Mutant: the decision of a node's request does not wake its run.
Wakes_Never(n, v) == FALSE
\* The request is linked to a row that waits for it.
Wakes(n, v) == row[n][v] = "waiting"

\* decide: the verdict is committed, then the run is enqueued.
Decide(n, v, d) ==
    /\ request[n][v] = "pending"
    /\ request' = [request EXCEPT ![n][v] = d]
    /\ approved' = IF d = "approved" THEN approved \cup {n} ELSE approved
    /\ sending' = IF Wakes(n, v) THEN sending + 1 ELSE sending
    /\ UNCHANGED <<execVars, rowVars, requested, delayVars, queue, resuming, run, boundVars>>

\* expires_at passes: whoever reads the request next finds it expired.
Lapses(n, v) ==
    /\ request[n][v] = "pending"
    /\ request' = [request EXCEPT ![n][v] = "expired"]
    /\ UNCHANGED <<execVars, rowVars, requested, approved, delayVars, mailVars, run, boundVars>>

DelayEnds(n, v) ==
    /\ Kind[n] = "delay" /\ row[n][v] = "waiting" /\ ~elapsed[n][v]
    /\ elapsed' = [elapsed EXCEPT ![n][v] = TRUE]
    /\ UNCHANGED <<execVars, rowVars, requestVars, timer, mailVars, run, boundVars>>

\* A countdown starts after resume_at was computed, and ends after it.
TimerFires(n, v) ==
    /\ timer[n][v] > 0 /\ elapsed[n][v]
    /\ timer' = [timer EXCEPT ![n][v] = @ - 1]
    /\ queue' = queue + 1
    /\ UNCHANGED <<execVars, rowVars, requestVars, elapsed, sending, resuming, run, boundVars>>

-----------------------------------------------------------------------------
(* A worker walks the graph: run() *)

Here(w) == run[w].node

\* Whatever the execution's status is; the walk begins at current_node_id.
Starts(w) ==
    /\ run[w].pc = "idle"
    /\ queue > 0
    /\ queue' = queue - 1
    /\ status' = "running"
    /\ run' = [run EXCEPT ![w] = Session("walk", IF current = NoNode THEN Trigger ELSE current,
                                         Untouched, NoWorker)]
    /\ UNCHANGED <<cancelRequested, pauseRequested, current, rowVars, requestVars, delayVars,
                   sending, resuming, boundVars>>

\* The nodes of which w commits a first row of its own.
Inserts(w, rows) == {n \in Nodes : rows[n][w] # "same" /\ row[n][w] = "none"}

\* Mutant: rows that the session has not touched are overwritten.
Stores_Raw(w, rows) == row' = rows /\ last' = last
\* A commit makes the session's rows the committed ones. created_at is the start of the
\* transaction: of two rows, the one committed later may be the older.
Stores(w, rows) ==
    /\ row' = [n \in Nodes |-> [v \in Workers |->
                  IF rows[n][v] = "same" THEN row[n][v] ELSE rows[n][v]]]
    /\ \E older \in SUBSET {n \in Inserts(w, rows) : last[n] # NoWorker} :
           last' = [n \in Nodes |-> IF n \in Inserts(w, rows) \ older THEN w ELSE last[n]]

ObservesCancel(w) ==
    /\ run[w].pc = "walk" /\ Here(w) # NoNode
    /\ cancelRequested
    /\ status' = "cancelled"
    /\ Stores(w, run[w].rows)
    /\ run' = [run EXCEPT ![w] = Leaves]
    /\ UNCHANGED <<cancelRequested, pauseRequested, current, requestVars, delayVars, mailVars,
                   boundVars>>

\* A session that loaded the execution before the flag was set sees it unset
\* already, and sends no update.
UnsetsPause == pauseRequested' \in {FALSE, pauseRequested}

ObservesPause(w) ==
    /\ run[w].pc = "walk" /\ Here(w) # NoNode
    /\ ~cancelRequested /\ pauseRequested
    /\ status' = "paused"
    /\ current' = Here(w)
    /\ UnsetsPause
    /\ Stores(w, run[w].rows)
    /\ run' = [run EXCEPT ![w] = Leaves]
    /\ UNCHANGED <<cancelRequested, requestVars, delayVars, mailVars, boundVars>>

\* The row that a session finds: one it has flushed in this walk, or the last one
\* committed, or the one it is about to insert.
Finds(w, v) ==
    IF \E u \in Workers : run[w].rows[Here(w)][u] # "same"
    THEN run[w].rows[Here(w)][v] # "same"
    ELSE v = IF last[Here(w)] = NoWorker THEN w ELSE last[Here(w)]
State(w, v) ==
    IF run[w].rows[Here(w)][v] = "same" THEN row[Here(w)][v] ELSE run[w].rows[Here(w)][v]

\* No flag is set: get_for_execution_and_node. What is done about the row comes later.
Looks(w) ==
    /\ run[w].pc = "walk" /\ Here(w) # NoNode
    /\ ~cancelRequested /\ ~pauseRequested
    /\ \E v \in Workers :
           /\ Finds(w, v)
           /\ run' = [run EXCEPT ![w] = [@ EXCEPT !.pc = "node", !.whose = v, !.found = State(w, v)]]
    /\ UNCHANGED <<execVars, rowVars, requestVars, delayVars, mailVars, boundVars>>

\* The node is processed, in the state its row was found in.
At(w, kinds, states) ==
    run[w].pc = "node" /\ Kind[Here(w)] \in kinds /\ run[w].found \in states
\* Mutant: a row that waits is not recognised, and its handler runs again.
Undecided_Waiting == {"none", "running", "waiting"}
Undecided == {"none", "running"}

\* The session's rows with the one in hand changed, or inserted; and its request.
RowsWith(w, s) == [run[w].rows EXCEPT ![Here(w)][run[w].whose] = s]
Request(w) == request[Here(w)][run[w].whose]

\* The node's outcome is flushed, and the walk goes on where it leads.
Records(w, o, next) ==
    run' = [run EXCEPT ![w] = Session("walk", next, RowsWith(w, o), NoWorker)]

\* Decided in an earlier run: whatever it recorded, the outcome is "default".
PassesDecided(w) ==
    /\ At(w, Kinds, Outcome)
    /\ run' = [run EXCEPT ![w] = Session("walk", Target(Here(w), "default"), run[w].rows, NoWorker)]
    /\ UNCHANGED <<execVars, rowVars, requestVars, delayVars, mailVars, boundVars>>

Branches(n) == IF Kind[n] = "branch" THEN {"true", "false"} ELSE {"default"}

TakesStep(w) ==
    /\ At(w, {"step", "branch"}, Undecided)
    /\ \E o \in Branches(Here(w)) : Records(w, o, Target(Here(w), o))
    /\ UNCHANGED <<execVars, rowVars, requestVars, delayVars, mailVars, boundVars>>

\* The row waits, and with it a new request is committed.
AsksApproval(w) ==
    /\ At(w, {"approval"}, Undecided)
    /\ Stores(w, RowsWith(w, "waiting"))
    /\ request' = [request EXCEPT ![Here(w)][run[w].whose] = "pending"]
    /\ requested' = [requested EXCEPT ![Here(w)] = @ + 1]
    /\ run' = [run EXCEPT ![w] = Session("park", Here(w), Untouched, NoWorker)]
    /\ UNCHANGED <<execVars, approved, delayVars, mailVars, boundVars>>

\* Mutant: an expired request counts as approved.
VerdictOutcome_Expired(d) == IF d = "expired" THEN "approved" ELSE d
VerdictOutcome(d) == IF d = "expired" THEN "rejected" ELSE d

TakesVerdict(w) ==
    /\ At(w, {"approval", "action"}, {"waiting"})
    /\ Request(w) \in Decided \cup {"expired"}
    /\ LET o == VerdictOutcome(Request(w)) IN Records(w, o, Target(Here(w), o))
    /\ UNCHANGED <<execVars, rowVars, requestVars, delayVars, mailVars, boundVars>>

TakesDelayEnd(w) ==
    /\ At(w, {"delay"}, {"waiting"})
    /\ elapsed[Here(w)][run[w].whose]
    /\ Records(w, "default", Target(Here(w), "default"))
    /\ UNCHANGED <<execVars, rowVars, requestVars, delayVars, mailVars, boundVars>>

\* The request is pending still, or the time has not come.
StillWaits(w) ==
    /\ \/ At(w, {"approval", "action"}, {"waiting"}) /\ Request(w) = "pending"
       \/ At(w, {"delay"}, {"waiting"}) /\ ~elapsed[Here(w)][run[w].whose]
    /\ run' = [run EXCEPT ![w] = Session("park", Here(w), run[w].rows, NoWorker)]
    /\ UNCHANGED <<execVars, rowVars, requestVars, delayVars, mailVars, boundVars>>

StartsDelay(w) ==
    /\ At(w, {"delay"}, Undecided)
    /\ Stores(w, RowsWith(w, "waiting"))
    /\ elapsed' = [elapsed EXCEPT ![Here(w)][run[w].whose] = FALSE]
    /\ run' = [run EXCEPT ![w] = Session("schedule", Here(w), Untouched, run[w].whose)]
    /\ UNCHANGED <<execVars, requestVars, timer, mailVars, boundVars>>

SchedulesTimer(w) ==
    /\ run[w].pc = "schedule"
    /\ timer' = [timer EXCEPT ![Here(w)][run[w].whose] = @ + 1]
    /\ run' = [run EXCEPT ![w] = Session("park", Here(w), Untouched, NoWorker)]
    /\ UNCHANGED <<execVars, rowVars, requestVars, elapsed, mailVars, boundVars>>

\* No policy, no active recommendation, or one the policy does not want.
SkipsAction(w) ==
    /\ At(w, {"action"}, Undecided)
    /\ Records(w, "default", Target(Here(w), "default"))
    /\ UNCHANGED <<execVars, rowVars, requestVars, delayVars, mailVars, boundVars>>

\* create_plan commits the plan, its request and the session's rows; a plan
\* that is in flight, one with a lapsed request included, makes it raise.
CreatesPlan(w) ==
    /\ At(w, {"action"}, Undecided)
    /\ \A v \in Workers : request[Here(w)][v] \notin {"pending", "expired"}
    /\ Stores(w, RowsWith(w, "running"))
    /\ request' = [request EXCEPT ![Here(w)][run[w].whose] = "pending"]
    /\ requested' = [requested EXCEPT ![Here(w)] = @ + 1]
    /\ run' = [run EXCEPT ![w] = Session("plan", Here(w), Untouched, run[w].whose)]
    /\ UNCHANGED <<execVars, approved, delayVars, mailVars, boundVars>>

\* AUTO_EXECUTE: the policy's approval is committed, the outcome flushed.
AutoDecides(w) ==
    /\ run[w].pc = "plan"
    /\ Request(w) = "pending"
    /\ request' = [request EXCEPT ![Here(w)][run[w].whose] = "approved"]
    /\ approved' = approved \cup {Here(w)}
    /\ Records(w, "default", Target(Here(w), "default"))
    /\ UNCHANGED <<execVars, rowVars, requested, delayVars, mailVars, boundVars>>

\* REQUIRE_APPROVAL: the request is linked to the row, whatever became of it.
LinksRequest(w) ==
    /\ run[w].pc = "plan"
    /\ Stores(w, RowsWith(w, "waiting"))
    /\ run' = [run EXCEPT ![w] = Session("park", Here(w), Untouched, NoWorker)]
    /\ UNCHANGED <<execVars, requestVars, delayVars, mailVars, boundVars>>

\* _WAITING: the execution is paused at the node, by a commit of its own.
Parks(w) ==
    /\ run[w].pc = "park"
    /\ status' = "paused"
    /\ current' = Here(w)
    /\ UnsetsPause
    /\ Stores(w, run[w].rows)
    /\ run' = [run EXCEPT ![w] = Leaves]
    /\ UNCHANGED <<cancelRequested, requestVars, delayVars, mailVars, boundVars>>

\* The path has ended; current_node_id stays where the run was parked last.
Finishes(w) ==
    /\ run[w].pc = "walk" /\ Here(w) = NoNode
    /\ status' = "completed"
    /\ Stores(w, run[w].rows)
    /\ run' = [run EXCEPT ![w] = Leaves]
    /\ UNCHANGED <<cancelRequested, pauseRequested, current, requestVars, delayVars, mailVars,
                   boundVars>>

\* Any exception, the soft time limit included: what was flushed is undone.
Fails(w) ==
    /\ run[w].pc \in {"walk", "node", "plan", "schedule", "park"}
    /\ status' = "failed"
    /\ run' = [run EXCEPT ![w] = Leaves]
    /\ UNCHANGED <<cancelRequested, pauseRequested, current, rowVars, requestVars, delayVars,
                   mailVars, boundVars>>

\* task_acks_late: the message goes when the task has returned.
Acks(w) ==
    /\ run[w].pc = "ack"
    /\ run' = [run EXCEPT ![w] = Idle]
    /\ UNCHANGED <<execVars, rowVars, requestVars, delayVars, mailVars, boundVars>>

\* Mutant: the message was acknowledged when the task started.
AfterCrash_AckedEarly == queue
AfterCrash == queue + 1

\* task_reject_on_worker_lost: it goes back to the broker, the session is lost.
Crashes(w) ==
    /\ run[w].pc # "idle"
    /\ crashes < MaxCrashes
    /\ crashes' = crashes + 1
    /\ queue' = AfterCrash
    /\ run' = [run EXCEPT ![w] = Idle]
    /\ UNCHANGED <<execVars, rowVars, requestVars, delayVars, sending, resuming, pauses, resumes>>

-----------------------------------------------------------------------------
Visits(w) ==
    \/ PassesDecided(w) \/ TakesStep(w) \/ AsksApproval(w) \/ TakesVerdict(w)
    \/ TakesDelayEnd(w) \/ StillWaits(w) \/ StartsDelay(w) \/ SkipsAction(w) \/ CreatesPlan(w)
WorkerStep(w) ==
    \/ Starts(w) \/ ObservesCancel(w) \/ ObservesPause(w) \/ Looks(w) \/ Visits(w)
    \/ SchedulesTimer(w) \/ AutoDecides(w) \/ LinksRequest(w) \/ Parks(w)
    \/ Finishes(w) \/ Fails(w) \/ Acks(w)
ApiStep == Triggers \/ Sends \/ Cancel \/ Pause \/ ResumeReads \/ ResumeCommits
RowEvent(n, v) ==
    (\E d \in Decided : Decide(n, v, d)) \/ Lapses(n, v) \/ DelayEnds(n, v) \/ TimerFires(n, v)

Next ==
    \/ ApiStep
    \/ \E n \in Nodes, v \in Workers : RowEvent(n, v)
    \/ \E w \in Workers : WorkerStep(w) \/ Crashes(w)

Spec == Init /\ [][Next]_vars

\* A worker that is up keeps working, and a call that has committed enqueues.
FairSpec ==
    /\ Spec
    /\ \A w \in Workers : WF_vars(WorkerStep(w))
    /\ WF_vars(Sends) /\ WF_vars(ResumeCommits)

-----------------------------------------------------------------------------
(* Properties *)

(***************************************************************************)
(* What lies behind an approval, reached by "approved" edges of nodes that    *)
(* wait for one and by nothing else, is entered only after a person, or a     *)
(* policy, has approved: "automation never bypasses the Approval System"      *)
(* (ADR-021), over expiry, crashes, rewalked rows and racing workers.         *)
(***************************************************************************)
Gated == {n \in Nodes \ {Trigger} : \A m \in Nodes, o \in Outcome :
              Target(m, o) = n => o = "approved" /\ Kind[m] \in {"approval", "action"}}
Entered(n) ==
    \/ current = n \/ \E v \in Workers : row[n][v] # "none"
    \/ \E w \in Workers : run[w].node = n \/ \E v \in Workers : run[w].rows[n][v] # "same"
ApprovalGate == \A n \in Gated : Entered(n) => \E m \in approved : Target(m, "approved") = n

(***************************************************************************)
(* A node asks once: a rewalk after a crash, a pause or a resumption finds    *)
(* its row and does not make "a second ApprovalRequest"                      *)
(* (get_for_execution_and_node), while one worker at a time walks the run.    *)
(* An EXECUTE_ACTION node whose plan was committed and then lost is left out.  *)
(***************************************************************************)
OneRequestPerNode == \A n \in Nodes : Kind[n] = "approval" => requested[n] <= 1

(***************************************************************************)
(* No run is stuck: pending or running, it ends or comes to wait.            *)
(***************************************************************************)
RunsSettle == status \in {"pending", "running"} ~> status \in Terminal \cup {"paused"}

(***************************************************************************)
(* A decision is never lost on its run: an APPROVAL node that waits for a     *)
(* request that people have decided is left, or the run ends, unless somebody  *)
(* paused it.  (PlanApproval's DecidedResumes tells of EXECUTE_ACTION nodes.)  *)
(***************************************************************************)
DecidedMovesOn ==
    \A n \in Nodes, v \in Workers :
        Kind[n] = "approval" /\ row[n][v] = "waiting" /\ request[n][v] \in Decided
            ~> row[n][v] # "waiting" \/ status \in Terminal \/ pauses > 0

(***************************************************************************)
(* A run follows the outcomes its rows recorded: a worker that leaves a       *)
(* decided node goes where that outcome leads, "trust the recorded outcome    *)
(* rather than re-running side effects a second time".                       *)
(***************************************************************************)
FollowsRecord ==
    [][\A w \in Workers : PassesDecided(w) => run'[w].node = Target(Here(w), run[w].found)]_vars
=============================================================================
