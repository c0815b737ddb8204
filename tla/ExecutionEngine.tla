--------------------------- MODULE ExecutionEngine ---------------------------
(***************************************************************************)
(* The Execution Engine: one approved ExecutionPlan, the ExecutionJobs      *)
(* that carry it out or roll it back, the control API that cancels, pauses  *)
(* and resumes them, the Celery workers that run them, and the Drive files  *)
(* they change.                                                            *)
(*                                                                         *)
(* Atomicity.  A step of this module ends where the code commits a          *)
(* transaction or calls Google Drive: between two such points no other      *)
(* process sees what the code did.  Requests of the control API that check   *)
(* a row and then change it (resume, trigger_rollback) are two steps, since  *)
(* the sessions are READ COMMITTED, take no lock and carry no row version.  *)
(***************************************************************************)
EXTENDS Naturals, FiniteSets

CONSTANTS
    Workers,        \* Celery worker processes
    Clients,        \* API requests that can be in progress at the same time
    ForwardJobs,    \* jobs an approve decision may create for the plan
    RollbackJobs,   \* jobs trigger_rollback may create (bounds its use)
    NoJob,          \* "no job"
    NumSteps,       \* the plan's steps are numbered in step_order
    Trashing,       \* steps of _TRASHABLE_ACTIONS; the others rename or move
    TokenFaults,    \* whether get_valid_access_token may raise
    PublishFaults,  \* whether an enqueue after a commit may fail
    RefreshFaults,  \* whether one of _trigger_storage_refresh may
    MaxCrashes,     \* bound on worker-process crashes
    MaxDrifts,      \* bound on changes made to the files outside the platform
    MaxPauses       \* bound on pause requests

Job  == ForwardJobs \cup RollbackJobs
Step == 1 .. NumSteps

\* What the plan's change touches of a file: its trashed flag, name or
\* parent.  "planned" is what the step wants, "drifted" what a user made of it.
Content == {"original", "drifted", "planned"}

JobStatus == {"none", "pending", "running", "paused", "completed", "failed",
              "partially_completed", "cancelled"}
Active   == {"pending", "running", "paused"}
Terminal == {"completed", "failed", "partially_completed", "cancelled"}

PlanStatus == {"pending_approval", "approved", "executing", "completed",
               "failed", "partially_completed", "rolled_back"}
StepStatus == {"pending", "completed", "failed", "rolled_back"}

\* Where a worker is in run(): "token" before get_valid_access_token, "step"
\* and "undo" at the head of the forward and of the rollback loop, "check"
\* when a step was found undecided and no flag set, "capture" after the live
\* read, "apply" after the rollback record's commit, "settle" after a Drive
\* write that returned and "broken" after one that raised, "undone" and
\* "undo_broken" likewise for a rollback, "refresh" before the enqueues of
\* _trigger_storage_refresh, "ack" when nothing is left but the acknowledgement.
WorkerPc == {"idle", "token", "step", "check", "capture", "apply", "settle", "broken",
             "undo", "undone", "undo_broken", "refresh", "ack"}
ClientPc == {"idle", "resume", "unset", "rollback", "publish"}

\* What a run has counted so far: "restored" when a trashed file came back.
Outcome == {"succeeded", "failed", "restored"}

ASSUME ConstantsAssumption ==
    /\ ForwardJobs \cap RollbackJobs = {}
    /\ NoJob \notin Job
    /\ NumSteps \in Nat
    /\ Trashing \subseteq Step
    /\ TokenFaults \in BOOLEAN /\ PublishFaults \in BOOLEAN
    /\ RefreshFaults \in BOOLEAN
    /\ MaxCrashes \in Nat /\ MaxDrifts \in Nat /\ MaxPauses \in Nat

VARIABLES
    jobStatus, cancelRequested, pauseRequested,   \* execution_jobs
    planStatus,                                   \* execution_plans
    stepStatus,                                   \* execution_steps
    record, preState,                             \* rollback_records
    results,        \* how many execution_results a job has for a step
    drive,          \* the files themselves, in Google Drive
    writes,         \* how often the engine made a step's change in Drive
    connected,      \* whether validate_execution_permissions finds no failure
    queue,          \* messages of each job the broker can deliver
    pc, jobOf, at, todo, tally, seen,             \* a worker inside run()
    client, clientJob,                            \* an API request
    crashes, drifts, pauses                       \* against the bounds

jobVars    == <<jobStatus, cancelRequested, pauseRequested>>
recordVars == <<record, preState>>
stepVars   == <<stepStatus, results>>
driveVars  == <<drive, writes>>
localVars  == <<at, todo, tally, seen>>
workerVars == <<pc, jobOf, localVars>>
clientVars == <<client, clientJob>>
boundVars  == <<crashes, drifts, pauses>>
vars == <<jobVars, planStatus, stepVars, recordVars, driveVars, connected, queue,
          workerVars, clientVars, boundVars>>

TypeOK ==
    /\ jobStatus \in [Job -> JobStatus]
    /\ cancelRequested \in [Job -> BOOLEAN] /\ pauseRequested \in [Job -> BOOLEAN]
    /\ planStatus \in PlanStatus
    /\ stepStatus \in [Step -> StepStatus]
    /\ record \in [Step -> {"none", "held", "rolled_back"}]
    /\ preState \in [Step -> Content]
    /\ results \in [Job -> [Step -> Nat]]
    /\ drive \in [Step -> Content]
    /\ writes \in [Step -> Nat]
    /\ connected \in BOOLEAN
    /\ queue \in [Job -> Nat]
    /\ pc \in [Workers -> WorkerPc]
    /\ jobOf \in [Workers -> Job \cup {NoJob}]
    /\ at \in [Workers -> 1 .. NumSteps + 1]
    /\ todo \in [Workers -> SUBSET Step]
    /\ tally \in [Workers -> SUBSET Outcome]
    /\ seen \in [Workers -> Content]
    /\ client \in [Clients -> ClientPc]
    /\ clientJob \in [Clients -> Job \cup {NoJob}]
    /\ crashes \in 0 .. MaxCrashes /\ drifts \in 0 .. MaxDrifts /\ pauses \in 0 .. MaxPauses

Init ==
    /\ jobStatus = [j \in Job |-> "none"]
    /\ cancelRequested = [j \in Job |-> FALSE]
    /\ pauseRequested = [j \in Job |-> FALSE]
    /\ planStatus = "pending_approval"
    /\ stepStatus = [s \in Step |-> "pending"]
    /\ record = [s \in Step |-> "none"]
    /\ preState = [s \in Step |-> "original"]
    /\ results = [j \in Job |-> [s \in Step |-> 0]]
    /\ drive = [s \in Step |-> "original"]
    /\ writes = [s \in Step |-> 0]
    /\ connected = TRUE
    /\ queue = [j \in Job |-> 0]
    /\ pc = [w \in Workers |-> "idle"]
    /\ jobOf = [w \in Workers |-> NoJob]
    /\ at = [w \in Workers |-> 1]
    /\ todo = [w \in Workers |-> {}]
    /\ tally = [w \in Workers |-> {}]
    /\ seen = [w \in Workers |-> "original"]
    /\ client = [c \in Clients |-> "idle"]
    /\ clientJob = [c \in Clients |-> NoJob]
    /\ crashes = 0 /\ drifts = 0 /\ pauses = 0

-----------------------------------------------------------------------------
(* The control API *)

\* An approve decision's transaction: the job row and the plan's status.
JobApproved(c, j) ==
    /\ client[c] = "idle"
    /\ j \in ForwardJobs /\ jobStatus[j] = "none"
    /\ jobStatus' = [jobStatus EXCEPT ![j] = "pending"]
    /\ planStatus' = "approved"
    /\ client' = [client EXCEPT ![c] = "publish"]
    /\ clientJob' = [clientJob EXCEPT ![c] = j]
    /\ UNCHANGED <<cancelRequested, pauseRequested, stepVars, recordVars, driveVars,
                   connected, queue, workerVars, boundVars>>

\* The message is sent after the commit, by a second call.
Publish(c) ==
    /\ client[c] = "publish"
    /\ queue' = [queue EXCEPT ![clientJob[c]] = @ + 1]
    /\ client' = [client EXCEPT ![c] = "idle"]
    /\ clientJob' = [clientJob EXCEPT ![c] = NoJob]
    /\ UNCHANGED <<jobVars, planStatus, stepVars, recordVars, driveVars, connected,
                   workerVars, boundVars>>

\* The process dies, or the broker refuses, between the commit and the send.
PublishLost(c) ==
    /\ PublishFaults
    /\ client[c] = "publish"
    /\ client' = [client EXCEPT ![c] = "idle"]
    /\ clientJob' = [clientJob EXCEPT ![c] = NoJob]
    /\ UNCHANGED <<jobVars, planStatus, stepVars, recordVars, driveVars, connected,
                   queue, workerVars, boundVars>>

Cancel(j) ==
    /\ jobStatus[j] \in Active
    /\ cancelRequested' = [cancelRequested EXCEPT ![j] = TRUE]
    /\ UNCHANGED <<jobStatus, pauseRequested, planStatus, stepVars, recordVars, driveVars,
                   connected, queue, workerVars, clientVars, boundVars>>

Pause(j) ==
    /\ jobStatus[j] = "running"
    /\ pauses < MaxPauses
    /\ pauses' = pauses + 1
    /\ pauseRequested' = [pauseRequested EXCEPT ![j] = TRUE]
    /\ UNCHANGED <<jobStatus, cancelRequested, planStatus, stepVars, recordVars, driveVars,
                   connected, queue, workerVars, clientVars, crashes, drifts>>

\* Mutant: an ended job can be resumed too.
Resumable_Ended(j) == jobStatus[j] \in {"paused", "failed", "cancelled"}
Resumable(j) == jobStatus[j] = "paused"

ResumeReads(c, j) ==
    /\ client[c] = "idle"
    /\ Resumable(j)
    /\ client' = [client EXCEPT ![c] = IF pauseRequested[j] THEN "unset" ELSE "resume"]
    /\ clientJob' = [clientJob EXCEPT ![c] = j]
    /\ UNCHANGED <<jobVars, planStatus, stepVars, recordVars, driveVars, connected,
                   queue, workerVars, boundVars>>

\* The status read earlier is not looked at again.
\* A session that read the flag unset does not write it.
ResumeCommits(c) ==
    /\ client[c] \in {"resume", "unset"}
    /\ jobStatus' = [jobStatus EXCEPT ![clientJob[c]] = "pending"]
    /\ pauseRequested' = [pauseRequested EXCEPT ![clientJob[c]] = @ /\ client[c] # "unset"]
    /\ client' = [client EXCEPT ![c] = "publish"]
    /\ UNCHANGED <<cancelRequested, planStatus, stepVars, recordVars, driveVars, connected,
                   queue, workerVars, clientJob, boundVars>>

HeldRecords == {s \in Step : record[s] = "held"}
SpareRollback == {j \in RollbackJobs : jobStatus[j] = "none"}

\* Mutant: a running job does not count as active.
HasActiveJob_Waiting == \E j \in Job : jobStatus[j] \in {"pending", "paused"}
HasActiveJob == \E j \in Job : jobStatus[j] \in Active

\* trigger_rollback's checks; the bound leaves a job for every request under way.
RollbackReads(c) ==
    /\ client[c] = "idle"
    /\ HeldRecords # {}
    /\ ~HasActiveJob
    /\ Cardinality({d \in Clients : client[d] = "rollback"}) < Cardinality(SpareRollback)
    /\ client' = [client EXCEPT ![c] = "rollback"]
    /\ UNCHANGED <<jobVars, planStatus, stepVars, recordVars, driveVars, connected,
                   queue, workerVars, clientJob, boundVars>>

RollbackCommits(c, j) ==
    /\ client[c] = "rollback"
    /\ j \in SpareRollback
    /\ jobStatus' = [jobStatus EXCEPT ![j] = "pending"]
    /\ client' = [client EXCEPT ![c] = "publish"]
    /\ clientJob' = [clientJob EXCEPT ![c] = j]
    /\ UNCHANGED <<cancelRequested, pauseRequested, planStatus, stepVars, recordVars,
                   driveVars, connected, queue, workerVars, boundVars>>

-----------------------------------------------------------------------------
(* A worker runs a job: run() *)

\* The worker's session and local variables go with the task.
Leaves(w) ==
    /\ pc' = [pc EXCEPT ![w] = "idle"]
    /\ jobOf' = [jobOf EXCEPT ![w] = NoJob]
    /\ at' = [at EXCEPT ![w] = 1]
    /\ todo' = [todo EXCEPT ![w] = {}]
    /\ tally' = [tally EXCEPT ![w] = {}]
    /\ seen' = [seen EXCEPT ![w] = "original"]

Receives(w, j) ==
    /\ pc[w] = "idle"
    /\ queue[j] > 0
    /\ queue' = [queue EXCEPT ![j] = @ - 1]
    /\ jobOf' = [jobOf EXCEPT ![w] = j]

\* The permission check fails: the job ends, the plan keeps its status.
RunDenied(w, j) ==
    /\ Receives(w, j)
    /\ ~connected
    /\ jobStatus' = [jobStatus EXCEPT ![j] = "failed"]
    /\ pc' = [pc EXCEPT ![w] = "ack"]
    /\ UNCHANGED <<cancelRequested, pauseRequested, planStatus, stepVars, recordVars,
                   driveVars, connected, localVars, clientVars, boundVars>>

\* Neither the job's status nor the plan's is looked at.
RunStarts(w, j) ==
    /\ Receives(w, j)
    /\ connected
    /\ jobStatus' = [jobStatus EXCEPT ![j] = "running"]
    /\ planStatus' = IF j \in ForwardJobs THEN "executing" ELSE planStatus
    /\ pc' = [pc EXCEPT ![w] = "token"]
    /\ UNCHANGED <<cancelRequested, pauseRequested, stepVars, recordVars, driveVars,
                   connected, localVars, clientVars, boundVars>>

\* The token is there; the loop's list of steps, or of rollback records, is read.
LoopStarts(w) ==
    /\ pc[w] = "token"
    /\ pc' = [pc EXCEPT ![w] = IF jobOf[w] \in ForwardJobs THEN "step" ELSE "undo"]
    /\ at' = [at EXCEPT ![w] = 1]
    /\ todo' = [todo EXCEPT ![w] = IF jobOf[w] \in ForwardJobs THEN {} ELSE HeldRecords]
    /\ tally' = [tally EXCEPT ![w] = {}]
    /\ UNCHANGED <<jobVars, planStatus, stepVars, recordVars, driveVars, connected, queue,
                   jobOf, seen, clientVars, boundVars>>

\* get_valid_access_token raises outside the try: the task ends, and its
\* message is acknowledged.
TokenFails(w) ==
    /\ TokenFaults
    /\ pc[w] = "token"
    /\ Leaves(w)
    /\ UNCHANGED <<jobVars, planStatus, stepVars, recordVars, driveVars, connected, queue,
                   clientVars, boundVars>>

\* Mutant: the loop does not skip the steps decided by an earlier run.
AtStep_Any(w) == pc[w] = "step" /\ at[w] <= NumSteps

\* The loop is about to process an item: the flags are read here.
AtStep(w)  == pc[w] = "step" /\ at[w] <= NumSteps /\ stepStatus[at[w]] = "pending"
AtUndo(w)  == pc[w] = "undo" /\ todo[w] # {}
Proceeds(w) == ~cancelRequested[jobOf[w]] /\ ~pauseRequested[jobOf[w]]

ObservesCancel(w) ==
    /\ AtStep(w) \/ AtUndo(w)
    /\ cancelRequested[jobOf[w]]
    /\ jobStatus' = [jobStatus EXCEPT ![jobOf[w]] = "cancelled"]
    /\ pc' = [pc EXCEPT ![w] = "ack"]
    /\ UNCHANGED <<cancelRequested, pauseRequested, planStatus, stepVars, recordVars,
                   driveVars, connected, queue, jobOf, localVars, clientVars, boundVars>>

\* The flag stays set if the session has loaded the job before it was: to the
\* session it is unset already, and no update is sent.
ObservesPause(w) ==
    /\ AtStep(w) \/ AtUndo(w)
    /\ ~cancelRequested[jobOf[w]] /\ pauseRequested[jobOf[w]]
    /\ jobStatus' = [jobStatus EXCEPT ![jobOf[w]] = "paused"]
    /\ \E left \in BOOLEAN : pauseRequested' = [pauseRequested EXCEPT ![jobOf[w]] = left]
    /\ pc' = [pc EXCEPT ![w] = "ack"]
    /\ UNCHANGED <<cancelRequested, planStatus, stepVars, recordVars, driveVars, connected,
                   queue, jobOf, localVars, clientVars, boundVars>>

\* An exception outside a step's own try, the task's soft time limit included:
\* whatever the step had not committed is rolled back.
RunAborts(w) ==
    /\ pc[w] \in {"step", "settle", "broken", "undo", "undone", "undo_broken"}
    /\ jobStatus' = [jobStatus EXCEPT ![jobOf[w]] = "failed"]
    /\ pc' = [pc EXCEPT ![w] = "ack"]
    /\ UNCHANGED <<cancelRequested, pauseRequested, planStatus, stepVars, recordVars,
                   driveVars, connected, queue, jobOf, localVars, clientVars, boundVars>>

-----------------------------------------------------------------------------
(* Forward execution: _run_forward, _execute_forward_step *)

SkipsDecided(w) ==
    /\ pc[w] = "step" /\ at[w] <= NumSteps
    /\ stepStatus[at[w]] # "pending"
    /\ tally' = [tally EXCEPT ![w] = @ \cup
                    (CASE stepStatus[at[w]] = "completed" -> {"succeeded"}
                       [] stepStatus[at[w]] = "failed" -> {"failed"}
                       [] OTHER -> {})]
    /\ at' = [at EXCEPT ![w] = @ + 1]
    /\ UNCHANGED <<jobVars, planStatus, stepVars, recordVars, driveVars, connected, queue,
                   pc, jobOf, todo, seen, clientVars, boundVars>>

TakesStep(w) ==
    /\ AtStep(w) /\ Proceeds(w)
    /\ pc' = [pc EXCEPT ![w] = "check"]
    /\ UNCHANGED <<jobVars, planStatus, stepVars, recordVars, driveVars, connected, queue,
                   jobOf, localVars, clientVars, boundVars>>

\* The live read; a file already in the trash is a conflict for a trashing step.
ReadsFile(w) ==
    /\ pc[w] = "check"
    /\ ~(at[w] \in Trashing /\ drive[at[w]] = "planned")
    /\ seen' = [seen EXCEPT ![w] = drive[at[w]]]
    /\ pc' = [pc EXCEPT ![w] = "capture"]
    /\ UNCHANGED <<jobVars, planStatus, stepVars, recordVars, driveVars, connected, queue,
                   jobOf, at, todo, tally, clientVars, boundVars>>

\* Mutant: the record of an earlier run is overwritten (an upsert).
NoRecordYet_Upsert(s) == TRUE
NoRecordYet(s) == record[s] = "none"

\* The rollback record is inserted and committed before the change; a step
\* that already has one violates the unique index and fails.
SavesRecord(w) ==
    /\ pc[w] = "capture"
    /\ NoRecordYet(at[w])
    /\ record' = [record EXCEPT ![at[w]] = "held"]
    /\ preState' = [preState EXCEPT ![at[w]] =
                        IF at[w] \in Trashing THEN "original" ELSE seen[w]]
    /\ pc' = [pc EXCEPT ![w] = "apply"]
    /\ UNCHANGED <<jobVars, planStatus, stepVars, driveVars, connected, queue,
                   jobOf, localVars, clientVars, boundVars>>

\* The change is made in Drive, and the call returns or raises afterwards.
Writes(w) ==
    /\ pc[w] = "apply"
    /\ drive' = [drive EXCEPT ![at[w]] = "planned"]
    /\ writes' = [writes EXCEPT ![at[w]] = @ + 1]
    /\ \E outcome \in {"settle", "broken"} : pc' = [pc EXCEPT ![w] = outcome]
    /\ UNCHANGED <<jobVars, planStatus, stepVars, recordVars, connected, queue,
                   jobOf, localVars, clientVars, boundVars>>

Decides(w, status, outcome) ==
    /\ stepStatus' = [stepStatus EXCEPT ![at[w]] = status]
    /\ results' = [results EXCEPT ![jobOf[w]][at[w]] = @ + 1]
    /\ tally' = [tally EXCEPT ![w] = @ \cup {outcome}]
    /\ at' = [at EXCEPT ![w] = @ + 1]
    /\ pc' = [pc EXCEPT ![w] = "step"]
    /\ UNCHANGED <<jobVars, planStatus, recordVars, driveVars, connected, queue,
                   jobOf, todo, seen, clientVars, boundVars>>

StepCompletes(w) == pc[w] = "settle" /\ Decides(w, "completed", "succeeded")

\* The step's try raises: a missing file, a conflict, the unique index, a
\* Drive error, before or after the change was made.
StepFails(w) ==
    /\ pc[w] \in {"check", "capture", "apply", "broken"}
    /\ Decides(w, "failed", "failed")

ForwardVerdict(t) ==
    CASE "failed" \notin t -> "completed"
      [] "failed" \in t /\ "succeeded" \notin t -> "failed"
      [] OTHER -> "partially_completed"

\* Mutant: the loop ends before the last step.
PastLastStep_Early(w) == pc[w] = "step" /\ at[w] >= NumSteps
PastLastStep(w) == pc[w] = "step" /\ at[w] > NumSteps

FinishesForward(w) ==
    /\ PastLastStep(w)
    /\ jobStatus' = [jobStatus EXCEPT ![jobOf[w]] = ForwardVerdict(tally[w])]
    /\ planStatus' = ForwardVerdict(tally[w])
    /\ pc' = [pc EXCEPT ![w] = IF \E s \in Trashing : stepStatus[s] = "completed"
                                   THEN "refresh" ELSE "ack"]
    /\ UNCHANGED <<cancelRequested, pauseRequested, stepVars, recordVars, driveVars,
                   connected, queue, jobOf, localVars, clientVars, boundVars>>

-----------------------------------------------------------------------------
(* Rollback: _run_rollback, _rollback_one *)

\* The file is put back; the call returns, or raises afterwards.
Restores(w, s) ==
    /\ AtUndo(w) /\ Proceeds(w)
    /\ s \in todo[w]
    /\ drive' = [drive EXCEPT ![s] = preState[s]]
    /\ \E outcome \in {"undone", "undo_broken"} : pc' = [pc EXCEPT ![w] = outcome]
    /\ at' = [at EXCEPT ![w] = s]
    /\ todo' = [todo EXCEPT ![w] = @ \ {s}]
    /\ UNCHANGED <<jobVars, planStatus, stepVars, recordVars, writes, connected, queue,
                   jobOf, tally, seen, clientVars, boundVars>>

\* Drive refuses, or the file is gone from the inventory.
RestoreRefused(w, s) ==
    /\ AtUndo(w) /\ Proceeds(w)
    /\ s \in todo[w]
    /\ pc' = [pc EXCEPT ![w] = "undo_broken"]
    /\ at' = [at EXCEPT ![w] = s]
    /\ todo' = [todo EXCEPT ![w] = @ \ {s}]
    /\ UNCHANGED <<jobVars, planStatus, stepVars, recordVars, driveVars, connected, queue,
                   jobOf, tally, seen, clientVars, boundVars>>

UndoCommits(w) ==
    /\ pc[w] = "undone"
    /\ record' = [record EXCEPT ![at[w]] = "rolled_back"]
    /\ stepStatus' = [stepStatus EXCEPT ![at[w]] = "rolled_back"]
    /\ results' = [results EXCEPT ![jobOf[w]][at[w]] = @ + 1]
    /\ tally' = [tally EXCEPT ![w] = @ \cup
                    (IF at[w] \in Trashing THEN {"succeeded", "restored"} ELSE {"succeeded"})]
    /\ pc' = [pc EXCEPT ![w] = "undo"]
    /\ UNCHANGED <<jobVars, planStatus, preState, driveVars, connected, queue,
                   jobOf, at, todo, seen, clientVars, boundVars>>

UndoFails(w) ==
    /\ pc[w] = "undo_broken"
    /\ results' = [results EXCEPT ![jobOf[w]][at[w]] = @ + 1]
    /\ tally' = [tally EXCEPT ![w] = @ \cup {"failed"}]
    /\ pc' = [pc EXCEPT ![w] = "undo"]
    /\ UNCHANGED <<jobVars, planStatus, stepStatus, recordVars, driveVars, connected, queue,
                   jobOf, at, todo, seen, clientVars, boundVars>>

\* Mutant: one restored file makes the plan rolled back.
FullyRolledBack_Any(t) == "succeeded" \in t
FullyRolledBack(t) == "succeeded" \in t /\ "failed" \notin t

\* Mutant: the job is given the plan's status.
RollbackVerdict_Plan(t) ==
    CASE FullyRolledBack(t) -> "rolled_back"
      [] "succeeded" \notin t -> "failed"
      [] OTHER -> "partially_completed"

RollbackVerdict(t) ==
    CASE FullyRolledBack(t) -> "completed"
      [] "succeeded" \notin t -> "failed"
      [] OTHER -> "partially_completed"

FinishesRollback(w) ==
    /\ pc[w] = "undo" /\ todo[w] = {}
    /\ jobStatus' = [jobStatus EXCEPT ![jobOf[w]] = RollbackVerdict(tally[w])]
    /\ planStatus' = IF FullyRolledBack(tally[w]) THEN "rolled_back" ELSE planStatus
    /\ pc' = [pc EXCEPT ![w] = IF "restored" \in tally[w] THEN "refresh" ELSE "ack"]
    /\ UNCHANGED <<cancelRequested, pauseRequested, stepVars, recordVars, driveVars,
                   connected, queue, jobOf, localVars, clientVars, boundVars>>

-----------------------------------------------------------------------------
(* Delivery, failure and the outside world *)

\* The storage analysis and the recommendations are enqueued again.
Refreshes(w) ==
    /\ pc[w] = "refresh"
    /\ pc' = [pc EXCEPT ![w] = "ack"]
    /\ UNCHANGED <<jobVars, planStatus, stepVars, recordVars, driveVars, connected, queue,
                   jobOf, localVars, clientVars, boundVars>>

\* An enqueue raises, inside run()'s try: the job that had ended is marked failed.
RefreshFails(w) ==
    /\ RefreshFaults
    /\ pc[w] = "refresh"
    /\ jobStatus' = [jobStatus EXCEPT ![jobOf[w]] = "failed"]
    /\ pc' = [pc EXCEPT ![w] = "ack"]
    /\ UNCHANGED <<cancelRequested, pauseRequested, planStatus, stepVars, recordVars,
                   driveVars, connected, queue, jobOf, localVars, clientVars, boundVars>>

\* task_acks_late: the message is acknowledged when the task has returned.
Acks(w) ==
    /\ pc[w] = "ack"
    /\ Leaves(w)
    /\ UNCHANGED <<jobVars, planStatus, stepVars, recordVars, driveVars, connected, queue,
                   clientVars, boundVars>>

\* Mutant: the message was acknowledged when the task started.
AfterCrash_AckedEarly(j) == queue
AfterCrash(j) == [queue EXCEPT ![j] = @ + 1]

\* task_reject_on_worker_lost: the message goes back to the broker.
Crashes(w) ==
    /\ pc[w] # "idle"
    /\ crashes < MaxCrashes
    /\ crashes' = crashes + 1
    /\ queue' = AfterCrash(jobOf[w])
    /\ Leaves(w)
    /\ UNCHANGED <<jobVars, planStatus, stepVars, recordVars, driveVars, connected,
                   clientVars, drifts, pauses>>

\* A user trashes or restores a file in Drive, or gives it a name or a parent
\* of their own choice, outside the platform.
Drifts(s) ==
    /\ drifts < MaxDrifts
    /\ drifts' = drifts + 1
    /\ \E other \in (IF s \in Trashing THEN {"original", "planned"}
                                       ELSE {"original", "drifted"}) \ {drive[s]} :
           drive' = [drive EXCEPT ![s] = other]
    /\ UNCHANGED <<jobVars, planStatus, stepVars, recordVars, writes, connected, queue,
                   workerVars, clientVars, crashes, pauses>>

\* The connector is disconnected, loses its write scope, or is reconnected.
ConnectorChanges ==
    /\ connected' = ~connected
    /\ UNCHANGED <<jobVars, planStatus, stepVars, recordVars, driveVars, queue,
                   workerVars, clientVars, boundVars>>

-----------------------------------------------------------------------------
ClientStep(c) ==
    \/ Publish(c) \/ PublishLost(c) \/ ResumeCommits(c) \/ RollbackReads(c)
    \/ \E j \in Job : JobApproved(c, j) \/ ResumeReads(c, j) \/ RollbackCommits(c, j)

\* What a live worker does, and what its scheduling guarantees.
WorkerStep(w) ==
    \/ \E j \in Job : RunDenied(w, j) \/ RunStarts(w, j)
    \/ LoopStarts(w) \/ TokenFails(w)
    \/ ObservesCancel(w) \/ ObservesPause(w) \/ RunAborts(w)
    \/ SkipsDecided(w) \/ TakesStep(w) \/ ReadsFile(w) \/ SavesRecord(w) \/ Writes(w)
    \/ StepCompletes(w) \/ StepFails(w) \/ FinishesForward(w)
    \/ \E s \in Step : Restores(w, s) \/ RestoreRefused(w, s)
    \/ UndoCommits(w) \/ UndoFails(w) \/ FinishesRollback(w)
    \/ Refreshes(w) \/ RefreshFails(w) \/ Acks(w)

Next ==
    \/ \E c \in Clients : ClientStep(c)
    \/ \E j \in Job : Cancel(j) \/ Pause(j)
    \/ \E w \in Workers : WorkerStep(w) \/ Crashes(w)
    \/ \E s \in Step : Drifts(s)
    \/ ConnectorChanges

Spec == Init /\ [][Next]_vars

\* A worker that is up keeps working, and a request that has committed goes on
\* to its enqueue call: nothing else is promised by the code.
FairSpec ==
    /\ Spec
    /\ \A w \in Workers : WF_vars(WorkerStep(w))
    /\ \A c \in Clients : WF_vars(Publish(c)) /\ WF_vars(ResumeCommits(c))
-----------------------------------------------------------------------------
(* What the engine promises *)

(***************************************************************************)
(* A file the engine has changed always has a committed rollback record,    *)
(* and what the record holds is never the changed state itself: "a failure  *)
(* after a successful Drive write can never leave a mutation with no way    *)
(* back" (execution_service.py:296-298), whatever crashes, is delivered     *)
(* twice or runs at the same time.                                         *)
(***************************************************************************)
WayBack == \A s \in Step : writes[s] > 0 => record[s] # "none" /\ preState[s] # "planned"

(***************************************************************************)
(* No step's change is ever made in Drive twice, however often its job's     *)
(* message is delivered and however many jobs an approval produced: the      *)
(* unique index on rollback_records.execution_step_id is what stops it.     *)
(***************************************************************************)
AtMostOneWrite == \A s \in Step : writes[s] <= 1

(***************************************************************************)
(* Why the two hold: the write of a step is guarded by its record, only the   *)
(* run that inserted the record makes the write, and a record is inserted    *)
(* once.  A live read that sees the planned change therefore finds a record  *)
(* in its way.  This is the inductive invariant of the proofs.              *)
(***************************************************************************)
WriteDiscipline ==
    /\ \A s \in Step : /\ writes[s] <= 1
                       /\ record[s] = "none" => writes[s] = 0
                       /\ preState[s] # "planned"
                       /\ s \notin Trashing /\ drive[s] = "planned" => record[s] # "none"
    /\ \A w \in Workers :
          /\ pc[w] = "apply" => record[at[w]] # "none" /\ writes[at[w]] = 0
          /\ pc[w] = "capture" /\ at[w] \notin Trashing /\ seen[w] = "planned" =>
                 record[at[w]] # "none"
    /\ \A v, w \in Workers :
          pc[v] = "apply" /\ pc[w] = "apply" /\ at[v] = at[w] => v = w

(***************************************************************************)
(* A job that is waiting or running is always somebody's business: it has a  *)
(* message in the broker, a worker inside run(), or a request about to       *)
(* enqueue it.  It is celery_app.py:42-43's "no lost job state", and holds   *)
(* only where PublishFaults and TokenFaults are excluded.                   *)
(***************************************************************************)
Running(j) == \E w \in Workers : jobOf[w] = j /\ pc[w] \notin {"refresh", "ack"}
Publishing(j) == \E c \in Clients : client[c] = "publish" /\ clientJob[c] = j
NoJobLost ==
    \A j \in Job : jobStatus[j] \in {"pending", "running"} =>
        queue[j] > 0 \/ Running(j) \/ Publishing(j)

(***************************************************************************)
(* A forward job that completed, or completed in part, has decided every     *)
(* step: none is left pending behind a job that says it is done.            *)
(***************************************************************************)
CompletedMeansDecided ==
    \A j \in ForwardJobs : jobStatus[j] \in {"completed", "partially_completed"} =>
        \A s \in Step : stepStatus[s] # "pending"

(***************************************************************************)
(* A forward job records at most one execution_result per step              *)
(* (execution_result.py:31-34), over pauses and resumptions.  A message that *)
(* is delivered again while its job still runs is excluded (MaxCrashes = 0). *)
(***************************************************************************)
OneForwardResult == \A j \in ForwardJobs, s \in Step : results[j][s] <= 1

(***************************************************************************)
(* A step reported as rolled back leaves its file as it was before the plan, *)
(* when nobody else touches the file: no write of the engine comes after     *)
(* the rollback.                                                            *)
(***************************************************************************)
RolledBackIsRestored ==
    drifts = 0 => \A s \in Step : stepStatus[s] = "rolled_back" => drive[s] = "original"

(***************************************************************************)
(* The plan's verdict agrees with its steps: rolled back means that nothing  *)
(* stays completed and no record is left to use, completed that every step   *)
(* is.                                                                      *)
(***************************************************************************)
PlanVerdictTrue ==
    /\ planStatus = "rolled_back" =>
           HeldRecords = {} /\ \A s \in Step : stepStatus[s] # "completed"
    /\ planStatus = "completed" /\ ~HasActiveJob =>
           \A s \in Step : stepStatus[s] \in {"completed", "rolled_back"}

(***************************************************************************)
(* A job that has ended does not start again.                               *)
(***************************************************************************)
TerminalIsFinal ==
    [][\A j \in Job : jobStatus[j] \in Terminal => jobStatus'[j] = jobStatus[j]]_vars

(***************************************************************************)
(* A decided step changes only by being rolled back: a completed one is      *)
(* never overwritten with a failure, nor a rolled-back one with anything.    *)
(***************************************************************************)
DecidedIsFinal ==
    [][\A s \in Step : stepStatus[s] # "pending" /\ stepStatus'[s] # stepStatus[s] =>
           stepStatus[s] # "rolled_back" /\ stepStatus'[s] = "rolled_back"]_vars

(***************************************************************************)
(* A rollback changes only what the engine had changed.  ADR-020 calls the   *)
(* record of a change that never happened "harmless".                       *)
(***************************************************************************)
RestoresOnlyOwnWrites ==
    [][\A w \in Workers, s \in Step : Restores(w, s) /\ drive'[s] # drive[s] =>
           writes[s] > 0]_vars

(***************************************************************************)
(* Every job that is waiting or running ends or is paused: with workers that *)
(* keep working and a bounded number of crashes nothing is stuck.           *)
(***************************************************************************)
Settles(j) == jobStatus[j] \in {"pending", "running"} ~> jobStatus[j] \in Terminal \cup {"paused"}
JobsSettle == \A j \in Job : Settles(j)

(***************************************************************************)
(* The engine implements WriteAheadRecord: read through this mapping, each    *)
(* of its steps records, makes or undoes one change in the order the         *)
(* abstract specification allows, or is none of its business.               *)
(***************************************************************************)
Ledger == INSTANCE WriteAheadRecord WITH
    recorded <- {s \in Step : record[s] # "none"},
    changed  <- {s \in Step : writes[s] > 0},
    undone   <- {s \in Step : record[s] = "rolled_back"}

WritesAhead == Ledger!Spec
=============================================================================
