------------------------------ MODULE Scheduler ------------------------------
(***************************************************************************)
(* The Trigger Engine: the scheduled triggers and their scheduler_jobs rows,  *)
(* the sweeps that claim due rows, fire them and reschedule them, the calls    *)
(* that start a workflow by hand or on an event, and the executions they start.*)
(*                                                                         *)
(* A sweep claims with one UPDATE ... RETURNING that it does not commit: the   *)
(* rows stay locked, and due for everybody else, until its next commit, which  *)
(* is the first fired execution or the first rescheduling, whichever is sooner.*)
(***************************************************************************)
EXTENDS Integers

CONSTANTS
    Sweeps,         \* worker processes that run worker.scheduler.sweep
    Callers,        \* processes in trigger_manual or fire_workflow_event
    Triggers,       \* SCHEDULED triggers
    NoTrigger,      \* "no trigger"
    Workflows,
    WorkflowOf,     \* a trigger's workflow
    FireFaults,     \* whether _fire may raise before it commits
    PublishFaults,  \* whether a send to the broker may fail
    MaxToggles,     \* bound on set_enabled and set_status calls
    MaxCrashes      \* bound on worker crashes

ASSUME SchedulerAssumption ==
    /\ NoTrigger \notin Triggers
    /\ WorkflowOf \in [Triggers -> Workflows]
    /\ FireFaults \in BOOLEAN /\ PublishFaults \in BOOLEAN
    /\ MaxToggles \in Nat /\ MaxCrashes \in Nat

VARIABLES
    nextRun,    \* committed next_run_at: not created, NULL, ahead, or passed
    enabled,    \* workflow_triggers.enabled
    active,     \* workflows.status = ACTIVE
    published,  \* whether get_published finds a version
    unsent,     \* active executions of a workflow that no message is about
    running,    \* active executions of a workflow that were enqueued
    sweep,      \* what each sweep is doing
    caller,     \* what each caller is doing
    fires,      \* executions started for a trigger since it last came due
    toggles, crashes    \* against the bounds

tableVars == <<nextRun, enabled, active, published>>
execVars  == <<unsent, running>>
boundVars == <<toggles, crashes>>
vars == <<tableVars, execVars, sweep, caller, fires, boundVars>>

NextRun == {"absent", "null", "future", "due"}

\* "todo" is what is left of the claimed list, "holds" the rows of it whose
\* claim is not committed, "at" the trigger in hand.
Sweep == [pc : {"idle", "pick", "create", "send", "resched"}, todo : SUBSET Triggers,
          holds : SUBSET Triggers, at : Triggers \cup {NoTrigger}]
InSweep(p, todo, holds, t) == [pc |-> p, todo |-> todo, holds |-> holds, at |-> t]
Idle == InSweep("idle", {}, {}, NoTrigger)

Caller == [pc : {"create", "send"}, workflow : Workflows] \cup {[pc |-> "idle"]}

TypeOK ==
    /\ nextRun \in [Triggers -> NextRun] /\ enabled \in [Triggers -> BOOLEAN]
    /\ active \in [Workflows -> BOOLEAN] /\ published \in [Workflows -> BOOLEAN]
    /\ unsent \in [Workflows -> Int] /\ running \in [Workflows -> Nat]
    /\ sweep \in [Sweeps -> Sweep] /\ caller \in [Callers -> Caller]
    /\ fires \in [Triggers -> Nat]
    /\ toggles \in 0 .. MaxToggles /\ crashes \in 0 .. MaxCrashes

Init ==
    /\ nextRun = [t \in Triggers |-> "absent"] /\ enabled = [t \in Triggers |-> FALSE]
    /\ active = [w \in Workflows |-> TRUE] /\ published = [w \in Workflows |-> FALSE]
    /\ unsent = [w \in Workflows |-> 0] /\ running = [w \in Workflows |-> 0]
    /\ sweep = [s \in Sweeps |-> Idle] /\ caller = [c \in Callers |-> [pc |-> "idle"]]
    /\ fires = [t \in Triggers |-> 0]
    /\ toggles = 0 /\ crashes = 0

-----------------------------------------------------------------------------
(* The API, and the passing of time *)

CreatesTrigger(t) ==
    /\ nextRun[t] = "absent"
    /\ nextRun' = [nextRun EXCEPT ![t] = "future"]
    /\ enabled' = [enabled EXCEPT ![t] = TRUE]
    /\ UNCHANGED <<active, published, execVars, sweep, caller, fires, boundVars>>

\* Only the flag: the scheduler_jobs row is not touched.
SetsEnabled(t) ==
    /\ nextRun[t] # "absent"
    /\ toggles < MaxToggles
    /\ toggles' = toggles + 1
    /\ enabled' = [enabled EXCEPT ![t] = ~ @]
    /\ UNCHANGED <<nextRun, active, published, execVars, sweep, caller, fires, crashes>>

SetsStatus(w) ==
    /\ toggles < MaxToggles
    /\ toggles' = toggles + 1
    /\ active' = [active EXCEPT ![w] = ~ @]
    /\ UNCHANGED <<nextRun, enabled, published, execVars, sweep, caller, fires, crashes>>

\* A published version is only ever replaced by another.
Publishes(w) ==
    /\ ~ published[w]
    /\ published' = [published EXCEPT ![w] = TRUE]
    /\ UNCHANGED <<nextRun, enabled, active, execVars, sweep, caller, fires, boundVars>>

\* The occurrence that next_run_at names has come.
ComesDue(t) ==
    /\ nextRun[t] = "future"
    /\ nextRun' = [nextRun EXCEPT ![t] = "due"]
    /\ fires' = [fires EXCEPT ![t] = 0]
    /\ UNCHANGED <<enabled, active, published, execVars, sweep, caller, boundVars>>

\* An enqueued execution completes, fails or is cancelled.
Ends(w) ==
    /\ running[w] > 0
    /\ running' = [running EXCEPT ![w] = @ - 1]
    /\ UNCHANGED <<tableVars, unsent, sweep, caller, fires, boundVars>>

-----------------------------------------------------------------------------
(* SchedulerService.run_due *)

HasActiveExecution(w) == unsent[w] + running[w] > 0

\* What _fire, trigger_manual and fire_workflow_event ask of the workflow.
CanStart(w) == active[w] /\ published[w] /\ ~ HasActiveExecution(w)

HeldByOther_Never(s, t) == FALSE
HeldByOther(s, t) == \E o \in Sweeps \ {s} : t \in sweep[o].holds

\* A row that another transaction has locked makes the UPDATE wait.
Claims(s) ==
    LET due == {t \in Triggers : nextRun[t] = "due"}
    IN  /\ sweep[s].pc = "idle"
        /\ due # {}
        /\ \A t \in due : ~ HeldByOther(s, t)
        /\ sweep' = [sweep EXCEPT ![s] = InSweep("pick", due, due, NoTrigger)]
        /\ UNCHANGED <<tableVars, execVars, caller, fires, boundVars>>

\* The four reads of _fire.
LooksAt(s, t) ==
    /\ sweep[s].pc = "pick"
    /\ t \in sweep[s].todo
    /\ sweep' = [sweep EXCEPT ![s] = InSweep(
           IF enabled[t] /\ CanStart(WorkflowOf[t]) THEN "create" ELSE "resched",
           @.todo, @.holds, t)]
    /\ UNCHANGED <<tableVars, execVars, caller, fires, boundVars>>

\* What a commit of s makes of next_run_at.
AfterCommit(s) == [t \in Triggers |-> IF t \in sweep[s].holds THEN "null" ELSE nextRun[t]]

\* The execution, its audit and record_run, in one commit.
StartsExecution(s) ==
    LET t == sweep[s].at
    IN  /\ sweep[s].pc = "create"
        /\ ~ HeldByOther(s, t)
        /\ nextRun' = AfterCommit(s)
        /\ unsent' = [unsent EXCEPT ![WorkflowOf[t]] = @ + 1]
        /\ fires' = [fires EXCEPT ![t] = @ + 1]
        /\ sweep' = [sweep EXCEPT ![s] = InSweep("send", @.todo, {}, t)]
        /\ UNCHANGED <<enabled, active, published, running, caller, boundVars>>

SendsExecution(s) ==
    LET w == WorkflowOf[sweep[s].at]
    IN  /\ sweep[s].pc = "send"
        /\ unsent' = [unsent EXCEPT ![w] = @ - 1]
        /\ running' = [running EXCEPT ![w] = @ + 1]
        /\ sweep' = [sweep EXCEPT ![s].pc = "resched"]
        /\ UNCHANGED <<tableVars, caller, fires, boundVars>>

FireRaises_Aborts(s) ==
    /\ FireFaults /\ sweep[s].pc = "create"
    /\ nextRun' = AfterCommit(s)
    /\ sweep' = [sweep EXCEPT ![s] = Idle]
    /\ UNCHANGED <<enabled, active, published, execVars, caller, fires, boundVars>>

\* run_due logs the exception and rolls back; every claim that is not committed
\* goes with it, though the list of claimed rows is worked off all the same.
FireRaises(s) ==
    /\ FireFaults /\ sweep[s].pc = "create"
    /\ sweep' = [sweep EXCEPT ![s] = InSweep("resched", @.todo, {}, @.at)]
    /\ UNCHANGED <<tableVars, execVars, caller, fires, boundVars>>

SendRaises(s) ==
    /\ PublishFaults /\ sweep[s].pc = "send"
    /\ sweep' = [sweep EXCEPT ![s].pc = "resched"]
    /\ UNCHANGED <<tableVars, execVars, caller, fires, boundVars>>

\* A trigger that is disabled by now is left as the commit finds it.
Reschedules(s) ==
    LET t == sweep[s].at
        left == sweep[s].todo \ {t}
    IN  /\ sweep[s].pc = "resched"
        /\ ~ HeldByOther(s, t)
        /\ nextRun' = IF enabled[t] THEN [AfterCommit(s) EXCEPT ![t] = "future"]
                                    ELSE AfterCommit(s)
        /\ sweep' = [sweep EXCEPT ![s] = IF left = {} THEN Idle
                         ELSE InSweep("pick", left, {}, NoTrigger)]
        /\ UNCHANGED <<enabled, active, published, execVars, caller, fires, boundVars>>

\* What was not committed is undone; the redelivered sweep starts over.
SweepCrashes(s) ==
    /\ sweep[s].pc # "idle"
    /\ crashes < MaxCrashes
    /\ crashes' = crashes + 1
    /\ sweep' = [sweep EXCEPT ![s] = Idle]
    /\ UNCHANGED <<tableVars, execVars, caller, fires, toggles>>

-----------------------------------------------------------------------------
(* trigger_manual, and one matching trigger of fire_workflow_event *)

CallerLooks(c, w) ==
    /\ caller[c].pc = "idle"
    /\ CanStart(w)
    /\ caller' = [caller EXCEPT ![c] = [pc |-> "create", workflow |-> w]]
    /\ UNCHANGED <<tableVars, execVars, sweep, fires, boundVars>>

CallerStarts(c) ==
    /\ caller[c].pc = "create"
    /\ unsent' = [unsent EXCEPT ![caller[c].workflow] = @ + 1]
    /\ caller' = [caller EXCEPT ![c].pc = "send"]
    /\ UNCHANGED <<tableVars, running, sweep, fires, boundVars>>

CallerSends(c) ==
    LET w == caller[c].workflow
    IN  /\ caller[c].pc = "send"
        /\ unsent' = [unsent EXCEPT ![w] = @ - 1]
        /\ running' = [running EXCEPT ![w] = @ + 1]
        /\ caller' = [caller EXCEPT ![c] = [pc |-> "idle"]]
        /\ UNCHANGED <<tableVars, sweep, fires, boundVars>>

CallerFails(c) ==
    /\ PublishFaults /\ caller[c].pc = "send"
    /\ caller' = [caller EXCEPT ![c] = [pc |-> "idle"]]
    /\ UNCHANGED <<tableVars, execVars, sweep, fires, boundVars>>

-----------------------------------------------------------------------------

SweepStep(s) ==
    \/ \E t \in Triggers : LooksAt(s, t)
    \/ StartsExecution(s) \/ SendsExecution(s) \/ FireRaises(s) \/ SendRaises(s)
    \/ Reschedules(s)

CallerStep(c) == CallerStarts(c) \/ CallerSends(c) \/ CallerFails(c)

Next ==
    \/ \E t \in Triggers : CreatesTrigger(t) \/ SetsEnabled(t) \/ ComesDue(t)
    \/ \E w \in Workflows : SetsStatus(w) \/ Publishes(w) \/ Ends(w)
    \/ \E s \in Sweeps : Claims(s) \/ SweepStep(s) \/ SweepCrashes(s)
    \/ \E c \in Callers : CallerStep(c) \/ \E w \in Workflows : CallerLooks(c, w)

Spec == Init /\ [][Next]_vars

\* Beat sends a sweep every minute, processes that are up go on, time passes; a
\* row lock that several sweeps want is handed on in the order they asked for it.
FairSpec ==
    /\ Spec
    /\ \A s \in Sweeps : WF_vars(Claims(s)) /\ SF_vars(SweepStep(s))
    /\ \A c \in Callers : WF_vars(CallerStep(c))
    /\ \A t \in Triggers : WF_vars(ComesDue(t))
    /\ \A w \in Workflows : WF_vars(Ends(w))

-----------------------------------------------------------------------------
(* Properties *)

\* An occurrence of a trigger starts at most one execution, however many sweeps
\* run: claim_due is the guard against "trigger duplication".
FiresOnce == \A t \in Triggers : fires[t] <= 1

\* A claimed row does not stay without a next_run_at while its trigger is
\* enabled: every way out of _fire leads through _reschedule.
KeepsComing ==
    \A t \in Triggers : nextRun[t] = "null" ~> (nextRun[t] # "null" \/ ~ enabled[t])

\* No workflow has two executions under way, from whichever source they came.
OneRunAtATime == \A w \in Workflows : unsent[w] + running[w] <= 1
=============================================================================
