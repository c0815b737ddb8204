--------------------------- MODULE SchedulerProofs ---------------------------
(***************************************************************************)
(* Theorems about Scheduler: type correctness, that an occurrence of a        *)
(* trigger fires once as long as no call of _fire raises, and that a workflow  *)
(* has one execution at a time where sweeps do not meet on it, for any number  *)
(* of sweeps, triggers, workflows, toggles and crashes.                       *)
(***************************************************************************)
EXTENDS Scheduler, TLAPS

\* What a sweep has in hand is on its list, and so is what it holds.
ListOK ==
    \A s \in Sweeps :
        /\ sweep[s].holds \subseteq sweep[s].todo
        /\ sweep[s].pc = "idle" => sweep[s].todo = {}
        /\ sweep[s].pc \in {"create", "send", "resched"} => sweep[s].at \in sweep[s].todo

TypeInv == TypeOK /\ ListOK

\* The rows of its list that s has not fired.
Unfired(s) ==
    IF sweep[s].pc \in {"send", "resched"} THEN sweep[s].todo \ {sweep[s].at} ELSE sweep[s].todo

\* A row is on the list of one sweep, which holds it for as long as the others
\* can see it due; what is due or still to be fired has not fired.
ClaimInv ==
    /\ \A s, o \in Sweeps : s # o => sweep[s].todo \cap sweep[o].todo = {}
    /\ \A s \in Sweeps : \A t \in sweep[s].todo :
           /\ nextRun[t] \in {"due", "null"}
           /\ nextRun[t] = "due" => t \in sweep[s].holds
    /\ \A s \in Sweeps : \A t \in Unfired(s) : fires[t] = 0
    /\ \A t \in Triggers : nextRun[t] = "due" => fires[t] = 0
    /\ FiresOnce

LEMMA InitTypeInv ==
    ASSUME SchedulerAssumption, Init
    PROVE  TypeInv
  BY DEF SchedulerAssumption, Init, TypeInv, TypeOK, ListOK, Sweep, Caller, Idle, InSweep, NextRun

LEMMA TypeStep ==
    ASSUME SchedulerAssumption, TypeInv, [Next]_vars
    PROVE  TypeInv'
<1> USE DEF SchedulerAssumption, TypeInv, TypeOK, ListOK, Sweep, NextRun, execVars, tableVars,
            boundVars, InSweep
<1>1. ASSUME NEW t \in Triggers, CreatesTrigger(t) PROVE TypeInv'
  BY <1>1 DEF CreatesTrigger
<1>2. ASSUME NEW t \in Triggers, SetsEnabled(t) PROVE TypeInv'
  BY <1>2 DEF SetsEnabled
<1>3. ASSUME NEW t \in Triggers, ComesDue(t) PROVE TypeInv'
  BY <1>3 DEF ComesDue
<1>4. ASSUME NEW w \in Workflows, SetsStatus(w) PROVE TypeInv'
  BY <1>4 DEF SetsStatus
<1>5. ASSUME NEW w \in Workflows, Publishes(w) PROVE TypeInv'
  BY <1>5 DEF Publishes
<1>6. ASSUME NEW w \in Workflows, Ends(w) PROVE TypeInv'
  BY <1>6 DEF Ends
<1>7. ASSUME NEW s \in Sweeps, Claims(s) PROVE TypeInv'
  BY <1>7 DEF Claims
<1>8. ASSUME NEW s \in Sweeps, NEW t \in Triggers, LooksAt(s, t) PROVE TypeInv'
  <2>. DEFINE p == IF enabled[t] /\ CanStart(WorkflowOf[t]) THEN "create" ELSE "resched"
  <2>1. p \in {"create", "resched"}
    OBVIOUS
  <2>2. /\ sweep' = [sweep EXCEPT ![s] = InSweep(p, sweep[s].todo, sweep[s].holds, t)]
        /\ t \in sweep[s].todo
        /\ UNCHANGED <<nextRun, enabled, active, published, unsent, running, caller, fires,
                       toggles, crashes>>
    BY <1>8 DEF LooksAt
  <2>. HIDE DEF p
  <2>. QED BY <2>1, <2>2
<1>9. ASSUME NEW s \in Sweeps, StartsExecution(s) PROVE TypeInv'
  BY <1>9 DEF StartsExecution, AfterCommit
<1>10. ASSUME NEW s \in Sweeps, SendsExecution(s) PROVE TypeInv'
  <2>. DEFINE w == WorkflowOf[sweep[s].at]
  <2>1. w \in Workflows /\ unsent[w] \in Int /\ running[w] \in Nat
    BY <1>10 DEF SendsExecution
  <2>2. /\ unsent' \in [Workflows -> Int]
        /\ running' \in [Workflows -> Nat]
    BY <1>10, <2>1 DEF SendsExecution
  <2>3. sweep' \in [Sweeps -> Sweep] /\ ListOK'
    BY <1>10 DEF SendsExecution
  <2>. QED BY <1>10, <2>2, <2>3 DEF SendsExecution
<1>11. ASSUME NEW s \in Sweeps, FireRaises(s) PROVE TypeInv'
  BY <1>11 DEF FireRaises
<1>12. ASSUME NEW s \in Sweeps, SendRaises(s) PROVE TypeInv'
  BY <1>12 DEF SendRaises
<1>13. ASSUME NEW s \in Sweeps, Reschedules(s) PROVE TypeInv'
  BY <1>13 DEF Reschedules, AfterCommit, Idle
<1>14. ASSUME NEW s \in Sweeps, SweepCrashes(s) PROVE TypeInv'
  BY <1>14 DEF SweepCrashes, Idle
<1>15. ASSUME NEW c \in Callers, NEW w \in Workflows, CallerLooks(c, w) PROVE TypeInv'
  BY <1>15 DEF CallerLooks, Caller
<1>16. ASSUME NEW c \in Callers, CallerStarts(c) PROVE TypeInv'
  <2>1. PICK w \in Workflows : caller[c] = [pc |-> "create", workflow |-> w]
    BY <1>16 DEF CallerStarts, Caller
  <2>2. [caller[c] EXCEPT !.pc = "send"] = [pc |-> "send", workflow |-> w]
    BY <2>1
  <2>3. caller' = [caller EXCEPT ![c] = [pc |-> "send", workflow |-> w]]
    BY <1>16, <2>2 DEF CallerStarts
  <2>. QED BY <1>16, <2>1, <2>3 DEF CallerStarts, Caller
<1>17. ASSUME NEW c \in Callers, CallerSends(c) PROVE TypeInv'
  <2>1. PICK w \in Workflows : caller[c] = [pc |-> "send", workflow |-> w]
    BY <1>17 DEF CallerSends, Caller
  <2>. QED BY <1>17, <2>1 DEF CallerSends, Caller
<1>18. ASSUME NEW c \in Callers, CallerFails(c) PROVE TypeInv'
  BY <1>18 DEF CallerFails, Caller
<1>19. ASSUME UNCHANGED vars PROVE TypeInv'
  BY <1>19 DEF vars
<1>. QED
  BY <1>1, <1>2, <1>3, <1>4, <1>5, <1>6, <1>7, <1>8, <1>9, <1>10, <1>11, <1>12, <1>13,
     <1>14, <1>15, <1>16, <1>17, <1>18, <1>19 DEF Next, SweepStep, CallerStep

\* The tables, the sweeps and the calls keep to their types.
THEOREM TypeCorrect == Spec => []TypeOK
<1>1. Init => TypeInv
  BY InitTypeInv, SchedulerAssumption
<1>2. TypeInv /\ [Next]_vars => TypeInv'
  BY TypeStep, SchedulerAssumption
<1>3. TypeInv => TypeOK
  BY DEF TypeInv
<1>. QED BY <1>1, <1>2, <1>3, PTL DEF Spec

-----------------------------------------------------------------------------
(* FiresOnce, when no call of _fire raises *)

LEMMA InitClaimInv ==
    ASSUME SchedulerAssumption, Init
    PROVE  ClaimInv
  BY DEF Init, ClaimInv, FiresOnce, Unfired, Idle, InSweep

\* A step that leaves the sweeps, the rows and the counts alone.
LEMMA ClaimStutter ==
    ASSUME ClaimInv, UNCHANGED <<sweep, nextRun, fires>>
    PROVE  ClaimInv'
  BY DEF ClaimInv, FiresOnce, Unfired

LEMMA ClaimStep ==
    ASSUME SchedulerAssumption, ~ FireFaults, TypeInv, ClaimInv, [Next]_vars
    PROVE  ClaimInv'
<1> USE DEF TypeInv, TypeOK, ListOK, Sweep, execVars, tableVars, boundVars, InSweep
<1>1. ASSUME NEW t \in Triggers, CreatesTrigger(t) PROVE ClaimInv'
  BY <1>1 DEF CreatesTrigger, ClaimInv, FiresOnce, Unfired
<1>2. ASSUME NEW t \in Triggers, ComesDue(t) PROVE ClaimInv'
  BY <1>2 DEF ComesDue, ClaimInv, FiresOnce, Unfired
<1>3. ASSUME NEW s \in Sweeps, Claims(s) PROVE ClaimInv'
  <2>. DEFINE due == {t \in Triggers : nextRun[t] = "due"}
  <2>1. /\ sweep' = [sweep EXCEPT ![s] = InSweep("pick", due, due, NoTrigger)]
        /\ UNCHANGED <<nextRun, fires>>
    BY <1>3 DEF Claims
  <2>2. \A o \in Sweeps \ {s} : sweep[o].todo \cap due = {}
    BY <1>3 DEF Claims, HeldByOther, ClaimInv
  <2>. QED BY <2>1, <2>2 DEF ClaimInv, FiresOnce, Unfired
<1>4. ASSUME NEW s \in Sweeps, NEW t \in Triggers, LooksAt(s, t) PROVE ClaimInv'
  <2>. DEFINE p == IF enabled[t] /\ CanStart(WorkflowOf[t]) THEN "create" ELSE "resched"
  <2>1. p \in {"create", "resched"}
    OBVIOUS
  <2>2. /\ sweep' = [sweep EXCEPT ![s] = InSweep(p, sweep[s].todo, sweep[s].holds, t)]
        /\ sweep[s].pc = "pick"
        /\ UNCHANGED <<nextRun, fires>>
    BY <1>4 DEF LooksAt
  <2>. HIDE DEF p
  <2>. QED BY <2>1, <2>2 DEF ClaimInv, FiresOnce, Unfired
<1>5. ASSUME NEW s \in Sweeps, StartsExecution(s) PROVE ClaimInv'
  <2>. DEFINE t == sweep[s].at
  <2>a. t \in Triggers /\ t \in Unfired(s) /\ fires[t] = 0
    BY <1>5 DEF StartsExecution, Unfired, ClaimInv
  <2>1. /\ t \in Triggers /\ t \in Unfired(s)
        /\ nextRun' = AfterCommit(s)
        /\ fires' = [fires EXCEPT ![t] = 1]
        /\ sweep' = [sweep EXCEPT ![s] = InSweep("send", sweep[s].todo, {}, t)]
    BY <1>5, <2>a DEF StartsExecution
  <2>2. \A u \in sweep[s].todo : nextRun'[u] = "null"
    BY <2>1 DEF AfterCommit, ClaimInv
  <2>3. \A u \in Triggers : u \notin sweep[s].todo => nextRun'[u] = nextRun[u]
    BY <2>1 DEF AfterCommit
  <2>4. \A o \in Sweeps \ {s} : t \notin sweep[o].todo /\ Unfired(o)' = Unfired(o)
    BY <2>1 DEF Unfired, ClaimInv
  <2>5. Unfired(s)' = sweep[s].todo \ {t}
    BY <2>1 DEF Unfired
  <2>. QED BY <2>1, <2>2, <2>3, <2>4, <2>5 DEF ClaimInv, FiresOnce, Unfired
<1>6. ASSUME NEW s \in Sweeps, SendsExecution(s) \/ SendRaises(s) PROVE ClaimInv'
  BY <1>6 DEF SendsExecution, SendRaises, ClaimInv, FiresOnce, Unfired
<1>7. ASSUME NEW s \in Sweeps, Reschedules(s) PROVE ClaimInv'
  <2>. DEFINE t == sweep[s].at
              left == sweep[s].todo \ {t}
  <2>1. /\ t \in sweep[s].todo /\ left = Unfired(s)
        /\ UNCHANGED fires
        /\ sweep' = [sweep EXCEPT ![s] = IF left = {} THEN Idle
                         ELSE InSweep("pick", left, {}, NoTrigger)]
    BY <1>7 DEF Reschedules, Unfired
  <2>2. \A u \in left : nextRun'[u] = "null"
    BY <1>7 DEF Reschedules, AfterCommit, ClaimInv
  <2>3. nextRun'[t] \in {"null", "future"}
    BY <1>7 DEF Reschedules, AfterCommit, ClaimInv
  <2>4. \A u \in Triggers : u \notin sweep[s].todo => nextRun'[u] = nextRun[u]
    BY <1>7, <2>1 DEF Reschedules, AfterCommit
  <2>5. /\ sweep'[s].todo = left /\ Unfired(s)' = left
        /\ \A o \in Sweeps \ {s} : sweep'[o] = sweep[o] /\ Unfired(o)' = Unfired(o)
    BY <2>1 DEF Idle, Unfired
  <2>. QED BY <2>1, <2>2, <2>3, <2>4, <2>5 DEF ClaimInv, FiresOnce
<1>8. ASSUME NEW s \in Sweeps, SweepCrashes(s) PROVE ClaimInv'
  BY <1>8 DEF SweepCrashes, Idle, ClaimInv, FiresOnce, Unfired
<1>9. ASSUME NEW s \in Sweeps, FireRaises(s) PROVE FALSE
  BY <1>9 DEF FireRaises
<1>10. ASSUME \/ \E t \in Triggers : SetsEnabled(t)
              \/ \E w \in Workflows : SetsStatus(w) \/ Publishes(w) \/ Ends(w)
              \/ \E c \in Callers : CallerStep(c) \/ \E w \in Workflows : CallerLooks(c, w)
              \/ UNCHANGED vars
       PROVE  ClaimInv'
  <2>1. UNCHANGED <<sweep, nextRun, fires>>
    BY <1>10 DEF SetsEnabled, SetsStatus, Publishes, Ends, CallerStep, CallerStarts, CallerSends,
       CallerFails, CallerLooks, vars
  <2>. QED BY <2>1, ClaimStutter
<1>. QED
  BY <1>1, <1>2, <1>3, <1>4, <1>5, <1>6, <1>7, <1>8, <1>9, <1>10 DEF Next, SweepStep

\* As long as no call of _fire raises, no occurrence of a trigger starts two
\* executions, for any number of sweeps, crashes and toggles.
THEOREM FiresOnceHolds ==
    ASSUME FireFaults = FALSE
    PROVE  Spec => []FiresOnce
<1>1. Init => TypeInv /\ ClaimInv
  BY InitTypeInv, InitClaimInv, SchedulerAssumption
<1>2. TypeInv /\ ClaimInv /\ [Next]_vars => (TypeInv /\ ClaimInv)'
  BY TypeStep, ClaimStep, SchedulerAssumption
<1>3. TypeInv /\ ClaimInv => FiresOnce
  BY DEF ClaimInv
<1>. QED BY <1>1, <1>2, <1>3, PTL DEF Spec

-----------------------------------------------------------------------------
(* OneRunAtATime, when nobody but the sweeps starts executions *)

\* Two sweeps do not look at one workflow: there is one sweep; or each workflow has one
\* trigger, which is on the list of one sweep as long as no call of _fire raises.
TakeTurns ==
    \/ \A s, o \in Sweeps : s = o
    \/ /\ \A t, u \in Triggers : WorkflowOf[t] = WorkflowOf[u] => t = u
       /\ ~ FireFaults

Active(w) == unsent[w] + running[w]

\* Who has found that a workflow has no execution is the only one at it, until the
\* execution is started and sent.
RunInv ==
    /\ \A w \in Workflows : unsent[w] >= 0 /\ Active(w) <= 1
    /\ \A s \in Sweeps :
           /\ sweep[s].pc = "create" => Active(WorkflowOf[sweep[s].at]) = 0
           /\ sweep[s].pc = "send" => unsent[WorkflowOf[sweep[s].at]] = 1
    /\ \A s, o \in Sweeps :
           sweep[s].pc \in {"create", "send"} /\ sweep[o].pc \in {"create", "send"}
              /\ WorkflowOf[sweep[s].at] = WorkflowOf[sweep[o].at] => s = o

\* The lists of two sweeps are apart, unless there are not two.
LEMMA Apart ==
    ASSUME SchedulerAssumption, TakeTurns, TypeInv, ~ FireFaults => ClaimInv,
           NEW s \in Sweeps, NEW o \in Sweeps, NEW t \in sweep[s].todo, NEW u \in sweep[o].todo,
           WorkflowOf[t] = WorkflowOf[u]
    PROVE  s = o
<1>1. t \in Triggers /\ u \in Triggers
  BY DEF TypeInv, TypeOK, Sweep
<1>2. CASE \A x, y \in Sweeps : x = y
  BY <1>2
<1>3. CASE /\ \A x, y \in Triggers : WorkflowOf[x] = WorkflowOf[y] => x = y
           /\ ~ FireFaults
  BY <1>1, <1>3 DEF ClaimInv
<1> QED
  BY <1>2, <1>3 DEF TakeTurns

\* A step that leaves the executions alone and nobody new at one.
LEMMA RunQuiet ==
    ASSUME SchedulerAssumption, TypeInv, RunInv, UNCHANGED <<unsent, running>>,
           \A s \in Sweeps : \/ sweep'[s] = sweep[s]
                             \/ sweep'[s].pc \in {"idle", "pick", "resched"}
    PROVE  RunInv'
BY DEF RunInv, Active

LEMMA InitRunInv ==
    ASSUME SchedulerAssumption, Init
    PROVE  RunInv
  BY DEF SchedulerAssumption, Init, RunInv, Active, Idle, InSweep

LEMMA RunImplies == RunInv => OneRunAtATime
  BY DEF RunInv, Active, OneRunAtATime

LEMMA RunStep ==
    ASSUME SchedulerAssumption, TakeTurns, Callers = {}, TypeInv, ~ FireFaults => ClaimInv,
           RunInv, [Next]_vars
    PROVE  RunInv'
<1>0. /\ sweep \in [Sweeps -> Sweep] /\ WorkflowOf \in [Triggers -> Workflows]
      /\ unsent \in [Workflows -> Int] /\ running \in [Workflows -> Nat]
      /\ \A s \in Sweeps : /\ sweep[s].todo \subseteq Triggers
                           /\ sweep[s].pc \in {"create", "send"} => sweep[s].at \in sweep[s].todo
  BY DEF SchedulerAssumption, TypeInv, TypeOK, ListOK, Sweep
<1>1. ASSUME \/ \E t \in Triggers : CreatesTrigger(t) \/ SetsEnabled(t) \/ ComesDue(t)
             \/ \E w \in Workflows : SetsStatus(w) \/ Publishes(w)
             \/ UNCHANGED vars
      PROVE  UNCHANGED <<unsent, running, sweep>>
  BY <1>1 DEF CreatesTrigger, SetsEnabled, ComesDue, SetsStatus, Publishes, vars, execVars
<1>2. ASSUME NEW s \in Sweeps,
             Claims(s) \/ FireRaises(s) \/ SendRaises(s) \/ Reschedules(s) \/ SweepCrashes(s)
      PROVE  RunInv'
  <2>1. /\ UNCHANGED <<unsent, running>>
        /\ \A o \in Sweeps : o # s => sweep'[o] = sweep[o]
    BY <1>0, <1>2 DEF Claims, FireRaises, SendRaises, Reschedules, SweepCrashes, execVars
  <2>2. sweep'[s].pc \in {"idle", "pick", "resched"}
    <3>1. CASE Claims(s) \/ FireRaises(s) \/ SweepCrashes(s)
      BY <1>0, <3>1 DEF Claims, FireRaises, SweepCrashes, Idle, InSweep
    <3>2. CASE SendRaises(s)
      BY <1>0, <3>2 DEF SendRaises, Sweep
    <3>3. CASE Reschedules(s)
      <4>1. \E r \in {Idle, InSweep("pick", sweep[s].todo \ {sweep[s].at}, {}, NoTrigger)} :
               sweep' = [sweep EXCEPT ![s] = r]
        BY <3>3 DEF Reschedules
      <4> QED BY <1>0, <4>1 DEF Idle, InSweep
    <3> QED BY <1>2, <3>1, <3>2, <3>3
  <2> QED BY <2>1, <2>2, RunQuiet
<1>3. ASSUME NEW w \in Workflows, Ends(w)
      PROVE  RunInv'
  <2>1. /\ running' = [running EXCEPT ![w] = running[w] - 1] /\ running[w] > 0
        /\ UNCHANGED <<unsent, sweep>>
    BY <1>3 DEF Ends
  <2>2. \A v \in Workflows : Active(v)' <= Active(v) /\ (Active(v) = 0 => Active(v)' = 0)
    BY <1>0, <2>1 DEF Active, RunInv
  <2>3. \A v \in Workflows : Active(v) \in Int /\ Active(v)' \in Int
    BY <1>0, <2>1 DEF Active
  <2>4. \A v \in Workflows : unsent'[v] >= 0 /\ Active(v)' <= 1
    BY <2>1, <2>2, <2>3 DEF RunInv
  <2> QED BY <1>0, <2>1, <2>2, <2>4 DEF RunInv
<1>4. ASSUME NEW s \in Sweeps, NEW t \in Triggers, LooksAt(s, t)
      PROVE  RunInv'
  <2> DEFINE p == IF enabled[t] /\ CanStart(WorkflowOf[t]) THEN "create" ELSE "resched"
  <2>1. /\ sweep' = [sweep EXCEPT ![s] = InSweep(p, sweep[s].todo, sweep[s].holds, t)]
        /\ t \in sweep[s].todo /\ UNCHANGED <<unsent, running>>
    BY <1>4 DEF LooksAt, execVars
  <2>2. /\ sweep'[s].pc = p /\ sweep'[s].at = t
        /\ \A o \in Sweeps : o # s => sweep'[o] = sweep[o]
    BY <1>0, <2>1 DEF InSweep
  <2>3. CASE p = "resched"
    BY <2>1, <2>2, <2>3, RunQuiet
  <2>4. CASE p = "create"
    <3>1. CanStart(WorkflowOf[t])
      BY <2>4
    <3>2. Active(WorkflowOf[t]) = 0
      <4>1. WorkflowOf[t] \in Workflows
        BY <1>0
      <4>2. unsent[WorkflowOf[t]] >= 0
        BY <4>1 DEF RunInv
      <4> QED BY <1>0, <3>1, <4>1, <4>2 DEF CanStart, HasActiveExecution, Active
    <3>3. \A o \in Sweeps : sweep[o].pc \in {"create", "send"}
                               /\ WorkflowOf[sweep[o].at] = WorkflowOf[t] => o = s
      BY <1>0, <2>1, Apart
    <3> HIDE DEF p
    <3> QED BY <2>1, <2>2, <2>4, <3>2, <3>3 DEF RunInv, Active
  <2> QED BY <2>3, <2>4
<1>5. ASSUME NEW s \in Sweeps, StartsExecution(s) \/ SendsExecution(s)
      PROVE  RunInv'
  <2> DEFINE w == WorkflowOf[sweep[s].at]
  <2>1. /\ sweep[s].pc \in {"create", "send"} /\ w \in Workflows
        /\ sweep'[s].at = sweep[s].at /\ sweep'[s].pc \in {"send", "resched"}
        /\ sweep'[s].pc = "send" => unsent'[w] = 1
        /\ \A o \in Sweeps : o # s => sweep'[o] = sweep[o]
    <3>1. CASE StartsExecution(s)
      <4>1. unsent[w] = 0
        BY <1>0, <3>1 DEF StartsExecution, RunInv, Active
      <4> QED BY <1>0, <3>1, <4>1 DEF StartsExecution, InSweep
    <3>2. CASE SendsExecution(s)
      BY <1>0, <3>2 DEF SendsExecution
    <3> QED BY <1>5, <3>1, <3>2
  <2>2. unsent'[w] >= 0 /\ unsent'[w] + running'[w] <= 1
    <3>1. CASE StartsExecution(s)
      BY <1>0, <2>1, <3>1 DEF StartsExecution, RunInv, Active
    <3>2. CASE SendsExecution(s)
      BY <1>0, <2>1, <3>2 DEF SendsExecution, RunInv, Active
    <3> QED BY <1>5, <3>1, <3>2
  <2>3. \A v \in Workflows : v # w => unsent'[v] = unsent[v] /\ running'[v] = running[v]
    BY <1>0, <1>5 DEF StartsExecution, SendsExecution
  <2>4. \A o \in Sweeps : o # s /\ sweep[o].pc \in {"create", "send"} => WorkflowOf[sweep[o].at] # w
    BY <2>1 DEF RunInv
  <2>5. \A o \in Sweeps : sweep[o].pc \in {"create", "send"} => WorkflowOf[sweep[o].at] \in Workflows
    BY <1>0
  <2> HIDE DEF w
  <2>6. \A v \in Workflows : unsent'[v] >= 0 /\ Active(v)' <= 1
    <3>1. \A v \in Workflows : unsent[v] >= 0 /\ Active(v) <= 1
      BY DEF RunInv
    <3>2. \A v \in Workflows : v # w => unsent'[v] >= 0 /\ Active(v)' <= 1
      BY <2>3, <3>1 DEF Active
    <3> QED BY <2>2, <3>2 DEF Active
  <2>7. ASSUME NEW o \in Sweeps, o # s
        PROVE  /\ sweep'[o].pc = "create" => Active(WorkflowOf[sweep[o].at])' = 0
               /\ sweep'[o].pc = "send" => unsent'[WorkflowOf[sweep[o].at]] = 1
               /\ sweep'[o].at = sweep[o].at
    <3>1. /\ sweep[o].pc = "create" => Active(WorkflowOf[sweep[o].at]) = 0
          /\ sweep[o].pc = "send" => unsent[WorkflowOf[sweep[o].at]] = 1
      BY DEF RunInv
    <3>2. sweep'[o] = sweep[o]
      BY <2>1, <2>7
    <3>3. ASSUME sweep[o].pc \in {"create", "send"}
          PROVE  LET v == WorkflowOf[sweep[o].at]
                 IN  unsent'[v] = unsent[v] /\ running'[v] = running[v]
      BY <2>3, <2>4, <2>5, <2>7, <3>3
    <3> QED BY <3>1, <3>2, <3>3 DEF Active
  <2>8. /\ sweep'[s].pc # "create"
        /\ sweep'[s].pc = "send" => unsent'[WorkflowOf[sweep'[s].at]] = 1
    BY <2>1 DEF w
  <2>9. ASSUME NEW x \in Sweeps, NEW y \in Sweeps,
               sweep'[x].pc \in {"create", "send"}, sweep'[y].pc \in {"create", "send"},
               WorkflowOf[sweep'[x].at] = WorkflowOf[sweep'[y].at]
        PROVE  x = y
    BY <2>1, <2>9 DEF RunInv
  <2>10. \A o \in Sweeps :
            /\ sweep'[o].pc = "create" => unsent'[WorkflowOf[sweep'[o].at]]
                                            + running'[WorkflowOf[sweep'[o].at]] = 0
            /\ sweep'[o].pc = "send" => unsent'[WorkflowOf[sweep'[o].at]] = 1
    BY <2>7, <2>8 DEF Active
  <2>11. \A x, y \in Sweeps :
            sweep'[x].pc \in {"create", "send"} /\ sweep'[y].pc \in {"create", "send"}
               /\ WorkflowOf[sweep'[x].at] = WorkflowOf[sweep'[y].at] => x = y
    BY <2>9
  <2> QED BY <2>6, <2>10, <2>11 DEF RunInv, Active
<1> QED
  BY <1>1, <1>2, <1>3, <1>4, <1>5, RunQuiet DEF Next, SweepStep

(***************************************************************************)
(* A workflow has one execution under way, if only sweeps start any and no two *)
(* of them come to one workflow: whatever sends are lost, however often a        *)
(* sweep dies, and for any number of sweeps, triggers and toggles.              *)
(***************************************************************************)
THEOREM OneRunAtATimeHolds ==
    ASSUME TakeTurns, Callers = {}
    PROVE  Spec => []OneRunAtATime
<1>1. Init => TypeInv /\ (~ FireFaults => ClaimInv) /\ RunInv
  BY InitTypeInv, InitClaimInv, InitRunInv, SchedulerAssumption
<1>2. TypeInv /\ (~ FireFaults => ClaimInv) /\ RunInv /\ [Next]_vars
         => (TypeInv /\ (~ FireFaults => ClaimInv) /\ RunInv)'
  BY TypeStep, ClaimStep, RunStep, SchedulerAssumption
<1>. QED BY <1>1, <1>2, RunImplies, PTL DEF Spec
=============================================================================
