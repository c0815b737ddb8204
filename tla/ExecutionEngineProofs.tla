----------------------- MODULE ExecutionEngineProofs -----------------------
(***************************************************************************)
(* What TLAPS proves of ExecutionEngine, for any number of workers, API      *)
(* requests, jobs and steps and any bound on crashes, drifts and pauses;     *)
(* in the second half, of runs where each message is delivered once.         *)
(***************************************************************************)
EXTENDS ExecutionEngine, TLAPS

\* The local variables of a worker and of a request, as far as the actions
\* that use them rely on their values.
LocalsOK ==
    /\ \A w \in Workers : IF pc[w] = "idle" THEN jobOf[w] = NoJob ELSE jobOf[w] \in Job
    /\ \A w \in Workers :
          pc[w] \in {"check", "capture", "apply", "settle", "broken", "undone", "undo_broken"} =>
              at[w] \in Step
    /\ \A c \in Clients : client[c] \in {"publish", "resume", "unset"} => clientJob[c] \in Job

TypeInv == TypeOK /\ LocalsOK

LEMMA InitTypeInv == Init => TypeInv
  BY ConstantsAssumption DEF Init, TypeInv, TypeOK, LocalsOK, JobStatus, PlanStatus, StepStatus,
     Content, WorkerPc, ClientPc

LEMMA TypeInvClients ==
    ASSUME TypeInv, NEW c \in Clients, ClientStep(c) PROVE TypeInv'
  <1> USE ConstantsAssumption DEF TypeInv, TypeOK, LocalsOK, Outcome, JobStatus, PlanStatus, WorkerPc, ClientPc, Content, Job, Step, StepStatus,
          vars, jobVars, recordVars, stepVars, driveVars, localVars, workerVars, clientVars, boundVars
  <1>1. CASE Publish(c) BY <1>1 DEF Publish
  <1>2. CASE PublishLost(c) BY <1>2 DEF PublishLost
  <1>3. CASE ResumeCommits(c) BY <1>3 DEF ResumeCommits
  <1>4. CASE RollbackReads(c) BY <1>4 DEF RollbackReads
  <1>5. ASSUME NEW j \in Job, JobApproved(c, j) PROVE TypeInv' BY <1>5 DEF JobApproved
  <1>6. ASSUME NEW j \in Job, ResumeReads(c, j) PROVE TypeInv' BY <1>6 DEF ResumeReads
  <1>7. ASSUME NEW j \in Job, RollbackCommits(c, j) PROVE TypeInv' BY <1>7 DEF RollbackCommits, SpareRollback
  <1>8. QED BY <1>1, <1>2, <1>3, <1>4, <1>5, <1>6, <1>7 DEF ClientStep

\* A worker that leaves run() leaves well-typed local variables behind.
LEMMA LeavesType ==
    ASSUME TypeInv, NEW w \in Workers, Leaves(w)
    PROVE  /\ pc' \in [Workers -> WorkerPc] /\ jobOf' \in [Workers -> Job \cup {NoJob}]
           /\ at' \in [Workers -> 1 .. NumSteps + 1] /\ todo' \in [Workers -> SUBSET Step]
           /\ tally' \in [Workers -> SUBSET Outcome]
           /\ seen' \in [Workers -> Content]
           /\ \A v \in Workers : pc'[v] = "idle" => jobOf'[v] = NoJob
           /\ \A v \in Workers : pc'[v] # "idle" =>
                 /\ v # w
                 /\ pc'[v] = pc[v] /\ jobOf'[v] = jobOf[v] /\ at'[v] = at[v]
                 /\ todo'[v] = todo[v] /\ tally'[v] = tally[v] /\ seen'[v] = seen[v]
  <1> USE ConstantsAssumption DEF TypeInv, TypeOK, Leaves
  <1>1. pc' \in [Workers -> WorkerPc] /\ jobOf' \in [Workers -> Job \cup {NoJob}]
    BY DEF WorkerPc
  <1>2. at' \in [Workers -> 1 .. NumSteps + 1] /\ todo' \in [Workers -> SUBSET Step]
    OBVIOUS
  <1>3. tally' \in [Workers -> SUBSET Outcome] /\ seen' \in [Workers -> Content]
    BY DEF Content
  <1>4. \A v \in Workers : pc'[v] # "idle" =>
                 /\ v # w
                 /\ pc'[v] = pc[v] /\ jobOf'[v] = jobOf[v] /\ at'[v] = at[v]
                 /\ todo'[v] = todo[v] /\ tally'[v] = tally[v] /\ seen'[v] = seen[v]
    OBVIOUS
  <1>5. \A v \in Workers : pc'[v] = "idle" => jobOf'[v] = NoJob
    BY DEF LocalsOK
  <1>6. QED
    BY <1>1, <1>2, <1>3, <1>4, <1>5

LEMMA LeavesLocals ==
    ASSUME TypeInv, NEW w \in Workers, Leaves(w), UNCHANGED <<client, clientJob>>
    PROVE  LocalsOK'
  <1>1. \A v \in Workers : IF pc'[v] = "idle" THEN jobOf'[v] = NoJob ELSE jobOf'[v] \in Job
    <2>1. \A v \in Workers : pc'[v] # "idle" => pc'[v] = pc[v] /\ jobOf'[v] = jobOf[v]
      BY LeavesType
    <2>2. \A v \in Workers : pc'[v] # "idle" => jobOf'[v] \in Job
      BY <2>1 DEF TypeInv, LocalsOK
    <2>3. QED BY <2>2, LeavesType
  <1>2. \A v \in Workers : pc'[v] # "idle" => pc'[v] = pc[v] /\ at'[v] = at[v]
    BY LeavesType
  <1>3. \A v \in Workers :
          pc'[v] \in {"check", "capture", "apply", "settle", "broken", "undone", "undo_broken"} =>
              at'[v] \in Step
    BY <1>2 DEF TypeInv, LocalsOK
  <1>4. \A c \in Clients : client'[c] \in {"publish", "resume", "unset"} => clientJob'[c] \in Job
    BY DEF TypeInv, LocalsOK
  <1>5. QED BY <1>1, <1>3, <1>4 DEF LocalsOK

LEMMA LeavesKeepsType ==
    ASSUME TypeInv, NEW w \in Workers, Leaves(w),
           queue' \in [Job -> Nat], crashes' \in 0 .. MaxCrashes,
           UNCHANGED <<jobVars, planStatus, stepVars, recordVars, driveVars, connected,
                       clientVars, drifts, pauses>>
    PROVE  TypeInv'
  <1>1. UNCHANGED <<client, clientJob>> BY DEF clientVars
  <1>2. LocalsOK' BY <1>1, LeavesLocals
  <1>3. TypeOK'
    BY LeavesType DEF TypeInv, TypeOK, jobVars, stepVars, recordVars, driveVars, clientVars
  <1>4. QED BY <1>2, <1>3 DEF TypeInv

\* One more execution_result of a job for a step.
LEMMA OneMoreResult ==
    ASSUME results \in [Job -> [Step -> Nat]], NEW j \in Job, NEW s \in Step
    PROVE  [results EXCEPT ![j][s] = @ + 1] \in [Job -> [Step -> Nat]]
  <1>1. results[j] \in [Step -> Nat] /\ results[j][s] + 1 \in Nat
    OBVIOUS
  <1>2. QED BY <1>1

\* Deciding a step keeps every type, given a step to decide and an outcome to count.
LEMMA DecidesType ==
    ASSUME TypeInv, NEW w \in Workers, at[w] \in Step, jobOf[w] \in Job,
           NEW status \in StepStatus, NEW outcome \in {"succeeded", "failed"},
           Decides(w, status, outcome)
    PROVE  TypeInv'
  <1> USE ConstantsAssumption DEF TypeInv, TypeOK, LocalsOK, Outcome, Decides, vars, jobVars, recordVars,
          stepVars, driveVars, localVars, workerVars, clientVars, boundVars
  <1>1. stepStatus' \in [Step -> StepStatus]
    OBVIOUS
  <1>2. results' \in [Job -> [Step -> Nat]]
    BY OneMoreResult
  <1>3. tally' \in [Workers -> SUBSET Outcome]
    OBVIOUS
  <1>4. at' \in [Workers -> 1 .. NumSteps + 1]
    BY DEF Step
  <1>5. pc' \in [Workers -> WorkerPc]
    BY DEF WorkerPc
  <1>6. LocalsOK'
    BY <1>4, <1>5 DEF WorkerPc
  <1>7. QED
    BY <1>1, <1>2, <1>3, <1>4, <1>5, <1>6

LEMMA TypeInvWorkers ==
    ASSUME TypeInv, NEW w \in Workers, WorkerStep(w) PROVE TypeInv'
  <1> USE ConstantsAssumption DEF TypeInv, TypeOK, LocalsOK, Outcome, JobStatus, PlanStatus, WorkerPc,
          Content, Job, Step, StepStatus, vars, jobVars, recordVars, stepVars,
          driveVars, localVars, workerVars, clientVars, boundVars
  <1>1. ASSUME NEW j \in Job, RunDenied(w, j) PROVE TypeInv'
    BY <1>1 DEF RunDenied, Receives
  <1>2. ASSUME NEW j \in Job, RunStarts(w, j) PROVE TypeInv'
    BY <1>2 DEF RunStarts, Receives
  <1>3. CASE LoopStarts(w)
    <2>1. at' \in [Workers -> 1 .. NumSteps + 1] /\ tally' \in [Workers -> SUBSET Outcome]
      BY <1>3 DEF LoopStarts
    <2>2. todo' \in [Workers -> SUBSET Step]
      <3>1. HeldRecords \subseteq Step
        BY DEF HeldRecords
      <3>2. QED BY <1>3, <3>1 DEF LoopStarts
    <2>3. pc' \in [Workers -> WorkerPc]
      BY <1>3 DEF LoopStarts
    <2>4. LocalsOK'
      BY <1>3 DEF LoopStarts
    <2>5. QED
      BY <1>3, <2>1, <2>2, <2>3, <2>4 DEF LoopStarts
  <1>4. CASE TokenFails(w)
    <2>1. Leaves(w) /\ queue' \in [Job -> Nat] /\ crashes' \in 0 .. MaxCrashes
      BY <1>4 DEF TokenFails
    <2>2. QED BY <1>4, <2>1, LeavesKeepsType DEF TokenFails
  <1>5. CASE ObservesCancel(w)
    <2>1. jobOf[w] \in Job BY <1>5 DEF ObservesCancel, AtStep, AtUndo
    <2>2. pc' \in [Workers -> WorkerPc] BY <1>5 DEF ObservesCancel
    <2>3. LocalsOK' BY <1>5, <2>1 DEF ObservesCancel
    <2>4. QED BY <1>5, <2>1, <2>2, <2>3 DEF ObservesCancel
  <1>6. CASE ObservesPause(w)
    <2>1. jobOf[w] \in Job BY <1>6 DEF ObservesPause, AtStep, AtUndo
    <2>2. pc' \in [Workers -> WorkerPc] BY <1>6 DEF ObservesPause
    <2>3. jobStatus' \in [Job -> JobStatus] BY <1>6, <2>1 DEF ObservesPause
    <2>4. pauseRequested' \in [Job -> BOOLEAN] BY <1>6, <2>1 DEF ObservesPause
    <2>5. LocalsOK' BY <1>6, <2>1 DEF ObservesPause
    <2>6. QED BY <1>6, <2>1, <2>2, <2>3, <2>4, <2>5 DEF ObservesPause
  <1>7. CASE RunAborts(w)
    <2>1. jobOf[w] \in Job BY <1>7 DEF RunAborts
    <2>2. pc' \in [Workers -> WorkerPc] BY <1>7 DEF RunAborts
    <2>3. jobStatus' \in [Job -> JobStatus] BY <1>7, <2>1 DEF RunAborts
    <2>4. LocalsOK' BY <1>7, <2>1 DEF RunAborts
    <2>5. QED BY <1>7, <2>1, <2>2, <2>3, <2>4 DEF RunAborts
  <1>8. CASE SkipsDecided(w)
    <2>1. at[w] + 1 \in 1 .. NumSteps + 1 BY <1>8 DEF SkipsDecided, AtStep
    <2>2. at' \in [Workers -> 1 .. NumSteps + 1] BY <1>8, <2>1 DEF SkipsDecided
    <2>3. tally' \in [Workers -> SUBSET Outcome] BY <1>8 DEF SkipsDecided
    <2>4. pc' = pc /\ LocalsOK' BY <1>8 DEF SkipsDecided
    <2>5. QED BY <1>8, <2>2, <2>3, <2>4 DEF SkipsDecided
  <1>9. CASE ReadsFile(w)
    <2>1. seen' \in [Workers -> Content]
      <3>1. at[w] \in Step BY <1>9 DEF ReadsFile
      <3>2. QED BY <1>9, <3>1 DEF ReadsFile
    <2>2. pc' \in [Workers -> WorkerPc] BY <1>9 DEF ReadsFile
    <2>3. LocalsOK' BY <1>9 DEF ReadsFile
    <2>4. QED BY <1>9, <2>1, <2>2, <2>3 DEF ReadsFile
  <1>10. CASE SavesRecord(w)
    <2>1. at[w] \in Step BY <1>10 DEF SavesRecord
    <2>2. preState' \in [Step -> Content] BY <1>10, <2>1 DEF SavesRecord
    <2>3. pc' \in [Workers -> WorkerPc] BY <1>10 DEF SavesRecord
    <2>4. LocalsOK' BY <1>10 DEF SavesRecord
    <2>5. QED BY <1>10, <2>2, <2>3, <2>4 DEF SavesRecord
  <1>11. CASE Writes(w)
    <2>1. at[w] \in Step BY <1>11 DEF Writes
    <2>2. drive' \in [Step -> Content] /\ writes' \in [Step -> Nat] BY <1>11, <2>1 DEF Writes
    <2>3. pc' \in [Workers -> WorkerPc] BY <1>11 DEF Writes
    <2>4. LocalsOK' BY <1>11 DEF Writes
    <2>5. QED BY <1>11, <2>2, <2>3, <2>4 DEF Writes
  <1>12. CASE StepCompletes(w)
    <2>1. at[w] \in Step /\ jobOf[w] \in Job BY <1>12 DEF StepCompletes
    <2>2. QED BY <1>12, <2>1, DecidesType DEF StepCompletes
  <1>13. CASE StepFails(w)
    <2>1. at[w] \in Step /\ jobOf[w] \in Job BY <1>13 DEF StepFails
    <2>2. QED BY <1>13, <2>1, DecidesType DEF StepFails
  <1>14. CASE FinishesForward(w) BY <1>14 DEF FinishesForward, PastLastStep, ForwardVerdict
  <1>15. ASSUME NEW s \in Step, Restores(w, s) PROVE TypeInv'
    <2>1. pc[w] = "undo" /\ jobOf[w] \in Job BY <1>15 DEF Restores, AtUndo
    <2>2. pc' \in [Workers -> WorkerPc] BY <1>15 DEF Restores
    <2>3. at' \in [Workers -> 1 .. NumSteps + 1] /\ todo' \in [Workers -> SUBSET Step]
      BY <1>15 DEF Restores
    <2>4. drive' \in [Step -> Content] BY <1>15 DEF Restores
    <2>5. LocalsOK' BY <1>15, <2>1 DEF Restores
    <2>6. QED BY <1>15, <2>1, <2>2, <2>3, <2>4, <2>5 DEF Restores
  <1>16. ASSUME NEW s \in Step, RestoreRefused(w, s) PROVE TypeInv'
    <2>1. pc' \in [Workers -> WorkerPc] BY <1>16 DEF RestoreRefused
    <2>2. at' \in [Workers -> 1 .. NumSteps + 1] /\ todo' \in [Workers -> SUBSET Step]
      BY <1>16 DEF RestoreRefused
    <2>3. LocalsOK' BY <1>16 DEF RestoreRefused, AtUndo
    <2>4. QED BY <1>16, <2>1, <2>2, <2>3 DEF RestoreRefused
  <1>17. CASE UndoCommits(w)
    <2>1. at[w] \in Step /\ jobOf[w] \in Job BY <1>17 DEF UndoCommits
    <2>2. results' \in [Job -> [Step -> Nat]]
      BY <1>17, <2>1, OneMoreResult DEF UndoCommits
    <2>3. pc' \in [Workers -> WorkerPc] /\ tally' \in [Workers -> SUBSET Outcome]
      BY <1>17, <2>1 DEF UndoCommits
    <2>4. LocalsOK' BY <1>17, <2>1 DEF UndoCommits
    <2>5. QED BY <1>17, <2>1, <2>2, <2>3, <2>4 DEF UndoCommits
  <1>18. CASE UndoFails(w)
    <2>1. at[w] \in Step /\ jobOf[w] \in Job BY <1>18 DEF UndoFails
    <2>2. results' \in [Job -> [Step -> Nat]]
      BY <1>18, <2>1, OneMoreResult DEF UndoFails
    <2>3. pc' \in [Workers -> WorkerPc] /\ tally' \in [Workers -> SUBSET Outcome]
      BY <1>18, <2>1 DEF UndoFails
    <2>4. LocalsOK' BY <1>18, <2>1 DEF UndoFails
    <2>5. QED BY <1>18, <2>1, <2>2, <2>3, <2>4 DEF UndoFails
  <1>19. CASE FinishesRollback(w)
    <2>1. jobOf[w] \in Job BY <1>19 DEF FinishesRollback
    <2>2. pc' \in [Workers -> WorkerPc] BY <1>19 DEF FinishesRollback
    <2>3. jobStatus' \in [Job -> JobStatus]
      BY <1>19, <2>1 DEF FinishesRollback, RollbackVerdict
    <2>4. LocalsOK' BY <1>19, <2>1 DEF FinishesRollback
    <2>5. QED BY <1>19, <2>1, <2>2, <2>3, <2>4 DEF FinishesRollback
  <1>20. CASE Acks(w)
    <2>1. Leaves(w) /\ queue' \in [Job -> Nat] /\ crashes' \in 0 .. MaxCrashes
      BY <1>20 DEF Acks
    <2>2. QED BY <1>20, <2>1, LeavesKeepsType DEF Acks
  <1>21. CASE TakesStep(w) BY <1>21 DEF TakesStep, AtStep
  <1>22. CASE Refreshes(w) BY <1>22 DEF Refreshes
  <1>23. CASE RefreshFails(w) BY <1>23 DEF RefreshFails
  <1>24. QED
    BY <1>1, <1>2, <1>3, <1>4, <1>5, <1>6, <1>7, <1>8, <1>9, <1>10, <1>11, <1>12, <1>13, <1>14, <1>15, <1>16, <1>17, <1>18, <1>19, <1>20, <1>21, <1>22, <1>23
       DEF WorkerStep

LEMMA TypeInvNext == TypeInv /\ [Next]_vars => TypeInv'
  <1> USE ConstantsAssumption DEF TypeInv, TypeOK, LocalsOK, Outcome, JobStatus, PlanStatus, WorkerPc,
          ClientPc, Content, Job, Step, StepStatus, vars, jobVars, recordVars, stepVars,
          driveVars, localVars, workerVars, clientVars, boundVars
  <1> SUFFICES ASSUME TypeInv, [Next]_vars PROVE TypeInv'
    OBVIOUS
  <1>1. ASSUME NEW j \in Job, Cancel(j) PROVE TypeInv'
    BY <1>1 DEF Cancel
  <1>2. ASSUME NEW j \in Job, Pause(j) PROVE TypeInv'
    BY <1>2 DEF Pause
  <1>3. ASSUME NEW w \in Workers, Crashes(w) PROVE TypeInv'
    <2>1. Leaves(w) /\ jobOf[w] \in Job BY <1>3 DEF Crashes
    <2>2. queue' \in [Job -> Nat] /\ crashes' \in 0 .. MaxCrashes
      BY <1>3, <2>1 DEF Crashes, AfterCrash
    <2>3. QED BY <1>3, <2>1, <2>2, LeavesKeepsType DEF Crashes
  <1>4. ASSUME NEW s \in Step, Drifts(s) PROVE TypeInv'
    BY <1>4 DEF Drifts
  <1>5. CASE ConnectorChanges
    BY <1>5 DEF ConnectorChanges
  <1>6. CASE UNCHANGED vars
    BY <1>6
  <1>7. QED
    BY <1>1, <1>2, <1>3, <1>4, <1>5, <1>6, TypeInvClients, TypeInvWorkers DEF Next

(***************************************************************************)
(* Every variable keeps its type, and the local variables the values that    *)
(* the code which reads them relies on: no step is numbered past the plan,   *)
(* no worker inside run() and no request under way is without a job.        *)
(***************************************************************************)
THEOREM TypeCorrect == Spec => []TypeOK
  <1>1. TypeInv => TypeOK
    BY DEF TypeInv
  <1>2. QED
    BY <1>1, InitTypeInv, TypeInvNext, PTL DEF Spec

-----------------------------------------------------------------------------
(* The write discipline *)

\* A step that touches neither files nor records, and brings no worker to a
\* live read or to a write, keeps the discipline.
LEMMA DisciplineFrame ==
    ASSUME TypeInv, WriteDiscipline, UNCHANGED <<recordVars, driveVars>>,
           \A w \in Workers : pc'[w] \in {"capture", "apply"} =>
               pc'[w] = pc[w] /\ at'[w] = at[w] /\ seen'[w] = seen[w]
    PROVE  WriteDiscipline'
  BY DEF WriteDiscipline, recordVars, driveVars

LEMMA InitDiscipline == Init => WriteDiscipline
  BY DEF Init, WriteDiscipline

LEMMA DisciplineClients ==
    ASSUME TypeInv, WriteDiscipline, NEW c \in Clients, ClientStep(c) PROVE WriteDiscipline'
  <1>1. UNCHANGED <<recordVars, driveVars, workerVars>>
    BY DEF ClientStep, Publish, PublishLost, ResumeCommits, RollbackReads, JobApproved,
           ResumeReads, RollbackCommits
  <1>2. QED
    BY <1>1, DisciplineFrame DEF workerVars, localVars

\* The steps of a worker other than the five that read, record, write or restore.
LEMMA DisciplineOtherSteps ==
    ASSUME TypeInv, WriteDiscipline, NEW w \in Workers,
           \/ \E j \in Job : RunDenied(w, j) \/ RunStarts(w, j)
           \/ LoopStarts(w) \/ TokenFails(w)
           \/ ObservesCancel(w) \/ ObservesPause(w) \/ RunAborts(w)
           \/ SkipsDecided(w) \/ TakesStep(w) \/ StepCompletes(w) \/ StepFails(w)
           \/ FinishesForward(w) \/ \E s \in Step : RestoreRefused(w, s)
           \/ UndoFails(w) \/ FinishesRollback(w)
           \/ Refreshes(w) \/ RefreshFails(w) \/ Acks(w)
    PROVE  WriteDiscipline'
  <1>1. UNCHANGED <<recordVars, driveVars>>
    BY DEF RunDenied, RunStarts, LoopStarts, TokenFails, ObservesCancel, ObservesPause,
           RunAborts, SkipsDecided, TakesStep, StepCompletes, StepFails, Decides,
           FinishesForward, RestoreRefused, UndoFails, FinishesRollback, Refreshes,
           RefreshFails, Acks
  <1> DEFINE Quiet == \A v \in Workers : pc'[v] \in {"capture", "apply"} =>
                          pc'[v] = pc[v] /\ at'[v] = at[v] /\ seen'[v] = seen[v]
  <1>2. Quiet
    <2> USE DEF TypeInv, TypeOK, localVars
    <2>1. ASSUME NEW j \in Job, RunDenied(w, j) \/ RunStarts(w, j) PROVE Quiet
      BY <2>1 DEF RunDenied, RunStarts, Receives
    <2>2. ASSUME LoopStarts(w) \/ SkipsDecided(w) PROVE Quiet
      BY <2>2 DEF LoopStarts, SkipsDecided
    <2>3. ASSUME TokenFails(w) \/ Acks(w) PROVE Quiet
      BY <2>3 DEF TokenFails, Acks, Leaves
    <2>4. ASSUME ObservesCancel(w) \/ ObservesPause(w) \/ RunAborts(w) \/ TakesStep(w)
          PROVE  Quiet
      BY <2>4 DEF ObservesCancel, ObservesPause, RunAborts, TakesStep
    <2>5. ASSUME StepCompletes(w) \/ StepFails(w) PROVE Quiet
      BY <2>5 DEF StepCompletes, StepFails, Decides
    <2>6. ASSUME FinishesForward(w) \/ FinishesRollback(w) \/ UndoFails(w)
                 \/ Refreshes(w) \/ RefreshFails(w)
          PROVE  Quiet
      BY <2>6 DEF FinishesForward, FinishesRollback, UndoFails, Refreshes, RefreshFails
    <2>7. ASSUME NEW s \in Step, RestoreRefused(w, s) PROVE Quiet
      BY <2>7 DEF RestoreRefused
    <2>8. QED
      BY <2>1, <2>2, <2>3, <2>4, <2>5, <2>6, <2>7
  <1>3. QED
    BY <1>1, <1>2, DisciplineFrame

LEMMA DisciplineNext == TypeInv /\ WriteDiscipline /\ [Next]_vars => WriteDiscipline'
  <1> SUFFICES ASSUME TypeInv, WriteDiscipline, [Next]_vars PROVE WriteDiscipline'
    OBVIOUS
  <1> USE DEF TypeInv, TypeOK, LocalsOK
  <1>1. ASSUME NEW w \in Workers, ReadsFile(w) PROVE WriteDiscipline'
    BY <1>1 DEF ReadsFile, WriteDiscipline, recordVars, driveVars
  <1>2. ASSUME NEW w \in Workers, SavesRecord(w) PROVE WriteDiscipline'
    BY <1>2 DEF SavesRecord, NoRecordYet, WriteDiscipline, driveVars, localVars
  <1>3. ASSUME NEW w \in Workers, Writes(w) PROVE WriteDiscipline'
    BY <1>3 DEF Writes, WriteDiscipline, recordVars, localVars
  <1>4. ASSUME NEW w \in Workers, NEW s \in Step, Restores(w, s) PROVE WriteDiscipline'
    BY <1>4 DEF Restores, WriteDiscipline, recordVars
  <1>5. ASSUME NEW w \in Workers, UndoCommits(w) PROVE WriteDiscipline'
    BY <1>5 DEF UndoCommits, WriteDiscipline, driveVars
  <1>6. ASSUME NEW w \in Workers, Crashes(w) PROVE WriteDiscipline'
    <2>1. \A v \in Workers : pc'[v] \in {"capture", "apply"} =>
              pc'[v] = pc[v] /\ at'[v] = at[v] /\ seen'[v] = seen[v]
      BY <1>6 DEF Crashes, Leaves
    <2>2. QED BY <1>6, <2>1, DisciplineFrame DEF Crashes
  <1>7. ASSUME NEW s \in Step, Drifts(s) PROVE WriteDiscipline'
    BY <1>7 DEF Drifts, WriteDiscipline, recordVars, workerVars, localVars
  <1>8. ASSUME \/ \E j \in Job : Cancel(j) \/ Pause(j)
               \/ ConnectorChanges \/ UNCHANGED vars
        PROVE  WriteDiscipline'
    <2>1. UNCHANGED <<recordVars, driveVars, workerVars>>
      BY <1>8 DEF Cancel, Pause, ConnectorChanges, vars
    <2>2. QED BY <2>1, DisciplineFrame DEF workerVars, localVars
  <1>9. QED
    BY <1>1, <1>2, <1>3, <1>4, <1>5, <1>6, <1>7, <1>8, DisciplineClients,
       DisciplineOtherSteps DEF Next, WorkerStep

LEMMA Discipline == Spec => [](TypeInv /\ WriteDiscipline)
  <1>1. Init => TypeInv /\ WriteDiscipline
    BY InitTypeInv, InitDiscipline
  <1>2. TypeInv /\ WriteDiscipline /\ [Next]_vars => (TypeInv /\ WriteDiscipline)'
    BY TypeInvNext, DisciplineNext
  <1>3. QED
    BY <1>1, <1>2, PTL DEF Spec

(***************************************************************************)
(* The order of record, write and commit, as the engine keeps it step by     *)
(* step: whoever is about to write has recorded first, and alone.            *)
(***************************************************************************)
THEOREM WriteDisciplineHolds == Spec => []WriteDiscipline
  BY Discipline, PTL

(***************************************************************************)
(* A file the engine has changed can be put back: there is a committed       *)
(* record of it, and the record does not hold the changed state.            *)
(***************************************************************************)
THEOREM WayBackHolds == Spec => []WayBack
  <1>1. TypeInv /\ WriteDiscipline => WayBack
    BY DEF TypeInv, TypeOK, WriteDiscipline, WayBack
  <1>2. QED
    BY <1>1, Discipline, PTL

(***************************************************************************)
(* No number of crashes, redeliveries, resumptions or concurrent approvals   *)
(* makes the engine change a file twice for one step.                       *)
(***************************************************************************)
THEOREM AtMostOneWriteHolds == Spec => []AtMostOneWrite
  <1>1. WriteDiscipline => AtMostOneWrite
    BY DEF WriteDiscipline, AtMostOneWrite
  <1>2. QED
    BY <1>1, Discipline, PTL

-----------------------------------------------------------------------------
(* No job is lost *)

Waiting(j) == jobStatus[j] \in {"pending", "running"}

\* A step that makes no job wait, takes no message and no request about to
\* enqueue, and leaves every worker inside run(), loses no job.
LEMMA LostFrame ==
    ASSUME NoJobLost,
           \A j \in Job : Waiting(j)' => Waiting(j),
           \A j \in Job : queue[j] > 0 => queue'[j] > 0,
           \A j \in Job : Waiting(j)' /\ Running(j) => Running(j)' \/ queue'[j] > 0,
           \A j \in Job : Publishing(j) => Publishing(j)' \/ queue'[j] > 0
    PROVE  NoJobLost'
  BY DEF NoJobLost, Waiting

LEMMA NoJobLostClients ==
    ASSUME ~PublishFaults, TypeInv, NoJobLost, NEW c \in Clients, ClientStep(c)
    PROVE  NoJobLost'
  <1> USE DEF TypeInv, TypeOK, LocalsOK, NoJobLost, Publishing
  <1>1. CASE UNCHANGED <<pc, jobOf>>
    <2>1. \A j \in Job : Running(j)' <=> Running(j)
      BY <1>1 DEF Running
    <2>2. CASE Publish(c)
      BY <2>1, <2>2 DEF Publish, jobVars
    <2>3. CASE ResumeCommits(c)
      BY <2>1, <2>3 DEF ResumeCommits
    <2>4. CASE RollbackReads(c)
      BY <2>1, <2>4 DEF RollbackReads, jobVars
    <2>5. ASSUME NEW j \in Job, JobApproved(c, j) PROVE NoJobLost'
      BY <2>1, <2>5 DEF JobApproved
    <2>6. ASSUME NEW j \in Job, ResumeReads(c, j) PROVE NoJobLost'
      BY <2>1, <2>6 DEF ResumeReads, jobVars
    <2>7. ASSUME NEW j \in Job, RollbackCommits(c, j) PROVE NoJobLost'
      BY <2>1, <2>7 DEF RollbackCommits, SpareRollback
    <2>8. QED
      BY <2>2, <2>3, <2>4, <2>5, <2>6, <2>7 DEF ClientStep, PublishLost
  <1>2. UNCHANGED <<pc, jobOf>>
    BY DEF ClientStep, Publish, PublishLost, ResumeCommits, RollbackReads, JobApproved,
           ResumeReads, RollbackCommits, workerVars
  <1>3. QED
    BY <1>1, <1>2

\* A worker that ends its job's run leaves the job in a state that waits for nobody.
LEMMA NoJobLostEnds ==
    ASSUME TypeInv, NoJobLost, NEW w \in Workers, pc[w] # "idle", NEW status,
           status \notin {"pending", "running"},
           jobStatus' = [jobStatus EXCEPT ![jobOf[w]] = status],
           \A v \in Workers : v # w => pc'[v] = pc[v],
           UNCHANGED <<queue, jobOf, clientVars>>
    PROVE  NoJobLost'
  <1> USE DEF TypeInv, TypeOK, LocalsOK
  <1>1. \A j \in Job : Waiting(j)' => Waiting(j) /\ j # jobOf[w]
    BY DEF Waiting
  <1>2. \A j \in Job : Waiting(j)' /\ Running(j) => Running(j)'
    BY <1>1 DEF Running
  <1>3. \A j \in Job : Publishing(j)' <=> Publishing(j)
    BY DEF Publishing, clientVars
  <1>4. QED
    BY <1>1, <1>2, <1>3, LostFrame

\* A worker that goes on with its run changes nothing that the claim is about.
LEMMA NoJobLostGoesOn ==
    ASSUME TypeInv, NoJobLost, NEW w \in Workers,
           \/ LoopStarts(w) \/ SkipsDecided(w) \/ TakesStep(w) \/ ReadsFile(w)
           \/ SavesRecord(w) \/ Writes(w) \/ StepCompletes(w) \/ StepFails(w)
           \/ \E s \in Step : Restores(w, s) \/ RestoreRefused(w, s)
           \/ UndoCommits(w) \/ UndoFails(w)
    PROVE  NoJobLost'
  <1> USE DEF TypeInv, TypeOK
  <1>1. UNCHANGED <<jobStatus, queue, jobOf, client, clientJob>>
    BY DEF LoopStarts, SkipsDecided, TakesStep, ReadsFile, SavesRecord, Writes, StepCompletes,
           StepFails, Decides, Restores, RestoreRefused, UndoCommits, UndoFails, jobVars,
           clientVars, localVars
  <1>2. \A v \in Workers : pc[v] \notin {"refresh", "ack"} => pc'[v] \notin {"refresh", "ack"}
    <2>1. CASE LoopStarts(w) BY <2>1 DEF LoopStarts
    <2>2. CASE SkipsDecided(w) BY <2>2 DEF SkipsDecided
    <2>3. CASE TakesStep(w) \/ ReadsFile(w) \/ SavesRecord(w) \/ Writes(w)
      BY <2>3 DEF TakesStep, ReadsFile, SavesRecord, Writes
    <2>4. CASE StepCompletes(w) \/ StepFails(w)
      BY <2>4 DEF StepCompletes, StepFails, Decides
    <2>5. ASSUME NEW s \in Step, Restores(w, s) \/ RestoreRefused(w, s)
          PROVE  <1>2
      BY <2>5 DEF Restores, RestoreRefused
    <2>6. CASE UndoCommits(w) \/ UndoFails(w)
      BY <2>6 DEF UndoCommits, UndoFails
    <2>7. QED BY <2>1, <2>2, <2>3, <2>4, <2>5, <2>6
  <1>3. \A j \in Job : (Running(j) => Running(j)') /\ (Publishing(j)' <=> Publishing(j))
    BY <1>1, <1>2 DEF Running, Publishing
  <1>4. QED
    BY <1>1, <1>3, LostFrame DEF Waiting

LEMMA NoJobLostWorkers ==
    ASSUME ~TokenFaults, ~PublishFaults, TypeInv, NoJobLost, NEW w \in Workers, WorkerStep(w)
    PROVE  NoJobLost'
  <1> USE ConstantsAssumption DEF TypeInv, TypeOK, LocalsOK
  <1>1. ASSUME NEW j \in Job, RunDenied(w, j) PROVE NoJobLost'
    <2>1. \A k \in Job : Waiting(k)' => Waiting(k) /\ k # j
      BY <1>1 DEF RunDenied, Waiting
    <2>2. \A k \in Job : k # j => queue'[k] = queue[k]
      BY <1>1 DEF RunDenied, Receives
    <2>3. \A k \in Job : Running(k) => Running(k)'
      BY <1>1 DEF RunDenied, Receives, Running
    <2>4. \A k \in Job : Publishing(k)' <=> Publishing(k)
      BY <1>1 DEF RunDenied, Publishing, clientVars
    <2>5. QED
      BY <2>1, <2>2, <2>3, <2>4 DEF NoJobLost, Waiting
  <1>2. ASSUME NEW j \in Job, RunStarts(w, j) PROVE NoJobLost'
    <2>1. \A k \in Job : k # j => (Waiting(k)' <=> Waiting(k)) /\ queue'[k] = queue[k]
      BY <1>2 DEF RunStarts, Receives, Waiting
    <2>2. Running(j)' /\ \A k \in Job : Running(k) => Running(k)'
      BY <1>2 DEF RunStarts, Receives, Running
    <2>3. \A k \in Job : Publishing(k)' <=> Publishing(k)
      BY <1>2 DEF RunStarts, Publishing, clientVars
    <2>4. QED
      BY <2>1, <2>2, <2>3 DEF NoJobLost, Waiting
  <1>3. CASE ObservesCancel(w)
    <2>1. pc[w] # "idle" /\ jobStatus' = [jobStatus EXCEPT ![jobOf[w]] = "cancelled"]
      BY <1>3 DEF ObservesCancel, AtStep, AtUndo
    <2>2. \A v \in Workers : v # w => pc'[v] = pc[v]
      BY <1>3 DEF ObservesCancel
    <2>3. UNCHANGED <<queue, jobOf, clientVars>>
      BY <1>3 DEF ObservesCancel
    <2>4. "cancelled" \notin {"pending", "running"}
      OBVIOUS
    <2>5. HIDE DEF TypeInv, TypeOK, LocalsOK
    <2>6. QED BY <2>1, <2>2, <2>3, <2>4, NoJobLostEnds
  <1>4. CASE ObservesPause(w)
    <2>1. pc[w] # "idle" /\ jobStatus' = [jobStatus EXCEPT ![jobOf[w]] = "paused"]
      BY <1>4 DEF ObservesPause, AtStep, AtUndo
    <2>2. \A v \in Workers : v # w => pc'[v] = pc[v]
      BY <1>4 DEF ObservesPause
    <2>3. UNCHANGED <<queue, jobOf, clientVars>>
      BY <1>4 DEF ObservesPause
    <2>4. "paused" \notin {"pending", "running"}
      OBVIOUS
    <2>5. HIDE DEF TypeInv, TypeOK, LocalsOK
    <2>6. QED BY <2>1, <2>2, <2>3, <2>4, NoJobLostEnds
  <1>5. CASE RunAborts(w)
    BY <1>5, NoJobLostEnds DEF RunAborts
  <1>6. CASE FinishesForward(w)
    <2>1. ForwardVerdict(tally[w]) \notin {"pending", "running"}
      BY DEF ForwardVerdict
    <2>2. QED BY <1>6, <2>1, NoJobLostEnds DEF FinishesForward, PastLastStep
  <1>7. CASE FinishesRollback(w)
    <2>1. RollbackVerdict(tally[w]) \notin {"pending", "running"}
      BY DEF RollbackVerdict
    <2>2. QED BY <1>7, <2>1, NoJobLostEnds DEF FinishesRollback
  <1>8. CASE Refreshes(w) \/ Acks(w)
    <2>1. \A j \in Job : (Running(j) => Running(j)') /\ (Publishing(j)' <=> Publishing(j))
      BY <1>8 DEF Refreshes, Acks, Leaves, Running, Publishing, clientVars
    <2>2. QED BY <1>8, <2>1, LostFrame DEF Refreshes, Acks, Waiting, jobVars
  <1>9. CASE RefreshFails(w)
    <2>1. pc[w] # "idle" /\ jobStatus' = [jobStatus EXCEPT ![jobOf[w]] = "failed"]
      BY <1>9 DEF RefreshFails
    <2>2. \A v \in Workers : v # w => pc'[v] = pc[v]
      BY <1>9 DEF RefreshFails
    <2>3. UNCHANGED <<queue, jobOf, clientVars>>
      BY <1>9 DEF RefreshFails
    <2>4. "failed" \notin {"pending", "running"}
      OBVIOUS
    <2>5. HIDE DEF TypeInv, TypeOK, LocalsOK
    <2>6. QED BY <2>1, <2>2, <2>3, <2>4, NoJobLostEnds
  <1> HIDE DEF TypeInv, TypeOK, LocalsOK
  <1>10. QED
    BY <1>1, <1>2, <1>3, <1>4, <1>5, <1>6, <1>7, <1>8, <1>9, NoJobLostGoesOn
       DEF WorkerStep, TokenFails

LEMMA NoJobLostNext ==
    ASSUME ~TokenFaults, ~PublishFaults, TypeInv, NoJobLost, [Next]_vars
    PROVE  NoJobLost'
  <1> USE DEF TypeInv, TypeOK, LocalsOK
  <1>1. ASSUME NEW w \in Workers, Crashes(w) PROVE NoJobLost'
    <2>1. \A j \in Job : queue[j] > 0 => queue'[j] > 0
      BY <1>1 DEF Crashes, AfterCrash
    <2>2. \A j \in Job : Running(j) => Running(j)' \/ queue'[j] > 0
      BY <1>1 DEF Crashes, AfterCrash, Leaves, Running
    <2>3. \A j \in Job : (Publishing(j)' <=> Publishing(j)) /\ (Waiting(j)' <=> Waiting(j))
      BY <1>1 DEF Crashes, Publishing, Waiting, jobVars, clientVars
    <2>4. QED BY <2>1, <2>2, <2>3, LostFrame
  <1>2. ASSUME \/ \E j \in Job : Cancel(j) \/ Pause(j)
               \/ \E s \in Step : Drifts(s)
               \/ ConnectorChanges \/ UNCHANGED vars
        PROVE  NoJobLost'
    <2>1. UNCHANGED <<jobStatus, queue, pc, jobOf, client, clientJob>>
      BY <1>2 DEF Cancel, Pause, Drifts, ConnectorChanges, vars, jobVars, workerVars, clientVars
    <2>2. QED BY <2>1 DEF NoJobLost, Running, Publishing
  <1>3. QED
    BY <1>1, <1>2, NoJobLostClients, NoJobLostWorkers DEF Next

(***************************************************************************)
(* Where no token request and no enqueue fails, a waiting or running job     *)
(* always has a message, a worker or a request behind it, however many       *)
(* workers crash: "no lost job state" (celery_app.py:42-43).                *)
(***************************************************************************)
THEOREM NoJobLostHolds ==
    ASSUME ~TokenFaults, ~PublishFaults PROVE Spec => []NoJobLost
  <1>1. Init => NoJobLost
    BY DEF Init, NoJobLost
  <1>2. TypeInv /\ NoJobLost /\ [Next]_vars => NoJobLost'
    BY NoJobLostNext
  <1>3. QED
    BY <1>1, <1>2, InitTypeInv, TypeInvNext, PTL DEF Spec

-----------------------------------------------------------------------------
(* A completed job has decided every step *)

ForwardPc == {"step", "check", "capture", "apply", "settle", "broken"}
UndoPc    == {"undo", "undone", "undo_broken"}
Complete(j) == jobStatus[j] \in {"completed", "partially_completed"}
Decided(s)  == stepStatus[s] # "pending"

\* What a run has behind it is decided, and the loops keep to their own jobs.
LoopInv ==
    /\ \A w \in Workers :
          /\ pc[w] \in ForwardPc =>
                jobOf[w] \in ForwardJobs /\ \A s \in Step : s < at[w] => Decided(s)
          /\ pc[w] \in UndoPc => jobOf[w] \in RollbackJobs
    /\ CompletedMeansDecided

\* A step that brings no worker forward and completes no forward job.
LEMMA LoopFrame ==
    ASSUME LoopInv,
           \A s \in Step : Decided(s) => Decided(s)',
           \A w \in Workers : pc'[w] \in ForwardPc =>
               pc[w] \in ForwardPc /\ jobOf'[w] = jobOf[w] /\ at'[w] = at[w],
           \A w \in Workers : pc'[w] \in UndoPc => pc[w] \in UndoPc /\ jobOf'[w] = jobOf[w],
           \A j \in ForwardJobs : Complete(j)' => Complete(j)
    PROVE  LoopInv'
  BY DEF LoopInv, CompletedMeansDecided, Complete, Decided

\* No action makes a decided step pending again.
LEMMA DecidedStays ==
    ASSUME TypeInv, [Next]_vars, NEW s \in Step, Decided(s) PROVE Decided(s)'
  <1> USE DEF TypeInv, TypeOK, LocalsOK, Decided
  <1>1. ASSUME NEW w \in Workers, StepCompletes(w) \/ StepFails(w) PROVE Decided(s)'
    BY <1>1 DEF StepCompletes, StepFails, Decides
  <1>2. ASSUME NEW w \in Workers, UndoCommits(w) PROVE Decided(s)'
    BY <1>2 DEF UndoCommits
  <1>3. ASSUME NEW w \in Workers, WorkerStep(w) PROVE Decided(s)'
    BY <1>1, <1>2, <1>3 DEF WorkerStep, RunDenied, RunStarts, LoopStarts, TokenFails,
       ObservesCancel, ObservesPause, RunAborts, SkipsDecided, TakesStep, ReadsFile, SavesRecord,
       Writes, FinishesForward, Restores, RestoreRefused, UndoFails, FinishesRollback,
       Refreshes, RefreshFails, Acks, stepVars
  <1>4. ASSUME NEW c \in Clients, ClientStep(c) PROVE Decided(s)'
    BY <1>4 DEF ClientStep, Publish, PublishLost, ResumeCommits, RollbackReads, JobApproved,
       ResumeReads, RollbackCommits, stepVars
  <1>5. QED
    BY <1>3, <1>4 DEF Next, Cancel, Pause, Crashes, Drifts, ConnectorChanges, vars, stepVars

LEMMA LoopInvClients ==
    ASSUME TypeInv, LoopInv, NEW c \in Clients, ClientStep(c) PROVE LoopInv'
  <1> USE DEF TypeInv, TypeOK, LocalsOK
  <1>1. UNCHANGED <<stepStatus, pc, jobOf, at>>
    BY DEF ClientStep, Publish, PublishLost, ResumeCommits, RollbackReads, JobApproved,
       ResumeReads, RollbackCommits, stepVars, workerVars, localVars
  <1>2. \A j \in Job : Complete(j)' => Complete(j)
    BY DEF Complete, ClientStep, Publish, PublishLost, ResumeCommits, RollbackReads, JobApproved,
       ResumeReads, RollbackCommits, SpareRollback, jobVars
  <1>3. QED
    BY <1>1, <1>2, LoopFrame DEF Decided, Job

\* The end of a run that completes no forward job.
LEMMA LoopInvEnds ==
    ASSUME TypeInv, LoopInv, NEW w \in Workers, NEW status, NEW next \in {"refresh", "ack"},
           \A s \in Step : Decided(s) => Decided(s)',
           jobStatus' = [jobStatus EXCEPT ![jobOf[w]] = status],
           status \notin {"completed", "partially_completed"} \/ jobOf[w] \in RollbackJobs,
           pc' = [pc EXCEPT ![w] = next],
           UNCHANGED <<jobOf, at>>
    PROVE  LoopInv'
  <1>1. \A j \in ForwardJobs : Complete(j)' => Complete(j)
    BY ConstantsAssumption DEF TypeInv, TypeOK, Complete, Job
  <1>2. \A v \in Workers : pc'[v] \in ForwardPc \cup UndoPc => pc'[v] = pc[v]
    BY DEF TypeInv, TypeOK, ForwardPc, UndoPc
  <1>3. QED
    BY <1>1, <1>2, LoopFrame

LEMMA LoopInvWorkers ==
    ASSUME TypeInv, LoopInv, NEW w \in Workers, WorkerStep(w) PROVE LoopInv'
  <1>0. \A s \in Step : Decided(s) => Decided(s)'
    BY DecidedStays DEF Next
  <1> USE DEF TypeInv, TypeOK
  <1>1. ASSUME NEW j \in Job, RunDenied(w, j) \/ RunStarts(w, j) PROVE LoopInv'
    <2>1. \A k \in Job : Complete(k)' => Complete(k)
      BY <1>1 DEF RunDenied, RunStarts, Complete
    <2>2. \A v \in Workers : pc'[v] \in ForwardPc \cup UndoPc =>
              pc'[v] = pc[v] /\ jobOf'[v] = jobOf[v] /\ at'[v] = at[v]
      BY <1>1 DEF RunDenied, RunStarts, Receives, localVars, ForwardPc, UndoPc
    <2>3. QED BY <1>0, <2>1, <2>2, LoopFrame DEF Job
  <1>2. CASE LoopStarts(w)
    <2>1. UNCHANGED <<jobStatus, stepStatus, jobOf>>
      BY <1>2 DEF LoopStarts, jobVars, stepVars
    <2>2. \A v \in Workers : v # w => pc'[v] = pc[v] /\ at'[v] = at[v]
      BY <1>2 DEF LoopStarts
    <2>3. at'[w] = 1 /\ jobOf[w] \in Job /\
          pc'[w] = IF jobOf[w] \in ForwardJobs THEN "step" ELSE "undo"
      BY <1>2 DEF LoopStarts, LocalsOK
    <2>4. \A s \in Step : ~(s < at'[w])
      BY <2>3 DEF Step
    <2>5. QED
      BY <2>1, <2>2, <2>3, <2>4 DEF LoopInv, CompletedMeansDecided, Decided, ForwardPc, UndoPc, Job
  <1>3. CASE TokenFails(w) \/ Acks(w)
    <2>1. \A v \in Workers : pc'[v] \in ForwardPc \cup UndoPc =>
              pc'[v] = pc[v] /\ jobOf'[v] = jobOf[v] /\ at'[v] = at[v]
      BY <1>3 DEF TokenFails, Acks, Leaves, ForwardPc, UndoPc
    <2>2. jobStatus' = jobStatus
      BY <1>3 DEF TokenFails, Acks, jobVars
    <2>3. QED BY <1>0, <2>1, <2>2, LoopFrame DEF Complete
  <1>4. CASE ObservesCancel(w)
    BY <1>0, <1>4, LoopInvEnds DEF ObservesCancel, localVars
  <1>5. CASE ObservesPause(w)
    BY <1>0, <1>5, LoopInvEnds DEF ObservesPause, localVars
  <1>6. CASE RunAborts(w)
    BY <1>0, <1>6, LoopInvEnds DEF RunAborts, localVars
  <1>7. CASE SkipsDecided(w) \/ StepCompletes(w) \/ StepFails(w)
    <2>1. at[w] \in Step /\ pc[w] \in ForwardPc
      BY <1>7 DEF SkipsDecided, StepCompletes, StepFails, LocalsOK, ForwardPc, Step
    <2>2. stepStatus'[at[w]] # "pending"
      BY <1>7, <2>1 DEF SkipsDecided, StepCompletes, StepFails, Decides, Decided, stepVars
    <2>3. at' = [at EXCEPT ![w] = @ + 1] /\ UNCHANGED <<jobStatus, jobOf>>
      BY <1>7 DEF SkipsDecided, StepCompletes, StepFails, Decides, jobVars
    <2>4. pc'[w] = "step" /\ \A v \in Workers : v # w => pc'[v] = pc[v]
      BY <1>7 DEF SkipsDecided, StepCompletes, StepFails, Decides
    <2>5. \A s \in Step : s < at'[w] => s < at[w] \/ s = at[w]
      BY <2>1, <2>3 DEF Step
    <2>6. \A s \in Step : s < at'[w] => Decided(s)'
      BY <1>0, <2>1, <2>2, <2>5 DEF LoopInv, Decided
    <2>7. \A v \in Workers : v # w => at'[v] = at[v]
      BY <2>3
    <2>8. CompletedMeansDecided'
      BY <1>0, <2>3 DEF LoopInv, CompletedMeansDecided, Decided
    <2>9. QED
      BY <1>0, <2>1, <2>3, <2>4, <2>6, <2>7, <2>8 DEF LoopInv, ForwardPc, UndoPc
  <1>8. CASE TakesStep(w) \/ ReadsFile(w) \/ SavesRecord(w) \/ Writes(w)
    <2>1. UNCHANGED <<jobStatus, jobOf, at>>
      BY <1>8 DEF TakesStep, ReadsFile, SavesRecord, Writes, jobVars, localVars
    <2>2. pc[w] \in ForwardPc /\ pc'[w] \in ForwardPc \ UndoPc
      BY <1>8 DEF TakesStep, ReadsFile, SavesRecord, Writes, AtStep, ForwardPc, UndoPc
    <2>3. \A v \in Workers : v # w => pc'[v] = pc[v]
      BY <1>8 DEF TakesStep, ReadsFile, SavesRecord, Writes
    <2>4. QED BY <1>0, <2>1, <2>2, <2>3, LoopFrame DEF Complete
  <1>9. CASE FinishesForward(w)
    <2>1. \A s \in Step : Decided(s)
      BY <1>9, ConstantsAssumption DEF FinishesForward, PastLastStep, LoopInv, ForwardPc, Step
    <2>2. \A v \in Workers : pc'[v] \in ForwardPc \cup UndoPc =>
              pc'[v] = pc[v] /\ jobOf'[v] = jobOf[v] /\ at'[v] = at[v]
      BY <1>9 DEF FinishesForward, localVars, ForwardPc, UndoPc
    <2>3. QED BY <1>0, <2>1, <2>2 DEF LoopInv, CompletedMeansDecided, Decided
  <1>10. ASSUME NEW s \in Step, Restores(w, s) \/ RestoreRefused(w, s) PROVE LoopInv'
    <2>1. UNCHANGED <<jobStatus, jobOf>> /\ pc[w] = "undo" /\ pc'[w] \in UndoPc
      BY <1>10 DEF Restores, RestoreRefused, AtUndo, jobVars, UndoPc
    <2>2. \A v \in Workers : v # w => pc'[v] = pc[v] /\ at'[v] = at[v]
      BY <1>10 DEF Restores, RestoreRefused
    <2>3. QED BY <1>0, <2>1, <2>2, LoopFrame DEF Complete, ForwardPc, UndoPc
  <1>11. CASE UndoCommits(w) \/ UndoFails(w)
    <2>1. UNCHANGED <<jobStatus, jobOf, at>> /\ pc[w] \in UndoPc /\ pc'[w] = "undo"
      BY <1>11 DEF UndoCommits, UndoFails, jobVars, UndoPc
    <2>2. \A v \in Workers : v # w => pc'[v] = pc[v]
      BY <1>11 DEF UndoCommits, UndoFails
    <2>3. QED BY <1>0, <2>1, <2>2, LoopFrame DEF Complete, ForwardPc, UndoPc
  <1>12. CASE FinishesRollback(w)
    <2>1. jobOf[w] \in RollbackJobs
      BY <1>12 DEF FinishesRollback, LoopInv, UndoPc
    <2>2. QED BY <1>0, <1>12, <2>1, LoopInvEnds DEF FinishesRollback, localVars
  <1>13. CASE Refreshes(w)
    <2>1. \A v \in Workers : pc'[v] \in ForwardPc \cup UndoPc => pc'[v] = pc[v]
      BY <1>13 DEF Refreshes, ForwardPc, UndoPc
    <2>2. QED BY <1>0, <1>13, <2>1, LoopFrame DEF Refreshes, Complete, jobVars, localVars
  <1>14. CASE RefreshFails(w)
    BY <1>0, <1>14, LoopInvEnds DEF RefreshFails, localVars
  <1>15. QED
    BY <1>1, <1>2, <1>3, <1>4, <1>5, <1>6, <1>7, <1>8, <1>9, <1>10, <1>11, <1>12, <1>13, <1>14
       DEF WorkerStep

LEMMA LoopInvNext == TypeInv /\ LoopInv /\ [Next]_vars => LoopInv'
  <1> SUFFICES ASSUME TypeInv, LoopInv, [Next]_vars PROVE LoopInv'
    OBVIOUS
  <1>0. \A s \in Step : Decided(s) => Decided(s)'
    BY DecidedStays
  <1>1. ASSUME NEW w \in Workers, Crashes(w) PROVE LoopInv'
    <2>1. \A v \in Workers : pc'[v] \in ForwardPc \cup UndoPc =>
              pc'[v] = pc[v] /\ jobOf'[v] = jobOf[v] /\ at'[v] = at[v]
      BY <1>1 DEF TypeInv, TypeOK, Crashes, Leaves, ForwardPc, UndoPc
    <2>2. QED BY <1>0, <1>1, <2>1, LoopFrame DEF Crashes, Complete, jobVars
  <1>2. ASSUME \/ \E j \in Job : Cancel(j) \/ Pause(j)
               \/ \E s \in Step : Drifts(s)
               \/ ConnectorChanges \/ UNCHANGED vars
        PROVE  LoopInv'
    <2>1. UNCHANGED <<jobStatus, stepStatus, pc, jobOf, at>>
      BY <1>2 DEF Cancel, Pause, Drifts, ConnectorChanges, vars, jobVars, stepVars, workerVars,
         localVars
    <2>2. QED BY <2>1, LoopFrame DEF Complete, Decided
  <1>3. QED
    BY <1>1, <1>2, LoopInvClients, LoopInvWorkers DEF Next

(***************************************************************************)
(* A forward job that says it is completed, in full or in part, has decided  *)
(* every step of the plan, whatever crashed or ran twice on the way.        *)
(***************************************************************************)
THEOREM CompletedMeansDecidedHolds == Spec => []CompletedMeansDecided
  <1>1. Init => LoopInv
    BY DEF Init, LoopInv, CompletedMeansDecided, ForwardPc, UndoPc, Job
  <1>2. LoopInv => CompletedMeansDecided
    BY DEF LoopInv
  <1>3. QED
    BY <1>1, <1>2, InitTypeInv, TypeInvNext, LoopInvNext, PTL DEF Spec

-----------------------------------------------------------------------------
(* The engine implements WriteAheadRecord *)

\* Only three kinds of step touch a record or make a change.
LEMMA LedgerQuiet ==
    ASSUME TypeInv, [Next]_vars,
           \A w \in Workers : ~SavesRecord(w) /\ ~Writes(w) /\ ~UndoCommits(w)
    PROVE  UNCHANGED <<record, writes>>
  <1>1. ASSUME NEW w \in Workers, WorkerStep(w) PROVE UNCHANGED <<record, writes>>
    BY <1>1 DEF WorkerStep, RunDenied, RunStarts, LoopStarts, TokenFails, ObservesCancel,
       ObservesPause, RunAborts, SkipsDecided, TakesStep, ReadsFile, StepCompletes, StepFails,
       Decides, FinishesForward, Restores, RestoreRefused, UndoFails, FinishesRollback,
       Refreshes, RefreshFails, Acks, recordVars, driveVars
  <1>2. ASSUME NEW c \in Clients, ClientStep(c) PROVE UNCHANGED <<record, writes>>
    BY <1>2 DEF ClientStep, Publish, PublishLost, ResumeCommits, RollbackReads, JobApproved,
       ResumeReads, RollbackCommits, recordVars, driveVars
  <1>3. QED
    BY <1>1, <1>2 DEF Next, Cancel, Pause, Crashes, Drifts, ConnectorChanges, vars, recordVars,
       driveVars

\* A rollback works from records: they are on its list, and never go away.
UndoKnown ==
    \A w \in Workers : /\ \A s \in todo[w] : record[s] # "none"
                       /\ pc[w] = "undone" => record[at[w]] # "none"

LEMMA RecordStays ==
    ASSUME TypeInv, [Next]_vars, NEW s \in Step, record[s] # "none" PROVE record'[s] # "none"
  <1>1. ASSUME NEW w \in Workers, SavesRecord(w) \/ UndoCommits(w) PROVE record'[s] # "none"
    BY <1>1 DEF SavesRecord, UndoCommits, TypeInv, TypeOK
  <1>2. ASSUME NEW w \in Workers, Writes(w) PROVE record'[s] # "none"
    BY <1>2 DEF Writes, recordVars
  <1>3. QED
    BY <1>1, <1>2, LedgerQuiet

LEMMA UndoKnownNext ==
    ASSUME TypeInv, UndoKnown, [Next]_vars PROVE UndoKnown'
  <1> USE DEF TypeInv, TypeOK, LocalsOK
  <1> DEFINE Known == \A w \in Workers :
                /\ todo'[w] \subseteq todo[w] \cup HeldRecords
                /\ pc'[w] = "undone" => /\ at'[w] \in Step
                                        /\ \/ pc[w] = "undone" /\ at'[w] = at[w]
                                           \/ at'[w] \in todo[w]
  <1>1. ASSUME Known PROVE UndoKnown'
    <2>1. \A s \in Step : record[s] # "none" => record'[s] # "none"
      BY RecordStays
    <2>2. \A w \in Workers : todo'[w] \subseteq Step /\
              \A s \in todo'[w] : record[s] # "none"
      BY <1>1 DEF UndoKnown, HeldRecords
    <2>3. \A w \in Workers : pc'[w] = "undone" => at'[w] \in Step /\ record[at'[w]] # "none"
      BY <1>1 DEF UndoKnown
    <2>4. QED BY <2>1, <2>2, <2>3 DEF UndoKnown
  <1>2. ASSUME NEW w \in Workers, WorkerStep(w) PROVE Known
    <2>1. ASSUME NEW s \in Step, Restores(w, s) \/ RestoreRefused(w, s) PROVE Known
      BY <2>1 DEF Restores, RestoreRefused
    <2>2. CASE LoopStarts(w) BY <2>2 DEF LoopStarts
    <2>3. CASE TokenFails(w) \/ Acks(w) BY <2>3 DEF TokenFails, Acks, Leaves
    <2>4. ASSUME NEW j \in Job, RunDenied(w, j) \/ RunStarts(w, j) PROVE Known
      BY <2>4 DEF RunDenied, RunStarts, Receives, localVars
    <2>5. CASE ObservesCancel(w) \/ ObservesPause(w) \/ RunAborts(w) \/ TakesStep(w)
      BY <2>5 DEF ObservesCancel, ObservesPause, RunAborts, TakesStep, localVars
    <2>6. CASE SkipsDecided(w)
      BY <2>6 DEF SkipsDecided
    <2>7. CASE ReadsFile(w) \/ SavesRecord(w) \/ Writes(w)
      BY <2>7 DEF ReadsFile, SavesRecord, Writes, localVars
    <2>8. CASE StepCompletes(w) \/ StepFails(w)
      BY <2>8 DEF StepCompletes, StepFails, Decides
    <2>9. CASE FinishesForward(w) \/ FinishesRollback(w) \/ Refreshes(w) \/ RefreshFails(w)
      BY <2>9 DEF FinishesForward, FinishesRollback, Refreshes, RefreshFails, localVars
    <2>10. CASE UndoCommits(w) \/ UndoFails(w)
      BY <2>10 DEF UndoCommits, UndoFails
    <2>11. QED
      BY <1>2, <2>1, <2>2, <2>3, <2>4, <2>5, <2>6, <2>7, <2>8, <2>9, <2>10 DEF WorkerStep
  <1>3. ASSUME NEW w \in Workers, Crashes(w) PROVE Known
    BY <1>3 DEF Crashes, Leaves
  <1>4. ASSUME UNCHANGED workerVars PROVE Known
    BY <1>4 DEF workerVars, localVars
  <1>5. UNCHANGED workerVars \/ \E w \in Workers : WorkerStep(w) \/ Crashes(w)
    BY DEF Next, ClientStep, Publish, PublishLost, ResumeCommits, RollbackReads, JobApproved,
       ResumeReads, RollbackCommits, Cancel, Pause, Drifts, ConnectorChanges, vars
  <1>6. QED
    BY <1>1, <1>2, <1>3, <1>4, <1>5

LEMMA LedgerInit == Init => Ledger!Init
  BY DEF Init, Ledger!Init

LEMMA LedgerNext ==
    ASSUME TypeInv, WriteDiscipline, UndoKnown, [Next]_vars
    PROVE  [Ledger!Next]_<<{s \in Step : record[s] # "none"}, {s \in Step : writes[s] > 0},
                           {s \in Step : record[s] = "rolled_back"}>>
  <1> USE DEF TypeInv, TypeOK, LocalsOK, Ledger!Next, Ledger!Record, Ledger!Change, Ledger!Undo
  <1>1. ASSUME NEW w \in Workers, SavesRecord(w) PROVE Ledger!Record(at[w])
    <2>1. at[w] \in Step /\ record[at[w]] = "none" /\ record' = [record EXCEPT ![at[w]] = "held"]
      BY <1>1 DEF SavesRecord, NoRecordYet
    <2>2. writes' = writes BY <1>1 DEF SavesRecord, driveVars
    <2>3. QED BY <2>1, <2>2
  <1>2. ASSUME NEW w \in Workers, Writes(w) PROVE Ledger!Change(at[w])
    <2>1. at[w] \in Step /\ record[at[w]] # "none" /\ writes[at[w]] = 0
      BY <1>2 DEF Writes, WriteDiscipline
    <2>2. record' = record /\ writes' = [writes EXCEPT ![at[w]] = @ + 1]
      BY <1>2 DEF Writes, recordVars
    <2>3. writes'[at[w]] > 0 /\ \A s \in Step : s # at[w] => writes'[s] = writes[s]
      BY <2>1, <2>2
    <2>4. QED BY <2>1, <2>2, <2>3
  <1>3. ASSUME NEW w \in Workers, UndoCommits(w)
        PROVE  \/ Ledger!Undo(at[w])
               \/ UNCHANGED <<record, writes>>
    <2>1. at[w] \in Step /\ record' = [record EXCEPT ![at[w]] = "rolled_back"] /\ writes' = writes
      BY <1>3 DEF UndoCommits, driveVars
    <2>2. CASE record[at[w]] = "rolled_back" BY <2>1, <2>2
    <2>3. CASE record[at[w]] = "held"
      BY <2>1, <2>3
    <2>4. record[at[w]] # "none" BY <1>3 DEF UndoCommits, UndoKnown
    <2>5. QED BY <2>1, <2>2, <2>3, <2>4
  <1>4. QED
    BY <1>1, <1>2, <1>3, LedgerQuiet

(***************************************************************************)
(* The Execution Engine implements WriteAheadRecord.                        *)
(***************************************************************************)
THEOREM EngineWritesAhead == Spec => WritesAhead
  <1>1. Init => UndoKnown
    BY DEF Init, UndoKnown
  <1>2. TypeInv /\ WriteDiscipline /\ [Next]_vars => WriteDiscipline'
    BY DisciplineNext
  <1>3. TypeInv /\ UndoKnown /\ [Next]_vars => UndoKnown'
    BY UndoKnownNext
  <1>4. QED
    BY <1>1, <1>2, <1>3, InitTypeInv, TypeInvNext, InitDiscipline, LedgerInit, LedgerNext, PTL
       DEF Spec, WritesAhead, Ledger!Spec

-----------------------------------------------------------------------------
(***************************************************************************)
(* From here on: what holds where no worker process is lost and the control  *)
(* API serves one request at a time. Every message is delivered once, so     *)
(* every run of a job is the only one. Any number of workers, steps, rollback *)
(* jobs, pauses and outside changes; any failure of a token request, of an    *)
(* enqueue or of a refresh, except where a theorem says so.                   *)
(***************************************************************************)

\* No message is delivered again, and no two requests overlap: resume and
\* trigger_rollback commit what they read before, and take no lock.
Orderly == MaxCrashes = 0 /\ \A c, d \in Clients : c = d

\* The plan is approved once.
ApprovedOnce == \A f, g \in ForwardJobs : f = g

-----------------------------------------------------------------------------
(* One delivery of a job at a time *)

BusyPc  == {"token"} \cup ForwardPc \cup UndoPc
Busy(w) == pc[w] \in BusyPc

(***************************************************************************)
(* A job has its message in the broker, or one worker in its loop, or a      *)
(* request about to enqueue or to resume it, or none of these, and its        *)
(* status says which.                                                      *)
(***************************************************************************)
OneDelivery ==
    /\ \A j \in Job : queue[j] <= 1 /\ (queue[j] > 0 => jobStatus[j] = "pending")
    /\ \A w \in Workers : Busy(w) => jobStatus[jobOf[w]] = "running"
    /\ \A w \in Workers : pc[w] = "refresh" => jobStatus[jobOf[w]] \in Terminal
    /\ \A v, w \in Workers : Busy(v) /\ Busy(w) /\ jobOf[v] = jobOf[w] => v = w
    /\ \A c \in Clients : client[c] = "publish" =>
          jobStatus[clientJob[c]] = "pending" /\ queue[clientJob[c]] = 0
    /\ \A c \in Clients : client[c] \in {"resume", "unset"} =>
          jobStatus[clientJob[c]] = "paused"

\* What a step of a worker does to the job's status, its message and its run.
Starts(w, j, status, next) ==
    /\ pc[w] = "idle" /\ queue[j] > 0
    /\ queue' = [queue EXCEPT ![j] = @ - 1]
    /\ jobOf' = [jobOf EXCEPT ![w] = j]
    /\ jobStatus' = [jobStatus EXCEPT ![j] = status]
    /\ pc' = [pc EXCEPT ![w] = next]
    /\ <<status, next>> \in {<<"failed", "ack">>, <<"running", "token">>}
    /\ UNCHANGED <<client, clientJob>>

Ends(w, status, next) ==
    /\ Busy(w)
    /\ status \in Terminal \cup {"paused"} /\ next \in {"refresh", "ack"}
    /\ next = "refresh" => status \in Terminal
    /\ jobStatus' = [jobStatus EXCEPT ![jobOf[w]] = status]
    /\ pc' = [pc EXCEPT ![w] = next]
    /\ UNCHANGED <<queue, jobOf, client, clientJob>>

GoesOn(w) ==
    /\ Busy(w) /\ pc'[w] \in BusyPc
    /\ \A v \in Workers : v # w => pc'[v] = pc[v]
    /\ UNCHANGED <<jobStatus, queue, jobOf, client, clientJob>>

Quits(w) ==
    /\ \A v \in Workers : pc'[v] \in BusyPc \cup {"refresh"} =>
           pc'[v] = pc[v] /\ jobOf'[v] = jobOf[v]
    /\ UNCHANGED <<jobStatus, queue, client, clientJob>>

LEMMA WorkerShape ==
    ASSUME TypeInv, NEW w \in Workers, WorkerStep(w)
    PROVE  \/ \E j \in Job : Starts(w, j, "failed", "ack") \/ Starts(w, j, "running", "token")
           \/ \E status \in JobStatus, next \in WorkerPc : Ends(w, status, next)
           \/ GoesOn(w) \/ Quits(w) \/ RefreshFails(w)
  <1> DEFINE Shape == \/ \E j \in Job : Starts(w, j, "failed", "ack") \/ Starts(w, j, "running", "token")
                      \/ \E status \in JobStatus, next \in WorkerPc : Ends(w, status, next)
                      \/ GoesOn(w) \/ Quits(w) \/ RefreshFails(w)
  <1> USE DEF TypeInv, TypeOK, Busy, BusyPc, ForwardPc, UndoPc
  <1>1. ASSUME NEW j \in Job, RunDenied(w, j) PROVE Shape
    BY <1>1 DEF RunDenied, Receives, Starts, clientVars
  <1>2. ASSUME NEW j \in Job, RunStarts(w, j) PROVE Shape
    BY <1>2 DEF RunStarts, Receives, Starts, clientVars
  <1>3. CASE LoopStarts(w)
    BY <1>3 DEF LoopStarts, GoesOn, jobVars, clientVars
  <1>4. CASE TokenFails(w) \/ Acks(w)
    BY <1>4 DEF TokenFails, Acks, Leaves, Quits, jobVars, clientVars
  <1>5. CASE ObservesCancel(w)
    <2>1. Ends(w, "cancelled", "ack")
      BY <1>5 DEF ObservesCancel, AtStep, AtUndo, Ends, Terminal, clientVars
    <2>2. QED BY <2>1 DEF JobStatus, WorkerPc
  <1>6. CASE ObservesPause(w)
    <2>1. Ends(w, "paused", "ack")
      BY <1>6 DEF ObservesPause, AtStep, AtUndo, Ends, clientVars
    <2>2. QED BY <2>1 DEF JobStatus, WorkerPc
  <1>7. CASE RunAborts(w)
    <2>1. Ends(w, "failed", "ack")
      BY <1>7 DEF RunAborts, Ends, Terminal, clientVars
    <2>2. QED BY <2>1 DEF JobStatus, WorkerPc
  <1>8. CASE FinishesForward(w)
    <2>1. ForwardVerdict(tally[w]) \in Terminal
      BY DEF ForwardVerdict, Terminal
    <2>2. PICK next \in {"refresh", "ack"} : pc' = [pc EXCEPT ![w] = next]
      BY <1>8 DEF FinishesForward
    <2>3. Ends(w, ForwardVerdict(tally[w]), next)
      BY <1>8, <2>1, <2>2 DEF FinishesForward, PastLastStep, Ends, localVars, clientVars
    <2>4. QED BY <2>1, <2>2, <2>3 DEF JobStatus, Terminal, WorkerPc
  <1>9. CASE FinishesRollback(w)
    <2>1. RollbackVerdict(tally[w]) \in Terminal
      BY DEF RollbackVerdict, Terminal
    <2>2. PICK next \in {"refresh", "ack"} : pc' = [pc EXCEPT ![w] = next]
      BY <1>9 DEF FinishesRollback
    <2>3. Ends(w, RollbackVerdict(tally[w]), next)
      BY <1>9, <2>1, <2>2 DEF FinishesRollback, Ends, localVars, clientVars
    <2>4. QED BY <2>1, <2>2, <2>3 DEF JobStatus, Terminal, WorkerPc
  <1>10. CASE SkipsDecided(w) \/ TakesStep(w) \/ ReadsFile(w) \/ SavesRecord(w) \/ Writes(w)
    BY <1>10 DEF SkipsDecided, TakesStep, AtStep, ReadsFile, SavesRecord, Writes, GoesOn,
       jobVars, localVars, clientVars
  <1>11. CASE StepCompletes(w) \/ StepFails(w)
    BY <1>11 DEF StepCompletes, StepFails, Decides, GoesOn, jobVars, clientVars
  <1>12. ASSUME NEW s \in Step, Restores(w, s) \/ RestoreRefused(w, s) PROVE Shape
    BY <1>12 DEF Restores, RestoreRefused, AtUndo, GoesOn, jobVars, clientVars
  <1>13. CASE UndoCommits(w) \/ UndoFails(w)
    BY <1>13 DEF UndoCommits, UndoFails, GoesOn, jobVars, clientVars
  <1>14. CASE Refreshes(w)
    BY <1>14 DEF Refreshes, Quits, jobVars, clientVars
  <1>15. QED
    BY <1>1, <1>2, <1>3, <1>4, <1>5, <1>6, <1>7, <1>8, <1>9, <1>10, <1>11, <1>12, <1>13, <1>14
       DEF WorkerStep

LEMMA OneDeliveryWorkers ==
    ASSUME TypeInv, OneDelivery, NEW w \in Workers, WorkerStep(w) PROVE OneDelivery'
  <1> USE DEF TypeInv, TypeOK, LocalsOK, Busy
  <1>1. ASSUME NEW j \in Job, NEW status, NEW next, Starts(w, j, status, next)
        PROVE  OneDelivery'
    <2>1. /\ jobStatus[j] = "pending" /\ queue[j] = 1
          /\ \A v \in Workers : Busy(v) \/ pc[v] = "refresh" => jobOf[v] # j
          /\ \A c \in Clients : client[c] \in {"publish", "resume", "unset"} => clientJob[c] # j
      <3>1. jobStatus[j] = "pending" /\ queue[j] = 1
        BY <1>1 DEF OneDelivery, Starts
      <3>2. \A v \in Workers : Busy(v) \/ pc[v] = "refresh" => jobOf[v] # j
        BY <3>1 DEF OneDelivery, Terminal
      <3>3. \A c \in Clients : client[c] \in {"publish", "resume", "unset"} => clientJob[c] # j
        BY <3>1 DEF OneDelivery
      <3>4. QED BY <3>1, <3>2, <3>3
    <2>2. /\ queue'[j] = 0 /\ jobStatus'[j] = status
          /\ \A k \in Job : k # j => queue'[k] = queue[k] /\ jobStatus'[k] = jobStatus[k]
      BY <1>1, <2>1 DEF Starts
    <2>3. /\ jobOf'[w] = j /\ pc'[w] = next
          /\ \A v \in Workers : v # w => pc'[v] = pc[v] /\ jobOf'[v] = jobOf[v]
      BY <1>1 DEF Starts
    <2>4. /\ Busy(w)' => status = "running"
          /\ pc'[w] # "refresh"
      BY <1>1, <2>3 DEF Starts, BusyPc, ForwardPc, UndoPc
    <2>5. \A v \in Workers : Busy(v) \/ pc[v] = "refresh" => jobOf[v] \in Job
      BY DEF BusyPc, ForwardPc, UndoPc
    <2>6. QED
      BY <1>1, <2>1, <2>2, <2>3, <2>4, <2>5 DEF OneDelivery, Starts
  <1>2. ASSUME NEW status, NEW next, Ends(w, status, next) PROVE OneDelivery'
    <2>1. /\ jobStatus[jobOf[w]] = "running" /\ jobOf[w] \in Job
          /\ queue[jobOf[w]] = 0
          /\ \A v \in Workers : (Busy(v) /\ v # w) \/ pc[v] = "refresh" => jobOf[v] # jobOf[w]
          /\ \A c \in Clients : client[c] \in {"publish", "resume", "unset"} =>
                clientJob[c] # jobOf[w]
      <3>1. Busy(w) /\ pc[w] # "idle" /\ jobStatus[jobOf[w]] = "running" /\ jobOf[w] \in Job
        BY <1>2 DEF OneDelivery, Ends, BusyPc, ForwardPc, UndoPc
      <3>2. queue[jobOf[w]] = 0
        BY <3>1 DEF OneDelivery
      <3>3. \A v \in Workers : (Busy(v) /\ v # w) \/ pc[v] = "refresh" => jobOf[v] # jobOf[w]
        BY <3>1 DEF OneDelivery, Terminal
      <3>4. \A c \in Clients : client[c] \in {"publish", "resume", "unset"} =>
                clientJob[c] # jobOf[w]
        BY <3>1 DEF OneDelivery
      <3>5. QED BY <3>1, <3>2, <3>3, <3>4
    <2>2. /\ jobStatus'[jobOf[w]] = status
          /\ \A k \in Job : k # jobOf[w] => jobStatus'[k] = jobStatus[k]
      BY <1>2, <2>1 DEF Ends
    <2>3. /\ pc'[w] = next /\ ~Busy(w)' /\ (pc'[w] = "refresh" => status \in Terminal)
          /\ \A v \in Workers : v # w => pc'[v] = pc[v]
      BY <1>2 DEF Ends, BusyPc, ForwardPc, UndoPc
    <2>4. \A v \in Workers : Busy(v) \/ pc[v] = "refresh" => jobOf[v] \in Job
      BY DEF BusyPc, ForwardPc, UndoPc
    <2>5. QED
      BY <1>2, <2>1, <2>2, <2>3, <2>4 DEF OneDelivery, Ends
  <1>3. CASE GoesOn(w)
    <2>1. \A v \in Workers : /\ Busy(v)' => Busy(v)
                             /\ pc'[v] = "refresh" => pc[v] = "refresh"
      BY <1>3 DEF GoesOn, BusyPc, ForwardPc, UndoPc
    <2>2. QED BY <1>3, <2>1 DEF OneDelivery, GoesOn
  <1>4. CASE Quits(w)
    BY <1>4 DEF OneDelivery, Quits
  <1>5. CASE RefreshFails(w)
    <2>1. /\ jobOf[w] \in Job /\ jobStatus[jobOf[w]] \in Terminal /\ ~Busy(w)
          /\ jobStatus' = [jobStatus EXCEPT ![jobOf[w]] = "failed"]
      BY <1>5 DEF RefreshFails, OneDelivery, BusyPc, ForwardPc, UndoPc
    <2>2. UNCHANGED <<queue, jobOf, client, clientJob>> /\ pc' = [pc EXCEPT ![w] = "ack"]
      BY <1>5 DEF RefreshFails, clientVars
    <2>3. \A k \in Job : \/ jobStatus'[k] = jobStatus[k]
                         \/ jobStatus[k] \in Terminal /\ jobStatus'[k] = "failed"
      BY <2>1
    <2>4. \A v \in Workers : /\ Busy(v) \/ pc[v] = "refresh" => jobOf[v] \in Job
                             /\ Busy(v)' => Busy(v)
                             /\ pc'[v] = "refresh" => pc[v] = "refresh"
      BY <2>2 DEF BusyPc, ForwardPc, UndoPc
    <2>5. QED
      <3>1. \A k \in Job : jobStatus[k] \notin Terminal => jobStatus'[k] = jobStatus[k]
        BY <2>3
      <3>2. \A k \in Job : jobStatus[k] \in Terminal => jobStatus'[k] \in Terminal
        BY <2>3 DEF Terminal
      <3>3. \A v \in Workers : Busy(v)' => jobStatus'[jobOf'[v]] = "running"
        BY <2>2, <2>4, <3>1 DEF OneDelivery, Terminal
      <3>4. \A c \in Clients :
              /\ client'[c] = "publish" =>
                    jobStatus'[clientJob'[c]] = "pending" /\ queue'[clientJob'[c]] = 0
              /\ client'[c] \in {"resume", "unset"} => jobStatus'[clientJob'[c]] = "paused"
        BY <2>2, <3>1 DEF OneDelivery, Terminal
      <3>5. \A j \in Job : queue'[j] <= 1 /\ (queue'[j] > 0 => jobStatus'[j] = "pending")
        BY <2>2, <3>1 DEF OneDelivery, Terminal
      <3>6. QED
        BY <2>2, <2>4, <3>2, <3>3, <3>4, <3>5 DEF OneDelivery
  <1>6. QED
    BY <1>1, <1>2, <1>3, <1>4, <1>5, WorkerShape

LEMMA OneDeliveryClients ==
    ASSUME Orderly, TypeInv, OneDelivery, NEW c \in Clients, ClientStep(c) PROVE OneDelivery'
  <1> USE DEF TypeInv, TypeOK, LocalsOK, Busy, Orderly
  <1>0. UNCHANGED <<pc, jobOf>> /\ \A v \in Workers : Busy(v) \/ pc[v] = "refresh" => jobOf[v] \in Job
    BY DEF ClientStep, Publish, PublishLost, ResumeCommits, RollbackReads, JobApproved,
       ResumeReads, RollbackCommits, workerVars, BusyPc, ForwardPc, UndoPc
  <1>1. CASE Publish(c)
    BY <1>0, <1>1 DEF Publish, OneDelivery, jobVars
  <1>2. CASE PublishLost(c)
    BY <1>0, <1>2 DEF PublishLost, OneDelivery, jobVars
  <1>3. CASE ResumeCommits(c)
    BY <1>0, <1>3 DEF ResumeCommits, OneDelivery, Terminal
  <1>4. CASE RollbackReads(c)
    BY <1>0, <1>4 DEF RollbackReads, OneDelivery, jobVars
  <1>5. ASSUME NEW j \in Job, JobApproved(c, j) PROVE OneDelivery'
    <2>1. jobStatus[j] = "none" /\ queue[j] = 0 /\ jobStatus' = [jobStatus EXCEPT ![j] = "pending"]
      <3>1. jobStatus[j] = "none" /\ jobStatus' = [jobStatus EXCEPT ![j] = "pending"]
        BY <1>5 DEF JobApproved
      <3>2. QED BY <3>1 DEF OneDelivery
    <2>2. \A v \in Workers : Busy(v) \/ pc[v] = "refresh" => jobOf[v] # j
      BY <2>1 DEF OneDelivery, Terminal
    <2>3. QED BY <1>0, <1>5, <2>1, <2>2 DEF JobApproved, OneDelivery
  <1>6. ASSUME NEW j \in Job, ResumeReads(c, j) PROVE OneDelivery'
    BY <1>0, <1>6 DEF ResumeReads, Resumable, OneDelivery, jobVars
  <1>7. ASSUME NEW j \in Job, RollbackCommits(c, j) PROVE OneDelivery'
    <2>1. jobStatus[j] = "none" /\ jobStatus' = [jobStatus EXCEPT ![j] = "pending"]
      BY <1>7 DEF RollbackCommits, SpareRollback
    <2>2. queue[j] = 0
      BY <2>1 DEF OneDelivery
    <2>3. \A v \in Workers : Busy(v) \/ pc[v] = "refresh" => jobOf[v] # j
      BY <2>1 DEF OneDelivery, Terminal
    <2>4. /\ client[c] = "rollback" /\ client' = [client EXCEPT ![c] = "publish"]
          /\ clientJob' = [clientJob EXCEPT ![c] = j] /\ UNCHANGED queue
      BY <1>7 DEF RollbackCommits
    <2>5. QED BY <1>0, <2>1, <2>2, <2>3, <2>4 DEF OneDelivery
  <1>8. QED
    BY <1>1, <1>2, <1>3, <1>4, <1>5, <1>6, <1>7 DEF ClientStep

\* The steps of neither a worker nor a request: no crash is left of them.
LEMMA OutsideShape ==
    ASSUME Orderly, TypeInv, [Next]_vars,
           \A w \in Workers : ~WorkerStep(w), \A c \in Clients : ~ClientStep(c)
    PROVE  /\ UNCHANGED <<jobStatus, planStatus, stepVars, recordVars, queue, workerVars, clientVars>>
           /\ UNCHANGED driveVars \/ drifts' # 0
           /\ drifts' = 0 => drifts = 0
  <1>1. \A w \in Workers : ~Crashes(w)
    BY ConstantsAssumption DEF Orderly, TypeInv, TypeOK, Crashes
  <1>2. ASSUME NEW s \in Step, Drifts(s) PROVE drifts' # 0
    BY <1>2 DEF Drifts, TypeInv, TypeOK
  <1>3. QED
    BY <1>1, <1>2 DEF Next, Cancel, Pause, Drifts, ConnectorChanges, vars, jobVars, clientVars,
       boundVars

LEMMA OneDeliveryNext ==
    ASSUME Orderly, TypeInv, OneDelivery, [Next]_vars PROVE OneDelivery'
  <1>1. ASSUME \A w \in Workers : ~WorkerStep(w), \A c \in Clients : ~ClientStep(c)
        PROVE  OneDelivery'
    <2>1. UNCHANGED <<jobStatus, queue, pc, jobOf, client, clientJob>>
      BY <1>1, OutsideShape DEF workerVars, clientVars
    <2>2. QED BY <2>1 DEF OneDelivery, Busy
  <1>2. QED
    BY <1>1, OneDeliveryWorkers, OneDeliveryClients

LEMMA InitOneDelivery == Init => OneDelivery
  BY DEF Init, OneDelivery, Busy, BusyPc, ForwardPc, UndoPc

LEMMA OneDeliveryAlways == Orderly => (Spec => [](TypeInv /\ OneDelivery))
  <1> SUFFICES ASSUME Orderly PROVE Spec => [](TypeInv /\ OneDelivery)
    OBVIOUS
  <1>1. Init => TypeInv /\ OneDelivery
    BY InitTypeInv, InitOneDelivery
  <1>2. TypeInv /\ OneDelivery /\ [Next]_vars => (TypeInv /\ OneDelivery)'
    BY TypeInvNext, OneDeliveryNext
  <1>3. QED
    BY <1>1, <1>2, PTL DEF Spec

-----------------------------------------------------------------------------
(* An ended job stays ended *)

LEMMA TerminalStep ==
    ASSUME Orderly, ~RefreshFaults, TypeInv, OneDelivery, [Next]_vars,
           NEW j \in Job, jobStatus[j] \in Terminal
    PROVE  jobStatus'[j] = jobStatus[j]
  <1> USE DEF TypeInv, TypeOK, LocalsOK
  <1>1. ASSUME NEW w \in Workers, WorkerStep(w) PROVE jobStatus'[j] = jobStatus[j]
    <2>1. ASSUME NEW k \in Job, NEW status, NEW next, Starts(w, k, status, next)
          PROVE  jobStatus'[j] = jobStatus[j]
      <3>1. jobStatus[k] = "pending" /\ jobStatus' = [jobStatus EXCEPT ![k] = status]
        BY <2>1 DEF Starts, OneDelivery
      <3>2. QED BY <3>1 DEF Terminal
    <2>2. ASSUME NEW status, NEW next, Ends(w, status, next)
          PROVE  jobStatus'[j] = jobStatus[j]
      <3>1. /\ jobStatus[jobOf[w]] = "running"
            /\ jobStatus' = [jobStatus EXCEPT ![jobOf[w]] = status]
        BY <2>2 DEF Ends, OneDelivery
      <3>2. QED BY <3>1 DEF Terminal
    <2>3. QED
      BY <1>1, <2>1, <2>2, WorkerShape DEF GoesOn, Quits, RefreshFails
  <1>2. ASSUME NEW c \in Clients, ClientStep(c) PROVE jobStatus'[j] = jobStatus[j]
    <2>1. CASE ResumeCommits(c)
      <3>1. /\ jobStatus[clientJob[c]] = "paused"
            /\ jobStatus' = [jobStatus EXCEPT ![clientJob[c]] = "pending"]
        BY <2>1 DEF ResumeCommits, OneDelivery
      <3>2. QED BY <3>1 DEF Terminal
    <2>2. ASSUME NEW k \in Job, JobApproved(c, k) \/ RollbackCommits(c, k)
          PROVE  jobStatus'[j] = jobStatus[j]
      BY <2>2 DEF JobApproved, RollbackCommits, SpareRollback, Terminal
    <2>3. QED
      BY <1>2, <2>1, <2>2 DEF ClientStep, Publish, PublishLost, RollbackReads, ResumeReads, jobVars
  <1>3. QED
    BY <1>1, <1>2, OutsideShape

(***************************************************************************)
(* An ended job never starts again, however its requests and its messages    *)
(* interleave with the workers: no message of it is left in the broker, and  *)
(* nobody is about to resume it.  RefreshFaults is excluded because an        *)
(* enqueue that raises inside run()'s try marks an ended job failed.         *)
(***************************************************************************)
THEOREM TerminalIsFinalHolds ==
    ASSUME Orderly, ~RefreshFaults PROVE Spec => TerminalIsFinal
  <1>1. TypeInv /\ OneDelivery /\ [Next]_vars =>
          [\A j \in Job : jobStatus[j] \in Terminal => jobStatus'[j] = jobStatus[j]]_vars
    BY TerminalStep
  <1>2. QED
    BY <1>1, OneDeliveryAlways, PTL DEF Spec, TerminalIsFinal

-----------------------------------------------------------------------------
(* One execution_result of a forward job for each step *)

OnStep == {"check", "capture", "apply", "settle", "broken"}

(***************************************************************************)
(* A step with a result is decided, so no later run of the job takes it up;  *)
(* a run that has taken a step up has not recorded a result for it yet.      *)
(***************************************************************************)
ResultInv ==
    /\ \A j \in ForwardJobs, s \in Step :
          results[j][s] <= 1 /\ (results[j][s] > 0 => Decided(s))
    /\ \A w \in Workers : pc[w] \in OnStep => results[jobOf[w]][at[w]] = 0

\* A step that adds no result and takes no step up.
LEMMA ResultFrame ==
    ASSUME ResultInv, results' = results, \A s \in Step : Decided(s) => Decided(s)',
           \A w \in Workers : pc'[w] \in OnStep =>
               pc[w] \in OnStep /\ jobOf'[w] = jobOf[w] /\ at'[w] = at[w]
    PROVE  ResultInv'
  BY DEF ResultInv, Decided

LEMMA ResultInvWorkers ==
    ASSUME TypeInv, OneDelivery, LoopInv, ResultInv, NEW w \in Workers, WorkerStep(w)
    PROVE  ResultInv'
  <1> USE DEF TypeInv, TypeOK, LocalsOK, OnStep
  <1>0. \A s \in Step : Decided(s) => Decided(s)'
    BY DecidedStays DEF Next
  <1>1. CASE StepCompletes(w) \/ StepFails(w)
    <2>1. PICK status \in {"completed", "failed"}, outcome \in Outcome :
              Decides(w, status, outcome)
      BY <1>1 DEF StepCompletes, StepFails, Outcome
    <2>2. pc[w] \in OnStep /\ at[w] \in Step /\ jobOf[w] \in ForwardJobs
      BY <1>1 DEF StepCompletes, StepFails, LoopInv, ForwardPc
    <2>3. results[jobOf[w]][at[w]] = 0
      BY <2>2 DEF ResultInv
    <2>4. stepStatus'[at[w]] # "pending"
      <3>1. stepStatus' = [stepStatus EXCEPT ![at[w]] = status] BY <2>1 DEF Decides
      <3>2. stepStatus'[at[w]] = status BY <2>2, <3>1
      <3>3. QED BY <3>2
    <2>5. /\ results'[jobOf[w]][at[w]] = 1
          /\ \A j \in Job, s \in Step : j # jobOf[w] \/ s # at[w] => results'[j][s] = results[j][s]
      BY <2>1, <2>2, <2>3 DEF Decides, Job
    <2>6. /\ pc'[w] = "step" /\ UNCHANGED jobOf
          /\ \A v \in Workers : v # w => pc'[v] = pc[v] /\ at'[v] = at[v]
      BY <2>1 DEF Decides
    <2>7. \A v \in Workers : pc[v] \in OnStep /\ v # w => jobOf[v] # jobOf[w]
      <3>1. \A v \in Workers : pc[v] \in OnStep => Busy(v)
        BY DEF Busy, BusyPc, ForwardPc
      <3>2. QED BY <2>2, <3>1 DEF OneDelivery
    <2>8. \A j \in ForwardJobs, s \in Step :
              results'[j][s] <= 1 /\ (results'[j][s] > 0 => Decided(s)')
      BY <1>0, <2>4, <2>5 DEF ResultInv, Job, Decided
    <2>9. \A v \in Workers : pc'[v] \in OnStep => results'[jobOf'[v]][at'[v]] = 0
      BY <2>5, <2>6, <2>7 DEF ResultInv
    <2>10. QED BY <2>8, <2>9 DEF ResultInv
  <1>2. CASE UndoCommits(w) \/ UndoFails(w)
    <2>1. jobOf[w] \in RollbackJobs /\ at[w] \in Step
      BY <1>2 DEF UndoCommits, UndoFails, LoopInv, UndoPc
    <2>2. results' = [results EXCEPT ![jobOf[w]][at[w]] = @ + 1]
      BY <1>2 DEF UndoCommits, UndoFails
    <2>3. \A j \in ForwardJobs : results'[j] = results[j]
      BY <2>1, <2>2, ConstantsAssumption DEF Job
    <2>4. UNCHANGED <<jobOf, at>> /\ pc' = [pc EXCEPT ![w] = "undo"]
      BY <1>2 DEF UndoCommits, UndoFails
    <2>5. \A v \in Workers : pc[v] \in OnStep => jobOf[v] \in ForwardJobs
      BY DEF LoopInv, ForwardPc
    <2>6. QED BY <1>0, <2>3, <2>4, <2>5 DEF ResultInv
  <1>3. CASE TakesStep(w)
    <2>1. at[w] \in Step /\ ~Decided(at[w]) /\ jobOf[w] \in ForwardJobs
      BY <1>3 DEF TakesStep, AtStep, LoopInv, ForwardPc, Step, Decided
    <2>2. results[jobOf[w]][at[w]] = 0
      BY <2>1 DEF ResultInv, Job
    <2>3. UNCHANGED <<results, stepStatus, jobOf, at>> /\ pc' = [pc EXCEPT ![w] = "check"]
      BY <1>3 DEF TakesStep, stepVars, localVars
    <2>4. QED BY <2>2, <2>3 DEF ResultInv, Decided
  <1>4. ASSUME results' = results,
               \A v \in Workers : pc'[v] \in OnStep =>
                   pc[v] \in OnStep /\ jobOf'[v] = jobOf[v] /\ at'[v] = at[v]
        PROVE  ResultInv'
    BY <1>0, <1>4, ResultFrame
  <1>5. ASSUME NEW j \in Job, RunDenied(w, j) \/ RunStarts(w, j) PROVE ResultInv'
    BY <1>4, <1>5 DEF RunDenied, RunStarts, Receives, stepVars, localVars
  <1>6. CASE LoopStarts(w)
    BY <1>4, <1>6 DEF LoopStarts, stepVars
  <1>7. CASE TokenFails(w) \/ Acks(w)
    BY <1>4, <1>7 DEF TokenFails, Acks, Leaves, stepVars
  <1>8. CASE ObservesCancel(w) \/ ObservesPause(w) \/ RunAborts(w)
    BY <1>4, <1>8 DEF ObservesCancel, ObservesPause, RunAborts, stepVars, localVars
  <1>9. CASE SkipsDecided(w)
    BY <1>4, <1>9 DEF SkipsDecided, stepVars
  <1>10. CASE ReadsFile(w) \/ SavesRecord(w) \/ Writes(w)
    BY <1>4, <1>10 DEF ReadsFile, SavesRecord, Writes, stepVars, localVars
  <1>11. CASE FinishesForward(w) \/ FinishesRollback(w) \/ Refreshes(w) \/ RefreshFails(w)
    BY <1>4, <1>11 DEF FinishesForward, FinishesRollback, Refreshes, RefreshFails, stepVars,
       localVars
  <1>12. ASSUME NEW s \in Step, Restores(w, s) \/ RestoreRefused(w, s) PROVE ResultInv'
    BY <1>4, <1>12 DEF Restores, RestoreRefused, stepVars
  <1>13. QED
    BY <1>1, <1>2, <1>3, <1>5, <1>6, <1>7, <1>8, <1>9, <1>10, <1>11, <1>12 DEF WorkerStep

\* Requests and the outside world leave the workers and what they decided alone.
LEMMA ClientShape ==
    ASSUME NEW c \in Clients, ClientStep(c)
    PROVE  UNCHANGED <<stepVars, recordVars, driveVars, workerVars, boundVars>>
  BY DEF ClientStep, Publish, PublishLost, ResumeCommits, RollbackReads, JobApproved,
     ResumeReads, RollbackCommits

LEMMA ResultInvNext ==
    ASSUME Orderly, TypeInv, OneDelivery, LoopInv, ResultInv, [Next]_vars PROVE ResultInv'
  <1>1. ASSUME UNCHANGED <<stepVars, workerVars>> PROVE ResultInv'
    BY <1>1 DEF ResultInv, Decided, stepVars, workerVars, localVars
  <1>2. QED
    BY <1>1, ClientShape, OutsideShape, ResultInvWorkers

(***************************************************************************)
(* A forward job records at most one execution_result per step, over any     *)
(* number of pauses, resumptions, aborts and concurrent approvals: the key    *)
(* of execution_result.py:31-34, which no database constraint enforces.      *)
(***************************************************************************)
THEOREM OneForwardResultHolds ==
    ASSUME Orderly PROVE Spec => []OneForwardResult
  <1> DEFINE I == TypeInv /\ OneDelivery /\ LoopInv /\ ResultInv
  <1>1. Init => I
    <2>1. Init => LoopInv
      BY DEF Init, LoopInv, CompletedMeansDecided, ForwardPc, UndoPc, Job
    <2>2. Init => ResultInv
      BY DEF Init, ResultInv, OnStep, Job
    <2>3. QED BY <2>1, <2>2, InitTypeInv, InitOneDelivery
  <1>2. I /\ [Next]_vars => I'
    BY TypeInvNext, OneDeliveryNext, LoopInvNext, ResultInvNext
  <1>3. I => OneForwardResult
    BY DEF ResultInv, OneForwardResult
  <1>4. QED
    BY <1>1, <1>2, <1>3, PTL DEF Spec

-----------------------------------------------------------------------------
(* One run of the plan at a time *)

(***************************************************************************)
(* Of all the plan's jobs one at most is waiting, running or paused; nobody   *)
(* is about to roll back while one is; and nothing is recorded, nor rolled   *)
(* back, before the plan is approved.                                       *)
(***************************************************************************)
OneRun ==
    /\ \A j, k \in Job : jobStatus[j] \in Active /\ jobStatus[k] \in Active => j = k
    /\ \A c \in Clients : client[c] = "rollback" => ~HasActiveJob
    /\ \A f \in ForwardJobs : jobStatus[f] = "none" =>
          /\ \A j \in Job : jobStatus[j] = "none"
          /\ \A s \in Step : record[s] = "none"
          /\ \A c \in Clients : client[c] # "rollback"

\* No two workers are in a loop.
LEMMA OneBusy ==
    ASSUME TypeInv, OneDelivery, OneRun, NEW v \in Workers, NEW w \in Workers, Busy(v), Busy(w)
    PROVE  v = w
  <1>1. /\ jobOf[v] \in Job /\ jobStatus[jobOf[v]] = "running"
        /\ jobOf[w] \in Job /\ jobStatus[jobOf[w]] = "running"
    BY DEF TypeInv, LocalsOK, OneDelivery, Busy, BusyPc, ForwardPc, UndoPc
  <1>2. jobOf[v] = jobOf[w]
    BY <1>1 DEF OneRun, Active
  <1>3. QED
    BY <1>2 DEF OneDelivery

\* A worker makes no job active that was not, and creates none.
LEMMA WorkerStatus ==
    ASSUME TypeInv, OneDelivery, NEW w \in Workers, WorkerStep(w), NEW j \in Job
    PROVE  /\ jobStatus'[j] \in Active => jobStatus[j] \in Active
           /\ jobStatus'[j] = "none" <=> jobStatus[j] = "none"
  <1> USE DEF TypeInv, TypeOK, LocalsOK
  <1>1. ASSUME NEW k \in Job, Starts(w, k, "failed", "ack") \/ Starts(w, k, "running", "token")
        PROVE  /\ jobStatus'[j] \in Active => jobStatus[j] \in Active
               /\ jobStatus'[j] = "none" <=> jobStatus[j] = "none"
    <2>1. jobStatus[k] = "pending"
      BY <1>1 DEF Starts, OneDelivery
    <2>2. PICK status \in {"failed", "running"} : jobStatus' = [jobStatus EXCEPT ![k] = status]
      BY <1>1 DEF Starts
    <2>3. QED BY <2>1, <2>2 DEF Active
  <1>2. ASSUME NEW status \in JobStatus, NEW next \in WorkerPc, Ends(w, status, next)
        PROVE  /\ jobStatus'[j] \in Active => jobStatus[j] \in Active
               /\ jobStatus'[j] = "none" <=> jobStatus[j] = "none"
    <2>1. jobStatus[jobOf[w]] = "running" /\ status # "none"
      BY <1>2 DEF Ends, OneDelivery, Terminal
    <2>2. jobStatus' = [jobStatus EXCEPT ![jobOf[w]] = status]
      BY <1>2 DEF Ends
    <2>3. QED BY <2>1, <2>2 DEF Active
  <1>3. CASE RefreshFails(w)
    <2>1. jobStatus[jobOf[w]] \in Terminal
      BY <1>3 DEF RefreshFails, OneDelivery
    <2>2. jobStatus' = [jobStatus EXCEPT ![jobOf[w]] = "failed"]
      BY <1>3 DEF RefreshFails
    <2>3. QED BY <2>1, <2>2 DEF Active, Terminal
  <1>4. QED
    BY <1>1, <1>2, <1>3, WorkerShape DEF GoesOn, Quits

LEMMA OneRunWorkers ==
    ASSUME ApprovedOnce, TypeInv, OneDelivery, OneRun, NEW w \in Workers, WorkerStep(w)
    PROVE  OneRun'
  <1>1. client' = client
    BY WorkerShape DEF Starts, Ends, GoesOn, Quits, RefreshFails, clientVars
  <1>2. \A j \in Job : /\ jobStatus'[j] \in Active => jobStatus[j] \in Active
                       /\ jobStatus'[j] = "none" <=> jobStatus[j] = "none"
    BY WorkerStatus
  <1>3. \A f \in ForwardJobs : jobStatus[f] = "none" => record' = record
    <2>1. ASSUME NEW f \in ForwardJobs, jobStatus[f] = "none" PROVE ~Busy(w)
      <3>1. \A j \in Job : jobStatus[j] = "none"
        BY <2>1 DEF OneRun
      <3>2. QED
        BY <3>1 DEF TypeInv, LocalsOK, OneDelivery, Busy, BusyPc, ForwardPc, UndoPc
    <2>2. SavesRecord(w) \/ Writes(w) \/ UndoCommits(w) => Busy(w)
      BY DEF SavesRecord, Writes, UndoCommits, Busy, BusyPc, ForwardPc, UndoPc
    <2>3. record' # record => SavesRecord(w) \/ Writes(w) \/ UndoCommits(w)
      BY DEF WorkerStep, RunDenied, RunStarts, LoopStarts, TokenFails, ObservesCancel,
         ObservesPause, RunAborts, SkipsDecided, TakesStep, ReadsFile, StepCompletes, StepFails,
         Decides, FinishesForward, Restores, RestoreRefused, UndoFails, FinishesRollback,
         Refreshes, RefreshFails, Acks, recordVars
    <2>4. QED BY <2>1, <2>2, <2>3
  <1>4. QED
    BY <1>1, <1>2, <1>3 DEF OneRun, HasActiveJob, Job

LEMMA OneRunClients ==
    ASSUME Orderly, ApprovedOnce, TypeInv, OneDelivery, OneRun, NEW c \in Clients, ClientStep(c)
    PROVE  OneRun'
  <1> USE DEF TypeInv, TypeOK, LocalsOK, Job
  <1>1. \A d \in Clients : d = c
    BY DEF Orderly
  <1>2. record' = record
    BY ClientShape DEF recordVars
  <1>3. CASE jobStatus' = jobStatus /\ client'[c] # "rollback"
    BY <1>1, <1>2, <1>3 DEF OneRun, HasActiveJob
  <1>4. CASE ResumeCommits(c)
    <2>1. jobStatus[clientJob[c]] = "paused" /\ clientJob[c] \in Job /\ client'[c] # "rollback"
      BY <1>4 DEF ResumeCommits, OneDelivery
    <2>2. jobStatus' = [jobStatus EXCEPT ![clientJob[c]] = "pending"]
      BY <1>4 DEF ResumeCommits
    <2>3. \A j \in Job : /\ jobStatus'[j] \in Active => jobStatus[j] \in Active
                         /\ jobStatus'[j] = "none" <=> jobStatus[j] = "none"
      BY <2>1, <2>2 DEF Active
    <2>4. QED BY <1>1, <1>2, <2>1, <2>3 DEF OneRun
  <1>5. CASE RollbackReads(c)
    <2>1. \A f \in ForwardJobs : jobStatus[f] # "none"
      BY <1>5 DEF RollbackReads, HeldRecords, OneRun
    <2>2. QED BY <1>1, <1>2, <1>5, <2>1 DEF RollbackReads, OneRun, HasActiveJob, jobVars
  <1>6. ASSUME NEW j \in Job, JobApproved(c, j) PROVE OneRun'
    <2>1. \A k \in Job : jobStatus[k] = "none"
      BY <1>6 DEF JobApproved, OneRun
    <2>2. jobStatus' = [jobStatus EXCEPT ![j] = "pending"] /\ client'[c] # "rollback"
      BY <1>6 DEF JobApproved
    <2>3. \A k \in Job : jobStatus'[k] \in Active => k = j
      BY <2>1, <2>2 DEF Active
    <2>4. \A f \in ForwardJobs : jobStatus'[f] # "none"
      BY <1>6, <2>2 DEF JobApproved, ApprovedOnce
    <2>5. QED BY <1>1, <2>2, <2>3, <2>4 DEF OneRun
  <1>7. ASSUME NEW j \in Job, RollbackCommits(c, j) PROVE OneRun'
    <2>1. ~HasActiveJob /\ \A f \in ForwardJobs : jobStatus[f] # "none"
      BY <1>7 DEF RollbackCommits, OneRun
    <2>2. jobStatus' = [jobStatus EXCEPT ![j] = "pending"] /\ client'[c] # "rollback"
      BY <1>7 DEF RollbackCommits
    <2>3. \A k \in Job : jobStatus'[k] \in Active => k = j
      BY <2>1, <2>2 DEF Active, HasActiveJob
    <2>4. \A f \in ForwardJobs : jobStatus'[f] # "none"
      BY <2>1, <2>2
    <2>5. QED BY <1>1, <2>2, <2>3, <2>4 DEF OneRun
  <1>8. CASE Publish(c) \/ PublishLost(c)
    BY <1>3, <1>8 DEF Publish, PublishLost, jobVars
  <1>9. ASSUME NEW j \in Job, ResumeReads(c, j) PROVE OneRun'
    BY <1>3, <1>9 DEF ResumeReads, jobVars
  <1>10. QED
    BY <1>4, <1>5, <1>6, <1>7, <1>8, <1>9 DEF ClientStep

LEMMA OneRunNext ==
    ASSUME Orderly, ApprovedOnce, TypeInv, OneDelivery, OneRun, [Next]_vars PROVE OneRun'
  <1>1. ASSUME UNCHANGED <<jobStatus, recordVars, clientVars>> PROVE OneRun'
    BY <1>1 DEF OneRun, HasActiveJob, recordVars, clientVars
  <1>2. QED
    BY <1>1, OutsideShape, OneRunWorkers, OneRunClients

\* While a worker is in its loop, or receives a job, no other is in a loop.
LEMMA Alone ==
    ASSUME TypeInv, OneDelivery, OneRun, NEW w \in Workers, WorkerStep(w),
           Busy(w) \/ \E j \in Job : queue[j] > 0, NEW v \in Workers, v # w
    PROVE  ~Busy(v)'
  <1> USE DEF TypeInv, TypeOK, LocalsOK
  <1>1. ~Busy(v)
    <2>1. CASE Busy(w) BY <2>1, OneBusy
    <2>2. ASSUME NEW j \in Job, queue[j] > 0, Busy(v) PROVE FALSE
      <3>1. jobStatus[j] = "pending" /\ jobStatus[jobOf[v]] = "running" /\ jobOf[v] \in Job
        BY <2>2 DEF OneDelivery, Busy, BusyPc, ForwardPc, UndoPc
      <3>2. QED BY <3>1 DEF OneRun, Active
    <2>3. QED BY <2>1, <2>2
  <1>2. Busy(v)' => Busy(v)
    <2>1. ASSUME NEW j \in Job, NEW status, NEW next, Starts(w, j, status, next)
          PROVE  pc'[v] = pc[v]
      BY <2>1 DEF Starts
    <2>2. ASSUME NEW status, NEW next, Ends(w, status, next) PROVE pc'[v] = pc[v]
      BY <2>2 DEF Ends
    <2>3. QED
      BY <2>1, <2>2, WorkerShape DEF GoesOn, Quits, RefreshFails, Busy
  <1>3. QED BY <1>1, <1>2

-----------------------------------------------------------------------------
(* What a step's status says of its record *)

(***************************************************************************)
(* A run works on an undecided step, from the write on with its record held; *)
(* a completed step's record is held, and it is used up exactly when the      *)
(* step is rolled back.                                                     *)
(***************************************************************************)
StepInv ==
    /\ \A w \in Workers : pc[w] \in OnStep => stepStatus[at[w]] = "pending"
    /\ \A w \in Workers : pc[w] \in {"apply", "settle", "broken"} => record[at[w]] = "held"
    /\ \A s \in Step : stepStatus[s] = "completed" => record[s] = "held"
    /\ \A s \in Step : record[s] = "rolled_back" <=> stepStatus[s] = "rolled_back"

\* A step of a worker that changes no step, record or file, and only leaves a loop.
Quiet(w) ==
    /\ UNCHANGED <<stepStatus, record, preState, drive, drifts>>
    /\ \A v \in Workers : Busy(v)' =>
           /\ pc'[v] = pc[v] /\ jobOf'[v] = jobOf[v] /\ at'[v] = at[v]
           /\ todo'[v] = todo[v] /\ tally'[v] = tally[v] /\ seen'[v] = seen[v]

Ended(w) == FinishesForward(w) \/ FinishesRollback(w)

LEMMA StepShape ==
    ASSUME TypeInv, NEW w \in Workers, WorkerStep(w)
    PROVE  \/ Quiet(w) /\ (planStatus' = planStatus \/ Ended(w))
           \/ \E j \in Job : RunStarts(w, j)
           \/ LoopStarts(w) \/ SkipsDecided(w) \/ TakesStep(w) \/ ReadsFile(w)
           \/ SavesRecord(w) \/ Writes(w) \/ StepCompletes(w) \/ StepFails(w)
           \/ \E s \in Step : Restores(w, s) \/ RestoreRefused(w, s)
           \/ UndoCommits(w) \/ UndoFails(w)
  <1> USE DEF TypeInv, TypeOK, Quiet, Busy, BusyPc, ForwardPc, UndoPc, stepVars, recordVars,
          driveVars, localVars, boundVars
  <1>1. ASSUME NEW j \in Job, RunDenied(w, j) PROVE Quiet(w) /\ planStatus' = planStatus
    BY <1>1 DEF RunDenied, Receives
  <1>2. CASE TokenFails(w) \/ Acks(w)
    <2>1. Quiet(w) /\ planStatus' = planStatus
      BY <1>2 DEF TokenFails, Acks, Leaves
    <2>2. QED BY <2>1
  <1>3. CASE ObservesCancel(w) \/ ObservesPause(w) \/ RunAborts(w)
    <2>1. Quiet(w) /\ planStatus' = planStatus
      BY <1>3 DEF ObservesCancel, ObservesPause, RunAborts
    <2>2. QED BY <2>1
  <1>4. CASE Ended(w)
    <2>1. Quiet(w)
      BY <1>4 DEF Ended, FinishesForward, FinishesRollback
    <2>2. QED BY <1>4, <2>1
  <1>5. CASE Refreshes(w) \/ RefreshFails(w)
    <2>1. Quiet(w) /\ planStatus' = planStatus
      BY <1>5 DEF Refreshes, RefreshFails
    <2>2. QED BY <2>1
  <1>6. QED
    BY <1>1, <1>2, <1>3, <1>4, <1>5 DEF WorkerStep, Ended

LEMMA StepInvWorkers ==
    ASSUME TypeInv, OneDelivery, OneRun, StepInv, NEW w \in Workers, WorkerStep(w)
    PROVE  StepInv'
  <1> USE DEF TypeInv, TypeOK, LocalsOK
  <1> DEFINE Here == /\ pc'[w] \in OnStep => stepStatus'[at'[w]] = "pending"
                     /\ pc'[w] \in {"apply", "settle", "broken"} => record'[at'[w]] = "held"
             Rows == \A s \in Step : /\ stepStatus'[s] = "completed" => record'[s] = "held"
                                     /\ record'[s] = "rolled_back" <=> stepStatus'[s] = "rolled_back"
  <1>1. ASSUME Busy(w) \/ \E j \in Job : queue[j] > 0, Here, Rows PROVE StepInv'
    <2>1. \A v \in Workers : v # w => pc'[v] \notin OnStep
      BY <1>1, Alone DEF Busy, BusyPc, ForwardPc, OnStep
    <2>2. QED BY <1>1, <2>1 DEF StepInv, OnStep
  <1>2. Rows \/ ~UNCHANGED <<stepStatus, record>>
    BY DEF StepInv
  <1>3. CASE Quiet(w)
    <2>1. \A v \in Workers : pc'[v] \in OnStep => pc'[v] = pc[v] /\ at'[v] = at[v]
      BY <1>3 DEF Quiet, Busy, BusyPc, ForwardPc, OnStep
    <2>2. QED BY <1>2, <1>3, <2>1 DEF Quiet, StepInv, OnStep
  <1>4. ASSUME NEW j \in Job, RunStarts(w, j) PROVE StepInv'
    <2>1. Here /\ queue[j] > 0 /\ UNCHANGED <<stepStatus, record>>
      BY <1>4 DEF RunStarts, Receives, OnStep, stepVars, recordVars
    <2>2. QED BY <1>1, <1>2, <2>1
  <1>5. CASE LoopStarts(w)
    <2>1. Here /\ Busy(w) /\ UNCHANGED <<stepStatus, record>>
      BY <1>5 DEF LoopStarts, OnStep, Busy, BusyPc, stepVars, recordVars
    <2>2. QED BY <1>1, <1>2, <2>1
  <1>6. CASE SkipsDecided(w)
    <2>1. Here /\ Busy(w) /\ UNCHANGED <<stepStatus, record>>
      BY <1>6 DEF SkipsDecided, OnStep, Busy, BusyPc, ForwardPc, stepVars, recordVars
    <2>2. QED BY <1>1, <1>2, <2>1
  <1>7. CASE TakesStep(w)
    <2>1. Here /\ Busy(w) /\ UNCHANGED <<stepStatus, record>>
      BY <1>7 DEF TakesStep, AtStep, OnStep, Busy, BusyPc, ForwardPc, stepVars, recordVars, localVars
    <2>2. QED BY <1>1, <1>2, <2>1
  <1>8. CASE ReadsFile(w)
    <2>1. Here /\ Busy(w) /\ UNCHANGED <<stepStatus, record>>
      BY <1>8 DEF ReadsFile, StepInv, OnStep, Busy, BusyPc, ForwardPc, stepVars, recordVars
    <2>2. QED BY <1>1, <1>2, <2>1
  <1>9. CASE Writes(w)
    <2>1. Here /\ Busy(w) /\ UNCHANGED <<stepStatus, record>>
      BY <1>9 DEF Writes, StepInv, OnStep, Busy, BusyPc, ForwardPc, stepVars, recordVars, localVars
    <2>2. QED BY <1>1, <1>2, <2>1
  <1>10. CASE SavesRecord(w)
    <2>1. /\ pc[w] \in OnStep /\ at[w] \in Step /\ Busy(w)
          /\ stepStatus[at[w]] = "pending"
      BY <1>10 DEF SavesRecord, StepInv, OnStep, Busy, BusyPc, ForwardPc
    <2>2. /\ UNCHANGED <<stepStatus, at>> /\ record' = [record EXCEPT ![at[w]] = "held"]
          /\ pc'[w] = "apply"
      BY <1>10 DEF SavesRecord, stepVars, localVars
    <2>3. Here BY <2>1, <2>2
    <2>4. Rows BY <2>1, <2>2 DEF StepInv
    <2>5. QED BY <1>1, <2>1, <2>3, <2>4
  <1>11. CASE StepCompletes(w) \/ StepFails(w)
    <2>1. /\ pc[w] \in OnStep /\ at[w] \in Step /\ Busy(w)
          /\ stepStatus[at[w]] = "pending"
      BY <1>11 DEF StepCompletes, StepFails, StepInv, OnStep, Busy, BusyPc, ForwardPc
    <2>2. PICK status \in {"completed", "failed"} :
              /\ stepStatus' = [stepStatus EXCEPT ![at[w]] = status]
              /\ status = "completed" => pc[w] = "settle"
      BY <1>11 DEF StepCompletes, StepFails, Decides
    <2>3. UNCHANGED record /\ pc'[w] = "step"
      BY <1>11 DEF StepCompletes, StepFails, Decides, recordVars
    <2>4. Here BY <2>3 DEF OnStep
    <2>5. Rows BY <2>1, <2>2, <2>3 DEF StepInv
    <2>6. QED BY <1>1, <2>1, <2>4, <2>5
  <1>12. ASSUME NEW s \in Step, Restores(w, s) \/ RestoreRefused(w, s) PROVE StepInv'
    <2>1. Here /\ Busy(w) /\ UNCHANGED <<stepStatus, record>>
      BY <1>12 DEF Restores, RestoreRefused, AtUndo, OnStep, Busy, BusyPc, UndoPc, stepVars,
         recordVars
    <2>2. QED BY <1>1, <1>2, <2>1
  <1>13. CASE UndoCommits(w)
    <2>1. Here /\ Busy(w) /\ at[w] \in Step
      BY <1>13 DEF UndoCommits, OnStep, Busy, BusyPc, UndoPc
    <2>2. /\ record' = [record EXCEPT ![at[w]] = "rolled_back"]
          /\ stepStatus' = [stepStatus EXCEPT ![at[w]] = "rolled_back"]
      BY <1>13 DEF UndoCommits
    <2>3. Rows BY <2>1, <2>2 DEF StepInv
    <2>4. QED BY <1>1, <2>1, <2>3
  <1>14. CASE UndoFails(w)
    <2>1. Here /\ Busy(w) /\ UNCHANGED <<stepStatus, record>>
      BY <1>14 DEF UndoFails, OnStep, Busy, BusyPc, UndoPc, recordVars
    <2>2. QED BY <1>1, <1>2, <2>1
  <1>15. QED
    BY <1>3, <1>4, <1>5, <1>6, <1>7, <1>8, <1>9, <1>10, <1>11, <1>12, <1>13, <1>14, StepShape

LEMMA StepInvNext ==
    ASSUME Orderly, TypeInv, OneDelivery, OneRun, StepInv, [Next]_vars PROVE StepInv'
  <1>1. ASSUME UNCHANGED <<stepVars, recordVars, workerVars>> PROVE StepInv'
    BY <1>1 DEF StepInv, stepVars, recordVars, workerVars, localVars
  <1>2. QED
    BY <1>1, ClientShape, OutsideShape, StepInvWorkers

LEMMA DecidedStep ==
    ASSUME Orderly, TypeInv, StepInv, [Next]_vars,
           NEW s \in Step, stepStatus[s] # "pending", stepStatus'[s] # stepStatus[s]
    PROVE  stepStatus[s] # "rolled_back" /\ stepStatus'[s] = "rolled_back"
  <1> USE DEF TypeInv, TypeOK, LocalsOK
  <1>1. ASSUME NEW w \in Workers, StepCompletes(w) \/ StepFails(w) PROVE FALSE
    <2>1. at[w] \in Step /\ stepStatus[at[w]] = "pending"
      BY <1>1 DEF StepCompletes, StepFails, StepInv, OnStep
    <2>2. \A r \in Step : r # at[w] => stepStatus'[r] = stepStatus[r]
      BY <1>1 DEF StepCompletes, StepFails, Decides
    <2>3. QED BY <2>1, <2>2
  <1>2. ASSUME NEW w \in Workers, UndoCommits(w)
        PROVE  stepStatus[s] # "rolled_back" /\ stepStatus'[s] = "rolled_back"
    BY <1>2 DEF UndoCommits
  <1>3. ASSUME NEW w \in Workers, WorkerStep(w), ~StepCompletes(w), ~StepFails(w),
               ~UndoCommits(w)
        PROVE  FALSE
    BY <1>3 DEF WorkerStep, RunDenied, RunStarts, LoopStarts, TokenFails,
       ObservesCancel, ObservesPause, RunAborts, SkipsDecided, TakesStep, ReadsFile, SavesRecord,
       Writes, FinishesForward, Restores, RestoreRefused, UndoFails, FinishesRollback,
       Refreshes, RefreshFails, Acks, stepVars
  <1>4. QED
    BY <1>1, <1>2, <1>3, ClientShape, OutsideShape DEF stepVars

\* The invariant of one run, for the theorems that follow.
OneRunInv == TypeInv /\ OneDelivery /\ OneRun /\ StepInv

LEMMA OneRunAlways ==
    ASSUME Orderly, ApprovedOnce PROVE Spec => []OneRunInv
  <1>1. Init => OneRunInv
    <2>1. Init => OneRun
      BY DEF Init, OneRun, HasActiveJob, Active, Job
    <2>2. Init => StepInv
      BY DEF Init, StepInv, OnStep
    <2>3. QED BY <2>1, <2>2, InitTypeInv, InitOneDelivery DEF OneRunInv
  <1>2. OneRunInv /\ [Next]_vars => OneRunInv'
    BY TypeInvNext, OneDeliveryNext, OneRunNext, StepInvNext DEF OneRunInv
  <1>3. QED
    BY <1>1, <1>2, PTL DEF Spec

(***************************************************************************)
(* A decided step is only ever rolled back: with one approval and no message *)
(* delivered again, no run decides a step that another run has decided, and  *)
(* none works on a step while it is rolled back.                            *)
(***************************************************************************)
THEOREM DecidedIsFinalHolds ==
    ASSUME Orderly, ApprovedOnce PROVE Spec => DecidedIsFinal
  <1>1. OneRunInv /\ [Next]_vars =>
          [\A s \in Step : stepStatus[s] # "pending" /\ stepStatus'[s] # stepStatus[s] =>
               stepStatus[s] # "rolled_back" /\ stepStatus'[s] = "rolled_back"]_vars
    BY DecidedStep DEF OneRunInv
  <1>2. QED
    BY <1>1, OneRunAlways, PTL DEF Spec, DecidedIsFinal

-----------------------------------------------------------------------------
(* What a rolled-back step's file looks like *)

(***************************************************************************)
(* While nobody else touches the files, a file holds its original or the     *)
(* planned content, a record the original, and a restored file the original  *)
(* from the restoring call on.                                              *)
(***************************************************************************)
RestoreInv ==
    drifts = 0 =>
        /\ \A s \in Step : drive[s] # "drifted" /\ preState[s] = "original"
        /\ \A w \in Workers : pc[w] = "capture" => seen[w] # "drifted"
        /\ \A s \in Step : stepStatus[s] = "rolled_back" => drive[s] = "original"
        /\ \A w \in Workers : pc[w] = "undone" => drive[at[w]] = "original"

LEMMA RestoreInvWorkers ==
    ASSUME OneRunInv, WriteDiscipline, RestoreInv, NEW w \in Workers, WorkerStep(w)
    PROVE  RestoreInv'
  <1> USE DEF OneRunInv, TypeInv, TypeOK, LocalsOK
  <1> DEFINE Here == /\ pc'[w] = "capture" => seen'[w] # "drifted"
                     /\ pc'[w] = "undone" => drive'[at'[w]] = "original"
             Files == \A s \in Step : /\ drive'[s] # "drifted" /\ preState'[s] = "original"
                                      /\ stepStatus'[s] = "rolled_back" => drive'[s] = "original"
  <1>0. drifts' = drifts
    BY StepShape DEF Quiet, RunStarts, LoopStarts, SkipsDecided, TakesStep, ReadsFile, SavesRecord,
       Writes, StepCompletes, StepFails, Decides, Restores, RestoreRefused, UndoCommits, UndoFails,
       boundVars
  <1> SUFFICES ASSUME drifts = 0 PROVE RestoreInv'
    BY <1>0 DEF RestoreInv
  <1>1. ASSUME Busy(w) \/ \E j \in Job : queue[j] > 0, Here, Files PROVE RestoreInv'
    <2>1. \A v \in Workers : v # w => pc'[v] \notin {"capture", "undone"}
      BY <1>1, Alone DEF Busy, BusyPc, ForwardPc, UndoPc
    <2>2. QED BY <1>1, <2>1 DEF RestoreInv
  <1>2. Files \/ ~UNCHANGED <<stepStatus, preState, drive>>
    BY DEF RestoreInv
  <1>3. CASE Quiet(w)
    <2>1. \A v \in Workers : pc'[v] \in {"capture", "undone"} =>
              pc'[v] = pc[v] /\ at'[v] = at[v] /\ seen'[v] = seen[v]
      BY <1>3 DEF Quiet, Busy, BusyPc, ForwardPc, UndoPc
    <2>2. QED BY <1>2, <1>3, <2>1 DEF Quiet, RestoreInv
  <1>4. ASSUME NEW j \in Job, RunStarts(w, j) PROVE RestoreInv'
    <2>1. Here /\ queue[j] > 0 /\ UNCHANGED <<stepStatus, preState, drive>>
      BY <1>4 DEF RunStarts, Receives, stepVars, recordVars, driveVars
    <2>2. QED BY <1>1, <1>2, <2>1
  <1>5. CASE LoopStarts(w) \/ SkipsDecided(w)
    <2>1. Here /\ Busy(w) /\ UNCHANGED <<stepStatus, preState, drive>>
      BY <1>5 DEF LoopStarts, SkipsDecided, Busy, BusyPc, ForwardPc, stepVars, recordVars, driveVars
    <2>2. QED BY <1>1, <1>2, <2>1
  <1>6. CASE TakesStep(w)
    <2>1. Here /\ Busy(w) /\ UNCHANGED <<stepStatus, preState, drive>>
      BY <1>6 DEF TakesStep, AtStep, Busy, BusyPc, ForwardPc, stepVars, recordVars, driveVars
    <2>2. QED BY <1>1, <1>2, <2>1
  <1>7. CASE ReadsFile(w)
    <2>1. at[w] \in Step /\ Busy(w) /\ UNCHANGED <<stepStatus, preState, drive>>
      BY <1>7 DEF ReadsFile, Busy, BusyPc, ForwardPc, stepVars, recordVars, driveVars
    <2>2. pc'[w] = "capture" /\ seen'[w] = drive[at[w]]
      BY <1>7 DEF ReadsFile
    <2>3. Here BY <2>1, <2>2 DEF RestoreInv
    <2>4. QED BY <1>1, <1>2, <2>1, <2>3
  <1>8. CASE SavesRecord(w)
    <2>1. /\ pc[w] = "capture" /\ at[w] \in Step /\ Busy(w) /\ record[at[w]] = "none"
          /\ pc'[w] = "apply" /\ UNCHANGED <<stepStatus, drive>>
      BY <1>8 DEF SavesRecord, NoRecordYet, Busy, BusyPc, ForwardPc, stepVars, driveVars
    <2>2. PICK kept : /\ preState' = [preState EXCEPT ![at[w]] = kept]
                      /\ kept = IF at[w] \in Trashing THEN "original" ELSE seen[w]
      BY <1>8 DEF SavesRecord
    <2>3. at[w] \notin Trashing => seen[w] = "original"
      BY <2>1 DEF RestoreInv, WriteDiscipline, Content
    <2>4. kept = "original"
      BY <2>2, <2>3
    <2>5. Files BY <2>1, <2>2, <2>4 DEF RestoreInv
    <2>6. QED BY <1>1, <2>1, <2>5
  <1>9. CASE Writes(w)
    <2>1. /\ at[w] \in Step /\ Busy(w) /\ stepStatus[at[w]] # "rolled_back"
          /\ pc'[w] \in {"settle", "broken"} /\ UNCHANGED <<stepStatus, preState>>
          /\ drive' = [drive EXCEPT ![at[w]] = "planned"]
      BY <1>9 DEF Writes, StepInv, OnStep, Busy, BusyPc, ForwardPc, stepVars, recordVars
    <2>2. Files BY <2>1 DEF RestoreInv
    <2>3. QED BY <1>1, <2>1, <2>2
  <1>10. CASE StepCompletes(w) \/ StepFails(w)
    <2>1. PICK status \in {"completed", "failed"} :
              stepStatus' = [stepStatus EXCEPT ![at[w]] = status]
      BY <1>10 DEF StepCompletes, StepFails, Decides
    <2>2. /\ at[w] \in Step /\ Busy(w) /\ pc'[w] = "step" /\ UNCHANGED <<preState, drive>>
      BY <1>10 DEF StepCompletes, StepFails, Decides, Busy, BusyPc, ForwardPc, recordVars, driveVars
    <2>3. Files BY <2>1, <2>2 DEF RestoreInv
    <2>4. QED BY <1>1, <2>2, <2>3
  <1>11. ASSUME NEW s \in Step, Restores(w, s) PROVE RestoreInv'
    <2>1. /\ Busy(w) /\ UNCHANGED <<stepStatus, preState>> /\ at'[w] = s
          /\ drive' = [drive EXCEPT ![s] = preState[s]]
          /\ pc'[w] \in {"undone", "undo_broken"}
      BY <1>11 DEF Restores, AtUndo, Busy, BusyPc, UndoPc, stepVars, recordVars
    <2>2. drive' = [drive EXCEPT ![s] = "original"]
      BY <2>1 DEF RestoreInv
    <2>3. Here /\ Files BY <2>1, <2>2 DEF RestoreInv
    <2>4. QED BY <1>1, <2>1, <2>3
  <1>12. ASSUME NEW s \in Step, RestoreRefused(w, s) PROVE RestoreInv'
    <2>1. Here /\ Busy(w) /\ UNCHANGED <<stepStatus, preState, drive>>
      BY <1>12 DEF RestoreRefused, AtUndo, Busy, BusyPc, UndoPc, stepVars, recordVars, driveVars
    <2>2. QED BY <1>1, <1>2, <2>1
  <1>13. CASE UndoCommits(w)
    <2>1. /\ Busy(w) /\ at[w] \in Step /\ pc[w] = "undone" /\ pc'[w] = "undo"
          /\ UNCHANGED <<preState, drive>>
          /\ stepStatus' = [stepStatus EXCEPT ![at[w]] = "rolled_back"]
      BY <1>13 DEF UndoCommits, Busy, BusyPc, UndoPc, driveVars
    <2>2. Files BY <2>1 DEF RestoreInv
    <2>3. QED BY <1>1, <2>1, <2>2
  <1>14. CASE UndoFails(w)
    <2>1. Here /\ Busy(w) /\ UNCHANGED <<stepStatus, preState, drive>>
      BY <1>14 DEF UndoFails, Busy, BusyPc, UndoPc, recordVars, driveVars
    <2>2. QED BY <1>1, <1>2, <2>1
  <1>15. QED
    BY <1>3, <1>4, <1>5, <1>6, <1>7, <1>8, <1>9, <1>10, <1>11, <1>12, <1>13, <1>14, StepShape

LEMMA RestoreInvNext ==
    ASSUME Orderly, OneRunInv, WriteDiscipline, RestoreInv, [Next]_vars PROVE RestoreInv'
  <1>1. ASSUME UNCHANGED <<stepVars, recordVars, driveVars, workerVars>>, drifts' = 0 => drifts = 0
        PROVE  RestoreInv'
    BY <1>1 DEF RestoreInv, stepVars, recordVars, driveVars, workerVars, localVars
  <1>2. CASE drifts' # 0
    BY <1>2 DEF RestoreInv
  <1>3. QED
    BY <1>1, <1>2, ClientShape, OutsideShape, RestoreInvWorkers DEF OneRunInv, boundVars

(***************************************************************************)
(* A step reported as rolled back has its file back as it was before the     *)
(* plan, when nobody else touched the files: no write of the engine comes    *)
(* after the restoring call, and no record holds anything but the original.  *)
(***************************************************************************)
THEOREM RolledBackIsRestoredHolds ==
    ASSUME Orderly, ApprovedOnce PROVE Spec => []RolledBackIsRestored
  <1>1. Init => RestoreInv
    BY DEF Init, RestoreInv
  <1>2. OneRunInv /\ WriteDiscipline /\ RestoreInv /\ [Next]_vars => RestoreInv'
    BY RestoreInvNext
  <1>3. RestoreInv => RolledBackIsRestored
    BY DEF RestoreInv, RolledBackIsRestored
  <1>4. QED
    BY <1>1, <1>2, <1>3, OneRunAlways, Discipline, PTL DEF Spec

-----------------------------------------------------------------------------
(* What the plan's verdict says of its steps *)

\* What a rollback has before it: the rest of its list and the step it is at.
Ahead(w) == todo[w] \cup (IF pc[w] \in {"undone", "undo_broken"} THEN {at[w]} ELSE {})

\* While a worker counts no failure, none lies behind it.
Tallied(w) ==
    /\ pc[w] \in ForwardPc \cup {"token"} /\ jobOf[w] \in ForwardJobs => planStatus = "executing"
    /\ pc[w] \in ForwardPc /\ "failed" \notin tally[w] =>
          \A s \in Step : s < at[w] => stepStatus[s] # "failed"
    /\ pc[w] \in UndoPc /\ "failed" \notin tally[w] => HeldRecords \subseteq Ahead(w)

(***************************************************************************)
(* The plan is executing while a forward run is under way, a run that has    *)
(* counted no failure has left none behind, and a verdict once given is true *)
(* of the steps until the next run.                                         *)
(***************************************************************************)
VerdictInv ==
    /\ \A w \in Workers : Tallied(w)
    /\ planStatus = "rolled_back" => HeldRecords = {}
    /\ planStatus = "completed" =>
          \A s \in Step : stepStatus[s] \in {"completed", "rolled_back"}

LEMMA VerdictInvWorkers ==
    ASSUME OneRunInv, LoopInv, VerdictInv, NEW w \in Workers, WorkerStep(w)
    PROVE  VerdictInv'
  <1> USE DEF OneRunInv, TypeInv, TypeOK, LocalsOK
  <1> DEFINE Verdict == /\ planStatus' = "rolled_back" => HeldRecords' = {}
                        /\ planStatus' = "completed" =>
                              \A s \in Step : stepStatus'[s] \in {"completed", "rolled_back"}
  <1>1. ASSUME Busy(w) \/ \E j \in Job : queue[j] > 0, Tallied(w)', Verdict PROVE VerdictInv'
    <2>1. \A v \in Workers : v # w => pc'[v] \notin BusyPc
      BY <1>1, Alone DEF Busy
    <2>2. \A v \in Workers : v # w => Tallied(v)'
      BY <2>1 DEF Tallied, BusyPc
    <2>3. QED BY <1>1, <2>2 DEF VerdictInv
  <1>2. Verdict \/ ~UNCHANGED <<planStatus, stepStatus, record>>
    BY DEF VerdictInv, HeldRecords
  <1>3. ASSUME Quiet(w), planStatus' = planStatus PROVE VerdictInv'
    <2>1. \A v \in Workers : Busy(v)' => Tallied(v)'
      BY <1>3 DEF Quiet, VerdictInv, Tallied, Ahead, HeldRecords
    <2>2. \A v \in Workers : ~Busy(v)' => Tallied(v)'
      BY DEF Tallied, Busy, BusyPc
    <2>3. QED BY <1>2, <1>3, <2>1, <2>2 DEF Quiet, VerdictInv
  <1>4. CASE FinishesForward(w)
    <2>1. /\ pc[w] = "step" /\ at[w] > NumSteps /\ pc'[w] \in {"refresh", "ack"}
          /\ UNCHANGED <<stepStatus, record>>
          /\ planStatus' = ForwardVerdict(tally[w])
      BY <1>4 DEF FinishesForward, PastLastStep, stepVars, recordVars
    <2>2. \A s \in Step : s < at[w]
      BY <2>1, ConstantsAssumption DEF Step
    <2>3. "failed" \notin tally[w] =>
              \A s \in Step : stepStatus[s] \in {"completed", "rolled_back"}
      BY <2>1, <2>2 DEF VerdictInv, Tallied, LoopInv, Decided, ForwardPc, StepStatus
    <2>4. Verdict
      BY <2>1, <2>3 DEF ForwardVerdict
    <2>5. Busy(w) /\ Tallied(w)'
      BY <2>1 DEF Busy, BusyPc, Tallied, ForwardPc, UndoPc
    <2>6. QED BY <1>1, <2>4, <2>5
  <1>5. CASE FinishesRollback(w)
    <2>1. /\ pc[w] = "undo" /\ todo[w] = {} /\ pc'[w] \in {"refresh", "ack"}
          /\ UNCHANGED <<stepStatus, record>>
          /\ planStatus' = IF FullyRolledBack(tally[w]) THEN "rolled_back" ELSE planStatus
      BY <1>5 DEF FinishesRollback, stepVars, recordVars
    <2>2. "failed" \notin tally[w] => HeldRecords = {}
      BY <2>1 DEF VerdictInv, Tallied, Ahead, UndoPc
    <2>3. HeldRecords' = HeldRecords
      BY <2>1 DEF HeldRecords
    <2>4. Verdict
      BY <2>1, <2>2, <2>3 DEF FullyRolledBack, VerdictInv
    <2>5. Busy(w) /\ Tallied(w)'
      BY <2>1 DEF Busy, BusyPc, Tallied, ForwardPc, UndoPc
    <2>6. QED BY <1>1, <2>4, <2>5
  <1>6. ASSUME NEW j \in Job, RunStarts(w, j) PROVE VerdictInv'
    <2>1. /\ queue[j] > 0 /\ pc'[w] = "token" /\ jobOf'[w] = j
          /\ UNCHANGED <<stepStatus, record>>
          /\ planStatus' = IF j \in ForwardJobs THEN "executing" ELSE planStatus
      BY <1>6 DEF RunStarts, Receives, stepVars, recordVars
    <2>2. Tallied(w)'
      BY <2>1 DEF Tallied, ForwardPc, UndoPc
    <2>3. Verdict
      BY <2>1 DEF VerdictInv, HeldRecords
    <2>4. QED BY <1>1, <2>1, <2>2, <2>3
  <1>7. CASE LoopStarts(w)
    <2>1. /\ Busy(w) /\ pc[w] = "token" /\ UNCHANGED <<planStatus, stepStatus, record, jobOf>>
          /\ at'[w] = 1
          /\ pc'[w] = IF jobOf[w] \in ForwardJobs THEN "step" ELSE "undo"
          /\ todo'[w] = IF jobOf[w] \in ForwardJobs THEN {} ELSE HeldRecords
      BY <1>7 DEF LoopStarts, Busy, BusyPc, stepVars, recordVars
    <2>2. HeldRecords' = HeldRecords /\ \A s \in Step : ~(s < at'[w])
      BY <2>1 DEF HeldRecords, Step
    <2>3. Tallied(w)'
      BY <2>1, <2>2 DEF VerdictInv, Tallied, Ahead, ForwardPc, UndoPc
    <2>4. QED BY <1>1, <1>2, <2>1, <2>3
  <1>8. CASE SkipsDecided(w)
    <2>1. /\ Busy(w) /\ pc[w] = "step" /\ pc'[w] = "step" /\ at[w] \in Step
          /\ UNCHANGED <<planStatus, stepStatus, record, jobOf>>
          /\ at'[w] = at[w] + 1
      BY <1>8 DEF SkipsDecided, Busy, BusyPc, ForwardPc, Step, stepVars, recordVars
    <2>2. /\ "failed" \notin tally'[w] => "failed" \notin tally[w]
          /\ "failed" \notin tally'[w] => stepStatus[at[w]] # "failed"
      BY <1>8 DEF SkipsDecided
    <2>3. \A s \in Step : s < at'[w] => s < at[w] \/ s = at[w]
      BY <2>1 DEF Step
    <2>4. Tallied(w)'
      BY <2>1, <2>2, <2>3 DEF VerdictInv, Tallied, ForwardPc, UndoPc
    <2>5. QED BY <1>1, <1>2, <2>1, <2>4
  <1>9. CASE TakesStep(w) \/ ReadsFile(w) \/ Writes(w)
    <2>1. /\ Busy(w) /\ pc[w] \in ForwardPc /\ pc'[w] \in ForwardPc \ UndoPc
          /\ UNCHANGED <<planStatus, stepStatus, record, jobOf, at, tally>>
      BY <1>9 DEF TakesStep, AtStep, ReadsFile, Writes, Busy, BusyPc, ForwardPc, UndoPc, stepVars,
         recordVars, localVars
    <2>2. Tallied(w)'
      BY <2>1 DEF VerdictInv, Tallied, ForwardPc, UndoPc
    <2>3. QED BY <1>1, <1>2, <2>1, <2>2
  <1>10. CASE SavesRecord(w)
    <2>1. /\ Busy(w) /\ pc[w] \in ForwardPc /\ pc'[w] = "apply"
          /\ UNCHANGED <<planStatus, stepStatus, jobOf, at, tally>>
      BY <1>10 DEF SavesRecord, Busy, BusyPc, ForwardPc, UndoPc, stepVars, localVars
    <2>2. planStatus = "executing"
      BY <2>1 DEF VerdictInv, Tallied, LoopInv
    <2>3. Tallied(w)' /\ Verdict
      BY <2>1, <2>2 DEF VerdictInv, Tallied, ForwardPc, UndoPc
    <2>4. QED BY <1>1, <2>1, <2>3
  <1>11. CASE StepCompletes(w) \/ StepFails(w)
    <2>1. PICK status \in {"completed", "failed"}, outcome \in Outcome :
              /\ stepStatus' = [stepStatus EXCEPT ![at[w]] = status]
              /\ tally' = [tally EXCEPT ![w] = @ \cup {outcome}]
              /\ status = "failed" => outcome = "failed"
      BY <1>11 DEF StepCompletes, StepFails, Decides, Outcome
    <2>2. /\ Busy(w) /\ pc[w] \in ForwardPc /\ pc'[w] = "step" /\ at[w] \in Step
          /\ UNCHANGED <<planStatus, record, jobOf>>
          /\ at'[w] = at[w] + 1
      BY <1>11 DEF StepCompletes, StepFails, Decides, Busy, BusyPc, ForwardPc, recordVars
    <2>3. planStatus = "executing"
      BY <2>2 DEF VerdictInv, Tallied, LoopInv
    <2>4. \A s \in Step : s < at'[w] => s < at[w] \/ s = at[w]
      BY <2>2 DEF Step
    <2>5. "failed" \notin tally'[w] =>
              \A s \in Step : s < at'[w] => stepStatus'[s] # "failed"
      BY <2>1, <2>2, <2>4 DEF VerdictInv, Tallied
    <2>6. Tallied(w)' /\ Verdict
      BY <2>2, <2>3, <2>5 DEF Tallied, ForwardPc, UndoPc
    <2>7. QED BY <1>1, <2>2, <2>6
  <1>12. ASSUME NEW s \in Step, Restores(w, s) \/ RestoreRefused(w, s) PROVE VerdictInv'
    <2>1. /\ Busy(w) /\ pc[w] = "undo" /\ pc'[w] \in {"undone", "undo_broken"}
          /\ UNCHANGED <<planStatus, stepStatus, record, jobOf, tally>>
          /\ at'[w] = s /\ todo'[w] = todo[w] \ {s}
      BY <1>12 DEF Restores, RestoreRefused, AtUndo, Busy, BusyPc, UndoPc, stepVars, recordVars
    <2>2. todo[w] \subseteq Ahead(w)' /\ HeldRecords' = HeldRecords
      BY <2>1 DEF Ahead, HeldRecords
    <2>3. Tallied(w)'
      BY <2>1, <2>2 DEF VerdictInv, Tallied, Ahead, ForwardPc, UndoPc
    <2>4. QED BY <1>1, <1>2, <2>1, <2>3
  <1>13. CASE UndoCommits(w)
    <2>1. /\ Busy(w) /\ pc[w] = "undone" /\ pc'[w] = "undo" /\ at[w] \in Step
          /\ UNCHANGED <<planStatus, jobOf, at, todo>>
          /\ record' = [record EXCEPT ![at[w]] = "rolled_back"]
          /\ stepStatus' = [stepStatus EXCEPT ![at[w]] = "rolled_back"]
          /\ tally[w] \subseteq tally'[w]
      BY <1>13 DEF UndoCommits, Busy, BusyPc, UndoPc
    <2>2. HeldRecords' = HeldRecords \ {at[w]}
      BY <2>1 DEF HeldRecords
    <2>3. Tallied(w)'
      BY <2>1, <2>2 DEF VerdictInv, Tallied, Ahead, ForwardPc, UndoPc
    <2>4. Verdict
      BY <2>1, <2>2 DEF VerdictInv
    <2>5. QED BY <1>1, <2>1, <2>3, <2>4
  <1>14. CASE UndoFails(w)
    <2>1. /\ Busy(w) /\ pc'[w] = "undo" /\ "failed" \in tally'[w]
          /\ UNCHANGED <<planStatus, stepStatus, record>>
      BY <1>14 DEF UndoFails, Busy, BusyPc, UndoPc, recordVars
    <2>2. Tallied(w)'
      BY <2>1 DEF Tallied, ForwardPc
    <2>3. QED BY <1>1, <1>2, <2>1, <2>2
  <1>15. QED
    BY <1>3, <1>4, <1>5, <1>6, <1>7, <1>8, <1>9, <1>10, <1>11, <1>12, <1>13, <1>14, StepShape
       DEF Ended

LEMMA VerdictInvNext ==
    ASSUME Orderly, OneRunInv, LoopInv, VerdictInv, [Next]_vars PROVE VerdictInv'
  <1>1. ASSUME UNCHANGED <<planStatus, stepVars, recordVars, workerVars>> PROVE VerdictInv'
    BY <1>1 DEF VerdictInv, Tallied, Ahead, HeldRecords, stepVars, recordVars, workerVars, localVars
  <1>2. ASSUME NEW c \in Clients, NEW j \in Job, JobApproved(c, j) PROVE VerdictInv'
    <2>1. \A k \in Job : jobStatus[k] = "none"
      BY <1>2 DEF JobApproved, OneRunInv, OneRun
    <2>2. \A w \in Workers : ~Busy(w)
      BY <2>1 DEF OneRunInv, TypeInv, LocalsOK, OneDelivery, Busy, BusyPc, ForwardPc, UndoPc
    <2>3. planStatus' = "approved" /\ pc' = pc
      BY <1>2 DEF JobApproved, workerVars
    <2>4. QED BY <2>2, <2>3 DEF VerdictInv, Tallied, Busy, BusyPc
  <1>3. ASSUME NEW c \in Clients, ClientStep(c), \A j \in Job : ~JobApproved(c, j)
        PROVE  planStatus' = planStatus
    BY <1>3 DEF ClientStep, Publish, PublishLost, ResumeCommits, RollbackReads, ResumeReads,
       RollbackCommits
  <1>4. QED
    BY <1>1, <1>2, <1>3, ClientShape, OutsideShape, VerdictInvWorkers DEF OneRunInv

(***************************************************************************)
(* The plan's verdict is true of its steps: "rolled back" leaves nothing      *)
(* completed and no record to use, "completed" no step that is not, whatever *)
(* was paused, resumed, aborted or denied on the way.                       *)
(***************************************************************************)
THEOREM PlanVerdictTrueHolds ==
    ASSUME Orderly, ApprovedOnce PROVE Spec => []PlanVerdictTrue
  <1>1. Init => LoopInv /\ VerdictInv
    BY DEF Init, LoopInv, CompletedMeansDecided, VerdictInv, Tallied, ForwardPc, UndoPc, Job
  <1>2. OneRunInv /\ LoopInv /\ VerdictInv /\ [Next]_vars => (LoopInv /\ VerdictInv)'
    BY LoopInvNext, VerdictInvNext DEF OneRunInv
  <1>3. OneRunInv /\ VerdictInv => PlanVerdictTrue
    BY DEF OneRunInv, StepInv, VerdictInv, PlanVerdictTrue, HeldRecords
  <1>4. QED
    BY <1>1, <1>2, <1>3, OneRunAlways, PTL DEF Spec
=============================================================================
