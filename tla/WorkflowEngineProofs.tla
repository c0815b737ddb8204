------------------------- MODULE WorkflowEngineProofs -------------------------
(***************************************************************************)
(* What TLAPS proves of the workflow engine, for every graph, any number of   *)
(* workers and any number of crashes, pauses and resumptions: its types, that  *)
(* what lies behind an approval is entered only after one, and, for one worker *)
(* at a time, that an approval node asks once.                               *)
(***************************************************************************)
EXTENDS WorkflowEngine, TLAPS

-----------------------------------------------------------------------------
(* Types *)

SessionRows == [Nodes -> [Workers -> RowState \cup {"same"}]]

LEMMA TargetType ==
    ASSUME NEW n \in Nodes, NEW o \in Outcome
    PROVE  Target(n, o) \in Nodes \cup {NoNode}
BY WorkflowAssumption DEF Target, Outcome

LEMMA SessionType ==
    ASSUME NEW pc \in {"idle", "walk", "node", "plan", "schedule", "park", "ack"},
           NEW node \in Nodes \cup {NoNode}, NEW rows \in SessionRows,
           NEW whose \in Workers \cup {NoWorker}
    PROVE  Session(pc, node, rows, whose) \in Run
BY DEF Session, Run, SessionRows, RowState

LEMMA IdleType == Idle \in Run /\ Leaves \in Run /\ Untouched \in SessionRows
<1>1. Untouched \in SessionRows
  BY DEF Untouched, SessionRows
<1> QED
  BY <1>1, SessionType DEF Idle, Leaves

LEMMA RunParts ==
    ASSUME TypeOK, NEW w \in Workers
    PROVE  /\ run[w] \in Run
           /\ run[w].rows \in SessionRows
           /\ run[w].whose \in Workers \cup {NoWorker}
           /\ Here(w) \in Nodes \cup {NoNode}
<1>1. run[w] \in Run
  BY DEF TypeOK
<1>2. run[w].whose \in Workers \cup {NoWorker} /\ run[w].node \in Nodes \cup {NoNode}
  BY <1>1 DEF Run
<1>3. run[w].rows \in SessionRows
  BY <1>1 DEF Run, SessionRows
<1> QED
  BY <1>1, <1>2, <1>3 DEF Here

\* A worker at work on a node has the node and one of its rows in hand; part of
\* what the types of its writes rest on.
AtSomeNode ==
    \A w \in Workers :
        /\ run[w].pc \in {"node", "plan", "schedule", "park"} => run[w].node \in Nodes
        /\ run[w].pc \in {"node", "plan", "schedule"} => run[w].whose \in Workers

\* What the handler of a node begins with.
LEMMA AtNode ==
    ASSUME AtSomeNode, NEW w \in Workers, NEW kinds, NEW states, At(w, kinds, states)
    PROVE  /\ run[w].pc = "node" /\ Here(w) \in Nodes /\ run[w].whose \in Workers
           /\ Kind[Here(w)] \in kinds /\ run[w].found \in states
BY DEF At, AtSomeNode, Here

\* The rows a handler flushes or commits at the node the walk is at.
LEMMA RowsWithType ==
    ASSUME TypeOK, NEW w \in Workers, Here(w) \in Nodes, run[w].whose \in Workers, NEW s
    PROVE  /\ \A n \in Nodes, v \in Workers : RowsWith(w, s)[n][v] =
                 IF n = Here(w) /\ v = run[w].whose THEN s ELSE run[w].rows[n][v]
           /\ s \in RowState => RowsWith(w, s) \in SessionRows
<1>1. run[w].rows \in SessionRows
  BY RunParts
<1> DEFINE rows == run[w].rows
<1>2. RowsWith(w, s) = [rows EXCEPT ![Here(w)] = [rows[Here(w)] EXCEPT ![run[w].whose] = s]]
  BY DEF RowsWith
<1>3. \A n \in Nodes, v \in Workers : RowsWith(w, s)[n][v] =
         IF n = Here(w) /\ v = run[w].whose THEN s ELSE run[w].rows[n][v]
  BY <1>1, <1>2 DEF SessionRows
<1>4. s \in RowState => RowsWith(w, s) \in SessionRows
  BY <1>1, <1>2 DEF SessionRows
<1> QED
  BY <1>3, <1>4

LEMMA StoresType ==
    ASSUME TypeOK, NEW w \in Workers, NEW rows \in SessionRows, Stores(w, rows)
    PROVE  row' \in [Nodes -> [Workers -> RowState]] /\ last' \in [Nodes -> Workers \cup {NoWorker}]
<1>1. row \in [Nodes -> [Workers -> RowState]] /\ last \in [Nodes -> Workers \cup {NoWorker}]
  BY DEF TypeOK
<1>2. row' = [n \in Nodes |-> [v \in Workers |->
                 IF rows[n][v] = "same" THEN row[n][v] ELSE rows[n][v]]]
  BY DEF Stores
<1>3. \A n \in Nodes, v \in Workers :
         (IF rows[n][v] = "same" THEN row[n][v] ELSE rows[n][v]) \in RowState
  BY <1>1 DEF SessionRows
<1>4. row' \in [Nodes -> [Workers -> RowState]]
  BY <1>2, <1>3
<1>5. last' \in [Nodes -> Workers \cup {NoWorker}]
  BY <1>1 DEF Stores
<1> QED
  BY <1>4, <1>5

\* Flushing an outcome keeps the worker's record a Run.
LEMMA RecordsType ==
    ASSUME TypeOK, NEW w \in Workers, Here(w) \in Nodes, run[w].whose \in Workers,
           NEW o \in Outcome, NEW next \in Nodes \cup {NoNode}, Records(w, o, next)
    PROVE  run' \in [Workers -> Run]
<1>1. RowsWith(w, o) \in SessionRows
  BY RowsWithType DEF RowState
<1>2. Session("walk", next, RowsWith(w, o), NoWorker) \in Run
  BY <1>1, SessionType
<1> QED
  BY <1>2 DEF Records, TypeOK

LEMMA TypeInit == Init => TypeOK
<1> SUFFICES ASSUME Init
             PROVE  TypeOK
  OBVIOUS
<1>1. /\ status \in ExecutionStatus /\ current \in Nodes \cup {NoNode}
      /\ cancelRequested \in BOOLEAN /\ pauseRequested \in BOOLEAN
  BY DEF Init, ExecutionStatus
<1>2. /\ row \in [Nodes -> [Workers -> RowState]] /\ last \in [Nodes -> Workers \cup {NoWorker}]
      /\ request \in [Nodes -> [Workers -> RequestStatus]]
  BY DEF Init, RowState, RequestStatus
<1>3. /\ requested \in [Nodes -> Nat] /\ approved \in SUBSET Nodes
      /\ elapsed \in [Nodes -> [Workers -> BOOLEAN]] /\ timer \in [Nodes -> [Workers -> Nat]]
  BY DEF Init
<1>4. /\ queue \in Nat /\ sending \in Nat /\ resuming \in [BOOLEAN -> Nat]
      /\ crashes \in 0 .. MaxCrashes /\ pauses \in 0 .. MaxPauses /\ resumes \in 0 .. MaxResumes
  BY WorkflowAssumption DEF Init
<1>5. run \in [Workers -> Run]
  BY IdleType DEF Init
<1> QED
  BY <1>1, <1>2, <1>3, <1>4, <1>5 DEF TypeOK

LEMMA TypeOutside ==
    ASSUME TypeOK, ApiStep \/ \E n \in Nodes, v \in Workers : RowEvent(n, v)
    PROVE  TypeOK'
<1> USE DEF execVars, rowVars, requestVars, delayVars, mailVars, boundVars
<1>1. CASE Triggers \/ Sends
  BY <1>1 DEF Triggers, Sends, TypeOK, ExecutionStatus
<1>2. CASE Cancel
  BY <1>2 DEF Cancel, TypeOK
<1>3. CASE Pause
  BY <1>3, WorkflowAssumption DEF Pause, TypeOK
<1>4. CASE ResumeReads
  <2>1. resumes' \in 0 .. MaxResumes
    BY <1>4, WorkflowAssumption DEF ResumeReads, TypeOK
  <2>2. resuming' \in [BOOLEAN -> Nat]
    BY <1>4 DEF ResumeReads, TypeOK
  <2> QED
    BY <1>4, <2>1, <2>2 DEF ResumeReads, TypeOK
<1>5. CASE ResumeCommits
  <2>1. /\ resuming' \in [BOOLEAN -> Nat] /\ sending' \in Nat
        /\ pauseRequested' \in BOOLEAN
    <3>1. PICK flag \in BOOLEAN : /\ resuming[flag] > 0
                                  /\ resuming' = [resuming EXCEPT ![flag] = @ - 1]
                                  /\ pauseRequested' = (pauseRequested /\ ~flag)
      BY <1>5 DEF ResumeCommits
    <3>2. resuming[flag] - 1 \in Nat
      BY <3>1 DEF TypeOK
    <3> QED
      BY <1>5, <3>1, <3>2 DEF ResumeCommits, TypeOK
  <2>2. status' \in ExecutionStatus
    BY <1>5 DEF ResumeCommits, ExecutionStatus
  <2> QED
    BY <1>5, <2>1, <2>2 DEF ResumeCommits, TypeOK
<1>6. ASSUME NEW n \in Nodes, NEW v \in Workers, NEW d \in Decided, Decide(n, v, d)
      PROVE  TypeOK'
  <2>1. request' \in [Nodes -> [Workers -> RequestStatus]]
    BY <1>6 DEF Decide, Decided, RequestStatus, TypeOK
  <2>2. sending' \in Nat /\ approved' \in SUBSET Nodes
    BY <1>6 DEF Decide, TypeOK
  <2> QED
    BY <1>6, <2>1, <2>2 DEF Decide, TypeOK
<1>7. ASSUME NEW n \in Nodes, NEW v \in Workers, Lapses(n, v)
      PROVE  TypeOK'
  <2>1. request' \in [Nodes -> [Workers -> RequestStatus]]
    BY <1>7 DEF Lapses, RequestStatus, TypeOK
  <2> QED
    BY <1>7, <2>1 DEF Lapses, TypeOK
<1>8. ASSUME NEW n \in Nodes, NEW v \in Workers, DelayEnds(n, v)
      PROVE  TypeOK'
  <2>1. elapsed' \in [Nodes -> [Workers -> BOOLEAN]]
    BY <1>8 DEF DelayEnds, TypeOK
  <2> QED
    BY <1>8, <2>1 DEF DelayEnds, TypeOK
<1>9. ASSUME NEW n \in Nodes, NEW v \in Workers, TimerFires(n, v)
      PROVE  TypeOK'
  <2>1. timer' \in [Nodes -> [Workers -> Nat]]
    BY <1>9 DEF TimerFires, TypeOK
  <2> QED
    BY <1>9, <2>1 DEF TimerFires, TypeOK
<1> QED
  BY <1>1, <1>2, <1>3, <1>4, <1>5, <1>6, <1>7, <1>8, <1>9 DEF ApiStep, RowEvent

LEMMA TypeVisit ==
    ASSUME TypeOK, AtSomeNode, NEW w \in Workers, Visits(w)
    PROVE  TypeOK'
<1> USE DEF execVars, rowVars, requestVars, delayVars, mailVars, boundVars
<1>0. /\ run[w].rows \in SessionRows /\ Here(w) \in Nodes /\ run[w].whose \in Workers
      /\ Untouched \in SessionRows
  BY RunParts, IdleType, AtNode
     DEF Visits, PassesDecided, TakesStep, AsksApproval, TakesVerdict, TakesDelayEnd, StillWaits,
         StartsDelay, SkipsAction, CreatesPlan
<1>1. CASE PassesDecided(w)
  <2>1. Target(Here(w), "default") \in Nodes \cup {NoNode}
    BY <1>0, TargetType DEF Outcome
  <2>2. Session("walk", Target(Here(w), "default"), run[w].rows, NoWorker) \in Run
    BY <1>0, <2>1, SessionType
  <2> QED
    BY <1>1, <2>2 DEF PassesDecided, TypeOK
<1>2. CASE TakesStep(w)
  <2>1. PICK o \in Branches(Here(w)) : Records(w, o, Target(Here(w), o))
    BY <1>2 DEF TakesStep
  <2>2. o \in Outcome
    BY DEF Branches, Outcome
  <2>3. run' \in [Workers -> Run]
    BY <1>0, <2>1, <2>2, TargetType, RecordsType
  <2> QED
    BY <1>2, <2>3 DEF TakesStep, TypeOK
<1>3. CASE AsksApproval(w) \/ CreatesPlan(w)
  <2>0. /\ request' = [request EXCEPT ![Here(w)][run[w].whose] = "pending"]
        /\ requested' = [requested EXCEPT ![Here(w)] = requested[Here(w)] + 1]
        /\ \/ run' = [run EXCEPT ![w] = Session("park", Here(w), Untouched, NoWorker)]
           \/ run' = [run EXCEPT ![w] = Session("plan", Here(w), Untouched, run[w].whose)]
    BY <1>3 DEF AsksApproval, CreatesPlan
  <2>1. PICK s \in {"waiting", "running"} : Stores(w, RowsWith(w, s))
    BY <1>3 DEF AsksApproval, CreatesPlan
  <2>2. row' \in [Nodes -> [Workers -> RowState]] /\ last' \in [Nodes -> Workers \cup {NoWorker}]
    BY <1>0, <2>1, RowsWithType, StoresType DEF RowState
  <2>3. run' \in [Workers -> Run]
    <3>1. /\ Session("park", Here(w), Untouched, NoWorker) \in Run
          /\ Session("plan", Here(w), Untouched, run[w].whose) \in Run
      BY <1>0, SessionType
    <3> QED
      BY <2>0, <3>1 DEF TypeOK
  <2>4. request' \in [Nodes -> [Workers -> RequestStatus]]
    BY <1>0, <2>0 DEF TypeOK, RequestStatus
  <2>5. requested' \in [Nodes -> Nat]
    BY <1>0, <2>0 DEF TypeOK
  <2> QED
    BY <1>3, <2>2, <2>3, <2>4, <2>5 DEF AsksApproval, CreatesPlan, TypeOK
<1>4. CASE TakesVerdict(w)
  <2>1. VerdictOutcome(Request(w)) \in Outcome
    BY <1>4 DEF TakesVerdict, VerdictOutcome, Decided, Outcome
  <2>2. run' \in [Workers -> Run]
    BY <1>0, <1>4, <2>1, TargetType, RecordsType DEF TakesVerdict
  <2> QED
    BY <1>4, <2>2 DEF TakesVerdict, TypeOK
<1>5. CASE TakesDelayEnd(w) \/ SkipsAction(w)
  <2>1. "default" \in Outcome
    BY DEF Outcome
  <2>2. run' \in [Workers -> Run]
    BY <1>0, <1>5, <2>1, TargetType, RecordsType DEF TakesDelayEnd, SkipsAction
  <2> QED
    BY <1>5, <2>2 DEF TakesDelayEnd, SkipsAction, TypeOK
<1>6. CASE StillWaits(w)
  <2>1. Session("park", Here(w), run[w].rows, NoWorker) \in Run
    BY <1>0, SessionType
  <2> QED
    BY <1>6, <2>1 DEF StillWaits, TypeOK
<1>7. CASE StartsDelay(w)
  <2>1. row' \in [Nodes -> [Workers -> RowState]] /\ last' \in [Nodes -> Workers \cup {NoWorker}]
    BY <1>0, <1>7, RowsWithType, StoresType DEF StartsDelay, RowState
  <2>2. Session("schedule", Here(w), Untouched, run[w].whose) \in Run
    BY <1>0, SessionType
  <2>3. elapsed' \in [Nodes -> [Workers -> BOOLEAN]]
    BY <1>0, <1>7 DEF StartsDelay, TypeOK
  <2> QED
    BY <1>7, <2>1, <2>2, <2>3 DEF StartsDelay, TypeOK
<1> QED
  BY <1>1, <1>2, <1>3, <1>4, <1>5, <1>6, <1>7 DEF Visits

LEMMA TypeWorker ==
    ASSUME TypeOK, AtSomeNode, NEW w \in Workers, WorkerStep(w) \/ Crashes(w)
    PROVE  TypeOK'
<1> USE DEF execVars, rowVars, requestVars, delayVars, mailVars, boundVars
<1>0. /\ run[w] \in Run /\ run[w].rows \in SessionRows /\ Untouched \in SessionRows
      /\ Idle \in Run /\ Leaves \in Run
  BY RunParts, IdleType
<1>1. CASE Starts(w)
  <2>1. (IF current = NoNode THEN Trigger ELSE current) \in Nodes
    BY WorkflowAssumption DEF TypeOK
  <2>2. run' \in [Workers -> Run]
    BY <1>0, <1>1, <2>1, SessionType DEF Starts, TypeOK
  <2>3. queue' \in Nat
    BY <1>1 DEF Starts, TypeOK
  <2> QED
    BY <1>1, <2>2, <2>3 DEF Starts, TypeOK, ExecutionStatus
<1>2. CASE ObservesCancel(w) \/ Finishes(w)
  <2>1. row' \in [Nodes -> [Workers -> RowState]] /\ last' \in [Nodes -> Workers \cup {NoWorker}]
    BY <1>0, <1>2, StoresType DEF ObservesCancel, Finishes
  <2> QED
    BY <1>2, <2>1, <1>0 DEF ObservesCancel, Finishes, TypeOK, ExecutionStatus
<1>3. CASE ObservesPause(w) \/ Parks(w)
  <2>1. row' \in [Nodes -> [Workers -> RowState]] /\ last' \in [Nodes -> Workers \cup {NoWorker}]
    BY <1>0, <1>3, StoresType DEF ObservesPause, Parks
  <2>2. current' \in Nodes \cup {NoNode} /\ pauseRequested' \in BOOLEAN
    BY <1>3, RunParts DEF ObservesPause, Parks, UnsetsPause, TypeOK
  <2> QED
    BY <1>3, <2>1, <2>2, <1>0 DEF ObservesPause, Parks, TypeOK, ExecutionStatus
<1>4. CASE Looks(w)
  <2>1. PICK v \in Workers :
           run' = [run EXCEPT ![w] = [@ EXCEPT !.pc = "node", !.whose = v, !.found = State(w, v)]]
    BY <1>4 DEF Looks
  <2>2. Here(w) \in Nodes
    BY <1>4, RunParts DEF Looks
  <2>3. State(w, v) \in RowState
    BY <1>0, <2>2 DEF State, SessionRows, TypeOK
  <2>4. [run[w] EXCEPT !.pc = "node", !.whose = v, !.found = State(w, v)] \in Run
    BY <1>0, <2>3 DEF Run
  <2> QED
    BY <1>4, <2>1, <2>4 DEF Looks, TypeOK
<1>5. CASE Visits(w)
  BY <1>5, TypeVisit
<1>6. CASE SchedulesTimer(w)
  <2>1. Here(w) \in Nodes /\ run[w].whose \in Workers
    BY <1>6 DEF SchedulesTimer, AtSomeNode, Here
  <2>2. Session("park", Here(w), Untouched, NoWorker) \in Run
    BY <1>0, <2>1, SessionType
  <2>3. timer' \in [Nodes -> [Workers -> Nat]]
    BY <1>6, <2>1 DEF SchedulesTimer, TypeOK
  <2> QED
    BY <1>6, <2>2, <2>3 DEF SchedulesTimer, TypeOK
<1>7. CASE AutoDecides(w)
  <2>1. Here(w) \in Nodes /\ run[w].whose \in Workers
    BY <1>7 DEF AutoDecides, AtSomeNode, Here
  <2>2. "default" \in Outcome
    BY DEF Outcome
  <2>3. run' \in [Workers -> Run]
    BY <1>7, <2>1, <2>2, TargetType, RecordsType DEF AutoDecides
  <2>4. request' \in [Nodes -> [Workers -> RequestStatus]]
    BY <1>7, <2>1 DEF AutoDecides, TypeOK, RequestStatus
  <2> QED
    BY <1>7, <2>1, <2>3, <2>4 DEF AutoDecides, TypeOK
<1>8. CASE LinksRequest(w)
  <2>1. Here(w) \in Nodes /\ run[w].whose \in Workers
    BY <1>8 DEF LinksRequest, AtSomeNode, Here
  <2>2. row' \in [Nodes -> [Workers -> RowState]] /\ last' \in [Nodes -> Workers \cup {NoWorker}]
    BY <1>8, <2>1, RowsWithType, StoresType DEF LinksRequest, RowState
  <2>3. Session("park", Here(w), Untouched, NoWorker) \in Run
    BY <1>0, <2>1, SessionType
  <2> QED
    BY <1>8, <2>2, <2>3 DEF LinksRequest, TypeOK
<1>9. CASE Fails(w) \/ Acks(w)
  BY <1>9, <1>0 DEF Fails, Acks, TypeOK, ExecutionStatus
<1>10. CASE Crashes(w)
  BY <1>10, <1>0, WorkflowAssumption DEF Crashes, AfterCrash, TypeOK
<1> QED
  BY <1>1, <1>2, <1>3, <1>4, <1>5, <1>6, <1>7, <1>8, <1>9, <1>10 DEF WorkerStep

\* A worker's step changes no other worker's session.
LEMMA OnlyItsRun ==
    ASSUME TypeOK, NEW w \in Workers, WorkerStep(w) \/ Crashes(w),
           NEW v \in Workers, v # w
    PROVE  run'[v] = run[v]
<1>1. CASE Visits(w)
  BY <1>1
     DEF Visits, PassesDecided, TakesStep, AsksApproval, TakesVerdict, TakesDelayEnd, StillWaits,
         StartsDelay, SkipsAction, CreatesPlan, Records, TypeOK
<1>2. CASE ~Visits(w)
  BY <1>2
     DEF WorkerStep, Starts, ObservesCancel, ObservesPause, Looks, SchedulesTimer, AutoDecides,
         Records, LinksRequest, Parks, Finishes, Fails, Acks, Crashes, TypeOK
<1> QED
  BY <1>1, <1>2

LEMMA AtSomeNodeStep == TypeOK /\ AtSomeNode /\ [Next]_vars => AtSomeNode'
<1> SUFFICES ASSUME TypeOK, AtSomeNode, [Next]_vars
             PROVE  AtSomeNode'
  OBVIOUS
<1>1. CASE UNCHANGED run
  BY <1>1 DEF AtSomeNode
<1>2. ASSUME NEW w \in Workers, WorkerStep(w) \/ Crashes(w)
      PROVE  AtSomeNode'
  <2>0. run \in [Workers -> Run] /\ run[w] \in Run
    BY DEF TypeOK
  <2> SUFFICES /\ run'[w].pc \in {"node", "plan", "schedule", "park"} => run'[w].node \in Nodes
               /\ run'[w].pc \in {"node", "plan", "schedule"} => run'[w].whose \in Workers
    BY <1>2, OnlyItsRun DEF AtSomeNode
  <2>1. CASE \/ Starts(w) \/ ObservesCancel(w) \/ ObservesPause(w) \/ Parks(w) \/ AutoDecides(w)
             \/ Finishes(w) \/ Fails(w) \/ Acks(w) \/ Crashes(w)
    <3>1. run'[w].pc \in {"walk", "idle", "ack"}
      BY <2>1, <2>0
         DEF Starts, ObservesCancel, ObservesPause, Parks, AutoDecides, Records, Finishes, Fails,
             Acks, Crashes, Idle, Leaves, Session
    <3> QED
      BY <3>1
  <2>2. CASE Looks(w)
    <3>1. PICK v \in Workers :
             run' = [run EXCEPT ![w] = [@ EXCEPT !.pc = "node", !.whose = v, !.found = State(w, v)]]
      BY <2>2 DEF Looks
    <3>2. run'[w] = [run[w] EXCEPT !.pc = "node", !.whose = v, !.found = State(w, v)]
      BY <2>0, <3>1
    <3>3. run'[w].node = Here(w) /\ run'[w].whose = v
      BY <2>0, <3>2 DEF Run, Here
    <3> QED
      BY <2>2, <3>3, RunParts DEF Looks
  <2>3. CASE SchedulesTimer(w) \/ LinksRequest(w)
    <3>1. Here(w) \in Nodes
      BY <2>3 DEF SchedulesTimer, LinksRequest, AtSomeNode, Here
    <3>2. run'[w] = Session("park", Here(w), Untouched, NoWorker)
      BY <2>0, <2>3 DEF SchedulesTimer, LinksRequest
    <3> QED
      BY <3>1, <3>2 DEF Session
  <2>4. CASE AsksApproval(w) \/ StillWaits(w) \/ StartsDelay(w) \/ CreatesPlan(w)
    <3>1. Here(w) \in Nodes /\ run[w].whose \in Workers
      BY <2>4, AtNode DEF AsksApproval, StillWaits, StartsDelay, CreatesPlan
    <3>2. PICK r : \/ run'[w] = Session("park", Here(w), r, NoWorker)
                   \/ run'[w] = Session("schedule", Here(w), r, run[w].whose)
                   \/ run'[w] = Session("plan", Here(w), r, run[w].whose)
      BY <2>4, <2>0 DEF AsksApproval, StillWaits, StartsDelay, CreatesPlan
    <3> QED
      BY <3>1, <3>2 DEF Session
  <2>5. CASE PassesDecided(w) \/ TakesStep(w) \/ TakesVerdict(w) \/ TakesDelayEnd(w) \/ SkipsAction(w)
    <3>1. run'[w].pc = "walk"
      BY <2>5, <2>0
         DEF PassesDecided, TakesStep, TakesVerdict, TakesDelayEnd, SkipsAction, Records, Session
    <3> QED
      BY <3>1
  <2> QED
    BY <1>2, <2>1, <2>2, <2>3, <2>4, <2>5 DEF WorkerStep, Visits
<1>3. CASE ApiStep \/ \E n \in Nodes, v \in Workers : RowEvent(n, v)
  BY <1>3, <1>1
     DEF ApiStep, Triggers, Sends, Cancel, Pause, ResumeReads, ResumeCommits, RowEvent, Decide,
         Lapses, DelayEnds, TimerFires
<1>4. CASE UNCHANGED vars
  BY <1>4, <1>1 DEF vars
<1> QED
  BY <1>2, <1>3, <1>4 DEF Next

LEMMA TypeStep == TypeOK /\ AtSomeNode /\ [Next]_vars => TypeOK'
<1> SUFFICES ASSUME TypeOK, AtSomeNode, [Next]_vars
             PROVE  TypeOK'
  OBVIOUS
<1>1. CASE UNCHANGED vars
  BY <1>1 DEF vars, execVars, rowVars, requestVars, delayVars, mailVars, boundVars, TypeOK
<1> QED
  BY <1>1, TypeOutside, TypeWorker DEF Next

LEMMA TypedInit == Init => TypeOK /\ AtSomeNode
BY TypeInit DEF Init, AtSomeNode, Idle, Session

\* Every variable keeps its type: the execution, its node rows and requests, the
\* messages, and the session of each worker inside run().
THEOREM TypeCorrect == Spec => []TypeOK
<1>1. TypeOK /\ AtSomeNode /\ [Next]_vars => (TypeOK /\ AtSomeNode)'
  BY TypeStep, AtSomeNodeStep
<1> QED
  BY <1>1, TypedInit, PTL DEF Spec

-----------------------------------------------------------------------------
(* The gate *)

\* The nodes that may be entered: those not behind an approval, and those
\* whose approval has been given.
Open == {n \in Nodes : n \in Gated => \E m \in approved : Target(m, "approved") = n}

\* What a session can leave behind is at open nodes.
SessionOpen(w) ==
    /\ run[w].node \in Open \cup {NoNode}
    /\ \A n \in Nodes, v \in Workers : run[w].rows[n][v] # "same" => n \in Open

(***************************************************************************)
(* The inductive invariant: whatever a walk can leave behind (the parked       *)
(* node, a committed or a flushed row, the node a worker is at) is at an open  *)
(* node, and a request that reads "approved" was approved by somebody.         *)
(***************************************************************************)
GateInv ==
    /\ current \in Open \cup {NoNode}
    /\ \A n \in Nodes, v \in Workers : /\ row[n][v] # "none" => n \in Open
                                       /\ request[n][v] = "approved" => n \in approved
    /\ \A w \in Workers : SessionOpen(w)

LEMMA TriggerOpen == Trigger \in Open
BY WorkflowAssumption DEF Open, Gated

\* An outcome other than a verdict never leads behind an approval.
LEMMA TargetOpen ==
    ASSUME NEW n \in Nodes, NEW o \in Outcome,
           o # "approved" \/ Kind[n] \notin {"approval", "action"} \/ n \in approved
    PROVE  Target(n, o) \in Open \cup {NoNode}
<1>1. Target(n, o) \in Nodes \cup {NoNode}
  BY TargetType
<1> QED
  BY <1>1 DEF Open, Gated

LEMMA StoresOpen ==
    ASSUME \A n \in Nodes, v \in Workers : row[n][v] # "none" => n \in Open,
           NEW rows, \A n \in Nodes, v \in Workers : rows[n][v] # "same" => n \in Open,
           NEW w, Stores(w, rows)
    PROVE  \A n \in Nodes, v \in Workers : row'[n][v] # "none" => n \in Open
BY DEF Stores

\* Approvals only add to the open nodes.
LEMMA OpenKept ==
    ASSUME approved \subseteq approved'
    PROVE  Open \subseteq Open'
BY DEF Open

\* What a step of a worker has to show: what it leaves, and its own new session,
\* at open nodes.
LEMMA GateKept ==
    ASSUME TypeOK, GateInv, NEW w \in Workers, WorkerStep(w) \/ Crashes(w),
           approved \subseteq approved',
           current' \in Open \cup {NoNode},
           \A n \in Nodes, v \in Workers : row'[n][v] # "none" => n \in Open,
           \A n \in Nodes, v \in Workers : request'[n][v] = "approved" => n \in approved',
           run'[w].node \in Open \cup {NoNode},
           \A n \in Nodes, v \in Workers : run'[w].rows[n][v] # "same" => n \in Open
    PROVE  GateInv'
<1>1. Open \subseteq Open'
  BY OpenKept
<1>2. ASSUME NEW v \in Workers
      PROVE  SessionOpen(v)'
  <2>1. CASE v = w
    BY <1>1, <2>1 DEF SessionOpen
  <2>2. CASE v # w
    BY <1>1, <2>2, OnlyItsRun DEF SessionOpen, GateInv
  <2> QED
    BY <2>1, <2>2
<1> QED
  BY <1>1, <1>2 DEF GateInv

LEMMA IdleOpen ==
    /\ Idle.node = NoNode /\ Leaves.node = NoNode
    /\ \A n \in Nodes, v \in Workers :
          Idle.rows[n][v] = "same" /\ Leaves.rows[n][v] = "same" /\ Untouched[n][v] = "same"
BY DEF Idle, Leaves, Session, Untouched

\* Flushing a row at an open node keeps the session's rows at open nodes.
LEMMA RowsWithOpen ==
    ASSUME TypeOK, GateInv, NEW w \in Workers, Here(w) \in Nodes, run[w].whose \in Workers, NEW s
    PROVE  /\ Here(w) \in Open
           /\ \A n \in Nodes, v \in Workers : RowsWith(w, s)[n][v] # "same" => n \in Open
<1>1. Here(w) \in Open /\ \A n \in Nodes, v \in Workers : run[w].rows[n][v] # "same" => n \in Open
  BY WorkflowAssumption DEF GateInv, SessionOpen, Here
<1> QED
  BY <1>1, RowsWithType

\* A visit that records an outcome: the outcome leads to an open node.
LEMMA RecordsOpen ==
    ASSUME TypeOK, GateInv, NEW w \in Workers, Here(w) \in Nodes, run[w].whose \in Workers,
           NEW o, NEW next \in Open \cup {NoNode}, Records(w, o, next)
    PROVE  /\ run'[w].node \in Open \cup {NoNode}
           /\ \A n \in Nodes, v \in Workers : run'[w].rows[n][v] # "same" => n \in Open
<1>1. run'[w] = Session("walk", next, RowsWith(w, o), NoWorker)
  BY DEF Records, TypeOK
<1>2. run'[w].node = next /\ run'[w].rows = RowsWith(w, o)
  BY <1>1 DEF Session
<1> QED
  BY <1>2, RowsWithOpen

LEMMA GateVisit ==
    ASSUME TypeOK, AtSomeNode, GateInv, NEW w \in Workers, Visits(w)
    PROVE  GateInv'
<1> USE DEF execVars, rowVars, requestVars
<1>0. /\ run \in [Workers -> Run] /\ SessionOpen(w)
      /\ Here(w) \in Nodes /\ run[w].whose \in Workers
  BY AtNode
     DEF TypeOK, GateInv, Visits, PassesDecided, TakesStep, AsksApproval, TakesVerdict,
         TakesDelayEnd, StillWaits, StartsDelay, SkipsAction, CreatesPlan
<1>1. /\ approved \subseteq approved' /\ current' \in Open \cup {NoNode}
      /\ \A n \in Nodes, v \in Workers : request'[n][v] = "approved" => n \in approved'
  <2>1. UNCHANGED <<current, approved>>
    BY DEF Visits, PassesDecided, TakesStep, AsksApproval, TakesVerdict, TakesDelayEnd, StillWaits,
           StartsDelay, SkipsAction, CreatesPlan
  <2>2. \A n \in Nodes, v \in Workers : request'[n][v] \in {request[n][v], "pending"}
    <3>1. CASE AsksApproval(w) \/ CreatesPlan(w)
      <4>1. request' = [request EXCEPT ![Here(w)][run[w].whose] = "pending"]
        BY <3>1 DEF AsksApproval, CreatesPlan
      <4> QED
        BY <4>1 DEF TypeOK
    <3>2. CASE UNCHANGED request
      BY <3>2
    <3> QED
      BY <3>1, <3>2
         DEF Visits, PassesDecided, TakesStep, TakesVerdict, TakesDelayEnd, StillWaits,
             StartsDelay, SkipsAction
  <2> QED
    BY <2>1, <2>2 DEF GateInv
<1>2. \A n \in Nodes, v \in Workers : row'[n][v] # "none" => n \in Open
  <2>1. CASE UNCHANGED row
    BY <2>1 DEF GateInv
  <2>2. CASE AsksApproval(w) \/ StartsDelay(w) \/ CreatesPlan(w)
    <3>1. PICK s : Stores(w, RowsWith(w, s))
      BY <2>2 DEF AsksApproval, StartsDelay, CreatesPlan
    <3> QED
      BY <3>1, <1>0, RowsWithOpen, StoresOpen DEF GateInv
  <2> QED
    BY <2>1, <2>2
       DEF Visits, PassesDecided, TakesStep, TakesVerdict, TakesDelayEnd, StillWaits, SkipsAction
<1>3. /\ run'[w].node \in Open \cup {NoNode}
      /\ \A n \in Nodes, v \in Workers : run'[w].rows[n][v] # "same" => n \in Open
  <2>1. CASE PassesDecided(w)
    <3>1. Target(Here(w), "default") \in Open \cup {NoNode}
      BY <1>0, TargetOpen DEF Outcome
    <3>2. run'[w] = Session("walk", Target(Here(w), "default"), run[w].rows, NoWorker)
      BY <2>1, <1>0 DEF PassesDecided
    <3> QED
      BY <1>0, <3>1, <3>2 DEF Session, SessionOpen
  <2>2. CASE TakesStep(w)
    <3>1. PICK o \in Branches(Here(w)) : Records(w, o, Target(Here(w), o))
      BY <2>2 DEF TakesStep
    <3>2. Target(Here(w), o) \in Open \cup {NoNode}
      BY <1>0, TargetOpen DEF Branches, Outcome
    <3> QED
      BY <1>0, <3>1, <3>2, RecordsOpen
  <2>3. CASE TakesVerdict(w)
    <3> DEFINE o == VerdictOutcome(Request(w))
    <3>1. o \in Outcome /\ (o = "approved" => Here(w) \in approved)
      BY <2>3, <1>0 DEF TakesVerdict, VerdictOutcome, Request, Decided, Outcome, GateInv
    <3>2. Target(Here(w), o) \in Open \cup {NoNode}
      BY <1>0, <3>1, TargetOpen
    <3> QED
      BY <2>3, <1>0, <3>2, RecordsOpen DEF TakesVerdict
  <2>4. CASE TakesDelayEnd(w) \/ SkipsAction(w)
    <3>1. Target(Here(w), "default") \in Open \cup {NoNode}
      BY <1>0, TargetOpen DEF Outcome
    <3> QED
      BY <2>4, <1>0, <3>1, RecordsOpen DEF TakesDelayEnd, SkipsAction
  <2>5. CASE AsksApproval(w) \/ StartsDelay(w) \/ CreatesPlan(w) \/ StillWaits(w)
    <3>1. PICK q, v, r : /\ run'[w] = Session(q, Here(w), r, v)
                         /\ r \in {Untouched, run[w].rows}
      BY <2>5, <1>0 DEF AsksApproval, StartsDelay, CreatesPlan, StillWaits
    <3>2. run'[w].node = run[w].node /\ run'[w].rows \in {Untouched, run[w].rows}
      BY <3>1 DEF Session, Here
    <3> QED
      BY <1>0, <3>2, IdleOpen DEF SessionOpen
  <2> QED
    BY <2>1, <2>2, <2>3, <2>4, <2>5 DEF Visits
<1> QED
  BY <1>1, <1>2, <1>3, GateKept DEF WorkerStep

LEMMA GateWorker ==
    ASSUME TypeOK, AtSomeNode, GateInv, NEW w \in Workers, WorkerStep(w) \/ Crashes(w)
    PROVE  GateInv'
<1> USE DEF execVars, rowVars, requestVars
<1>0. run \in [Workers -> Run] /\ run[w] \in Run /\ SessionOpen(w)
  BY DEF TypeOK, GateInv
<1>1. CASE Visits(w)
  BY <1>1, GateVisit
<1>2. CASE ObservesCancel(w) \/ ObservesPause(w) \/ Parks(w) \/ Finishes(w)
  <2>1. \A n \in Nodes, v \in Workers : row'[n][v] # "none" => n \in Open
    <3>1. Stores(w, run[w].rows)
      BY <1>2 DEF ObservesCancel, ObservesPause, Parks, Finishes
    <3> QED
      BY <1>0, <3>1, StoresOpen DEF GateInv, SessionOpen
  <2>2. run'[w] = Leaves
    BY <1>2, <1>0 DEF ObservesCancel, ObservesPause, Parks, Finishes
  <2>3. current' \in Open \cup {NoNode} /\ UNCHANGED <<request, approved>>
    BY <1>2, <1>0
       DEF ObservesCancel, ObservesPause, Parks, Finishes, Here, GateInv, SessionOpen
  <2> QED
    BY <2>1, <2>2, <2>3, IdleOpen, GateKept DEF GateInv
<1>3. CASE Fails(w) \/ Acks(w) \/ Crashes(w)
  <2>1. run'[w] \in {Idle, Leaves}
    BY <1>3, <1>0 DEF Fails, Acks, Crashes
  <2>2. UNCHANGED <<current, row, request, approved>>
    BY <1>3 DEF Fails, Acks, Crashes
  <2> QED
    BY <2>1, <2>2, IdleOpen, GateKept DEF GateInv
<1>4. CASE Starts(w) \/ SchedulesTimer(w) \/ Looks(w)
  <2>1. run'[w].node \in Open \cup {NoNode} /\ run'[w].rows \in {Untouched, run[w].rows}
    <3>1. CASE Starts(w)
      <4>1. run'[w] = Session("walk", IF current = NoNode THEN Trigger ELSE current,
                              Untouched, NoWorker)
        BY <3>1, <1>0 DEF Starts
      <4> QED
        BY <4>1, TriggerOpen DEF Session, GateInv
    <3>2. CASE SchedulesTimer(w)
      <4>1. run'[w] = Session("park", Here(w), Untouched, NoWorker)
        BY <3>2, <1>0 DEF SchedulesTimer
      <4> QED
        BY <4>1, <1>0 DEF Session, Here, SessionOpen
    <3>3. CASE Looks(w)
      <4>1. PICK v, f : run'[w] = [run[w] EXCEPT !.pc = "node", !.whose = v, !.found = f]
        BY <3>3, <1>0 DEF Looks
      <4>2. run'[w].node = run[w].node /\ run'[w].rows = run[w].rows
        BY <4>1, <1>0 DEF Run
      <4> QED
        BY <4>2, <1>0 DEF SessionOpen
    <3> QED
      BY <1>4, <3>1, <3>2, <3>3
  <2>2. UNCHANGED <<current, row, request, approved>>
    BY <1>4 DEF Starts, SchedulesTimer, Looks
  <2>3. \A n \in Nodes, v \in Workers : run'[w].rows[n][v] # "same" => n \in Open
    BY <1>0, <2>1, IdleOpen DEF SessionOpen
  <2> QED
    BY <2>1, <2>2, <2>3, GateKept DEF GateInv
<1>5. CASE AutoDecides(w)
  <2>1. Here(w) \in Nodes /\ run[w].whose \in Workers
    BY <1>5 DEF AutoDecides, AtSomeNode, Here
  <2>2. Target(Here(w), "default") \in Open \cup {NoNode}
    BY <2>1, TargetOpen DEF Outcome
  <2>3. /\ run'[w].node \in Open \cup {NoNode}
        /\ \A n \in Nodes, v \in Workers : run'[w].rows[n][v] # "same" => n \in Open
    BY <1>5, <2>1, <2>2, RecordsOpen DEF AutoDecides
  <2>4. /\ request' = [request EXCEPT ![Here(w)][run[w].whose] = "approved"]
        /\ approved' = approved \cup {Here(w)} /\ UNCHANGED <<current, row>>
    BY <1>5 DEF AutoDecides
  <2>5. \A n \in Nodes, v \in Workers : request'[n][v] = "approved" => n \in approved'
    BY <2>4, <2>1 DEF GateInv, TypeOK
  <2> QED
    BY <2>3, <2>4, <2>5, GateKept DEF GateInv
<1>6. CASE LinksRequest(w)
  <2>1. Here(w) \in Nodes /\ run[w].whose \in Workers
    BY <1>6 DEF LinksRequest, AtSomeNode, Here
  <2>2. \A n \in Nodes, v \in Workers : row'[n][v] # "none" => n \in Open
    BY <1>6, <2>1, RowsWithOpen, StoresOpen DEF LinksRequest, GateInv
  <2>3. run'[w] = Session("park", Here(w), Untouched, NoWorker)
    BY <1>6, <1>0 DEF LinksRequest
  <2>4. run'[w].node = run[w].node /\ run'[w].rows = Untouched
    BY <2>3 DEF Session, Here
  <2>5. UNCHANGED <<current, request, approved>>
    BY <1>6 DEF LinksRequest
  <2> QED
    BY <1>0, <2>2, <2>4, <2>5, IdleOpen, GateKept DEF GateInv, SessionOpen
<1> QED
  BY <1>1, <1>2, <1>3, <1>4, <1>5, <1>6 DEF WorkerStep

LEMMA GateStep == TypeOK /\ AtSomeNode /\ GateInv /\ [Next]_vars => GateInv'
<1> SUFFICES ASSUME TypeOK, AtSomeNode, GateInv, [Next]_vars
             PROVE  GateInv'
  OBVIOUS
<1>1. CASE UNCHANGED vars \/ ApiStep \/ \E n \in Nodes, v \in Workers : RowEvent(n, v)
  <2>1. UNCHANGED <<current, row, run>>
    BY <1>1
       DEF vars, execVars, rowVars, ApiStep, Triggers, Sends, Cancel, Pause, ResumeReads,
           ResumeCommits, RowEvent, Decide, Lapses, DelayEnds, TimerFires
  <2>2. /\ approved \subseteq approved'
        /\ \A n \in Nodes, v \in Workers : request'[n][v] = "approved" => n \in approved'
    <3>1. ASSUME NEW m \in Nodes, NEW u \in Workers, NEW d \in Decided, Decide(m, u, d)
          PROVE  <2>2
      <4>1. /\ request' = [request EXCEPT ![m][u] = d]
            /\ approved' = IF d = "approved" THEN approved \cup {m} ELSE approved
        BY <3>1 DEF Decide
      <4> QED
        BY <4>1 DEF GateInv, TypeOK
    <3>2. ASSUME NEW m \in Nodes, NEW u \in Workers, Lapses(m, u)
          PROVE  <2>2
      <4>1. request' = [request EXCEPT ![m][u] = "expired"] /\ UNCHANGED approved
        BY <3>2 DEF Lapses
      <4> QED
        BY <4>1 DEF GateInv, TypeOK
    <3>3. CASE UNCHANGED <<request, approved>>
      BY <3>3 DEF GateInv
    <3> QED
      BY <1>1, <3>1, <3>2, <3>3
         DEF vars, requestVars, ApiStep, Triggers, Sends, Cancel, Pause, ResumeReads,
             ResumeCommits, RowEvent, DelayEnds, TimerFires
  <2>3. Open \subseteq Open'
    BY <2>2, OpenKept
  <2> QED
    BY <2>1, <2>2, <2>3 DEF GateInv, SessionOpen
<1> QED
  BY <1>1, GateWorker DEF Next

LEMMA GateInit == Init => GateInv
BY IdleOpen DEF Init, GateInv, SessionOpen

\* What lies behind an approval is entered only after one, in every graph and
\* for any number of workers: no crash, redelivery, expiry, cancellation or
\* race lets a walk of run() past an approval that was not given.
THEOREM GateHolds == Spec => []ApprovalGate
<1>1. GateInv => ApprovalGate
  BY WorkflowAssumption DEF GateInv, SessionOpen, ApprovalGate, Entered, Open, Gated
<1>2. TypeOK /\ AtSomeNode /\ GateInv /\ [Next]_vars => (TypeOK /\ AtSomeNode /\ GateInv)'
  BY TypeStep, AtSomeNodeStep, GateStep
<1>3. Init => TypeOK /\ AtSomeNode /\ GateInv
  BY TypedInit, GateInit
<1> QED
  BY <1>1, <1>2, <1>3, PTL DEF Spec

-----------------------------------------------------------------------------
(* A node asks once *)

\* One worker at a time walks the run.
OneWorker == \A v, w \in Workers : v = w

\* What a session holds of an APPROVAL node is an outcome or a wait, and one that
\* has found the node undecided has found what is still so.
SessionAsks(w) ==
    /\ \A n \in Nodes, v \in Workers : Kind[n] = "approval" => run[w].rows[n][v] \notin Undecided
    /\ run[w].pc = "node" /\ Kind[Here(w)] = "approval" /\ run[w].found \in Undecided
          => requested[Here(w)] = 0

\* An APPROVAL node has asked once at most, and the rows of one that has asked wait
\* or are decided.
Asked ==
    \A n \in Nodes : Kind[n] = "approval" =>
        /\ requested[n] <= 1
        /\ requested[n] > 0 => \A v \in Workers : row[n][v] \notin Undecided

(***************************************************************************)
(* The inductive invariant: every later walk finds the row of a node that has *)
(* asked waiting or decided, since no session holds an undecided row of it,    *)
(* and between a look and what is done about it nobody else asks.             *)
(***************************************************************************)
AskInv == Asked /\ \A w \in Workers : SessionAsks(w)

LEMMA UntouchedAsks ==
    \A n \in Nodes, v \in Workers : Untouched[n][v] \notin Undecided
BY DEF Untouched, Undecided

\* The rows that a handler flushes at the node the walk is at.
LEMMA RowsWithAsks ==
    ASSUME TypeOK, NEW w \in Workers, SessionAsks(w), Here(w) \in Nodes, run[w].whose \in Workers,
           NEW s, s \notin Undecided \/ Kind[Here(w)] # "approval"
    PROVE  \A n \in Nodes, v \in Workers :
              Kind[n] = "approval" => RowsWith(w, s)[n][v] \notin Undecided
BY RowsWithType DEF SessionAsks

\* A commit of such rows leaves the rows of a node that has asked as they have to be.
LEMMA StoresAsks ==
    ASSUME Asked, NEW w, NEW rows, Stores(w, rows),
           \A n \in Nodes, v \in Workers : Kind[n] = "approval" => rows[n][v] \notin Undecided,
           NEW n \in Nodes, Kind[n] = "approval", requested[n] > 0
    PROVE  \A v \in Workers : row'[n][v] \notin Undecided
<1>1. \A v \in Workers : row'[n][v] = IF rows[n][v] = "same" THEN row[n][v] ELSE rows[n][v]
  BY DEF Stores
<1> QED
  BY <1>1 DEF Asked

\* The steps of a worker that commit no row and make no request.
LEMMA AskQuiet ==
    ASSUME TypeOK, AtSomeNode, AskInv, NEW w \in Workers,
           \/ Starts(w) \/ PassesDecided(w) \/ TakesStep(w) \/ TakesVerdict(w)
           \/ TakesDelayEnd(w) \/ StillWaits(w) \/ SkipsAction(w) \/ SchedulesTimer(w)
           \/ AutoDecides(w) \/ Fails(w) \/ Acks(w) \/ Crashes(w)
    PROVE  SessionAsks(w)' /\ UNCHANGED <<row, requested>>
<1>0. run \in [Workers -> Run] /\ SessionAsks(w)
  BY DEF TypeOK, AskInv
<1>1. UNCHANGED <<row, requested>>
  BY DEF Starts, PassesDecided, TakesStep, TakesVerdict, TakesDelayEnd, StillWaits, SkipsAction,
         SchedulesTimer, AutoDecides, Fails, Acks, Crashes, rowVars, requestVars
<1>2. CASE \/ Starts(w) \/ PassesDecided(w) \/ StillWaits(w) \/ SchedulesTimer(w)
           \/ Fails(w) \/ Acks(w) \/ Crashes(w)
  <2>1. run'[w].pc # "node" /\ run'[w].rows \in {Untouched, run[w].rows}
    BY <1>2, <1>0
       DEF Starts, PassesDecided, StillWaits, SchedulesTimer, Fails, Acks, Crashes, Idle, Leaves,
           Session
  <2> QED
    BY <1>0, <1>1, <2>1, UntouchedAsks DEF SessionAsks
<1>3. CASE TakesStep(w) \/ TakesVerdict(w) \/ TakesDelayEnd(w) \/ SkipsAction(w) \/ AutoDecides(w)
  <2>1. Here(w) \in Nodes /\ run[w].whose \in Workers
    BY <1>3, AtNode
       DEF TakesStep, TakesVerdict, TakesDelayEnd, SkipsAction, AutoDecides, AtSomeNode, Here
  <2>2. PICK o \in Outcome : Records(w, o, Target(Here(w), o))
    BY <1>3 DEF TakesStep, TakesVerdict, TakesDelayEnd, SkipsAction, AutoDecides, Branches,
       VerdictOutcome, Decided, Outcome
  <2>3. run'[w].pc = "walk" /\ run'[w].rows = RowsWith(w, o)
    BY <1>0, <2>2 DEF Records, Session
  <2>4. o \notin Undecided
    BY DEF Outcome, Undecided
  <2> QED
    BY <1>0, <1>1, <2>1, <2>3, <2>4, RowsWithAsks DEF SessionAsks
<1> QED
  BY <1>1, <1>2, <1>3

\* A look finds a node that has asked waiting or decided.
LEMMA AskLooks ==
    ASSUME TypeOK, AskInv, NEW w \in Workers, Looks(w)
    PROVE  SessionAsks(w)' /\ UNCHANGED <<row, requested>>
<1>0. run \in [Workers -> Run] /\ run[w] \in Run /\ SessionAsks(w)
  BY DEF TypeOK, AskInv
<1>1. UNCHANGED <<row, requested>> /\ Here(w) \in Nodes
  BY RunParts DEF Looks, rowVars, requestVars
<1>2. PICK v \in Workers :
         run'[w] = [run[w] EXCEPT !.pc = "node", !.whose = v, !.found = State(w, v)]
  BY <1>0 DEF Looks
<1>3. run'[w].node = run[w].node /\ run'[w].rows = run[w].rows /\ run'[w].found = State(w, v)
  BY <1>0, <1>2 DEF Run
<1>4. ASSUME Kind[Here(w)] = "approval", State(w, v) \in Undecided
      PROVE  requested[Here(w)] = 0
  <2>1. State(w, v) = row[Here(w)][v]
    BY <1>0, <1>1, <1>4 DEF State, SessionAsks
  <2>2. ~(requested[Here(w)] > 0)
    BY <1>1, <1>4, <2>1 DEF AskInv, Asked
  <2> QED
    BY <1>1, <2>2 DEF TypeOK
<1> QED
  BY <1>0, <1>1, <1>3, <1>4 DEF SessionAsks, Here

\* The commits of a walk that asks for no approval.
LEMMA AskCommits ==
    ASSUME TypeOK, AtSomeNode, AskInv, NEW w \in Workers,
           \/ ObservesCancel(w) \/ ObservesPause(w) \/ Parks(w) \/ Finishes(w)
           \/ StartsDelay(w) \/ CreatesPlan(w) \/ LinksRequest(w)
    PROVE  SessionAsks(w)' /\ Asked'
<1>0. run \in [Workers -> Run] /\ SessionAsks(w) /\ requested \in [Nodes -> Nat]
  BY DEF TypeOK, AskInv
<1>1. PICK rows : /\ Stores(w, rows)
                  /\ \A n \in Nodes, v \in Workers :
                        Kind[n] = "approval" => rows[n][v] \notin Undecided
  <2>1. CASE ObservesCancel(w) \/ ObservesPause(w) \/ Parks(w) \/ Finishes(w)
    BY <2>1, <1>0 DEF ObservesCancel, ObservesPause, Parks, Finishes, SessionAsks
  <2>2. CASE StartsDelay(w) \/ CreatesPlan(w) \/ LinksRequest(w)
    <3>1. Here(w) \in Nodes /\ run[w].whose \in Workers
      BY <2>2, AtNode DEF StartsDelay, CreatesPlan, LinksRequest, AtSomeNode, Here
    <3>2. PICK s : /\ Stores(w, RowsWith(w, s))
                   /\ s \notin Undecided \/ Kind[Here(w)] # "approval"
      BY <2>2 DEF StartsDelay, CreatesPlan, LinksRequest, At, Undecided
    <3> QED
      BY <1>0, <3>1, <3>2, RowsWithAsks
  <2> QED
    BY <2>1, <2>2
<1>2. \A n \in Nodes : Kind[n] = "approval" => requested'[n] = requested[n]
  BY <1>0
     DEF ObservesCancel, ObservesPause, Parks, Finishes, StartsDelay, CreatesPlan, LinksRequest,
         At, requestVars
<1>3. Asked'
  <2> SUFFICES ASSUME NEW n \in Nodes, Kind[n] = "approval"
               PROVE  /\ requested'[n] <= 1
                      /\ requested'[n] > 0 => \A v \in Workers : row'[n][v] \notin Undecided
    BY DEF Asked
  <2> QED
    BY <1>1, <1>2, StoresAsks DEF AskInv, Asked
<1>4. SessionAsks(w)'
  <2>1. run'[w].pc # "node" /\ run'[w].rows = Untouched
    BY <1>0
       DEF ObservesCancel, ObservesPause, Parks, Finishes, StartsDelay, CreatesPlan, LinksRequest,
           Leaves, Session
  <2> QED
    BY <2>1, UntouchedAsks DEF SessionAsks
<1> QED
  BY <1>3, <1>4

\* The first request: a node that had asked would have been found so.
LEMMA AskAsks ==
    ASSUME OneWorker, TypeOK, AtSomeNode, AskInv, NEW w \in Workers, AsksApproval(w)
    PROVE  SessionAsks(w)' /\ Asked'
<1>0. /\ run \in [Workers -> Run] /\ SessionAsks(w) /\ requested \in [Nodes -> Nat]
      /\ Here(w) \in Nodes /\ run[w].whose \in Workers
      /\ run[w].pc = "node" /\ Kind[Here(w)] = "approval" /\ run[w].found \in Undecided
  BY AtNode DEF AsksApproval, AskInv, TypeOK
<1>1. /\ Stores(w, RowsWith(w, "waiting"))
      /\ requested' = [requested EXCEPT ![Here(w)] = requested[Here(w)] + 1]
      /\ run'[w].pc = "park" /\ run'[w].rows = Untouched
  BY <1>0 DEF AsksApproval, Session
<1>2. requested[Here(w)] = 0
  BY <1>0 DEF SessionAsks
<1>3. \A n \in Nodes, v \in Workers :
         Kind[n] = "approval" => RowsWith(w, "waiting")[n][v] \notin Undecided
  BY <1>0, RowsWithAsks DEF Undecided
<1>4. \A v \in Workers : row'[Here(w)][v] \notin Undecided
  <2> SUFFICES ASSUME NEW v \in Workers
               PROVE  row'[Here(w)][v] \notin Undecided
    OBVIOUS
  <2>1. v = run[w].whose
    BY <1>0 DEF OneWorker
  <2>2. RowsWith(w, "waiting")[Here(w)][v] = "waiting"
    BY <1>0, <2>1, RowsWithType
  <2>3. row'[Here(w)][v] = "waiting"
    BY <1>0, <1>1, <2>2 DEF Stores
  <2> QED
    BY <2>3 DEF Undecided
<1>5. ASSUME NEW n \in Nodes, Kind[n] = "approval"
      PROVE  /\ requested'[n] <= 1
             /\ requested'[n] > 0 => \A v \in Workers : row'[n][v] \notin Undecided
  <2>1. CASE n = Here(w)
    BY <1>0, <1>1, <1>2, <1>4, <2>1
  <2>2. CASE n # Here(w)
    <3>1. requested'[n] = requested[n]
      BY <1>0, <1>1, <2>2
    <3> QED
      BY <1>1, <1>3, <1>5, <3>1, StoresAsks DEF AskInv, Asked
  <2> QED
    BY <2>1, <2>2
<1> QED
  BY <1>1, <1>5, UntouchedAsks DEF Asked, SessionAsks

LEMMA AskStep ==
    ASSUME OneWorker
    PROVE  TypeOK /\ AtSomeNode /\ AskInv /\ [Next]_vars => AskInv'
<1> SUFFICES ASSUME TypeOK, AtSomeNode, AskInv, [Next]_vars
             PROVE  AskInv'
  OBVIOUS
<1>1. CASE UNCHANGED <<row, requested, run>>
  BY <1>1 DEF AskInv, Asked, SessionAsks, Here
<1>2. ASSUME NEW w \in Workers, WorkerStep(w) \/ Crashes(w)
      PROVE  AskInv'
  <2>1. CASE \/ Starts(w) \/ PassesDecided(w) \/ TakesStep(w) \/ TakesVerdict(w)
             \/ TakesDelayEnd(w) \/ StillWaits(w) \/ SkipsAction(w) \/ SchedulesTimer(w)
             \/ AutoDecides(w) \/ Fails(w) \/ Acks(w) \/ Crashes(w) \/ Looks(w)
    <3>1. SessionAsks(w)' /\ UNCHANGED <<row, requested>>
      BY <2>1, AskQuiet, AskLooks
    <3> QED
      BY <3>1 DEF OneWorker, AskInv, Asked
  <2>2. CASE \/ ObservesCancel(w) \/ ObservesPause(w) \/ Parks(w) \/ Finishes(w)
             \/ AsksApproval(w) \/ StartsDelay(w) \/ CreatesPlan(w) \/ LinksRequest(w)
    <3>1. SessionAsks(w)' /\ Asked'
      BY <2>2, AskCommits, AskAsks
    <3> QED
      BY <3>1 DEF OneWorker, AskInv
  <2> QED
    BY <1>2, <2>1, <2>2 DEF WorkerStep, Visits
<1>3. CASE ApiStep
  BY <1>1, <1>3
     DEF ApiStep, Triggers, Sends, Cancel, Pause, ResumeReads, ResumeCommits, rowVars, requestVars
<1>4. CASE \E n \in Nodes, v \in Workers : RowEvent(n, v)
  BY <1>1, <1>4 DEF RowEvent, Decide, Lapses, DelayEnds, TimerFires, rowVars, requestVars
<1>5. CASE UNCHANGED vars
  BY <1>1, <1>5 DEF vars, rowVars, requestVars
<1> QED
  BY <1>2, <1>3, <1>4, <1>5 DEF Next

LEMMA AskInit == Init => AskInv
<1> SUFFICES ASSUME Init
             PROVE  AskInv
  OBVIOUS
<1>1. Asked
  BY DEF Init, Asked
<1>2. \A w \in Workers : SessionAsks(w)
  BY UntouchedAsks DEF Init, Idle, Session, SessionAsks
<1> QED
  BY <1>1, <1>2 DEF AskInv

(***************************************************************************)
(* While one worker at a time walks the run, an APPROVAL node makes one       *)
(* request, whatever the graph and however many crashes, pauses, resumptions, *)
(* cancellations and expiries: a rewalk finds the node's committed row.       *)
(***************************************************************************)
THEOREM OneRequestHolds ==
    ASSUME OneWorker
    PROVE  Spec => []OneRequestPerNode
<1>1. Init => TypeOK /\ AtSomeNode /\ AskInv
  BY TypedInit, AskInit
<1>2. TypeOK /\ AtSomeNode /\ AskInv /\ [Next]_vars => (TypeOK /\ AtSomeNode /\ AskInv)'
  BY TypeStep, AtSomeNodeStep, AskStep
<1>3. AskInv => OneRequestPerNode
  BY DEF AskInv, Asked, OneRequestPerNode
<1> QED
  BY <1>1, <1>2, <1>3, PTL DEF Spec
=============================================================================
