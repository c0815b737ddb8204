-------------------------- MODULE PlanApprovalProofs --------------------------
(***************************************************************************)
(* What TLAPS proves of the approval system, for any number of plans and     *)
(* sessions: its types, and that work matches approvals however sessions      *)
(* interleave.  For one session at a time: that it keeps its promise.        *)
(***************************************************************************)
EXTENDS PlanApproval, FiniteSetTheorems, TLAPS

-----------------------------------------------------------------------------
(* Types *)

LEMMA StatusType ==
    ASSUME NEW d \in Decision
    PROVE  /\ StatusOf[d] \in PlanStatus \ {"none", "pending_approval", "ended"}
           /\ StatusOf[d] \in RequestStatus \ {"none", "pending", "expired"}
           /\ StatusOf[d] = "approved" <=> d = "approve"
BY DEF Decision, StatusOf, PlanStatus, RequestStatus

LEMMA ClosedType == Closed \in Session
BY PlanApprovalAssumption DEF Closed, Session, Decision

LEMMA SessionParts ==
    ASSUME TypeOK, NEW c \in Clients
    PROVE  /\ session[c] \in Session
           /\ session[c].plan \in Plans /\ session[c].decision \in Decision
           /\ session[c].batch \subseteq Plans /\ session[c].expiring \subseteq Plans
           /\ Rest(c) \subseteq Plans
<1>1. session[c] \in Session
  BY DEF TypeOK
<1>2. session[c].batch \in SUBSET Plans /\ session[c].expiring \in SUBSET Plans
  BY <1>1 DEF Session
<1> QED
  BY <1>1, <1>2 DEF Session, Rest

LEMMA TypeInit == Init => TypeOK
BY ClosedType DEF Init, TypeOK, PlanStatus, RequestStatus

LEMMA TypeStep == TypeOK /\ [Next]_vars => TypeOK'
<1> SUFFICES ASSUME TypeOK, [Next]_vars
             PROVE  TypeOK'
  OBVIOUS
<1> USE DEF TypeOK, At, planVars
<1>1. ASSUME NEW c \in Clients, NEW p \in Plans, ChecksRecommendation(c, p)
      PROVE  TypeOK'
  BY <1>1 DEF ChecksRecommendation, Session
<1>2. ASSUME NEW c \in Clients, NEW ids \in SUBSET Plans, NEW d \in Decisions,
             StartsBatch(c, ids, d)
      PROVE  TypeOK'
  <2>1. d \in Decision
    BY PlanApprovalAssumption
  <2>3. [session[c] EXCEPT !.pc = "next", !.batch = ids, !.decision = d] \in Session
    BY <2>1 DEF Session
  <2>2. session' \in [Clients -> Session]
    BY <1>2, <2>3 DEF StartsBatch
  <2> QED
    BY <1>2, <2>2 DEF StartsBatch
<1>3. ASSUME NEW c \in Clients, ClientStep(c)
      PROVE  TypeOK'
  <2>1. CASE CreatesPlan(c)
    <3>1. session' \in [Clients -> Session] /\ session[c].plan \in Plans
      BY <2>1 DEF CreatesPlan, Session
    <3> QED
      BY <2>1, <3>1 DEF CreatesPlan, PlanStatus, RequestStatus
  <2>2. CASE DecidesAtOnce(c)
    <3>2. session[c] \in Session /\ {session[c].plan} \in SUBSET Plans
      BY DEF Session
    <3>3. [session[c] EXCEPT !.pc = "next", !.batch = {session[c].plan}, !.decision = "approve"]
              \in Session
      BY <3>2 DEF Session, Decision
    <3>1. session' \in [Clients -> Session]
      BY <2>2, <3>3 DEF DecidesAtOnce
    <3> QED
      BY <2>2, <3>1 DEF DecidesAtOnce
  <2>3. CASE LinksNode(c)
    BY <2>3, ClosedType DEF LinksNode
  <2>4. ASSUME NEW p \in Plans, ReadsPending(c, p) \/ ReadsOverdue(c, p) \/ SkipsItem(c, p)
        PROVE  TypeOK'
    <3>1. session[c] \in Session /\ session[c].batch \ {p} \in SUBSET Plans
      BY SessionParts
    <3>2. /\ [session[c] EXCEPT !.pc = "decide", !.plan = p] \in Session
          /\ [session[c] EXCEPT !.pc = "expire", !.plan = p] \in Session
          /\ [session[c] EXCEPT !.batch = session[c].batch \ {p}] \in Session
      BY <3>1 DEF Session
    <3> QED
      BY <2>4, <3>2 DEF ReadsPending, ReadsOverdue, SkipsItem
  <2>5. CASE FlushesExpired(c)
    <3>1. /\ session[c] \in Session
          /\ Rest(c) \in SUBSET Plans
          /\ session[c].expiring \cup {session[c].plan} \in SUBSET Plans
      BY SessionParts
    <3>2. [session[c] EXCEPT !.pc = "next",
                             !.expiring = session[c].expiring \cup {session[c].plan},
                             !.batch = Rest(c)] \in Session
      BY <3>1 DEF Session
    <3> QED
      BY <2>5, <3>2 DEF FlushesExpired
  <2>6. CASE CommitsDecision(c)
    <3> DEFINE p == session[c].plan  d == session[c].decision
    <3>1. session[c] \in Session /\ p \in Plans /\ d \in Decision
      BY SessionParts
    <3>2. StatusOf[d] \in PlanStatus \cap RequestStatus
      BY <3>1, StatusType
    <3>3. planStatus' \in [Plans -> PlanStatus] /\ request' \in [Plans -> RequestStatus]
      BY <2>6, <3>1, <3>2 DEF CommitsDecision, PlanAfter, RequestStatus
    <3>4. made' \in [Plans -> [Decision -> Nat]] /\ jobs' \in [Plans -> Nat]
      BY <2>6, <3>1 DEF CommitsDecision
    <3>6. Rest(c) \in SUBSET Plans
      BY SessionParts
    <3>7. \A q \in {"send", "resume"} :
              [session[c] EXCEPT !.pc = q, !.batch = Rest(c), !.expiring = {}] \in Session
      BY <3>1, <3>6 DEF Session
    <3>5. session' \in [Clients -> Session]
      BY <2>6, <3>7 DEF CommitsDecision
    <3> QED
      BY <2>6, <3>3, <3>4, <3>5 DEF CommitsDecision
  <2>7. CASE SendsJob(c)
    <3>1. session' \in [Clients -> Session] /\ session[c].plan \in Plans
      BY <2>7 DEF SendsJob, Session
    <3> QED
      BY <2>7, <3>1 DEF SendsJob
  <2>8. CASE ResumesWorkflow(c)
    <3>1. session' \in [Clients -> Session] /\ session[c].plan \in Plans
      BY <2>8 DEF ResumesWorkflow, Session
    <3> QED
      BY <2>8, <3>1 DEF ResumesWorkflow
  <2>9. CASE EndsBatch(c) \/ LosesDeadlock(c)
    BY <2>9, ClosedType DEF EndsBatch, LosesDeadlock
  <2> QED
    BY <1>3, <2>1, <2>2, <2>3, <2>4, <2>5, <2>6, <2>7, <2>8, <2>9
       DEF ClientStep, Creates, TakesItem, Decides
<1>4. ASSUME NEW c \in Clients, Dies(c)
      PROVE  TypeOK'
  BY <1>4, ClosedType DEF Dies
<1>5. ASSUME NEW p \in Plans, WorkflowExpires(p) \/ TimePasses(p) \/ PlanEnds(p)
      PROVE  TypeOK'
  BY <1>5 DEF WorkflowExpires, TimePasses, PlanEnds, RequestStatus, PlanStatus
<1>6. CASE UNCHANGED vars
  BY <1>6 DEF vars
<1> QED
  BY <1>1, <1>2, <1>3, <1>4, <1>5, <1>6 DEF Next

\* Every variable keeps its type: the rows that decide, bulk_decide, the
\* automatic approvals and a workflow's nodes write are always well formed.
THEOREM TypeCorrect == Spec => []TypeOK
<1>1. Init => TypeOK
  BY TypeInit
<1>2. TypeOK /\ [Next]_vars => TypeOK'
  BY TypeStep
<1> QED
  BY <1>1, <1>2, PTL DEF Spec

-----------------------------------------------------------------------------
(* Work matches approvals *)

\* The sessions that have committed an approval of p and not enqueued its job.
Sending(p) == {c \in Clients : At(c, "send") /\ session[c].plan = p}

JobsInv ==
    \A p \in Plans : jobs[p] = made[p]["approve"] /\ sent[p] + Cardinality(Sending(p)) <= jobs[p]

LEMMA SendingFinite ==
    ASSUME NEW p
    PROVE  IsFiniteSet(Sending(p)) /\ Cardinality(Sending(p)) \in Nat
<1>1. Sending(p) \subseteq Clients
  BY DEF Sending
<1>2. IsFiniteSet(Sending(p))
  BY <1>1, FS_Subset, PlanApprovalAssumption
<1> QED
  BY <1>2, FS_CardinalityType

\* A session that goes anywhere but to "send" leaves no more of them.
LEMMA SendingShrinks ==
    ASSUME TypeOK, NEW c \in Clients, NEW s, s.pc # "send",
           session' = [session EXCEPT ![c] = s], NEW p
    PROVE  Sending(p)' \subseteq Sending(p) /\ Cardinality(Sending(p)') <= Cardinality(Sending(p))
<1>1. Sending(p)' \subseteq Sending(p)
  BY DEF Sending, At, TypeOK
<1>2. Cardinality(Sending(p)') <= Cardinality(Sending(p))
  BY <1>1, SendingFinite, FS_Subset
<1> QED
  BY <1>1, <1>2

\* What holds JobsInv when no job is created and none enqueued.
LEMMA JobsKept ==
    ASSUME TypeOK, JobsInv, NEW c \in Clients, NEW s, s.pc # "send",
           session' = [session EXCEPT ![c] = s], UNCHANGED <<jobs, made, sent>>
    PROVE  JobsInv'
<1> SUFFICES ASSUME NEW p \in Plans
             PROVE  (jobs[p] = made[p]["approve"] /\ sent[p] + Cardinality(Sending(p)) <= jobs[p])'
  BY DEF JobsInv
<1>1. Cardinality(Sending(p)') <= Cardinality(Sending(p))
  BY SendingShrinks
<1>2. Cardinality(Sending(p)) \in Nat /\ Cardinality(Sending(p)') \in Nat
  <2>1. Sending(p)' \subseteq Sending(p)
    BY SendingShrinks
  <2> QED
    BY <2>1, SendingFinite, FS_Subset, FS_CardinalityType
<1>3. sent[p] \in Nat /\ jobs[p] \in Nat
  BY DEF TypeOK
<1> QED
  BY <1>1, <1>2, <1>3 DEF JobsInv

LEMMA JobsInit == Init => JobsInv
<1> SUFFICES ASSUME Init, NEW p \in Plans
             PROVE  jobs[p] = made[p]["approve"] /\ sent[p] + Cardinality(Sending(p)) <= jobs[p]
  BY DEF JobsInv
<1>1. Sending(p) = {}
  BY DEF Init, Sending, At, Closed
<1> QED
  BY <1>1, FS_EmptySet DEF Init, Decision

LEMMA JobsCommit ==
    ASSUME TypeOK, JobsInv, NEW c \in Clients, CommitsDecision(c)
    PROVE  JobsInv'
<1>0. PICK p \in Plans, d \in Decision : p = session[c].plan /\ d = session[c].decision
  BY SessionParts
<1>1. c \notin Sending(p)
  BY DEF Sending, At, CommitsDecision
<1>2. PICK s : /\ session' = [session EXCEPT ![c] = s]
               /\ s.pc = IF d = "approve" THEN "send" ELSE "resume"
               /\ s.plan = p
  <2> DEFINE t == [session[c] EXCEPT !.pc = IF d = "approve" THEN "send" ELSE "resume",
                                     !.batch = Rest(c), !.expiring = {}]
  <2>1. session' = [session EXCEPT ![c] = t]
    BY <1>0 DEF CommitsDecision, CreatesJob
  <2>2. t.pc = (IF d = "approve" THEN "send" ELSE "resume") /\ t.plan = p
    BY <1>0, SessionParts DEF Session
  <2> QED
    BY <2>1, <2>2
<1>3. CASE d # "approve"
  <2>1. UNCHANGED <<jobs, sent>> /\ \A q \in Plans : made'[q]["approve"] = made[q]["approve"]
    BY <1>0, <1>3 DEF CommitsDecision, CreatesJob, TypeOK, Decision
  <2>2. s.pc # "send"
    BY <1>2, <1>3
  <2> SUFFICES ASSUME NEW q \in Plans
               PROVE  (jobs[q] = made[q]["approve"] /\ sent[q] + Cardinality(Sending(q)) <= jobs[q])'
    BY DEF JobsInv
  <2>3. Sending(q)' \subseteq Sending(q) /\ Cardinality(Sending(q)') <= Cardinality(Sending(q))
    BY <1>2, <2>2, SendingShrinks
  <2>4. Cardinality(Sending(q)) \in Nat /\ Cardinality(Sending(q)') \in Nat
    BY <2>3, SendingFinite, FS_Subset, FS_CardinalityType
  <2>5. sent[q] \in Nat /\ jobs[q] \in Nat
    BY DEF TypeOK
  <2> QED
    BY <2>1, <2>3, <2>4, <2>5 DEF JobsInv
<1>4. CASE d = "approve"
  <2>1. sent' = sent /\ jobs' = [jobs EXCEPT ![p] = jobs[p] + 1]
    BY <1>0, <1>4 DEF CommitsDecision, CreatesJob
  <2>2. \A q \in Plans : made'[q]["approve"] = IF q = p THEN made[q]["approve"] + 1
                                               ELSE made[q]["approve"]
    BY <1>0, <1>4 DEF CommitsDecision, TypeOK, Decision
  <2>3. Sending(p)' = Sending(p) \cup {c}
    BY <1>0, <1>2, <1>4 DEF Sending, At, TypeOK
  <2>4. \A q \in Plans \ {p} : Sending(q)' = Sending(q)
    BY <1>0, <1>2, <1>4 DEF Sending, At, TypeOK, CommitsDecision
  <2>5. Cardinality(Sending(p)') = Cardinality(Sending(p)) + 1
    BY <2>3, <1>1, SendingFinite, FS_AddElement
  <2> SUFFICES ASSUME NEW q \in Plans
               PROVE  (jobs[q] = made[q]["approve"] /\ sent[q] + Cardinality(Sending(q)) <= jobs[q])'
    BY DEF JobsInv
  <2>6. sent[q] \in Nat /\ jobs[q] \in Nat /\ Cardinality(Sending(q)) \in Nat
    BY SendingFinite DEF TypeOK
  <2>7. jobs[q] = made[q]["approve"] /\ sent[q] + Cardinality(Sending(q)) <= jobs[q]
    BY DEF JobsInv
  <2>8. CASE q = p
    BY <2>1, <2>2, <2>5, <2>6, <2>7, <2>8 DEF TypeOK
  <2>9. CASE q # p
    BY <2>1, <2>2, <2>4, <2>6, <2>7, <2>9 DEF TypeOK
  <2> QED
    BY <2>8, <2>9
<1> QED
  BY <1>3, <1>4

LEMMA JobsSend ==
    ASSUME TypeOK, JobsInv, NEW c \in Clients, SendsJob(c)
    PROVE  JobsInv'
<1> DEFINE s == [session[c] EXCEPT !.pc = "resume"]
<1>0. PICK p \in Plans : p = session[c].plan
  BY SessionParts
<1>1. c \in Sending(p)
  BY <1>0 DEF Sending, SendsJob
<1>2. session' = [session EXCEPT ![c] = s] /\ s.pc = "resume"
  BY SessionParts DEF SendsJob, Session
<1>3. Sending(p)' = Sending(p) \ {c}
  BY <1>0, <1>2 DEF Sending, At, TypeOK
<1>4. Cardinality(Sending(p)') = Cardinality(Sending(p)) - 1
  BY <1>1, <1>3, SendingFinite, FS_RemoveElement
<1>5. \A q \in Plans \ {p} : Sending(q)' = Sending(q)
  BY <1>0, <1>2 DEF Sending, At, TypeOK
<1> SUFFICES ASSUME NEW q \in Plans
             PROVE  (jobs[q] = made[q]["approve"] /\ sent[q] + Cardinality(Sending(q)) <= jobs[q])'
  BY DEF JobsInv
<1>6. sent[q] \in Nat /\ jobs[q] \in Nat /\ Cardinality(Sending(q)) \in Nat
  BY SendingFinite DEF TypeOK
<1>7. jobs[q] = made[q]["approve"] /\ sent[q] + Cardinality(Sending(q)) <= jobs[q]
  BY DEF JobsInv
<1>8. /\ jobs' = jobs /\ made' = made
      /\ sent'[q] = IF q = p THEN sent[q] + 1 ELSE sent[q]
  BY <1>0 DEF SendsJob, planVars, TypeOK
<1>9. CASE q = p
  BY <1>4, <1>6, <1>7, <1>8, <1>9
<1>10. CASE q # p
  BY <1>5, <1>6, <1>7, <1>8, <1>10
<1> QED
  BY <1>9, <1>10

\* Every other step of a session moves it somewhere else than to "send".
Quiet(c) ==
    \/ \E p \in Plans : ChecksRecommendation(c, p)
    \/ \E ids \in SUBSET Plans, d \in Decisions : StartsBatch(c, ids, d)
    \/ Creates(c) \/ TakesItem(c) \/ FlushesExpired(c) \/ ResumesWorkflow(c)
    \/ EndsBatch(c) \/ LosesDeadlock(c) \/ Dies(c)

LEMMA QuietMoves ==
    ASSUME TypeOK, NEW c \in Clients, Quiet(c)
    PROVE  /\ \E s : s.pc # "send" /\ session' = [session EXCEPT ![c] = s]
           /\ UNCHANGED <<jobs, made, sent>>
<1> DEFINE Goal == /\ \E s : s.pc # "send" /\ session' = [session EXCEPT ![c] = s]
                   /\ UNCHANGED <<jobs, made, sent>>
<1> USE DEF planVars, At
<1>0. session[c] \in Session /\ Closed.pc # "send"
  BY SessionParts DEF Closed
<1>1. ASSUME NEW p \in Plans, ChecksRecommendation(c, p)
      PROVE  Goal
  <2>1. [session[c] EXCEPT !.pc = "create", !.plan = p].pc # "send"
    BY <1>0 DEF Session
  <2> QED
    BY <1>1, <2>1 DEF ChecksRecommendation
<1>2. ASSUME NEW ids \in SUBSET Plans, NEW d \in Decisions, StartsBatch(c, ids, d)
      PROVE  Goal
  <2>1. [session[c] EXCEPT !.pc = "next", !.batch = ids, !.decision = d].pc # "send"
    BY <1>0 DEF Session
  <2> QED
    BY <1>2, <2>1 DEF StartsBatch
<1>3. CASE CreatesPlan(c)
  <2>1. [session[c] EXCEPT !.pc = "created"].pc # "send"
    BY <1>0 DEF Session
  <2> QED
    BY <1>3, <2>1 DEF CreatesPlan
<1>4. CASE DecidesAtOnce(c)
  <2>1. [session[c] EXCEPT !.pc = "next", !.batch = {session[c].plan},
                           !.decision = "approve"].pc # "send"
    BY <1>0 DEF Session
  <2> QED
    BY <1>4, <2>1 DEF DecidesAtOnce
<1>5. ASSUME NEW p \in Plans, ReadsPending(c, p)
      PROVE  Goal
  <2>1. [session[c] EXCEPT !.pc = "decide", !.plan = p].pc # "send"
    BY <1>0 DEF Session
  <2> QED
    BY <1>5, <2>1 DEF ReadsPending
<1>6. ASSUME NEW p \in Plans, ReadsOverdue(c, p)
      PROVE  Goal
  <2>1. [session[c] EXCEPT !.pc = "expire", !.plan = p].pc # "send"
    BY <1>0 DEF Session
  <2> QED
    BY <1>6, <2>1 DEF ReadsOverdue
<1>7. ASSUME NEW p \in Plans, SkipsItem(c, p)
      PROVE  Goal
  <2>1. [session[c] EXCEPT !.batch = session[c].batch \ {p}].pc # "send"
    BY <1>0, <1>7 DEF Session, SkipsItem
  <2> QED
    BY <1>7, <2>1 DEF SkipsItem
<1>8. CASE FlushesExpired(c)
  <2>1. [session[c] EXCEPT !.pc = "next",
                           !.expiring = session[c].expiring \cup {session[c].plan},
                           !.batch = Rest(c)].pc # "send"
    BY <1>0 DEF Session
  <2> QED
    BY <1>8, <2>1 DEF FlushesExpired
<1>9. CASE ResumesWorkflow(c)
  <2>1. [session[c] EXCEPT !.pc = "next"].pc # "send"
    BY <1>0 DEF Session
  <2> QED
    BY <1>9, <2>1 DEF ResumesWorkflow
<1>10. CASE LinksNode(c) \/ EndsBatch(c) \/ LosesDeadlock(c) \/ Dies(c)
  BY <1>0, <1>10 DEF LinksNode, EndsBatch, LosesDeadlock, Dies
<1> QED
  BY <1>1, <1>2, <1>3, <1>4, <1>5, <1>6, <1>7, <1>8, <1>9, <1>10 DEF Quiet, Creates, TakesItem

LEMMA JobsStep == TypeOK /\ JobsInv /\ [Next]_vars => JobsInv'
<1> SUFFICES ASSUME TypeOK, JobsInv, [Next]_vars
             PROVE  JobsInv'
  OBVIOUS
<1>1. ASSUME NEW c \in Clients, Quiet(c)
      PROVE  JobsInv'
  <2>1. PICK s : s.pc # "send" /\ session' = [session EXCEPT ![c] = s]
    BY <1>1, QuietMoves
  <2>2. UNCHANGED <<jobs, made, sent>>
    BY <1>1, QuietMoves
  <2> QED
    BY <2>1, <2>2, JobsKept
<1>2. ASSUME NEW c \in Clients, CommitsDecision(c)
      PROVE  JobsInv'
  BY <1>2, JobsCommit
<1>3. ASSUME NEW c \in Clients, SendsJob(c)
      PROVE  JobsInv'
  BY <1>3, JobsSend
<1>4. CASE UNCHANGED <<jobs, made, sent, session>>
  <2>1. \A p : Sending(p)' = Sending(p)
    BY <1>4 DEF Sending, At
  <2> QED
    BY <1>4, <2>1 DEF JobsInv
<1>5. ASSUME NEW p \in Plans, WorkflowExpires(p) \/ TimePasses(p) \/ PlanEnds(p)
      PROVE  UNCHANGED <<jobs, made, sent, session>>
  BY <1>5 DEF WorkflowExpires, TimePasses, PlanEnds, planVars
<1>6. CASE UNCHANGED vars
  BY <1>4, <1>6 DEF vars, planVars
<1> QED
  BY <1>1, <1>2, <1>3, <1>4, <1>5, <1>6 DEF Next, ClientStep, Decides, Quiet

\* However many sessions decide, and however they interleave or die: a job is
\* created exactly with an approval, and is enqueued no more often than that.
THEOREM JobsMatch == Spec => []JobsMatchApprovals
<1>1. Init => TypeOK /\ JobsInv
  BY TypeInit, JobsInit
<1>2. TypeOK /\ JobsInv /\ [Next]_vars => (TypeOK /\ JobsInv)'
  BY TypeStep, JobsStep
<1>3. TypeOK /\ JobsInv => JobsMatchApprovals
  <2> SUFFICES ASSUME TypeOK, JobsInv, NEW p \in Plans
               PROVE  jobs[p] = made[p]["approve"] /\ sent[p] <= jobs[p]
    BY DEF JobsMatchApprovals
  <2>1. sent[p] \in Nat /\ jobs[p] \in Nat /\ Cardinality(Sending(p)) \in Nat
    BY SendingFinite DEF TypeOK
  <2> QED
    BY <2>1 DEF JobsInv
<1> QED
  BY <1>1, <1>2, <1>3, PTL DEF Spec

-----------------------------------------------------------------------------
(* One session at a time *)

AloneInv == VerdictsAgree /\ OnePlanInFlight /\ OneDecision /\ ActsOnWhatItRead
            /\ \A p \in Plans : ~linked[p]

\* What one decision adds to the decisions of its request, and of the others.
LEMMA DecisionsStep ==
    ASSUME TypeOK, NEW c \in Clients, CommitsDecision(c), NEW p \in Plans
    PROVE  /\ DecisionsOf(p) \in Nat
           /\ DecisionsOf(p)' = DecisionsOf(p) + (IF p = session[c].plan THEN 1 ELSE 0)
           /\ p = session[c].plan => made'[p][session[c].decision] > 0
<1>0. PICK q \in Plans, d \in Decision : q = session[c].plan /\ d = session[c].decision
  BY SessionParts
<1>1. made' = [made EXCEPT ![q] = [made[q] EXCEPT ![d] = made[q][d] + 1]]
  BY <1>0 DEF CommitsDecision, TypeOK
<1>2. \A e \in Decision : made[p][e] \in Nat
  BY DEF TypeOK
<1>3. \A e \in Decision : made'[p][e] = IF p = q /\ e = d THEN made[p][e] + 1 ELSE made[p][e]
  BY <1>0, <1>1 DEF TypeOK
<1>4. /\ DecisionsOf(p) = made[p]["approve"] + made[p]["reject"] + made[p]["request_changes"]
      /\ DecisionsOf(p)' = made'[p]["approve"] + made'[p]["reject"] + made'[p]["request_changes"]
  BY DEF DecisionsOf
<1>5. d = "approve" \/ d = "reject" \/ d = "request_changes"
  BY DEF Decision
<1>6. /\ made[p]["approve"] \in Nat /\ made[p]["reject"] \in Nat
      /\ made[p]["request_changes"] \in Nat
      /\ made'[p]["approve"] = IF p = q /\ d = "approve" THEN made[p]["approve"] + 1
                               ELSE made[p]["approve"]
      /\ made'[p]["reject"] = IF p = q /\ d = "reject" THEN made[p]["reject"] + 1
                              ELSE made[p]["reject"]
      /\ made'[p]["request_changes"] = IF p = q /\ d = "request_changes"
                                       THEN made[p]["request_changes"] + 1
                                       ELSE made[p]["request_changes"]
  BY <1>2, <1>3 DEF Decision
<1> QED
  BY <1>0, <1>2, <1>3, <1>4, <1>5, <1>6

LEMMA AloneInit == Init => AloneInv
BY DEF Init, AloneInv, VerdictsAgree, OnePlanInFlight, OneDecision, ActsOnWhatItRead, DecisionsOf,
       Decision, StatusOf, Closed, InFlight

\* The parts of the invariant that speak of rows, when only sessions change.
LEMMA RowsKept ==
    ASSUME AloneInv, UNCHANGED <<planStatus, request, made, linked>>
    PROVE  (VerdictsAgree /\ OnePlanInFlight /\ OneDecision /\ \A p \in Plans : ~linked[p])'
BY DEF AloneInv, VerdictsAgree, OnePlanInFlight, OneDecision, DecisionsOf

LEMMA AloneQuiet ==
    ASSUME TypeOK, AloneInv, NEW c, Clients = {c}, NodePlans = {},
           UNCHANGED <<planStatus, request, made, linked>>,
           NEW s \in Session, session' = [session EXCEPT ![c] = s],
           s.pc \in {"expire", "decide"} => request[s.plan] = "pending" /\ s.plan \in s.batch,
           s.batch \cap s.expiring = {} /\ \A p \in s.expiring : request[p] = "pending",
           s.pc \in {"idle", "create", "created"} => s.expiring = {},
           s.pc = "create" => planStatus[s.plan] = "none" /\ ~HasActivePlan
    PROVE  AloneInv'
<1>1. session'[c] = s
  BY DEF TypeOK
<1>2. HasActivePlan' = HasActivePlan
  BY DEF HasActivePlan
<1>3. ActsOnWhatItRead'
  BY <1>1, <1>2 DEF ActsOnWhatItRead
<1> QED
  BY <1>3, RowsKept DEF AloneInv

\* Where the one session only moves.
LEMMA AloneMoves ==
    ASSUME TypeOK, AloneInv, NEW c, Clients = {c}, NodePlans = {},
           Quiet(c) \/ SendsJob(c), ~CreatesPlan(c)
    PROVE  AloneInv'
<1> USE DEF planVars, At
<1> DEFINE old == session[c]
<1>0. /\ c \in Clients /\ old \in Session
      /\ old.plan \in Plans /\ old.decision \in Decision /\ old.batch \in SUBSET Plans
      /\ old.expiring \in SUBSET Plans /\ Rest(c) \in SUBSET Plans
  BY SessionParts
<1>1. /\ old.pc \in {"expire", "decide"} => request[old.plan] = "pending" /\ old.plan \in old.batch
      /\ old.batch \cap old.expiring = {} /\ \A p \in old.expiring : request[p] = "pending"
      /\ old.pc \in {"idle", "create", "created"} => old.expiring = {}
      /\ old.pc = "create" => planStatus[old.plan] = "none" /\ ~HasActivePlan
  BY <1>0 DEF AloneInv, ActsOnWhatItRead
<1>2. ASSUME NEW p \in Plans, ChecksRecommendation(c, p)
      PROVE  AloneInv'
  <2> DEFINE s == [old EXCEPT !.pc = "create", !.plan = p]
  <2>1. s \in Session /\ s.pc = "create" /\ s.plan = p /\ s.expiring = old.expiring
        /\ s.batch = old.batch
    BY <1>0 DEF Session
  <2>2. session' = [session EXCEPT ![c] = s] /\ UNCHANGED <<planStatus, request, made, linked>>
        /\ planStatus[p] = "none" /\ ~HasActivePlan /\ old.expiring = {}
    BY <1>1, <1>2 DEF ChecksRecommendation
  <2> HIDE DEF s
  <2> QED
    BY <1>1, <2>1, <2>2, AloneQuiet
<1>3. ASSUME NEW ids \in SUBSET Plans, NEW d \in Decisions, StartsBatch(c, ids, d)
      PROVE  AloneInv'
  <2> DEFINE s == [old EXCEPT !.pc = "next", !.batch = ids, !.decision = d]
  <2>1. s \in Session /\ s.pc = "next" /\ s.expiring = old.expiring
    BY <1>0, PlanApprovalAssumption DEF Session
  <2>2. session' = [session EXCEPT ![c] = s] /\ UNCHANGED <<planStatus, request, made, linked>>
        /\ old.expiring = {}
    BY <1>1, <1>3 DEF StartsBatch
  <2> HIDE DEF s
  <2> QED
    BY <2>1, <2>2, AloneQuiet
<1>4. CASE DecidesAtOnce(c)
  <2> DEFINE s == [old EXCEPT !.pc = "next", !.batch = {session[c].plan}, !.decision = "approve"]
  <2>0. {session[c].plan} \in SUBSET Plans /\ "approve" \in Decision
    BY <1>0 DEF Decision
  <2>1. s \in Session /\ s.pc = "next" /\ s.expiring = old.expiring
    BY <1>0, <2>0 DEF Session
  <2>2. session' = [session EXCEPT ![c] = s] /\ UNCHANGED <<planStatus, request, made, linked>>
        /\ old.expiring = {}
    BY <1>1, <1>4 DEF DecidesAtOnce
  <2> HIDE DEF s
  <2> QED
    BY <2>1, <2>2, AloneQuiet
<1>5. ASSUME NEW p \in Plans, ReadsPending(c, p) \/ ReadsOverdue(c, p)
      PROVE  AloneInv'
  <2>0. PICK q \in {"decide", "expire"} :
            session' = [session EXCEPT ![c] = [session[c] EXCEPT !.pc = q, !.plan = p]]
    BY <1>5 DEF ReadsPending, ReadsOverdue
  <2> DEFINE s == [old EXCEPT !.pc = q, !.plan = p]
  <2>1. s \in Session /\ s.pc = q /\ s.plan = p /\ s.batch = old.batch /\ s.expiring = old.expiring
    BY <1>0 DEF Session
  <2>2. session' = [session EXCEPT ![c] = s] /\ UNCHANGED <<planStatus, request, made, linked>>
        /\ request[p] = "pending" /\ p \in old.batch
    BY <1>5, <2>0 DEF ReadsPending, ReadsOverdue, Decidable
  <2> HIDE DEF s
  <2> QED
    BY <1>1, <2>1, <2>2, AloneQuiet
<1>6. ASSUME NEW p \in Plans, SkipsItem(c, p)
      PROVE  AloneInv'
  <2> DEFINE s == [old EXCEPT !.batch = session[c].batch \ {p}]
  <2>0. session[c].batch \ {p} \in SUBSET Plans
    BY <1>0
  <2>1. s \in Session /\ s.pc = old.pc /\ s.batch = session[c].batch \ {p}
        /\ s.expiring = old.expiring
    BY <1>0, <2>0 DEF Session
  <2>2. session' = [session EXCEPT ![c] = s] /\ UNCHANGED <<planStatus, request, made, linked>>
        /\ old.pc = "next"
    BY <1>6 DEF SkipsItem
  <2> HIDE DEF s
  <2> QED
    BY <1>1, <2>1, <2>2, AloneQuiet
<1>7. CASE FlushesExpired(c)
  <2> DEFINE s == [old EXCEPT !.pc = "next", !.batch = Rest(c),
                              !.expiring = session[c].expiring \cup {session[c].plan}]
  <2>0. session[c].expiring \cup {session[c].plan} \in SUBSET Plans
    BY <1>0
  <2>1. s \in Session /\ s.pc = "next" /\ s.batch = old.batch \ {old.plan}
        /\ s.expiring = old.expiring \cup {old.plan}
    BY <1>0, <2>0 DEF Session, Rest
  <2>2. session' = [session EXCEPT ![c] = s] /\ UNCHANGED <<planStatus, request, made, linked>>
        /\ old.pc = "expire"
    BY <1>0, <1>7 DEF FlushesExpired, Session
  <2>3. /\ s.batch \cap s.expiring = {}
        /\ \A p \in s.expiring : request[p] = "pending"
    BY <1>1, <2>1, <2>2
  <2> HIDE DEF s
  <2> QED
    BY <1>1, <2>1, <2>2, <2>3, AloneQuiet
<1>8. CASE SendsJob(c) \/ ResumesWorkflow(c)
  <2>0. PICK q \in {"resume", "next"} :
            session' = [session EXCEPT ![c] = [session[c] EXCEPT !.pc = q]]
    BY <1>8 DEF SendsJob, ResumesWorkflow
  <2> DEFINE s == [old EXCEPT !.pc = q]
  <2>1. s \in Session /\ s.pc = q /\ s.batch = old.batch /\ s.expiring = old.expiring
    BY <1>0 DEF Session
  <2>2. session' = [session EXCEPT ![c] = s] /\ UNCHANGED <<planStatus, request, made, linked>>
    BY <1>8, <2>0 DEF SendsJob, ResumesWorkflow
  <2> HIDE DEF s
  <2> QED
    BY <1>1, <2>1, <2>2, AloneQuiet
<1>9. CASE EndsBatch(c) \/ LosesDeadlock(c) \/ Dies(c)
  <2>1. Closed \in Session /\ Closed.pc = "idle" /\ Closed.batch = {} /\ Closed.expiring = {}
    BY ClosedType DEF Closed
  <2>2. session' = [session EXCEPT ![c] = Closed]
        /\ UNCHANGED <<planStatus, request, made, linked>>
    BY <1>9 DEF EndsBatch, LosesDeadlock, Dies
  <2> QED
    BY <2>1, <2>2, AloneQuiet
<1>10. ~LinksNode(c)
  BY DEF LinksNode
<1> QED
  BY <1>2, <1>3, <1>4, <1>5, <1>6, <1>7, <1>8, <1>9, <1>10 DEF Quiet, Creates, TakesItem

LEMMA AloneCreates ==
    ASSUME TypeOK, AloneInv, NEW c, Clients = {c}, CreatesPlan(c)
    PROVE  AloneInv'
<1>0. PICK q \in Plans : q = session[c].plan
  BY SessionParts
<1>1. /\ planStatus[q] = "none" /\ ~HasActivePlan /\ session[c].expiring = {}
  BY <1>0 DEF CreatesPlan, At, AloneInv, ActsOnWhatItRead
<1>2. request[q] = "none" /\ DecisionsOf(q) = 0
  <2>1. request[q] \in RequestStatus
    BY DEF TypeOK
  <2>2. request[q] \notin {"pending", "expired"}
    BY <1>1 DEF AloneInv, VerdictsAgree
  <2>3. \A d \in Decision : request[q] # StatusOf[d]
    BY <1>1, StatusType DEF AloneInv, VerdictsAgree
  <2>4. request[q] = "none"
    BY <2>1, <2>2, <2>3 DEF RequestStatus, Decision, StatusOf
  <2> QED
    BY <2>4 DEF AloneInv, VerdictsAgree
<1>3. /\ planStatus' = [planStatus EXCEPT ![q] = "pending_approval"]
      /\ request' = [request EXCEPT ![q] = "pending"]
      /\ UNCHANGED <<linked, made>>
  BY <1>0 DEF CreatesPlan
<1>4. \A p \in Plans : DecisionsOf(p)' = DecisionsOf(p)
  BY <1>3 DEF DecisionsOf
<1>5. VerdictsAgree' /\ OneDecision'
  BY <1>2, <1>3, <1>4, StatusType DEF AloneInv, VerdictsAgree, OneDecision, TypeOK
<1>6. OnePlanInFlight'
  BY <1>1, <1>3 DEF OnePlanInFlight, HasActivePlan, TypeOK
<1>7. session'[c].pc = "created" /\ session'[c].expiring = {} /\ session'[c].plan = q
  BY <1>0, <1>1, SessionParts DEF CreatesPlan, TypeOK, Session
<1>8. ActsOnWhatItRead'
  BY <1>7 DEF ActsOnWhatItRead
<1> QED
  BY <1>3, <1>5, <1>6, <1>8 DEF AloneInv

LEMMA AloneCommits ==
    ASSUME TypeOK, AloneInv, NEW c, Clients = {c}, CommitsDecision(c)
    PROVE  AloneInv'
<1>0. PICK q \in Plans, d \in Decision : q = session[c].plan /\ d = session[c].decision
  BY SessionParts
<1> DEFINE those == session[c].expiring
<1>1. /\ request[q] = "pending" /\ q \notin those
      /\ \A p \in those : request[p] = "pending"
  BY <1>0 DEF CommitsDecision, At, AloneInv, ActsOnWhatItRead
<1>2. /\ request' = [p \in Plans |-> IF p = q THEN StatusOf[d]
                                     ELSE IF p \in those THEN "expired" ELSE request[p]]
      /\ planStatus' = [planStatus EXCEPT ![q] = StatusOf[d]]
      /\ linked' = linked
  BY <1>0 DEF CommitsDecision, PlanAfter
<1>3. /\ \A p \in Plans : DecisionsOf(p)' = IF p = q THEN DecisionsOf(p) + 1 ELSE DecisionsOf(p)
      /\ \A p \in Plans \ {q} : made'[p] = made[p]
      /\ made'[q][d] > 0
  <2>1. \A p \in Plans : DecisionsOf(p)' = IF p = q THEN DecisionsOf(p) + 1 ELSE DecisionsOf(p)
    BY <1>0, DecisionsStep
  <2>2. \A p \in Plans \ {q} : made'[p] = made[p]
    BY <1>0 DEF CommitsDecision, TypeOK
  <2>3. made'[q][d] > 0
    BY <1>0, DecisionsStep
  <2> QED
    BY <2>1, <2>2, <2>3
<1>4. planStatus[q] = "pending_approval" /\ DecisionsOf(q) = 0
  BY <1>1 DEF AloneInv, VerdictsAgree
<1>5. VerdictsAgree'
  <2> SUFFICES ASSUME NEW p \in Plans
               PROVE  (/\ request[p] = "none" => planStatus[p] = "none" /\ DecisionsOf(p) = 0
                       /\ request[p] \in {"pending", "expired"} =>
                              planStatus[p] = "pending_approval" /\ DecisionsOf(p) = 0
                       /\ \A e \in Decision : request[p] = StatusOf[e] =>
                              made[p][e] > 0 /\ planStatus[p] \in {StatusOf[e], "ended"})'
    BY DEF VerdictsAgree
  <2>1. CASE p = q
    <3>1. request'[p] = StatusOf[d] /\ planStatus'[p] = StatusOf[d]
      BY <1>2, <2>1 DEF TypeOK
    <3>2. \A e \in Decision : StatusOf[e] = StatusOf[d] => e = d
      BY DEF StatusOf, Decision
    <3> QED
      BY <3>1, <3>2, <1>3, <2>1, StatusType
  <2>2. CASE p # q
    <3>1. planStatus'[p] = planStatus[p] /\ made'[p] = made[p] /\ DecisionsOf(p)' = DecisionsOf(p)
      BY <1>2, <1>3, <2>2 DEF TypeOK
    <3>2. request'[p] = IF p \in those THEN "expired" ELSE request[p]
      BY <1>2, <2>2
    <3> QED
      BY <1>1, <3>1, <3>2, StatusType DEF AloneInv, VerdictsAgree
  <2> QED
    BY <2>1, <2>2
<1>6. OnePlanInFlight'
  BY <1>2, <1>4 DEF AloneInv, OnePlanInFlight, TypeOK, InFlight
<1>7. OneDecision'
  BY <1>3, <1>4 DEF AloneInv, OneDecision
<1>8. /\ session'[c].pc \in {"send", "resume"}
      /\ session'[c].expiring = {}
  <2> DEFINE s == [session[c] EXCEPT !.pc = IF d = "approve" THEN "send" ELSE "resume",
                                     !.batch = Rest(c), !.expiring = {}]
  <2>1. session' = [session EXCEPT ![c] = s]
    BY <1>0 DEF CommitsDecision, CreatesJob
  <2>2. s.pc \in {"send", "resume"} /\ s.expiring = {}
    BY SessionParts DEF Session
  <2> QED
    BY <2>1, <2>2 DEF TypeOK
<1>9. ActsOnWhatItRead'
  BY <1>8 DEF ActsOnWhatItRead
<1> QED
  BY <1>2, <1>5, <1>6, <1>7, <1>9 DEF AloneInv

LEMMA AloneStep ==
    ASSUME TypeOK, AloneInv, NEW c, Clients = {c}, NodePlans = {}, [Next]_vars
    PROVE  AloneInv'
<1> c \in Clients
  OBVIOUS
<1>1. CASE Quiet(c) \/ SendsJob(c)
  BY <1>1, AloneMoves, AloneCreates
<1>2. CASE CommitsDecision(c)
  BY <1>2, AloneCommits
<1>3. ASSUME NEW p \in Plans, WorkflowExpires(p)
      PROVE  AloneInv'
  BY <1>3 DEF WorkflowExpires, AloneInv
<1>4. CASE UNCHANGED <<planStatus, request, made, linked, session>>
  <2>1. ActsOnWhatItRead'
    BY <1>4 DEF ActsOnWhatItRead, AloneInv, HasActivePlan
  <2> QED
    BY <1>4, <2>1, RowsKept DEF AloneInv
<1>5. ASSUME NEW p \in Plans, TimePasses(p)
      PROVE  AloneInv'
  BY <1>4, <1>5 DEF TimePasses, planVars
<1>6. ASSUME NEW p \in Plans, PlanEnds(p)
      PROVE  AloneInv'
  <2>1. /\ planStatus[p] = "approved"
        /\ planStatus' = [planStatus EXCEPT ![p] = "ended"]
        /\ UNCHANGED <<request, linked, made, session>>
    BY <1>6 DEF PlanEnds
  <2>2. \A q \in Plans : DecisionsOf(q)' = DecisionsOf(q)
    BY <2>1 DEF DecisionsOf
  <2>3. VerdictsAgree' /\ OneDecision'
    BY <2>1, <2>2 DEF AloneInv, VerdictsAgree, OneDecision, TypeOK
  <2>4. OnePlanInFlight'
    BY <2>1 DEF AloneInv, OnePlanInFlight, TypeOK, InFlight
  <2>5. \A q \in Plans : planStatus[q] = "none" => planStatus'[q] = "none"
    BY <2>1 DEF TypeOK
  <2>6. ~HasActivePlan => ~HasActivePlan'
    BY <2>1 DEF HasActivePlan, TypeOK, InFlight
  <2>7. session[c].plan \in Plans
    BY SessionParts
  <2>8. ActsOnWhatItRead'
    BY <2>1, <2>5, <2>6, <2>7 DEF AloneInv, ActsOnWhatItRead
  <2> QED
    BY <2>1, <2>3, <2>4, <2>8 DEF AloneInv
<1>7. CASE UNCHANGED vars
  BY <1>4, <1>7 DEF vars, planVars
<1> QED
  BY <1>1, <1>2, <1>3, <1>5, <1>6, <1>7 DEF Next, ClientStep, Decides, Quiet

LEMMA Alone ==
    ASSUME NEW c, Clients = {c}, NodePlans = {}
    PROVE  Spec => []AloneInv
<1>1. Init => TypeOK /\ AloneInv
  BY TypeInit, AloneInit
<1>2. TypeOK /\ AloneInv /\ [Next]_vars => (TypeOK /\ AloneInv)'
  BY TypeStep, AloneStep
<1> QED
  BY <1>1, <1>2, PTL DEF Spec

\* While one session at a time creates and decides, and no workflow node waits
\* on a request: the three records of a verdict agree, and each request has at most
\* one decision.
THEOREM AloneHolds ==
    ASSUME NEW c, Clients = {c}, NodePlans = {}
    PROVE  Spec => [](VerdictsAgree /\ OneDecision)
<1>1. AloneInv => VerdictsAgree /\ OneDecision
  BY DEF AloneInv
<1> QED
  BY <1>1, Alone, PTL

\* And a recommendation has one plan in flight: nobody inserts one between the look of
\* create_plan and its insert.
THEOREM OnePlanInFlightHolds ==
    ASSUME NEW c, Clients = {c}, NodePlans = {}
    PROVE  Spec => []OnePlanInFlight
<1>1. AloneInv => OnePlanInFlight
  BY DEF AloneInv
<1> QED
  BY <1>1, Alone, PTL

\* And what decide and create_plan have read still holds when they write, the rows
\* that they have flushed as expired included.
THEOREM ActsOnWhatItReadHolds ==
    ASSUME NEW c, Clients = {c}, NodePlans = {}
    PROVE  Spec => []ActsOnWhatItRead
<1>1. AloneInv => ActsOnWhatItRead
  BY DEF AloneInv
<1> QED
  BY <1>1, Alone, PTL

-----------------------------------------------------------------------------
(* Refinement *)

LEMMA PromiseStep ==
    ASSUME TypeOK, JobsInv, AloneInv, NEW c, Clients = {c}, NodePlans = {}, [Next]_vars
    PROVE  [Promise!Next]_<<VerdictOf, jobs>>
<1> c \in Clients
  OBVIOUS
<1>1. CASE CommitsDecision(c)
  <2>0. PICK q \in Plans, d \in Decision : q = session[c].plan /\ d = session[c].decision
    BY SessionParts
  <2>a. PICK others \in SUBSET Plans : others = session[c].expiring
    BY SessionParts
  <2> DEFINE those  == {q} \cup others
             v      == [p \in those |-> IF p = q THEN StatusOf[d] ELSE "expired"]
  <2>1. /\ request[q] = "pending" /\ q \notin others
        /\ \A p \in others : request[p] = "pending"
    BY <1>1, <2>0, <2>a DEF CommitsDecision, At, AloneInv, ActsOnWhatItRead
  <2>2. those \in SUBSET Plans /\ those # {}
    OBVIOUS
  <2>3. \A p \in those : VerdictOf[p] = "open"
    BY <2>1, <2>2 DEF VerdictOf
  <2>4. request' = [p \in Plans |-> IF p = q THEN StatusOf[d]
                                     ELSE IF p \in others THEN "expired" ELSE request[p]]
    BY <1>1, <2>0, <2>a DEF CommitsDecision
  <2>5. /\ StatusOf[d] \in {"approved", "rejected", "changes_requested"}
        /\ StatusOf[d] = "approved" <=> d = "approve"
    BY DEF StatusOf, Decision
  <2>6. v \in [those -> Promise!Verdict \ {"open"}]
    BY <2>5 DEF Promise!Verdict
  <2>7. VerdictOf' = [p \in Plans |-> IF p \in those THEN v[p] ELSE VerdictOf[p]]
    <3>1. \A p \in Plans : (IF request'[p] \in {"none", "pending"} THEN "open" ELSE request'[p])
                              = IF p \in those THEN v[p] ELSE VerdictOf[p]
      BY <2>1, <2>4, <2>5 DEF VerdictOf
    <3> QED
      BY <3>1 DEF VerdictOf
  <2>8. jobs[q] = 0
    <3>1. DecisionsOf(q) = 0
      BY <2>1 DEF AloneInv, VerdictsAgree
    <3>2. made[q]["approve"] \in Nat /\ made[q]["reject"] \in Nat
          /\ made[q]["request_changes"] \in Nat
      BY DEF TypeOK, Decision
    <3>4. made[q]["approve"] + made[q]["reject"] + made[q]["request_changes"] = 0
      BY <3>1 DEF DecisionsOf
    <3>3. made[q]["approve"] = 0
      BY <3>2, <3>4
    <3> QED
      BY <3>3 DEF JobsInv
  <2>9. jobs' = [p \in Plans |-> IF p \in those /\ v[p] = "approved" THEN 1 ELSE jobs[p]]
    <3>1. jobs' = [jobs EXCEPT ![q] = IF d = "approve" THEN jobs[q] + 1 ELSE jobs[q]]
      BY <1>1, <2>0 DEF CommitsDecision, CreatesJob
    <3>2. \A p \in Plans : jobs'[p] = IF p \in those /\ v[p] = "approved" THEN 1 ELSE jobs[p]
      BY <3>1, <2>1, <2>5, <2>8 DEF TypeOK
    <3>3. jobs' = [p \in Plans |-> jobs'[p]]
      BY <3>1 DEF TypeOK
    <3> QED
      BY <3>2, <3>3
  <2> HIDE DEF those, v
  <2>10. Promise!Settles(those)
    BY <2>2, <2>3, <2>6, <2>7, <2>9 DEF Promise!Settles
  <2> QED
    BY <2>2, <2>10 DEF Promise!Next
<1>2. ASSUME NEW p \in Plans, request[p] \in {"none", "pending"},
             request' = [request EXCEPT ![p] = "pending"], jobs' = jobs
      PROVE  UNCHANGED <<VerdictOf, jobs>>
  <2>1. \A r \in Plans : VerdictOf'[r] = VerdictOf[r]
    BY <1>2 DEF VerdictOf, TypeOK
  <2> QED
    BY <1>2, <2>1 DEF VerdictOf
<1>3. CASE CreatesPlan(c)
  <2>1. PICK q \in Plans : q = session[c].plan
    BY SessionParts
  <2>2. planStatus[q] = "none"
    BY <1>3, <2>1 DEF CreatesPlan, At, AloneInv, ActsOnWhatItRead
  <2>3. request[q] \in {"none", "pending"}
    <3>1. request[q] # "expired" /\ \A d \in Decision : request[q] # StatusOf[d]
      BY <2>2, StatusType DEF AloneInv, VerdictsAgree
    <3> QED
      BY <3>1 DEF TypeOK, RequestStatus, Decision, StatusOf
  <2> QED
    BY <1>2, <1>3, <2>1, <2>3 DEF CreatesPlan
<1>4. CASE UNCHANGED <<request, jobs>>
  BY <1>4 DEF VerdictOf
<1>5. (Quiet(c) /\ ~CreatesPlan(c)) \/ SendsJob(c) => UNCHANGED <<request, jobs>>
  BY DEF Quiet, Creates, TakesItem, ChecksRecommendation, StartsBatch, DecidesAtOnce, LinksNode,
         ReadsPending, ReadsOverdue, SkipsItem, FlushesExpired, ResumesWorkflow, EndsBatch,
         LosesDeadlock, Dies, SendsJob, planVars
<1>6. \A p \in Plans : TimePasses(p) \/ PlanEnds(p) => UNCHANGED <<request, jobs>>
  BY DEF TimePasses, PlanEnds, planVars
<1>7. \A p \in Plans : ~WorkflowExpires(p)
  BY DEF WorkflowExpires, AloneInv
<1>8. UNCHANGED vars => UNCHANGED <<request, jobs>>
  BY DEF vars, planVars
<1> QED
  BY <1>1, <1>3, <1>4, <1>5, <1>6, <1>7, <1>8 DEF Next, ClientStep, Decides, Quiet

\* decide, bulk_decide and the automatic approvals, one session at a time, keep
\* the promise of the approval system: one verdict for each request, which then
\* stands, and one job for each approved request from that moment on.
THEOREM ApprovalKeepsPromise ==
    ASSUME NEW c, Clients = {c}, NodePlans = {}
    PROVE  Spec => DecidesOnce
<1>1. Init => TypeOK /\ JobsInv /\ AloneInv /\ Promise!Init
  <2>1. Init => Promise!Init
    BY DEF Init, Promise!Init, VerdictOf
  <2> QED
    BY <2>1, TypeInit, JobsInit, AloneInit
<1>2. TypeOK /\ JobsInv /\ AloneInv /\ [Next]_vars
          => (TypeOK /\ JobsInv /\ AloneInv)' /\ [Promise!Next]_<<VerdictOf, jobs>>
  BY TypeStep, JobsStep, AloneStep, PromiseStep
<1> QED
  BY <1>1, <1>2, PTL DEF Spec, DecidesOnce, Promise!Spec
=============================================================================
