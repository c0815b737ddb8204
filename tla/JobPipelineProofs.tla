--------------------------- MODULE JobPipelineProofs ---------------------------
(***************************************************************************)
(* Proofs about the background jobs: types, that no active job is orphaned and *)
(* no completed one is not handed on but by a lost send, and that a             *)
(* cancellation is final, for any workers, callers, jobs, retries and faults.  *)
(***************************************************************************)
EXTENDS JobPipeline, TLAPS

\* What the bounds are: nothing else is assumed of the constants.
Bounds ==
    /\ MaxJobs \in Nat /\ MaxRetries \in Nat /\ MaxFaults \in Nat /\ MaxReconnects \in Nat

\* A job that a message names, a worker is on or a sender has created has a row; and
\* only who is on a job has it in hand, only who is sending one has a new one.
Rowed(j) == j \in Jobs /\ job[j].kind # "none"

HeldBy(w) ==
    /\ worker[w].pc = "idle" => worker[w].job = NoJob
    /\ worker[w].pc # "idle" => Rowed(worker[w].job)
    /\ worker[w].pc = "send" => Rowed(worker[w].new)
    /\ worker[w].pc # "send" => worker[w].new = NoJob
    /\ worker[w].pc \in {"create", "send"} => worker[w].left # <<>>
    /\ worker[w].pc \in {"begin", "work"} => worker[w].left = After(Kind(w))

SentBy(c) ==
    /\ caller[c].pc # "idle" => caller[c].kind \in Kinds
    /\ caller[c].pc = "send" => Rowed(caller[c].new)
    /\ caller[c].pc # "send" => caller[c].new = NoJob

HeldInv ==
    /\ \A m \in queue : Rowed(m.job)
    /\ \A w \in Workers : HeldBy(w)
    /\ \A c \in Callers : SentBy(c)

\* Who is to see to it that an active job is run.
Minded(j) ==
    \/ \E m \in queue : m.job = j
    \/ \E w \in Workers : worker[w].job = j /\ worker[w].pc \in {"begin", "work"}
    \/ BeingSent(j)
    \/ j \in unsent

\* Who is to see to it that a completed job is handed on: a worker that has still to
\* come to every successor the job is not handed on to.
Covers(w, j) ==
    /\ worker[w].job = j
    /\ \A n \in DOMAIN After(job[j].kind) :
          \/ After(job[j].kind)[n] \in handed[j]
          \/ \E i \in DOMAIN worker[w].left : worker[w].left[i] = After(job[j].kind)[n]

HandedOn(j) == \A n \in DOMAIN After(job[j].kind) : After(job[j].kind)[n] \in handed[j]

Passed(j) ==
    \/ \E m \in queue : m.job = j
    \/ \E w \in Workers : Covers(w, j)
    \/ j \in unsent
    \/ HandedOn(j)

(***************************************************************************)
(* The inductive invariant. That a job is held is not enough: the worker that *)
(* holds it may be past its pass, and its successors passed over while a       *)
(* redelivered message had the job running again.                            *)
(***************************************************************************)
KeptInv ==
    \A j \in Jobs : /\ job[j].status \in Active => Minded(j)
                    /\ job[j].status = "completed" => Passed(j)

-----------------------------------------------------------------------------
(* Rows, records and sequences *)

\* What a row of a kind may become.
LEMMA RowFacts ==
    ASSUME TypeOK, NEW j \in Jobs
    PROVE  /\ job[j].kind \in Kinds \cup {"none"} /\ job[j].cancel \in BOOLEAN
           /\ job[j].kind = "none" => job[j].status = "none" /\ ~ job[j].cancel
           /\ job[j].kind \notin ConnectorKinds => ~ job[j].cancel
           /\ job[j].kind # "none" =>
                 \A s \in {"running", "completed", "failed"} :
                    [job[j] EXCEPT !.status = s] \in JobRow
           /\ job[j].kind \in ConnectorKinds =>
                 /\ [job[j] EXCEPT !.status = "cancelled"] \in JobRow
                 /\ [job[j] EXCEPT !.cancel = TRUE] \in JobRow
           /\ \A s : /\ [job[j] EXCEPT !.status = s].kind = job[j].kind
                     /\ [job[j] EXCEPT !.status = s].status = s
                     /\ [job[j] EXCEPT !.status = s].cancel = job[j].cancel
           /\ [job[j] EXCEPT !.cancel = TRUE].kind = job[j].kind
           /\ [job[j] EXCEPT !.cancel = TRUE].status = job[j].status
           /\ [job[j] EXCEPT !.cancel = TRUE].cancel
<1>0. job[j] \in JobRow
  BY DEF TypeOK
<1> DEFINE Goal(r) ==
       /\ r.kind \in Kinds \cup {"none"} /\ r.cancel \in BOOLEAN
       /\ r.kind = "none" => r.status = "none" /\ ~ r.cancel
       /\ r.kind \notin ConnectorKinds => ~ r.cancel
       /\ r.kind # "none" =>
             \A s \in {"running", "completed", "failed"} : [r EXCEPT !.status = s] \in JobRow
       /\ r.kind \in ConnectorKinds =>
             [r EXCEPT !.status = "cancelled"] \in JobRow /\ [r EXCEPT !.cancel = TRUE] \in JobRow
       /\ \A s : /\ [r EXCEPT !.status = s].kind = r.kind
                 /\ [r EXCEPT !.status = s].status = s
                 /\ [r EXCEPT !.status = s].cancel = r.cancel
       /\ [r EXCEPT !.cancel = TRUE].kind = r.kind
       /\ [r EXCEPT !.cancel = TRUE].status = r.status
       /\ [r EXCEPT !.cancel = TRUE].cancel
<1> USE DEF Kinds, ConnectorKinds, OrganizationKinds
<1>1. ASSUME NEW r \in [kind : {"scan"}, status : ScanStatus, cancel : BOOLEAN] PROVE Goal(r)
  BY DEF JobRow, ScanStatus
<1>2. ASSUME NEW r \in [kind : {"enrichment"}, status : EnrichmentStatus, cancel : BOOLEAN]
      PROVE Goal(r)
  BY DEF JobRow, EnrichmentStatus
<1>3. ASSUME NEW r \in [kind : {"embedding"}, status : EmbeddingStatus, cancel : BOOLEAN]
      PROVE Goal(r)
  BY DEF JobRow, EmbeddingStatus
<1>4. ASSUME NEW r \in [kind : {"intelligence"}, status : IntelligenceStatus, cancel : BOOLEAN]
      PROVE Goal(r)
  BY DEF JobRow, IntelligenceStatus
<1>5. ASSUME NEW r \in [kind : {"recommendation"}, status : RecommendationStatus, cancel : {FALSE}]
      PROVE Goal(r)
  BY DEF JobRow, RecommendationStatus
<1>6. ASSUME NEW r \in [kind : {"analysis"}, status : AnalysisStatus, cancel : {FALSE}]
      PROVE Goal(r)
  BY DEF JobRow, AnalysisStatus
<1>7. ASSUME NEW r \in [kind : {"none"}, status : {"none"}, cancel : {FALSE}] PROVE Goal(r)
  BY DEF JobRow
<1>8. Goal(job[j])
  <2> HIDE DEF Goal
  <2> QED BY <1>0, <1>1, <1>2, <1>3, <1>4, <1>5, <1>6, <1>7 DEF JobRow
<1> QED
  BY <1>8

LEMMA NewRow ==
    \A k \in Kinds : [kind |-> k, status |-> "pending", cancel |-> FALSE] \in JobRow
BY DEF Kinds, ConnectorKinds, OrganizationKinds, JobRow, ScanStatus, EnrichmentStatus,
       EmbeddingStatus, IntelligenceStatus, RecommendationStatus, AnalysisStatus

LEMMA AfterType == \A k \in Kinds \cup {"none"} : After(k) \in Seq(Kinds)
<1>1. AfterScan \in Seq(Kinds)
  BY DEF AfterScan, Kinds, ConnectorKinds, OrganizationKinds
<1>2. AfterEnrichment \in Seq(Kinds)
  BY DEF AfterEnrichment, Kinds, ConnectorKinds, OrganizationKinds
<1>3. AfterEmbedding \in Seq(Kinds)
  BY DEF AfterEmbedding, Kinds, ConnectorKinds, OrganizationKinds
<1>4. <<>> \in Seq(Kinds)
  OBVIOUS
<1> QED
  BY <1>1, <1>2, <1>3, <1>4 DEF After

\* What is not the head of a sequence is in its tail.
LEMMA InTail ==
    ASSUME NEW s \in Seq(Kinds), s # <<>>
    PROVE  /\ Head(s) \in Kinds /\ Tail(s) \in Seq(Kinds)
           /\ \A i \in DOMAIN s : s[i] # Head(s) => \E k \in DOMAIN Tail(s) : Tail(s)[k] = s[i]
<1>1. Len(s) \in Nat /\ Len(s) > 0 /\ DOMAIN s = 1 .. Len(s) /\ Head(s) = s[1]
  OBVIOUS
<1>2. /\ Tail(s) \in Seq(Kinds) /\ Len(Tail(s)) = Len(s) - 1
      /\ \A k \in 1 .. Len(s) - 1 : Tail(s)[k] = s[k + 1]
  OBVIOUS
<1>3. ASSUME NEW i \in DOMAIN s, s[i] # Head(s)
      PROVE  \E k \in DOMAIN Tail(s) : Tail(s)[k] = s[i]
  <2>1. i - 1 \in 1 .. Len(s) - 1 /\ DOMAIN Tail(s) = 1 .. Len(s) - 1
    BY <1>1, <1>2, <1>3
  <2> QED BY <1>1, <1>2, <2>1
<1> QED
  BY <1>1, <1>2, <1>3

\* What each worker has in hand, and what its step may make of it.
LEMMA WorkerFacts ==
    ASSUME TypeOK, NEW w \in Workers
    PROVE  /\ worker[w] \in Worker /\ worker[w].job \in Jobs \cup {NoJob}
           /\ worker[w].tries \in 0 .. MaxRetries /\ worker[w].left \in Seq(Kinds)
           /\ worker[w].new \in Jobs \cup {NoJob}
<1>1. worker[w] \in Worker
  BY DEF TypeOK
<1> QED
  BY <1>1 DEF Worker

LEMMA CallerFacts ==
    ASSUME TypeOK, NEW c \in Callers
    PROVE  /\ caller[c] \in Caller /\ caller[c].pc \in {"idle", "create", "send"}
           /\ caller[c].new \in Jobs \cup {NoJob}
<1>1. caller[c] \in Caller
  BY DEF TypeOK
<1> QED
  BY <1>1 DEF Caller

LEMMA RestingType ==
    ASSUME Bounds
    PROVE  Resting \in Worker /\ Waiting \in Caller
BY DEF Bounds, Resting, Waiting, Worker, Caller

-----------------------------------------------------------------------------
(* What the steps do *)

\* A worker goes on with its task, and the others are not disturbed.
Becomes(w, pc, left, new) ==
    /\ worker' \in [Workers -> Worker]
    /\ worker'[w].pc = pc /\ worker'[w].left = left /\ worker'[w].new = new
    /\ worker'[w].job = worker[w].job /\ worker'[w].tries = worker[w].tries
    /\ \A v \in Workers : v # w => worker'[v] = worker[v]

\* A pass ends: what it may make of which job.
PassEnds(w, s) ==
    /\ worker[w].pc \in {"begin", "work"} /\ Returns(w, s)
    /\ s \in {"completed", "failed", "cancelled"}
    /\ s = "cancelled" => Kind(w) \in ConnectorKinds
    /\ s = "completed" /\ Kind(w) \in ConnectorKinds => worker[w].pc = "work"
    /\ connected' \in {connected, FALSE}

LEMMA RunsShape ==
    ASSUME NEW w \in Workers, Runs(w)
    PROVE  FindsNoCancel(w) \/ \E s \in {"completed", "failed", "cancelled"} : PassEnds(w, s)
<1> USE DEF ConnectorKinds, FindsCancel, Completes, Fails, NeedsReauth, NoProvider, PassEnds
<1>1. CASE ScanRun(w)
  BY <1>1 DEF ScanRun
<1>2. CASE EnrichmentRun(w)
  BY <1>2 DEF EnrichmentRun
<1>3. CASE EmbeddingRun(w)
  BY <1>3 DEF EmbeddingRun
<1>4. CASE IntelligenceRun(w)
  BY <1>4 DEF IntelligenceRun
<1>5. CASE RecommendationRun(w)
  BY <1>5 DEF RecommendationRun
<1>6. CASE AnalysisRun(w)
  BY <1>6 DEF AnalysisRun
<1> QED
  BY <1>1, <1>2, <1>3, <1>4, <1>5, <1>6 DEF Runs

\* The updates of a worker's record.
LEMMA Updated ==
    ASSUME TypeOK, NEW w \in Workers, NEW pc \in {"work", "chain", "create", "send"}
    PROVE  /\ worker' = [worker EXCEPT ![w].pc = pc]
                 => Becomes(w, pc, worker[w].left, worker[w].new)
           /\ \A left \in Seq(Kinds) :
                 worker' = [worker EXCEPT ![w].left = left]
                    => Becomes(w, worker[w].pc, left, worker[w].new)
           /\ \A new \in Jobs :
                 worker' = [worker EXCEPT ![w].pc = pc, ![w].new = new]
                    => Becomes(w, pc, worker[w].left, new)
           /\ \A left \in Seq(Kinds) :
                 worker' = [worker EXCEPT ![w].pc = pc, ![w].left = left]
                    => Becomes(w, pc, left, worker[w].new)
           /\ \A left \in Seq(Kinds) :
                 worker' = [worker EXCEPT ![w].pc = pc, ![w].left = left, ![w].new = NoJob]
                    => Becomes(w, pc, left, NoJob)
<1>0. worker \in [Workers -> Worker]
  BY DEF TypeOK
<1>1. ASSUME worker' = [worker EXCEPT ![w].pc = pc]
      PROVE  Becomes(w, pc, worker[w].left, worker[w].new)
  BY <1>0, <1>1 DEF Becomes, Worker
<1>2. ASSUME NEW left \in Seq(Kinds), worker' = [worker EXCEPT ![w].left = left]
      PROVE  Becomes(w, worker[w].pc, left, worker[w].new)
  BY <1>0, <1>2 DEF Becomes, Worker
<1>3. ASSUME NEW new \in Jobs, worker' = [worker EXCEPT ![w].pc = pc, ![w].new = new]
      PROVE  Becomes(w, pc, worker[w].left, new)
  BY <1>0, <1>3 DEF Becomes, Worker
<1>4. ASSUME NEW left \in Seq(Kinds), worker' = [worker EXCEPT ![w].pc = pc, ![w].left = left]
      PROVE  Becomes(w, pc, left, worker[w].new)
  BY <1>0, <1>4 DEF Becomes, Worker
<1>5. ASSUME NEW left \in Seq(Kinds),
             worker' = [worker EXCEPT ![w].pc = pc, ![w].left = left, ![w].new = NoJob]
      PROVE  Becomes(w, pc, left, NoJob)
  BY <1>0, <1>5 DEF Becomes, Worker
<1> QED
  BY <1>1, <1>2, <1>3, <1>4, <1>5

\* Where the steps of its task leave a worker.
LEMMA TaskShape ==
    ASSUME TypeOK, HeldInv, NEW w \in Workers
    PROVE  /\ FindsNoCancel(w) => Becomes(w, "work", worker[w].left, NoJob)
           /\ \A s : PassEnds(w, s) => Becomes(w, "chain", worker[w].left, NoJob)
           /\ HandsOn(w) =>
                 \/ Becomes(w, "create", worker[w].left, NoJob) /\ UNCHANGED handed
                 \/ /\ Becomes(w, "chain", Tail(worker[w].left), NoJob)
                    /\ handed' = IF job[worker[w].job].status = "completed"
                                 THEN [handed EXCEPT ![worker[w].job] =
                                                         @ \cup {Head(worker[w].left)}]
                                 ELSE handed
           /\ CreatesSuccessor(w) =>
                 \/ \E j \in Jobs : /\ Creates(j, Head(worker[w].left)) /\ UNCHANGED handed
                                    /\ Becomes(w, "send", worker[w].left, j)
                 \/ /\ Becomes(w, "chain", Tail(worker[w].left), NoJob) /\ UNCHANGED job
                    /\ handed' = [handed EXCEPT ![worker[w].job] = @ \cup {Head(worker[w].left)}]
           /\ SendsSuccessor(w) => Becomes(w, "chain", Tail(worker[w].left), NoJob)
<1>0. /\ worker[w].left \in Seq(Kinds) /\ HeldBy(w)
      /\ worker[w].pc # "send" => worker[w].new = NoJob
  BY WorkerFacts DEF HeldInv, HeldBy
<1>1. ASSUME FindsNoCancel(w)
      PROVE  Becomes(w, "work", worker[w].left, NoJob)
  BY <1>0, <1>1, Updated DEF FindsNoCancel
<1>2. ASSUME NEW s, PassEnds(w, s)
      PROVE  Becomes(w, "chain", worker[w].left, NoJob)
  BY <1>0, <1>2, Updated DEF PassEnds, Returns
<1>3. ASSUME worker[w].left # <<>>
      PROVE  Tail(worker[w].left) \in Seq(Kinds)
  BY <1>0, <1>3, InTail
<1>4. CASE HandsOn(w)
  <2>1. worker[w].pc = "chain" /\ worker[w].left # <<>>
    BY <1>4 DEF HandsOn
  <2>2. CASE worker' = [worker EXCEPT ![w].pc = "create"] /\ UNCHANGED handed
    BY <1>0, <1>4, <2>1, <2>2, Updated DEF FindsNoCancel, PassEnds, CreatesSuccessor, SendsSuccessor
  <2>3. CASE /\ worker' = [worker EXCEPT ![w].left = Tail(worker[w].left)]
             /\ handed' = IF job[worker[w].job].status = "completed"
                          THEN [handed EXCEPT ![worker[w].job] = @ \cup {Head(worker[w].left)}]
                          ELSE handed
    <3>1. Becomes(w, "chain", Tail(worker[w].left), NoJob)
      BY <1>0, <1>3, <2>1, <2>3, Updated
    <3> QED
      BY <2>1, <2>3, <3>1
      DEF FindsNoCancel, PassEnds, CreatesSuccessor, SendsSuccessor
  <2> QED BY <1>4, <2>2, <2>3 DEF HandsOn
<1>5. CASE CreatesSuccessor(w)
  <2>1. worker[w].pc = "create" /\ worker[w].left # <<>>
    BY <1>0, <1>5 DEF CreatesSuccessor, HeldBy
  <2>2. CASE \E j \in Jobs : /\ Creates(j, Head(worker[w].left)) /\ UNCHANGED handed
                             /\ worker' = [worker EXCEPT ![w].pc = "send", ![w].new = j]
    BY <1>0, <2>1, <2>2, Updated DEF FindsNoCancel, PassEnds, HandsOn, SendsSuccessor
  <2>3. CASE worker' = [worker EXCEPT ![w].pc = "chain", ![w].left = Tail(worker[w].left)]
             /\ UNCHANGED job
             /\ handed' = [handed EXCEPT ![worker[w].job] = @ \cup {Head(worker[w].left)}]
    <3>1. Becomes(w, "chain", Tail(worker[w].left), NoJob)
      BY <1>0, <1>3, <2>1, <2>3, Updated
    <3> QED
      BY <2>1, <2>3, <3>1 DEF FindsNoCancel, PassEnds, HandsOn, SendsSuccessor
  <2> QED BY <1>5, <2>2, <2>3 DEF CreatesSuccessor
<1>6. CASE SendsSuccessor(w)
  <2>1. worker[w].pc = "send" /\ worker[w].left # <<>>
    BY <1>0, <1>6 DEF SendsSuccessor, HeldBy
  <2>2. Becomes(w, "chain", Tail(worker[w].left), NoJob)
    BY <1>0, <1>3, <1>6, <2>1, Updated DEF SendsSuccessor
  <2> QED BY <2>1, <2>2 DEF FindsNoCancel, PassEnds, HandsOn, CreatesSuccessor
<1>7. CASE ~ HandsOn(w) /\ ~ CreatesSuccessor(w) /\ ~ SendsSuccessor(w)
  BY <1>1, <1>2, <1>7
<1> QED
  BY <1>4, <1>5, <1>6, <1>7

\* What a step makes of the rows: it creates one, marks one, or sets its flag.
LEMMA JobEffect ==
    ASSUME TypeOK, HeldInv, [Next]_vars
    PROVE  \/ UNCHANGED job
           \/ \E j \in Jobs, k \in Kinds : Creates(j, k)
           \/ \E j \in Jobs, s \in {"running", "completed", "failed", "cancelled"} :
                 /\ Rowed(j) /\ job' = Marked(j, s)
                 /\ s = "cancelled" => job[j].kind \in ConnectorKinds
           \/ \E j \in Jobs : Cancels(j)
<1>0. \A w \in Workers : /\ worker[w].pc # "idle" => Rowed(worker[w].job)
                         /\ worker[w].pc = "create" => Head(worker[w].left) \in Kinds
  BY WorkerFacts, InTail DEF HeldInv, HeldBy
<1>1. ASSUME NEW c \in Callers, Starts(c) \/ Inserts(c) \/ Enqueues(c) \/ EnqueueFails(c)
      PROVE  UNCHANGED job \/ \E j \in Jobs, k \in Kinds : Creates(j, k)
  BY <1>1 DEF Starts, Inserts, Enqueues, EnqueueFails, HeldInv, SentBy
<1>2. CASE Reconnects \/ UNCHANGED vars
  BY <1>2 DEF Reconnects, vars
<1>3. ASSUME NEW w \in Workers, NEW m \in queue, TakesMessage(w, m)
      PROVE  Rowed(m.job) /\ job' = Marked(m.job, "running")
  BY <1>3 DEF TakesMessage, MarksRunning, HeldInv
<1>4. ASSUME NEW w \in Workers, Runs(w)
      PROVE  \/ UNCHANGED job
             \/ \E s \in {"completed", "failed", "cancelled"} :
                   /\ Rowed(worker[w].job) /\ job' = Marked(worker[w].job, s)
                   /\ s = "cancelled" => job[worker[w].job].kind \in ConnectorKinds
  BY <1>0, <1>4, RunsShape DEF FindsNoCancel, PassEnds, Returns, Kind
<1>5. ASSUME NEW w \in Workers, LosesDependency(w)
      PROVE  UNCHANGED job \/ (Rowed(worker[w].job) /\ job' = Marked(worker[w].job, "failed"))
  BY <1>0, <1>5
  DEF LosesDependency, ScanTask, EnrichmentTask, IntelligenceTask, RetriesOrFails
<1>6. ASSUME NEW w \in Workers, TaskStep(w) \/ SendFails(w) \/ Dies(w) \/ Redelivers(w)
      PROVE  UNCHANGED job \/ \E j \in Jobs, k \in Kinds : Creates(j, k)
  BY <1>0, <1>6
  DEF TaskStep, HandsOn, CreatesSuccessor, SendsSuccessor, Acks, SendFails, Dies, Redelivers
<1>7. \A j : Rowed(j) => j \in Jobs
  BY DEF Rowed
<1>8. ASSUME NEW w \in Workers, Takes(w) \/ Runs(w) \/ LosesDependency(w)
      PROVE  \/ UNCHANGED job
             \/ \E j \in Jobs, s \in {"running", "completed", "failed", "cancelled"} :
                   /\ Rowed(j) /\ job' = Marked(j, s)
                   /\ s = "cancelled" => job[j].kind \in ConnectorKinds
  BY <1>3, <1>4, <1>5, <1>7, <1>8 DEF Takes
<1> QED
  BY <1>1, <1>2, <1>6, <1>8 DEF Next

\* A row stays, of the kind it was created of, and its flag stays set.
LEMMA RowsStay ==
    ASSUME TypeOK, HeldInv, [Next]_vars
    PROVE  /\ job' \in [Jobs -> JobRow]
           /\ \A j \in Jobs : Rowed(j) =>
                 /\ Rowed(j)' /\ job'[j].kind = job[j].kind
                 /\ job[j].cancel => job'[j].cancel
<1>0. job \in [Jobs -> JobRow]
  BY DEF TypeOK
<1>1. CASE UNCHANGED job
  BY <1>0, <1>1 DEF Rowed
<1>2. ASSUME NEW j \in Jobs, NEW k \in Kinds, Creates(j, k)
      PROVE  job' \in [Jobs -> JobRow] /\ \A i \in Jobs : Rowed(i) => job'[i] = job[i]
  BY <1>0, <1>2, NewRow DEF Creates, Rowed
<1>3. ASSUME NEW j \in Jobs, NEW s \in {"running", "completed", "failed", "cancelled"},
             Rowed(j), job' = Marked(j, s), s = "cancelled" => job[j].kind \in ConnectorKinds
      PROVE  /\ job' \in [Jobs -> JobRow]
             /\ \A i \in Jobs : job'[i].kind = job[i].kind /\ job'[i].cancel = job[i].cancel
  <2>1. job' = [job EXCEPT ![j] = [job[j] EXCEPT !.status = s]]
    BY <1>0, <1>3 DEF Marked
  <2>2. [job[j] EXCEPT !.status = s] \in JobRow
    BY <1>3, RowFacts DEF Rowed
  <2>3. job' \in [Jobs -> JobRow]
    BY <1>0, <2>1, <2>2
  <2>4. ASSUME NEW i \in Jobs
        PROVE  job'[i].kind = job[i].kind /\ job'[i].cancel = job[i].cancel
    <3>1. CASE i = j
      BY <1>0, <2>1, <3>1, RowFacts
    <3>2. CASE i # j
      BY <1>0, <2>1, <3>2
    <3> QED BY <3>1, <3>2
  <2> QED BY <2>3, <2>4
<1>4. ASSUME NEW j \in Jobs, Cancels(j)
      PROVE  /\ job' \in [Jobs -> JobRow]
             /\ \A i \in Jobs : job'[i].kind = job[i].kind /\ (job[i].cancel => job'[i].cancel)
  <2>1. job' = [job EXCEPT ![j] = [job[j] EXCEPT !.cancel = TRUE]]
    BY <1>0, <1>4 DEF Cancels
  <2>2. [job[j] EXCEPT !.cancel = TRUE] \in JobRow
    BY <1>4, RowFacts DEF Cancels
  <2>3. job' \in [Jobs -> JobRow]
    BY <1>0, <2>1, <2>2
  <2>4. ASSUME NEW i \in Jobs
        PROVE  job'[i].kind = job[i].kind /\ (job[i].cancel => job'[i].cancel)
    <3>1. CASE i = j
      BY <1>0, <2>1, <3>1, RowFacts
    <3>2. CASE i # j
      BY <1>0, <2>1, <3>2
    <3> QED BY <3>1, <3>2
  <2> QED BY <2>3, <2>4
<1> QED
  BY <1>1, <1>2, <1>3, <1>4, JobEffect DEF Rowed

\* What a step makes of a worker.
LEMMA WorkerEffect ==
    ASSUME [Next]_vars
    PROVE  \/ UNCHANGED worker
           \/ \E w \in Workers :
                 \/ \E m \in queue : TakesMessage(w, m)
                 \/ FindsNoCancel(w) \/ \E s : PassEnds(w, s)
                 \/ HandsOn(w) \/ CreatesSuccessor(w) \/ SendsSuccessor(w)
                 \/ worker[w].pc # "idle" /\ worker' = [worker EXCEPT ![w] = Resting]
<1>1. ASSUME NEW c \in Callers, Starts(c) \/ Inserts(c) \/ Enqueues(c) \/ EnqueueFails(c)
      PROVE  UNCHANGED worker
  BY <1>1 DEF Starts, Inserts, Enqueues, EnqueueFails
<1>2. ASSUME \/ \E j \in Jobs : Cancels(j)
             \/ Reconnects \/ (\E w \in Workers : Redelivers(w)) \/ UNCHANGED vars
      PROVE  UNCHANGED worker
  BY <1>2 DEF Cancels, Reconnects, Redelivers, vars
<1>3. ASSUME NEW w \in Workers, LosesDependency(w) \/ Acks(w) \/ SendFails(w) \/ Dies(w)
      PROVE  worker[w].pc # "idle" /\ worker' = [worker EXCEPT ![w] = Resting]
  BY <1>3 DEF LosesDependency, ScanTask, EnrichmentTask, IntelligenceTask, RetriesOrFails, Acks,
              SendFails, Dies
<1> QED
  BY <1>1, <1>2, <1>3, RunsShape DEF Next, Takes, TaskStep

\* A worker that stands still holds what it held.
LEMMA HeldStill ==
    ASSUME TypeOK, HeldInv, [Next]_vars, NEW w \in Workers, worker'[w] = worker[w]
    PROVE  HeldBy(w)'
<1>1. HeldBy(w)
  BY DEF HeldInv
<1>2. \A j \in Jobs : Rowed(j) => Rowed(j)' /\ job'[j].kind = job[j].kind
  BY RowsStay
<1>3. \A j : Rowed(j) => j \in Jobs
  BY DEF Rowed
<1> QED
  BY <1>1, <1>2, <1>3 DEF HeldBy, Kind

LEMMA HeldWorker ==
    ASSUME Bounds, TypeOK, HeldInv, [Next]_vars
    PROVE  worker' \in [Workers -> Worker] /\ \A w \in Workers : HeldBy(w)'
<1>0. worker \in [Workers -> Worker]
  BY DEF TypeOK
<1>1. \A j \in Jobs : Rowed(j) => Rowed(j)' /\ job'[j].kind = job[j].kind
  BY RowsStay
<1>2. \A j : Rowed(j) => j \in Jobs
  BY DEF Rowed
<1>3. CASE UNCHANGED worker
  BY <1>0, <1>3, HeldStill
<1>4. ASSUME NEW w \in Workers, worker' \in [Workers -> Worker], HeldBy(w)',
             \A v \in Workers : v # w => worker'[v] = worker[v]
      PROVE  worker' \in [Workers -> Worker] /\ \A v \in Workers : HeldBy(v)'
  BY <1>4, HeldStill
<1>5. ASSUME NEW w \in Workers, NEW m \in queue, TakesMessage(w, m)
      PROVE  worker' \in [Workers -> Worker] /\ \A v \in Workers : HeldBy(v)'
  <2>1. Rowed(m.job) /\ m.job \in Jobs /\ m.tries \in 0 .. MaxRetries
    BY <1>2 DEF HeldInv, TypeOK, Message
  <2>2. After(job[m.job].kind) \in Seq(Kinds)
    BY <2>1, RowFacts, AfterType
  <2>3. [pc |-> "begin", job |-> m.job, tries |-> m.tries, left |-> After(job[m.job].kind),
         new |-> NoJob] \in Worker
    BY <2>1, <2>2 DEF Worker
  <2>4. worker' = [worker EXCEPT ![w] = [pc |-> "begin", job |-> m.job, tries |-> m.tries,
                                         left |-> After(job[m.job].kind), new |-> NoJob]]
    BY <1>5 DEF TakesMessage
  <2>5. /\ worker' \in [Workers -> Worker] /\ \A v \in Workers : v # w => worker'[v] = worker[v]
        /\ worker'[w].pc = "begin" /\ worker'[w].job = m.job /\ worker'[w].new = NoJob
        /\ worker'[w].left = After(job[m.job].kind)
    BY <1>0, <2>3, <2>4
  <2>6. HeldBy(w)'
    BY <1>1, <2>1, <2>5 DEF HeldBy, Kind
  <2> QED BY <1>4, <2>5, <2>6
<1>6. ASSUME NEW w \in Workers, worker' = [worker EXCEPT ![w] = Resting]
      PROVE  worker' \in [Workers -> Worker] /\ \A v \in Workers : HeldBy(v)'
  <2>1. /\ worker' \in [Workers -> Worker] /\ worker'[w] = Resting
        /\ \A v \in Workers : v # w => worker'[v] = worker[v]
    BY <1>0, <1>6, RestingType
  <2>2. HeldBy(w)'
    BY <2>1 DEF HeldBy, Resting
  <2> QED BY <1>4, <2>1, <2>2
\* A worker goes on with its job: it is past its pass, or its successors are whole.
<1>7. ASSUME NEW w \in Workers, worker[w].pc # "idle", NEW pc \in {"work", "chain", "create", "send"},
             NEW left, NEW new, Becomes(w, pc, left, new),
             pc = "work" => left = worker[w].left /\ worker[w].pc = "begin",
             pc \in {"create", "send"} => left # <<>>,
             IF pc = "send" THEN Rowed(new)' ELSE new = NoJob
      PROVE  worker' \in [Workers -> Worker] /\ \A v \in Workers : HeldBy(v)'
  <2>1. HeldBy(w) /\ Rowed(worker[w].job)
    BY <1>7 DEF HeldInv, HeldBy
  <2>2. HeldBy(w)'
    BY <1>1, <1>2, <1>7, <2>1 DEF HeldBy, Becomes, Kind
  <2> QED BY <1>4, <1>7, <2>2 DEF Becomes
<1>8. ASSUME NEW w \in Workers,
             \/ FindsNoCancel(w) \/ \E s : PassEnds(w, s)
             \/ HandsOn(w) \/ SendsSuccessor(w)
      PROVE  worker' \in [Workers -> Worker] /\ \A v \in Workers : HeldBy(v)'
  <2>1. CASE FindsNoCancel(w)
    BY <1>7, <2>1, TaskShape DEF FindsNoCancel
  <2>2. CASE (\E s : PassEnds(w, s)) \/ SendsSuccessor(w)
    BY <1>7, <2>2, TaskShape DEF PassEnds, SendsSuccessor
  <2>3. CASE HandsOn(w)
    BY <1>7, <2>3, TaskShape DEF HandsOn
  <2> QED BY <1>8, <2>1, <2>2, <2>3
<1>9. ASSUME NEW w \in Workers, CreatesSuccessor(w)
      PROVE  worker' \in [Workers -> Worker] /\ \A v \in Workers : HeldBy(v)'
  <2>1. worker[w].pc = "create" /\ worker[w].left # <<>> /\ worker[w].left \in Seq(Kinds)
    BY <1>9, WorkerFacts DEF CreatesSuccessor, HeldInv, HeldBy
  <2>2. ASSUME NEW j \in Jobs, Creates(j, Head(worker[w].left))
        PROVE  Rowed(j)'
    <3>1. job'[j].kind \in Kinds
      BY <2>1, <2>2, InTail DEF Creates, TypeOK
    <3> QED BY <3>1 DEF Rowed, Kinds, ConnectorKinds, OrganizationKinds
  <2> QED BY <1>7, <1>9, <2>1, <2>2, TaskShape
<1> QED
  BY <1>3, <1>5, <1>6, <1>8, <1>9, WorkerEffect

LEMMA HeldCaller ==
    ASSUME Bounds, TypeOK, HeldInv, [Next]_vars
    PROVE  caller' \in [Callers -> Caller] /\ \A c \in Callers : SentBy(c)'
<1>0. caller \in [Callers -> Caller]
  BY DEF TypeOK
<1>1. ASSUME NEW c \in Callers, caller'[c] = caller[c]
      PROVE  SentBy(c)'
  <2>1. \A j : Rowed(j) => Rowed(j)'
    BY RowsStay DEF Rowed
  <2> QED BY <1>1, <2>1 DEF HeldInv, SentBy
<1>2. CASE UNCHANGED caller
  BY <1>0, <1>1, <1>2
<1>3. ASSUME NEW c \in Callers, NEW r \in Caller, caller' = [caller EXCEPT ![c] = r], SentBy(c)'
      PROVE  caller' \in [Callers -> Caller] /\ \A d \in Callers : SentBy(d)'
  BY <1>0, <1>1, <1>3
<1>4. ASSUME NEW c \in Callers, Starts(c)
      PROVE  caller' \in [Callers -> Caller] /\ \A d \in Callers : SentBy(d)'
  <2>1. PICK k \in Kinds : caller' = [caller EXCEPT ![c] = [pc |-> "create", kind |-> k, new |-> NoJob]]
    BY <1>4 DEF Starts, StartScan, StartEnrichment, StartEmbedding, StartIntelligence,
       TriggerRecommendations, TriggerAnalysis, StartsConnectorJob, StartsOrganizationJob,
       Kinds, ConnectorKinds, OrganizationKinds
  <2>2. [pc |-> "create", kind |-> k, new |-> NoJob] \in Caller
    BY DEF Caller
  <2>3. SentBy(c)'
    BY <1>0, <2>1 DEF SentBy
  <2> QED BY <1>3, <2>1, <2>2, <2>3
<1>5. ASSUME NEW c \in Callers, caller' = [caller EXCEPT ![c] = Waiting]
      PROVE  caller' \in [Callers -> Caller] /\ \A d \in Callers : SentBy(d)'
  <2>1. SentBy(c)'
    BY <1>0, <1>5 DEF SentBy, Waiting
  <2> QED BY <1>3, <1>5, <2>1, RestingType
<1>6. ASSUME NEW c \in Callers, Inserts(c)
      PROVE  caller' \in [Callers -> Caller] /\ \A d \in Callers : SentBy(d)'
  <2>1. CASE caller' = [caller EXCEPT ![c] = Waiting]
    BY <1>5, <2>1
  <2>2. ASSUME NEW j \in Jobs, Creates(j, caller[c].kind),
               caller' = [caller EXCEPT ![c].pc = "send", ![c].new = j]
        PROVE  caller' \in [Callers -> Caller] /\ \A d \in Callers : SentBy(d)'
    <3>1. caller[c].kind \in Kinds
      BY <1>6 DEF Inserts, HeldInv, SentBy
    <3>2. job'[j].kind \in Kinds
      BY <2>2, <3>1 DEF Creates, TypeOK
    <3>3. /\ caller' \in [Callers -> Caller] /\ caller'[c].pc = "send" /\ caller'[c].new = j
          /\ caller'[c].kind = caller[c].kind
          /\ \A d \in Callers : d # c => caller'[d] = caller[d]
      BY <1>0, <2>2 DEF Caller
    <3>4. SentBy(c)'
      BY <3>1, <3>2, <3>3 DEF SentBy, Rowed, Kinds, ConnectorKinds, OrganizationKinds
    <3> QED BY <1>1, <3>3, <3>4
  <2> QED BY <1>6, <2>1, <2>2 DEF Inserts
<1>7. ASSUME NEW w \in Workers, \/ Takes(w) \/ LosesDependency(w) \/ TaskStep(w) \/ SendFails(w)
                                \/ Dies(w) \/ Redelivers(w) \/ Runs(w)
      PROVE  UNCHANGED caller
  <2>1. ASSUME Runs(w) PROVE UNCHANGED caller
    BY <2>1, RunsShape DEF FindsNoCancel, PassEnds, Returns
  <2> QED
    BY <1>7, <2>1 DEF Takes, TakesMessage, LosesDependency, ScanTask, EnrichmentTask,
       IntelligenceTask, RetriesOrFails, TaskStep, HandsOn, CreatesSuccessor, SendsSuccessor, Acks,
       SendFails, Dies, Redelivers
<1>8. ASSUME (\E j \in Jobs : Cancels(j)) \/ Reconnects \/ UNCHANGED vars
      PROVE  UNCHANGED caller
  BY <1>8 DEF Cancels, Reconnects, vars
<1> QED
  BY <1>2, <1>4, <1>5, <1>6, <1>7, <1>8 DEF Next, Enqueues, EnqueueFails

\* What a step adds to the queue: messages of jobs that have a row.
LEMMA QueueEffect ==
    ASSUME Bounds, TypeOK, HeldInv, [Next]_vars
    PROVE  \A m \in queue' : m \in queue \/ (m \in Message /\ Rowed(m.job))
<1>0. \A j, t : Rowed(j) /\ t \in 0 .. MaxRetries =>
         [job |-> j, tries |-> t] \in Message /\ [job |-> j, tries |-> t].job = j
  BY DEF Rowed, Message
<1>1. 0 \in 0 .. MaxRetries
  BY DEF Bounds
<1>2. ASSUME NEW c \in Callers, Enqueues(c)
      PROVE  \A m \in queue' : m \in queue \/ (m \in Message /\ Rowed(m.job))
  <2>1. Rowed(caller[c].new)
    BY <1>2 DEF Enqueues, HeldInv, SentBy
  <2> QED BY <1>0, <1>1, <1>2, <2>1 DEF Enqueues
<1>3. ASSUME NEW w \in Workers, LosesDependency(w) \/ Dies(w) \/ Redelivers(w) \/ SendsSuccessor(w)
      PROVE  \A m \in queue' : m \in queue \/ (m \in Message /\ Rowed(m.job))
  <2>1. /\ worker[w].pc # "idle" => Rowed(worker[w].job)
        /\ worker[w].pc = "send" => Rowed(worker[w].new)
        /\ worker[w].tries \in 0 .. MaxRetries
    BY WorkerFacts DEF HeldInv, HeldBy
  <2>2. worker[w].tries < MaxRetries => worker[w].tries + 1 \in 0 .. MaxRetries
    BY <2>1 DEF Bounds
  <2>3. CASE LosesDependency(w)
    BY <1>0, <2>1, <2>2, <2>3
    DEF LosesDependency, ScanTask, EnrichmentTask, IntelligenceTask, RetriesOrFails
  <2>4. CASE Dies(w) \/ Redelivers(w)
    BY <1>0, <2>1, <2>4 DEF Dies, Redelivers, MessageOf
  <2>5. CASE SendsSuccessor(w)
    BY <1>0, <1>1, <2>1, <2>5 DEF SendsSuccessor
  <2> QED BY <1>3, <2>3, <2>4, <2>5
<1>4. ASSUME NEW c \in Callers, Starts(c) \/ Inserts(c) \/ EnqueueFails(c)
      PROVE  queue' \subseteq queue
  BY <1>4 DEF Starts, Inserts, EnqueueFails
<1>5. ASSUME NEW w \in Workers,
             Takes(w) \/ Runs(w) \/ HandsOn(w) \/ CreatesSuccessor(w) \/ Acks(w) \/ SendFails(w)
      PROVE  queue' \subseteq queue
  <2>1. ASSUME Runs(w) PROVE queue' \subseteq queue
    BY <2>1, RunsShape DEF FindsNoCancel, PassEnds, Returns
  <2> QED BY <1>5, <2>1 DEF Takes, TakesMessage, HandsOn, CreatesSuccessor, Acks, SendFails
<1>6. ASSUME (\E j \in Jobs : Cancels(j)) \/ Reconnects \/ UNCHANGED vars
      PROVE  queue' \subseteq queue
  BY <1>6 DEF Cancels, Reconnects, vars
<1> QED
  BY <1>2, <1>3, <1>4, <1>5, <1>6 DEF Next, TaskStep

\* The jobs handed on, those whose message was lost, and the bounds.
LEMMA RestType ==
    ASSUME Bounds, TypeOK, HeldInv, [Next]_vars
    PROVE  /\ connected' \in BOOLEAN /\ handed' \in [Jobs -> SUBSET Kinds] /\ unsent' \subseteq Jobs
           /\ asks' \in Asks /\ faults' \in 0 .. MaxFaults /\ reconnects' \in 0 .. MaxReconnects
<1> DEFINE Rest == /\ connected \in BOOLEAN /\ handed \in [Jobs -> SUBSET Kinds]
                   /\ unsent \subseteq Jobs /\ asks \in Asks
                   /\ faults \in 0 .. MaxFaults /\ reconnects \in 0 .. MaxReconnects
<1>0. Rest
  BY DEF TypeOK
<1>1. /\ faults < MaxFaults => faults + 1 \in 0 .. MaxFaults
      /\ reconnects < MaxReconnects => reconnects + 1 \in 0 .. MaxReconnects
  BY <1>0 DEF Bounds
<1>2. ASSUME NEW w \in Workers
      PROVE  /\ worker[w].pc = "send" => worker[w].new \in Jobs
             /\ worker[w].pc # "idle" => worker[w].job \in Jobs
             /\ worker[w].new \in Jobs \cup {NoJob}
             /\ worker[w].pc \in {"create", "send"} \/ worker[w].left # <<>>
                   => Head(worker[w].left) \in Kinds
  BY WorkerFacts, InTail DEF HeldInv, HeldBy, Rowed
<1>3. ASSUME NEW c \in Callers, Starts(c) \/ Inserts(c) \/ Enqueues(c) \/ EnqueueFails(c)
      PROVE  Rest'
  <2>1. caller[c].pc = "send" => caller[c].new \in Jobs
    BY DEF HeldInv, SentBy, Rowed
  <2> QED
    BY <1>0, <1>1, <1>3, <2>1 DEF Starts, Inserts, Enqueues, EnqueueFails, sendVars, boundVars
<1>4. ASSUME (\E j \in Jobs : Cancels(j)) \/ Reconnects \/ UNCHANGED vars
      PROVE  Rest'
  BY <1>0, <1>1, <1>4 DEF Cancels, Reconnects, vars, sendVars, boundVars
<1>5. ASSUME NEW w \in Workers, Runs(w)
      PROVE  Rest'
  BY <1>0, <1>5, RunsShape DEF FindsNoCancel, PassEnds, Returns, sendVars, boundVars
<1>6. ASSUME NEW w \in Workers, Takes(w) \/ LosesDependency(w) \/ Acks(w)
      PROVE  Rest'
  BY <1>0, <1>6 DEF Takes, TakesMessage, LosesDependency, ScanTask, EnrichmentTask,
     IntelligenceTask, RetriesOrFails, Acks, sendVars, boundVars
<1>7. ASSUME NEW w \in Workers, SendFails(w) \/ Dies(w) \/ Redelivers(w)
      PROVE  Rest'
  BY <1>0, <1>1, <1>2, <1>7 DEF SendFails, Dies, Redelivers, sendVars, boundVars
<1>8. ASSUME NEW w \in Workers, HandsOn(w) \/ CreatesSuccessor(w) \/ SendsSuccessor(w)
      PROVE  Rest'
  <2>1. UNCHANGED <<connected, unsent, boundVars>>
    BY <1>8 DEF HandsOn, CreatesSuccessor, SendsSuccessor
  <2>2. \/ handed' = handed
        \/ handed' = [handed EXCEPT ![worker[w].job] =
                                        handed[worker[w].job] \cup {Head(worker[w].left)}]
    BY <1>8 DEF HandsOn, CreatesSuccessor, SendsSuccessor
  <2>3. worker[w].pc # "idle" /\ Head(worker[w].left) \in Kinds
    BY <1>2, <1>8 DEF HandsOn, CreatesSuccessor, SendsSuccessor
  <2>4. handed' \in [Jobs -> SUBSET Kinds]
    BY <1>0, <1>2, <2>2, <2>3
  <2> QED BY <1>0, <2>1, <2>4 DEF boundVars
<1> QED
  BY <1>3, <1>4, <1>5, <1>6, <1>7, <1>8 DEF Next, TaskStep

LEMMA TypeStep ==
    ASSUME Bounds
    PROVE  TypeOK /\ HeldInv /\ [Next]_vars => TypeOK' /\ HeldInv'
<1> SUFFICES ASSUME TypeOK, HeldInv, [Next]_vars PROVE TypeOK' /\ HeldInv'
  OBVIOUS
<1>1. queue' \subseteq Message
  BY QueueEffect DEF TypeOK
<1>2. \A j : Rowed(j) => Rowed(j)'
  BY RowsStay DEF Rowed
<1>3. \A m \in queue' : Rowed(m.job)'
  BY <1>2, QueueEffect DEF HeldInv
<1> QED
  BY <1>1, <1>3, RowsStay, HeldWorker, HeldCaller, RestType DEF TypeOK, HeldInv

LEMMA TypeInit == ASSUME Bounds PROVE Init => TypeOK /\ HeldInv
<1> SUFFICES ASSUME Init PROVE TypeOK /\ HeldInv
  OBVIOUS
<1>1. job \in [Jobs -> JobRow]
  BY DEF Init, JobRow
<1>2. /\ queue \subseteq Message /\ connected \in BOOLEAN /\ handed \in [Jobs -> SUBSET Kinds]
      /\ unsent \subseteq Jobs /\ asks \in Asks
  BY DEF Init
<1>3. worker \in [Workers -> Worker] /\ caller \in [Callers -> Caller]
  BY RestingType DEF Init
<1>4. faults \in 0 .. MaxFaults /\ reconnects \in 0 .. MaxReconnects
  BY DEF Bounds, Init
<1>5. HeldInv
  BY DEF Init, HeldInv, HeldBy, SentBy, Resting, Waiting
<1> QED
  BY <1>1, <1>2, <1>3, <1>4, <1>5 DEF TypeOK

(***************************************************************************)
(* Every job row, message, worker and call has its type: no organization job    *)
(* is ever cancelled, and no task looks for a successor beyond the last.       *)
(***************************************************************************)
THEOREM TypeCorrect ==
    ASSUME Bounds
    PROVE  Spec => []TypeOK
<1> QED
  BY TypeInit, TypeStep, PTL DEF Spec

-----------------------------------------------------------------------------
(* No job is orphaned, and every completed one is handed on *)

\* What the status of a job was before a step, and which step changed it.
LEMMA StatusEffect ==
    ASSUME TypeOK, HeldInv, [Next]_vars, NEW j \in Jobs
    PROVE  /\ job'[j].status \in Active =>
                 \/ job[j].status \in Active
                 \/ \E k \in Kinds : Creates(j, k)
                 \/ \E w \in Workers, m \in queue : TakesMessage(w, m) /\ m.job = j
           /\ job'[j].status = "completed" =>
                 /\ Rowed(j)
                 /\ \/ job[j].status = "completed"
                    \/ \E w \in Workers : worker[w].job = j /\ PassEnds(w, "completed")
<1>0. job \in [Jobs -> JobRow]
  BY DEF TypeOK
<1>1. job[j].kind = "none" => job[j].status = "none"
  BY RowFacts
<1>2. CASE job'[j] = job[j]
  BY <1>1, <1>2 DEF Rowed
<1>3. ASSUME NEW i \in Jobs, NEW k \in Kinds, Creates(i, k)
      PROVE  job'[j] = job[j] \/ (j = i /\ job'[j].status = "pending")
  BY <1>0, <1>3 DEF Creates
<1>4. ASSUME NEW i, NEW st, job' = Marked(i, st)
      PROVE  job'[j] = job[j] \/ (i = j /\ job'[j].status = st)
  <2>1. i = j => job'[j] = [job[j] EXCEPT !.status = st]
    BY <1>0, <1>4 DEF Marked
  <2>2. i # j => job'[j] = job[j]
    BY <1>0, <1>4 DEF Marked
  <2>3. [job[j] EXCEPT !.status = st].status = st
    BY RowFacts
  <2>4. CASE i = j
    BY <2>1, <2>3, <2>4
  <2>5. CASE i # j
    BY <2>2, <2>5
  <2> QED BY <2>4, <2>5
<1>5. ASSUME NEW i \in Jobs, Cancels(i)
      PROVE  job'[j].status = job[j].status
  <2>1. job' = [job EXCEPT ![i] = [job[i] EXCEPT !.cancel = TRUE]]
    BY <1>0, <1>5 DEF Cancels
  <2>2. [job[i] EXCEPT !.cancel = TRUE].status = job[i].status
    BY RowFacts
  <2> QED BY <1>0, <2>1, <2>2
<1>6. ASSUME NEW w \in Workers, Runs(w), job'[j] # job[j]
      PROVE  \E s \in {"completed", "failed", "cancelled"} :
                PassEnds(w, s) /\ worker[w].job = j /\ job'[j].status = s
  <2>1. ~ FindsNoCancel(w)
    BY <1>6 DEF FindsNoCancel
  <2>2. PICK s \in {"completed", "failed", "cancelled"} : PassEnds(w, s)
    BY <1>6, <2>1, RunsShape
  <2>3. job' = Marked(worker[w].job, s)
    BY <2>2 DEF PassEnds, Returns
  <2> QED BY <1>4, <1>6, <2>2, <2>3
<1>7. ASSUME NEW w \in Workers, LosesDependency(w)
      PROVE  job'[j] = job[j] \/ job'[j].status = "failed"
  <2>1. UNCHANGED job \/ job' = Marked(worker[w].job, "failed")
    BY <1>7 DEF LosesDependency, ScanTask, EnrichmentTask, IntelligenceTask, RetriesOrFails
  <2> QED BY <1>4, <2>1
<1>8. ASSUME NEW w \in Workers, NEW m \in queue, TakesMessage(w, m)
      PROVE  job'[j] = job[j] \/ (m.job = j /\ job'[j].status = "running")
  <2>1. job' = Marked(m.job, "running")
    BY <1>8 DEF TakesMessage, MarksRunning
  <2> QED BY <1>4, <2>1
<1>9. \A w \in Workers : worker[w].pc # "idle" => Rowed(worker[w].job)
  BY DEF HeldInv, HeldBy
<1>10. ASSUME NEW w \in Workers, TaskStep(w) \/ SendFails(w) \/ Dies(w) \/ Redelivers(w)
       PROVE  UNCHANGED job \/ \E i \in Jobs, k \in Kinds : Creates(i, k)
  <2>1. worker[w].pc = "create" => Head(worker[w].left) \in Kinds
    BY WorkerFacts, InTail DEF HeldInv, HeldBy
  <2> QED
    BY <1>10, <2>1
    DEF TaskStep, HandsOn, CreatesSuccessor, SendsSuccessor, Acks, SendFails, Dies, Redelivers
<1>11. ASSUME NEW c \in Callers, Starts(c) \/ Inserts(c) \/ Enqueues(c) \/ EnqueueFails(c)
       PROVE  UNCHANGED job \/ \E i \in Jobs, k \in Kinds : Creates(i, k)
  BY <1>11 DEF Starts, Inserts, Enqueues, EnqueueFails, HeldInv, SentBy
<1>12. CASE \E i \in Jobs, k \in Kinds : Creates(i, k)
  BY <1>1, <1>2, <1>3, <1>12 DEF Active
<1>13. CASE \E i \in Jobs : Cancels(i)
  BY <1>1, <1>5, <1>13 DEF Rowed
<1>14. CASE \E w \in Workers : Runs(w)
  <2>1. CASE job'[j] # job[j]
    <3>1. PICK w \in Workers, s \in {"completed", "failed", "cancelled"} :
             PassEnds(w, s) /\ worker[w].job = j /\ job'[j].status = s
      BY <1>6, <1>14, <2>1
    <3>2. worker[w].pc # "idle"
      BY <3>1 DEF PassEnds
    <3>3. Rowed(j) /\ job'[j].status \notin Active
      BY <1>9, <3>1, <3>2 DEF Active
    <3> QED BY <3>1, <3>3
  <2> QED BY <1>2, <2>1
<1>15. CASE \E w \in Workers : LosesDependency(w)
  BY <1>2, <1>7, <1>15 DEF Active
<1>16. CASE \E w \in Workers, m \in queue : TakesMessage(w, m)
  BY <1>2, <1>8, <1>16
<1>17. CASE UNCHANGED job
  BY <1>2, <1>17
<1> QED
  BY <1>10, <1>11, <1>12, <1>13, <1>14, <1>15, <1>16, <1>17 DEF Next, Takes, Reconnects, vars

\* The messages stay but for the one that is taken, what was lost stays lost, and what
\* is handed on stays so.
LEMMA Stays ==
    ASSUME TypeOK, HeldInv, [Next]_vars
    PROVE  /\ \A m \in queue : m \in queue' \/ \E w \in Workers : TakesMessage(w, m)
           /\ unsent \subseteq unsent'
           /\ \A j \in Jobs : handed[j] \subseteq handed'[j]
<1> DEFINE Goal == /\ \A m \in queue : m \in queue' \/ \E w \in Workers : TakesMessage(w, m)
                   /\ unsent \subseteq unsent'
                   /\ \A j \in Jobs : handed[j] \subseteq handed'[j]
<1>0. handed \in [Jobs -> SUBSET Kinds]
  BY DEF TypeOK
<1>1. ASSUME NEW c \in Callers, Starts(c) \/ Inserts(c) \/ Enqueues(c) \/ EnqueueFails(c)
      PROVE  Goal
  BY <1>1 DEF Starts, Inserts, Enqueues, EnqueueFails, sendVars
<1>2. ASSUME (\E j \in Jobs : Cancels(j)) \/ Reconnects \/ UNCHANGED vars
      PROVE  Goal
  BY <1>2 DEF Cancels, Reconnects, vars, sendVars
<1>3. ASSUME NEW w \in Workers, NEW m \in queue, TakesMessage(w, m)
      PROVE  Goal
  <2>1. queue' = queue \ {m} /\ UNCHANGED <<handed, unsent>>
    BY <1>3 DEF TakesMessage, sendVars
  <2> QED BY <1>3, <2>1
<1>4. ASSUME NEW w \in Workers, Runs(w)
      PROVE  Goal
  BY <1>4, RunsShape DEF FindsNoCancel, PassEnds, Returns, sendVars
<1>5. ASSUME NEW w \in Workers,
             LosesDependency(w) \/ Acks(w) \/ SendFails(w) \/ Dies(w) \/ Redelivers(w)
      PROVE  Goal
  BY <1>5 DEF LosesDependency, ScanTask, EnrichmentTask, IntelligenceTask, RetriesOrFails, Acks,
     SendFails, Dies, Redelivers, sendVars
<1>6. ASSUME NEW w \in Workers, HandsOn(w) \/ CreatesSuccessor(w) \/ SendsSuccessor(w)
      PROVE  Goal
  <2>1. queue \subseteq queue' /\ unsent' = unsent
    BY <1>6 DEF HandsOn, CreatesSuccessor, SendsSuccessor
  <2>2. \/ handed' = handed
        \/ handed' = [handed EXCEPT ![worker[w].job] =
                                        handed[worker[w].job] \cup {Head(worker[w].left)}]
    BY <1>6 DEF HandsOn, CreatesSuccessor, SendsSuccessor
  <2>3. \A j \in Jobs : handed[j] \subseteq handed'[j]
    BY <1>0, <2>2
  <2> QED BY <2>1, <2>3
<1> QED
  <2> HIDE DEF Goal
  <2>1. Goal
    BY <1>1, <1>2, <1>3, <1>4, <1>5, <1>6 DEF Next, Takes, TaskStep
  <2> QED BY <2>1 DEF Goal

\* Who disturbs a worker, and who a call: itself.
LEMMA Disturbs ==
    ASSUME TypeOK, [Next]_vars
    PROVE  /\ \A w \in Workers :
                 \/ worker'[w] = worker[w]
                 \/ \E m \in queue : TakesMessage(w, m)
                 \/ FindsNoCancel(w)
                 \/ \E s \in {"completed", "failed", "cancelled"} : PassEnds(w, s)
                 \/ LosesDependency(w) \/ HandsOn(w) \/ CreatesSuccessor(w) \/ SendsSuccessor(w)
                 \/ Acks(w) \/ SendFails(w) \/ Dies(w)
           /\ \A c \in Callers :
                 caller'[c] = caller[c] \/ Starts(c) \/ Inserts(c) \/ Enqueues(c) \/ EnqueueFails(c)
<1>0. worker \in [Workers -> Worker] /\ caller \in [Callers -> Caller]
  BY DEF TypeOK
<1> DEFINE Still(w) == worker'[w] = worker[w]
<1>1. ASSUME NEW v \in Workers, NEW w \in Workers, v # w,
             \/ Takes(v) \/ LosesDependency(v) \/ Acks(v) \/ SendFails(v) \/ Dies(v)
             \/ HandsOn(v) \/ CreatesSuccessor(v) \/ SendsSuccessor(v) \/ Redelivers(v) \/ Runs(v)
      PROVE  Still(w)
  <2>1. CASE Takes(v)
    BY <1>0, <1>1, <2>1 DEF Takes, TakesMessage
  <2>2. CASE LosesDependency(v) \/ Acks(v) \/ SendFails(v) \/ Dies(v) \/ Redelivers(v)
    BY <1>0, <1>1, <2>2 DEF LosesDependency, ScanTask, EnrichmentTask, IntelligenceTask,
       RetriesOrFails, Acks, SendFails, Dies, Redelivers
  <2>3. CASE HandsOn(v) \/ CreatesSuccessor(v) \/ SendsSuccessor(v)
    BY <1>0, <1>1, <2>3 DEF HandsOn, CreatesSuccessor, SendsSuccessor
  <2>4. CASE Runs(v)
    BY <1>0, <1>1, <2>4, RunsShape DEF FindsNoCancel, PassEnds, Returns
  <2> QED BY <1>1, <2>1, <2>2, <2>3, <2>4
<1>2. ASSUME \/ \E c \in Callers : Starts(c) \/ Inserts(c) \/ Enqueues(c) \/ EnqueueFails(c)
             \/ \E j \in Jobs : Cancels(j)
             \/ Reconnects \/ (\E w \in Workers : Redelivers(w)) \/ UNCHANGED vars
      PROVE  UNCHANGED worker
  BY <1>2 DEF Starts, Inserts, Enqueues, EnqueueFails, Cancels, Reconnects, Redelivers, vars
<1>3. ASSUME NEW c \in Callers, NEW d \in Callers, c # d,
             Starts(c) \/ Inserts(c) \/ Enqueues(c) \/ EnqueueFails(c)
      PROVE  caller'[d] = caller[d]
  BY <1>0, <1>3 DEF Starts, StartScan, StartEnrichment, StartEmbedding, StartIntelligence,
     TriggerRecommendations, TriggerAnalysis, StartsConnectorJob, StartsOrganizationJob, Inserts,
     Enqueues, EnqueueFails
<1>4. ASSUME NEW w \in Workers, \/ Takes(w) \/ LosesDependency(w) \/ TaskStep(w) \/ SendFails(w)
                                \/ Dies(w) \/ Redelivers(w) \/ Runs(w)
      PROVE  UNCHANGED caller
  <2>1. ASSUME Runs(w) PROVE UNCHANGED caller
    BY <2>1, RunsShape DEF FindsNoCancel, PassEnds, Returns
  <2> QED
    BY <1>4, <2>1 DEF Takes, TakesMessage, LosesDependency, ScanTask, EnrichmentTask,
       IntelligenceTask, RetriesOrFails, TaskStep, HandsOn, CreatesSuccessor, SendsSuccessor, Acks,
       SendFails, Dies, Redelivers
<1>5. ASSUME (\E j \in Jobs : Cancels(j)) \/ Reconnects \/ UNCHANGED vars
      PROVE  UNCHANGED caller
  BY <1>5 DEF Cancels, Reconnects, vars
<1>6. ASSUME NEW w \in Workers
      PROVE  \/ Still(w)
             \/ Takes(w) \/ Runs(w) \/ LosesDependency(w) \/ TaskStep(w) \/ SendFails(w) \/ Dies(w)
  BY <1>1, <1>2 DEF Next, TaskStep
<1>7. ASSUME NEW c \in Callers
      PROVE  caller'[c] = caller[c] \/ Starts(c) \/ Inserts(c) \/ Enqueues(c) \/ EnqueueFails(c)
  BY <1>3, <1>4, <1>5 DEF Next
<1> QED
  BY <1>6, <1>7, RunsShape DEF Takes, TaskStep

\* Who has created a row is about to send its message.
LEMMA NewRowSent ==
    ASSUME TypeOK, HeldInv, [Next]_vars, NEW j \in Jobs,
           job[j].kind = "none", job'[j].kind # "none"
    PROVE  BeingSent(j)'
<1>0. job \in [Jobs -> JobRow] /\ worker \in [Workers -> Worker] /\ caller \in [Callers -> Caller]
  BY DEF TypeOK
<1>1. ASSUME NEW i \in Jobs, NEW k, Creates(i, k)
      PROVE  i = j
  BY <1>0, <1>1 DEF Creates
<1>2. \A i, st : job' # Marked(i, st)
  <2>1. ASSUME NEW i, NEW st, job' = Marked(i, st)
        PROVE  job'[j].kind = job[j].kind
    <3>1. i = j => job'[j] = [job[j] EXCEPT !.status = st]
      BY <1>0, <2>1 DEF Marked
    <3>2. i # j => job'[j] = job[j]
      BY <1>0, <2>1 DEF Marked
    <3>3. [job[j] EXCEPT !.status = st].kind = job[j].kind
      BY RowFacts
    <3>4. CASE i = j
      BY <3>1, <3>3, <3>4
    <3>5. CASE i # j
      BY <3>2, <3>5
    <3> QED BY <3>4, <3>5
  <2> QED BY <2>1
<1>3. \A i \in Jobs : ~ Cancels(i)
  <2>1. ASSUME NEW i \in Jobs, Cancels(i)
        PROVE  job'[j].kind = job[j].kind
    <3>1. job' = [job EXCEPT ![i] = [job[i] EXCEPT !.cancel = TRUE]]
      BY <1>0, <2>1 DEF Cancels
    <3>2. [job[i] EXCEPT !.cancel = TRUE].kind = job[i].kind
      BY RowFacts
    <3> QED BY <1>0, <3>1, <3>2
  <2> QED BY <2>1
<1>4. job' # job
  OBVIOUS
<1>5. ASSUME NEW c \in Callers, Inserts(c)
      PROVE  BeingSent(j)'
  BY <1>0, <1>1, <1>4, <1>5 DEF Inserts, BeingSent, Caller
<1>6. ASSUME NEW w \in Workers, CreatesSuccessor(w)
      PROVE  BeingSent(j)'
  BY <1>1, <1>4, <1>6, TaskShape DEF BeingSent, Becomes
<1>7. ASSUME NEW w \in Workers, Takes(w) \/ Runs(w) \/ LosesDependency(w)
      PROVE  UNCHANGED job \/ \E i, st : job' = Marked(i, st)
  <2>1. ASSUME Runs(w) PROVE UNCHANGED job \/ \E i, st : job' = Marked(i, st)
    BY <2>1, RunsShape DEF FindsNoCancel, PassEnds, Returns
  <2> QED
    BY <1>7, <2>1 DEF Takes, TakesMessage, MarksRunning, LosesDependency, ScanTask, EnrichmentTask,
       IntelligenceTask, RetriesOrFails
<1>8. ASSUME NEW w \in Workers,
             HandsOn(w) \/ SendsSuccessor(w) \/ Acks(w) \/ SendFails(w) \/ Dies(w) \/ Redelivers(w)
      PROVE  UNCHANGED job
  BY <1>8 DEF HandsOn, SendsSuccessor, Acks, SendFails, Dies, Redelivers
<1>9. ASSUME NEW c \in Callers, Starts(c) \/ Enqueues(c) \/ EnqueueFails(c)
      PROVE  UNCHANGED job
  BY <1>9 DEF Starts, Enqueues, EnqueueFails
<1> QED
  BY <1>2, <1>3, <1>4, <1>5, <1>6, <1>7, <1>8, <1>9 DEF Next, TaskStep, Reconnects, vars

\* An active job that was minded stays so: who lets go of it sends a message, is about
\* to, or has ended it.
LEMMA MindedStep ==
    ASSUME Bounds, TypeOK, HeldInv, KeptInv, [Next]_vars, NEW j \in Jobs, job'[j].status \in Active
    PROVE  Minded(j)'
<1>0. /\ j # NoJob
      /\ \A w \in Workers : HeldBy(w)
      /\ \A c \in Callers : SentBy(c)
      /\ worker \in [Workers -> Worker] /\ caller \in [Callers -> Caller]
  BY DEF HeldInv, TypeOK, Jobs, NoJob, Bounds
<1>1. ASSUME NEW w \in Workers, NEW m \in queue, TakesMessage(w, m), m.job = j
      PROVE  Minded(j)'
  <2>1. worker'[w].pc = "begin" /\ worker'[w].job = j
    BY <1>0, <1>1 DEF TakesMessage
  <2> QED BY <2>1 DEF Minded
<1>2. ASSUME NEW k \in Kinds, Creates(j, k)
      PROVE  Minded(j)'
  <2>1. job[j].kind = "none" /\ job'[j].kind # "none"
    BY <1>2 DEF Creates, TypeOK, Kinds, ConnectorKinds, OrganizationKinds
  <2> QED BY <2>1, NewRowSent DEF Minded, BeingSent
<1>3. CASE Minded(j)
  <2>1. ASSUME NEW m \in queue, m.job = j
        PROVE  Minded(j)'
    <3>1. m \in queue' \/ \E w \in Workers : TakesMessage(w, m)
      BY Stays
    <3> QED BY <1>1, <2>1, <3>1 DEF Minded
  <2>2. ASSUME j \in unsent
        PROVE  Minded(j)'
    BY <2>2, Stays DEF Minded
  <2>3. ASSUME NEW c \in Callers, caller[c].new = j
        PROVE  Minded(j)'
    <3>1. caller[c].pc = "send"
      BY <1>0, <2>3 DEF SentBy
    <3>2. CASE caller'[c] = caller[c]
      BY <2>3, <3>2 DEF Minded, BeingSent
    <3>3. CASE Enqueues(c)
      <4>1. [job |-> j, tries |-> 0] \in queue'
        BY <2>3, <3>3 DEF Enqueues
      <4> QED BY <4>1 DEF Minded
    <3>4. CASE EnqueueFails(c)
      BY <2>3, <3>4 DEF EnqueueFails, Minded
    <3> QED BY <3>1, <3>2, <3>3, <3>4, Disturbs DEF Starts, Inserts
  <2>4. ASSUME NEW w \in Workers, worker[w].new = j
        PROVE  Minded(j)'
    <3>1. worker[w].pc = "send"
      BY <1>0, <2>4 DEF HeldBy
    <3>2. CASE worker'[w] = worker[w]
      BY <2>4, <3>2 DEF Minded, BeingSent
    <3>3. CASE SendsSuccessor(w)
      <4>1. [job |-> j, tries |-> 0] \in queue'
        BY <2>4, <3>3 DEF SendsSuccessor
      <4> QED BY <4>1 DEF Minded
    <3>4. CASE SendFails(w) \/ Dies(w)
      BY <1>0, <2>4, <3>4 DEF SendFails, Dies, Minded
    <3>5. \/ worker'[w] = worker[w] \/ SendsSuccessor(w) \/ SendFails(w) \/ Dies(w)
      BY <3>1, Disturbs DEF TakesMessage, FindsNoCancel, PassEnds, LosesDependency, ScanTask,
         EnrichmentTask, IntelligenceTask, RetriesOrFails, HandsOn, CreatesSuccessor, Acks
    <3> QED BY <3>2, <3>3, <3>4, <3>5
  <2>5. ASSUME NEW w \in Workers, worker[w].job = j, worker[w].pc \in {"begin", "work"}
        PROVE  Minded(j)'
    <3>1. CASE worker'[w] = worker[w]
      BY <2>5, <3>1 DEF Minded
    <3>2. CASE FindsNoCancel(w)
      <4>1. worker'[w].job = j /\ worker'[w].pc = "work"
        BY <2>5, <3>2, TaskShape DEF Becomes
      <4> QED BY <4>1 DEF Minded
    <3>3. ASSUME NEW s \in {"completed", "failed", "cancelled"}, PassEnds(w, s)
          PROVE  FALSE
      <4>1. job' = Marked(j, s)
        BY <2>5, <3>3 DEF PassEnds, Returns
      <4>2. job'[j].status = s
        BY <4>1 DEF Marked, TypeOK
      <4> QED BY <4>2 DEF Active
    <3>4. CASE LosesDependency(w)
      <4>1. RetriesOrFails(w)
        BY <3>4 DEF LosesDependency, ScanTask, EnrichmentTask, IntelligenceTask
      <4>2. CASE worker[w].tries < MaxRetries
        <5>1. [job |-> j, tries |-> worker[w].tries + 1] \in queue'
          BY <2>5, <4>1, <4>2 DEF RetriesOrFails
        <5> QED BY <5>1 DEF Minded
      <4>3. CASE ~ (worker[w].tries < MaxRetries)
        <5>1. job' = Marked(j, "failed")
          BY <2>5, <4>1, <4>3 DEF RetriesOrFails
        <5>2. job'[j].status = "failed"
          BY <5>1 DEF Marked, TypeOK
        <5> QED BY <5>2 DEF Active
      <4> QED BY <4>2, <4>3
    <3>5. CASE Dies(w)
      <4>1. [job |-> j, tries |-> worker[w].tries] \in queue'
        BY <2>5, <3>5 DEF Dies, MessageOf
      <4> QED BY <4>1 DEF Minded
    <3>6. \/ worker'[w] = worker[w] \/ FindsNoCancel(w) \/ LosesDependency(w) \/ Dies(w)
          \/ \E s \in {"completed", "failed", "cancelled"} : PassEnds(w, s)
      BY <2>5, Disturbs DEF TakesMessage, HandsOn, CreatesSuccessor, SendsSuccessor, Acks, SendFails
    <3> QED BY <3>1, <3>2, <3>3, <3>4, <3>5, <3>6
  <2> QED BY <1>3, <2>1, <2>2, <2>3, <2>4, <2>5 DEF Minded, BeingSent
<1> QED
  BY <1>1, <1>2, <1>3, StatusEffect DEF KeptInv

\* A worker that comes to a successor hands on to it, or has it still to come.
LEMMA CoversStep ==
    ASSUME TypeOK, HeldInv, [Next]_vars, NEW j \in Jobs, job'[j].kind = job[j].kind,
           NEW w \in Workers, Covers(w, j), NEW left, NEW pc, NEW new, Becomes(w, pc, left, new),
           \/ left = worker[w].left
           \/ /\ worker[w].left # <<>> /\ left = Tail(worker[w].left)
              /\ handed' = [handed EXCEPT ![j] = @ \cup {Head(worker[w].left)}]
    PROVE  Covers(w, j)'
<1>0. /\ worker[w].left \in Seq(Kinds) /\ handed \in [Jobs -> SUBSET Kinds]
      /\ worker'[w].job = j /\ worker'[w].left = left
  BY WorkerFacts DEF TypeOK, Becomes, Covers
<1>1. \A x : x \in handed[j] => x \in handed'[j]
  BY Stays
<1>2. CASE left = worker[w].left
  BY <1>0, <1>1, <1>2 DEF Covers
<1>3. CASE /\ worker[w].left # <<>> /\ left = Tail(worker[w].left)
           /\ handed' = [handed EXCEPT ![j] = @ \cup {Head(worker[w].left)}]
  <2>1. Head(worker[w].left) \in handed'[j]
    BY <1>0, <1>3
  <2>2. \A i \in DOMAIN worker[w].left : worker[w].left[i] # Head(worker[w].left)
           => \E k \in DOMAIN left : left[k] = worker[w].left[i]
    BY <1>0, <1>3, InTail
  <2>3. ASSUME NEW n \in DOMAIN After(job[j].kind)
        PROVE  \/ After(job[j].kind)[n] \in handed'[j]
               \/ \E i \in DOMAIN left : left[i] = After(job[j].kind)[n]
    BY <1>1, <2>1, <2>2 DEF Covers
  <2> QED BY <1>0, <2>3 DEF Covers
<1> QED
  BY <1>2, <1>3

\* A completed job that was passed on, or has yet to be, stays so.
LEMMA PassedStep ==
    ASSUME Bounds, TypeOK, HeldInv, KeptInv, [Next]_vars, NEW j \in Jobs,
           job'[j].status = "completed"
    PROVE  Passed(j)'
<1>0. /\ Rowed(j) /\ job'[j].kind = job[j].kind
      /\ j # NoJob
      /\ \A w \in Workers : HeldBy(w)
      /\ worker \in [Workers -> Worker]
  BY StatusEffect, RowsStay DEF HeldInv, TypeOK, Jobs, NoJob, Bounds
<1>1. ASSUME NEW w \in Workers, worker[w].job = j, PassEnds(w, "completed")
      PROVE  Passed(j)'
  <2>1. worker[w].left = After(job[j].kind)
    BY <1>0, <1>1 DEF PassEnds, HeldBy, Kind
  <2>2. Covers(w, j)
    BY <1>1, <2>1 DEF Covers
  <2>3. Becomes(w, "chain", worker[w].left, NoJob)
    BY <1>1, TaskShape
  <2>4. Covers(w, j)'
    BY <1>0, <2>2, <2>3, CoversStep
  <2> QED BY <2>4 DEF Passed
<1>2. CASE Passed(j) /\ job[j].status = "completed"
  <2>1. ASSUME NEW m \in queue, m.job = j
        PROVE  Passed(j)'
    <3>1. ASSUME NEW w \in Workers, TakesMessage(w, m)
          PROVE  FALSE
      <4>1. job' = Marked(j, "running")
        BY <2>1, <3>1 DEF TakesMessage, MarksRunning
      <4>2. job'[j].status = "running"
        BY <4>1 DEF Marked, TypeOK
      <4> QED BY <4>2
    <3> QED BY <2>1, <3>1, Stays DEF Passed
  <2>2. CASE j \in unsent
    BY <2>2, Stays DEF Passed
  <2>3. CASE HandedOn(j)
    <3>1. \A x : x \in handed[j] => x \in handed'[j]
      BY Stays
    <3> QED BY <1>0, <2>3, <3>1 DEF HandedOn, Passed
  <2>4. ASSUME NEW w \in Workers, Covers(w, j)
        PROVE  Passed(j)'
    <3>0. worker[w].job = j /\ worker[w].pc # "idle"
      BY <1>0, <2>4 DEF Covers, HeldBy
    <3>1. CASE worker'[w] = worker[w]
      <4>1. \A x : x \in handed[j] => x \in handed'[j]
        BY Stays
      <4> QED BY <1>0, <2>4, <3>1, <4>1 DEF Covers, Passed
    <3>2. CASE FindsNoCancel(w) \/ \E s \in {"completed", "failed", "cancelled"} : PassEnds(w, s)
      BY <1>0, <2>4, <3>2, TaskShape, CoversStep DEF Passed
    <3>3. CASE HandsOn(w)
      <4>1. worker[w].left # <<>>
        BY <3>3 DEF HandsOn
      <4> QED BY <1>0, <1>2, <2>4, <3>0, <3>3, <4>1, TaskShape, CoversStep DEF Passed
    <3>4. CASE CreatesSuccessor(w)
      <4>1. worker[w].left # <<>>
        BY <1>0, <3>4 DEF CreatesSuccessor, HeldBy
      <4> QED BY <1>0, <2>4, <3>0, <3>4, <4>1, TaskShape, CoversStep DEF Passed
    <3>5. CASE SendsSuccessor(w)
      <4>1. worker[w].left # <<>>
        BY <1>0, <3>5 DEF SendsSuccessor, HeldBy
      <4>2. handed' = [handed EXCEPT ![j] = @ \cup {Head(worker[w].left)}]
        BY <3>0, <3>5 DEF SendsSuccessor
      <4> QED BY <1>0, <2>4, <3>5, <4>1, <4>2, TaskShape, CoversStep DEF Passed
    <3>6. CASE SendFails(w)
      BY <3>0, <3>6 DEF SendFails, Passed
    <3>7. CASE Acks(w)
      <4>1. HandedOn(j) /\ UNCHANGED handed
        BY <2>4, <3>7 DEF Acks, Covers, HandedOn, sendVars
      <4> QED BY <1>0, <4>1 DEF HandedOn, Passed
    <3>8. CASE LosesDependency(w)
      <4>1. RetriesOrFails(w)
        BY <3>8 DEF LosesDependency, ScanTask, EnrichmentTask, IntelligenceTask
      <4>2. CASE worker[w].tries < MaxRetries
        <5>1. [job |-> j, tries |-> worker[w].tries + 1] \in queue'
          BY <3>0, <4>1, <4>2 DEF RetriesOrFails
        <5> QED BY <5>1 DEF Passed
      <4>3. CASE ~ (worker[w].tries < MaxRetries)
        <5>1. job' = Marked(j, "failed")
          BY <3>0, <4>1, <4>3 DEF RetriesOrFails
        <5>2. job'[j].status = "failed"
          BY <5>1 DEF Marked, TypeOK
        <5> QED BY <5>2
      <4> QED BY <4>2, <4>3
    <3>9. CASE Dies(w)
      <4>1. [job |-> j, tries |-> worker[w].tries] \in queue'
        BY <3>0, <3>9 DEF Dies, MessageOf
      <4> QED BY <4>1 DEF Passed
    <3>10. ~ \E m \in queue : TakesMessage(w, m)
      BY <3>0 DEF TakesMessage
    <3> QED
      BY <3>1, <3>2, <3>3, <3>4, <3>5, <3>6, <3>7, <3>8, <3>9, <3>10, Disturbs
  <2> QED BY <1>2, <2>1, <2>2, <2>3, <2>4 DEF Passed
<1> QED
  BY <1>1, <1>2, StatusEffect DEF KeptInv

LEMMA KeptStep ==
    ASSUME Bounds
    PROVE  TypeOK /\ HeldInv /\ KeptInv /\ [Next]_vars => KeptInv'
<1> SUFFICES ASSUME TypeOK, HeldInv, KeptInv, [Next]_vars PROVE KeptInv'
  OBVIOUS
<1>1. \A j \in Jobs : job'[j].status \in Active => Minded(j)'
  BY MindedStep
<1>2. \A j \in Jobs : job'[j].status = "completed" => Passed(j)'
  BY PassedStep
<1>3. Jobs' = Jobs /\ Active' = Active
  BY DEF Jobs, Active
<1> QED
  BY <1>1, <1>2, <1>3 DEF KeptInv

LEMMA KeptInit == Init => KeptInv
<1> SUFFICES ASSUME Init PROVE KeptInv
  OBVIOUS
<1>1. \A j \in Jobs : job[j].status = "none"
  BY DEF Init
<1> QED
  BY <1>1 DEF KeptInv, Active

LEMMA KeptImplies == TypeOK /\ KeptInv => JobsKept
<1> SUFFICES ASSUME TypeOK, KeptInv PROVE NoOrphan /\ HandOff
  BY DEF JobsKept
<1>1. \A j \in Jobs : Minded(j) => Held(j) \/ BeingSent(j) \/ j \in unsent
  BY DEF Minded, Held
<1>2. \A j \in Jobs : Passed(j) /\ ~ Held(j) => j \in unsent \/ HandedOn(j)
  BY DEF Passed, Covers, Held
<1>3. NoOrphan
  BY <1>1 DEF KeptInv, NoOrphan
<1>4. HandOff
  BY <1>2 DEF KeptInv, HandOff, HandedOn
<1> QED
  BY <1>3, <1>4

(***************************************************************************)
(* The rows and the messages agree, whatever workers die or are taken for dead, *)
(* whatever sends fail, and however often a message comes again: no active job is *)
(* orphaned, and no completed one left without its successors, but by a send    *)
(* that was lost.                                                            *)
(***************************************************************************)
THEOREM JobsKeptHolds ==
    ASSUME Bounds
    PROVE  Spec => []JobsKept
<1>1. Init => TypeOK /\ HeldInv /\ KeptInv
  BY TypeInit, KeptInit
<1>2. TypeOK /\ HeldInv /\ KeptInv /\ [Next]_vars => (TypeOK /\ HeldInv /\ KeptInv)'
  BY TypeStep, KeptStep
<1>3. TypeOK /\ HeldInv /\ KeptInv => JobsKept
  BY KeptImplies
<1> QED
  BY <1>1, <1>2, <1>3, PTL DEF Spec

\* A worker that reads the flag of a cancelled job does not set to work on it.
LEMMA CancelStep ==
    ASSUME Bounds
    PROVE  TypeOK /\ HeldInv /\ [Next]_vars => CancelIsFinal
<1> SUFFICES ASSUME TypeOK, HeldInv, [Next]_vars, NEW j \in Jobs, Cancelled(j)
             PROVE  /\ job'[j].cancel
                    /\ \A w \in Workers : worker'[w].job = j => worker'[w].pc # "work"
                    /\ job'[j].status = "completed" => job[j].status = "completed"
  BY DEF CancelIsFinal
<1>0. /\ job[j].cancel /\ job[j].kind \in ConnectorKinds /\ job[j].kind # "none"
      /\ \A w \in Workers : worker[w].job = j => worker[w].pc # "work"
      /\ worker \in [Workers -> Worker]
  BY RowFacts DEF Cancelled, TypeOK
<1>1. job'[j].cancel
  BY <1>0, RowsStay DEF Rowed
<1>2. ASSUME NEW w \in Workers, worker'[w].job = j
      PROVE  worker'[w].pc # "work"
  <2>1. CASE worker'[w] = worker[w]
    BY <1>0, <1>2, <2>1
  <2>2. CASE \E m \in queue : TakesMessage(w, m)
    BY <1>0, <2>2 DEF TakesMessage
  <2>3. CASE FindsNoCancel(w)
    <3>1. worker'[w].job = worker[w].job
      BY <2>3, TaskShape DEF Becomes
    <3> QED BY <1>0, <1>2, <2>3, <3>1 DEF FindsNoCancel
  <2>4. CASE \/ \E s \in {"completed", "failed", "cancelled"} : PassEnds(w, s)
             \/ HandsOn(w) \/ CreatesSuccessor(w)
    BY <2>4, TaskShape DEF Becomes
  <2>5. CASE SendsSuccessor(w)
    BY <2>5, TaskShape DEF Becomes
  <2>6. CASE LosesDependency(w) \/ Acks(w) \/ SendFails(w) \/ Dies(w)
    <3>1. worker'[w] = Resting
      BY <1>0, <2>6 DEF LosesDependency, ScanTask, EnrichmentTask, IntelligenceTask,
         RetriesOrFails, Acks, SendFails, Dies
    <3> QED BY <3>1 DEF Resting
  <2> QED BY <2>1, <2>2, <2>3, <2>4, <2>5, <2>6, Disturbs
<1>3. ASSUME job'[j].status = "completed"
      PROVE  job[j].status = "completed"
  <2>1. ASSUME NEW w \in Workers, worker[w].job = j, PassEnds(w, "completed")
        PROVE  FALSE
    BY <1>0, <2>1 DEF PassEnds, Kind
  <2> QED BY <1>3, <2>1, StatusEffect
<1> QED
  BY <1>1, <1>2, <1>3

(***************************************************************************)
(* A cancellation that no pass is past reading is final: no redelivery and no   *)
(* retry brings a worker to work on the job again, or completes it.             *)
(***************************************************************************)
THEOREM CancelIsFinalHolds ==
    ASSUME Bounds
    PROVE  Spec => [][CancelIsFinal]_vars
<1>1. Init => TypeOK /\ HeldInv
  BY TypeInit
<1>2. TypeOK /\ HeldInv /\ [Next]_vars => (TypeOK /\ HeldInv)'
  BY TypeStep
<1>3. TypeOK /\ HeldInv /\ [Next]_vars => CancelIsFinal
  BY CancelStep
<1> QED
  BY <1>1, <1>2, <1>3, PTL DEF Spec
=============================================================================
