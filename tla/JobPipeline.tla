----------------------------- MODULE JobPipeline -----------------------------
(***************************************************************************)
(* The background jobs of one connected account: scan, enrichment, embedding,   *)
(* intelligence, recommendation and storage analysis. A job is a row and the     *)
(* messages that name it; users start and cancel jobs, workers run them, and a   *)
(* completed job hands on to its successors.                                    *)
(*                                                                         *)
(* What a pass does to the files is in DriveMirror and FilePasses: here it looks *)
(* for a cancellation, and completes, fails, or loses what it depends on.        *)
(***************************************************************************)
EXTENDS Integers, Sequences

CONSTANTS
    Workers, Callers,
    Asks,           \* bound: the sets of kinds whose jobs users may start
    MaxJobs,        \* bound on jobs
    MaxRetries,     \* _MAX_RETRIES
    MaxFaults,      \* bound on deaths, redeliveries and messages refused
    MaxReconnects   \* bound on reconnections

VARIABLES
    job,        \* the job rows
    queue,      \* the messages
    worker,     \* each worker process
    caller,     \* each API call that starts a job
    connected,  \* storage_connectors.status = CONNECTED
    asks,       \* the kinds whose jobs this account's users start
    handed,     \* the kinds a job's completion has been handed on to
    unsent,     \* the jobs whose message was never sent, and those that should have
                \* sent it and raised
    faults, reconnects  \* against the bounds

boundVars == <<asks, faults, reconnects>>
sendVars == <<handed, unsent>>
vars == <<job, queue, worker, caller, connected, sendVars, boundVars>>

Jobs == 1 .. MaxJobs
NoJob == 0

ConnectorKinds == {"scan", "enrichment", "embedding", "intelligence"}
OrganizationKinds == {"recommendation", "analysis"}
Kinds == ConnectorKinds \cup OrganizationKinds

\* Jobs of the organization cannot be cancelled: they have no such status.
ScanStatus           == {"pending", "running", "completed", "failed", "cancelled"}
EnrichmentStatus     == {"pending", "running", "completed", "failed", "cancelled"}
EmbeddingStatus      == {"pending", "running", "completed", "failed", "cancelled"}
IntelligenceStatus   == {"pending", "running", "completed", "failed", "cancelled"}
RecommendationStatus == {"pending", "running", "completed", "failed"}
AnalysisStatus       == {"pending", "running", "completed", "failed"}

JobRow ==
         [kind : {"scan"}, status : ScanStatus, cancel : BOOLEAN]
    \cup [kind : {"enrichment"}, status : EnrichmentStatus, cancel : BOOLEAN]
    \cup [kind : {"embedding"}, status : EmbeddingStatus, cancel : BOOLEAN]
    \cup [kind : {"intelligence"}, status : IntelligenceStatus, cancel : BOOLEAN]
    \cup [kind : {"recommendation"}, status : RecommendationStatus, cancel : {FALSE}]
    \cup [kind : {"analysis"}, status : AnalysisStatus, cancel : {FALSE}]
    \cup [kind : {"none"}, status : {"none"}, cancel : {FALSE}]

Message == [job : Jobs, tries : 0 .. MaxRetries]

\* "left": the successors the task has still to come to; "new": the one created.
Worker == [pc : {"idle", "begin", "work", "chain", "create", "send"},
           job : Jobs \cup {NoJob}, tries : 0 .. MaxRetries,
           left : Seq(Kinds), new : Jobs \cup {NoJob}]
Resting == [pc |-> "idle", job |-> NoJob, tries |-> 0, left |-> <<>>, new |-> NoJob]

Caller == [pc : {"idle", "create", "send"}, kind : Kinds \cup {"none"}, new : Jobs \cup {NoJob}]
Waiting == [pc |-> "idle", kind |-> "none", new |-> NoJob]

TypeOK ==
    /\ job \in [Jobs -> JobRow] /\ queue \subseteq Message
    /\ worker \in [Workers -> Worker] /\ caller \in [Callers -> Caller]
    /\ connected \in BOOLEAN /\ handed \in [Jobs -> SUBSET Kinds] /\ unsent \subseteq Jobs
    /\ asks \in Asks /\ faults \in 0 .. MaxFaults /\ reconnects \in 0 .. MaxReconnects

Init ==
    /\ job = [j \in Jobs |-> [kind |-> "none", status |-> "none", cancel |-> FALSE]]
    /\ queue = {} /\ worker = [w \in Workers |-> Resting]
    /\ caller = [c \in Callers |-> Waiting]
    /\ asks \in Asks
    /\ connected = TRUE /\ handed = [j \in Jobs |-> {}] /\ unsent = {}
    /\ faults = 0 /\ reconnects = 0

-----------------------------------------------------------------------------
(* The repositories *)

Active == {"pending", "running"}
HasActiveJob(k) == \E j \in Jobs : job[j].kind = k /\ job[j].status \in Active

\* A new row, in its own transaction.
Creates(j, k) ==
    /\ job[j].kind = "none"
    /\ \A i \in Jobs : i < j => job[i].kind # "none"
    /\ job' = [job EXCEPT ![j] = [kind |-> k, status |-> "pending", cancel |-> FALSE]]

\* The bound: what would create a job beyond the last is passed over.
Full == \A j \in Jobs : job[j].kind # "none"

Marked(j, status) == [job EXCEPT ![j].status = status]

MarksRunning_ClearsCancel(j) == [job EXCEPT ![j].status = "running", ![j].cancel = FALSE]
\* Whatever the status was: a message that comes again runs the job again.
MarksRunning(j) == Marked(j, "running")

-----------------------------------------------------------------------------
(* The API: start and cancel *)

StartsConnectorJob(c, k) ==
    /\ k \in asks
    /\ connected /\ ~ HasActiveJob(k)
    /\ caller' = [caller EXCEPT ![c] = [pc |-> "create", kind |-> k, new |-> NoJob]]

StartsOrganizationJob(c, k) ==
    /\ k \in asks
    /\ ~ HasActiveJob(k)
    /\ caller' = [caller EXCEPT ![c] = [pc |-> "create", kind |-> k, new |-> NoJob]]

StartScan(c)              == StartsConnectorJob(c, "scan")
StartEnrichment(c)        == StartsConnectorJob(c, "enrichment")
StartEmbedding(c)         == StartsConnectorJob(c, "embedding")
StartIntelligence(c)      == StartsConnectorJob(c, "intelligence")
TriggerRecommendations(c) == StartsOrganizationJob(c, "recommendation")
TriggerAnalysis(c)        == StartsOrganizationJob(c, "analysis")

Starts(c) ==
    /\ caller[c].pc = "idle" /\ ~ Full
    /\ \/ StartScan(c) \/ StartEnrichment(c) \/ StartEmbedding(c) \/ StartIntelligence(c)
       \/ TriggerRecommendations(c) \/ TriggerAnalysis(c)
    /\ UNCHANGED <<job, queue, worker, connected, sendVars, boundVars>>

Inserts(c) ==
    /\ caller[c].pc = "create"
    /\ \/ \E j \in Jobs :
              /\ Creates(j, caller[c].kind)
              /\ caller' = [caller EXCEPT ![c].pc = "send", ![c].new = j]
       \/ Full /\ caller' = [caller EXCEPT ![c] = Waiting] /\ UNCHANGED job
    /\ UNCHANGED <<queue, worker, connected, sendVars, boundVars>>

Enqueues(c) ==
    /\ caller[c].pc = "send"
    /\ queue' = queue \cup {[job |-> caller[c].new, tries |-> 0]}
    /\ caller' = [caller EXCEPT ![c] = Waiting]
    /\ UNCHANGED <<job, worker, connected, sendVars, boundVars>>

\* The row is committed, and its message lost.
EnqueueFails(c) ==
    /\ caller[c].pc = "send"
    /\ faults < MaxFaults /\ faults' = faults + 1
    /\ caller' = [caller EXCEPT ![c] = Waiting]
    /\ unsent' = unsent \cup {caller[c].new}
    /\ UNCHANGED <<job, queue, worker, connected, handed, asks, reconnects>>

\* Cancelling sets a flag and nothing else.
Cancels(j) ==
    /\ job[j].kind \in ConnectorKinds /\ job[j].status \in Active
    /\ job' = [job EXCEPT ![j].cancel = TRUE]
    /\ UNCHANGED <<queue, worker, caller, connected, sendVars, boundVars>>

Reconnects ==
    /\ ~ connected
    /\ reconnects < MaxReconnects
    /\ connected' = TRUE /\ reconnects' = reconnects + 1
    /\ UNCHANGED <<job, queue, worker, caller, sendVars, asks, faults>>

-----------------------------------------------------------------------------
(* The passes *)

AfterScan       == <<"enrichment", "analysis">>
AfterEnrichment == <<"embedding", "intelligence">>
AfterEmbedding  == <<"recommendation">>

After(k) == CASE k = "scan" -> AfterScan
              [] k = "enrichment" -> AfterEnrichment
              [] k = "embedding" -> AfterEmbedding
              [] OTHER -> <<>>

Kind(w) == job[worker[w].job].kind

TakesMessage(w, m) ==
    /\ worker[w].pc = "idle" /\ m \in queue
    /\ queue' = queue \ {m}
    /\ job' = MarksRunning(m.job)
    /\ worker' = [worker EXCEPT ![w] = [pc |-> "begin", job |-> m.job, tries |-> m.tries,
                                        left |-> After(job[m.job].kind), new |-> NoJob]]
    /\ UNCHANGED <<caller, connected, sendVars, boundVars>>

\* The service returns, and its task goes on to the successors.
Returns(w, status) ==
    /\ job' = Marked(worker[w].job, status)
    /\ worker' = [worker EXCEPT ![w].pc = "chain"]
    /\ UNCHANGED <<queue, caller, sendVars, boundVars>>

\* The flag is read from the database at the start and before each page or file.
FindsNoCancel(w) ==
    /\ worker[w].pc = "begin" /\ ~ job[worker[w].job].cancel
    /\ worker' = [worker EXCEPT ![w].pc = "work"]
    /\ UNCHANGED <<job, queue, caller, connected, sendVars, boundVars>>

FindsCancel(w) ==
    /\ worker[w].pc \in {"begin", "work"} /\ job[worker[w].job].cancel
    /\ Returns(w, "cancelled") /\ UNCHANGED connected

Completes(w, from) ==
    /\ worker[w].pc = from
    /\ Returns(w, "completed") /\ UNCHANGED connected

\* The job boundary: whatever is raised fails the job.
Fails(w) ==
    /\ worker[w].pc \in {"begin", "work"}
    /\ Returns(w, "failed") /\ UNCHANGED connected

RetriesOrFails_Forever(w) ==
    /\ worker[w].pc \in {"begin", "work"}
    /\ queue' = queue \cup {[job |-> worker[w].job, tries |-> worker[w].tries]}
    /\ worker' = [worker EXCEPT ![w] = Resting]
    /\ UNCHANGED <<job, caller, connected, sendVars, boundVars>>

\* What the pass depends on is unavailable: it is left running and the message is
\* sent again, until the last try fails it.
RetriesOrFails(w) ==
    /\ worker[w].pc \in {"begin", "work"}
    /\ IF worker[w].tries < MaxRetries
       THEN /\ queue' = queue \cup {[job |-> worker[w].job, tries |-> worker[w].tries + 1]}
            /\ UNCHANGED job
       ELSE /\ job' = Marked(worker[w].job, "failed")
            /\ UNCHANGED queue
    /\ worker' = [worker EXCEPT ![w] = Resting]
    /\ UNCHANGED <<caller, connected, sendVars, boundVars>>

\* Google has revoked the grant: no retry, and the connector is to be reconnected.
NeedsReauth(w) ==
    /\ worker[w].pc \in {"begin", "work"}
    /\ Returns(w, "failed") /\ connected' = FALSE

\* No completion provider is configured.
NoProvider(w) ==
    /\ worker[w].pc = "begin"
    /\ Returns(w, "failed") /\ UNCHANGED connected

ScanRun(w) ==
    /\ Kind(w) = "scan"
    /\ FindsNoCancel(w) \/ FindsCancel(w) \/ Completes(w, "work") \/ Fails(w) \/ NeedsReauth(w)

EnrichmentRun(w) ==
    /\ Kind(w) = "enrichment"
    /\ FindsNoCancel(w) \/ FindsCancel(w) \/ Completes(w, "work") \/ Fails(w)

EmbeddingRun(w) ==
    /\ Kind(w) = "embedding"
    /\ FindsNoCancel(w) \/ FindsCancel(w) \/ Completes(w, "work") \/ Fails(w)

IntelligenceRun(w) ==
    /\ Kind(w) = "intelligence"
    /\ \/ FindsNoCancel(w) \/ FindsCancel(w) \/ Completes(w, "work") \/ Fails(w)
       \/ NoProvider(w)

RecommendationRun(w) ==
    /\ Kind(w) = "recommendation"
    /\ Completes(w, "begin") \/ Fails(w)

AnalysisRun(w) ==
    /\ Kind(w) = "analysis"
    /\ Completes(w, "begin") \/ Fails(w)

Runs(w) ==
    /\ worker[w].job # NoJob
    /\ \/ ScanRun(w) \/ EnrichmentRun(w) \/ EmbeddingRun(w)
       \/ IntelligenceRun(w) \/ RecommendationRun(w) \/ AnalysisRun(w)

ScanTask(w)         == Kind(w) = "scan" /\ RetriesOrFails(w)
EnrichmentTask(w)   == Kind(w) = "enrichment" /\ RetriesOrFails(w)
IntelligenceTask(w) == Kind(w) = "intelligence" /\ RetriesOrFails(w)

LosesDependency(w) ==
    /\ worker[w].job # NoJob
    /\ ScanTask(w) \/ EnrichmentTask(w) \/ IntelligenceTask(w)

-----------------------------------------------------------------------------
(* The successors *)

\* A successor is passed over unless this job is, by now, completed; and handed
\* on to the one that is active, if there is one.
HandsOn(w) ==
    /\ worker[w].pc = "chain" /\ worker[w].left # <<>>
    /\ IF job[worker[w].job].status = "completed" /\ ~ HasActiveJob(Head(worker[w].left))
       THEN worker' = [worker EXCEPT ![w].pc = "create"] /\ UNCHANGED handed
       ELSE /\ worker' = [worker EXCEPT ![w].left = Tail(@)]
            /\ handed' = IF job[worker[w].job].status = "completed"
                         THEN [handed EXCEPT ![worker[w].job] = @ \cup {Head(worker[w].left)}]
                         ELSE handed
    /\ UNCHANGED <<job, queue, caller, connected, unsent, boundVars>>

CreatesSuccessor(w) ==
    /\ worker[w].pc = "create"
    /\ \/ \E j \in Jobs :
              /\ Creates(j, Head(worker[w].left))
              /\ worker' = [worker EXCEPT ![w].pc = "send", ![w].new = j]
              /\ UNCHANGED handed
       \/ /\ Full
          /\ handed' = [handed EXCEPT ![worker[w].job] = @ \cup {Head(worker[w].left)}]
          /\ worker' = [worker EXCEPT ![w].pc = "chain", ![w].left = Tail(@)]
          /\ UNCHANGED job
    /\ UNCHANGED <<queue, caller, connected, unsent, boundVars>>

SendsSuccessor(w) ==
    /\ worker[w].pc = "send"
    /\ queue' = queue \cup {[job |-> worker[w].new, tries |-> 0]}
    /\ handed' = [handed EXCEPT ![worker[w].job] = @ \cup {Head(worker[w].left)}]
    /\ worker' = [worker EXCEPT ![w].pc = "chain", ![w].left = Tail(@), ![w].new = NoJob]
    /\ UNCHANGED <<job, caller, connected, unsent, boundVars>>

\* The broker refuses: the task raises, is acknowledged, and looks at no more
\* successors.
SendFails(w) ==
    /\ worker[w].pc = "send"
    /\ faults < MaxFaults /\ faults' = faults + 1
    /\ worker' = [worker EXCEPT ![w] = Resting]
    /\ unsent' = unsent \cup {worker[w].job, worker[w].new}
    /\ UNCHANGED <<job, queue, caller, connected, handed, asks, reconnects>>

Acks(w) ==
    /\ worker[w].pc = "chain" /\ worker[w].left = <<>>
    /\ worker' = [worker EXCEPT ![w] = Resting]
    /\ UNCHANGED <<job, queue, caller, connected, sendVars, boundVars>>

-----------------------------------------------------------------------------
(* Faults *)

MessageOf(w) == [job |-> worker[w].job, tries |-> worker[w].tries]

Dies_Acked(w) ==
    /\ worker[w].pc # "idle"
    /\ faults < MaxFaults /\ faults' = faults + 1
    /\ worker' = [worker EXCEPT ![w] = Resting]
    /\ unsent' = unsent \cup ({worker[w].new} \ {NoJob})
    /\ UNCHANGED <<job, queue, caller, connected, handed, asks, reconnects>>

\* A task is acknowledged when it ends: its message outlives its worker, and the
\* message of a successor that it has created and not announced is never sent.
Dies(w) ==
    /\ worker[w].pc # "idle"
    /\ faults < MaxFaults /\ faults' = faults + 1
    /\ queue' = queue \cup {MessageOf(w)}
    /\ worker' = [worker EXCEPT ![w] = Resting]
    /\ unsent' = unsent \cup ({worker[w].new} \ {NoJob})
    /\ UNCHANGED <<job, caller, connected, handed, asks, reconnects>>

\* The broker takes a slow worker for dead.
Redelivers(w) ==
    /\ worker[w].pc # "idle"
    /\ faults < MaxFaults /\ faults' = faults + 1
    /\ queue' = queue \cup {MessageOf(w)}
    /\ UNCHANGED <<job, worker, caller, connected, sendVars, asks, reconnects>>

-----------------------------------------------------------------------------

Takes(w) == \E m \in queue : TakesMessage(w, m)
TaskStep(w) == HandsOn(w) \/ CreatesSuccessor(w) \/ SendsSuccessor(w) \/ Acks(w)

Next ==
    \/ \E c \in Callers : Starts(c) \/ Inserts(c) \/ Enqueues(c) \/ EnqueueFails(c)
    \/ \E j \in Jobs : Cancels(j)
    \/ Reconnects
    \/ \E w \in Workers : \/ Takes(w) \/ Runs(w) \/ LosesDependency(w) \/ TaskStep(w)
                          \/ SendFails(w) \/ Dies(w) \/ Redelivers(w)

Spec == Init /\ [][Next]_vars

\* Workers consume and go on; an API call that has begun goes on.
Fairness ==
    /\ \A c \in Callers : WF_vars(Inserts(c)) /\ WF_vars(Enqueues(c))
    /\ \A j \in Jobs, n \in 0 .. MaxRetries :
           WF_vars(\E w \in Workers : TakesMessage(w, [job |-> j, tries |-> n]))
    /\ \A w \in Workers : WF_vars(Runs(w)) /\ WF_vars(TaskStep(w))

FairSpec == Spec /\ Fairness

-----------------------------------------------------------------------------
(* Properties *)

Held(j) == \/ \E m \in queue : m.job = j
           \/ \E w \in Workers : worker[w].job = j

BeingSent(j) == \/ \E w \in Workers : worker[w].new = j
                \/ \E c \in Callers : caller[c].new = j

\* A job that is pending or running, and so keeps all others of its kind from being
\* started, is somebody's business: a message names it, a worker is on it, or
\* whoever created it is about to send it. The one way to orphan a job is to lose
\* its message between its commit and its send.
NoOrphan ==
    \A j \in Jobs : job[j].status \in Active => Held(j) \/ BeingSent(j) \/ j \in unsent

\* A completed job that nobody holds any more has been handed on to each of its
\* successors, deaths and redeliveries notwithstanding, unless a send raised.
HandOff ==
    \A j \in Jobs : job[j].status = "completed" /\ ~ Held(j) =>
        j \in unsent \/ \A n \in DOMAIN After(job[j].kind) : After(job[j].kind)[n] \in handed[j]

\* The rows and the messages agree: every active job is held, and every completed
\* one is handed on.
JobsKept == TypeOK /\ NoOrphan /\ HandOff

Cancelled(j) == job[j].cancel /\ \A w \in Workers : worker[w].job = j => worker[w].pc # "work"

\* A cancellation that no pass is past reading is final: though the job's message
\* come again and set it running, nobody sets to work on it or completes it.
CancelIsFinal ==
    \A j \in Jobs : Cancelled(j) =>
        /\ job'[j].cancel
        /\ \A w \in Workers : worker'[w].job = j => worker'[w].pc # "work"
        /\ job'[j].status = "completed" => job[j].status = "completed"

\* Every job whose message is sent ends.
JobsEnd ==
    \A j \in Jobs :
        [](job[j].status = "pending" => <>(job[j].status \notin Active \/ j \in unsent))

\* What the runbook tells an operator to do with a job that is stuck: cancel it, then
\* start afresh.
CancelFrees ==
    \A j \in Jobs : (job[j].status \in Active /\ job[j].cancel) ~> job[j].status \notin Active
=============================================================================
