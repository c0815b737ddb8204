# AI Vault: TLA+ specifications and proofs

AI Vault indexes the files an organization keeps in Google Drive, recommends
changes to them, and, once a person or a policy has approved, makes those changes
and can undo them. This directory models what changes other people's files and
the way there: **plans and approvals, the execution of an approved plan, the workflows
that do both without a person at the keyboard**; and, around these, what starts
them, what feeds them and what keeps the books: triggers, background jobs, the mirror of
Drive, archives, duplicates, versions, sessions, the connector, conversations, and the
database schema. TLC checks the models on small instances; TLAPS proves the most
important properties for all instances.

Paths below are relative to the repository's root. `WES` is
`apps/worker/worker/workflow/execution_service.py`, `ES`
`apps/worker/worker/execution/execution_service.py`, `AS`
`packages/shared/vault_shared/execution/approval_service.py`.

## 1. The system

The backend (FastAPI) writes rows to PostgreSQL and enqueues messages in Redis;
Celery workers take the messages and do the work; Google Drive holds the files.
Everything below meets in the database. Sessions are READ COMMITTED, take no
row locks on what they read and use no version column (`db/session.py`), so a
status that was checked may have changed by the time the row is written.
Messages are acknowledged late and rejected when the worker is lost
(`celery_app.py:42-45`): a task whose worker dies runs again from the start, and a
message may be delivered while another worker runs the same job.

| Component | State it keeps | Operations | Talks to | What makes it correct |
|---|---|---|---|---|
| **Execution Engine** (`ES`, `tasks/execution.py`) | `execution_jobs`, `execution_steps`, `execution_results`, `rollback_records`, plan status; the Drive files | `run`: forward, rollback; storage refresh | Drive, tokens, broker | a change is recorded before it is made and made once; what was changed can be changed back; a job ends; verdicts agree with steps |
| **Execution job API** (`execution_job_service.py`) | flags and status of a job | cancel, pause, resume, trigger_rollback | broker | an ended job stays ended; no rollback under a running job |
| **Approval System** (`AS`) | `approval_requests`, `approval_decisions` | decide, bulk_decide, decide as creator, decide via policy, lazy expiry | engine and workflow, by enqueues after the commit | one verdict per request, work for the approved alone |
| **Execution plans** (`plan_service.py`) | `execution_plans`, steps | create_plan and its variants | recommendations | one plan in flight per recommendation |
| **Workflow engine** (`WES`, `workflow_execution_service.py`) | `workflow_executions`, `workflow_node_executions` | run, trigger, cancel, pause, resume | plans and approvals in its own process; broker | resumes where it left off; nothing behind an approval without one; no run is stuck |
| **Scheduler and events** (`scheduler_service.py`, `workflow_events.py`) | `scheduler_jobs`, triggers | claim due rows (one uncommitted `UPDATE … RETURNING`), fire, reschedule; fire by hand or on an event | workflow engine, broker | an occurrence fires once; a trigger comes due again |
| **Background job pipeline** (`worker/tasks/*.py`) | six `*_jobs` tables | start, cancel, run, retry, hand on to the next kind | broker, Drive, model providers | an active job is somebody's business; a completed one is handed on; a cancelled one stays so |
| **Scanner** (`scan_service.py`) | folders, files, the source's change token | full and incremental scan, removal, placeholder parents | Drive | no change is missed; a saved token is not ahead of the rows |
| **Enrichment, intelligence, embedding** | extraction, embedding, analysis of a file, with timestamps | take what is pending, derive, stamp | Drive, model providers | what is not derived from the newest input is pending |
| **Archive builder and permanent deletion** (`ES`, `archive_service.py`) | `archive_jobs`, one stored object for many steps, Drive's files | batch of CREATE_ARCHIVE steps, rollback, delete, PERMANENT_DELETE | object storage, Drive | the object holds what row and steps say; what is deleted for good was backed up |
| **Recommendations, storage analysis** (duplicates) | recommendation, duplicate groups and members | derive, plan from either, trash | plans, engine | a copy of everything trashed stays |
| **Workflow definitions and templates, policies** | versions, nodes | draft, edit, publish, roll back, archive | workflow engine | one published version, whose nodes never change |
| **Connectors and tokens** (`connector_service.py` twice) | connector row, encrypted credentials | connect, verify, disconnect, refresh | Google OAuth | connected means with credentials, disconnected without |
| **Authentication** (`auth_service.py`, `api-client.ts`) | refresh tokens, a cookie and an access token per browser | sign in, rotate, detect reuse, sign out | frontend | one good token per sign-in; nobody is signed out for nothing |
| **Assistant** (`conversation_service.py`) | conversations, messages, a counter in Redis | ask, answer with tools or a search, limit tools | model providers | no answer before its question; a limit that ends |
| **Schema and migrations** (`db/models`, `alembic/versions`) | tables, references, keys, checks | upgrade, downgrade, delete with its cascades | everything | revisions build what the models say; a deletion is neither refused nor goes too far |
| Notifications, search ranking, dashboard, AI gateway, frontend, deployment | a row per message; queries | | | not modelled, see section 6 |

**How the core interacts.** `create_plan` inserts a plan with its request.
`decide` commits verdict, plan status and, for an approval, a job; *after* the
commit it enqueues the job and, if the request is linked to a workflow node, the
workflow run. A worker runs the job step by step and commits after each. A workflow
run is another job: it walks a graph of nodes, calls `create_plan` and the approval
system itself, parks at a node that waits, and is woken by a message. A sweep of the
Scheduler, an event or a person starts it. What is recommended comes from a chain of
background jobs, each of which creates and sends the next: scan, enrichment, embedding
and intelligence, recommendation. All of them need the connector's access token.

**What is hard here.** Reads that are acted on after others have written;
enqueues that come after a commit and may be lost; redelivery, with a worker still
at it or not; Drive calls that raise after they took effect; sessions with flushed
rows that a later commit carries along or a rollback drops; flags polled between
steps; expiry that is noticed only when somebody reads; timestamps stamped at one moment and
compared at another; tokens that are rotated or refreshed by two at once. `PROJECT.json` lists
each such hazard with its line and the properties that cover it, or why none does.

## 2. Modules

| Module | Models | Composes / uses |
|---|---|---|
| `ExecutionEngine` | Execution Engine, execution job API, broker, Drive | implements `WriteAheadRecord` |
| `WriteAheadRecord` | abstract: record, change, undo | |
| `PlanApproval` | plans, requests, decisions, jobs created and sent | implements `Verdicts` |
| `Verdicts` | abstract: one verdict, work for the approved | |
| `WorkflowEngine` | the walk of one workflow execution, its API, decisions, delays | |
| `Scheduler` | the Trigger Engine: rows, sweeps, calls, executions | `CanStart` is what starts `WorkflowEngine` |
| `JobPipeline` | the background jobs of one account | its scan and passes are `DriveMirror`, `FilePasses` |
| `DriveMirror` | one storage source: Drive, its change log, rows, scans | |
| `FilePasses` | enrichment, embedding, intelligence of the mirrored files | |
| `Archives` | archive batches and the permanent deletions they license | |
| `Duplicates` | recommendation and groups of duplicates, and their plans | |
| `WorkflowVersions`, `PolicyVersions` | the versions of one workflow, of one policy | |
| `SignIn` | refresh tokens, browsers, requests in flight | |
| `Connectors` | one connector, its credentials, Google's grants | |
| `Conversations` | the turns of one conversation, the limit on tools | |
| `Models` | the tables, references and keys of the ORM: data | |
| `Migrations`, `RowCascades` | Alembic's revisions; what goes with a deleted row | `Models` |
| `MCExecutionEngine`, `MCPlanApproval`, `MCWorkflowEngine`, `MCScheduler` | instances for TLC: symmetry, graphs, small sets | the module named |
| `MCPlatform` | one run over all the parts that are not the first three | all of them, by INSTANCE |
| `ExecutionEngineProofs`, `PlanApprovalProofs`, `WorkflowEngineProofs`, `SchedulerProofs`, `JobPipelineProofs`, `FilePassesProofs`, `ArchivesProofs` | theorems and their proofs | the module named, `TLAPS` |
| `PlatformProofs` | theorems about the other parts of `MCPlatform`, and about `PlatformSpec` as a whole | `MCPlatform`, `TLAPS`; instances of the last four of these |

### ExecutionEngine

One approved plan with `NumSteps` steps, its forward and rollback jobs, and what
touches them. `jobStatus`, `planStatus`, `stepStatus`, `record`/`preState` and
`results` are the tables; `drive` is the part of each file that the step
changes ("original", "planned", or "drifted" when a user gave it a third value);
`writes` counts the engine's changes in Drive and exists for the properties only.
`queue[j]` counts the messages of a job.

A step of the module ends where the code commits or calls Drive, since nothing else
becomes visible to others. `run()` is cut there into `RunStarts`/`RunDenied`
(`ES:112-156`), `LoopStarts`/`TokenFails`, the flag checks, `ReadsFile`,
`SavesRecord` (its commit), `Writes` (the Drive call, which may raise *after* it
took effect: `broken`), `StepCompletes`/`StepFails`, the verdict, and likewise for
the rollback. Two changes by different sessions to one row are not serialised:
`resume` and `trigger_rollback` are a read and a later write. The flag
`pause_requested` is written back as SQLAlchemy does it: a session that loaded it
unset sends no update, so it can stay set on a paused job.

`Cancel`, `Pause`, `ConnectorChanges`, `Drifts` (a user changes a file outside),
`Crashes` (the worker's message goes back to the broker) may come at any time, up to
their bounds.

Left out: the texts of audits and errors, verification of a moved file beyond its
result. CREATE_ARCHIVE (a batch with one storage object) and PERMANENT_DELETE (no way
back by design) are in `Archives`.

### PlanApproval

A set of `Plans` that may be created for one recommendation, the requests, and
sessions that create, decide or bulk-decide. A `session` record holds what a Python
frame and its database session hold: the ids still to decide, and the rows it has
*flushed but not committed* as expired (`expiring`). `decide` on a request is
`ReadsPending` or `ReadsOverdue`, then `CommitsDecision` in one transaction
(`AS:105-166`), then `SendsJob` and `ResumesWorkflow` (`AS:169-171`). A flushed row
is locked until commit or rollback: another session that wants it `Waits`, and the
database breaks a circle (`LosesDeadlock`). A bulk decision goes on after a
`VaultError` of one item (`SkipsItem`) and takes the flushed rows of earlier items
into its next commit. `DecidesAtOnce` stands for both automatic decisions, which
call the same code with the request just created.

Left out: what a plan's steps say. Plans for duplicate groups are in `Duplicates`; ad
hoc archive plans and permanent deletions, whose checks differ, in `Archives`.

### WorkflowEngine

One `WorkflowExecution` over any graph (`Nodes`, `Kind`, `Edge`). `row[n][v]` is the
*committed* row of `workflow_node_executions` that worker `v` inserted for node `n`; a
worker's `run[w].rows` are those it has flushed and not committed, and a crash or an
exception drops them. `Looks` is `get_for_execution_and_node` (it finds the worker's own
flushed row, or the committed one created last, or inserts), and what the handler does
about it is a later step: two workers may look before either has committed, and insert a
row each. `last[n]` is the one later looks find: `created_at` is the start of a
transaction, so that may be the one committed first.
`Stores` is a commit of the session, whichever handler makes it. Node kinds are
merged by what the walk can tell apart: "step" completes at once (TRIGGER,
AI_EVALUATION, NOTIFICATION, END), "branch" has outcomes `true`/`false`
(CONDITION, DECISION), "approval", "action" and "delay" are as in the code.
Conditions and AI results are a nondeterministic outcome. An EXECUTE_ACTION node is
`SkipsAction`, or `CreatesPlan` (a commit inside `create_plan`) followed by
`AutoDecides` or `LinksRequest`; waiting is two commits, the handler's own and
`Parks` (`WES:153-159`). `approved` and `requested` are history for the properties.

Left out: a version, trigger node or current node that is missing (only a graph that
was edited while it was published lacks one, see section 4), what notifications
contain. Firing by schedule, by hand or on an event is in `Scheduler`.

### Scheduler

`nextRun[t]` is the committed `next_run_at` of a trigger: not there, NULL, ahead or
passed. A sweep claims with one `UPDATE … RETURNING` that it does not commit
(`scheduler_job_repository.py:46`): the rows stay locked, and due for everybody else,
until its next commit, which is the first fired execution or the first rescheduling.
`sweep[s].holds` are these locks. A rollback (`FireRaises`, `scheduler_service.py:52`)
gives back every claim not committed yet, although they are still on the sweep's list.
`CallerLooks`, `CallerStarts`, `CallerSends` are `trigger_manual` and
`fire_workflow_event`: the look at `has_active_execution`, the commit and the message
are apart. `SweepCrashes` may come anywhere.

Left out: cron arithmetic (when an occurrence comes is a choice), the filters of events.

### JobPipeline

A job is a row and the messages that name it. API calls (`StartsConnectorJob`,
`StartsOrganizationJob`, then `Inserts`, `Enqueues` or `EnqueueFails`) and completed
jobs (`HandsOn`, `CreatesSuccessor`, `SendsSuccessor`) create them; each commit and each
send is a step of its own. `Runs` is the service of each of the six kinds as the task
sees it: it finds a cancellation, completes, fails, or loses what it depends on;
`RetriesOrFails` is Celery's retry (5 times, scan, enrichment and intelligence only).
`Dies` returns the message, `Redelivers` delivers it beside a living worker. `handed`
and `unsent` exist for the properties.

Left out: what a run does to the files, in the next two modules; progress and events.

### DriveMirror

Drive holds a tree of `Folders` and `Files` and a log of changes; a change token is a
position in the log. `row` is what the scan's transaction sees, `base` what is
committed. A page holds one item, and `MayCommit` after each item stands for the commit
every 200. A full scan lists (`ListsItem`), resolves parents in a second pass
(`ResolvesFolders`, `ResolvesFiles`) and asks for its token at the end, as
`scan_service.py:223` does; an incremental one goes through the log (`TakesChange`).
`CutShort` is a lost Drive, a failure or a death; a change that a later one supersedes may
be missing from the pages. `Nested` says whether folders lie in folders, `Whole` whether
a folder goes, and comes back, with what lies in it as one change that names the folder
alone; if not, what lies in it has gone before, each by a change of its own. What Drive
logs is Drive's, so both are left open.

A longer page is the writes of its items with no check between them, what was deleted for
good after the rest (`scan_service.py:245-263`). Where folders lie in no folder that ends in
the rows the order of the log ends in: an item that changed is saved with no parent folder
until the hierarchy is resolved, so the cascade of a later deletion does not reach it. In
the order of the log the cascade can come first, and then takes also the steps of that item
and, if it is a folder, the rows in it: the model keeps no row or step that the code loses.

Left out: several sources (each has its own token), an item in two folders, names.

### FilePasses

The versions of a file's content stand for its content. What a pass takes is a query
over timestamps (`file_repository.py:308` and following): `PendingEnrichment`,
`PendingEmbedding`, `PendingIntelligence` are these queries, and `ExtractionUpsert`,
`EmbeddingUpsert`, `IntelligenceUpsert` stamp at the moment the code stamps. Two
successive versions may have one text, since a pass skips an unchanged text.
`Upgrades` changes the model configured.

Left out: classification, knowledge attributes and relationships, all written with the
extraction; retries, in `JobPipeline`.

### Archives

All CREATE_ARCHIVE steps of a plan are one batch (`ES:464`): the files are fetched, one
object is stored, and row and steps are committed after it, each of which may fail or
die. `OrdersRollback` deletes the object, and so does a user (`DeletesObject`,
`MarksDeleted`), with the commit behind. A file in Trash with a completed archive may
be deleted for good; the check is made when the plan is made (`plan_service.py:252`).
`dropped` exists for the properties.

Left out: the zip format and downloads.

### Duplicates

Two derivations look for files of one content: the rule `duplicate_files` goes by the
key that enrichment writes beside the metadata, storage analysis by checksums. Each reads
in one step and stores in another (`reading`); a plan copies what was stored, and
`Trashes` one file at a time. `sound` marks a plan whose source was true when read and in
whose way nobody has come since: `SpareOne` speaks of those.

Left out: the other rules and savings, which are computed from the same rows and only
displayed; how a plan is decided and a step carried out, in the first two modules.

### WorkflowVersions and PolicyVersions

One workflow, or one policy key, and API sessions that read and later write in one
commit. `seen` is the statuses a session has loaded: SQLAlchemy sends a column only if it
differs from the value loaded, so a publication that found a version published may leave
it alone. Both have a history and no unique constraint on its numbers.

Left out: names, descriptions; the shape a submitted graph must have, which is the
assumption of `WorkflowEngine`; the matching of a policy's conditions.

### SignIn

Refresh tokens, with the sign-in each goes back to; per browser the cookie, the access
token in memory and what the page knows of its user; per request in flight its stage.
`FindsValid` reads a token and `Rotates` commits its successor (`auth_service.py:102-118`):
nothing stops a second request in between. `DetectsReuse` revokes all tokens of the user. An answer may be lost (`Loses`), also after it took effect. Each
request refreshes for itself, as in `api-client.ts:61`.

Left out: the user and organization made at a first sign-in, roles, settings of an
organization; a page load that aborts requests in flight.

### Connectors

`cred` is the row of credentials with an identity, since it is updated and deleted by id.
Calls connect (`Initiates`, `Exchanges`, `LoadsConnector`, `Stores`), verify (`Asks`,
`Uses`, `Marks`) and disconnect (`Disconnects`, `Revokes`, `Drops`); jobs share the token
service (`ReadsCred`, `Refreshes`, `Saves`). Consents may be withdrawn at Google.

Left out: `google_drive.py`, which keeps no state: its calls are in the modules that
use it.

### Conversations

A message carries the time at which the transaction that inserted it *began*. A turn that
does not search is one transaction; one that does is two, because the search commits
(`search_service.py:80`), and the question with it. `counter` is the fixed window in Redis
(`rate_limit_counter.py`): `INCR` and `EXPIRE` are two calls.

Left out: what is found and answered, the cache of tool results, citations.

### Models, Migrations and RowCascades

`Models` lists each table with its references (and what a deletion does along them) and
its keys, as the ORM declares them. `Migrations` has the operations of all nineteen
revisions, up and down, applied one by one in a run that is one transaction; between
runs the application stores rows of the kinds that a revision may refuse.
`RowCascades` deletes a row of each of the tables whose rows the code deletes.

Left out: column types, defaults, indexes, seeded rows.

### MCPlatform

TLC checks the modules from `Scheduler` on in one run. A behaviour is about one part: `part`
never changes, and the variables of the other parts are 0. The two whose liveness is
checked, `Scheduler` and `JobPipeline`, keep their types throughout, since a temporal
formula is evaluated in every state. `Scheduler` and `WorkflowVersions` are taken in two
instances each, `JobPipeline` too. Users, files, sweeps and the like are constants of the
`.cfg`, so that the theorems about `PlatformSpec` hold for any number of them.

## 3. Runs

`PROJECT.json` names every run with its properties and, for each property, a
plausible bug (a mutant of one definition) that breaks it under that run.

| Run | Instance | Shows |
|---|---|---|
| `engine_faults` | 2 workers, 1 request, 2 forward jobs + 1 rollback job, 1 step, 1 crash, failing tokens and enqueues (1.2 M states) | `WayBack`, `AtMostOneWrite`, `WriteDiscipline`, and `WritesAhead`: the engine implements `WriteAheadRecord` |
| `engine_orderly` | 2 workers, 1 request, 1 forward + 1 rollback job, 2 steps (one trashes, one renames), 1 pause, 1 change by a user (1.9 M states) | `TerminalIsFinal`, `DecidedIsFinal`, `OneForwardResult`, `CompletedMeansDecided`, `RolledBackIsRestored`, `PlanVerdictTrue` |
| `engine_live` | 2 workers, 1 step, 1 crash, 1 pause, failing refresh, fair (0.3 M states) | `JobsSettle`, `NoJobLost`, `TypeOK` |
| `engine_own_writes` | as orderly, 1 step | **violated** `RestoresOnlyOwnWrites` |
| `approval_serial` | 1 session, 2 plans, all decisions, deaths (2,311 states) | `TypeOK`, `ActsOnWhatItRead`, `VerdictsAgree`, `OnePlanInFlight`, and `DecidesOnce`: `Verdicts` is implemented |
| `approval_concurrent` | 2 sessions, 2 plans, one of a workflow node, deaths, fair (166 k states) | `JobsMatchApprovals`, `SessionsEnd` |
| `approval_twice` | 2 sessions | **violated** `OneDecision` |
| `approval_resume` | 2 sessions, a node's plan, fair | **violated** `DecidedResumes` |
| `workflow_line` | trigger → delay → approval → action → end, 1 worker, 1 crash, 1 pause, 1 resumption, fair (89 k states) | `TypeOK`, `ApprovalGate`, `OneRequestPerNode`, `RunsSettle`, `DecidedMovesOn` |
| `workflow_fork` | trigger → condition → approval or end, 1 crash | **violated** `FollowsRecord` |
| `platform` | each part below (701 k states) | fifteen properties, below |
| `signin_parallel` | 1 browser, 2 requests in flight | **violated** `StaysSignedIn` |

The parts of `platform`, the states each has before the fairness monitors, and the
properties that speak of it:

| Part | Instance | Property | Says |
|---|---|---|---|
| `alone`, `together` (29 k) | 1 session, 3 versions; 2 sessions, 2 versions | `VersionsInOrder`, `HistoryKept` | one published version and one draft, each of one submission; published versions keep their nodes, and one stays published; with two sessions, what is published has nodes |
| `policy` (1 k) | 1 session, 3 versions | the same | the version in force is the last one published, and the one a workflow applies |
| `sweeps` (36 k) | 2 sweeps, 2 triggers of 2 workflows, toggles, 1 crash, failing sends off | `OccurrencesInOrder` | an occurrence fires at most once; one run per workflow |
| `turns` (34 k) | 2 sweeps, 1 caller, 2 triggers of one workflow, calls that raise | `TriggersRecur` | a trigger that has come due is scheduled again |
| `chain` (43 k) | 1 worker, a scan and what follows it, 2 jobs | `JobsInOrder`, `CancelledStays`, `JobsAllEnd` | an active job has a message, a worker or a sender; a completed one is handed on; a cancelled one is not completed; what was sent ends |
| `jobs` (135 k) | 2 workers, each later kind, 2 jobs, 1 retry, 1 fault | the same | |
| `mirror` (125 k) | 1 folder, 1 file, 4 changes, 3 scans, 1 cut short | `MirrorInOrder`, `FilesKept` | the token is never ahead of the rows; a scan that saves one has caught up and left no placeholder |
| `passes` (88 k) | 1 file, 2 edits, 4 passes, 1 change of the models | `DerivedOrPending` | what is not derived from the newest input is pending, wherever passes were cut short |
| `archives` (92 k) | 2 files, 1 archive, 1 death | `ArchivesInOrder`, `FilesKept` | the object is what row and steps say; what was deleted for good is gone, and was backed up then |
| `copies` (30 k) | 2 files, 2 contents, 1 act of a user, 2 runs | `FilesKept` | what is trashed leaves a copy |
| `signin` (65 k) | 2 browsers, 3 tokens, 1 loss | `AccountInOrder`, `KeepsSession` | one good token per sign-in; nobody is signed out without cause |
| `connector` (23 k) | 1 call, 1 job, 2 consents | `AccountInOrder` | connected means with credentials, disconnected without |
| `talk` (14 k) | 2 tabs, 4 transactions, 1 outage | `AccountInOrder` | no answer before its question, a limit that ends |
| `revisions`, `cascades` (10 k) | all of them; one row per table | `SchemaInOrder`, `AuditsKept` | only rows stand in a revision's way, the head is the models' schema; no deletion is refused or takes the audits along |

**Why these bounds.** The hazards are pairwise: two jobs or two workers on one step,
one request against one worker, one crash at any point followed by one redelivery.
`engine_faults` has two jobs, two workers and a crash together, so a step can be
reached by a stale run, a redelivered one and another job's. Steps are independent
of each other except through the loop and the verdict; two of them (one per
kind) show a mixed outcome, and `engine_orderly` has both. Two plans are enough for
every interaction in `PlanApproval`: a batch of more than one, two in flight, a
circle of row locks. The runs that need one session or one worker say so and are
complemented by a run or a theorem without the restriction: with two sessions
`OneDecision` is false (`approval_twice`), and `ApprovalGate` is proved for any
number of workers. `approval_concurrent` decides with "reject" and with the automatic
approval only: the other verdicts differ in no guard. Symmetry is used only in
safety runs.

In `platform`: a sweep can be overtaken by one other, and a rollback gives back claims
of one other trigger, hence two of each. A job and its successor are two jobs; one
fault, one redelivery and one retry at any point suffice to lose a message, and two
workers to have a job twice. A mirror needs a parent, a child, a change on either
side of a token and a scan after one that was cut short: one folder, one file, four
changes, three scans. A folder that comes back after its contents went, and gets them
back, needs six changes: the theorem has any number, and `DriveMirror` alone was checked
with them. Folders in folders need six, too, and what is then found is in section 4. A pass needs an edit before, during and after it. A
rotation that is detected needs three tokens. A second consent is the only one that
can be confused with the first.

`CHECK_DEADLOCK FALSE` stands in the workflow runs and in `platform`, where an ended run
or job with no message left, or a part at its bounds, has nothing to do, and nowhere else.

**Fairness.** `FairSpec` of the first three modules says that a process that is up goes
on: weak fairness of a worker's step as a whole (never of a choice within it, so a node
or a Drive call may fail every time), of an API call's enqueue after its commit, and of
nothing else; no user has to decide, cancel, pause or resume, and no delay has to end.
`PlanApproval` assumes strong fairness of a session's step, because a session that
waits for a row lock is enabled only now and then: PostgreSQL hands a lock on in the
order of requests. Crashes and pauses are bounded, as the runs state, or a liveness
property would only say that they end.

In `platform` fairness is a premise of the two liveness properties, so that the
other parts are checked without any. `SweepsFair`: Celery beat sends a sweep every minute
(`WF` of `Claims`); a sweep's next step may wait for a row that other sweeps lock again
and again, and is granted it in turn (`SF` of `SweepStep`); calls go on, time passes, a
running execution ends. `WorkersFair`: each message is taken in the end, and a task
that was taken goes on (`WF` per message and per worker). Retries, faults and
reconnections are bounded by `MaxRetries` of the code (lowered to 1) and by the bounds
named in the cfg. `TriggersRecur` is stated for one trigger: nothing distinguishes the two.

## 4. Disagreements between the code and what is said of it

Five runs are expected to fail; each checks one statement of a doc or a comment.

1. `engine_own_writes` (`ES:301`). ADR-020 (`Docs/03_ARCHITECTURE_DECISIONS.md:333`)
   calls the record of a change that never happened harmless. A rollback uses every
   record, so it overwrites what a user did to a file the engine never changed.
2. `approval_twice` (`AS:119`). Two calls that overlap both find the request pending and
   both decide it; ADR-020 (line 337) says one request, one decision.
3. `approval_resume` (`WES:401`). A plan decided between its own commit and its link
   to the workflow node resumes nothing; `WES:397-400` says that deciding does both.
4. `workflow_fork` (`WES:209`). A node found decided is left by `"default"`, whatever it
   had recorded; the comment above says "trust the recorded outcome". After a crash
   behind a CONDITION the run completes while the request it had made is pending.
5. `signin_parallel` (`apps/frontend/src/lib/api-client.ts:62`). ADR-013
   (`Docs/03_ARCHITECTURE_DECISIONS.md:191`) says the silent refresh makes an expired
   token invisible to the rest of the app. Two requests of a page refresh with the same
   cookie; the second is taken for a reuse, and every session of the user is revoked.

These configurations are checked by hand in the same way; each violates the property
it names.

| Configuration | Property | What happens |
|---|---|---|
| `ExecutionEngine_token` | `JobsSettle` | the token call stands after the commit of "running" and before the `try` (`ES:159`); when it raises, the job stays running, though `tasks/execution.py:16-21` says such a failure is terminal |
| `Scheduler_crash` | `KeepsComing` | a sweep dies after its claim was committed: the rows stay at NULL and never fire again |
| `Scheduler_reenable` | `KeepsComing` | a trigger that is disabled when its claimed row is handled is not rescheduled, and nothing does it when it is enabled |
| `Scheduler_rollback` | `FiresOnce` | one trigger raises, the rollback gives back claims still on the list, another sweep fires them too |
| `Scheduler_overlap` | `OneRunAtATime` | a sweep and a call by hand both see no run under way |
| `WorkflowVersions_overlap` | `OnePublished`, `OneGraph`, `Frozen` | two sessions publish; their graphs are merged into one version; a published version is edited after the check that it was a draft |
| `WorkflowVersions_copy` | `DraftCopiesPublished` | after a rollback the draft copies the latest version, not the published one |
| `PolicyVersions_overlap` | `OnePublished`, `NumbersDistinct`, `ListsPublished` | two sessions publish, or open version *n*; the list shows the newest version of a key, a draft, and hides the one in force |
| `JobPipeline_runbook` | `CancelFrees` | a job whose message was never sent stays active after it is cancelled; `Docs/09_OPERATIONS_RUNBOOK.md:37` tells the operator to cancel |
| `DriveMirror_trail` | `NothingMissed` | of two folders, one in the other, the outer one is edited and then removed, the inner one moved out in between: the change list names the outer folder first, it is gone (in the trash, or deleted for good and on an earlier page), and the cascade takes the rows of the inner folder and of its files; the inner folder is listed again, its files are not, until a full scan. `folder_repository.py:71-73` says the cascade handles what is "still pointing at this one"; here it points there no more |
| `DriveMirror_trail` with `Whole = TRUE` | `NothingMissed` | a folder and a file in it are trashed as one change, and come back as one: an incremental scan in between removes the folder's row, and the cascade its file's (TLC's shortest trace has a full scan instead, which lists neither); the next scan saves the folder alone, and the file has no row until a full scan. Whether Drive logs it so is not the repository's to say |
| `DriveMirror_trail` | `TrailKept` | an incremental scan deletes the row of a file the engine trashed (`scan_service.py:319-328`), and with it steps and rollback records; `models/file.py:38-45` says it is deliberately not deleted |
| `Archives_dropped` | `NeverOnlyCopy` | an archive is dropped between plan and deletion; `plan_service.py:268-270` says a deletion is never of the only copy |
| `Duplicates_last` | `LastCopyStays` | a recommendation is acted on after its copy to keep was changed or trashed |
| `Connectors_overlap` | `StatusMatchesCred`, `OneGrant` | a verification that waits for Google sets "connected" over a disconnect; a job saves a token of the old grant over a reconnection |
| `Conversations_talk` | `ThreadInOrder`, `LetInAgain` | question and answer of one transaction have the same `created_at`, by which alone a thread is ordered (`conversation_message_repository.py:40`); an outage between `INCR` and `EXPIRE` leaves a limit for ever, though rate limiting is "never allowed to be the reason a request fails" (`rate_limit_counter.py:14-16`) |

TLC stops at the first property violated: keep one in the cfg to see the others. (The first of
`DriveMirror_trail` is violated as well if Drive lists an item at its last change only: the
inner folder is then renamed after the outer one went.)

Met while modelling, visible in the models, and not given a configuration of their own:

*Engine and approvals*

- A stale message starts an ended job or workflow again: `run()` looks at no status
  (`ES:146`, `WES:116`). Hence `TerminalIsFinal` is checked without redelivery.
- `OneForwardResult` fails with redelivery *and* a pause: two runs of a job can both
  settle a step. `AtMostOneWrite` does not.
- A rollback resumed after a restoration that failed records a second result.
- A job that is denied or cancelled leaves its plan approved or executing, which
  blocks the recommendation (`ES:132`, `ES:166`).
- When the enqueue of the storage refresh fails, a job that had ended is marked
  failed (`ES:832` is inside `run()`'s `try`).
- Two plans are in flight when two sessions check before either inserts
  (`plan_service.py:120`); `OnePlanInFlight` holds for one session at a time.
- The plan of an expired request stays pending_approval, in flight.
- A lost enqueue is made good by nothing (`AS:169`), although
  `Docs/10_DISASTER_RECOVERY_GUIDE.md:19` counts on pending jobs being run again.
- A bulk decision that loses a lock circle is cut short: a database error is not a
  `VaultError`.

*Workflows*

- Two workers in one workflow run (a resumption beside a decision, or a message delivered
  twice) both look for a node's row before either has committed one, insert two and make
  two requests. Every later walk finds the row created last (`order_by(created_at.desc())`):
  a decision of the other row's request wakes the run and decides nothing.
- A run that waits for a request that expired, or for a delay whose timer was never sent
  because the worker died after the commit at `WES:428`, is woken by nobody.
- Cancelling a paused run sets a flag nobody reads; a plan committed before a crash makes
  the rewalk fail with a conflict.

*Jobs, scans, passes*

- A worker that dies between the commit of a successor and its message orphans it
  (`tasks/scan.py:101`), and a send that raises drops the remaining ones; the orphan is
  active, and so keeps every other job of its kind from being started. Two calls that
  look for an active job before either inserts start two.
- A redelivered twin that is past its last look at the flag completes a cancelled job.
- A full scan never removes rows of what has vanished, and asks for its token after its
  listing: a change made in between is in neither (`scan_service.py:223`).
- `enriched_at` is taken after the download, so a scan in between is hidden by it; a
  re-extraction that fails leaves the embedding of the old text; a failed analysis is
  never taken up again, and a file whose text did not change is pending for ever.
- A row that a scan deletes under a pass raises outside the isolation of the file and
  ends the pass.

*Archives and duplicates*

- A batch that fails after it stored its object leaves the object; so does the deletion
  of an archive that is being created. A rollback or deletion that dies behind the
  object's deletion leaves a completed row without an object.
- A worker that dies between the deletion in Drive and its commit: the redelivered step
  fails, and the row says trash for ever. A file the user took out of Trash after the
  plan was made is deleted all the same.
- `relationships.py:85-86` sorts by a key that is a date or a string, and the copy kept is
  the largest while the text says the most recently modified (`rules.py:81-84`).

*Sessions, connector, conversations, schema*

- An answer to a refresh that is lost makes the next refresh look like a reuse, and signs
  every browser out; a sign-out during a refresh leaves a good token; one that fails
  leaves the cookie.
- Disconnect and connect take two row locks in opposite order; a token refreshed for
  credentials that are gone raises `StaleDataError`.
- A turn that fails behind its search leaves its question in the thread, without an
  answer, while the page puts the text back to be asked again
  (`routes/chat.$conversationId.tsx:77-80`).
- The model of `execution_plans` lacks the check `ck_execution_plans_at_most_one_origin`
  that the revisions create; the downgrades of 0009, 0012 and 0013 are refused once rows
  are stored that only they allow, whatever `Docs/07_DATABASE_DOCUMENTATION.md:76` says;
  the same document has no `DELETE` ever shipped, while scans, analyses and edits delete.

## 5. Proofs

All theorems are checked by TLAPS down to the last leaf. They hold for every value of
the constants that satisfies the named assumption of the module
(`ConstantsAssumption`, `PlanApprovalAssumption`, `WorkflowAssumption`,
`SchedulerAssumption`; in the other modules hypotheses named `…Bounds`, which say that
bounds are numbers and that names which must differ do), that is, for any number of workers, sessions, sweeps, triggers,
steps, files, jobs and crashes and any graph. What a theorem assumes beyond that is in
its statement, and below.

| Theorem | Statement | Argument |
|---|---|---|
| `ExecutionEngineProofs!TypeCorrect` | `Spec => []TypeOK` | `TypeInv` adds `LocalsOK`: a worker inside `run()` has a job, and a step where it uses one |
| `…!AtMostOneWriteHolds`, `…!WayBackHolds` | `[]AtMostOneWrite`, `[]WayBack` | `WriteDiscipline` (`…!WriteDisciplineHolds`), below |
| `…!NoJobLostHolds` | `[]NoJobLost`, if neither tokens nor enqueues fail | one lemma for steps that leave status and messages alone, one for runs that end |
| `…!CompletedMeansDecidedHolds` | `[]CompletedMeansDecided` | `LoopInv`: steps before `at[w]` are decided, whoever decided them, and stay so |
| `…!EngineWritesAhead` | `Spec => WritesAhead` | refinement, with `UndoKnown`: a rollback only handles steps that have a record |
| `…!TerminalIsFinalHolds` | `TerminalIsFinal`, if `Orderly` and no enqueue of the refresh fails | `OneDelivery` |
| `…!OneForwardResultHolds` | `[]OneForwardResult`, if `Orderly` | `ResultInv` on top of it |
| `…!DecidedIsFinalHolds` | `DecidedIsFinal`, if `Orderly` and `ApprovedOnce` | `OneRun`, `StepInv` |
| `…!RolledBackIsRestoredHolds` | `[]RolledBackIsRestored`, likewise | `RestoreInv`, with `WriteDiscipline` |
| `…!PlanVerdictTrueHolds` | `[]PlanVerdictTrue`, likewise | `VerdictInv`, with `LoopInv` |
| `PlanApprovalProofs!TypeCorrect`, `…!JobsMatch` | `[]TypeOK`, `[]JobsMatchApprovals`, any number of sessions | `JobsInv`: jobs sent, and sessions about to send one, are no more than jobs created |
| `…!AloneHolds`, `…!OnePlanInFlightHolds`, `…!ActsOnWhatItReadHolds` | one session: `VerdictsAgree` and `OneDecision`; `OnePlanInFlight`; `ActsOnWhatItRead` | these are inductive together: what a session acts on still stands when it commits |
| `…!ApprovalKeepsPromise` | one session: `Spec => DecidesOnce` | every commit settles open requests together; everything else is a stutter |
| `WorkflowEngineProofs!TypeCorrect` | `Spec => []TypeOK` | `AtSomeNode`: a handler, and its second half, has a node and a row in hand |
| `…!GateHolds` | `[]ApprovalGate`, any graph, any workers | `GateInv`, below |
| `…!OneRequestHolds` | `[]OneRequestPerNode`, any graph, if `OneWorker` | `AskInv` |
| `SchedulerProofs!TypeCorrect` | `Spec => []TypeOK` | `TypeInv` adds `ListOK`: what a sweep has in hand and holds is on its list |
| `…!FiresOnceHolds` | `[]FiresOnce`, if no call of `_fire` raises | `ClaimInv`, below |
| `…!OneRunAtATimeHolds` | `[]OneRunAtATime`, if `TakeTurns` and nobody else starts executions | `RunInv`, with `ClaimInv` |
| `JobPipelineProofs!TypeCorrect`, `…!JobsKeptHolds` | `[]TypeOK`; `[]JobsKept`, which is `NoOrphan` and `HandOff` | `HeldInv`, `KeptInv` |
| `…!CancelIsFinalHolds` | `[][CancelIsFinal]_vars` | `HeldInv`; one fact per step about who may write "completed" |
| `FilePassesProofs!DerivedOrPendingHolds` | `[]DerivedOrPending`, if `InTurn` | `PassInv` |
| `ArchivesProofs!TypeCorrect`, `…!ManifestTrueHolds` | `[]TypeOK`, `[]ManifestTrue` | `BatchInv`, `StoreInv` |
| `…!DeletedIsGoneHolds`, `…!LostOnlyIfDroppedHolds` | `[]DeletedIsGone`, `[][LostOnlyIfDropped]_vars` | `DeletionInv` |
| `PlatformProofs!OneOfEachHolds`, `…!VersionsKeptHolds` | one session: `[]` of `OnePublished`, `OneGraph`, `OneDraft`; `KeepsPublished`, `KeepsNodes` | `AloneInv` |
| `…!PublishedRunsHolds` | any sessions: `[]PublishedHasNodes` | `TogetherInv` |
| `…!PolicyInForceHolds`, `…!PolicyAppliedHolds` | one session: `[]` of `LastPublishedRules`, `NumbersDistinct`; `AppliesInForce` | `PolicyInv` |
| `…!OneTokenEachHolds`, `…!StaysSignedInHolds` | any browsers, one request each: `[]OneTokenEach`; `SignsOutForCause` | `TokensInv`, `CookieInv` |
| `…!StatusMatchesCredHolds` | one call of the API, any jobs: `[]StatusMatchesCred` | `ConnectorInv` |
| `…!TalkInOrderHolds` | any tabs: `[]` of `QuestionFirst`, `WindowEnds` | `TalkInv` |
| `…!NothingMissedHolds`, `…!ScansCatchUpHolds` | no nested folders, none that goes with its contents, Drive still during full scans: `[]NothingMissed`; `CaughtUp`, `NoPlaceholder` when a token is saved | `MirrorInv` |
| `…!SpareOneHolds` | `[][SpareOne]_vars` | `CopyInv` |
| `…!VersionsInOrderHolds`, `…!HistoryKeptHolds`, `…!AccountInOrderHolds`, `…!KeepsSessionHolds`, `…!MirrorInOrderHolds`, `…!ArchivesInOrderHolds`, `…!FilesKeptHolds`, `…!AllDerivedOrPending`, `…!JobsInOrderHolds`, `…!CancelledStaysHolds`, `…!OccurrencesInOrderHolds` | `PlatformSpec =>` each property of the run `platform` but four | the invariants of the parts, below |

**The hypotheses.** None is there for the proof alone; for each there is a
counterexample without it, named in section 4 or in a run.

| Hypothesis | Says | Without it |
|---|---|---|
| `Orderly` | no worker process is lost (so no message comes twice) and control requests do not overlap | a redelivered message starts an ended job again, since `run()` looks at no status (`ES:146`); `resume` and `trigger_rollback` commit what they read without a lock |
| no `RefreshFaults` | the enqueue of the storage refresh does not fail | an ended job is marked failed (`ES:832`) |
| `ApprovedOnce` | one forward job | a second approval (`approval_twice`) makes a second run, which decides the steps of the first again |
| `OneWorker` | one walk of a run at a time | two walks look before either commits, insert two rows of a node, and ask twice |
| `TakeTurns` | one sweep; or one trigger per workflow and no call of `_fire` raises | two sweeps look at a workflow before either starts it |
| `Callers = {}` | no start by hand or by an event | `Scheduler_overlap` |
| `InTurn` | scans and enrichments run beside no other pass | `enriched_at` is taken after the download and hides a scan in between |
| one session | `Clients` is a singleton, no workflow node waits | `approval_twice`, and the race of `create_plan` |
| one session of a workflow or policy | the instances `Alone` and `Policy` | `WorkflowVersions_overlap`, `PolicyVersions_overlap` |
| one request of a browser | `MaxParallel = 1` in `Sessions` | `signin_parallel` |
| one call of the API | the instance `Connector` | `Connectors_overlap` |
| no nested folders | `Nested = FALSE` in `Mirror` | `DriveMirror_trail` |
| what lies in a folder goes before it, each item by a change of its own | `Whole = FALSE` in `Mirror` | `DriveMirror_trail` with `Whole = TRUE` (`Nested = FALSE` will do) |
| Drive still during full scans | `QuietListing = TRUE` in `Mirror` | a change between listing and token is in neither (section 4) |
| two triggers of two workflows | `SweeperBounds`: what the instance `Sweeper` is about | `TakeTurns`, above; `SchedulerProofs` has any number |

**WriteDiscipline.** `AtMostOneWrite` alone is not inductive: nothing in it forbids a
second worker to be about to write. What does is that only the session which inserted
the step's rollback record goes on to write (the unique index on
`execution_step_id` stops the others), that a step has a write only if it has a
record, and that a live read which already sees the planned state of a renamed file
can only lead to an insert that fails. These are the conjuncts of `WriteDiscipline`.

**GateInv.** Call a node *open* if no approval stands before it, or one has been given.
Whatever a walk can leave behind is at an open node: the parked node, committed rows,
flushed rows, the node a worker is at; and a request that reads approved was approved.
Crashes drop rows, rewalks go by "default" edges, and expiry turns a request
into a rejection, so none of them opens a node.

**ClaimInv.** That an occurrence fires once rests on row locks that a sweep holds from
its claim to its first commit, and on the NULL that this commit leaves. `ClaimInv`: no
two sweeps have a row on their lists; a row on a list reads NULL, or reads due and is
locked by that sweep; what is due, or on a list and still to be fired, has not fired since
it came due. A rollback gives back locks of rows still on the list, which is why the
premise is needed and why `Scheduler_rollback` violates `FiresOnce` without it.

**OneDelivery.** A job has its message in the broker, or one worker in its loop, or a
request about to enqueue or to resume it, or none of these, and its status says which.
From this it follows that an ended job has nobody left to start it, and that the loop
which records a step's result is the only one. `ResultInv` ties results to the steps: one
with a result is decided, and a run that has taken a step up has recorded none for it yet,
so a resumed job passes it over.

**OneRun, StepInv.** With one approval all the plan's jobs take turns: one at most is
waiting, running or paused, and nobody is about to roll back while one is. `StepInv` then
says what a status means for the record: a completed step's is held, and it is used up
exactly when the step reads rolled back. `RestoreInv` adds the file: original
or planned content and no third, original from the restoring call on. `VerdictInv` adds
the plan: a run that has counted no failure has left none behind it, and what a rollback
still has to do is on its list, which is why its verdict is true when the list is empty.

**AskInv.** The rows of an approval node that has asked wait or are decided, so that every
later walk finds it so. That needs two facts about sessions: what a walk has flushed of an
approval node is never undecided, and a walk that has found the node undecided, and not
yet acted on it, has found what is still true: the node has not asked. The second is what
another walk would break.

**RunInv.** A sweep that has found a workflow without an execution is the only one at that
workflow until it has started the execution and sent its message, so what it found is still
true when it starts it.

**KeptInv.** "Somebody holds the job" is not inductive: the worker that holds it may be past
its pass while a redelivered twin has set the row to running again. `Minded` asks for a
message, a worker *before* the end of its pass, or a sender; `Covers` asks for a worker
that has still to come to every successor not yet handed on. A worker that dies returns
its message, which minds the job again. `HeldInv` says that what is in hand has a row.

**PassInv.** Each pass is pending by a comparison of stamps. `ClockInv`: no stamp is ahead
of the clock, no stored model ahead of the configured one. `EnrichInv`: an enrichment
has content at least as new as the last scan saw, and a stamp newer than anything derived
before it; so storing makes what was derived from the old text pending. `TextInv`: the
text another pass has in hand is the file's, unless its row went and came back.

**BatchInv, StoreInv, DeletionInv.** A batch not decided yet has an empty row and no
decided step, whatever its archive's deletion has made of the status; what it will write
is what it stored. A completed archive's object is its manifest until it is dropped, and it
is dropped before the object goes. Each file a deletion has left to do is in a completed
archive, or in one dropped since the plan: the licence outlives the archive, as in the code.

**AloneInv, PolicyInv, TogetherInv.** One session: what it has read is still so when it
commits, but only because a session that dies leaves nothing behind. `DraftInv`: only the
last version is a draft, and who is about to insert the next has seen that the last is
none. `PublishInv`: before the commit of a publication the session has loaded the
published version, so that its demotion is sent; SQLAlchemy sends a status only if it
differs from the one loaded. Any sessions: next to nothing of this is left, but what is
published still has nodes, because nodes are replaced by a graph that has some, and the
version a session is about to demote has nodes too.

**TokensInv, CookieInv.** That a sign-in has one good token is not inductive: a rotation
has found its token valid and revokes it later. While it is under way that token is the
only good one of its sign-in, and no other browser has one of the same sign-in in hand,
which is what two requests of one page break. `CookieInv`: as long as no answer was lost, a
cookie is a valid token or the answer with its successor is on its way.

**ConnectorInv, TalkInv.** The status a call has loaded is the row's, or a job has marked
the row "reauth" since, and jobs write nothing else; so "connected" is written only by
who has seen the credentials, and nobody but the call itself drops them. In a conversation
no two requests have one turn, and who is about to answer has its question among the
messages, with an earlier time or none.

**MirrorInv.** `TokenInv` is `NothingMissed` for the rows as committed *and* as the scan's
transaction sees them, since either may become the other. `ChangesInv`: an incremental
scan is right about what changed for the last time between its token and where it is;
what changes again is listed again. `FullInv`: a full scan is right about what it has come
to. A removal takes only rows that are behind Drive, because what is live is in no folder
that is gone (`TreeInv`) and a row's folder is its parent or nothing (`RowInv`). With
folders in folders the last step fails, as the first counterexample of
`DriveMirror_trail` shows: it was found when this proof did not go through.

**CopyInv.** What a job has read, what it has stored, and what a plan has left to trash
spare a copy of every content, each as long as it is `sound`. The copy that a plan spares
is outside *its* list, so that trashing one file after another keeps it.

**The parts together.** `PartSteps` says that a step of `PlatformSpec` is a step, or a
stutter, of the part that the behaviour is about, and `PartStarts` the same of the initial
states. Parts proved in other modules are instances of those modules with the constants
`MCPlatform` gives the part; the lemmas `Same…` say that an instance of `ArchivesProofs`, say,
defines what the instance of `Archives` does. So each theorem about `PlatformSpec` follows
from the invariant of a part, for any users, files, sweeps and bounds.

**Model-checked only.** Liveness (`JobsSettle`, `SessionsEnd`, `RunsSettle`,
`DecidedMovesOn`, `TriggersRecur`, `JobsAllEnd`) is beyond the prover, as is everything
with fairness or ENABLED. `SchemaInOrder` and `AuditsKept` are about nineteen revisions and
the tables, which are constants, and about the closure of the cascades, a recursive function:
TLC evaluates them on all of it, and a proof would be the same enumeration. Every other
property of a passing run is a theorem.

## 6. Plan

The parts that change other people's files were modelled first, then what starts them,
then what feeds them and keeps the books. What is left is to prove more of it, and to
compose it further:

1. `AtMostOneWrite` and `OneForwardResult` between the extremes: redelivery without
   pauses.
2. One job per approval across `PlanApproval` and `ExecutionEngine`.
3. `DriveMirror` with nested folders, or with folders that go whole: which weaker promise incremental scans keep.
4. `Scheduler` with several triggers of a workflow, in the composition.

**Not modelled, and why.** Notifications: a row per message, committed by the step that
writes it (in `WorkflowEngine`, the approval step's commit), and an e-mail that may fail;
nothing but its reader depends on it. Ranking of search results, the dashboard, the
tools of the assistant: queries that change nothing. The AI gateway: a stateless call
that answers or does not, which is a choice wherever it is used. Rules of
recommendations other than duplicates: functions of the same rows, only displayed. The
frontend beyond its session: it shows and polls. Deployment: configuration.

## 7. Running it

    tlc -workers 2 -config ExecutionEngine_faults.cfg MCExecutionEngine.tla
    tlc -workers 2 -config Platform_all.cfg MCPlatform.tla
    tlc -workers 2 -config SignIn_parallel.cfg SignIn.tla
    tlapm ExecutionEngineProofs.tla
    tlapm PlatformProofs.tla

A configuration `X_y.cfg` belongs to the module `MCX` if there is one, otherwise to `X`.
On two cores `platform` takes about three minutes, no other run more than about one, and
`PlatformProofs` a quarter of an hour.
