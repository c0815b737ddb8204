------------------------------ MODULE MCPlatform ------------------------------
(***************************************************************************)
(* What one run of TLC checks of the parts around the Execution Engine, the     *)
(* approvals and the workflow runs. Each behaviour is about one part: "part"     *)
(* never changes, and nor does the state of the other parts, which is 0 but for  *)
(* the two that temporal properties speak of. The Trigger Engine is taken        *)
(* twice: "turns" is the Scheduler this module extends, with the constants of    *)
(* the cfg, "sweeps" another instance of it.                                     *)
(***************************************************************************)
EXTENDS Scheduler, FiniteSets, Sequences, TLC

CONSTANTS t1, t2, wf1, wf2,                                     \* Scheduler
    c1, Clients, Graphs, MaxVersions, SharedGraphs, MaxShared,  \* WorkflowVersions, PolicyVersions
    w1, w2, MaxJobs, MaxRetries, MaxFaults, MaxReconnects,      \* JobPipeline
    f1, f2, Files, NoFile,                                      \* the files
    Folders, Mirrored, Root, NoToken,                           \* DriveMirror
    MaxChanges, MaxScans, MaxAborts,
    MaxEdits, MaxTime, MaxPasses, MaxUpgrades,                  \* FilePasses
    MaxArchives, MaxDeaths,                                     \* Archives
    Checksums, NoKey, MaxActs, MaxRuns,                         \* Duplicates
    Browsers, MaxTokens, MaxLosses, TokenJobs, MaxGrants,       \* SignIn, Connectors
    Tabs, MaxClock, ToolLimit, MaxOutages                       \* Conversations

VARIABLES part,
    status, token, call,                                \* of several parts
    number, session,                                    \* versions, of workflow and policy
    nodes, used, deaths,                                \* WorkflowVersions
    chosen, applied,                                    \* PolicyVersions
    job, queue, worker, starter, connected, asks,       \* JobPipeline
    handed, lost, faults, reconnects,
    drive, row,                                         \* the files, in Drive and here
    log, base, scan, scans, aborts,                     \* DriveMirror
    content, mirror, extracted, embedded, analysed,     \* FilePasses
    model, pass, now, passes,
    archive, object, step, work, dropping, deletion, dropped,   \* Archives
    rec, group, reading, plan, acts, runs,              \* Duplicates
    schema, run, stored,                                \* Migrations
    rows, links,                                        \* RowCascades
    expired, login, cookie, access, losses,             \* SignIn
    cred, invites, given, alive,                        \* Connectors
    messages, request, counter, clock, outages          \* Conversations

sweepVars   == vars
jobVars     == <<job, queue, worker, starter, connected, asks, handed, lost, faults, reconnects>>
sessionVars == <<number, session>>
versionVars == <<nodes, used>>
policyVars  == <<chosen, applied>>
fileVars    == <<drive, row>>
mirrorVars  == <<log, scan, scans, aborts>>
passVars    == <<content, mirror, extracted, embedded, analysed, model, pass, now, passes>>
archiveVars == <<archive, object, step, work, dropping, deletion, dropped>>
copyVars    == <<rec, group, reading, plan, acts, runs>>
schemaVars  == <<schema, run, stored>>
rowVars     == <<rows, links>>
signInVars  == <<expired, login, cookie, access, losses>>
connectorVars == <<cred, invites, given, alive>>
talkVars    == <<messages, request, counter, clock, outages>>
platformVars == <<part, status, token, call, sweepVars, jobVars, sessionVars, versionVars, policyVars, deaths, fileVars,
                  base, mirrorVars, passVars, archiveVars, copyVars, schemaVars, rowVars,
                  signInVars, connectorVars, talkVars>>

-----------------------------------------------------------------------------
(* The parts *)

\* The versions of a workflow, edited by one session and by two; those of a policy.
Alone    == INSTANCE WorkflowVersions WITH Clients <- {c1}
Together == INSTANCE WorkflowVersions WITH
    MaxVersions <- MaxShared, Graphs <- SharedGraphs
Policy   == INSTANCE PolicyVersions WITH Clients <- {c1}

\* Two triggers that share a workflow take turns; here each has its own.
TwoOfOne == [t \in {t1, t2} |-> wf1]
OneEach  == [t \in {t1, t2} |-> IF t = t1 THEN wf1 ELSE wf2]
Sweeper  == INSTANCE Scheduler WITH
    Callers <- {}, Workflows <- {wf1, wf2}, WorkflowOf <- OneEach,
    FireFaults <- FALSE, PublishFaults <- FALSE, MaxToggles <- 2, MaxCrashes <- 1

\* The kinds whose jobs the users of an account start: a scan, with one worker, or one
\* of those behind it in the chain, with two.
Chain    == INSTANCE JobPipeline WITH
    caller <- starter, unsent <- lost, Workers <- {w1}, Asks <- {{"scan"}}
Pipeline == INSTANCE JobPipeline WITH
    caller <- starter, unsent <- lost, Workers <- {w1, w2},
    Asks <- {{"enrichment"}, {"embedding", "recommendation"}, {"intelligence"}, {"analysis"}}

\* A folder and a file, in a Drive that stands still during full scans and whose folders
\* go empty; the passes over a file, no scan beside an enrichment; two files archived,
\* or of one content.
Mirror   == INSTANCE DriveMirror WITH
    Files <- Mirrored, Nested <- FALSE, Whole <- FALSE, QuietListing <- TRUE, Trashes <- TRUE
Pass     == INSTANCE FilePasses WITH Files <- {f1}, Overlap <- FALSE
Archive  == INSTANCE Archives
Copies   == INSTANCE Duplicates

\* A user with two browsers, each waiting for its answer; a connector, with one call
\* of the API at a time and the jobs beside it.
Sessions  == INSTANCE SignIn WITH MaxParallel <- 1
Connector == INSTANCE Connectors WITH Clients <- {c1}, Jobs <- TokenJobs

\* Two tabs of a user that ask in one conversation.
Talk      == INSTANCE Conversations WITH MaxTime <- MaxClock

Revisions == INSTANCE Migrations
Cascades  == INSTANCE RowCascades

-----------------------------------------------------------------------------

\* Who has a variable that several parts use.
HasSession == part \in {"alone", "together", "policy"}
HasCall    == part \in {"signin", "connector"}
HasStatus  == HasSession \/ HasCall
HasToken   == part \in {"mirror", "signin"}
HasNodes   == part \in {"alone", "together"}
HasDeaths  == HasNodes \/ part = "archives"
HasFiles   == part \in {"mirror", "archives", "copies"}
HasBase    == part \in {"mirror", "revisions"}
HasSweeps  == part \in {"turns", "sweeps"}
HasJobs    == part \in {"chain", "jobs"}

PartInit ==
    \/ part = "alone" /\ Alone!Init
    \/ part = "together" /\ Together!Init
    \/ part = "policy" /\ Policy!Init
    \/ part = "mirror" /\ Mirror!Init
    \/ part = "passes" /\ Pass!Init
    \/ part = "archives" /\ Archive!Init
    \/ part = "copies" /\ Copies!Init
    \/ part = "signin" /\ Sessions!Init
    \/ part = "connector" /\ Connector!Init
    \/ part = "talk" /\ Talk!Init
    \/ part = "revisions" /\ Revisions!Init
    \/ part = "cascades" /\ Cascades!Init
    \/ part \in {"turns", "sweeps", "chain", "jobs"}

PlatformInit ==
    /\ PartInit
    /\ IF part = "sweeps" THEN Sweeper!Init ELSE Init
    /\ IF part = "jobs" THEN Pipeline!Init ELSE Chain!Init
    /\ ~ HasStatus => status = 0
    /\ ~ HasCall => call = 0
    /\ ~ HasToken => token = 0
    /\ ~ HasSession => number = 0 /\ session = 0
    /\ ~ HasNodes => nodes = 0 /\ used = 0
    /\ ~ HasDeaths => deaths = 0
    /\ ~ HasFiles => drive = 0 /\ row = 0
    /\ ~ HasBase => base = 0
    /\ part # "policy" => chosen = 0 /\ applied = 0
    /\ part # "mirror" => log = 0 /\ scan = 0 /\ scans = 0 /\ aborts = 0
    /\ part # "passes" =>
           /\ content = 0 /\ mirror = 0 /\ extracted = 0 /\ embedded = 0 /\ analysed = 0
           /\ model = 0 /\ pass = 0 /\ now = 0 /\ passes = 0
    /\ part # "archives" =>
           /\ archive = 0 /\ object = 0 /\ step = 0 /\ work = 0 /\ dropping = 0
           /\ deletion = 0 /\ dropped = 0
    /\ part # "copies" =>
           rec = 0 /\ group = 0 /\ reading = 0 /\ plan = 0 /\ acts = 0 /\ runs = 0
    /\ part # "revisions" => schema = 0 /\ run = 0 /\ stored = 0
    /\ part # "cascades" => rows = 0 /\ links = 0
    /\ part # "signin" =>
           expired = 0 /\ login = 0 /\ cookie = 0 /\ access = 0 /\ losses = 0
    /\ part # "connector" => cred = 0 /\ invites = 0 /\ given = 0 /\ alive = 0
    /\ part # "talk" =>
           messages = 0 /\ request = 0 /\ counter = 0 /\ clock = 0 /\ outages = 0

Still(moves, v) == IF moves THEN TRUE ELSE UNCHANGED v

PartNext ==
    \/ part = "alone" /\ Alone!Next
    \/ part = "together" /\ Together!Next
    \/ part = "policy" /\ Policy!Next
    \/ part = "turns" /\ Next
    \/ part = "sweeps" /\ Sweeper!Next
    \/ part = "chain" /\ Chain!Next
    \/ part = "jobs" /\ Pipeline!Next
    \/ part = "mirror" /\ Mirror!Next
    \/ part = "passes" /\ Pass!Next
    \/ part = "archives" /\ Archive!Next
    \/ part = "copies" /\ Copies!Next
    \/ part = "signin" /\ Sessions!Next
    \/ part = "connector" /\ Connector!Next
    \/ part = "talk" /\ Talk!Next
    \/ part = "revisions" /\ Revisions!Next
    \/ part = "cascades" /\ Cascades!Next

PlatformNext ==
    /\ PartNext
    /\ UNCHANGED part
    /\ Still(HasStatus, status) /\ Still(HasCall, call) /\ Still(HasToken, token)
    /\ Still(HasSweeps, sweepVars) /\ Still(HasJobs, jobVars)
    /\ Still(HasSession, sessionVars) /\ Still(HasNodes, versionVars) /\ Still(HasDeaths, deaths)
    /\ Still(part = "policy", policyVars) /\ Still(HasFiles, fileVars) /\ Still(HasBase, base)
    /\ Still(part = "mirror", mirrorVars) /\ Still(part = "passes", passVars)
    /\ Still(part = "archives", archiveVars) /\ Still(part = "copies", copyVars)
    /\ Still(part = "revisions", schemaVars) /\ Still(part = "cascades", rowVars)
    /\ Still(part = "signin", signInVars) /\ Still(part = "connector", connectorVars)
    /\ Still(part = "talk", talkVars)

PlatformSpec == PlatformInit /\ [][PlatformNext]_platformVars

\* The fairness of Scheduler and of JobPipeline, for the properties that need it:
\* Beat sends sweeps, processes that are up go on, a row lock that is asked for again
\* and again is given at last, messages are consumed.
SweepsFair ==
    /\ \A s \in Sweeps :
           WF_vars(part = "turns" /\ Claims(s)) /\ SF_vars(part = "turns" /\ SweepStep(s))
    /\ \A c \in Callers : WF_vars(part = "turns" /\ CallerStep(c))
    /\ \A t \in Triggers : WF_vars(part = "turns" /\ ComesDue(t))
    /\ \A w \in Workflows : WF_vars(part = "turns" /\ Ends(w))

WorkersFair ==
    /\ \A c \in Callers :
           WF_jobVars(HasJobs /\ Pipeline!Inserts(c)) /\ WF_jobVars(HasJobs /\ Pipeline!Enqueues(c))
    /\ \A j \in Pipeline!Jobs, n \in 0 .. MaxRetries :
           WF_jobVars(\/ part = "chain" /\ Chain!TakesMessage(w1, [job |-> j, tries |-> n])
                      \/ /\ part = "jobs"
                         /\ \E w \in {w1, w2} : Pipeline!TakesMessage(w, [job |-> j, tries |-> n]))
    /\ \A w \in {w1, w2} :
           /\ WF_jobVars(IF part = "chain" THEN w = w1 /\ Chain!Runs(w)
                         ELSE part = "jobs" /\ Pipeline!Runs(w))
           /\ WF_jobVars(IF part = "chain" THEN w = w1 /\ Chain!TaskStep(w)
                         ELSE part = "jobs" /\ Pipeline!TaskStep(w))

-----------------------------------------------------------------------------
(* The properties of the parts, stated where they are defined *)

\* Workflow versions. One session: one published version, one draft, one graph
\* each. Two at once: what is published has nodes all the same. Policies: the version in
\* force is the one published last; numbers are distinct.
VersionsInOrder ==
    /\ part = "alone" => Alone!TypeOK /\ Alone!OnePublished /\ Alone!OneGraph /\ Alone!OneDraft
    /\ part = "together" => Together!TypeOK /\ Together!PublishedHasNodes
    /\ part = "policy" => Policy!TypeOK /\ Policy!LastPublishedRules /\ Policy!NumbersDistinct

\* One session: a workflow keeps a published version, and what is or was published
\* its nodes; a workflow applies the version of a policy that is in force.
HistoryKept ==
    [][/\ part = "alone" => Alone!KeepsPublished /\ Alone!KeepsNodes
       /\ part = "policy" => Policy!AppliesInForce]_platformVars

\* Two sweeps and a crash: an occurrence fires once, and a workflow has one run.
OccurrencesInOrder ==
    part = "sweeps" => Sweeper!TypeOK /\ Sweeper!FiresOnce /\ Sweeper!OneRunAtATime

\* Two sweeps and a caller, calls that raise: a trigger that has come due comes to be
\* scheduled again, no claim is lost and no row starved. (t1 stands for both: nothing
\* tells them apart.)
TriggersRecur ==
    SweepsFair => [](part = "turns" /\ nextRun[t1] = "due" => <>(nextRun[t1] = "future"))

\* Background jobs: every active one is somebody's business and every completed one
\* handed on; a cancelled one is not completed; one whose message is sent ends.
JobsInOrder    == IF part = "jobs" THEN Pipeline!JobsKept ELSE Chain!JobsKept
CancelledStays ==
    [][/\ part = "chain" => Chain!CancelIsFinal
       /\ part = "jobs" => Pipeline!CancelIsFinal]_platformVars
JobsAllEnd == WorkersFair => Pipeline!JobsEnd

\* The mirror of Drive: no change before the source's token is missed.
MirrorInOrder == part = "mirror" => Mirror!TypeOK /\ Mirror!NothingMissed

\* The passes: what is not derived from the newest input is pending.
DerivedOrPending == part = "passes" => Pass!DerivedOrPending

\* The schema: only rows stand in the way of a revision, the last one has the models'
\* schema, and a revision's schema does not depend on how it was come by. No deletion that
\* the code asks for is refused by a row nobody thought of.
SchemaInOrder ==
    /\ part = "revisions" => /\ Revisions!TypeOK /\ Revisions!RowsAloneRefuse
                             /\ Revisions!HeadIsModels /\ Revisions!RevisionIsSchema
    /\ part = "cascades" => Cascades!TypeOK /\ Cascades!NeverRefused

\* Archives: the store has what an archive's row says, and what was deleted for good
\* is gone.
ArchivesInOrder ==
    part = "archives" => Archive!TypeOK /\ Archive!ManifestTrue /\ Archive!DeletedIsGone

\* Sessions: one good token for each sign-in. The connector: connected with credentials,
\* disconnected without. Ask Vault: no answer before its question, and a tool limit that
\* comes to an end unless Redis or a process failed.
AccountInOrder ==
    /\ part = "signin" => Sessions!TypeOK /\ Sessions!OneTokenEach
    /\ part = "connector" => Connector!TypeOK /\ Connector!StatusMatchesCred
    /\ part = "talk" => Talk!TypeOK /\ Talk!QuestionFirst /\ Talk!WindowEnds

\* Nobody is signed out by the expiry of an access token, as long as a browser waits for
\* its answers and receives them.
KeepsSession == [][part = "signin" => Sessions!SignsOutForCause]_platformVars

\* What files are not to lose: a scan that saves its token has caught up, and leaves no
\* placeholder for a parent with a row; a file that is deleted for good has an archive,
\* but for one dropped meanwhile; a duplicate that is trashed leaves a copy.
FilesKept ==
    [][/\ part = "mirror" /\ Mirror!SavesToken => Mirror!CaughtUp /\ Mirror!NoPlaceholder
       /\ part = "archives" => Archive!LostOnlyIfDropped
       /\ part = "copies" => Copies!SpareOne]_platformVars

\* The audits of what was done outlive the rows they are about.
AuditsKept == [][part = "cascades" => Cascades!KeepsAudits]_platformVars
=============================================================================
