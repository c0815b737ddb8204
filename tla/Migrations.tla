------------------------------ MODULE Migrations ------------------------------
(***************************************************************************)
(* The database schema as Alembic's revisions 0001 to 0019 leave it, operation *)
(* by operation, and the runs of `alembic upgrade head` and `alembic downgrade  *)
(* -1` between which the application stores rows. Of the columns only those     *)
(* are kept that refer to another table; indexes, the pgcrypto extension and    *)
(* the seeded rows are left out. A run is one transaction.                      *)
(***************************************************************************)
EXTENDS Models, Naturals, SequencesExt

Creates(t, refs, keys)   == [op |-> "create", table |-> t, refs |-> refs, keys |-> keys]
Drops(t)                 == [op |-> "drop", table |-> t]
AddsReference(t, ref)    == [op |-> "refer", table |-> t, ref |-> ref]
DropsReference(t, c)     == [op |-> "forget", table |-> t, column |-> c]
AllowsNull(t, c)         == [op |-> "null", table |-> t, column |-> c]
ForbidsNull(t, c)        == [op |-> "not null", table |-> t, column |-> c]
AddsKey(t, key)          == [op |-> "key", table |-> t, key |-> key]
DropsKey(t, key)         == [op |-> "unkey", table |-> t, key |-> key]
AddsCheck(name)          == [op |-> "check", check |-> name]
DropsCheck(name)         == [op |-> "uncheck", check |-> name]

-----------------------------------------------------------------------------
(* The revisions: what upgrade() does, and what downgrade() does *)

IdentityTables == <<
    Creates("organizations", {}, {{"slug"}}),
    Creates("roles", {}, {{"name"}}),
    Creates("users",
            {Owned("organization_id", "organizations"), Needs("role_id", "roles")},
            {{"google_sub"}, {"email"}}),
    Creates("refresh_tokens",
            {Owned("user_id", "users"), MayName("replaced_by_id", "refresh_tokens")},
            {{"token_hash"}}),
    Creates("audit_logs",
            {MayName("organization_id", "organizations"), MayName("user_id", "users")}, {})>>

IdentityDrops == <<
    Drops("audit_logs"), Drops("refresh_tokens"), Drops("users"), Drops("roles"),
    Drops("organizations")>>

ConnectorTables == <<
    Creates("storage_connectors",
            {Owned("organization_id", "organizations"), MayName("connected_by_user_id", "users")},
            {{"organization_id", "provider"}}),
    Creates("connector_credentials", {Owned("connector_id", "storage_connectors")}, {{"connector_id"}})>>

ConnectorDrops == <<
    Drops("connector_credentials"), Drops("storage_connectors")>>

MirrorTables == <<
    Creates("storage_sources",
            {Owned("connector_id", "storage_connectors")}, {{"connector_id", "provider_drive_id"}}),
    Creates("folders",
            {Owned("storage_source_id", "storage_sources"),
             MayBelong("parent_folder_id", "folders")}, {{"storage_source_id", "provider_file_id"}}),
    Creates("files",
            {Owned("storage_source_id", "storage_sources"),
             MayBelong("parent_folder_id", "folders")}, {{"storage_source_id", "provider_file_id"}})>>

ScanTables == <<
    Creates("scan_jobs",
            {Owned("connector_id", "storage_connectors"), MayName("triggered_by_user_id", "users")},
            {}),
    Creates("scan_events", {Owned("scan_job_id", "scan_jobs")}, {}),
    Creates("scan_progress", {Owned("scan_job_id", "scan_jobs")}, {{"scan_job_id"}})>>

ScannerDrops_FoldersFirst == <<
    Drops("scan_progress"), Drops("scan_events"), Drops("scan_jobs"), Drops("folders"),
    Drops("files"), Drops("storage_sources")>>

ScannerDrops == <<
    Drops("scan_progress"), Drops("scan_events"), Drops("scan_jobs"), Drops("files"),
    Drops("folders"), Drops("storage_sources")>>

KnowledgeTables == <<
    Creates("file_metadata", {Owned("file_id", "files")}, {{"file_id"}}),
    Creates("file_classifications", {Owned("file_id", "files")}, {{"file_id"}}),
    Creates("file_extractions", {Owned("file_id", "files")}, {{"file_id"}}),
    Creates("knowledge_attributes",
            {Owned("file_id", "files")}, {{"file_id", "attribute_type", "value"}}),
    Creates("file_relationships",
            {Owned("connector_id", "storage_connectors"), Owned("file_id", "files"),
             Owned("related_file_id", "files")},
            {{"file_id", "related_file_id", "relationship_type"}})>>

EnrichmentTables == <<
    Creates("enrichment_jobs",
            {Owned("connector_id", "storage_connectors"), Loses("scan_job_id", "scan_jobs"),
             MayName("triggered_by_user_id", "users")}, {}),
    Creates("enrichment_events", {Owned("enrichment_job_id", "enrichment_jobs")}, {}),
    Creates("enrichment_progress",
            {Owned("enrichment_job_id", "enrichment_jobs")}, {{"enrichment_job_id"}})>>

KnowledgeDrops == <<
    Drops("enrichment_progress"), Drops("enrichment_events"), Drops("enrichment_jobs"),
    Drops("file_relationships"), Drops("knowledge_attributes"), Drops("file_extractions"),
    Drops("file_classifications"), Drops("file_metadata")>>

EmbeddingTables == <<
    Creates("embeddings", {Owned("file_id", "files")}, {{"file_id"}}),
    Creates("embedding_jobs",
            {Owned("connector_id", "storage_connectors"),
             Loses("enrichment_job_id", "enrichment_jobs"),
             MayName("triggered_by_user_id", "users")}, {}),
    Creates("embedding_events", {Owned("embedding_job_id", "embedding_jobs")}, {}),
    Creates("embedding_progress", {Owned("embedding_job_id", "embedding_jobs")}, {{"embedding_job_id"}})>>

ConversationTables == <<
    Creates("conversations", {Owned("organization_id", "organizations"), Owned("user_id", "users")}, {}),
    Creates("conversation_messages", {Owned("conversation_id", "conversations")}, {}),
    Creates("citations", {Owned("message_id", "conversation_messages"), Owned("file_id", "files")}, {}),
    Creates("search_sessions",
            {Owned("organization_id", "organizations"), Owned("user_id", "users")}, {})>>

EmbeddingDrops == <<
    Drops("search_sessions"), Drops("citations"), Drops("conversation_messages"),
    Drops("conversations"), Drops("embedding_progress"), Drops("embedding_events"),
    Drops("embedding_jobs"), Drops("embeddings")>>

RecommendationTables == <<
    Creates("recommendation_jobs",
            {Owned("organization_id", "organizations"), MayName("triggered_by_user_id", "users")},
            {}),
    Creates("recommendation_events", {Owned("recommendation_job_id", "recommendation_jobs")}, {}),
    Creates("recommendations",
            {Owned("organization_id", "organizations"),
             Owned("recommendation_job_id", "recommendation_jobs")},
            {{"organization_id", "rule_name"}}),
    Creates("insight_records",
            {Owned("organization_id", "organizations"),
             Loses("recommendation_job_id", "recommendation_jobs")}, {})>>

SnapshotTable == <<
    Creates("dashboard_snapshots",
            {Owned("organization_id", "organizations"),
             Loses("recommendation_job_id", "recommendation_jobs")}, {})>>

RecommendationDrops == <<
    Drops("dashboard_snapshots"), Drops("insight_records"), Drops("recommendations"),
    Drops("recommendation_events"), Drops("recommendation_jobs")>>

PlanTables == <<
    Creates("execution_plans",
            {Owned("organization_id", "organizations"),
             Owned("recommendation_id", "recommendations"), Needs("created_by_user_id", "users")},
            {}),
    Creates("execution_steps",
            {Owned("execution_plan_id", "execution_plans"), Owned("target_file_id", "files")}, {}),
    Creates("approval_requests",
            {Owned("execution_plan_id", "execution_plans"),
             Owned("organization_id", "organizations"), Needs("requested_by_user_id", "users")},
            {{"execution_plan_id"}}),
    Creates("approval_decisions",
            {Owned("approval_request_id", "approval_requests"), Needs("decider_user_id", "users")},
            {})>>

JobTables == <<
    Creates("execution_jobs",
            {Owned("execution_plan_id", "execution_plans"),
             Owned("organization_id", "organizations"), MayName("triggered_by_user_id", "users")},
            {}),
    Creates("execution_results",
            {Owned("execution_job_id", "execution_jobs"),
             Owned("execution_step_id", "execution_steps")}, {}),
    Creates("rollback_records",
            {Owned("execution_step_id", "execution_steps"),
             MayName("rolled_back_by_user_id", "users")}, {{"execution_step_id"}}),
    Creates("execution_audits",
            {Owned("organization_id", "organizations"),
             Loses("execution_plan_id", "execution_plans"),
             Loses("execution_job_id", "execution_jobs"), MayName("actor_user_id", "users")}, {})>>

ExecutionDrops == <<
    Drops("execution_audits"), Drops("rollback_records"), Drops("execution_results"),
    Drops("execution_jobs"), Drops("approval_decisions"), Drops("approval_requests"),
    Drops("execution_steps"), Drops("execution_plans")>>

WorkflowTables == <<
    Creates("workflows",
            {Owned("organization_id", "organizations"), Needs("created_by_user_id", "users")}, {}),
    Creates("workflow_versions",
            {Owned("workflow_id", "workflows"), Needs("created_by_user_id", "users")}, {}),
    Creates("workflow_nodes", {Owned("workflow_version_id", "workflow_versions")}, {}),
    Creates("workflow_triggers", {Owned("workflow_id", "workflows")}, {}),
    Creates("workflow_executions",
            {Owned("workflow_id", "workflows"), Owned("workflow_version_id", "workflow_versions"),
             Owned("organization_id", "organizations"), Loses("current_node_id", "workflow_nodes"),
             MayName("triggered_by_user_id", "users")}, {})>>

RunTables == <<
    Creates("workflow_node_executions",
            {Owned("workflow_execution_id", "workflow_executions"),
             Owned("workflow_node_id", "workflow_nodes")}, {}),
    Creates("scheduler_jobs",
            {Owned("workflow_trigger_id", "workflow_triggers"),
             Loses("last_workflow_execution_id", "workflow_executions")}, {{"workflow_trigger_id"}}),
    Creates("workflow_policies",
            {Owned("organization_id", "organizations"), Needs("created_by_user_id", "users")}, {}),
    Creates("notifications",
            {Owned("organization_id", "organizations"), Owned("user_id", "users"),
             Loses("workflow_execution_id", "workflow_executions")}, {})>>

TemplateTable == <<
    Creates("automation_templates", {MayBelong("organization_id", "organizations")}, {})>>

\* approval_requests and approval_decisions learn of workflow nodes and policies.
ApprovalColumns == <<
    AllowsNull("approval_requests", "execution_plan_id"),
    AddsReference("approval_requests",
                  MayBelong("workflow_node_execution_id", "workflow_node_executions")),
    AddsKey("approval_requests", {"workflow_node_execution_id"}),
    AddsCheck("at_least_one_target"),
    AllowsNull("approval_decisions", "decider_user_id"),
    AddsReference("approval_decisions", MayName("decided_by_policy_id", "workflow_policies")),
    AddsCheck("exactly_one_decider")>>

ApprovalDrops == <<
    DropsCheck("exactly_one_decider"),
    DropsReference("approval_decisions", "decided_by_policy_id"),
    ForbidsNull("approval_decisions", "decider_user_id"),
    DropsCheck("at_least_one_target"),
    DropsKey("approval_requests", {"workflow_node_execution_id"}),
    DropsReference("approval_requests", "workflow_node_execution_id"),
    ForbidsNull("approval_requests", "execution_plan_id")>>

AutomationDrops == <<
    Drops("automation_templates"), Drops("notifications"), Drops("workflow_policies"),
    Drops("scheduler_jobs"), Drops("workflow_node_executions"), Drops("workflow_executions"),
    Drops("workflow_triggers"), Drops("workflow_nodes"), Drops("workflow_versions"),
    Drops("workflows")>>

AnalysisTables == <<
    Creates("storage_analysis_jobs",
            {Owned("organization_id", "organizations"), MayName("triggered_by_user_id", "users")},
            {}),
    Creates("storage_analysis_events", {Owned("storage_analysis_job_id", "storage_analysis_jobs")}, {}),
    Creates("duplicate_groups",
            {Owned("organization_id", "organizations"),
             Loses("storage_analysis_job_id", "storage_analysis_jobs"),
             Loses("recommended_keep_file_id", "files")}, {{"organization_id", "checksum"}}),
    Creates("duplicate_group_members",
            {Owned("duplicate_group_id", "duplicate_groups"), Owned("file_id", "files")},
            {{"duplicate_group_id", "file_id"}})>>

AnalysisSnapshotTable == <<
    Creates("storage_analysis_snapshots",
            {Owned("organization_id", "organizations"),
             Loses("storage_analysis_job_id", "storage_analysis_jobs")}, {})>>

AnalysisDrops == <<
    Drops("storage_analysis_snapshots"), Drops("duplicate_group_members"),
    Drops("duplicate_groups"), Drops("storage_analysis_events"), Drops("storage_analysis_jobs")>>

\* A plan may come of a group of duplicates instead of a recommendation...
GroupOrigin == <<
    AllowsNull("execution_plans", "recommendation_id"),
    AddsReference("execution_plans", MayBelong("duplicate_group_id", "duplicate_groups")),
    AddsCheck("exactly_one_origin")>>

GroupOriginDrops == <<
    DropsCheck("exactly_one_origin"),
    DropsReference("execution_plans", "duplicate_group_id"),
    ForbidsNull("execution_plans", "recommendation_id")>>

\* ...and of neither.
AdHocOrigin == <<DropsCheck("exactly_one_origin"), AddsCheck("at_most_one_origin")>>

AdHocOriginDrops == <<DropsCheck("at_most_one_origin"), AddsCheck("exactly_one_origin")>>

IntelligenceTables == <<
    Creates("file_intelligence", {Owned("file_id", "files")}, {{"file_id"}}),
    Creates("intelligence_jobs",
            {Owned("connector_id", "storage_connectors"),
             Loses("enrichment_job_id", "enrichment_jobs"),
             MayName("triggered_by_user_id", "users")}, {}),
    Creates("intelligence_events", {Owned("intelligence_job_id", "intelligence_jobs")}, {}),
    Creates("intelligence_progress",
            {Owned("intelligence_job_id", "intelligence_jobs")}, {{"intelligence_job_id"}})>>

IntelligenceDrops == <<
    Drops("intelligence_progress"), Drops("intelligence_events"), Drops("intelligence_jobs"),
    Drops("file_intelligence")>>

ProviderTable == <<
    Creates("ai_provider_configs", {Owned("organization_id", "organizations")}, {{"organization_id"}})>>

ProviderDrops == <<
    Drops("ai_provider_configs")>>

ArchiveTable == <<
    Creates("archive_jobs",
            {Owned("organization_id", "organizations"),
             Owned("execution_plan_id", "execution_plans"), Needs("created_by_user_id", "users")},
            {{"execution_plan_id"}})>>

ArchiveDrops == <<
    Drops("archive_jobs")>>

-----------------------------------------------------------------------------

\* Alembic's chain of revisions. 0001, 0010, 0015, 0018 and 0019 add an extension
\* or plain columns.
Upgrades == <<
    <<>>, IdentityTables, ConnectorTables, MirrorTables \o ScanTables,
    KnowledgeTables \o EnrichmentTables, EmbeddingTables \o ConversationTables,
    RecommendationTables \o SnapshotTable, PlanTables \o JobTables,
    WorkflowTables \o RunTables \o TemplateTable \o ApprovalColumns, <<>>,
    AnalysisTables \o AnalysisSnapshotTable, GroupOrigin, AdHocOrigin, IntelligenceTables, <<>>,
    ProviderTable, ArchiveTable, <<>>, <<>>>>

Downgrades == <<
    <<>>, IdentityDrops, ConnectorDrops, ScannerDrops, KnowledgeDrops, EmbeddingDrops,
    RecommendationDrops, ExecutionDrops, ApprovalDrops \o AutomationDrops, <<>>, AnalysisDrops,
    GroupOriginDrops, AdHocOriginDrops, IntelligenceDrops, <<>>, ProviderDrops, ArchiveDrops,
    <<>>, <<>>>>

HeadRevision == Len(Upgrades)

\* The rows that are new to a revision's constraints, and the revision that
\* first lets the application store them.
Kinds == {"node request", "policy decision", "group plan", "ad hoc plan"}
Since(kind) == CASE kind \in {"node request", "policy decision"} -> 9
                 [] kind = "group plan" -> 12
                 [] kind = "ad hoc plan" -> 13

\* The rows that have no value in a column, and those that fail a check.
WithoutValue(t, c) ==
    CASE t = "approval_requests" /\ c = "execution_plan_id"  -> {"node request"}
      [] t = "approval_decisions" /\ c = "decider_user_id"   -> {"policy decision"}
      [] t = "execution_plans" /\ c = "recommendation_id"    -> {"group plan", "ad hoc plan"}
Failing(check) == IF check = "exactly_one_origin" THEN {"ad hoc plan"} ELSE {}

VARIABLES
    schema,     \* the schema as the run under way sees it
    base,       \* the revision and the schema that are committed
    run,        \* the run under way: its revision, its next operation, its direction
    stored      \* the kinds of rows there are

vars == <<schema, base, run, stored>>

Empty == [tables |-> {}, refs |-> {}, keys |-> {}, checks |-> {}]
NoRun == [way |-> "none", revision |-> 0, at |-> 0]

\* What an operation makes of a schema.
Apply(s, o) ==
    CASE o.op = "create" -> [s EXCEPT !.tables = @ \cup {o.table},
                                      !.refs = @ \cup {[table |-> o.table, ref |-> r] : r \in o.refs},
                                      !.keys = @ \cup {<<o.table, k>> : k \in o.keys}]
      [] o.op = "drop"   -> [s EXCEPT !.tables = @ \ {o.table},
                                      !.refs = {r \in @ : r.table # o.table},
                                      !.keys = {k \in @ : k[1] # o.table}]
      [] o.op = "refer"  -> [s EXCEPT !.refs = @ \cup {[table |-> o.table, ref |-> o.ref]}]
      [] o.op = "forget" -> [s EXCEPT !.refs = {r \in @ : r.table # o.table \/ r.ref.column # o.column}]
      [] o.op \in {"null", "not null"} ->
             [s EXCEPT !.refs = {IF r.table = o.table /\ r.ref.column = o.column
                                 THEN [r EXCEPT !.ref.null = (o.op = "null")] ELSE r : r \in @}]
      [] o.op = "key"     -> [s EXCEPT !.keys = @ \cup {<<o.table, o.key>>}]
      [] o.op = "unkey"   -> [s EXCEPT !.keys = @ \ {<<o.table, o.key>>}]
      [] o.op = "check"   -> [s EXCEPT !.checks = @ \cup {o.check}]
      [] o.op = "uncheck" -> [s EXCEPT !.checks = @ \ {o.check}]

\* What PostgreSQL asks of the schema before it does so: a table that is referred
\* to exists, and one that another refers to is not dropped.
FitsSchema(s, o) ==
    CASE o.op = "create" ->
             o.table \notin s.tables /\ \A r \in o.refs : r.parent \in s.tables \cup {o.table}
      [] o.op = "drop" ->
             o.table \in s.tables /\ \A r \in s.refs : r.ref.parent = o.table => r.table = o.table
      [] o.op = "refer" -> {o.table, o.ref.parent} \subseteq s.tables
      [] o.op \in {"forget", "null", "not null"} ->
             \E r \in s.refs : r.table = o.table /\ r.ref.column = o.column
      [] o.op = "key"     -> o.table \in s.tables
      [] o.op = "unkey"   -> <<o.table, o.key>> \in s.keys
      [] o.op = "check"   -> o.check \notin s.checks
      [] o.op = "uncheck" -> o.check \in s.checks

\* And of the rows there are.
FitsRows(o) ==
    CASE o.op = "not null" -> stored \cap WithoutValue(o.table, o.column) = {}
      [] o.op = "check"    -> stored \cap Failing(o.check) = {}
      [] OTHER             -> TRUE

Init ==
    /\ schema = Empty /\ base = [revision |-> 0, schema |-> Empty]
    /\ run = NoRun /\ stored = {}

-----------------------------------------------------------------------------

Starts(way) ==
    /\ run = NoRun
    /\ run' = [way |-> way, at |-> 1, revision |-> IF way = "up" THEN base.revision + 1 ELSE base.revision]
    /\ IF way = "up" THEN base.revision < HeadRevision ELSE base.revision > 0
    /\ UNCHANGED <<schema, base, stored>>

Operations == IF run.way = "up" THEN Upgrades[run.revision] ELSE Downgrades[run.revision]

Operates ==
    /\ run # NoRun /\ run.at <= Len(Operations)
    /\ LET o == Operations[run.at]
       IN  /\ FitsSchema(schema, o) /\ FitsRows(o)
           /\ schema' = Apply(schema, o)
    /\ run' = [run EXCEPT !.at = @ + 1]
    /\ UNCHANGED <<base, stored>>

\* `upgrade head` goes on to the next revision in the same transaction.
NextRevision ==
    /\ run.way = "up" /\ run.at > Len(Operations) /\ run.revision < HeadRevision
    /\ run' = [run EXCEPT !.revision = @ + 1, !.at = 1]
    /\ UNCHANGED <<schema, base, stored>>

Commits ==
    /\ run # NoRun /\ run.at > Len(Operations)
    /\ run.way = "up" => run.revision = HeadRevision
    /\ base' = [revision |-> IF run.way = "up" THEN HeadRevision ELSE run.revision - 1, schema |-> schema]
    /\ run' = NoRun
    /\ UNCHANGED <<schema, stored>>

\* An operation is refused, or the connection is lost: the transaction is undone.
Fails ==
    /\ run # NoRun
    /\ schema' = base.schema /\ run' = NoRun
    /\ UNCHANGED <<base, stored>>

\* The application stores a row of a kind that the schema knows, or all are gone.
Stores(kind) ==
    /\ run = NoRun /\ base.revision >= Since(kind)
    /\ stored' = stored \cup {kind}
    /\ UNCHANGED <<schema, base, run>>

Clears ==
    /\ run = NoRun /\ stored # {} /\ stored' = {}
    /\ UNCHANGED <<schema, base, run>>

Next ==
    \/ \E way \in {"up", "down"} : Starts(way)
    \/ Operates \/ NextRevision \/ Commits \/ Fails
    \/ \E kind \in Kinds : Stores(kind)
    \/ Clears

Spec == Init /\ [][Next]_vars

-----------------------------------------------------------------------------
(* Properties *)

TypeOK ==
    /\ schema.tables \subseteq {m.name : m \in Metadata}
    /\ base.revision \in 0 .. HeadRevision /\ stored \subseteq Kinds
    /\ run.way \in {"none", "up", "down"} /\ run.revision \in 0 .. HeadRevision

\* No revision meets a schema that it cannot work on, whichever way it was come
\* by: what is referred to exists, and goes only after what refers to it. Only
\* rows can stand in the way.
RowsAloneRefuse ==
    run # NoRun /\ run.at <= Len(Operations) => FitsSchema(schema, Operations[run.at])

\* The revisions build what the models describe: the tables, the references with
\* what a deletion does to them, and the keys.
HeadIsModels ==
    run = NoRun /\ base.revision = HeadRevision =>
        /\ schema.tables = {m.name : m \in Metadata}
        /\ schema.refs = UNION {{[table |-> m.name, ref |-> r] : r \in m.refs} : m \in Metadata}
        /\ schema.keys = UNION {{<<m.name, k>> : k \in m.keys} : m \in Metadata}

\* downgrade() undoes what upgrade() did and nothing else: the schema of a
\* revision is the one that the upgrades up to it build.
SchemaOf == [n \in 0 .. HeadRevision |->
                FoldLeft(Apply, Empty, FlattenSeq(SubSeq(Upgrades, 1, n)))]
RevisionIsSchema == run = NoRun => schema = SchemaOf[base.revision]
=============================================================================
