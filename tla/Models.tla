-------------------------------- MODULE Models --------------------------------
(***************************************************************************)
(* The ORM's picture of the database, the models of vault_shared.db.models:   *)
(* each table with its references to other tables and its keys. Columns that  *)
(* refer to nothing, and the generated primary keys, are left out. What the    *)
(* database does to a row when the row it refers to is deleted is part of the *)
(* reference.                                                              *)
(***************************************************************************)
EXTENDS FiniteSets

Reference(column, parent, on, null) ==
    [column |-> column, parent |-> parent, on |-> on, null |-> null]

Owned(column, parent)     == Reference(column, parent, "cascade", FALSE)
MayBelong(column, parent) == Reference(column, parent, "cascade", TRUE)
Loses(column, parent)     == Reference(column, parent, "set null", TRUE)
Needs(column, parent)     == Reference(column, parent, "refuse", FALSE)
MayName(column, parent)   == Reference(column, parent, "refuse", TRUE)

Table(name, refs, keys) == [name |-> name, refs |-> refs, keys |-> keys]

-----------------------------------------------------------------------------

AIProviderConfig ==
    Table("ai_provider_configs", {Owned("organization_id", "organizations")}, {{"organization_id"}})
ApprovalDecision ==
    Table("approval_decisions",
          {Owned("approval_request_id", "approval_requests"), MayName("decider_user_id", "users"),
           MayName("decided_by_policy_id", "workflow_policies")}, {})
ApprovalRequest ==
    Table("approval_requests",
          {MayBelong("execution_plan_id", "execution_plans"),
           MayBelong("workflow_node_execution_id", "workflow_node_executions"),
           Owned("organization_id", "organizations"), Needs("requested_by_user_id", "users")},
          {{"execution_plan_id"}, {"workflow_node_execution_id"}})
ArchiveJob ==
    Table("archive_jobs",
          {Owned("organization_id", "organizations"), Owned("execution_plan_id", "execution_plans"),
           Needs("created_by_user_id", "users")}, {{"execution_plan_id"}})
AuditLog ==
    Table("audit_logs", {MayName("organization_id", "organizations"), MayName("user_id", "users")}, {})
AutomationTemplate ==
    Table("automation_templates", {MayBelong("organization_id", "organizations")}, {})
Citation ==
    Table("citations", {Owned("message_id", "conversation_messages"), Owned("file_id", "files")}, {})
ConnectorCredentials ==
    Table("connector_credentials", {Owned("connector_id", "storage_connectors")}, {{"connector_id"}})
Conversation ==
    Table("conversations", {Owned("organization_id", "organizations"), Owned("user_id", "users")}, {})
ConversationMessage ==
    Table("conversation_messages", {Owned("conversation_id", "conversations")}, {})
DashboardSnapshot ==
    Table("dashboard_snapshots",
          {Owned("organization_id", "organizations"),
           Loses("recommendation_job_id", "recommendation_jobs")}, {})
DuplicateGroup ==
    Table("duplicate_groups",
          {Owned("organization_id", "organizations"),
           Loses("storage_analysis_job_id", "storage_analysis_jobs"),
           Loses("recommended_keep_file_id", "files")}, {{"organization_id", "checksum"}})
DuplicateGroupMember ==
    Table("duplicate_group_members",
          {Owned("duplicate_group_id", "duplicate_groups"), Owned("file_id", "files")},
          {{"duplicate_group_id", "file_id"}})
Embedding ==
    Table("embeddings", {Owned("file_id", "files")}, {{"file_id"}})
EmbeddingEvent ==
    Table("embedding_events", {Owned("embedding_job_id", "embedding_jobs")}, {})
EmbeddingJob ==
    Table("embedding_jobs",
          {Owned("connector_id", "storage_connectors"),
           Loses("enrichment_job_id", "enrichment_jobs"), MayName("triggered_by_user_id", "users")},
          {})
EmbeddingProgress ==
    Table("embedding_progress", {Owned("embedding_job_id", "embedding_jobs")}, {{"embedding_job_id"}})
EnrichmentEvent ==
    Table("enrichment_events", {Owned("enrichment_job_id", "enrichment_jobs")}, {})
EnrichmentJob ==
    Table("enrichment_jobs",
          {Owned("connector_id", "storage_connectors"), Loses("scan_job_id", "scan_jobs"),
           MayName("triggered_by_user_id", "users")}, {})
EnrichmentProgress ==
    Table("enrichment_progress",
          {Owned("enrichment_job_id", "enrichment_jobs")}, {{"enrichment_job_id"}})
ExecutionAudit ==
    Table("execution_audits",
          {Owned("organization_id", "organizations"), Loses("execution_plan_id", "execution_plans"),
           Loses("execution_job_id", "execution_jobs"), MayName("actor_user_id", "users")}, {})
ExecutionJob ==
    Table("execution_jobs",
          {Owned("execution_plan_id", "execution_plans"), Owned("organization_id", "organizations"),
           MayName("triggered_by_user_id", "users")}, {})
ExecutionPlan ==
    Table("execution_plans",
          {Owned("organization_id", "organizations"),
           MayBelong("recommendation_id", "recommendations"),
           MayBelong("duplicate_group_id", "duplicate_groups"),
           Needs("created_by_user_id", "users")}, {})
ExecutionResult ==
    Table("execution_results",
          {Owned("execution_job_id", "execution_jobs"),
           Owned("execution_step_id", "execution_steps")}, {})
ExecutionStep ==
    Table("execution_steps",
          {Owned("execution_plan_id", "execution_plans"), Owned("target_file_id", "files")}, {})
File ==
    Table("files",
          {Owned("storage_source_id", "storage_sources"), MayBelong("parent_folder_id", "folders")},
          {{"storage_source_id", "provider_file_id"}})
FileClassification ==
    Table("file_classifications", {Owned("file_id", "files")}, {{"file_id"}})
FileExtraction ==
    Table("file_extractions", {Owned("file_id", "files")}, {{"file_id"}})
FileIntelligence ==
    Table("file_intelligence", {Owned("file_id", "files")}, {{"file_id"}})
FileMetadata ==
    Table("file_metadata", {Owned("file_id", "files")}, {{"file_id"}})
FileRelationship ==
    Table("file_relationships",
          {Owned("connector_id", "storage_connectors"), Owned("file_id", "files"),
           Owned("related_file_id", "files")},
          {{"file_id", "related_file_id", "relationship_type"}})
Folder ==
    Table("folders",
          {Owned("storage_source_id", "storage_sources"), MayBelong("parent_folder_id", "folders")},
          {{"storage_source_id", "provider_file_id"}})
InsightRecord ==
    Table("insight_records",
          {Owned("organization_id", "organizations"),
           Loses("recommendation_job_id", "recommendation_jobs")}, {})
IntelligenceEvent ==
    Table("intelligence_events", {Owned("intelligence_job_id", "intelligence_jobs")}, {})
IntelligenceJob ==
    Table("intelligence_jobs",
          {Owned("connector_id", "storage_connectors"),
           Loses("enrichment_job_id", "enrichment_jobs"), MayName("triggered_by_user_id", "users")},
          {})
IntelligenceProgress ==
    Table("intelligence_progress",
          {Owned("intelligence_job_id", "intelligence_jobs")}, {{"intelligence_job_id"}})
KnowledgeAttribute ==
    Table("knowledge_attributes", {Owned("file_id", "files")}, {{"file_id", "attribute_type", "value"}})
Notification ==
    Table("notifications",
          {Owned("organization_id", "organizations"), Owned("user_id", "users"),
           Loses("workflow_execution_id", "workflow_executions")}, {})
Organization ==
    Table("organizations", {}, {{"slug"}})
Recommendation ==
    Table("recommendations",
          {Owned("organization_id", "organizations"),
           Owned("recommendation_job_id", "recommendation_jobs")},
          {{"organization_id", "rule_name"}})
RecommendationEvent ==
    Table("recommendation_events", {Owned("recommendation_job_id", "recommendation_jobs")}, {})
RecommendationJob ==
    Table("recommendation_jobs",
          {Owned("organization_id", "organizations"), MayName("triggered_by_user_id", "users")}, {})
RefreshToken ==
    Table("refresh_tokens",
          {Owned("user_id", "users"), MayName("replaced_by_id", "refresh_tokens")},
          {{"token_hash"}})
Role ==
    Table("roles", {}, {{"name"}})
RollbackRecord ==
    Table("rollback_records",
          {Owned("execution_step_id", "execution_steps"),
           MayName("rolled_back_by_user_id", "users")}, {{"execution_step_id"}})
ScanEvent ==
    Table("scan_events", {Owned("scan_job_id", "scan_jobs")}, {})
ScanJob ==
    Table("scan_jobs",
          {Owned("connector_id", "storage_connectors"), MayName("triggered_by_user_id", "users")},
          {})
ScanProgress ==
    Table("scan_progress", {Owned("scan_job_id", "scan_jobs")}, {{"scan_job_id"}})
SchedulerJob ==
    Table("scheduler_jobs",
          {Owned("workflow_trigger_id", "workflow_triggers"),
           Loses("last_workflow_execution_id", "workflow_executions")}, {{"workflow_trigger_id"}})
SearchSession ==
    Table("search_sessions", {Owned("organization_id", "organizations"), Owned("user_id", "users")}, {})
StorageAnalysisEvent ==
    Table("storage_analysis_events", {Owned("storage_analysis_job_id", "storage_analysis_jobs")}, {})
StorageAnalysisJob ==
    Table("storage_analysis_jobs",
          {Owned("organization_id", "organizations"), MayName("triggered_by_user_id", "users")}, {})
StorageAnalysisSnapshot ==
    Table("storage_analysis_snapshots",
          {Owned("organization_id", "organizations"),
           Loses("storage_analysis_job_id", "storage_analysis_jobs")}, {})
StorageConnector ==
    Table("storage_connectors",
          {Owned("organization_id", "organizations"), MayName("connected_by_user_id", "users")},
          {{"organization_id", "provider"}})
StorageSource ==
    Table("storage_sources",
          {Owned("connector_id", "storage_connectors")}, {{"connector_id", "provider_drive_id"}})
User ==
    Table("users",
          {Owned("organization_id", "organizations"), Needs("role_id", "roles")},
          {{"google_sub"}, {"email"}})
Workflow ==
    Table("workflows",
          {Owned("organization_id", "organizations"), Needs("created_by_user_id", "users")}, {})
WorkflowExecution ==
    Table("workflow_executions",
          {Owned("workflow_id", "workflows"), Owned("workflow_version_id", "workflow_versions"),
           Owned("organization_id", "organizations"), Loses("current_node_id", "workflow_nodes"),
           MayName("triggered_by_user_id", "users")}, {})
WorkflowNode ==
    Table("workflow_nodes", {Owned("workflow_version_id", "workflow_versions")}, {})
WorkflowNodeExecution ==
    Table("workflow_node_executions",
          {Owned("workflow_execution_id", "workflow_executions"),
           Owned("workflow_node_id", "workflow_nodes")}, {})
WorkflowPolicy ==
    Table("workflow_policies",
          {Owned("organization_id", "organizations"), Needs("created_by_user_id", "users")}, {})
WorkflowTrigger ==
    Table("workflow_triggers", {Owned("workflow_id", "workflows")}, {})
WorkflowVersion ==
    Table("workflow_versions",
          {Owned("workflow_id", "workflows"), Needs("created_by_user_id", "users")}, {})

\* Base.metadata: every model registers its table.
Metadata == {
    AIProviderConfig, ApprovalDecision, ApprovalRequest, ArchiveJob, AuditLog, AutomationTemplate,
    Citation, ConnectorCredentials, Conversation, ConversationMessage, DashboardSnapshot,
    DuplicateGroup, DuplicateGroupMember, Embedding, EmbeddingEvent, EmbeddingJob,
    EmbeddingProgress, EnrichmentEvent, EnrichmentJob, EnrichmentProgress, ExecutionAudit,
    ExecutionJob, ExecutionPlan, ExecutionResult, ExecutionStep, File, FileClassification,
    FileExtraction, FileIntelligence, FileMetadata, FileRelationship, Folder, InsightRecord,
    IntelligenceEvent, IntelligenceJob, IntelligenceProgress, KnowledgeAttribute, Notification,
    Organization, Recommendation, RecommendationEvent, RecommendationJob, RefreshToken, Role,
    RollbackRecord, ScanEvent, ScanJob, ScanProgress, SchedulerJob, SearchSession,
    StorageAnalysisEvent, StorageAnalysisJob, StorageAnalysisSnapshot, StorageConnector,
    StorageSource, User, Workflow, WorkflowExecution, WorkflowNode, WorkflowNodeExecution,
    WorkflowPolicy, WorkflowTrigger, WorkflowVersion}
=============================================================================
