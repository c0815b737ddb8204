------------------------------ MODULE RowCascades ------------------------------
(***************************************************************************)
(* What goes with a row. The code deletes rows of eight tables; the references *)
(* of the models decide which rows of the other tables the database deletes     *)
(* with them, which lose the reference, and whether it refuses. Each table has  *)
(* one row here, and every reference is to that row.                           *)
(***************************************************************************)
EXTENDS Models

VARIABLES
    rows,   \* the tables that have their row
    links   \* the references that are not NULL, as <<table, column>>

vars == <<rows, links>>

Tables == {m.name : m \in Metadata}

\* A row that refers to its own kind would be a second row.
References ==
    UNION {{[table |-> m.name, ref |-> r] : r \in {x \in m.refs : x.parent # m.name}} : m \in Metadata}
Link(r) == <<r.table, r.ref.column>>

\* The check constraints.
AtMostOneOrigin(ls) ==
    ~ {<<"execution_plans", "recommendation_id">>, <<"execution_plans", "duplicate_group_id">>} \subseteq ls
AtLeastOneTarget(ls) ==
    \/ <<"approval_requests", "execution_plan_id">> \in ls
    \/ <<"approval_requests", "workflow_node_execution_id">> \in ls
ExactlyOneDecider(ls) ==
    (<<"approval_decisions", "decider_user_id">> \in ls)
        # (<<"approval_decisions", "decided_by_policy_id">> \in ls)

ChecksHold(rs, ls) ==
    /\ "execution_plans" \in rs => AtMostOneOrigin(ls)
    /\ "approval_requests" \in rs => AtLeastOneTarget(ls)
    /\ "approval_decisions" \in rs => ExactlyOneDecider(ls)

\* The references that rows of different kinds have or lack.
Optional == {<<"execution_plans", "recommendation_id">>, <<"execution_plans", "duplicate_group_id">>,
             <<"approval_requests", "execution_plan_id">>,
             <<"approval_requests", "workflow_node_execution_id">>,
             <<"approval_decisions", "decider_user_id">>,
             <<"approval_decisions", "decided_by_policy_id">>,
             <<"files", "parent_folder_id">>, <<"duplicate_groups", "recommended_keep_file_id">>}

\* Whatever refers, and what it refers to, is there.
TypeOK ==
    /\ rows \subseteq Tables
    /\ links \subseteq {Link(r) : r \in {x \in References : {x.table, x.ref.parent} \subseteq rows}}

\* A workflow may have been run or not.
Runs == {"workflow_executions", "workflow_node_executions"}

Init ==
    /\ rows \in {Tables, Tables \ Runs}
    /\ \E missing \in SUBSET Optional :
           links = {Link(r) : r \in {x \in References : {x.table, x.ref.parent} \subseteq rows}}
                       \ missing
    /\ ChecksHold(rows, links)

-----------------------------------------------------------------------------

\* The references in use to a row of ts.
To(ts) == {r \in References : r.table \in rows /\ r.ref.parent \in ts /\ Link(r) \in links}

\* ON DELETE CASCADE: the rows that refer to a deleted one, and so on.
Doomed[ts \in SUBSET Tables] ==
    LET more == ts \cup {r.table : r \in {x \in To(ts) : x.ref.on = "cascade"}}
    IN  IF more = ts THEN ts ELSE Doomed[more]

\* ON DELETE SET NULL.
LinksAfter(gone) ==
    {l \in links : l[1] \notin gone} \ {Link(r) : r \in {x \in To(gone) : x.ref.on = "set null"}}

\* A row that stays refers to one that goes and the reference says nothing of
\* deletions, or what is left fails a check.
Refused(t) ==
    LET gone == Doomed[{t}]
    IN  \/ \E r \in To(gone) : r.ref.on = "refuse" /\ r.table \notin gone
        \/ ~ ChecksHold(rows \ gone, LinksAfter(gone))

Deletes(t) ==
    LET gone == Doomed[{t}]
    IN  /\ t \in rows /\ ~ Refused(t)
        /\ rows' = rows \ gone
        /\ links' = LinksAfter(gone)

\* The scanner: an item that Drive removed or trashed.
ScanDeletesFile   == Deletes("files")
ScanDeletesFolder == Deletes("folders")

\* A disconnected connector loses its tokens, an organization its provider.
DisconnectDeletes    == Deletes("connector_credentials")
ProviderDeletes      == Deletes("ai_provider_configs")

\* Enrichment replaces a file's attributes.
AttributesDeletes == Deletes("knowledge_attributes")

\* Storage analysis drops the groups it no longer sees, and replaces the members
\* of those it does.
DeletesUnseenGroup == Deletes("duplicate_groups")
ReplacesMembers    == Deletes("duplicate_group_members")

\* Mutant: the nodes of a version that ran are replaced as well.
ReplacesNodes_Always == Deletes("workflow_nodes")

\* replace_nodes: only of a draft, which nothing was run from.
ReplacesNodes == "workflow_executions" \notin rows /\ Deletes("workflow_nodes")

\* Rows that are written again, by the same code: their parents are there.
Rewritten == {"files", "folders", "knowledge_attributes", "duplicate_groups",
              "duplicate_group_members", "connector_credentials", "ai_provider_configs"}
Inserts(t) ==
    LET own == {r \in References : r.table = t}
    IN  /\ t \in Rewritten \ rows
        /\ \A r \in own : r.ref.null \/ r.ref.parent \in rows
        /\ rows' = rows \cup {t}
        /\ links' = links \cup {Link(r) : r \in {x \in own : x.ref.parent \in rows}}

Next ==
    \/ ScanDeletesFile \/ ScanDeletesFolder \/ DisconnectDeletes \/ ProviderDeletes
    \/ AttributesDeletes \/ DeletesUnseenGroup \/ ReplacesMembers \/ ReplacesNodes
    \/ \E t \in Rewritten : Inserts(t)

Spec == Init /\ [][Next]_vars

-----------------------------------------------------------------------------
(* Properties *)

\* No deletion the code asks for is refused, whichever rows refer to the deleted
\* one or to one that goes with it: a scan or an analysis would fail on it, again
\* and again.
NeverRefused ==
    \A t \in rows \cap {"files", "folders", "connector_credentials", "ai_provider_configs",
                        "knowledge_attributes", "duplicate_groups", "duplicate_group_members"} :
        ~ Refused(t)

\* Whatever is deleted, the trail of what was done stays: the audits outlive the
\* plans and jobs they tell of, and the runs of a workflow its edits.
Trail == {"audit_logs", "execution_audits", "scan_events", "recommendation_events",
          "workflow_executions", "workflow_node_executions", "notifications"}
KeepsAudits == rows \cap Trail \subseteq rows'
=============================================================================
