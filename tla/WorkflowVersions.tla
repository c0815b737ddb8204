--------------------------- MODULE WorkflowVersions ---------------------------
(***************************************************************************)
(* Workflow Version Management: the versions of one workflow, and the API     *)
(* sessions that create it, open a draft, replace a draft's node graph,       *)
(* publish, and roll back to an older version.                                *)
(*                                                                         *)
(* A session reads, and writes what it has decided in one commit. SQLAlchemy  *)
(* writes a column only if the value the session has loaded differs from the   *)
(* new one, so `seen`, the statuses a session has loaded, is part of its state. *)
(***************************************************************************)
EXTENDS Naturals, FiniteSets

CONSTANTS
    Clients,      \* API sessions at a time
    MaxVersions,  \* bound on the versions of the workflow
    Graphs,       \* the node graphs that are submitted, each once
    MaxDeaths     \* bound on sessions that end before their commit

NoVersion == 0
Versions == 1 .. MaxVersions

VARIABLES
    status,    \* workflow_versions.status
    number,    \* workflow_versions.version_number
    nodes,     \* the submitted graphs whose nodes a version has: one, as a rule
    session,   \* what each API session is doing
    used,      \* the graphs submitted so far
    deaths

tableVars == <<status, number, nodes>>
vars == <<tableVars, session, used, deaths>>

Status == {"none", "draft", "published", "superseded"}
Exists(v) == status[v] # "none"
Published == {v \in Versions : status[v] = "published"}

\* "version" is the one in hand, "other" the published one that was found, or the
\* latest one; "listed" the graphs whose nodes are to be deleted.
Session == [pc : {"idle", "seed", "number", "insert", "replace", "demote", "commit"},
            version : Versions \cup {NoVersion}, other : Versions \cup {NoVersion},
            number : Nat, listed : SUBSET Graphs, seen : [Versions -> Status]]
Nothing == [v \in Versions |-> "none"]
Doing(pc, v, other, n, listed, seen) ==
    [pc |-> pc, version |-> v, other |-> other, number |-> n, listed |-> listed, seen |-> seen]
Idle == Doing("idle", NoVersion, NoVersion, 0, {}, Nothing)

TypeOK ==
    /\ status \in [Versions -> Status] /\ number \in [Versions -> Nat]
    /\ nodes \in [Versions -> SUBSET Graphs] /\ used \subseteq Graphs
    /\ session \in [Clients -> Session] /\ deaths \in 0 .. MaxDeaths

Init ==
    /\ status = Nothing
    /\ number = [v \in Versions |-> 0]
    /\ nodes = [v \in Versions |-> {}]
    /\ session = [c \in Clients |-> Idle]
    /\ used = {} /\ deaths = 0

-----------------------------------------------------------------------------

\* Versions of the highest number: the order of equal numbers is the database's.
Latest(S) == {v \in S : \A o \in S : number[o] <= number[v]}
Existing == {v \in Versions : Exists(v)}

\* The commit that inserts a version: unused ids are taken in order.
Inserts(v, n, graphs) ==
    /\ ~ Exists(v) /\ \A o \in Versions : o < v => Exists(o)
    /\ status' = [status EXCEPT ![v] = "draft"]
    /\ number' = [number EXCEPT ![v] = n]
    /\ nodes' = [nodes EXCEPT ![v] = graphs]

Creates(c) ==
    /\ session[c].pc = "idle" /\ Existing = {}
    /\ Inserts(1, 1, {})
    /\ UNCHANGED <<session, used, deaths>>

\* The workflow is the copy of another one, whose graph is g.
Clones(c, g) ==
    /\ session[c].pc = "idle" /\ Existing = {}
    /\ Inserts(1, 1, {g})
    /\ used' = used \cup {g}
    /\ UNCHANGED <<session, deaths>>

\* AutomationTemplateService.apply commits the workflow first, its nodes last.
AppliesTemplate(c) ==
    /\ session[c].pc = "idle" /\ Existing = {}
    /\ Inserts(1, 1, {})
    /\ session' = [session EXCEPT ![c] = Doing("seed", NoVersion, NoVersion, 0, {}, Nothing)]
    /\ UNCHANGED <<used, deaths>>

-----------------------------------------------------------------------------
(* get_or_create_draft *)

\* A latest version that is a draft is returned as it is.
OpensDraft(c) ==
    /\ session[c].pc = "idle"
    /\ \E v \in Latest(Existing) :
           /\ status[v] # "draft"
           /\ session' = [session EXCEPT ![c] = Doing("number", NoVersion, v, 0, {}, Nothing)]
    /\ UNCHANGED <<tableVars, used, deaths>>

NextNumber == CHOOSE n \in 1 .. MaxVersions + 1 : \E v \in Latest(Existing) : n = number[v] + 1

ReadsNumber(c) ==
    /\ session[c].pc = "number"
    /\ session' = [session EXCEPT ![c] =
           Doing("insert", NoVersion, session[c].other, NextNumber, {}, Nothing)]
    /\ UNCHANGED <<tableVars, used, deaths>>

InsertsDraft(c) ==
    /\ session[c].pc = "insert"
    /\ \E v \in Versions : Inserts(v, session[c].number, nodes[session[c].other])
    /\ session' = [session EXCEPT ![c] = Idle]
    /\ UNCHANGED <<used, deaths>>

-----------------------------------------------------------------------------
(* replace_nodes *)

Editable_Any(v) == Exists(v)
Editable(v) == status[v] = "draft"

\* The status is checked, the nodes to delete are listed. A template goes on
\* with the draft that get_or_create_draft returns.
ReadsGraph(c, v) ==
    /\ \/ session[c].pc = "idle"
       \/ session[c].pc = "seed" /\ v \in Latest(Existing)
    /\ Editable(v)
    /\ session' = [session EXCEPT ![c] = Doing("replace", v, NoVersion, 0, nodes[v], Nothing)]
    /\ UNCHANGED <<tableVars, used, deaths>>

\* Nodes that are gone already are deleted without complaint.
GraphAfter(c, g) == (nodes[session[c].version] \ session[c].listed) \cup {g}

Replaces(c, g) ==
    /\ session[c].pc = "replace"
    /\ g \notin used
    /\ nodes' = [nodes EXCEPT ![session[c].version] = GraphAfter(c, g)]
    /\ used' = used \cup {g}
    /\ session' = [session EXCEPT ![c] = Idle]
    /\ UNCHANGED <<status, number, deaths>>

-----------------------------------------------------------------------------
(* publish and rollback_to_version *)

\* list_for_workflow loads every version of the workflow.
ReadsToPublish(c, v) ==
    /\ session[c].pc = "idle"
    /\ v \in Latest({o \in Versions : status[o] = "draft"})
    /\ nodes[v] # {}
    /\ session' = [session EXCEPT ![c] = Doing("demote", v, NoVersion, 0, {}, status)]
    /\ UNCHANGED <<tableVars, used, deaths>>

ReadsToRestore(c, v) ==
    /\ session[c].pc = "idle"
    /\ status[v] \in {"published", "superseded"}
    /\ session' = [session EXCEPT ![c] =
           Doing("demote", v, NoVersion, 0, {}, [Nothing EXCEPT ![v] = status[v]])]
    /\ UNCHANGED <<tableVars, used, deaths>>

\* get_published: the first row, of however many there are.
ReadsPublished(c) ==
    LET s == session[c]
        found(o) == Doing("commit", s.version, o, 0, {},
                        IF o # NoVersion /\ s.seen[o] = "none"
                        THEN [s.seen EXCEPT ![o] = "published"] ELSE s.seen)
    IN  /\ s.pc = "demote"
        /\ \E o \in IF Published = {} THEN {NoVersion} ELSE Published :
               session' = [session EXCEPT ![c] = found(o)]
        /\ UNCHANGED <<tableVars, used, deaths>>

\* What the commit of a publication leaves: a status is sent when it is not the
\* one the session has loaded.
StatusAfter_Kept(s) == [status EXCEPT ![s.version] = "published"]
StatusAfter(s) ==
    [v \in Versions |->
        IF v = s.version /\ s.seen[v] # "published" THEN "published"
        ELSE IF v = s.other /\ v # s.version /\ s.seen[v] # "superseded" THEN "superseded"
        ELSE status[v]]

Publishes(c) ==
    /\ session[c].pc = "commit"
    /\ status' = StatusAfter(session[c])
    /\ session' = [session EXCEPT ![c] = Idle]
    /\ UNCHANGED <<number, nodes, used, deaths>>

\* The process dies, or the request is dropped, before the commit.
Dies(c) ==
    /\ session[c].pc # "idle" /\ deaths < MaxDeaths
    /\ deaths' = deaths + 1
    /\ session' = [session EXCEPT ![c] = Idle]
    /\ UNCHANGED <<tableVars, used>>

-----------------------------------------------------------------------------

Next ==
    \E c \in Clients :
        \/ Creates(c) \/ AppliesTemplate(c)
        \/ OpensDraft(c) \/ ReadsNumber(c) \/ InsertsDraft(c)
        \/ \E v \in Versions : ReadsGraph(c, v) \/ ReadsToPublish(c, v) \/ ReadsToRestore(c, v)
        \/ \E g \in Graphs : Clones(c, g) \/ Replaces(c, g)
        \/ ReadsPublished(c) \/ Publishes(c) \/ Dies(c)

Spec == Init /\ [][Next]_vars

-----------------------------------------------------------------------------
(* Properties *)

\* At most one version of a workflow is published: publish supersedes the one
\* that was, and no constraint of the database says so.
OnePublished == Cardinality(Published) <= 1

\* Once a workflow has a published version it always has one: scheduled runs do
\* not stop because somebody published or rolled back.
KeepsPublished == Published # {} => Published' # {}

\* A version that is, or has been, published keeps its nodes: replace_nodes edits
\* drafts only, so the meaning of past runs does not change.
KeepsNodes ==
    \A v \in Versions : status[v] \in {"published", "superseded"} => nodes'[v] = nodes[v]
Frozen == [][KeepsNodes]_vars

\* The nodes of a version come from one submission: replace_nodes replaces the
\* entire graph, so there is one TRIGGER to start at.
OneGraph == \A v \in Versions : Cardinality(nodes[v]) <= 1

\* What is published has nodes to run.
PublishedHasNodes == \A v \in Published : nodes[v] # {}

\* There is one draft to edit, and no two versions have the same number.
OneDraft ==
    /\ Cardinality({v \in Versions : status[v] = "draft"}) <= 1
    /\ \A v, o \in Existing : v # o => number[v] # number[o]

\* A draft that is opened while a version is published starts as its copy.
DraftCopiesPublished ==
    [][\A v \in Versions : ~ Exists(v) /\ status'[v] = "draft" /\ Published # {}
           => \E o \in Published : nodes'[v] = nodes[o]]_vars
=============================================================================
