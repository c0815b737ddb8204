---------------------------- MODULE PolicyVersions ----------------------------
(***************************************************************************)
(* The Policy Engine: the versions of one policy_key of one organization, the *)
(* API sessions that draft, publish and archive them, and what an             *)
(* EXECUTE_ACTION node and the policy list read of them. A status is written   *)
(* only if it differs from the one the session has loaded.                    *)
(***************************************************************************)
EXTENDS Naturals, FiniteSets

CONSTANTS
    Clients,      \* API sessions at a time
    MaxVersions   \* bound on the versions of the policy

NoVersion == 0
Versions == 1 .. MaxVersions

VARIABLES
    status,    \* workflow_policies.status
    number,    \* workflow_policies.version
    session,   \* what each API session is doing
    chosen,    \* the version that was published last, unless archived since
    applied    \* the version the last EXECUTE_ACTION node used

vars == <<status, number, session, chosen, applied>>

Status == {"none", "draft", "published", "archived"}
Maybe == Versions \cup {NoVersion}
Existing == {v \in Versions : status[v] # "none"}
Published == {v \in Versions : status[v] = "published"}

Doing(pc, v, other, n, seen) ==
    [pc |-> pc, version |-> v, other |-> other, number |-> n, seen |-> seen]
Idle == Doing("idle", NoVersion, NoVersion, 0, "none")

\* "seen" is the status that get_owned has loaded.
TypeOK ==
    /\ status \in [Versions -> Status] /\ number \in [Versions -> Nat]
    /\ chosen \in Maybe /\ applied \in Maybe
    /\ session \in [Clients -> [pc : {"idle", "insert", "demote", "commit", "archive"},
                                version : Maybe, other : Maybe, number : Nat, seen : Status]]

Init ==
    /\ status = [v \in Versions |-> "none"]
    /\ number = [v \in Versions |-> 0]
    /\ session = [c \in Clients |-> Idle]
    /\ chosen = NoVersion /\ applied = NoVersion

-----------------------------------------------------------------------------

NextNumber == 1 + CHOOSE n \in 0 .. MaxVersions :
                      /\ n = 0 \/ \E v \in Existing : number[v] = n
                      /\ \A v \in Existing : number[v] <= n

\* MaxVersions bounds the rows there are and those that are being inserted.
ReadsNumber(c) ==
    /\ session[c].pc = "idle"
    /\ Cardinality(Existing) + Cardinality({o \in Clients : session[o].pc = "insert"}) < MaxVersions
    /\ session' = [session EXCEPT ![c] = Doing("insert", NoVersion, NoVersion, NextNumber, "none")]
    /\ UNCHANGED <<status, number, chosen, applied>>

\* An edit is a row of its own; unused ids are taken in order.
InsertsDraft(c) ==
    /\ session[c].pc = "insert"
    /\ \E v \in Versions \ Existing :
           /\ \A o \in Versions : o < v => o \in Existing
           /\ status' = [status EXCEPT ![v] = "draft"]
           /\ number' = [number EXCEPT ![v] = session[c].number]
    /\ session' = [session EXCEPT ![c] = Idle]
    /\ UNCHANGED <<chosen, applied>>

\* A version of any status can be published, an archived one as well.
ReadsToPublish(c, v) ==
    /\ session[c].pc = "idle" /\ v \in Existing
    /\ session' = [session EXCEPT ![c] = Doing("demote", v, NoVersion, 0, status[v])]
    /\ UNCHANGED <<status, number, chosen, applied>>

ReadsPublished(c) ==
    /\ session[c].pc = "demote"
    /\ \E o \in IF Published = {} THEN {NoVersion} ELSE Published :
           session' = [session EXCEPT ![c].pc = "commit", ![c].other = o]
    /\ UNCHANGED <<status, number, chosen, applied>>

StatusAfter(s) ==
    [v \in Versions |->
        IF v = s.version /\ s.seen # "published" THEN "published"
        ELSE IF v = s.other /\ v # s.version THEN "archived"
        ELSE status[v]]

Publishes(c) ==
    /\ session[c].pc = "commit"
    /\ status' = StatusAfter(session[c])
    /\ chosen' = session[c].version
    /\ session' = [session EXCEPT ![c] = Idle]
    /\ UNCHANGED <<number, applied>>

ReadsToArchive(c, v) ==
    /\ session[c].pc = "idle" /\ v \in Existing
    /\ session' = [session EXCEPT ![c] = Doing("archive", v, NoVersion, 0, status[v])]
    /\ UNCHANGED <<status, number, chosen, applied>>

Archives(c) ==
    LET s == session[c]
    IN  /\ s.pc = "archive"
        /\ \/ /\ s.seen # "archived"
              /\ status' = [status EXCEPT ![s.version] = "archived"]
              /\ chosen' = IF chosen = s.version THEN NoVersion ELSE chosen
           \/ s.seen = "archived" /\ UNCHANGED <<status, chosen>>
        /\ session' = [session EXCEPT ![c] = Idle]
        /\ UNCHANGED <<number, applied>>

\* An EXECUTE_ACTION node takes the first published row, whichever that is.
Applies(v) ==
    /\ v \in Published
    /\ applied' = v
    /\ UNCHANGED <<status, number, session, chosen>>

\* list_for_organization: the row of the highest version.
Listed == {v \in Existing : \A o \in Existing : number[o] <= number[v]}

-----------------------------------------------------------------------------

Next ==
    \/ \E c \in Clients :
           \/ ReadsNumber(c) \/ InsertsDraft(c) \/ ReadsPublished(c) \/ Publishes(c) \/ Archives(c)
           \/ \E v \in Versions : ReadsToPublish(c, v) \/ ReadsToArchive(c, v)
    \/ \E v \in Versions : Applies(v)

Spec == Init /\ [][Next]_vars

-----------------------------------------------------------------------------
(* Properties *)

\* The version in force is the one that was published last, and none other.
LastPublishedRules == Published \subseteq {chosen}

\* At most one version of a policy is published.
OnePublished == Cardinality(Published) <= 1

\* A workflow acts on the version that was published last, never on a draft, an
\* archived one or one that a later publication replaced.
AppliesInForce == applied' # applied => applied' = chosen

\* A version number names one row of the history.
NumbersDistinct == \A v, o \in Existing : v # o => number[v] # number[o]

\* The policy list shows the published version of a policy that has one.
ListsPublished == Published # {} => Listed \subseteq Published
=============================================================================
