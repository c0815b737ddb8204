------------------------------- MODULE Connectors -------------------------------
(***************************************************************************)
(* The Google Workspace connector of one organization: its row, its             *)
(* credentials, the grants Google honours, the calls that connect, verify and   *)
(* disconnect it, and the jobs that ask for an access token meanwhile.          *)
(*                                                                         *)
(* A call reads, talks to Google, and commits what it has decided then. A       *)
(* status is sent only if it differs from the one the session has loaded; a     *)
(* commit or a rollback unloads it. The credentials are updated and deleted by  *)
(* the id of the row that was read.                                            *)
(***************************************************************************)
EXTENDS Naturals, FiniteSets

CONSTANTS
    Clients,   \* API calls at a time
    Jobs,      \* jobs of the worker at a time
    MaxGrants  \* bound on the times a user consents

NoGrant == 0
Grants  == 1 .. MaxGrants

VARIABLES
    status,   \* storage_connectors.status, "none" when there is no row
    cred,     \* connector_credentials
    invites,  \* OAuth states in Redis that nobody has come back with
    given,    \* the consents so far
    alive,    \* the grants that Google honours
    call      \* what each call and each job is doing

rowVars    == <<status, cred>>
googleVars == <<given, alive>>
vars == <<rowVars, googleVars, invites, call>>

Status == {"none", "connected", "error", "disconnected", "reauth"}

\* A row of credentials is known by the grant it was inserted for; "old" once its
\* access token has expired or is about to.
Cred == [row : Grants \cup {NoGrant}, access : Grants \cup {NoGrant},
         refresh : Grants \cup {NoGrant}, old : BOOLEAN]
Holds(row, a, r) == [row |-> row, access |-> a, refresh |-> r, old |-> FALSE]
NoCred  == Holds(NoGrant, NoGrant, NoGrant)
HasCred == cred # NoCred

\* "seen" is the status the session has loaded, "any" when it has none; "row" the
\* credentials in hand, "grant" the one whose token is in hand; "to" the outcome.
Call == [pc : {"idle", "load", "store", "token", "refresh", "save", "use", "mark", "revoke", "drop"},
         seen : Status \cup {"any"}, row : Grants \cup {NoGrant}, grant : Grants \cup {NoGrant},
         to : Status]
Doing(pc, seen, row, g, to) == [pc |-> pc, seen |-> seen, row |-> row, grant |-> g, to |-> to]
Idle == Doing("idle", "none", NoGrant, NoGrant, "none")

TypeOK ==
    /\ status \in Status /\ cred \in Cred
    /\ given \in 0 .. MaxGrants /\ alive \subseteq Grants
    /\ invites \in 0 .. MaxGrants /\ call \in [Clients \cup Jobs -> Call]

Init ==
    /\ status = "none" /\ cred = NoCred
    /\ given = 0 /\ alive = {} /\ invites = 0
    /\ call = [c \in Clients \cup Jobs |-> Idle]

Goes(c, to) == call' = [call EXCEPT ![c] = to]
\* What the commit of a session that sets the status to s leaves.
StatusAfter(seen, s) == IF seen = s THEN status ELSE s

-----------------------------------------------------------------------------
(* ConnectorService: connect *)

\* initiate_connect.
Initiates(c) ==
    /\ call[c].pc = "idle" /\ status # "connected" /\ invites + given < MaxGrants
    /\ invites' = invites + 1
    /\ UNCHANGED <<rowVars, googleVars, call>>

\* The state expires, or its user comes back without a consent.
Lapses ==
    /\ invites > 0
    /\ invites' = invites - 1
    /\ UNCHANGED <<rowVars, googleVars, call>>

\* complete_connect consumes the state and exchanges the code.
Exchanges(c) ==
    /\ call[c].pc = "idle" /\ invites > 0
    /\ invites' = invites - 1
    /\ given' = given + 1 /\ alive' = alive \cup {given + 1}
    /\ Goes(c, Doing("load", "any", NoGrant, given + 1, "connected"))
    /\ UNCHANGED rowVars

LoadsConnector(c) ==
    /\ call[c].pc = "load"
    /\ Goes(c, [call[c] EXCEPT !.pc = "store", !.seen = status])
    /\ UNCHANGED <<rowVars, googleVars, invites>>

\* A second first connection meets the unique index, and stores nothing.
Collides(c) == call[c].seen = "none" /\ status # "none"

\* upsert: the credentials keep their row, whatever was in it.
CredAfter(g) == Holds(IF HasCred THEN cred.row ELSE g, g, g)

Stores(c) ==
    /\ call[c].pc = "store"
    /\ IF Collides(c) THEN UNCHANGED rowVars
       ELSE /\ status' = StatusAfter(call[c].seen, "connected")
            /\ cred' = CredAfter(call[c].grant)
    /\ Goes(c, Idle)
    /\ UNCHANGED <<googleVars, invites>>

-----------------------------------------------------------------------------
(* ConnectorTokenService.get_valid_access_token, for verify and for the jobs *)

Asks(c) ==
    /\ call[c].pc = "idle" /\ status # "none"
    /\ Goes(c, Doing("token", status, NoGrant, NoGrant, "none"))
    /\ UNCHANGED <<rowVars, googleVars, invites>>

\* A failure: verify marks the connector; a job ends, or is retried.
Fails(c, s) ==
    Goes(c, IF c \in Clients THEN [call[c] EXCEPT !.pc = "mark", !.to = s] ELSE Idle)

FindsNothing(c) ==
    /\ call[c].pc = "token" /\ ~ HasCred
    /\ Fails(c, "error")
    /\ UNCHANGED <<rowVars, googleVars, invites>>

\* expires_at against a margin of a minute.
ReadsCred(c) ==
    /\ call[c].pc = "token" /\ HasCred
    /\ Goes(c, IF cred.old
               THEN [call[c] EXCEPT !.pc = "refresh", !.row = cred.row, !.grant = cred.refresh]
               ELSE [call[c] EXCEPT !.pc = "use", !.grant = cred.access])
    /\ UNCHANGED <<rowVars, googleVars, invites>>

Refreshes(c) ==
    /\ call[c].pc = "refresh" /\ call[c].grant \in alive
    /\ Goes(c, [call[c] EXCEPT !.pc = "save"])
    /\ UNCHANGED <<rowVars, googleVars, invites>>

\* invalid_grant: a scan marks the connector as verify does, after a rollback; the
\* other jobs only fail.
NeedsReauth(c) ==
    /\ call[c].pc = "refresh" /\ call[c].grant \notin alive
    /\ \/ Fails(c, "reauth")
       \/ c \in Jobs /\ Goes(c, [call[c] EXCEPT !.pc = "mark", !.seen = "any", !.to = "reauth"])
    /\ UNCHANGED <<rowVars, googleVars, invites>>

\* Google cannot be reached.
Unreachable(c) ==
    /\ call[c].pc \in {"refresh", "use"}
    /\ Fails(c, "error")
    /\ UNCHANGED <<rowVars, googleVars, invites>>

\* update_access_token and its commit; the row may be gone, which ends the call.
CredRefreshed_Upserts(c) == Holds(call[c].row, call[c].grant, call[c].grant)
CredRefreshed(c) ==
    IF cred.row = call[c].row THEN Holds(cred.row, call[c].grant, cred.refresh) ELSE cred

Saves(c) ==
    /\ call[c].pc = "save"
    /\ cred' = CredRefreshed(c)
    /\ Goes(c, IF cred.row = call[c].row THEN [call[c] EXCEPT !.pc = "use", !.seen = "any"]
               ELSE Idle)
    /\ UNCHANGED <<status, googleVars, invites>>

\* verify asks for the account; what a job does with its token is not of interest here.
Uses(c) ==
    /\ call[c].pc = "use"
    /\ Goes(c, IF c \in Jobs THEN Idle
               ELSE [call[c] EXCEPT !.pc = "mark",
                         !.to = IF call[c].grant \in alive THEN "connected" ELSE "error"])
    /\ UNCHANGED <<rowVars, googleVars, invites>>

Marks(c) ==
    /\ call[c].pc = "mark"
    /\ status' = StatusAfter(call[c].seen, call[c].to)
    /\ Goes(c, Idle)
    /\ UNCHANGED <<cred, googleVars, invites>>

-----------------------------------------------------------------------------
(* ConnectorService.disconnect *)

Disconnects(c) ==
    /\ call[c].pc = "idle" /\ status # "none"
    /\ Goes(c, Doing(IF HasCred THEN "revoke" ELSE "drop", status, cred.row, cred.refresh,
                     "disconnected"))
    /\ UNCHANGED <<rowVars, googleVars, invites>>

\* Best effort.
Revokes(c) ==
    /\ call[c].pc = "revoke"
    /\ alive' \in {alive, alive \ {call[c].grant}}
    /\ Goes(c, [call[c] EXCEPT !.pc = "drop"])
    /\ UNCHANGED <<rowVars, given, invites>>

CredDropped(c) == IF cred.row = call[c].row THEN NoCred ELSE cred

Drops(c) ==
    /\ call[c].pc = "drop"
    /\ cred' = CredDropped(c)
    /\ status' = StatusAfter(call[c].seen, "disconnected")
    /\ Goes(c, Idle)
    /\ UNCHANGED <<googleVars, invites>>

-----------------------------------------------------------------------------
(* What may come at any time *)

\* A call raises, is dropped, or its process dies.
Dies(c) ==
    /\ call[c].pc # "idle"
    /\ Goes(c, Idle)
    /\ UNCHANGED <<rowVars, googleVars, invites>>

Ages ==
    /\ HasCred /\ ~ cred.old
    /\ cred' = [cred EXCEPT !.old = TRUE]
    /\ UNCHANGED <<status, googleVars, invites, call>>

\* The user takes a consent back at Google.
Withdraws(g) ==
    /\ g \in alive
    /\ alive' = alive \ {g}
    /\ UNCHANGED <<rowVars, given, invites, call>>

Next ==
    \/ \E c \in Clients :
           \/ Initiates(c) \/ Exchanges(c) \/ LoadsConnector(c) \/ Stores(c)
           \/ Disconnects(c) \/ Revokes(c) \/ Drops(c)
    \/ \E c \in Clients \cup Jobs :
           \/ Asks(c) \/ FindsNothing(c) \/ ReadsCred(c) \/ Refreshes(c) \/ NeedsReauth(c)
           \/ Unreachable(c) \/ Saves(c) \/ Uses(c) \/ Marks(c) \/ Dies(c)
    \/ Lapses \/ Ages \/ \E g \in Grants : Withdraws(g)

Spec == Init /\ [][Next]_vars

-----------------------------------------------------------------------------

\* A connector that says it is connected has the means to be used, and one that was
\* disconnected has kept nothing: "deleted (not just blanked) on disconnect".
StatusMatchesCred ==
    /\ status = "connected" => HasCred
    /\ status \in {"none", "disconnected"} => ~ HasCred

\* The access token is of the grant that refreshes it: no caller is handed a token of
\* another consent, perhaps of another account.
OneGrant == cred.access = cred.refresh
=============================================================================
