--------------------------------- MODULE SignIn ---------------------------------
(***************************************************************************)
(* The sessions of one user (ADR-013): refresh tokens that are rotated at each  *)
(* use, the browsers that keep the last one in a cookie and a short-lived       *)
(* access token in memory, and the requests in flight. A request that is        *)
(* answered 401 refreshes the session once and is sent again.                   *)
(*                                                                         *)
(* Each request refreshes for itself: nothing in the client lets those that     *)
(* are refused at the same time share one refresh.                              *)
(***************************************************************************)
EXTENDS Naturals, FiniteSets

CONSTANTS
    Browsers,
    MaxParallel,  \* bound on the requests that a browser has in flight at a time
    MaxTokens,    \* bound on the refresh tokens that are issued
    MaxLosses     \* bound on answers and calls that are lost

Requests     == Browsers \X (1 .. MaxParallel)
BrowserOf(r) == r[1]

NoCookie == 0
Tokens  == 1 .. MaxTokens

VARIABLES
    token,     \* refresh_tokens: revoked_at is null, or it is not
    expired,   \* the tokens whose expires_at has passed
    login,     \* the first token of the sign-in that a token goes back to
    cookie,    \* the refresh cookie of each browser
    access,    \* session.ts: the access token in memory
    status,    \* auth-store.ts: what the page knows of the user
    call,      \* the requests in flight
    losses

tokenVars   == <<token, expired, login>>
browserVars == <<cookie, access, status>>
vars == <<tokenVars, browserVars, call, losses>>

\* A "sent" request will be answered 401; "refresh" has the cookie it was sent with,
\* "issue" has been found valid, "answer" brings a new cookie or a 401.
Call == [pc : {"idle", "sent", "refresh", "issue", "answer"},
         token : Tokens \cup {NoCookie}, new : Tokens \cup {NoCookie}]
Doing(pc, t, new) == [pc |-> pc, token |-> t, new |-> new]
Idle == Doing("idle", NoCookie, NoCookie)

TypeOK ==
    /\ token \in [Tokens -> {"none", "valid", "revoked"}] /\ expired \subseteq Tokens
    /\ login \in [Tokens -> Tokens \cup {NoCookie}]
    /\ cookie \in [Browsers -> Tokens \cup {NoCookie}]
    /\ access \in [Browsers -> {"none", "fresh", "stale"}]
    /\ status \in [Browsers -> {"loading", "authenticated", "unauthenticated"}]
    /\ call \in [Requests -> Call] /\ losses \in 0 .. MaxLosses

Init ==
    /\ token = [t \in Tokens |-> "none"] /\ expired = {}
    /\ login = [t \in Tokens |-> NoCookie]
    /\ cookie = [b \in Browsers |-> NoCookie]
    /\ access = [b \in Browsers |-> "none"]
    /\ status = [b \in Browsers |-> "unauthenticated"]
    /\ call = [r \in Requests |-> Idle] /\ losses = 0

Quiet(b) == \A r \in Requests : BrowserOf(r) = b => call[r].pc = "idle"
Goes(r, c) == call' = [call EXCEPT ![r] = c]

-----------------------------------------------------------------------------
(* AuthService *)

\* _issue_session: ids are taken in order.
Unused(t) == token[t] = "none" /\ \A o \in Tokens : o < t => token[o] # "none"

\* complete_google_login, of a user who is known.
LogsIn(r) ==
    /\ Quiet(BrowserOf(r)) /\ status[BrowserOf(r)] = "unauthenticated"
    /\ \E t \in Tokens :
           /\ Unused(t)
           /\ token' = [token EXCEPT ![t] = "valid"]
           /\ login' = [login EXCEPT ![t] = t]
           /\ Goes(r, Doing("answer", NoCookie, t))
    /\ UNCHANGED <<expired, browserVars, losses>>

\* refresh_session: no such cookie, or one that has expired.
Rejects(r) ==
    LET t == call[r].token
    IN  /\ call[r].pc = "refresh"
        /\ t \in {NoCookie} \cup {o \in expired : token[o] = "valid"}
        /\ Goes(r, Doing("answer", t, NoCookie))
        /\ UNCHANGED <<tokenVars, browserVars, losses>>

\* A token that was rotated out, or logged out, takes all others along.
AfterReuse == [o \in Tokens |-> IF token[o] = "valid" THEN "revoked" ELSE token[o]]
DetectsReuse(r) ==
    LET t == call[r].token
    IN  /\ call[r].pc = "refresh" /\ t # NoCookie /\ token[t] = "revoked"
        /\ token' = AfterReuse
        /\ Goes(r, Doing("answer", t, NoCookie))
        /\ UNCHANGED <<expired, login, browserVars, losses>>

FindsValid(r) ==
    LET t == call[r].token
    IN  /\ call[r].pc = "refresh" /\ t # NoCookie /\ token[t] = "valid" /\ t \notin expired
        /\ Goes(r, Doing("issue", t, NoCookie))
        /\ UNCHANGED <<tokenVars, browserVars, losses>>

\* The commit of what was found valid, whatever others have committed since.
TokensAfter(old, new) == [token EXCEPT ![new] = "valid", ![old] = "revoked"]

Rotates(r) ==
    /\ call[r].pc = "issue"
    /\ \E t \in Tokens :
           /\ Unused(t)
           /\ token' = TokensAfter(call[r].token, t)
           /\ login' = [login EXCEPT ![t] = login[call[r].token]]
           /\ Goes(r, Doing("answer", call[r].token, t))
    /\ UNCHANGED <<expired, browserVars, losses>>

\* logout, of the token in the cookie.
Revoked_All(b) == AfterReuse
Revoked(b) == IF cookie[b] = NoCookie \/ token[cookie[b]] = "revoked" THEN token
              ELSE [token EXCEPT ![cookie[b]] = "revoked"]

-----------------------------------------------------------------------------
(* The browser *)

\* A call of the API whose access token is not, or no longer, good.
Asks(r) ==
    /\ call[r].pc = "idle" /\ status[BrowserOf(r)] = "authenticated"
    /\ access[BrowserOf(r)] # "fresh"
    /\ Goes(r, Doing("sent", NoCookie, NoCookie))
    /\ UNCHANGED <<tokenVars, browserVars, losses>>

\* The 401: request() calls refreshSession once.
Refreshes(r) ==
    /\ call[r].pc = "sent"
    /\ Goes(r, Doing("refresh", cookie[BrowserOf(r)], NoCookie))
    /\ UNCHANGED <<tokenVars, browserVars, losses>>

\* The page, once a call has ended well or badly.
Page(b, a, s) ==
    access' = [access EXCEPT ![b] = a] /\ status' = [status EXCEPT ![b] = s]

\* The page is loaded again: nothing of it is shown before initialize() has refreshed.
Boots(r) ==
    /\ Quiet(BrowserOf(r))
    /\ Page(BrowserOf(r), "none", "loading")
    /\ Goes(r, Doing("refresh", cookie[BrowserOf(r)], NoCookie))
    /\ UNCHANGED <<tokenVars, cookie, losses>>

Receives(r) ==
    /\ call[r].pc = "answer" /\ call[r].new # NoCookie
    /\ cookie' = [cookie EXCEPT ![BrowserOf(r)] = call[r].new]
    /\ Page(BrowserOf(r), "fresh", "authenticated")
    /\ Goes(r, Idle)
    /\ UNCHANGED <<tokenVars, losses>>

IsRefused(r) ==
    /\ call[r].pc = "answer" /\ call[r].new = NoCookie
    /\ Page(BrowserOf(r), "none", "unauthenticated")
    /\ Goes(r, Idle)
    /\ UNCHANGED <<tokenVars, cookie, losses>>

\* The server is not reached, or its answer is lost: to refreshSession that is the
\* end of the session, too.
Loses(r) ==
    /\ call[r].pc \in {"refresh", "answer"} /\ losses < MaxLosses
    /\ Page(BrowserOf(r), "none", "unauthenticated")
    /\ Goes(r, Idle)
    /\ losses' = losses + 1
    /\ UNCHANGED <<tokenVars, cookie>>

\* logout: the server revokes the token, its answer takes the cookie.
LogsOut(r) ==
    /\ call[r].pc = "idle" /\ status[BrowserOf(r)] = "authenticated"
    /\ token' = Revoked(BrowserOf(r))
    /\ cookie' = [cookie EXCEPT ![BrowserOf(r)] = NoCookie]
    /\ Page(BrowserOf(r), "none", "unauthenticated")
    /\ UNCHANGED <<expired, login, call, losses>>

\* The page forgets the user even so.
FailsToLogOut(r) ==
    /\ call[r].pc = "idle" /\ status[BrowserOf(r)] = "authenticated" /\ losses < MaxLosses
    /\ token' \in {token, Revoked(BrowserOf(r))}
    /\ Page(BrowserOf(r), "none", "unauthenticated")
    /\ losses' = losses + 1
    /\ UNCHANGED <<expired, login, cookie, call>>

-----------------------------------------------------------------------------
(* Time *)

AccessExpires(b) ==
    /\ access[b] = "fresh"
    /\ access' = [access EXCEPT ![b] = "stale"]
    /\ UNCHANGED <<tokenVars, cookie, status, call, losses>>

Expires(t) ==
    /\ token[t] # "none" /\ t \notin expired
    /\ expired' = expired \cup {t}
    /\ UNCHANGED <<token, login, browserVars, call, losses>>

Next ==
    \/ \E r \in Requests :
           \/ LogsIn(r) \/ Rejects(r) \/ DetectsReuse(r) \/ FindsValid(r) \/ Rotates(r)
           \/ Asks(r) \/ Refreshes(r) \/ Boots(r) \/ Receives(r) \/ IsRefused(r) \/ Loses(r)
           \/ LogsOut(r) \/ FailsToLogOut(r)
    \/ \E b \in Browsers : AccessExpires(b)
    \/ \E t \in Tokens : Expires(t)

Spec == Init /\ [][Next]_vars

-----------------------------------------------------------------------------

\* Rotation: of the tokens that go back to one sign-in, one at most is good.
OneTokenEach ==
    \A t, o \in Tokens :
        token[t] = "valid" /\ token[o] = "valid" /\ login[t] = login[o] => t = o

\* An expired access token is "invisible to the rest of the app": a page is left without
\* its user by a logout, for want of a cookie that has not expired, or after a call was
\* lost, in this browser or in one whose next refresh is then taken for a reuse.
SignsOutForCause ==
    \A b \in Browsers : status[b] # "unauthenticated" /\ status'[b] = "unauthenticated" =>
        cookie'[b] \in {NoCookie} \cup expired \/ losses' > 0
StaysSignedIn == [][SignsOutForCause]_vars
=============================================================================
