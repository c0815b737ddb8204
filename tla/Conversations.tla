----------------------------- MODULE Conversations -----------------------------
(***************************************************************************)
(* Ask Vault: one conversation of a user, the turns that the user's tabs ask    *)
(* for, and the counter in Redis that limits how often a turn may use tools.    *)
(*                                                                         *)
(* A message carries the time at which the transaction that inserted it began   *)
(* (created_at defaults to now()), and a conversation is read in the order of   *)
(* these times. A turn that does not search is one transaction; a turn that     *)
(* does, because no tool fits or because a tool searches, is two: the search    *)
(* commits the row it logs, and the question with it.                        *)
(***************************************************************************)
EXTENDS Naturals

CONSTANTS
    Tabs,
    MaxTime,     \* bound on the transactions begun
    ToolLimit,   \* ai_tool_rate_limit_per_minute
    MaxOutages   \* bound on failures of Redis and deaths of the process

Times == 0 .. MaxTime

VARIABLES
    messages,    \* the committed messages; a turn is named by the time it began
    request,     \* the request of each tab; a time of 0 is that of no transaction
    counter,     \* ratelimit:ai_assistant_tools: its value, and whether it will expire
    clock,       \* the transactions begun so far
    outages

vars == <<messages, request, counter, clock, outages>>

Message == [turn : Times, role : {"user", "assistant"}, at : Times, whole : BOOLEAN]
Request == [pc : {"idle", "read", "count", "expire", "tools", "search", "answer"},
            turn : Times, began : Times]
Idle == [pc |-> "idle", turn |-> 0, began |-> 0]

TypeOK ==
    /\ messages \subseteq Message
    /\ request \in [Tabs -> Request] /\ clock \in Times /\ outages \in 0 .. MaxOutages
    /\ counter \in [value : 0 .. ToolLimit + 1, expires : BOOLEAN]

Init ==
    /\ messages = {}
    /\ request = [b \in Tabs |-> Idle]
    /\ counter = [value |-> 0, expires |-> FALSE]
    /\ clock = 0 /\ outages = 0

Goes(b, pc) == request' = [request EXCEPT ![b].pc = pc]
Ends(b) == request' = [request EXCEPT ![b] = Idle]

\* The message that the request of b inserts: created_at is when its transaction began,
\* and the transaction has the whole turn or a half.
Of(b, role, whole) ==
    [turn |-> request[b].turn, role |-> role, at |-> request[b].began, whole |-> whole]

-----------------------------------------------------------------------------
(* ConversationService.ask *)

\* The transaction begins when the user is looked up.
Begins(b) ==
    /\ request[b].pc = "idle" /\ clock < MaxTime
    /\ clock' = clock + 1
    /\ request' = [request EXCEPT ![b] = [pc |-> "read", turn |-> clock', began |-> clock']]
    /\ UNCHANGED <<messages, counter, outages>>

\* classify_intent: the question is for tools or it is not.
Classifies(b) ==
    /\ request[b].pc = "read"
    /\ \E pc \in {"count", "search"} : Goes(b, pc)
    /\ UNCHANGED <<messages, counter, clock, outages>>

\* _answer_with_tools without a search, and the commit of question and answer.
AnswersAtOnce(b) ==
    /\ request[b].pc = "tools"
    /\ messages' = messages \cup {Of(b, "user", TRUE), Of(b, "assistant", TRUE)}
    /\ Ends(b)
    /\ UNCHANGED <<counter, clock, outages>>

\* SearchService.search, which the tool search_files calls too, commits, and what is read
\* next begins a transaction.
Searches(b) ==
    /\ request[b].pc \in {"search", "tools"} /\ clock < MaxTime
    /\ messages' = messages \cup {Of(b, "user", FALSE)}
    /\ clock' = clock + 1
    /\ request' = [request EXCEPT ![b].pc = "answer", ![b].began = clock']
    /\ UNCHANGED <<counter, outages>>

AnswersLater(b) ==
    /\ request[b].pc = "answer"
    /\ messages' = messages \cup {Of(b, "assistant", FALSE)}
    /\ Ends(b)
    /\ UNCHANGED <<counter, clock, outages>>

\* The provider does not answer, a file that was found is gone, the request is dropped:
\* what was not committed is not there.
Fails(b) ==
    /\ request[b].pc \in {"read", "tools", "search", "answer"}
    /\ Ends(b)
    /\ UNCHANGED <<messages, counter, clock, outages>>

-----------------------------------------------------------------------------
(* check_rate_limit *)

Least(m, n) == IF m < n THEN m ELSE n

\* INCR, counting no further than one over the limit, which is refused like any more.
Incremented == [counter EXCEPT !.value = Least(@ + 1, ToolLimit + 1)]

\* Who finds the key new gives it a time to live.
IsFirst(n) == n = 1

Counts(b) ==
    /\ request[b].pc = "count"
    /\ counter' = Incremented
    /\ Goes(b, IF IsFirst(counter'.value) THEN "expire"
               ELSE IF counter'.value <= ToolLimit THEN "tools" ELSE "search")
    /\ UNCHANGED <<messages, clock, outages>>

SetsExpiry(b) ==
    /\ request[b].pc = "expire"
    /\ counter' = [counter EXCEPT !.expires = @ \/ counter.value > 0]
    /\ Goes(b, "tools")
    /\ UNCHANGED <<messages, clock, outages>>

\* An outage lets the turn pass, whether or not the call has counted.
RedisFails(b) ==
    /\ request[b].pc \in {"count", "expire"} /\ outages < MaxOutages
    /\ counter' \in IF request[b].pc = "count" THEN {counter, Incremented} ELSE {counter}
    /\ Goes(b, "tools")
    /\ outages' = outages + 1
    /\ UNCHANGED <<messages, clock>>

\* The process dies at it.
Dies(b) ==
    /\ request[b].pc \in {"count", "expire"} /\ outages < MaxOutages
    /\ Ends(b)
    /\ outages' = outages + 1
    /\ UNCHANGED <<messages, counter, clock>>

WindowCloses ==
    /\ counter.expires
    /\ counter' = [value |-> 0, expires |-> FALSE]
    /\ UNCHANGED <<messages, request, clock, outages>>

-----------------------------------------------------------------------------

Next ==
    \/ \E b \in Tabs :
           \/ Begins(b) \/ Classifies(b) \/ AnswersAtOnce(b)
           \/ Searches(b) \/ AnswersLater(b) \/ Fails(b)
           \/ Counts(b) \/ SetsExpiry(b) \/ RedisFails(b) \/ Dies(b)
    \/ WindowCloses

Spec == Init /\ [][Next]_vars

\* Redis keeps its time, and a request that is on the way goes on.
FairSpec == Spec /\ WF_vars(WindowCloses) /\ \A b \in Tabs : WF_vars(SetsExpiry(b))

-----------------------------------------------------------------------------

Questions == {m \in messages : m.role = "user"}
Answers == {m \in messages : m.role = "assistant"}

\* An answer stands beside its question, and no question comes after its answer; behind a
\* search the answer is strictly later, for the one reason that the search commits. Only a
\* search leaves a question unanswered.
QuestionFirst ==
    /\ \A a \in Answers : \E q \in Questions :
           q.turn = a.turn /\ q.at <= a.at /\ (a.whole \/ q.at < a.at)
    /\ \A q \in Questions : q.whole => \E a \in Answers : a.turn = q.turn
    /\ \A m, n \in messages : m.turn = n.turn /\ m.role = n.role => m = n

\* The counter will expire, or somebody is about to see to it, unless Redis or a process
\* failed: nobody is kept from the tools for good.
WindowEnds ==
    counter.value > 0 =>
        counter.expires \/ (\E b \in Tabs : request[b].pc = "expire") \/ outages > 0

\* What a page that shows a thread in the order of created_at needs.
ThreadInOrder ==
    \A a \in Answers : \E q \in Questions : q.turn = a.turn /\ q.at < a.at

\* A limit that is "never allowed to be the reason a request fails": after an outage the
\* counter comes back from its limit.
LetInAgain == counter.value > ToolLimit ~> counter.value = 0
=============================================================================
