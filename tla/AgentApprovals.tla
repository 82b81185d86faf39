--------------------------- MODULE AgentApprovals ---------------------------
(***************************************************************************)
(* Approval of agent actions over HTTP: approve_agent_tool of the agentic  *)
(* loop (engine/agentic_loop.rs), the approvals that an engine remembers   *)
(* (engine/agentic_session.rs) and the ApprovalBroker of the server        *)
(* (approvals.rs), which answers may reach before, while and after a call  *)
(* waits for them.  All calls have the permission Ask.                     *)
(*                                                                         *)
(* An answer is "approve", "always" (approve, remember_for_session) or     *)
(* "deny"; a denial with remember_for_session is treated as "deny".        *)
(***************************************************************************)
EXTENDS Naturals, Sequences

CONSTANTS
    Call,               \* tool calls, each with its approval_id
    SessionOf,          \* the session of each call
    MaxPosts,           \* bound: the answers that clients post for each call
    None

Session == {SessionOf[c] : c \in Call}
Answer == {"approve", "always", "deny"}

ASSUME ApprovalAssumption ==
    MaxPosts \in [Call -> Nat] /\ DOMAIN SessionOf = Call /\ None \notin Answer

VARIABLES
    pending, early, approvedSessions, notified,     \* ApprovalState
    remembered,         \* approved_agent_sessions of the engine's session store
    pc,                 \* where a call is
    inbox,              \* the oneshot channel of a waiting call
    decision,           \* what a call was told
    announced,          \* calls whose AgenticToolApprovalRequired was sent
    posted,             \* history: the answers to each call and what the server replied
    timedOut            \* history: calls whose wait timed out

broker == <<pending, early, approvedSessions, notified>>
vars == <<broker, remembered, pc, inbox, decision, announced, posted, timedOut>>

Init ==
    /\ pending = {} /\ early = [c \in Call |-> None]
    /\ approvedSessions = {} /\ notified = {} /\ remembered = {}
    /\ pc = [c \in Call |-> "start"]
    /\ inbox = [c \in Call |-> None] /\ decision = [c \in Call |-> None]
    /\ announced = {} /\ posted = [c \in Call |-> <<>>] /\ timedOut = {}

Goto(c, place) == pc' = [pc EXCEPT ![c] = place]

-----------------------------------------------------------------------------
(* A tool call. *)

\* agent_actions_approved; the call runs without asking if so.
Start(c) ==
    /\ pc[c] = "start"
    /\ IF SessionOf[c] \in remembered
       THEN /\ decision' = [decision EXCEPT ![c] = "session"] /\ Goto(c, "decided")
       ELSE Goto(c, "notify") /\ UNCHANGED decision
    /\ UNCHANGED <<broker, remembered, inbox, announced, posted, timedOut>>

\* notify_approval_required, which says nothing in an approved session.
Notify(c) ==
    /\ pc[c] = "notify"
    /\ Goto(c, IF SessionOf[c] \in approvedSessions THEN "ask" ELSE "announce")
    /\ UNCHANGED <<broker, remembered, inbox, decision, announced, posted, timedOut>>

\* The event is sent; when it cannot be, the call is denied in advance.
Announce(c) ==
    /\ pc[c] = "announce"
    /\ \/ notified' = notified \cup {c} /\ announced' = announced \cup {c} /\ UNCHANGED early
       \/ early' = [early EXCEPT ![c] = "deny"] /\ UNCHANGED <<notified, announced>>
    /\ Goto(c, "ask")
    /\ UNCHANGED <<pending, approvedSessions, remembered, inbox, decision, posted, timedOut>>

\* wait_for_decision: in an approved session it returns at once.
Ask(c) ==
    /\ pc[c] = "ask"
    /\ IF SessionOf[c] \in approvedSessions
       THEN /\ decision' = [decision EXCEPT ![c] = "session"] /\ Goto(c, "decided")
       ELSE Goto(c, "register") /\ UNCHANGED decision
    /\ UNCHANGED <<broker, remembered, inbox, announced, posted, timedOut>>

Approving(answer, c) == IF answer = "always" THEN {SessionOf[c]} ELSE {}

\* An answer that came early is taken, else the call waits for one.
Wait(c) ==
    /\ pc[c] = "register"
    /\ IF early[c] # None
       THEN /\ early' = [early EXCEPT ![c] = None]
            /\ approvedSessions' = approvedSessions \cup Approving(early[c], c)
            /\ decision' = [decision EXCEPT ![c] = early[c]] /\ Goto(c, "decided")
            /\ UNCHANGED pending
       ELSE /\ pending' = pending \cup {c} /\ Goto(c, "waiting")
            /\ UNCHANGED <<early, approvedSessions, decision>>
    /\ UNCHANGED <<notified, remembered, inbox, announced, posted, timedOut>>

Receive(c) ==
    /\ pc[c] = "waiting" /\ inbox[c] # None
    /\ decision' = [decision EXCEPT ![c] = inbox[c]]
    /\ Goto(c, "cleanup")
    /\ UNCHANGED <<broker, remembered, inbox, announced, posted, timedOut>>

\* Mutant: the clock runs only once an answer has come.
TimeOutAfterAnswer(c) ==
    /\ pc[c] = "waiting" /\ inbox[c] = None /\ c \notin pending
    /\ decision' = [decision EXCEPT ![c] = "deny"]
    /\ timedOut' = timedOut \cup {c}
    /\ Goto(c, "cleanup")
    /\ UNCHANGED <<broker, remembered, inbox, announced, posted>>

\* APPROVAL_TIMEOUT passes; the channel is polled before the clock.
TimeOut(c) ==
    /\ pc[c] = "waiting" /\ inbox[c] = None
    /\ decision' = [decision EXCEPT ![c] = "deny"]
    /\ timedOut' = timedOut \cup {c}
    /\ Goto(c, "cleanup")
    /\ UNCHANGED <<broker, remembered, inbox, announced, posted>>

\* Mutant: the identifier can still be answered.
CleanUpKeepsNotified(c) ==
    /\ pc[c] = "cleanup"
    /\ pending' = pending \ {c}
    /\ Goto(c, "decided")
    /\ UNCHANGED <<early, approvedSessions, notified, remembered, inbox, decision, announced,
                   posted, timedOut>>

\* The broker forgets the call.
CleanUp(c) ==
    /\ pc[c] = "cleanup"
    /\ pending' = pending \ {c} /\ notified' = notified \ {c}
    /\ Goto(c, "decided")
    /\ UNCHANGED <<early, approvedSessions, remembered, inbox, decision, announced, posted, timedOut>>

\* The engine remembers an approval of the session, and the tool runs or not.
Finish(c) ==
    /\ pc[c] = "decided"
    /\ remembered' = remembered \cup Approving(decision[c], c)
    /\ Goto(c, IF decision[c] = "deny" THEN "denied" ELSE "ran")
    /\ UNCHANGED <<broker, inbox, decision, announced, posted, timedOut>>

-----------------------------------------------------------------------------
(* Clients. *)

\* Mutant: an early answer may be given again.
PostAgain(c, answer) ==
    LET Reply(status) ==
            posted' = [posted EXCEPT ![c] = Append(@, [answer |-> answer, status |-> status])]
    IN  /\ c \in announced /\ Len(posted[c]) < MaxPosts[c]
        /\ IF c \in pending
           THEN /\ pending' = pending \ {c} /\ notified' = notified \ {c}
                /\ approvedSessions' = approvedSessions \cup Approving(answer, c)
                /\ inbox' = [inbox EXCEPT ![c] = answer]
                /\ Reply("resolved") /\ UNCHANGED early
           ELSE IF c \in notified
           THEN /\ early' = [early EXCEPT ![c] = answer]
                /\ Reply("queued") /\ UNCHANGED <<pending, notified, approvedSessions, inbox>>
           ELSE Reply("not_found") /\ UNCHANGED <<broker, inbox>>
        /\ UNCHANGED <<remembered, pc, decision, announced, timedOut>>

\* POST /v1/agent/approvals/{approval_id}: resolve.
Post(c, answer) ==
    LET Reply(status) ==
            posted' = [posted EXCEPT ![c] = Append(@, [answer |-> answer, status |-> status])]
    IN  /\ c \in announced /\ Len(posted[c]) < MaxPosts[c]
        /\ IF c \in pending
           THEN /\ pending' = pending \ {c} /\ notified' = notified \ {c}
                /\ approvedSessions' = approvedSessions \cup Approving(answer, c)
                /\ inbox' = [inbox EXCEPT ![c] = answer]
                /\ Reply("resolved") /\ UNCHANGED early
           ELSE IF c \in notified
           THEN /\ notified' = notified \ {c}
                /\ early' = [early EXCEPT ![c] = answer]
                /\ Reply("queued") /\ UNCHANGED <<pending, approvedSessions, inbox>>
           ELSE Reply("not_found") /\ UNCHANGED <<broker, inbox>>
        /\ UNCHANGED <<remembered, pc, decision, announced, timedOut>>

\* DELETE /v1/sessions/{session_id}, or the SESSION_TTL of the store.
Forget(s) ==
    /\ s \in remembered
    /\ remembered' = remembered \ {s}
    /\ UNCHANGED <<broker, pc, inbox, decision, announced, posted, timedOut>>

Step(c) ==
    \/ Start(c) \/ Notify(c) \/ Announce(c) \/ Ask(c) \/ Wait(c)
    \/ Receive(c) \/ TimeOut(c) \/ CleanUp(c) \/ Finish(c)

Next ==
    \/ \E c \in Call : Step(c) \/ \E answer \in Answer : Post(c, answer)
    \/ \E s \in Session : Forget(s)

Spec == Init /\ [][Next]_vars

\* Every call is a task that goes on, and the clock too; clients need not.
FairSpec == Spec /\ \A c \in Call : WF_vars(Step(c))

-----------------------------------------------------------------------------
(* Properties. *)

Ended(c) == pc[c] \in {"ran", "denied"}

\* The answers to c that the server took, by their positions in posted[c].
Accepted(c) == {i \in DOMAIN posted[c] : posted[c][i].status # "not_found"}

\* A client approved session s.
Approved(s) ==
    \E d \in Call : SessionOf[d] = s /\ \E i \in Accepted(d) : posted[d][i].answer = "always"

\* One answer to a call is taken at most, and it decides, unless the session as
\* a whole is approved or the wait times out; a call without any does not run.
AnswerDecides ==
    \A c \in Call :
        /\ \A i, j \in Accepted(c) : i = j
        /\ Ended(c) /\ ~Approved(SessionOf[c]) =>
            IF Accepted(c) = {} \/ c \in timedOut THEN pc[c] = "denied"
            ELSE \A i \in Accepted(c) : (pc[c] = "denied" <=> posted[c][i].answer = "deny")

\* A call that has ended leaves nothing in the broker, unless its session was
\* approved while it asked.
NothingLeft ==
    \A c \in Call : Ended(c) /\ decision[c] # "session" =>
        c \notin pending \cup notified /\ early[c] = None

\* A call that asks is decided, whether or not anybody answers.
EveryCallEnds == \A c \in Call : <>Ended(c)

-----------------------------------------------------------------------------
(* The inductive invariant. *)

\* An answer and the server's reply to it.
Posting == [answer : Answer, status : {"resolved", "queued", "not_found"}]

TypeOK ==
    /\ pending \subseteq Call /\ notified \subseteq Call /\ announced \subseteq Call
    /\ timedOut \subseteq Call
    /\ approvedSessions \subseteq Session /\ remembered \subseteq Session
    /\ early \in [Call -> Answer \cup {None}] /\ inbox \in [Call -> Answer \cup {None}]
    /\ decision \in [Call -> Answer \cup {None, "session"}]
    /\ pc \in [Call -> {"start", "notify", "announce", "ask", "register", "waiting", "cleanup",
                        "decided", "ran", "denied"}]
    /\ posted \in [Call -> Seq(Posting)]

\* Every answer to c that was taken is this one.
TakenIs(c, answer) == \A i \in Accepted(c) : posted[c][i].answer = answer

\* A session counts as approved, in the broker or in the engine, only because
\* a client said so.
SessionsJustified == \A s \in approvedSessions \cup remembered : Approved(s)

\* What can still be answered has not been, and no call is answered twice.
OpenUnanswered ==
    /\ \A c \in pending \cup notified : Accepted(c) = {}
    /\ \A c \in Call : \A i, j \in Accepted(c) : i = j

\* An answer on its way to a call is the one that was taken; with nothing taken,
\* only the denial of a call that could not be announced is on its way.
OnItsWay ==
    \A c \in Call :
        /\ early[c] # None => c \notin notified /\ TakenIs(c, early[c])
                              /\ (Accepted(c) = {} => early[c] = "deny")
        /\ inbox[c] # None => TakenIs(c, inbox[c]) /\ Accepted(c) # {} /\ c \notin pending

\* Where a call is, and what the broker knows of it.
PlaceOf(c) ==
    /\ pc[c] \in {"start", "notify", "announce"} =>
        c \notin announced \cup notified /\ early[c] = None /\ Accepted(c) = {}
    /\ pc[c] \in {"start", "notify", "announce", "ask", "register"} =>
        c \notin pending \cup timedOut /\ inbox[c] = None
    /\ pc[c] \in {"ask", "register"} /\ Accepted(c) # {} => early[c] # None
    /\ pc[c] \in {"waiting", "cleanup"} =>
        early[c] = None /\ (c \in notified => c \in pending)
    /\ pc[c] = "waiting" =>
        c \notin timedOut /\ (inbox[c] = None => c \in pending /\ Accepted(c) = {})
    /\ pc[c] \in {"decided", "ran", "denied"} => c \notin pending

PlaceAgrees == \A c \in Call : PlaceOf(c)

\* A call was told what was taken, a denial when it timed out or nothing was
\* taken, or that its session is approved; then the broker has forgotten it.
DecisionOf(c) ==
    pc[c] \in {"cleanup", "decided", "ran", "denied"} =>
        /\ decision[c] = "session" =>
            pc[c] # "cleanup" /\ pc[c] # "denied" /\ c \notin timedOut /\ Approved(SessionOf[c])
        /\ decision[c] # "session" =>
            /\ decision[c] \in Answer
            /\ c \in timedOut => decision[c] = "deny"
            /\ c \notin timedOut => /\ TakenIs(c, decision[c])
                                    /\ (Accepted(c) = {} => decision[c] = "deny")
                                    /\ c \notin pending \cup notified
            /\ pc[c] # "cleanup" => c \notin pending \cup notified /\ early[c] = None
        /\ pc[c] \in {"ran", "denied"} => (pc[c] = "denied" <=> decision[c] = "deny")

DecisionAgrees == \A c \in Call : DecisionOf(c)

ApprovalInv ==
    /\ TypeOK /\ SessionsJustified /\ OpenUnanswered /\ OnItsWay
    /\ PlaceAgrees /\ DecisionAgrees

=============================================================================
