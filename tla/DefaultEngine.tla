---------------------------- MODULE DefaultEngine ----------------------------
(***************************************************************************)
(* The engine loop (Engine::run, engine/mod.rs) over the default           *)
(* scheduler: clients send requests through a bounded channel and may go   *)
(* away, the loop collects, admits, dispatches, schedules and steps.       *)
(*                                                                         *)
(* An iteration is cut into steps where it waits, so that clients act in   *)
(* between.  Its channel never disconnects, since the engine keeps a       *)
(* sender of its own; ENGINE_INSTRUCTIONS is never written; the resident   *)
(* decode batches of CUDA builds are left out.  No request names an        *)
(* adapter, so none is refused where the requests are collected            *)
(* (prepare_request_for_dispatch): AdapterRegistry models the leases.      *)
(***************************************************************************)
EXTENDS AdmissionQueue, DefaultScheduler

CONSTANTS
    PromptLen,          \* the prompt tokens of a workload
    Hit,                \* the lengths of prefixes of it that the prefix cacher may have
    TerminateAll,       \* the requests TerminateAllSeqsNextStep
    MayClose,           \* the requests whose client may go away
    MayRefuse           \* the requests that may turn out to be invalid

ASSUME EngineAssumption ==
    /\ PromptLen \in [Request -> Nat \ {0}] /\ Hit \in [Request -> SUBSET Nat]
    /\ TerminateAll \subseteq {r \in Request : Class[r] = "bypass"}
    /\ MayClose \cup MayRefuse \subseteq {r \in Request : Class[r] = "workload"}
    /\ MaxSeqs = MaxActive

VARIABLES
    channel,            \* the requests in rx
    closed,             \* the requests whose response channel has no receiver
    pc,                 \* where the loop is
    dispatches,         \* dispatches of this iteration
    notified,           \* the permit of pending_notify
    nextId,             \* the next sequence identifier
    sent, dispatched    \* history: the requests in the order of sending, of dispatch

engineVars == <<channel, closed, pc, dispatches, notified, nextId, sent, dispatched>>

vars == <<queueVars, schedVars, engineVars>>

Init ==
    /\ QueueInit /\ SchedInit
    /\ channel = <<>> /\ closed = {} /\ pc = "collect" /\ dispatches = 0
    /\ notified = FALSE /\ nextId = 1 /\ sent = <<>> /\ dispatched = <<>>

-----------------------------------------------------------------------------
(* Clients. *)

Send(r) ==
    /\ r \notin ToSet(sent) /\ Len(channel) < MaxPending /\ pc # "ended"
    /\ channel' = Append(channel, r) /\ sent' = Append(sent, r)
    /\ UNCHANGED <<queueVars, schedVars, closed, pc, dispatches, notified, nextId, dispatched>>

Close(r) ==
    /\ r \in (ToSet(sent) \cap MayClose) \ closed /\ pc # "ended"
    /\ closed' = closed \cup {r}
    /\ UNCHANGED <<queueVars, schedVars, channel, pc, dispatches, notified, nextId, sent,
                   dispatched>>

-----------------------------------------------------------------------------
(* The loop. *)

Abandoned(r) == r \in closed

\* collect_pending_requests, retain, free_finished_scheduler_sequences and
\* take_shutdown.
Collect ==
    /\ pc = "collect"
    /\ LET n == Min({Len(channel), RemainingCapacity})
       IN  /\ PushAll(SubSeq(channel, 1, n), {r \in Request : Abandoned(r)})
           /\ channel' = SubSeq(channel, n + 1, Len(channel))
    /\ Reap(closed)
    /\ pc' = IF shutdown' # <<>> THEN "ended" ELSE "dispatch"
    /\ dispatches' = 0
    /\ UNCHANGED <<batch, pipe, lastIds, terminateAll, exposed, skipped, closed, notified, nextId, sent,
                   dispatched>>

Active == Len(waiting) + Len(running)

\* add_request: a return for a client that is gone or with a refusal, else all
\* choices of one prompt, with the prefix that the cacher has for it.
AddRequest(r) ==
    \/ /\ Abandoned(r) \/ r \in MayRefuse
       /\ UNCHANGED <<waiting, seq, nextId, notified>>
    \/ /\ ~Abandoned(r)
       /\ \E offset \in {0} \cup {h \in Hit[r] : h < PromptLen[r]} :
            LET ids == nextId .. nextId + NChoices[r] - 1
            IN  /\ seq' = [s \in DOMAIN seq \cup ids |->
                              IF s \in ids THEN NewSeq(r, PromptLen[r], offset) ELSE seq[s]]
                /\ waiting' = waiting \o [i \in 1 .. NChoices[r] |-> nextId + i - 1]
                /\ nextId' = nextId + NChoices[r]
       /\ notified' = TRUE

\* dispatch_prepared_request of one request.
Dispatch(r) ==
    /\ IF Class[r] = "workload" THEN AddRequest(r) ELSE UNCHANGED <<waiting, seq, nextId, notified>>
    /\ terminateAll' = (terminateAll \/ r \in TerminateAll)
    /\ dispatches' = dispatches + 1 /\ dispatched' = Append(dispatched, r)
    /\ UNCHANGED <<running, batch, pipe, lastIds, exposed, skipped, channel, closed, pc, sent>>

DispatchBypass ==
    /\ pc = "dispatch" /\ dispatches < MaxActive
    /\ TakeBypassControl
    /\ Dispatch(Head(bypass))

DispatchOrdered ==
    /\ pc = "dispatch" /\ dispatches < MaxActive /\ bypass = <<>>
    /\ PopAdmissible(Active)
    /\ Dispatch(Head(ordered))

\* The dispatch loops are over: start again, wait, or schedule.
EndDispatch ==
    /\ pc = "dispatch"
    /\ \/ dispatches = MaxActive
       \/ bypass = <<>> /\ (ordered # <<>> => ~Admissible(Head(ordered), Active))
    /\ pc' = IF Active > 0 THEN "schedule" ELSE IF QueueLen > 0 THEN "collect" ELSE "idle"
    /\ UNCHANGED <<queueVars, schedVars, channel, closed, dispatches, notified, nextId, sent,
                   dispatched>>

\* select! of the next request and of a wake-up.
Receive ==
    /\ pc = "idle" /\ channel # <<>>
    /\ PushAll(<<Head(channel)>>, {r \in Request : Abandoned(r)})
    /\ channel' = Tail(channel)
    /\ pc' = "collect"
    /\ UNCHANGED <<schedVars, closed, dispatches, notified, nextId, sent, dispatched>>

Wake ==
    /\ pc = "idle" /\ notified
    /\ notified' = FALSE /\ pc' = "collect"
    /\ UNCHANGED <<queueVars, schedVars, channel, closed, dispatches, nextId, sent, dispatched>>

DoSchedule ==
    /\ pc = "schedule"
    /\ Schedule(closed)
    /\ pc' = "step"
    /\ UNCHANGED <<queueVars, channel, closed, dispatches, notified, nextId, sent, dispatched>>

\* The completions of the batch run before its prompts; an error skips to the
\* next iteration.
RunCompletions ==
    /\ pc = "step" /\ batch.completion # <<>>
    /\ \/ CompletionStep /\ pc' = "step"
       \/ FailBatch(batch.completion, batch.prompt) /\ pc' = "collect"
    /\ UNCHANGED <<queueVars, channel, closed, dispatches, notified, nextId, sent, dispatched>>

RunPrompts ==
    /\ pc = "step" /\ batch.completion = <<>> /\ batch.prompt # <<>>
    /\ PromptStep \/ FailBatch(batch.prompt, <<>>)
    /\ pc' = "collect"
    /\ UNCHANGED <<queueVars, channel, closed, dispatches, notified, nextId, sent, dispatched>>

EndStep ==
    /\ pc = "step" /\ batch = NoBatch
    /\ pc' = "collect"
    /\ UNCHANGED <<queueVars, schedVars, channel, closed, dispatches, notified, nextId, sent,
                   dispatched>>

EngineStep ==
    \/ Collect \/ DispatchBypass \/ DispatchOrdered \/ EndDispatch \/ Receive \/ Wake
    \/ DoSchedule \/ RunCompletions \/ RunPrompts \/ EndStep

Next ==
    \/ EngineStep
    \/ \E r \in Request : Send(r) \/ Close(r)

Spec == Init /\ [][Next]_vars

\* The engine's thread runs whenever it can.
FairSpec == Spec /\ WF_vars(EngineStep)

-----------------------------------------------------------------------------
(* Properties. *)

Position(s, r) == CHOOSE i \in DOMAIN s : s[i] = r

Ordered(r) == Class[r] \in {"workload", "ordered"}

\* A request that was sent is in the channel, in one queue, or dispatched, once,
\* unless its client is gone or the engine has ended; and no ordered request
\* overtakes another one whose client is still there.
ArrivalOrder ==
    LET places == channel \o ordered \o bypass \o shutdown \o dispatched
    IN  /\ IsInjective(places) /\ QueueLen <= MaxPending
        /\ \A r \in ToSet(sent) : r \in ToSet(places) \/ r \in closed
        /\ \A i \in DOMAIN dispatched : \A j \in 1 .. Len(sent) :
             LET r == dispatched[i]
                 q == sent[j]
             IN  Ordered(r) /\ Ordered(q) /\ j < Position(sent, r) /\ q \notin closed =>
                    q \in ToSet(SubSeq(dispatched, 1, i - 1))

\* No more sequences are active than allowed, unless they all belong to one
\* request that could not have been admitted otherwise.
Bounded ==
    LET live == ToSet(running \o waiting)
    IN  \/ Cardinality(live) <= MaxActive
        \/ \E r \in Request : NChoices[r] > MaxActive /\ \A s \in live : seq[s].req = r

\* Admission keeps the order of arrival and the bound on active sequences, and
\* loses nothing on the way.
AdmissionSound == ArrivalOrder /\ Bounded

\* A sequence leaves the engine when it is finished or its client is gone; only
\* one that the failure of another batch skipped before its prompt step may
\* disappear, since it does not count as running.
NoneDropped ==
    [][\A s \in DOMAIN seq \ DOMAIN seq' :
            Finished(s) \/ seq[s].req \in closed \/ s \in skipped]_vars

\* A sequence is generated from its own tokens: the K/V cache that its next
\* step attends to is that of the tokens before it.  Exempt are only sequences
\* that were sent back to their prompt after a prefix hit, that were in the
\* pipeline's cache or in the same iteration when another batch failed, and
\* their batch mates since.
OnlyExposedHarmed == \A s \in DOMAIN seq \ exposed : seq[s].kv # Junk

\* Every request that is sent is dispatched and all its sequences leave the
\* engine, unless its client leaves or the engine is shut down.
Ended(r) == r \in ToSet(dispatched) /\ \A s \in DOMAIN seq : seq[s].req # r

EveryRequestEnds ==
    \A r \in Request : r \in ToSet(sent) ~> (Ended(r) \/ r \in closed \/ pc = "ended")

=============================================================================
