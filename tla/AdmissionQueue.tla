--------------------------- MODULE AdmissionQueue ---------------------------
(***************************************************************************)
(* AdmissionQueue (engine/admission.rs): the requests that an engine has   *)
(* received and not yet dispatched.                                        *)
(***************************************************************************)
EXTENDS Naturals, Sequences, Queues

CONSTANTS
    Request,
    Class,              \* admission_class of a request
    NChoices,           \* the sequences that a workload asks for
    MaxActive,          \* max_active_sequences, also max_dispatches_per_step
    MaxPending          \* max_pending_requests: the capacity of the channel

ASSUME AdmissionAssumption ==
    /\ Class \in [Request -> {"workload", "ordered", "bypass", "shutdown"}]
    /\ NChoices \in [Request -> Nat \ {0}]
    /\ MaxActive \in Nat \ {0} /\ MaxPending \in Nat \ {0}

VARIABLES ordered, bypass, shutdown

queueVars == <<ordered, bypass, shutdown>>

QueueInit == ordered = <<>> /\ bypass = <<>> /\ shutdown = <<>>

QueueLen == Len(ordered) + Len(bypass) + Len(shutdown)

\* Mutant: what is queued already is not counted.
RemainingCapacityIgnoresQueue == MaxPending

\* What may be taken from the channel.
RemainingCapacity == IF QueueLen < MaxPending THEN MaxPending - QueueLen ELSE 0

\* push of several requests, then retain of those whose clients are not gone.
PushAll(requests, gone) ==
    LET Takes(queue, classes) ==
            Keep(queue \o Keep(requests, {r \in Request : Class[r] \in classes}), Request \ gone)
    IN  /\ ordered' = Takes(ordered, {"workload", "ordered"})
        /\ bypass' = Takes(bypass, {"bypass"})
        /\ shutdown' = Takes(shutdown, {"shutdown"})

TakeBypassControl ==
    /\ bypass # <<>>
    /\ bypass' = Tail(bypass)
    /\ UNCHANGED <<ordered, shutdown>>

\* Mutant: what never fits is never admitted.
AdmissibleIfItFits(r, active) == Class[r] # "workload" \/ active + NChoices[r] <= MaxActive

\* A workload fits beside the active sequences, or is larger than everything
\* allowed and finds the engine empty; controls are always admissible.
Admissible(r, active) ==
    \/ Class[r] # "workload"
    \/ active + NChoices[r] <= MaxActive
    \/ active = 0 /\ NChoices[r] > MaxActive

PopAdmissible(active) ==
    /\ ordered # <<>> /\ Admissible(Head(ordered), active)
    /\ ordered' = Tail(ordered)
    /\ UNCHANGED <<bypass, shutdown>>

=============================================================================
