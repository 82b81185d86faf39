----------------------- MODULE PagedAttentionScheduler -----------------------
(***************************************************************************)
(* paged_attention/scheduler.rs, driven by the loop of engine/mod.rs, over *)
(* the KV cache manager.                                                   *)
(*                                                                         *)
(* One iteration of the engine reaps finished sequences, calls schedule()  *)
(* and steps the batch it returns.  schedule() takes the manager's lock    *)
(* many times; each such critical section is one step here, which conjoins *)
(* an action of KVCacheManager, and `pc` says how far schedule() has come. *)
(* Nothing but the environment (a client that goes away, the flag          *)
(* TERMINATE_ALL_NEXT_STEP) moves between those steps.                     *)
(*                                                                         *)
(* Sequences are numbered in the order of their timestamps.  The tokens    *)
(* that a sequence will ever have are fixed: ChainOf gives the hashes of   *)
(* their blocks, len how many there are by now.                            *)
(***************************************************************************)
EXTENDS Integers, Sequences, FiniteSets, SequencesExt, Queues

CONSTANTS
    NumBlocks, Hash, BlockSize, Junk,   \* of the manager
    NumSeqs,            \* sequences that arrive
    ChainOf,            \* the block hashes of each sequence
    PromptLen,          \* its prompt tokens
    MaxLen,             \* the length at which generation has stopped for sure
    Media,              \* its modality_signature
    Visible,            \* the sequences with scheduler-visible prompt chunks
    Closable,           \* the sequences whose client may go away
    MayTerminate,       \* whether TERMINATE_ALL_NEXT_STEP is ever set
    MayFail,            \* whether a step may fail or run out of CUDA memory
    MaxNumSeqs, MaxBatchedTokens, MaxPrefillChunk, MaxDecodeSteps,
    WaitingTimeout,     \* WAITING_TIMEOUT
    RaggedBucketTokens, \* RAGGED_PROMPT_BUCKET_TOKENS
    UniformPrompt, UniformCompletion, UniformMedia, PackedPrefill,
    PreemptForWaiting   \* waiting_prompt_preemption_enabled

Req == 1..NumSeqs

ASSUME SchedulerAssumption ==
    /\ NumSeqs \in Nat \ {0}
    /\ {MaxNumSeqs, MaxBatchedTokens, MaxPrefillChunk, MaxDecodeSteps} \subseteq Nat \ {0}
    /\ WaitingTimeout \in Nat /\ RaggedBucketTokens \in Nat \ {0}
    /\ \A s \in Req : /\ PromptLen[s] \in 1..MaxLen[s]
                      /\ MaxLen[s] < (Len(ChainOf[s]) + 1) * BlockSize
    /\ Visible \subseteq Req /\ Closable \subseteq Req
    /\ {UniformPrompt, UniformCompletion, UniformMedia, PackedPrefill,
        PreemptForWaiting, MayTerminate, MayFail} \subseteq BOOLEAN

\* What KVCacheManager assumes of its constants.
ASSUME CacheAssumption ==
    /\ NumBlocks \in Nat \ {0} /\ BlockSize \in Nat \ {0}
    /\ 0 \notin Hash /\ Junk \notin Hash
    /\ \A s \in Req : ChainOf[s] \in Seq(Hash)
    /\ \A s, t \in Req : \A i \in 1..Len(ChainOf[s]), j \in 1..Len(ChainOf[t]) :
          ChainOf[s][i] = ChainOf[t][j] => i = j /\ \A k \in 1..i : ChainOf[s][k] = ChainOf[t][k]

VARIABLES
    pool, reqs, total_reserved, seqs, lookup, kv, leases,   \* of the manager
    waiting, running,   \* queues of sequences
    status,             \* SequenceState
    len,                \* tokens of each sequence
    closed,             \* sequences whose response channel is closed
    terminate,          \* TERMINATE_ALL_NEXT_STEP
    waiting_counts,     \* counted up to WaitingTimeout + 1, where all counts act alike
    turn,               \* the other fields of the scheduler that change
    pc, local,          \* where schedule() is, and its local variables
    output              \* PagedAttentionSchedulerOutput, and how much of it is done

kvVars == <<pool, reqs, total_reserved, seqs, lookup, kv, leases>>

vars == <<kvVars, waiting, running, status, len, closed, terminate, waiting_counts, turn,
          pc, local, output>>

KV == INSTANCE KVCacheManager WITH
    Lease <- {}, DebugAssertions <- TRUE, MaxTokens <- 0,
    Chains <- {ChainOf[s] : s \in Req}

NoLocals == [scheduled |-> <<>>, again |-> <<>>, kept |-> <<>>, prompts |-> <<>>, doomed |-> <<>>]

NoOutput == [prompt |-> FALSE, batch |-> <<>>, next |-> 1]

NoSeq == 0

Init ==
    /\ KV!Init
    /\ waiting = <<>> /\ running = <<>>
    /\ status = [s \in Req |-> "Absent"]
    /\ len = [s \in Req |-> 0]
    /\ closed = {} /\ terminate = FALSE
    /\ waiting_counts = [s \in Req |-> 0]
    /\ turn = [decode_steps |-> 0, epoch |-> FALSE, next_prompt |-> NoSeq, cursor |-> 0]
    /\ pc = "idle" /\ local = NoLocals /\ output = NoOutput

-----------------------------------------------------------------------------
(* Sequences. *)

Finished == {"Done", "Error", "Ignored"}

IsFinished(s) == status[s] \in Finished

Computed(s) == KV!Tokens(s).computed

Uncomputed(s) == len[s] - Computed(s)

\* The prompts (and the completions) of a queue q, where st tells the states.
Prompts(st, q) == Keep(q, {s \in ToSet(q) : st[s] = "RunningPrompt"})

Completions(st, q) == Keep(q, {s \in ToSet(q) : st[s] = "RunningCompletion"})

SumOver(q, F(_)) == FoldLeft(LAMBDA sum, s : sum + F(s), 0, q)

\* cache_blocks has nothing left to do for s.
Published(s) == KV!NumFullBlocks(s) <= reqs[s].num_cached_blocks

Dropping(q, S) == Keep(q, ToSet(q) \ S)

SetStatus(S, value) == [s \in Req |-> IF s \in S THEN value ELSE status[s]]

-----------------------------------------------------------------------------
(* The environment. *)

\* add_seq
AddSeq ==
    /\ pc = "idle"
    /\ \E s \in Req :
          /\ status[s] = "Absent" /\ \A t \in 1..(s - 1) : status[t] # "Absent"
          /\ status' = [status EXCEPT ![s] = "Waiting"]
          /\ len' = [len EXCEPT ![s] = PromptLen[s]]
          /\ waiting' = Append(waiting, s)
    /\ UNCHANGED <<kvVars, running, closed, terminate, waiting_counts, turn, pc, local, output>>

CloseResponse ==
    /\ \E s \in Closable \ closed : status[s] # "Absent" /\ closed' = closed \cup {s}
    /\ UNCHANGED <<kvVars, waiting, running, status, len, terminate, waiting_counts, turn,
                   pc, local, output>>

TerminateAll ==
    /\ MayTerminate /\ ~terminate
    /\ terminate' = TRUE
    /\ UNCHANGED <<kvVars, waiting, running, status, len, closed, waiting_counts, turn,
                   pc, local, output>>

-----------------------------------------------------------------------------
(* free_finished_scheduler_sequences *)

\* cancel_closed_response_groups
CancelClosed ==
    /\ pc = "idle" /\ running \o waiting # <<>>
    /\ status' = SetStatus({s \in closed \cap ToSet(running \o waiting) : ~IsFinished(s)}, "Done")
    /\ pc' = "reap"
    /\ UNCHANGED <<kvVars, waiting, running, len, closed, terminate, waiting_counts, turn,
                   local, output>>

\* The finished sequences of both queues, in the order they are freed.
FinishedSeqs == Keep(running \o waiting, {s \in Req : IsFinished(s)})

\* free_finished_sequence_groups: publish the blocks of the finished sequences
\* that did not fail, one at a time, then free the finished one at a time.
FreeFinished ==
    /\ pc = "reap" /\ FinishedSeqs # <<>>
    /\ LET s == Head(FinishedSeqs)
           cacheable == Keep(FinishedSeqs, {t \in KV!Live : status[t] # "Error" /\ ~Published(t)})
       IN  IF cacheable # <<>>
             THEN KV!CacheBlocks(Head(cacheable)) /\ UNCHANGED <<waiting, running, waiting_counts>>
             ELSE /\ IF s \in KV!Live THEN KV!Free(s) ELSE UNCHANGED kvVars
                  /\ waiting' = Dropping(waiting, {s})
                  /\ running' = Dropping(running, {s})
                  /\ waiting_counts' = [waiting_counts EXCEPT ![s] = 0]
    /\ UNCHANGED <<status, len, closed, terminate, turn, pc, local, output>>

-----------------------------------------------------------------------------
(* schedule(): whose turn is it? *)

PrefillTokenBudget(epoch, latencyBounded) ==
    IF Visible # {} /\ latencyBounded /\ ~epoch
      THEN KV!LesserOf(MaxBatchedTokens, MaxPrefillChunk)
      ELSE MaxBatchedTokens

\* update_prompt_admission_epoch
PromptAdmissionEpoch(st) ==
    IF Prompts(st, running) \o waiting = <<>> /\ turn.decode_steps > 0 THEN FALSE
    ELSE IF Completions(st, running) = <<>> THEN TRUE
    ELSE turn.epoch

WaitingPromptFitsFreeBlocks(st) ==
    /\ waiting # <<>>
    /\ KV!DivCeil(len[Head(waiting)]) + Len(Completions(st, running)) <= KV!NumUnreserved

CompletionIsDue(st, epoch) ==
    LET promptTokens == SumOver(Prompts(st, running), Uncomputed)
    IN  /\ Completions(st, running) # <<>>
        /\ ~ /\ promptTokens > 0
             /\ promptTokens <= PrefillTokenBudget(epoch, TRUE)
             /\ turn.decode_steps > 0
        /\ ~ /\ promptTokens = 0
             /\ Len(running) < MaxNumSeqs
             /\ WaitingPromptFitsFreeBlocks(st)
             /\ turn.decode_steps > 0
        /\ \/ promptTokens = 0 /\ waiting = <<>>
           \/ turn.decode_steps < IF epoch THEN 1 ELSE MaxDecodeSteps

BeginSchedule ==
    /\ pc = "reap" /\ FinishedSeqs = <<>>
    /\ LET computed == {s \in ToSet(running) : status[s] = "RunningPrompt" /\ Uncomputed(s) = 0}
           st       == SetStatus(computed, "RunningCompletion")
           epoch    == PromptAdmissionEpoch(st)
           due      == CompletionIsDue(st, epoch)
       IN  /\ status' = st
           /\ turn' = [turn EXCEPT !.epoch = epoch]
           /\ local' = [NoLocals EXCEPT !.scheduled = IF due THEN <<>> ELSE Prompts(st, running)]
           /\ pc' = IF due THEN "completion" ELSE "admit"
    /\ UNCHANGED <<kvVars, waiting, running, len, closed, terminate, waiting_counts, output>>

-----------------------------------------------------------------------------
(* _preempt, for the sequences that schedule() has just taken off a queue. *)

\* Mutant: the sequence that room is made for does not get back into the queue.
PushFrontDropsWaiting(s) == IF pc = "evict" THEN <<s>> \o Tail(waiting) ELSE <<s>> \o waiting

\* Waiting sequences stay ahead of the ones preempted for them.
PushFront(s) == IF pc = "evict" THEN InsertAt(waiting, 2, s) ELSE <<s>> \o waiting

\* Mutant: the sequence goes back to the queue with its blocks.
PreemptKeepsBlocks ==
    /\ local.doomed # <<>>
    /\ LET s == Head(local.doomed)
       IN  IF IsFinished(s) THEN UNCHANGED <<waiting, status>>
           ELSE status' = [status EXCEPT ![s] = "Waiting"] /\ waiting' = PushFront(s)
    /\ local' = [local EXCEPT !.doomed = Tail(@)]
    /\ UNCHANGED <<kvVars, running, len, closed, terminate, waiting_counts, turn, pc, output>>

Preempt ==
    /\ local.doomed # <<>>
    /\ LET s == Head(local.doomed)
       IN  IF IsFinished(s)
             THEN /\ local' = [local EXCEPT !.doomed = Tail(@)]
                  /\ UNCHANGED <<kvVars, waiting, status>>
           ELSE IF ~Published(s)
             THEN KV!CacheBlocks(s) /\ UNCHANGED <<waiting, status, local>>
           ELSE /\ KV!Free(s)
                /\ status' = [status EXCEPT ![s] = "Waiting"]
                /\ waiting' = PushFront(s)
                /\ local' = [local EXCEPT !.doomed = Tail(@)]
    /\ UNCHANGED <<running, len, closed, terminate, waiting_counts, turn, pc, output>>

At(where) == pc = where /\ local.doomed = <<>>

-----------------------------------------------------------------------------
(* Admission of waiting prompts. *)

\* Mutant: the null block counts as usable.
CapacityWithNullBlock == (NumBlocks + 1) * BlockSize

\* num_usable_blocks, in tokens.
Capacity == NumBlocks * BlockSize

\* The conditions of the admission loop.
RoomForMore ==
    /\ waiting # <<>>
    /\ Len(running) < MaxNumSeqs
    /\ Len(local.scheduled) < MaxBatchedTokens

MediaClash(s) ==
    /\ UniformPrompt \/ UniformMedia
    /\ local.scheduled # <<>>
    /\ Media[local.scheduled[1]] # Media[s]

\* finish_front_of_waiting.  Its kv_mgr.free has nothing to free, as
\* WaitingHoldNothing says.
FinishFrontOfWaiting ==
    /\ status' = [status EXCEPT ![Head(waiting)] = "Ignored"]
    /\ waiting_counts' = [waiting_counts EXCEPT ![Head(waiting)] = 0]
    /\ waiting' = Tail(waiting)

RejectTooLong ==
    /\ At("admit") /\ RoomForMore
    /\ len[Head(waiting)] > Capacity
    /\ FinishFrontOfWaiting
    /\ UNCHANGED <<kvVars, running, len, closed, terminate, turn, pc, local, output>>

DeferForMedia ==
    /\ At("admit") /\ RoomForMore
    /\ len[Head(waiting)] <= Capacity /\ MediaClash(Head(waiting))
    /\ waiting' = Tail(waiting)
    /\ local' = [local EXCEPT !.again = Append(@, Head(waiting))]
    /\ UNCHANGED <<kvVars, running, status, len, closed, terminate, waiting_counts, turn,
                   pc, output>>

LookUp ==
    /\ At("admit") /\ RoomForMore
    /\ LET s == Head(waiting)
       IN  /\ len[s] <= Capacity /\ ~MediaClash(s)
           /\ KV!GetComputedBlocks(s, ChainOf[s], len[s])
    /\ pc' = "allocate"
    /\ UNCHANGED <<waiting, running, status, len, closed, terminate, waiting_counts, turn,
                   local, output>>

\* The capacity check of reserve_prompt and allocate_slots.
Fits == KV!DivCeil(lookup.tokens) - Len(lookup.hit) + KV!NumEvictable <= KV!NumUnreserved

Admit ==
    /\ pc \in {"allocate", "evict"} /\ local.doomed = <<>> /\ Fits
    /\ LET s == Head(waiting)
       IN  /\ IF s \in Visible THEN KV!ReservePrompt(s) ELSE KV!AllocateNewRequest(s)
           /\ status' = [status EXCEPT ![s] = "RunningPrompt"]
           /\ waiting_counts' = [waiting_counts EXCEPT ![s] = 0]
           /\ waiting' = Tail(waiting)
           /\ running' = Append(running, s)
           /\ local' = [local EXCEPT !.scheduled = Append(@, s)]
    /\ pc' = "admit"
    /\ UNCHANGED <<len, closed, terminate, turn, output>>

LeaveAdmission ==
    /\ waiting' = waiting \o local.again
    /\ local' = [local EXCEPT !.again = <<>>]
    /\ pc' = "prompt"

NoRoom ==
    /\ At("admit") /\ ~RoomForMore
    /\ LeaveAdmission
    /\ UNCHANGED <<kvVars, running, status, len, closed, terminate, waiting_counts, turn, output>>

DoesNotFit ==
    /\ At("allocate") /\ ~Fits
    /\ LET s == Head(waiting)
       IN  /\ waiting_counts' = [waiting_counts EXCEPT ![s] = KV!LesserOf(@, WaitingTimeout) + 1]
           /\ IF waiting_counts[s] >= WaitingTimeout /\ PreemptForWaiting
                THEN pc' = "evict" /\ UNCHANGED <<kvVars, waiting, local>>
                ELSE KV!AbandonLookup /\ LeaveAdmission
    /\ UNCHANGED <<running, status, len, closed, terminate, turn, output>>

\* A sequence that has waited too long makes room for itself: preempt the
\* last running sequence and retry with the blocks looked up before.
MakeRoom ==
    /\ At("evict") /\ ~Fits
    /\ IF running # <<>>
         THEN /\ running' = Front(running)
              /\ local' = [local EXCEPT !.doomed = <<Last(running)>>,
                                        !.scheduled = Dropping(@, {Last(running)})]
              /\ UNCHANGED <<kvVars, waiting, status, waiting_counts, pc>>
         ELSE /\ KV!AbandonLookup
              /\ FinishFrontOfWaiting
              /\ pc' = "admit"
              /\ UNCHANGED <<running, local>>
    /\ UNCHANGED <<len, closed, terminate, turn, output>>

-----------------------------------------------------------------------------
(* select_prompt_batch and materialize_prompt_chunks. *)

Position(q, s) == CHOOSE i \in 1..Len(q) : q[i] = s

\* Start with the sequence that the last prompt batch left out.
Rotated(q) ==
    IF turn.next_prompt \notin ToSet(q) THEN q
    ELSE LET i == Position(q, turn.next_prompt)
         IN  SubSeq(q, i, Len(q)) \o SubSeq(q, 1, i - 1)

\* The candidates that may share a batch with the first one.
Compatible(q) ==
    Keep(q, {s \in ToSet(q) :
        /\ s \in Visible <=> q[1] \in Visible
        /\ UniformPrompt \/ UniformMedia => Media[s] = Media[q[1]]
        /\ UniformPrompt /\ q[1] \in Visible => Computed(s) = Computed(q[1])})

\* prompt_chunk_size
PromptChunkSize(budget, n, latency) ==
    LET even == IF budget \div n = 0 THEN 1 ELSE budget \div n
    IN  IF latency THEN KV!LesserOf(even, MaxPrefillChunk) ELSE even

\* The visible batch: as many candidates as the token budget has tokens, the
\* budget split evenly, and of these chunks those that go with the first one
\* (all final or none, and of one length where the model needs it).
VisibleBatch(q) ==
    LET latency   == \E s \in ToSet(running) : status[s] = "RunningCompletion"
        budget    == PrefillTokenBudget(turn.epoch, latency)
        cands     == SubSeq(q, 1, KV!LesserOf(Len(q), budget))
        chunk     == PromptChunkSize(budget, Len(cands), latency)
        End(s)    == KV!LesserOf(Computed(s) + chunk, len[s])
        Final(s)  == End(s) = len[s]
        Length(s) == End(s) - Computed(s)
        first     == cands[1]
        group     == Keep(cands, {s \in ToSet(cands) :
                         /\ Final(s) <=> Final(first)
                         /\ UniformPrompt \/ ~PackedPrefill => Length(s) = Length(first)})
    IN  [i \in 1..Len(group) |-> [id |-> group[i], end |-> End(group[i])]]

\* bucket_and_preempt_sequences of whole prompts, by what they have to compute
\* and what they have cached.
WholePromptBucket(q) ==
    LET uniform == UniformPrompt \/ \E i \in 1..Len(q) : Computed(q[i]) > 0
        Ragged(s) == (len[s] + RaggedBucketTokens - 1) \div RaggedBucketTokens
        Size(s) == IF uniform THEN Uncomputed(s) ELSE IF PackedPrefill THEN 0 ELSE Ragged(s)
        Key(s)  == <<Size(s), Computed(s), IF uniform \/ UniformMedia THEN Media[s] ELSE 0>>
    IN  Keep(q, {s \in ToSet(q) : Key(s) = Key(q[1])})

WholePrompts(q) == [i \in 1..Len(q) |-> [id |-> q[i], end |-> len[q[i]]]]

Ids(batch) == {batch[i].id : i \in 1..Len(batch)}

\* advance_prompt_cursor: the first candidate that is not in the batch.
FirstOmitted(q, batch) ==
    LET omitted == Dropping(q, Ids(batch))
    IN  IF omitted = <<>> THEN NoSeq ELSE omitted[1]

SelectPromptBatch ==
    /\ At("prompt") /\ local.scheduled # <<>>
    /\ \E q \in {Rotated(local.scheduled)} : \E cands \in {Compatible(q)} :
       LET visible  == q[1] \in Visible
           bucket   == WholePromptBucket(cands)
           batch    == IF visible THEN VisibleBatch(cands) ELSE WholePrompts(bucket)
           rejected == IF visible THEN <<>>
                       ELSE Dropping(cands, ToSet(bucket))
       IN  /\ output' = [prompt |-> TRUE, batch |-> batch, next |-> 1]
           /\ running' = Dropping(running, ToSet(rejected))
           /\ local' = [NoLocals EXCEPT !.doomed = Reverse(rejected)]
           /\ turn' = [turn EXCEPT !.next_prompt = FirstOmitted(q, batch)]
           /\ pc' = IF visible THEN "materialize" ELSE "ready"
    /\ UNCHANGED <<kvVars, waiting, status, len, closed, terminate, waiting_counts>>

NoPromptToRun ==
    /\ At("prompt") /\ local.scheduled = <<>>
    /\ pc' = "completion"
    /\ UNCHANGED <<kvVars, waiting, running, status, len, closed, terminate, waiting_counts,
                   turn, local, output>>

\* allocate_slots for an admitted sequence, up to n tokens.
NewBlocks(s, n) == KV!DivCeil(n) - Len(reqs[s].block_ids)

HasSlots(s, n) ==
    \/ NewBlocks(s, n) <= 0
    \/ /\ NewBlocks(s, n) - KV!TakenFromReservation(s, NewBlocks(s, n)) <= KV!NumUnreserved
       /\ NewBlocks(s, n) <= KV!NumFree(pool)

AllocateSlots(s, n) == IF NewBlocks(s, n) <= 0 THEN UNCHANGED kvVars ELSE KV!AllocateMore(s, n)

\* "reserved prompt chunk must fit in the KV cache"
MaterializePromptChunk ==
    /\ At("materialize") /\ output.next <= Len(output.batch)
    /\ LET chunk == output.batch[output.next]
       IN  IF HasSlots(chunk.id, chunk.end) THEN AllocateSlots(chunk.id, chunk.end)
           ELSE KV!Panic /\ UNCHANGED <<reqs, total_reserved, seqs, lookup, kv, leases>>
    /\ output' = [output EXCEPT !.next = @ + 1]
    /\ UNCHANGED <<waiting, running, status, len, closed, terminate, waiting_counts, turn,
                   pc, local>>

PromptBatchReady ==
    /\ \/ At("ready")
       \/ At("materialize") /\ output.next > Len(output.batch)
    /\ turn' = [turn EXCEPT !.decode_steps = 0]
    /\ output' = [output EXCEPT !.next = 1]
    /\ pc' = "step"
    /\ UNCHANGED <<kvVars, waiting, running, status, len, closed, terminate, waiting_counts, local>>

-----------------------------------------------------------------------------
(* The completion phase. *)

\* Mutant: the comparison is the wrong way round.
YoungestFirst(q) == Reverse(InOrder(ToSet(q)))

\* sort_running_by_priority_fcfs
PriorityOrder(q) == InOrder(ToSet(q))

\* Set the prompts aside and order the completions by priority.
BeginCompletion ==
    /\ At("completion")
    /\ LET prompts == Prompts(status, running)
       IN  /\ local' = [NoLocals EXCEPT !.prompts = prompts]
           /\ running' = PriorityOrder(Dropping(running, ToSet(prompts)))
    /\ pc' = "slots"
    /\ UNCHANGED <<kvVars, waiting, status, len, closed, terminate, waiting_counts, turn, output>>

\* Mutant: the token of the step that is about to run needs no slot.
CompletionTokensComputed(s) == Computed(s)

\* The tokens that the next decode step needs slots for.
CompletionTokens(s) == IF Uncomputed(s) > 0 THEN len[s] ELSE len[s] + 1

\* Slots for the front of running; its media must go with the first one kept.
TakeSlots ==
    /\ At("slots") /\ running # <<>>
    /\ LET s     == Head(running)
           clash == /\ UniformMedia /\ local.kept # <<>>
                    /\ Media[s] # Media[local.kept[1]]
       IN  /\ HasSlots(s, CompletionTokens(s))
           /\ AllocateSlots(s, CompletionTokens(s))
           /\ local' = IF clash THEN [local EXCEPT !.doomed = <<s>>]
                                ELSE [local EXCEPT !.kept = Append(@, s)]
    /\ running' = Tail(running)
    /\ UNCHANGED <<waiting, status, len, closed, terminate, waiting_counts, turn, pc, output>>

\* Without slots for the front, preempt the back; the last one left preempts itself.
PreemptForSlots ==
    /\ At("slots") /\ running # <<>>
    /\ ~HasSlots(Head(running), CompletionTokens(Head(running)))
    /\ local' = [local EXCEPT !.doomed = <<Last(running)>>]
    /\ running' = Front(running)
    /\ UNCHANGED <<kvVars, waiting, status, len, closed, terminate, waiting_counts, turn,
                   pc, output>>

\* Mutant: sequences of any length are decoded together.
AnyLength(s) == TRUE

\* The bucket of the oldest completion.
InFirstBucket(s) == ~UniformCompletion \/ len[s] = len[local.kept[1]]

\* enforce_completion_compatibility
EnforceCompatibility ==
    /\ At("slots") /\ running = <<>>
    /\ LET bucket == {s \in ToSet(local.kept) : InFirstBucket(s)}
       IN  local' = [local EXCEPT !.kept = Keep(@, bucket),
                                     !.doomed = Reverse(Dropping(local.kept, bucket))]
    /\ pc' = "settle"
    /\ UNCHANGED <<kvVars, waiting, running, status, len, closed, terminate, waiting_counts,
                   turn, output>>

\* TERMINATE_ALL_NEXT_STEP cancels the running sequences, not the waiting ones.
Settle ==
    /\ At("settle")
    /\ IF terminate
         THEN /\ running' = local.kept \o local.prompts
              /\ status' = SetStatus(ToSet(running'), "Done")
              /\ local' = NoLocals
              /\ pc' = "idle"
         ELSE /\ running' = local.kept
              /\ status' = SetStatus(ToSet(local.kept), "RunningCompletion")
              /\ local' = [local EXCEPT !.kept = <<>>]
              /\ pc' = "publish"
    /\ terminate' = FALSE
    /\ UNCHANGED <<kvVars, waiting, len, closed, waiting_counts, turn, output>>

\* Eagerly cache newly full blocks.
PublishRunning ==
    /\ At("publish")
    /\ LET unpublished == Keep(running, {s \in ToSet(running) : ~Published(s)})
       IN  unpublished # <<>> /\ KV!CacheBlocks(Head(unpublished))
    /\ UNCHANGED <<waiting, running, status, len, closed, terminate, waiting_counts, turn,
                   pc, local, output>>

\* completion_token_cost
Cost(s) == IF Uncomputed(s) = 0 THEN 1 ELSE Uncomputed(s)

\* The rows from the cursor on, and around.
InTurn(rows) ==
    LET start == turn.cursor % Len(rows)
    IN  SubSeq(rows, start + 1, Len(rows)) \o SubSeq(rows, 1, start)

\* completion_batch_indices: the first row, and every other one that the rows
\* picked before it leave enough tokens for.  There is one such set.
CompletionBatches(q) ==
    {S \in SUBSET ToSet(q) : \A i \in 1..Len(q) :
        LET spent == SumOver(Keep(SubSeq(q, 1, i - 1), S), Cost)
        IN  q[i] \in S <=> i = 1 \/ spent + Cost(q[i]) <= MaxBatchedTokens}

\* record_decode_step
DecodeStepsAfterDecode == KV!LesserOf(turn.decode_steps + 1, MaxDecodeSteps)

SelectCompletionBatch ==
    /\ At("publish") /\ \A i \in 1..Len(running) : Published(running[i])
    /\ IF running = <<>>
         THEN /\ turn' = [turn EXCEPT !.decode_steps = DecodeStepsAfterDecode]
              /\ output' = NoOutput
         ELSE \E q \in {InTurn(running)} : \E S \in CompletionBatches(q) :
                 LET picked == Keep(q, S)
                     last   == Position(running, Last(picked))
                 IN  /\ turn' = [turn EXCEPT !.decode_steps = DecodeStepsAfterDecode,
                                             !.cursor = last % Len(running)]
                     /\ output' = [prompt |-> FALSE, batch |-> WholePrompts(picked), next |-> 1]
    /\ running' = running \o local.prompts
    /\ local' = NoLocals
    /\ pc' = "step"
    /\ UNCHANGED <<kvVars, waiting, status, len, closed, terminate, waiting_counts>>

-----------------------------------------------------------------------------
(* The step of the engine. *)

\* The batch runs: each sequence computes its tokens and, when that were all
\* it has, samples the next one or stops.
StepSequence ==
    /\ pc = "step" /\ output.next <= Len(output.batch)
    /\ LET s   == output.batch[output.next].id
           end == output.batch[output.next].end
       IN  /\ KV!Forward(s, end, end)
           /\ \/ /\ end < len[s]
                 /\ UNCHANGED <<status, len>>
              \/ /\ end = len[s]
                 /\ status' = [status EXCEPT ![s] = "Done"]
                 /\ UNCHANGED len
              \/ /\ end = len[s] /\ len[s] < MaxLen[s]
                 /\ status' = [status EXCEPT ![s] = "RunningCompletion"]
                 /\ len' = [len EXCEPT ![s] = @ + 1]
    /\ output' = [output EXCEPT !.next = @ + 1]
    /\ UNCHANGED <<waiting, running, closed, terminate, waiting_counts, turn, pc, local>>

EndOfStep ==
    /\ pc = "step" /\ output.next > Len(output.batch)
    /\ output' = NoOutput
    /\ pc' = "idle"
    /\ UNCHANGED <<kvVars, waiting, running, status, len, closed, terminate, waiting_counts,
                   turn, local>>

\* Mutant: an error of the step leaves the batch to be tried again.
StepFailsRetries ==
    /\ MayFail /\ pc = "step" /\ output.batch # <<>>
    /\ output' = NoOutput
    /\ pc' = "idle"
    /\ UNCHANGED <<kvVars, waiting, running, status, len, closed, terminate, waiting_counts, turn, local>>

\* handle_pipeline_forward_error, reject_prompt_for_cuda_memory: an error of
\* the step fails the whole batch.
StepFails ==
    /\ MayFail /\ pc = "step" /\ output.batch # <<>>
    /\ status' = SetStatus(Ids(output.batch), "Error")
    /\ output' = NoOutput
    /\ pc' = "idle"
    /\ UNCHANGED <<kvVars, waiting, running, len, closed, terminate, waiting_counts, turn, local>>

\* retain_prompt_prefix and defer_prompt_tail: CUDA memory is short, so the
\* second half of the prompts is left for later.
RetainPromptPrefix ==
    /\ MayFail /\ pc = "step" /\ output.prompt /\ output.next = 1
    /\ Len(output.batch) > 1
    /\ LET retained == (Len(output.batch) + 1) \div 2
       IN  /\ output' = [output EXCEPT !.batch = SubSeq(@, 1, retained)]
           /\ turn' = [turn EXCEPT !.next_prompt = output.batch[retained + 1].id]
    /\ UNCHANGED <<kvVars, waiting, running, status, len, closed, terminate, waiting_counts,
                   pc, local>>

-----------------------------------------------------------------------------

Schedule ==
    \/ Preempt
    \/ BeginSchedule \/ RejectTooLong \/ DeferForMedia \/ LookUp \/ Admit \/ NoRoom
    \/ DoesNotFit \/ MakeRoom
    \/ SelectPromptBatch \/ NoPromptToRun \/ MaterializePromptChunk \/ PromptBatchReady
    \/ BeginCompletion \/ TakeSlots \/ PreemptForSlots \/ EnforceCompatibility \/ Settle
    \/ PublishRunning \/ SelectCompletionBatch

Engine == CancelClosed \/ FreeFinished \/ Schedule \/ StepSequence \/ EndOfStep

Next == AddSeq \/ CloseResponse \/ TerminateAll \/ Engine \/ StepFails \/ RetainPromptPrefix

Spec == Init /\ [][Next]_vars

\* The engine's thread keeps running; nothing is assumed of clients.
FairSpec == Spec /\ WF_vars(Engine)

-----------------------------------------------------------------------------

Everywhere == waiting \o local.again \o running \o local.kept \o local.prompts \o local.doomed

\* No sequence is lost or doubled, whatever preemption, bucketing and the
\* media queue do with it; and one that is in no queue has no KV entry.
NoSequenceLost ==
    /\ \A s \in Req : status[s] \notin Finished \cup {"Absent"} => s \in ToSet(Everywhere)
    /\ IsInjective(Everywhere)
    /\ KV!Live \subseteq ToSet(Everywhere)

\* A sequence holds KV blocks exactly while it runs.
WaitingHoldNothing ==
    LET holders == ToSet(running \o local.kept \o local.prompts \o local.doomed)
    IN  /\ KV!Live = holders
        /\ Len(running \o local.kept \o local.prompts) <= MaxNumSeqs

\* The tokens of a new batch stay within the budget, unless one decode alone
\* exceeds it.
WithinBudget ==
    LET tokens == SumOver([i \in 1..Len(output.batch) |-> i],
                          LAMBDA i : output.batch[i].end - Computed(output.batch[i].id))
    IN  output.next = 1 /\ Visible = Req /\ (output.prompt \/ Len(output.batch) > 1)
          => tokens <= MaxBatchedTokens

\* The batch is all prompt or all completion, each sequence has something to
\* compute and a slot for every token of it, and the budget is respected.
BatchIsRunnable ==
    pc = "step" => WithinBudget /\ \A i \in output.next..Len(output.batch) :
        LET s == output.batch[i].id
        IN  /\ s \in ToSet(running) /\ s \in KV!Live
            /\ status[s] = IF output.prompt THEN "RunningPrompt" ELSE "RunningCompletion"
            /\ Computed(s) < output.batch[i].end
            /\ output.batch[i].end <= Len(reqs[s].block_ids) * BlockSize

\* A batch is as uniform as the pipeline asked for: of one medium, of one
\* number of prompt tokens, of one length.
BatchIsUniform ==
    pc = "step" /\ output.next = 1 => \A i, j \in 1..Len(output.batch) :
        LET s == output.batch[i].id
            t == output.batch[j].id
        IN  /\ UniformMedia \/ (output.prompt /\ UniformPrompt) => Media[s] = Media[t]
            /\ output.prompt /\ UniformPrompt =>
                   /\ Computed(s) = Computed(t)
                   /\ output.batch[i].end = output.batch[j].end
            /\ ~output.prompt /\ UniformCompletion => len[s] = len[t]

\* A sequence attends to the KV of its own tokens, also after it was
\* preempted and took blocks of others from the prefix cache.
AttendsToItsOwnTokens ==
    \A s \in KV!Live : \A t \in 0..(Computed(s) - 1) :
        t < Len(ChainOf[s]) * BlockSize =>
            LET slot == KV!SlotOf(s, t)
            IN  kv[slot.block][slot.offset] = ChainOf[s][t \div BlockSize + 1]

\* No expect of the scheduler or the manager fails: a reserved prompt chunk
\* fits in the KV cache, and num_unreserved_blocks can always be subtracted.
NoPanic == pool.ok /\ total_reserved <= KV!NumFree(pool)

\* Only a sequence that is longer than the whole cache is turned away; making
\* room "cannot fail after the capacity check and full preemption".
OnlyTooLongIgnored == \A s \in Req : status[s] = "Ignored" => len[s] > Capacity

\* For want of slots the completion phase preempts the youngest first.
PreemptsYoungestFirst ==
    [][ pc = "slots" /\ PreemptForSlots =>
          \A s \in ToSet(running \o local.kept) : s <= local'.doomed[1] ]_vars

Gone(s) == IsFinished(s) /\ s \notin ToSet(Everywhere) /\ s \notin KV!Live

\* Every sequence that arrives is eventually answered and gives its blocks back:
\* from some time on, all that have arrived are gone (a sequence does not return).
EverySequenceEnds == <>[](\A s \in Req : status[s] = "Absent" \/ Gone(s))

=============================================================================
