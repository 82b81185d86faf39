-------------------------- MODULE DefaultScheduler --------------------------
(***************************************************************************)
(* DefaultScheduler (scheduler/default_scheduler.rs) and the part of the   *)
(* engine loop that runs its batches on the pipeline's one working K/V     *)
(* cache (engine/mod.rs, pipeline/mod.rs, kv_cache/mod.rs): the scheduler  *)
(* of every pipeline without paged attention.                              *)
(*                                                                         *)
(* The contents of a K/V cache are the number n of leading tokens of its   *)
(* own sequence that it holds, or Junk when it holds anything else.  All   *)
(* sequences are text without raw logits, so two of the four parts of a    *)
(* bucket's key are the same for all of them.                              *)
(***************************************************************************)
EXTENDS Naturals, FiniteSets, SequencesExt, Queues

CONSTANTS
    MaxSeqs,            \* the n of DefaultSchedulerMethod::Fixed(n)
    MaxGenerated,       \* max_len of every sequence
    MayFail,            \* whether a forward pass may fail
    Junk

ASSUME SchedulerAssumption ==
    /\ MaxSeqs \in Nat \ {0} /\ MaxGenerated \in Nat \ {0}
    /\ MayFail \in BOOLEAN /\ Junk \notin Nat

VARIABLES
    waiting, running,   \* the two queues of sequence identifiers
    seq,                \* the sequences, by identifier
    batch,              \* what is left to run of what schedule returned
    pipe,               \* the pipeline's cache: the sequence and contents of each row
    lastIds,            \* last_completion_ids
    terminateAll,       \* TERMINATE_ALL_NEXT_STEP
    exposed,            \* history: what a known weakness may have harmed
    skipped             \* history: what a failing batch left behind before its prompt step

schedVars == <<waiting, running, seq, batch, pipe, lastIds, terminateAll, exposed, skipped>>

NoBatch == [completion |-> <<>>, prompt |-> <<>>]

SchedInit ==
    /\ waiting = <<>> /\ running = <<>> /\ seq = <<>> /\ batch = NoBatch
    /\ pipe = <<>> /\ lastIds = <<>> /\ terminateAll = FALSE
    /\ exposed = {} /\ skipped = {}

-----------------------------------------------------------------------------
(* Sequences. *)

Finished(s) == seq[s].state \in {"done", "error"}

\* Sequence::is_running: a sequence with a cached prefix that waits for its
\* prompt step ("prefill") does not count.
IsRunning(s) == seq[s].state \in {"prompt", "completion"}

\* Sequence::len: the suffix of a cached prefix, else the tokens.
Length(s) == IF seq[s].prefill THEN seq[s].tokens - seq[s].offset ELSE seq[s].tokens

\* A new sequence of request r; a prefix hit brings offset tokens of K/V.
NewSeq(r, prompt, offset) ==
    [req |-> r, tokens |-> prompt, left |-> MaxGenerated, offset |-> offset, kv |-> offset,
     prefill |-> offset > 0, urgency |-> 0,
     state |-> IF offset > 0 THEN "prefill" ELSE "waiting"]

\* cancel_closed_response_groups, then free_finished_sequence_groups: what is
\* left of a queue.
Reaped(queue, closed) ==
    Keep(queue, {s \in ToSet(queue) : ~Finished(s) /\ seq[s].req \notin closed})

\* The sequences of two queues; the others are gone.
OnlyIn(f, run, wait) == Restrict(f, ToSet(run) \cup ToSet(wait))

Reap(closed) ==
    /\ running' = Reaped(running, closed) /\ waiting' = Reaped(waiting, closed)
    /\ seq' = OnlyIn(seq, running', waiting')

-----------------------------------------------------------------------------
(* Bucketing. *)

BucketKey(s) == <<Length(s), seq[s].offset>>

Bucket(run, k) == Keep(run, {s \in ToSet(run) : BucketKey(s) = k})

\* 2 to the sum of compute_priority over a bucket: the sum of urgency and
\* log2(len) orders buckets as this product does.
Priority(run, k) ==
    FoldSeq(LAMBDA s, p : p * 2^seq[s].urgency * Length(s), 1, Bucket(run, k))

\* The bucket to run: the shortest when discrete, else one of highest priority.
\* Ties are broken by the order of a HashMap.
Preferred(run, keys, discrete) ==
    IF discrete THEN {k \in keys : \A j \in keys : k[1] <= j[1]}
                ELSE {k \in keys : \A j \in keys : Priority(run, k) >= Priority(run, j)}

\* Mutant: the buckets that do not run are lost.
BucketedForgetsOthers(run, wait, discrete) ==
    LET keys == {BucketKey(s) : s \in ToSet(run)}
    IN  IF keys = {} THEN {[running |-> run, waiting |-> wait]}
        ELSE {[running |-> Bucket(run, k), waiting |-> wait] : k \in Preferred(run, keys, discrete)}

\* One bucket follows another, each in the order of run.
BucketByBucket(run, queue) ==
    \A i, j \in DOMAIN queue : i < j /\ BucketKey(queue[i]) = BucketKey(queue[j]) =>
        /\ \A m \in i..j : BucketKey(queue[m]) = BucketKey(queue[i])
        /\ \E x, y \in DOMAIN run : x < y /\ run[x] = queue[i] /\ run[y] = queue[j]

\* The queues that the buckets other than k may form.
Others(run, k) ==
    {queue \in SetToSeqs({s \in ToSet(run) : BucketKey(s) # k}) : BucketByBucket(run, queue)}

\* bucket_and_waitlist_seqs_waiting: all possible results.
Bucketed(run, wait, discrete) ==
    LET keys == {BucketKey(s) : s \in ToSet(run)}
    IN  IF Cardinality(keys) <= 1
        THEN {[running |-> run, waiting |-> wait]}
        ELSE UNION {{[running |-> Bucket(run, k), waiting |-> wait \o queue] :
                        queue \in Others(run, k)} : k \in Preferred(run, keys, discrete)}

\* Runs one bucket of run: reset_urgency for what runs, add_urgency for what is
\* put back.  enter is the state in which each sequence of run enters the
\* bucketing; with stop those that are chosen are finished.
Adopt(run, wait, discrete, enter, stop) ==
    \E b \in Bucketed(run, wait, discrete) :
        /\ running' = b.running /\ waiting' = b.waiting
        /\ seq' = [s \in ToSet(b.running) \cup ToSet(b.waiting) |->
                    IF s \in ToSet(b.running)
                    THEN [seq[s] EXCEPT !.urgency = 0, !.state = IF stop THEN "done" ELSE enter[s]]
                    ELSE IF s \in ToSet(run)
                    THEN [seq[s] EXCEPT !.urgency = @ + 1, !.state = enter[s]]
                    ELSE seq[s]]

-----------------------------------------------------------------------------
(* schedule. *)

\* Nothing runs: everything that waits is set to prompt, whatever it was.
ScheduleWaiting(wait) ==
    /\ Adopt(wait, <<>>, TRUE, [s \in ToSet(wait) |-> "prompt"], FALSE)
    /\ batch' = [completion |-> <<>>, prompt |-> running']
    /\ exposed' = exposed \cup {s \in ToSet(wait) : seq[s].offset > 0 /\ ~seq[s].prefill}
    /\ UNCHANGED terminateAll

\* Nothing waits: everything that runs is taken for a completion.
ScheduleRunning(run) ==
    /\ Adopt(run, <<>>, TRUE, [s \in ToSet(run) |-> seq[s].state], terminateAll)
    /\ batch' = [completion |-> running', prompt |-> <<>>]
    /\ terminateAll' = FALSE
    /\ UNCHANGED exposed

\* Both: the oldest waiting sequences join while they fit.
ScheduleBoth(run, wait) ==
    \E sorted \in {InOrder(ToSet(wait))} :
    LET fits   == Min({IF Len(run) < MaxSeqs THEN MaxSeqs - Len(run) ELSE 0, Len(sorted)})
        enter  == [s \in DOMAIN seq |->
                    IF seq[s].state = "waiting" THEN "prompt" ELSE seq[s].state]
    IN  /\ Adopt(run \o SubSeq(sorted, 1, fits), SubSeq(sorted, fits + 1, Len(sorted)), FALSE,
                 enter, FALSE)
        /\ batch' = [completion |-> Keep(running', {s \in ToSet(running') : seq[s].state = "completion"}),
                     prompt |-> Keep(running', {s \in ToSet(running') : seq[s].state # "completion"})]
        /\ UNCHANGED <<terminateAll, exposed>>

\* The engine reaps once more, then schedule keeps what is running.
Schedule(closed) ==
    \E run \in {Keep(Reaped(running, closed), {s \in ToSet(running) : IsRunning(s)})},
       wait \in {Reaped(waiting, closed)} :
        /\ CASE run = <<>> /\ wait = <<>> ->
                    /\ running' = <<>> /\ waiting' = <<>> /\ seq' = <<>> /\ batch' = NoBatch
                    /\ UNCHANGED <<terminateAll, exposed>>
             [] run = <<>> /\ wait # <<>> -> ScheduleWaiting(wait)
             [] run # <<>> /\ wait = <<>> -> ScheduleRunning(run)
             [] OTHER -> ScheduleBoth(run, wait)
        /\ UNCHANGED <<pipe, lastIds, skipped>>

-----------------------------------------------------------------------------
(* A step of the pipeline on a batch: a cache operation, the forward pass, *)
(* clone_out_cache and sampling.                                           *)

\* clone_in_cache: the lengths are those of the first sequence, and its missing
\* cache leaves the pipeline's empty.
CloneIn(ids) ==
    [i \in DOMAIN ids |-> IF seq[ids[1]].kv \in {0, seq[ids[i]].kv} THEN seq[ids[1]].kv ELSE Junk]

\* set_none_cache.
SetNone(ids) == [i \in DOMAIN ids |-> 0]

\* The rows that the previous step left.
Nothing(ids) ==
    IF pipe = <<>> THEN SetNone(ids)
    ELSE [i \in DOMAIN ids |-> IF pipe[i].s = ids[i] THEN pipe[i].n ELSE Junk]

\* The forward pass appends tokens from..to of a sequence to a row.
Appended(row, from, to) == IF row = from - 1 THEN to ELSE Junk

\* The batch is run over rows; from is the first token that is fed of each
\* sequence, after its state if it goes on.
RunBatch(ids, rows, from, after) ==
    LET out == [i \in DOMAIN ids |-> Appended(rows[i], from[ids[i]], seq[ids[i]].tokens)]
    IN  \E ends \in SUBSET ToSet(ids) :
        /\ pipe' = [i \in DOMAIN ids |-> [s |-> ids[i], n |-> out[i]]]
        /\ seq' = [s \in DOMAIN seq |->
                    IF s \notin ToSet(ids) THEN seq[s]
                    ELSE [seq[s] EXCEPT !.kv = out[CHOOSE i \in DOMAIN ids : ids[i] = s],
                            !.tokens = @ + 1, !.left = @ - 1, !.prefill = FALSE,
                            !.state = IF s \in ends \/ seq[s].left = 1 \/ Finished(s)
                                      THEN "done" ELSE after[s]]]
        /\ exposed' = IF ToSet(ids) \cap exposed = {} THEN exposed ELSE exposed \cup ToSet(ids)
        /\ UNCHANGED <<waiting, running, terminateAll, skipped>>

\* handle_pipeline_forward_error: the batch ends in error, the pipeline's cache
\* is reset, and rest, the rest of the iteration, is skipped.
FailBatch(ids, rest) ==
    /\ MayFail
    /\ seq' = [s \in DOMAIN seq |->
                IF s \in ToSet(ids) THEN [seq[s] EXCEPT !.state = "error"] ELSE seq[s]]
    /\ pipe' = <<>> /\ batch' = NoBatch
    /\ exposed' = exposed \cup ToSet(lastIds) \cup ToSet(rest)
    /\ skipped' = skipped \cup {s \in ToSet(rest) : ~IsRunning(s)}
    /\ UNCHANGED <<waiting, running, lastIds, terminateAll>>

\* Mutant: a batch of the same size is taken for the same batch.
CompletionStepBySize ==
    LET ids == batch.completion
        newest == [s \in ToSet(ids) |-> seq[s].tokens]
        state == [s \in ToSet(ids) |-> seq[s].state]
    IN  /\ RunBatch(ids, IF Len(ids) # Len(lastIds) THEN CloneIn(ids) ELSE Nothing(ids),
                    newest, state)
        /\ lastIds' = ids
        /\ batch' = [batch EXCEPT !.completion = <<>>]

CompletionStep ==
    LET ids == batch.completion
        newest == [s \in ToSet(ids) |-> seq[s].tokens]
        state == [s \in ToSet(ids) |-> seq[s].state]
    IN  /\ RunBatch(ids, IF ids # lastIds THEN CloneIn(ids) ELSE Nothing(ids), newest, state)
        /\ lastIds' = ids
        /\ batch' = [batch EXCEPT !.completion = <<>>]

PromptStep ==
    LET ids == batch.prompt
        first == [s \in ToSet(ids) |-> IF seq[s].prefill THEN seq[s].offset + 1 ELSE 1]
        state == [s \in ToSet(ids) |-> "completion"]
    IN  /\ RunBatch(ids, IF seq[ids[1]].offset # 0 THEN CloneIn(ids) ELSE SetNone(ids),
                    first, state)
        /\ lastIds' = <<>>
        /\ batch' = NoBatch

=============================================================================
