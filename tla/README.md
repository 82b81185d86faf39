# mistral.rs: TLA+ models, checks and proofs

mistral.rs is an LLM inference server in Rust. This directory holds TLA+ models
of the parts of its core crate (`mistralrs-core`), and of the approval broker of its
server crate (`mistralrs-server-core`), in which state is shared, promised and taken
back concurrently, the TLC configurations that check them on
small instances, and TLAPS proofs about the block accounting of the paged KV
cache, the paged scheduler over it, its queues and batches, the engine loop with its admission queue and
the default scheduler, the model registry, the adapters and the approvals, for instances of
any size. Paths below are relative to
`src/mistralrs-core/src/` unless they say otherwise. `PROJECT.json` maps every
definition to the lines it models and lists runs, mutants, findings, hazards and
theorems.

## 1. The system

A client calls `MistralRs` (`lib.rs`), the **model registry**. It finds, loads or
wakes the engine of the model and puts the request into that engine's channel.
Every engine is one thread running the loop of `engine/mod.rs`: it admits
requests, turns them into **sequences** (`sequence.rs`), asks its **scheduler** for
a batch, runs the batch on the pipeline, and samples. The paged-attention scheduler
(`paged_attention/scheduler.rs`) gets memory from the **KV cache manager**
(`paged_attention/kv_cache_manager.rs`), which hands out the blocks of a **block
pool** (`paged_attention/block_pool.rs`). The pool is also the prefix cache, and the
**prefix cacher** pins hot prefixes in it with retention leases. Without paged
attention the **default scheduler** (`scheduler/default_scheduler.rs`) forms batches of
equal length over one working cache, into which the caches of the batch's sequences
are copied and back. A request may select a **LoRA adapter**, which is loaded, replaced
and unloaded while the model runs (`adapter/`). A tool call of the agentic loop may
have to be **approved** by a client of the server
(`mistralrs-server-core/src/approvals.rs`) before it runs.

### Inventory

| component | state | operations | talks to |
|---|---|---|---|
| KV cache manager | `req_to_blocks` (block ids, published and reserved counts), `total_reserved_blocks` | `get_computed_blocks`, `reserve_prompt`, `allocate_slots`, `trim_request_to_num_tokens`, `cache_blocks`, `free`, `reset_prefix_cache`, `get_slot_mapping` | block pool; called by the scheduler and the pipeline under one mutex |
| Block pool, retention | free list, `ref_cnt`, hash map, retained maps, counters; shared lease state with revisions | `get_new_blocks`, `touch`, `free_blocks`, `cache_full_blocks`, `sync_retention_locked`, lease `retain`/`touch`/`drop` | manager; prefix cacher on its own lock |
| Paged scheduler | `waiting`, `running`, `waiting_counts`, prompt and decode cursors, decode-step count | `add_seq`, `schedule`, `_preempt`, `free_finished_sequence_groups`, `cancel_closed_response_groups`, prefix retention of a prompt batch | manager (locked and unlocked many times in one `schedule`), engine |
| Engine loop | receiver, admission queue, scheduler, prefix cacher, id counter | receive, admit, schedule, step, fail a batch, shut down | registry through a channel, clients through response channels |
| Sequence | state, tokens, computed tokens, response channel | state changes, token append, `num_computed_tokens` | scheduler, pipeline, sampler |
| Model registry | `engines`, `unloaded_models`, `reloading_models`, `reload_cv`, `last_used`, default ids, aliases: one lock each | `get_sender`, `evict_for_request`, `unload_model`, `reload_model`, `remove_model`, `add_model`, `add_unloaded_model`, `set_default_model_id` | engine threads, loaders, device memory |
| Admission queue | ordered requests, bypassing controls, shutdown, capacity | `push`, `retain`, `take_bypass_control`, `take_shutdown`, `pop_admissible`, `remaining_capacity` | engine loop |
| Default scheduler | waiting, running, urgency of each sequence, termination flag | `add_seq`, `schedule`, bucketing, cancel, reap | engine loop, pipeline's working cache |
| Prefix cacher | cached sequences or leases, LRU | add, search, evict, react to revocations | pool, engine |
| Speculative decoding | staged tokens and cache, acceptance statistics | propose, verify, accept, roll back, trim | pipeline, manager |
| Windowed pool, encoder cache, rotating caches | ring of blocks, LRU of encoder outputs, ring buffers | reuse, insert, evict, truncate | pipeline |
| Dynamic LoRA adapters | aliases, generations, slots (`Weak`), resident budget, mutation lock, load permit | `load_lora_adapter` (create, upsert, compare and swap), unload, pin for a request, drop | registry, requests |
| Agentic loop, approvals, sessions | pending and early decisions, notified calls, approved sessions in the broker and in the engine; saved messages, tool rounds | notify, wait, answer, time out, remember, forget; dispatch a tool, fork, delete | engine, server |
| HTTP server, MCP client | background tasks, cached responses; pending calls of a transport | create, complete, cancel; call, time out | registry |

The rest (models, kernels, quantization, loaders, templates, parsers, bindings,
command line) is numerical code or conversion without shared state.

### What is hard, and what makes each part correct

* **KV blocks are shared memory.** Sequences share prefix blocks; a block with no
  reference is at once free, a cache hit, and perhaps pinned by a lease. Correct
  means: counts are exact, a hit has the content its hash promises, nobody writes
  into a shared block, a promise (reservation) can always be taken, no `expect`
  fails.
* **`schedule()` is not one critical section.** A prefix is looked up, the lock is
  dropped, other sequences are preempted, and only then are the blocks that were
  found adopted. Correct means: no sequence is lost or doubled among four queues,
  every batched token has a slot, budgets hold, everyone is served.
* **Leases race with requests** on separate locks joined by revision numbers.
* **The registry is a set of maps under separate locks**, read one after another by
  many threads while loads take minutes. Correct means: one instance per model, no
  model lost, a load marker always has an owner, no lost wake-up, no circular wait.
* **One working cache serves all batches** of the default scheduler. Whether a step
  copies the sequences' caches in, starts empty or goes on with what the last step left
  is decided from the ids of the last completion batch. Correct means: a row is never
  taken for that of another sequence, whatever was bucketed, preferred or failed before.
* **Adapters are reference counted across requests, aliases and loads.** Whoever drops
  the last reference gives slot and memory back, perhaps while a load of the same files
  looks for it. Correct means: one resident per generation and slot, an exact budget,
  policies that hold when the alias is bound and not only when they were checked.
* **Answers and timeouts race.** A decision may arrive before the call waits, while it
  waits, after its timeout, twice or never.
* **Steps fail.** A batch can fail as a whole, a client can go away at any time,
  memory can run out, an engine thread can die.

The main ones, each at its line, are under `hazards` in `PROJECT.json`. The following
are not covered by a property and are recorded here:

* `lib.rs:3058`, `3399`: `remove_model` sends `Terminate` with `blocking_send` while it
  holds `engines.write()`, and `unload_model` ignores a failed `try_send(Terminate)`. With
  a full channel the first blocks every request, the second waits in `join()` for ever.
  Channel capacity is not part of `ModelRegistry`.
* `lib.rs:2915`: `add_model` and `add_unloaded_model` check three maps, build an engine for
  seconds and insert without looking again. The steps are interleaved in the model; nothing
  says which registration has to win.
* `lib.rs:3833`: `reload_claimed_blocking` returns on a single-threaded runtime with the
  marker in place. `lib.rs:1335`: a request without a model resolves the default twice.
* `default_scheduler.rs:237`, `scheduler.rs:1199`: `TERMINATE_ALL_NEXT_STEP` is one flag of
  the process, consumed by the first engine and bucket that sees it.
* `utils/mod.rs:141`: on an iOS Metal background error the loop repeats the batch after
  the cache has been reset (`metal` builds only).
* `approvals.rs:34` (server): the broker never forgets an approved session, the engine does.
* `responses.rs:2402` (server): a background response deleted before its worker stores the
  result stays in the cache.

## 2. Modules

| module | models | depends on |
|---|---|---|
| `KVCacheLedger` | what the KV cache manager promises: abstract block accounting | |
| `KVCacheLedgerProofs` | TLAPS proofs about it | `KVCacheLedger` |
| `BlockPool` | `block_pool.rs` as operators from pool record to pool record | extends `Queues` |
| `KVCacheManager` | `kv_cache_manager.rs`, the lease holder and the KV memory | extends `BlockPool`, instantiates `KVCacheLedger` |
| `KVCacheManagerProofs` | TLAPS proofs about both | `KVCacheManager`, `QueueTheorems`, instantiates `KVCacheLedgerProofs` |
| `Queues` | filtering and sorting a queue | |
| `QueueTheorems` | lemmas about queues: what each way to change one does to its members | `Queues` |
| `PagedAttentionScheduler` | `scheduler.rs` and the engine iteration | extends `Queues`, instantiates `KVCacheManager` |
| `PagedAttentionSchedulerProofs` | TLAPS proofs about it | `PagedAttentionScheduler`, `QueueTheorems`, instantiates `KVCacheManagerProofs` |
| `ModelRegistry` | the model lifecycle of `lib.rs` | |
| `ModelRegistryProofs` | TLAPS proofs about it | `ModelRegistry` |
| `AdmissionQueue` | `engine/admission.rs` | extends `Queues` |
| `DefaultScheduler` | `default_scheduler.rs`, the steps of a batch and the working cache | extends `Queues` |
| `DefaultEngine` | the loop of `engine/mod.rs` over both, with its clients | extends `AdmissionQueue`, `DefaultScheduler` |
| `DefaultEngineProofs` | TLAPS proofs about it | `DefaultEngine`, `QueueTheorems` |
| `AdapterRegistry` | `adapter/registry.rs`, `adapter/runtime.rs` | |
| `AdapterRegistryProofs` | TLAPS proofs about it | `AdapterRegistry` |
| `AgentApprovals` | the approval of tool calls: `agentic_loop.rs`, `agentic_session.rs`, the server's `approvals.rs` | |
| `AgentApprovalsProofs` | TLAPS proofs about it | `AgentApprovals` |
| `MC*` | instances for TLC | |

**KVCacheLedger.** State: the live requests, each with its blocks, published count
and reservation, the total of the reservations, the reference count and prefix-cache
key of each block, and, as ghosts, the hash chain of each request's tokens and the
content of each block. Actions: `Admit` (`reserve_prompt` and the first
`allocate_slots`), `Grow`, `Trim`, `Free`, `Publish` (`cache_blocks`), `Compute`
(external: the kernels) and `Reset`. A fresh block is any unreferenced block and a
hit is any block with the right key, so the free list, the LRU order, the hash map
and retention are abstracted away. Positions are counted in whole blocks. Hashes are
taken to be collision free; a block's hash folds in its parent's, so no hash occurs
twice in a chain (`ChainAssumption`).

**BlockPool.** The pool is one record and an operation maps it to a record, or to
the set of records that the iteration order of a hash map allows, so that the manager
can chain operations within a critical section. Where the code would panic, the field
`ok` becomes FALSE and the behaviour stops. `DebugAssertions` says whether
`debug_assert!` is compiled in. The doubly linked free queue is a sequence, revision
numbers are reduced to "differs from the applied one". A loop over hashes or blocks is
written as what it leaves behind (a counter as a cardinality, a filtered queue as `Keep`, the
checks of all rounds as one), which is what the provers can follow; only the loop that
revokes leases until there is room is a recursive function (`Revocations`).

**KVCacheManager.** One action per public operation. The callers are modelled as far
as they decide what the manager sees: the scheduler's lookup may be stale when it is
used (`lookup`), the pipeline writes into the slots that `get_slot_mapping` names
(`kv`, per slot), a speculative step writes past what is accepted and trims, and the
prefix cacher takes, touches and drops leases at any time. `Ledger` is the refinement
mapping; `LedgerSpec` says that the manager implements the ledger. `HashAssumption` says
that a block hash folds in its parent's: equal hashes stand at equal positions behind equal
prefixes.

**PagedAttentionScheduler.** One engine iteration is: cancel closed responses, reap
finished sequences, `schedule()`, step the batch. Each critical section of `schedule()`
is one action; `pc` and `local` are its control state and local queues (admission,
completion and preemption move sequences through `scheduled`, `again`, `kept`,
`prompts`, `doomed`). Each action that uses memory conjoins the action of
`KVCacheManager`, so the scheduler is checked over the real manager and not over a
stub. Queues are filtered with `Keep` and sorted with `InOrder`, which pick the positions or
ids in increasing order instead of recursing over the queue, so that the provers can follow
them; `CompletionBatches` states which rows `completion_batch_indices` picks, a set that
is determined row by row. The environment adds sequences, closes responses, sets
`TERMINATE_ALL_NEXT_STEP`, and makes steps fail.

**ModelRegistry.** Every critical section of one lock is an action; `th` holds the
call of each thread and `holds` the locks it keeps between two steps. Calls: requests
for a named and for the default model, unload, reload, remove, add, add as unloaded,
set default. Device memory belongs to others too, so whether a model fits is decided
anew at every query. Engine threads admit, go idle, and may die. Two histories say what
happened to a model's last engine: `overtaken`, it was taken from the map before the load
that had put it there had dropped the unloaded state; `removed`, `remove_model` took it.
No step depends on them.

**AdmissionQueue, DefaultScheduler, DefaultEngine.** The queue is three sequences, by class
of request. The scheduler has the two queues and, for each sequence, its state, length,
prefix offset, urgency and the contents of its cache; `schedule` has its four cases, with
the nondeterminism of the hash map from which the buckets come. `DefaultEngine` cuts an
iteration of `Engine::run` where clients can act: collect, dispatch (one request per
step), idle wait, schedule, completion step, prompt step. A cache is not a tensor but the
number of leading tokens of its own sequence that it holds, or `Junk` once a row was taken
for another sequence or a pass was fed tokens that do not follow. Clients send, close
their response channels, and may be refused; any step may fail. `exposed` is a history
variable: the sequences that one of the three weaknesses of section 6 has touched, and
their batch mates since; `OnlyExposedHarmed` says that no other sequence attends to a wrong
cache. `skipped` is a second one: the sequences of a prompt batch that was not run because
the completion batch before it failed. `NoneDropped` says that the scheduler drops no
other sequence, exposed or not.

**AdapterRegistry.** Objects stand for the allocations behind `Arc`. One lives while an
alias, the table of generations, a lease or a load refers to it; the table of slots has
`Weak` references only. Dropping the last reference outside the lock and giving its budget
back (`Release`) are two steps, since other threads run in between; under the lock they are
one (`DropInLock`). A load is `Begin` (the permit), `Validate`, `Check` (policy and limit,
before the files are read), `Lock` (policy again), `Resolve`, `Install` or `LoadFails`,
`Register`.

**AgentApprovals.** A call is `Start`, `Notify`, `Announce`, `Ask`, `Wait`, then `Receive` or
`TimeOut`, `CleanUp`, `Finish`; each locks the broker at most once. `Post` is the HTTP
handler, with its reply; `Forget` is the deletion or expiry of a session. `posted` and
`timedOut` are histories.

## 3. Runs

All passing runs take less than five minutes with two workers. Every property of
every passing run has a mutant: a plausible bug in the mapped definition, kept next
to it with the comment "Mutant", under which the run fails.

| run | instance | states | shows |
|---|---|---|---|
| `ledger` | 3 blocks, 2 requests, 2 chains that share a block | 14,502 | all ledger properties, also `SharedBlocksImmutable` as an action property |
| `manager_sharing` | 2 blocks of 2 tokens, 2 requests | 42,452 | manager implements ledger, with stale lookups, partly filled blocks, rejected drafts and trims; eviction never cuts a cached prefix |
| `manager_retention` | 2 blocks of 1 token, 2 requests, 2 leases | 303,024 | no panic; free list, indexes and pins exact; reservations honoured; oldest lease revoked first; manager implements ledger |
| `scheduler` | 3 sequences of two media, 3 blocks of 2 tokens, uniform batches, prompt chunks, failures, termination, a client that goes | 239,474 | nothing lost, batches uniform, runnable and within budget, own tokens only, blocks held exactly while running, no panic, only what is too long ignored, youngest preempted first, everyone ends |
| `registry_requests` | 3 threads, 2 models, requests and unloads, eviction | 1,092,063 | markers owned, no lost wake-up, one instance |
| `registry_reload` | 2 threads, 2 models, requests, reloads, default changes, deaths, timeouts | 207,462 | every call returns |
| `registry_admin` | 3 threads, 3 models, nothing loaded and no default at the start; requests, eviction, unloads, removal, registration | 120,385 | no circular wait, no lock kept past its call, default registered, a model lost only when its load was overtaken |
| `engine_default` | room for 2 sequences, a request with a cached prefix, one with 3 choices, a control, a shutdown, failures | 125,535 | order and bound of admission, own tokens only, nothing dropped, every request ends |
| `adapters` | 2 loaders, 3 aliases, 3 generations of which 2 do not fit together, 2 requests | 66,500 | residents distinct, budget exact, nothing wasted, policies hold when bound |
| `approvals` | 3 calls in 2 sessions, two answers to one of them | 564,000 | one answer decides, nothing left behind, every call ends |

Two further runs, `registry_deadlock` and `registry_lost`, end in a violation (section 6).

**Bounds.** Two requests suffice for sharing, stealing and publishing the same prefix
twice; with two blocks and chains of two a request evicts what another one has just looked
up, and the ledger and the scheduler add a third block. Chains that share their first
block and differ after it make hits of length zero, one and two. Two leases are the fewest
with an order to revoke them in. Three sequences are the fewest with a runner, a victim
and a waiter; the third is longer than what the others leave and can outgrow the whole
cache, so the capacity check, starvation and self-preemption all happen. It alone has
prompt chunks and is of another medium, so that it is set aside at admission and preempted
from a batch of completions. The scheduler was also run without uniform batches and with
chunks for all, with the same results. `WaitingTimeout` is 1 instead of 64 and counters
that only have to exceed it saturate. In the default engine a request for three choices
with room for two takes the path for what never fits; its sequences and the one with a
cached prefix have different lengths, so two buckets compete, take turns on the working
cache and meet in one length again; three generated tokens are the fewest for a batch that
is left, followed by another and returned to. The admission bound of two makes the queue
full with one request left in the channel. Of the adapters, two fit unless both are large,
so that refusal for number, refusal for memory, reuse of a slot and revival of an unbound
generation that a request still pins all happen; a third object is the one that is being
dropped while another load fills its place. Two approvals in one session and one in
another are the fewest that tell "remembered for this session" from "for all". In the
registry, three calls of three threads suffice for a loader, a waiter and an evictor; the
registry runs were also tried with one call more (two threads with five calls, three with
four calls of the administrative operations), with the same results. `MaxCalls`, `MaxLen`
and `MaxTokens` bound behaviours; where a behaviour may therefore come to rest the
configuration says `CHECK_DEADLOCK FALSE`. The same holds for a pool that has panicked, an
engine that has served everyone or was shut down, and calls that are decided. Symmetry
over requests, leases or threads is used only in runs without liveness properties; models
are interchangeable in the registry as long as nobody has registered them.

**Fairness.** The scheduler run assumes weak fairness of `Engine`, the one thread that
loops without waiting while it has sequences. Nothing is assumed of clients, failures
or the order of arrival. `engine_default` assumes the same of `EngineStep`: the thread of
the loop goes on whenever it is not waiting for a request. The registry run assumes that a
thread in a call goes on (locks are released in finite time, `Condvar` wakes), that a load
ends, and that a timed wait that may elapse does (`load_wait_timeout`). Nothing is assumed
of engines. `approvals` assumes that the task of a call goes on and that its clock does
(`tokio::time::timeout`), and nothing of the clients, who need never answer.

## 4. Proofs

The invariants that the runs check are proved for every value of the constants where this
section says so. None is inductive by itself; the inductive invariant of a module, which
is at its end or at the beginning of its proofs, was checked with TLC on the instances of
its runs before it was proved.

**KVCacheLedger.** `KVCacheLedgerProofs` proves, for every finite set of blocks and of requests and every
set of chains, that the ledger keeps its types, exact reference counts
(`RefCountsExact`), sound prefix hits (`PrefixHitsSound`), intact prefixes
(`HeldPrefixIntact`) and reservations that are exactly summed and covered
(`ReservationsExact`, `ReservationsCovered`), and that no step writes into a shared or
published block (`SharedBlocksImmutable`). Assumptions: `LedgerAssumption` (finite
sets; `NoHash` and `Junk` are no hashes; chains are sequences of hashes) and
`ChainAssumption`.

None of these is inductive by itself. `LedgerInv` adds

* `ProgressOrdered`: published <= computed <= allocated, so only computed blocks
  become visible;
* `PublishedKeys`: the published blocks of a request carry its own hashes, which makes
  a second adoption of them harmless;
* `TailPrivate`: the blocks behind them have no key and no second holder. This is the
  heart of the argument: a forward pass writes only behind the computed blocks, hence
  only into private blocks, hence it disturbs neither the prefix cache nor any other
  request;
* `DeadRequestsEmpty`, and the finiteness of `ReservedSlots`, whose cardinality stands
  for the sum of the reservations: growing a request removes slots of it, freeing it
  removes all of them, and `ReservationsCovered` follows from counting free blocks.

There is one lemma per action (`AdmitInv`, `GrowInv`, ..., `ResetInv`) with one step per
conjunct, over lemmas on concatenation, on cardinalities of unions and on the holders
of a block. `SharedBlocksNeverWritten` follows from the invariant and
`ComputeWritesPrivate`. TLC checks `LedgerInv`'s consequences in `ledger`, except for the
types, which are proved only.

**KVCacheManager and BlockPool.** `KVCacheManagerProofs` proves, for any number of blocks,
requests, hashes, chains and leases (`PoolAssumption`, `ManagerAssumption`,
`HashAssumption`), that no check of the pool or the manager fails (`NeverPanics`; the
checked subtraction of `num_unreserved_blocks` among them, by `PromisesFit` of the
ledger), that the free list, the indexes, the pins and their counters are exact after
every operation (`PoolAlwaysConsistent`), that a reservation can be taken at any time
(`ReservationsAlwaysHonoured`), that leases are revoked in order (`RevokesInLeaseOrder`),
and that every step of the manager is a step of the ledger or a stutter
(`ManagerKeepsLedger`), so that all of the above holds of the manager too. The hypothesis
`DebugAssertions \/ Lease = {}` excludes release builds with leases, in which the
properties fail (section 6).

`ManagerInv` is inductive (`ManagerInvariant`); TLC checked it on the instance of
`manager_retention` before it was proved, and `TailEvictedFirst` below on that of
`manager_sharing`. It consists of

* `PoolInv`, what each operation of the pool keeps: besides the properties, every lease has
  one entry and a hash is counted once per entry (`LeasesCounted`), the pinned hashes are the
  cached ones of `retained_hashes` (`PinsKnown`), and these are the ones that leases retain
  unless the pool has yet to catch up (`CaughtUp`). The proofs use `Shape`, which says the
  same with the pins as a set of blocks, so that counting is about disjoint sets;
* `LookupKnown`: between lookup and admission the blocks that were found keep their hashes,
  for no operation that may run in between allocates. Hence adoption is one of the ledger's;
* `OwnTokens`: the slot of each computed token holds its KV. The ledger counts whole blocks; this
  is what makes a block that fills up token by token, over several passes and around rejected
  drafts, a `Compute` of the ledger;
* the ledger's own invariant through the refinement mapping. It gives exact reference counts,
  private tails (a pass never writes into a published block) and covered reservations,
  without which the capacity check would not suffice.

The pool's operations come first, one lemma each about what they leave of queue, counts,
keys and leases (`SyncKeeps`, `RevokeForPressureKeeps`, `GetNewBlocksKeeps`, `TouchKeeps`,
`FreeBlocksKeeps`, `CacheFullKeeps`, `ResetKeeps`); that `Revocations` is defined at all,
and revokes a prefix of the entries, is shown by least counterexamples. Then there is one
lemma per action of the manager, which proves the invariant and the step of the ledger together.

For a pool without leases `NeverOrphans` adds that eviction never cuts a cached prefix. What
is inductive is the order of the free queue (`TailEvictedFirst`, `EvictsTailFirst`): an idle
cached block is never behind all blocks that carry the hash in front of its own. Allocation takes
the front of the queue, `free` appends a request back to front, adoption only removes, and
what is held by a request is held with everything in front of it (`HeldInChain`).

**PagedAttentionScheduler.** `PagedAttentionSchedulerProofs` proves, for any number of
sequences, blocks and tokens and any limits (`SchedulerAssumption`), that `QueueInv` holds at
each point where `schedule()` has given up the manager's lock (`QueuesAgree`):

* `NoneDoubled`, `Apart`: no queue or local variable doubles a sequence and no two share one;
* `Phases`: which local variables can be in use at which point. Without it a step that
  overwrites them could drop what they hold;
* `StatusAgrees`: what is neither absent nor finished is in some queue, and while `schedule()`
  runs nothing in them is finished, so that a preempted sequence really returns to the front;
* `EntriesAgree`: the sequences with KV entries are those that run, were set aside, kept or are
  about to be preempted. When an `expect` of the manager fails in the middle of an admission the
  sequence runs without an entry, so equality needs `pool.ok`;
* `Candidates`, `Bounded`, `OldestFirst`: the candidates of a prompt batch run; at most
  `max_num_seqs` run; in the completion phase what still wants slots is sorted by age and
  younger than what has them.

There is one lemma per action. `NoneIsLost` joins the queues one after the other and
shows that the joined queue has each member once; `OnlyRunningHold` counts it.
`YoungestGoesFirst` follows from `OldestFirst`.

The second half of the module puts the scheduler over the manager: `EngineInv` is
`QueueInv`, the manager's own invariant `ManagerInv`, and `BatchInv` (`EngineAgrees`). It
needs `CacheAssumption`, which is what the manager assumes of its constants. `BatchInv` says:

* `LookupAgrees`: between lookup and admission the cache knows the prompt at the head of
  `waiting`, which fits in an empty cache and has a token left to compute;
* `TokensAgree`: a sequence that goes on has a token to compute, and the blocks of a running
  prompt are there or promised. This is what carries a chunked prompt from its reservation to
  its last chunk over any number of iterations;
* `CompletionsAgree`: completions that passed the slot check keep their slots while later
  ones are preempted for theirs, and what is left goes together;
* `RowsAgree`, `RowsDistinct`, `RowsUniform`: the rows of a batch run, each once, with
  tokens to compute and, once materialized, slots for them.

The proof is modular. `CacheContract` says, one clause for each critical section of the
manager (`FreeGiven`, `AllocateGiven`, `LookupGiven`, `AdmissionGiven`, `ForwardGiven` and so
on), what the section does for the sequence it is called with and that it takes neither
slots nor promises from any other (`GoesOn`). The lemma of each action of the scheduler uses
the contract and no definition of the manager. `ContractKept` then proves the contract,
for every instance, from the lemmas of `KVCacheManagerProofs`, so that nothing remains
assumed. It follows that no `expect` fails
(`SchedulerNeverPanics`), that only a prompt longer than the cache is ignored
(`OnlyTooLongAreIgnored`: with nothing left to preempt all blocks can be had), that each
sequence attends to its own tokens (`EachAttendsToItsOwn`), and that batches are uniform and
have their slots (`BatchesAreUniform`, `BatchesAreRunnable`). The last one has `WithinBudget`
as its hypothesis: this conjunct of `BatchIsRunnable` is a sum over the rows, left to TLC.

The lemmas of `QueueTheorems` speak of sets of members and of positions. One of them,
`OrderExists` (every finite set of numbers can be put in order), is an induction; it is done
by taking a least counterexample, since the induction rules of the library cannot be used here.

**DefaultEngine.** `DefaultEngineProofs` has two invariants, for any requests, numbers of
choices and tokens and any limits (`AdmissionAssumption`, `SchedulerAssumption`,
`EngineAssumption`).

* `ArrivalInv` follows a request from the channel to its dispatch (`ArrivalKnown`). It is in
  one place (`OncePlaced`, `ByClass`) and lost only if its client has left (`Accounted`);
  channel and ordered queue keep the order of sending, and all that is queued was sent
  before all that is in the channel (`KeepOrder`). So the head of the ordered queue was
  sent before everything behind it, and taking it keeps `NoOvertaking`. `QueueBounded` adds
  that nothing is queued while the loop waits for the next request: it puts that one into
  the queue without asking for capacity.
* `BatchInv` follows a sequence through queues, batches and caches (`BatchesKnown`), given
  `ArrivalInv`. A batch is of one bucket (`BatchAgrees`), so its members have the same length
  and, by `CachesKnown`, caches of the same length: before its prompt step a sequence has
  the cache of its prefix hit (`Fresh`), after it that of all its tokens but the newest
  (`Started`). Hence each row of the joined cache is that of its own sequence.
  A completion batch that repeats the last one runs over the rows that are still in the
  pipeline; `PipeAgrees` says that these are the rows of `lastIds`, at their lengths.
  `RunsCount`: what runs has a state that the scheduler counts as running, or is in the
  prompt batch of this iteration, or was skipped. The scheduler drops a running sequence
  that is in another state, so it drops only what was skipped.

`AdmissionIsSound`, `HarmIsContained` and the action property `NoSequenceDropped` follow.
What `BatchInv` says about caches exempts the sequences in `exposed`, as
`OnlyExposedHarmed` does; the heart of the proof is that nothing else spreads harm, that
is that a batch with one exposed member exposes all, and that the failure of a batch
exposes all that it has left in the working cache or skipped. Most of its lemmas are on
the queues that a filter, a bucketing or an admission leaves (what stays, in which order,
and that each is there once), and on a step that changes the records of a batch and of
nothing else.

**ModelRegistry.** `ModelRegistryProofs` has four invariants, for any set of threads and of
models and any number of calls (`RegistryAssumption`: the models loaded and unloaded at the
start are disjoint, the operations are the ones that exist).

* `TypeOK`: a call is at a step of its own operation (`Places`) and an unload comes back to
  a place of the operation that started it (`Backs`). `CallsWellFormed` proves it for all
  operations; everything below uses it to tell which steps an operation can never take.
* `LocksKept`: what a thread keeps locked is determined by where it is (`LocksAreKept`).
  Hence `LocksInOrder`: two threads can wait for each other only if one is in
  `set_default_model_id` and the other in `remove_model` or `add_model`. The theorem's
  hypothesis excludes exactly this pair, which is the finding of section 6.
* `ModelsInv` gives `ModelsStay`, for all operations, with or without auto-eviction, and
  whatever dies or fails. `FinishesKnown`: a load that has put its engine into the map, and is
  about to drop the unloaded state, finds the engine still there or is overtaken. So
  no step takes the last trace of a model away, but for `remove_model` and for what
  `registry_lost` shows.
* `DefaultInv` gives `DefaultIsRegistered`, also when the default is empty and loads and
  registrations set it. At most one thread has the map of the engines locked
  (`EnginesKept`): between `remove_take` and `remove_default` the default may name a removed
  model, and an engine is still there to replace it. What `set_default_model_id` has found
  registered still is when it writes it (`ChosenKnown`), unless `remove_model` runs
  beside it; this pair is what the theorem's hypothesis excludes.
* `RequestInv` gives `MarkersAreOwned`, `NoWakeUpIsLost` and `ModelsHaveOneInstance`. A marker
  is there exactly while one call claims the model (`MarkersHeld`); a call that has decided to
  load finds the unloaded state until it takes it away itself (`LoadsFromUnloaded`); one thread
  ends an engine, and a model with an engine, or with one that is being ended, has no
  unloaded state unless a load of it is about to take that away (`InstancesApart`). The heart
  is the insertion of a loaded engine: were another thread still ending an older one, some
  load of the model would be past its insertion, and by the marker that load is this one.

The hypotheses are on the operations that are called; outside them the properties fail
(section 6). `ModelsStay` has none. `DefaultIsRegistered` and `LocksInOrder` exclude only
`set_default_model_id` beside `remove_model` (and `add_model`). `RequestInv` is about requests
and unloads with `auto_evict`: explicit reloads check and set the marker under two locks, and
without auto-eviction a request can leave its marker behind.

**AdapterRegistry.** `AdapterInv` (for any sets of aliases, generations, objects, loaders and
requests and any sizes; `AdapterAssumption`) says that one load at a time is under way and
keeps the mutation lock from its last look at the policy on (`LoadsExclude`), that what
it has found out is therefore still so (`LoadsInformed`), and that the three tables agree with
the residents but for the one that is being registered (`SlotsAgree`, `GenerationsAgree`).
`ResidentsDistinct`, `LoadsNotWasted` and the action property `PolicyIsHonoured` follow.
`BudgetIsExact` sums sizes as cardinalities: a resident of n bytes stands for n pairs of it and
a number, so that adding and dropping one are facts about disjoint unions.

**AgentApprovals.** `ApprovalInv` (for any calls, sessions and number of answers;
`ApprovalAssumption`) says what the broker knows of a call at each of its places
(`PlaceAgrees`), that an answer on its way is the one that was taken (`OnItsWay`), that what
is still open is unanswered (`OpenUnanswered`), and what a decision may be
(`DecisionAgrees`). `AnswersDecide` and `BrokerForgets` follow. The case that needs the
strengthening is the race of an answer with the timeout: between the two the call is still
pending, its decision is already a denial, and the answer that arrives is reported but lost.

**Only model-checked:** of the paged scheduler, that the tokens of a batch stay within the
budget (`WithinBudget`), which is what a fold over the rows computes.
Liveness under fairness and ENABLED stay with TLC in all
modules (`EveryCallReturns`, `EveryCallEnds`, `EverySequenceEnds`, `EveryRequestEnds`), as
does everything that would need an induction over what a recursive definition computes (a
fold over the blocks of a request or the rows of a batch).

## 5. What is left out

* Manager and pool: the disabled prefix cache, metrics, the links of the free queue.
* Scheduler: speculative decoding and deferred releases, recurrent prompts and prefix
  validation, CUDA decode continuation, multimodal chunk plans and alignment, adapter
  compatibility, raw logits. Response texts and metrics are not modelled.
* Registry: aliases and LRU order (left open), one device, models without a loader
  configuration, per-category defaults, channel capacity (`try_send(Terminate)` and
  `blocking_send` are taken to succeed), calls from a single-threaded runtime, poisoned
  locks.
* Default engine: the resident decode batches of CUDA builds with
  `pop_admissible_workload`, the replication of requests to daemons, the retry on iOS,
  validation, templating and tokenization in `add_request`, media and raw logits as bucket
  keys, rotating and hybrid caches. No request names an adapter: one whose adapter cannot be
  resolved is answered when it is collected (`engine/mod.rs:840`), not when it is dispatched,
  and what an adapter resolves to is the subject of `AdapterRegistry`.
* Adapters: digests and file formats, loads at startup (before the runtime is shared), the
  staging lock (only the holder of the load permit takes it), the status snapshot (a pin that
  ends at once).
* Approvals: the permissions Auto and Deny, which never ask; tool rounds and their dispatch.
  A denial with `remember_for_session` is treated as a denial.

### Not modelled

Components without a module are in `PROJECT.json` with the reason. Most of the
repository's 545,000 lines of implementation are model architectures, kernels,
quantization, weight loaders, chat templates, parsers and bindings: numerical code or
conversions that keep no state between calls and share none, about which a state machine
has nothing to say. The modules cover the code in which steps of several actors meet, which
is a small share of the lines. What of that is still missing is in section 7.

## 6. Findings

Two runs end in a counterexample.

`registry_deadlock`: `set_default_model_id` and `remove_model` take
`default_engine_id` and `engines` in opposite orders (`lib.rs:3129-3145`, `3047-3064`),
although the documentation of the struct fixes the order (`lib.rs:574`).

`registry_lost`: `unload_model` looks at `unloaded_models` (`lib.rs:3346-3356`), releases it and
takes the engine out of the map without looking again. If others unload the model and load it
in between, the engine that is taken is that of a load that has put it into the map
(3746-3754) but not yet dropped the unloaded state (3789-3795). `unload_model` stores its own
unloaded state (3404-3408), the load removes it, and the model is in neither map: every
later request is answered `ModelNotFound`. The comment at 3426 says "the model stays lazily
reloadable" "(re-inserted above)". `OnlyOvertakenLost` and the theorem `ModelsStay` show that
there is no other way to lose a model that nobody removed.

The following were met with TLC while modelling. Each limits what the passing runs say,
which name the constants and calls under which their properties hold.

**Release builds.** `debug_assert!(self.retained_hashes.remove(hash))` (`block_pool.rs:795`)
removes nothing in a release build. A hash published after its lease was revoked pins its
block, `get_new_blocks` fails although `num_free_blocks` promised enough, and the manager
panics with "Should have enough blocks after capacity check" (`kv_cache_manager.rs:341`).
TLC reports it in seconds for `NoPanic` with `DebugAssertions = FALSE` and `ServingSpec` in
`MCManagerRetention.cfg`; the theorems about the manager exclude the combination.

**Default engine.** Three weaknesses, which `exposed` records:

* When the bucket that ran is finished, all that waits is set to `RunningPrompt`, also what
  is in the middle of its completion (`default_scheduler.rs:221`). Without a prefix hit the
  prompt step computes everything again. After one, `token_offset` is never reset
  (`sequence.rs:1006`), so the step copies in a cache that is longer than the offset says and
  feeds the whole sequence behind it (`engine/mod.rs:1550`).
* A failing batch resets the working cache but not `last_completion_ids`
  (`utils/mod.rs:263`): a batch with the ids of the last one that succeeded goes on with an
  empty cache.
* A failing completion step skips the prompts of the same iteration (`engine/mod.rs:1501`).
  One with a cached prefix is in a state that does not count as running, and the next
  `schedule` drops it without an answer.

**Approvals.** An answer between the timeout and the removal of the call is reported as
"resolved" ("a waiting tool call was released",
`src/docs/src/content/docs/reference/http-api.md:100`) although the call is denied. When a
session is approved by the answer to another call between a call's notification and its
wait, the call runs even if its own early answer was a denial, and its entries stay in the
broker. `AnswerDecides` and `NothingLeft` exempt these cases.

**Background responses** (not modelled, from reading): the worker never looks at
`cancel_requested` and overwrites `Cancelled` (`background_tasks.rs:141`).

**Registry.** The properties hold for the operations that their runs combine:

* `MarkersOwned` fails once `reload_model` is called for a model that is loaded: the `?`
  at `lib.rs:3471` returns with the marker in place, and the model is reported as
  reloading for good. It also fails with auto-eviction off when a request claims a model
  whose load has just ended (the same `?`).
* `OneInstance` fails with two explicit reloads, which check and set the marker under
  separate locks (`lib.rs:3437-3454`).
* A request is refused, not made to wait, when its model becomes ready between its looks
  at the maps (`lib.rs:2136-2147`).
* An engine picked for eviction while idle is unloaded although it is busy by then
  (`lib.rs:2249-2289`).
* `EveryCallReturns` fails with auto-eviction: two requests can evict each other's engine
  between load and dispatch for ever.
* `DefaultRegistered` fails with `set_default_model_id` beside `remove_model`: the check of
  the former is released before the default is written (`lib.rs:3127-3134`).

**Paged scheduler.*`EverySequenceEnds` fails when fails when two prompts that do not fit together
each need more than `WAITING_TIMEOUT` passes (`scheduler.rs:1013`): they preempt each other
for ever. The run `scheduler` has a token budget that covers its longest prompt.

## 7. Plan

Done: the KV memory (ledger, pool, manager), the paged scheduler over it, the registry, the
engine loop with its admission queue over the default scheduler, adapters, approvals, the
proofs of the ledger, the pool and the manager, the paged scheduler over them, the engine loop,
the registry, the adapters and the approvals. Next, in this order:

1. `BackgroundTasks` of the server; `PrefixCacher` over leases; the MCP client's calls
   with timeouts over one transport.
2. `PagedAttentionScheduler` gains speculative decoding and recurrent prompts, composed with
   `AdmissionQueue`.
3. `WindowedPool`, `EncoderCache`, the linked list of the free queue refined to the sequence
   in `BlockPool`, the rotating cache as a ring against a reference definition.
