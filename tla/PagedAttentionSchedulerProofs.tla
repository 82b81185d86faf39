-------------------- MODULE PagedAttentionSchedulerProofs --------------------
(***************************************************************************)
(* schedule() takes sequences off its queues and puts them back many times *)
(* in one round, and between two critical sections some of them are only   *)
(* in its local variables.  QueueInv says where a sequence can be at each  *)
(* point; from it follow that none is lost or doubled and that the         *)
(* youngest is preempted first.  EngineInv joins it with the invariant of  *)
(* the KV cache manager and with what sequences, blocks and batches owe    *)
(* each other (BatchInv); from it follow that no expect fails, that        *)
(* exactly the running sequences hold blocks, that each attends to its own *)
(* tokens and that a batch can run.  The actions are proved against        *)
(* CacheContract, what schedule() relies on of each critical section, and  *)
(* the manager's theorems give the contract.  All of it for any number of  *)
(* sequences, blocks and tokens.                                           *)
(***************************************************************************)
EXTENDS PagedAttentionScheduler, QueueTheorems

Waits == ToSet(waiting)

Again == ToSet(local.again)

Runs == ToSet(running)

Kept == ToSet(local.kept)

SetAside == ToSet(local.prompts)

Doomed == ToSet(local.doomed)

Scheduled == ToSet(local.scheduled)

\* What holds KV blocks, and everything there is in some queue.
Holders == Runs \cup Kept \cup SetAside \cup Doomed

Members == Waits \cup Again \cup Holders

Places == {"idle", "reap", "admit", "allocate", "evict", "prompt", "materialize", "ready",
           "completion", "slots", "settle", "publish", "step"}

Statuses == Finished \cup {"Absent", "Waiting", "RunningPrompt", "RunningCompletion"}

QueueTypes ==
    /\ waiting \in Seq(Req) /\ running \in Seq(Req)
    /\ local \in [scheduled : Seq(Req), again : Seq(Req), kept : Seq(Req), prompts : Seq(Req),
                  doomed : Seq(Req)]

Types == QueueTypes /\ status \in [Req -> Statuses] /\ pc \in Places

\* No queue doubles a sequence.
NoneDoubled ==
    /\ IsInjective(waiting) /\ IsInjective(running)
    /\ IsInjective(local.again) /\ IsInjective(local.kept)
    /\ IsInjective(local.prompts) /\ IsInjective(local.doomed)
    /\ IsInjective(local.scheduled)

\* No two queues share one.
Apart ==
    /\ Waits \cap (Again \cup Holders) = {} /\ Again \cap Holders = {}
    /\ Runs \cap (Kept \cup SetAside \cup Doomed) = {}
    /\ Kept \cap (SetAside \cup Doomed) = {} /\ SetAside \cap Doomed = {}

\* The local variables are in use only at some points of schedule().
Phases ==
    /\ local.again # <<>> => pc \in {"admit", "allocate", "evict"}
    /\ local.kept # <<>> => pc \in {"slots", "settle"}
    /\ local.prompts # <<>> => pc \in {"slots", "settle", "publish"}
    /\ local.doomed # <<>> => pc \in {"evict", "ready", "slots", "settle"}
    /\ local.scheduled # <<>> => pc \in {"admit", "allocate", "evict", "prompt"}
    /\ pc = "settle" => running = <<>>
    /\ pc \in {"allocate", "evict"} => waiting # <<>> /\ Len(running) < MaxNumSeqs

\* The candidates of a prompt batch are running.
Candidates == Scheduled \subseteq Runs

\* Only members have a status of their own, and while schedule() runs none
\* of them has finished.
StatusAgrees ==
    /\ \A s \in Members : status[s] # "Absent"
    /\ pc \notin {"idle", "reap", "step"} => \A s \in Members : ~IsFinished(s)
    /\ \A s \in Req : status[s] \notin Finished \cup {"Absent"} => s \in Members

\* Nothing but a holder has a KV entry and, unless the process has panicked
\* in the middle of an admission, every holder has one.
EntriesAgree == KV!Live \subseteq Holders /\ (pool.ok => KV!Live = Holders)

Bounded == Cardinality(Runs \cup Kept \cup SetAside) <= MaxNumSeqs

\* The completions that still want slots are in the order of their age, and
\* the ones that have theirs are older.
OldestFirst ==
    pc = "slots" => Increasing(running) /\ \A s \in Kept, t \in Runs : s < t

QueueInv ==
    Types /\ NoneDoubled /\ Apart /\ Phases /\ Candidates /\ StatusAgrees /\ EntriesAgree
    /\ Bounded /\ OldestFirst
-----------------------------------------------------------------------------
(* What the critical sections of the manager do to the KV entries. *)

\* free removes the entry of its sequence, and no other.
LEMMA FreeDropsEntry ==
  ASSUME NEW s, KV!Free(s)
  PROVE  KV!Live' = KV!Live \ {s} /\ pool.ok
BY DEF KV!Free, KV!Live, KV!Without, KV!Running

\* cache_blocks adds and removes no entry.
LEMMA CacheKeepsEntries ==
  ASSUME NEW s, KV!CacheBlocks(s)
  PROVE  KV!Live' = KV!Live /\ pool.ok
<1>1. \E n : reqs' = [reqs EXCEPT ![s].num_cached_blocks = n]
  BY DEF KV!CacheBlocks
<1> QED BY <1>1 DEF KV!CacheBlocks, KV!Live, KV!Running

\* allocate_slots for an admitted sequence adds and removes no entry.
LEMMA AllocationKeepsEntries ==
  ASSUME NEW s, NEW n, AllocateSlots(s, n)
  PROVE  KV!Live' = KV!Live /\ (pool.ok \/ pool' = pool)
<1>1. CASE NewBlocks(s, n) <= 0
  BY <1>1 DEF AllocateSlots, kvVars, KV!Live
<1>2. CASE ~(NewBlocks(s, n) <= 0)
  <2>1. KV!AllocateMore(s, n)
    BY <1>2 DEF AllocateSlots
  <2>2. pool.ok /\ (reqs' = reqs \/ \E a, b : reqs' = [reqs EXCEPT ![s].block_ids = a, ![s].reserved_blocks = b])
    BY <2>1 DEF KV!AllocateMore, KV!Running
  <2> QED BY <2>2 DEF KV!Live
<1> QED BY <1>1, <1>2

\* An admission adds the entry of its sequence, unless the manager panics in it.
LEMMA AdmissionAddsEntry ==
  ASSUME NEW s, KV!ReservePrompt(s) \/ KV!AllocateNewRequest(s)
  PROVE  /\ pool.ok
         /\ KV!Live' = KV!Live \cup {s} \/ (KV!Live' = KV!Live /\ ~pool'.ok)
<1>1. ASSUME NEW ids, NEW n, KV!Admitted(s, ids, n) PROVE KV!Live' = KV!Live \cup {s}
  BY <1>1 DEF KV!Admitted, KV!Live, KV!With
<1>2. CASE KV!ReservePrompt(s)
  BY <1>1, <1>2 DEF KV!ReservePrompt, KV!Running
<1>3. CASE KV!AllocateNewRequest(s)
  <2>1. \/ \E ids : KV!Admitted(s, ids, 0)
        \/ KV!Panic /\ reqs' = reqs
    BY <1>3 DEF KV!AllocateNewRequest
  <2>2. ASSUME KV!Panic PROVE ~pool'.ok
    BY <2>2 DEF KV!Panic, KV!With
  <2>3. pool.ok
    BY <1>3 DEF KV!AllocateNewRequest, KV!Running
  <2> QED BY <1>1, <2>1, <2>2, <2>3 DEF KV!Live
<1> QED BY <1>2, <1>3

\* A forward pass writes KV only for a sequence with an entry.
LEMMA ForwardKeepsEntries ==
  ASSUME NEW s, NEW n, KV!Forward(s, n, n)
  PROVE  s \in KV!Live /\ KV!Live' = KV!Live /\ pool' = pool
BY DEF KV!Forward, KV!Live

\* A prefix lookup, used or abandoned, adds and removes no entry.
LEMMA LookupKeepsEntries ==
  /\ \A s, c, n : KV!GetComputedBlocks(s, c, n) => KV!Live' = KV!Live /\ pool' = pool
  /\ KV!AbandonLookup => KV!Live' = KV!Live /\ pool' = pool
BY DEF KV!GetComputedBlocks, KV!AbandonLookup, KV!Live

-----------------------------------------------------------------------------
(* Steps that leave the queues alone. *)

\* Every queue holds sequences.
LEMMA QueueSets ==
  ASSUME QueueTypes
  PROVE  /\ Waits \subseteq Req /\ Again \subseteq Req /\ Runs \subseteq Req
         /\ Kept \subseteq Req /\ SetAside \subseteq Req /\ Doomed \subseteq Req
         /\ Scheduled \subseteq Req
         /\ local.scheduled \in Seq(Req) /\ local.again \in Seq(Req)
         /\ local.kept \in Seq(Req) /\ local.prompts \in Seq(Req)
         /\ local.doomed \in Seq(Req)
<1>1. /\ local.scheduled \in Seq(Req) /\ local.again \in Seq(Req)
      /\ local.kept \in Seq(Req) /\ local.prompts \in Seq(Req)
      /\ local.doomed \in Seq(Req) /\ waiting \in Seq(Req) /\ running \in Seq(Req)
  BY DEF QueueTypes
<1>2. \A q \in Seq(Req) : ToSet(q) \subseteq Req
  BY MembersHavePositions
<1> QED BY <1>1, <1>2 DEF Waits, Again, Runs, Kept, SetAside, Doomed, Scheduled

\* The parts of the invariant that speak of the queues alone.
LEMMA QueuesStill ==
  ASSUME QueueInv, UNCHANGED <<waiting, running, local>>
  PROVE  /\ QueueTypes' /\ NoneDoubled' /\ Apart' /\ Candidates' /\ Bounded'
         /\ Members' = Members /\ Holders' = Holders
         /\ Kept' = Kept /\ Runs' = Runs
<1>1. /\ Waits' = Waits /\ Again' = Again /\ Runs' = Runs /\ Kept' = Kept
      /\ SetAside' = SetAside /\ Doomed' = Doomed /\ Scheduled' = Scheduled
  BY DEF Waits, Again, Runs, Kept, SetAside, Doomed, Scheduled
<1>2. Holders' = Holders
  BY <1>1 DEF Holders
<1>3. Members' = Members
  BY <1>1, <1>2 DEF Members
<1>4. QueueTypes' /\ NoneDoubled'
  BY DEF QueueInv, Types, QueueTypes, NoneDoubled
<1>5. Apart' /\ Candidates' /\ Bounded'
  BY <1>1, <1>2 DEF QueueInv, Apart, Candidates, Bounded
<1> QED BY <1>1, <1>2, <1>3, <1>4, <1>5

\* The environment and the steps that only touch blocks, counters or the batch.
LEMMA PlainStep ==
  ASSUME QueueInv, UNCHANGED <<waiting, running, local, status, pc>>,
         KV!Live' = KV!Live, pool.ok \/ pool'.ok = pool.ok \/ ~pool'.ok
  PROVE  QueueInv'
<1>1. /\ QueueTypes' /\ NoneDoubled' /\ Apart' /\ Candidates' /\ Bounded'
      /\ Members' = Members /\ Holders' = Holders
      /\ Kept' = Kept /\ Runs' = Runs
  BY QueuesStill
<1>2. Types' /\ Phases'
  BY <1>1 DEF QueueInv, Types, Phases
<1>3. StatusAgrees'
  BY <1>1 DEF QueueInv, StatusAgrees, IsFinished
<1>4. EntriesAgree'
  BY <1>1 DEF QueueInv, EntriesAgree
<1>5. OldestFirst'
  BY <1>1 DEF QueueInv, OldestFirst, Increasing
<1> QED BY <1>1, <1>2, <1>3, <1>4, <1>5 DEF QueueInv

\* A client that leaves, a termination request and a shortened prompt batch.
LEMMA EnvironmentKeeps ==
  ASSUME QueueInv, CloseResponse \/ TerminateAll \/ RetainPromptPrefix
  PROVE  QueueInv'
<1>1. UNCHANGED <<waiting, running, local, status, pc>> /\ UNCHANGED <<pool, reqs>>
  BY DEF CloseResponse, TerminateAll, RetainPromptPrefix, kvVars
<1>2. KV!Live' = KV!Live /\ pool'.ok = pool.ok
  BY <1>1 DEF KV!Live
<1> QED BY <1>1, <1>2, PlainStep

\* Publishing the blocks of a running sequence.
LEMMA PublishRunningKeeps ==
  ASSUME QueueInv, PublishRunning
  PROVE  QueueInv'
<1>1. PICK s : KV!CacheBlocks(s)
  BY DEF PublishRunning
<1>2. KV!Live' = KV!Live /\ pool.ok
  BY <1>1, CacheKeepsEntries
<1>3. UNCHANGED <<waiting, running, local, status, pc>>
  BY DEF PublishRunning
<1> QED BY <1>2, <1>3, PlainStep

\* Slots for a prompt chunk, or the panic when there are none.
LEMMA MaterializePromptChunkKeeps ==
  ASSUME QueueInv, MaterializePromptChunk
  PROVE  QueueInv'
<1>1. UNCHANGED <<waiting, running, local, status, pc>>
  BY DEF MaterializePromptChunk
<1>2. \/ \E s, n : AllocateSlots(s, n)
      \/ KV!Panic /\ reqs' = reqs
  BY DEF MaterializePromptChunk
<1>3. ASSUME NEW s, NEW n, AllocateSlots(s, n)
      PROVE  KV!Live' = KV!Live /\ (pool.ok \/ pool' = pool)
  BY <1>3, AllocationKeepsEntries
<1>4. ASSUME KV!Panic, reqs' = reqs PROVE KV!Live' = KV!Live /\ ~pool'.ok
  BY <1>4 DEF KV!Panic, KV!With, KV!Live
<1>5. KV!Live' = KV!Live /\ (pool.ok \/ pool'.ok = pool.ok \/ ~pool'.ok)
  BY <1>2, <1>3, <1>4
<1> QED BY <1>1, <1>5, PlainStep

\* Steps that change no queue and no status.
LEMMA PlaceStep ==
  ASSUME QueueInv, UNCHANGED <<waiting, running, local, status>>,
         pc' \in Places, Phases', pc' # "slots",
         pc' \notin {"idle", "reap", "step"} => pc \notin {"idle", "reap", "step"},
         KV!Live' = KV!Live, pool'.ok = pool.ok
  PROVE  QueueInv'
<1>1. /\ QueueTypes' /\ NoneDoubled' /\ Apart' /\ Candidates' /\ Bounded'
      /\ Members' = Members /\ Holders' = Holders
  BY QueuesStill
<1>2. Types'
  BY <1>1 DEF QueueInv, Types
<1>3. StatusAgrees'
  BY <1>1 DEF QueueInv, StatusAgrees, IsFinished
<1>4. EntriesAgree'
  BY <1>1 DEF QueueInv, EntriesAgree
<1>5. OldestFirst'
  BY DEF OldestFirst
<1> QED BY <1>1, <1>2, <1>3, <1>4, <1>5 DEF QueueInv

\* Looking up the prefix of the front of the waiting queue.
LEMMA LookUpKeeps ==
  ASSUME QueueInv, LookUp
  PROVE  QueueInv'
<1>1. UNCHANGED <<waiting, running, local, status>> /\ pc = "admit" /\ pc' = "allocate"
      /\ RoomForMore
  BY DEF LookUp, At
<1>2. KV!Live' = KV!Live /\ pool'.ok = pool.ok
  BY LookupKeepsEntries DEF LookUp
<1>3. Phases'
  BY <1>1 DEF QueueInv, Phases, RoomForMore
<1> QED BY <1>1, <1>2, <1>3, PlaceStep DEF Places

\* The turn goes to the completions.
LEMMA NoPromptToRunKeeps ==
  ASSUME QueueInv, NoPromptToRun
  PROVE  QueueInv'
<1>1. UNCHANGED <<waiting, running, local, status, pool, reqs>> /\ pc = "prompt" /\ pc' = "completion"
      /\ local.scheduled = <<>>
  BY DEF NoPromptToRun, At, kvVars
<1>2. KV!Live' = KV!Live /\ pool'.ok = pool.ok
  BY <1>1 DEF KV!Live
<1>3. Phases'
  BY <1>1 DEF QueueInv, Phases
<1> QED BY <1>1, <1>2, <1>3, PlaceStep DEF Places

\* The prompt batch is handed to the engine.
LEMMA PromptBatchReadyKeeps ==
  ASSUME QueueInv, PromptBatchReady
  PROVE  QueueInv'
<1>1. /\ UNCHANGED <<waiting, running, local, status, pool, reqs>>
      /\ pc \in {"ready", "materialize"} /\ pc' = "step" /\ local.doomed = <<>>
  BY DEF PromptBatchReady, At, kvVars
<1>2. KV!Live' = KV!Live /\ pool'.ok = pool.ok
  BY <1>1 DEF KV!Live
<1>3. Phases'
  BY <1>1 DEF QueueInv, Phases
<1> QED BY <1>1, <1>2, <1>3, PlaceStep DEF Places

\* The whole batch has been stepped.
LEMMA EndOfStepKeeps ==
  ASSUME QueueInv, EndOfStep
  PROVE  QueueInv'
<1>1. /\ UNCHANGED <<waiting, running, local, status, pool, reqs>>
      /\ pc = "step" /\ pc' = "idle"
  BY DEF EndOfStep, kvVars
<1>2. KV!Live' = KV!Live /\ pool'.ok = pool.ok
  BY <1>1 DEF KV!Live
<1>3. Phases'
  BY <1>1 DEF QueueInv, Phases
<1> QED BY <1>1, <1>2, <1>3, PlaceStep DEF Places

\* Steps outside schedule() that only change the status of sequences.
LEMMA StatusStep ==
  ASSUME QueueInv, UNCHANGED <<waiting, running, local>>,
         pc \in {"idle", "reap", "step"}, pc' \in {"idle", "reap", "step"},
         status' \in [Req -> Statuses],
         \A s \in Req : status[s] # "Absent" => status'[s] # "Absent",
         \A s \in Req : status'[s] \in Finished \cup {"Absent", status[s]} \/ s \in Members,
         KV!Live' = KV!Live, pool'.ok = pool.ok
  PROVE  QueueInv'
<1>1. /\ QueueTypes' /\ NoneDoubled' /\ Apart' /\ Candidates' /\ Bounded'
      /\ Members' = Members /\ Holders' = Holders
  BY QueuesStill
<1>2. Types' /\ Phases' /\ OldestFirst'
  BY <1>1 DEF QueueInv, Types, Places, Phases, OldestFirst
<1>3. StatusAgrees'
  <2>1. Members \subseteq Req
    BY QueueSets DEF QueueInv, Types, Members, Holders
  <2> QED BY <1>1, <2>1 DEF QueueInv, StatusAgrees, IsFinished
<1>4. EntriesAgree'
  BY <1>1 DEF QueueInv, EntriesAgree
<1> QED BY <1>1, <1>2, <1>3, <1>4 DEF QueueInv

\* Sequences whose client is gone are finished where they are.
LEMMA CancelClosedKeeps ==
  ASSUME QueueInv, CancelClosed
  PROVE  QueueInv'
<1>1. /\ UNCHANGED <<waiting, running, local, pool, reqs>>
      /\ pc = "idle" /\ pc' = "reap"
      /\ \E S : status' = SetStatus(S, "Done")
  BY DEF CancelClosed, kvVars
<1>2. KV!Live' = KV!Live /\ pool'.ok = pool.ok
  BY <1>1 DEF KV!Live
<1>3. /\ status' \in [Req -> Statuses]
      /\ \A s \in Req : status'[s] \in {"Done", status[s]}
  BY <1>1 DEF SetStatus, QueueInv, Types, Statuses, Finished
<1>4. \A s \in Req : status[s] # "Absent" => status'[s] # "Absent"
  BY <1>3
<1>5. \A s \in Req : status'[s] \in Finished \cup {"Absent", status[s]} \/ s \in Members
  BY <1>3 DEF Finished
<1> QED BY <1>1, <1>2, <1>3, <1>4, <1>5, StatusStep

\* A failed step fails its batch.
LEMMA StepFailsKeeps ==
  ASSUME QueueInv, StepFails
  PROVE  QueueInv'
<1>1. /\ UNCHANGED <<waiting, running, local, pool, reqs>>
      /\ pc = "step" /\ pc' = "idle"
      /\ \E S : status' = SetStatus(S, "Error")
  BY DEF StepFails, kvVars
<1>2. KV!Live' = KV!Live /\ pool'.ok = pool.ok
  BY <1>1 DEF KV!Live
<1>3. /\ status' \in [Req -> Statuses]
      /\ \A s \in Req : status'[s] \in {"Error", status[s]}
  BY <1>1 DEF SetStatus, QueueInv, Types, Statuses, Finished
<1>4. \A s \in Req : status[s] # "Absent" => status'[s] # "Absent"
  BY <1>3
<1>5. \A s \in Req : status'[s] \in Finished \cup {"Absent", status[s]} \/ s \in Members
  BY <1>3 DEF Finished
<1> QED BY <1>1, <1>2, <1>3, <1>4, <1>5, StatusStep

\* A sequence that the batch computes has a KV entry, so it is in a queue.
LEMMA StepSequenceKeeps ==
  ASSUME QueueInv, StepSequence
  PROVE  QueueInv'
<1>1. PICK s : /\ \E n : KV!Forward(s, n, n)
               /\ \E v \in {"Done", "RunningCompletion"} :
                    status' \in {status, [status EXCEPT ![s] = v]}
  BY DEF StepSequence
<1>2. /\ UNCHANGED <<waiting, running, local>>
      /\ pc = "step" /\ pc' = "step"
  BY DEF StepSequence
<1>3. s \in KV!Live /\ KV!Live' = KV!Live /\ pool' = pool
  BY <1>1, ForwardKeepsEntries
<1>4. s \in Members
  BY <1>3 DEF QueueInv, EntriesAgree, Members
<1>5. status' \in [Req -> Statuses] /\ \A t \in Req \ {s} : status'[t] = status[t]
  BY <1>1 DEF QueueInv, Types, Statuses, Finished
<1>6. \A t \in Req : status[t] # "Absent" => status'[t] # "Absent"
  BY <1>1 DEF QueueInv, Types
<1>7. \A t \in Req : status'[t] \in Finished \cup {"Absent", status[t]} \/ t \in Members
  BY <1>4, <1>5
<1> QED BY <1>2, <1>3, <1>5, <1>6, <1>7, StatusStep

-----------------------------------------------------------------------------
(* Steps that move sequences between the queues. *)

\* The local variables that are out of use are empty.
LEMMA LocalsEmpty ==
  ASSUME QueueInv
  PROVE  /\ pc \notin {"admit", "allocate", "evict"} => Again = {}
         /\ pc \notin {"slots", "settle"} => Kept = {}
         /\ pc \notin {"slots", "settle", "publish"} => SetAside = {}
         /\ pc \notin {"evict", "ready", "slots", "settle"} => Doomed = {}
         /\ local.doomed = <<>> => Doomed = {}
         /\ pc = "settle" => Runs = {}
BY EmptyQueue DEF QueueInv, Phases, Again, Kept, SetAside, Doomed, Runs

\* A step that lets nothing new run keeps to max_num_seqs.
LEMMA FewerStayBounded ==
  ASSUME QueueInv, (Runs \cup Kept \cup SetAside)' \subseteq Runs \cup Kept \cup SetAside
  PROVE  Bounded'
<1>1. PICK S, T : S = Runs \cup Kept \cup SetAside /\ T = (Runs \cup Kept \cup SetAside)'
  OBVIOUS
<1>2. NumSeqs \in Nat /\ MaxNumSeqs \in Nat
  BY SchedulerAssumption
<1>3. S \subseteq Req
  BY <1>1, QueueSets DEF QueueInv, Types
<1>4. IsFiniteSet(Req)
  BY <1>2, FS_Interval DEF Req
<1>5. IsFiniteSet(S)
  BY <1>3, <1>4, FS_Subset
<1>6. IsFiniteSet(T) /\ Cardinality(T) <= Cardinality(S)
  BY <1>1, <1>5, FS_Subset
<1>7. Cardinality(T) \in Nat /\ Cardinality(S) \in Nat
  BY <1>5, <1>6, FS_CardinalityType
<1>8. Cardinality(S) <= MaxNumSeqs
  BY <1>1 DEF QueueInv, Bounded
<1>9. Cardinality(T) <= MaxNumSeqs
  BY <1>2, <1>6, <1>7, <1>8
<1> QED BY <1>1, <1>9 DEF Bounded

\* A new sequence enters at the back of the waiting queue.
LEMMA AddSeqKeeps ==
  ASSUME QueueInv, AddSeq
  PROVE  QueueInv'
<1>1. PICK s \in Req : /\ status[s] = "Absent"
                       /\ status' = [status EXCEPT ![s] = "Waiting"]
                       /\ waiting' = Append(waiting, s)
  BY DEF AddSeq
<1>2. pc = "idle" /\ pc' = "idle" /\ UNCHANGED <<running, local, pool, reqs>>
  BY DEF AddSeq, kvVars
<1>3. s \notin Members
  BY <1>1 DEF QueueInv, StatusAgrees
<1>4. waiting \in Seq(Req) /\ IsInjective(waiting)
  BY DEF QueueInv, Types, QueueTypes, NoneDoubled
<1>5. waiting' \in Seq(Req) /\ Waits' = Waits \cup {s} /\ IsInjective(waiting')
  BY <1>1, <1>3, <1>4, AppendKeeps DEF Waits, Members
<1>6. /\ Again' = Again /\ Runs' = Runs /\ Kept' = Kept
      /\ SetAside' = SetAside /\ Doomed' = Doomed /\ Scheduled' = Scheduled
  BY <1>2 DEF Again, Runs, Kept, SetAside, Doomed, Scheduled
<1>7. Holders' = Holders /\ Members' = Members \cup {s}
  BY <1>5, <1>6 DEF Holders, Members
<1>8. Types'
  BY <1>1, <1>2, <1>5 DEF QueueInv, Types, QueueTypes, Statuses
<1>9. NoneDoubled'
  BY <1>2, <1>5 DEF QueueInv, NoneDoubled
<1>10. Apart'
  BY <1>3, <1>5, <1>6, <1>7 DEF QueueInv, Apart, Members
<1>11. Phases' /\ OldestFirst'
  BY <1>2 DEF QueueInv, Phases, OldestFirst
<1>12. Candidates' /\ Bounded'
  BY <1>6 DEF QueueInv, Candidates, Bounded
<1>13. StatusAgrees'
  <2>1. \A t \in Req : status'[t] = IF t = s THEN "Waiting" ELSE status[t]
    BY <1>1 DEF QueueInv, Types
  <2>2. Members' \subseteq Req
    BY <1>7, QueueSets DEF QueueInv, Types, Members, Holders
  <2> QED BY <1>2, <1>7, <2>1, <2>2 DEF QueueInv, StatusAgrees
<1>14. EntriesAgree'
  BY <1>2, <1>7 DEF QueueInv, EntriesAgree, KV!Live
<1> QED BY <1>8, <1>9, <1>10, <1>11, <1>12, <1>13, <1>14 DEF QueueInv

\* Filtering members out of a queue.
LEMMA DroppingKeeps ==
  ASSUME NEW q \in Seq(Req), NEW S
  PROVE  /\ Dropping(q, S) \in Seq(Req)
         /\ Len(Dropping(q, S)) <= Len(q)
         /\ ToSet(Dropping(q, S)) = ToSet(q) \ S
         /\ IsInjective(q) => IsInjective(Dropping(q, S))
<1>1. ToSet(Dropping(q, S)) = ToSet(q) \cap (ToSet(q) \ S)
  BY KeepProperties DEF Dropping
<1> QED BY <1>1, KeepProperties DEF Dropping

\* The finished sequences of both queues.
LEMMA FinishedSeqsFinished ==
  ASSUME QueueInv
  PROVE  /\ FinishedSeqs \in Seq(Req)
         /\ ToSet(FinishedSeqs) = {s \in Runs \cup Waits : IsFinished(s)}
<1>1. running \in Seq(Req) /\ waiting \in Seq(Req)
  BY DEF QueueInv, Types, QueueTypes
<1>2. PICK q \in Seq(Req) : q = running \o waiting
  BY <1>1, ConcatProperties
<1>3. ToSet(q) = Runs \cup Waits
  BY <1>1, <1>2, ConcatIsUnion DEF Runs, Waits
<1>4. /\ FinishedSeqs \in Seq(Req)
      /\ ToSet(FinishedSeqs) = ToSet(q) \cap {s \in Req : IsFinished(s)}
  BY <1>2, KeepProperties DEF FinishedSeqs
<1>5. Runs \cup Waits \subseteq Req
  BY QueueSets DEF QueueInv, Types
<1> QED BY <1>3, <1>4, <1>5

\* A finished sequence leaves every queue and gives up its entry.
LEMMA FreeFinishedKeeps ==
  ASSUME QueueInv, FreeFinished
  PROVE  QueueInv'
<1>1. pc = "reap" /\ pc' = "reap" /\ FinishedSeqs # <<>> /\ UNCHANGED <<status, local>>
  BY DEF FreeFinished
<1>2. CASE UNCHANGED <<waiting, running>> /\ \E s : KV!CacheBlocks(s)
  <2>1. KV!Live' = KV!Live /\ pool.ok
    BY <1>2, CacheKeepsEntries
  <2> QED BY <1>1, <1>2, <2>1, PlainStep
<1>3. ASSUME NEW s, s = Head(FinishedSeqs),
             IF s \in KV!Live THEN KV!Free(s) ELSE UNCHANGED kvVars,
             waiting' = Dropping(waiting, {s}), running' = Dropping(running, {s})
      PROVE  QueueInv'
  <2>1. s \in Runs \cup Waits /\ IsFinished(s)
    <3>1. FinishedSeqs \in Seq(Req) /\ ToSet(FinishedSeqs) = {t \in Runs \cup Waits : IsFinished(t)}
      BY FinishedSeqsFinished
    <3>2. s \in ToSet(FinishedSeqs)
      BY <1>1, <1>3, <3>1, MembersHavePositions
    <3> QED BY <3>1, <3>2
  <2>2. KV!Live' = KV!Live \ {s} /\ (pool.ok \/ pool' = pool)
    BY <1>3, FreeDropsEntry DEF kvVars, KV!Live
  <2>3. /\ waiting \in Seq(Req) /\ running \in Seq(Req)
        /\ IsInjective(waiting) /\ IsInjective(running)
    BY DEF QueueInv, Types, QueueTypes, NoneDoubled
  <2>4. /\ waiting' \in Seq(Req) /\ IsInjective(waiting') /\ Waits' = Waits \ {s}
        /\ running' \in Seq(Req) /\ IsInjective(running') /\ Runs' = Runs \ {s}
    BY <1>3, <2>3, DroppingKeeps DEF Waits, Runs
  <2>5. Again = {} /\ Kept = {} /\ SetAside = {} /\ Doomed = {}
    BY <1>1, LocalsEmpty
  <2>6. Again' = {} /\ Kept' = {} /\ SetAside' = {} /\ Doomed' = {} /\ Scheduled' = Scheduled
    BY <1>1, <2>5 DEF Again, Kept, SetAside, Doomed, Scheduled
  <2>7. Holders = Runs /\ Holders' = Runs \ {s} /\ Members' = Members \ {s}
    BY <2>4, <2>5, <2>6 DEF Holders, Members
  <2>8. Types' /\ NoneDoubled'
    BY <1>1, <2>4 DEF QueueInv, Types, QueueTypes, NoneDoubled
  <2>9. Apart'
    BY <2>4, <2>5, <2>6, <2>7 DEF QueueInv, Apart, Members
  <2>10. Phases' /\ OldestFirst'
    BY <1>1 DEF QueueInv, Phases, OldestFirst
  <2>11. Candidates'
    BY <1>1, <2>6, EmptyQueue DEF QueueInv, Phases, Candidates, Scheduled
  <2>12. Bounded'
    BY <2>4, <2>5, <2>6, FewerStayBounded
  <2>13. StatusAgrees'
    BY <1>1, <2>1, <2>7 DEF QueueInv, StatusAgrees, IsFinished
  <2>14. EntriesAgree'
    BY <2>2, <2>7 DEF QueueInv, EntriesAgree
  <2> QED BY <2>8, <2>9, <2>10, <2>11, <2>12, <2>13, <2>14 DEF QueueInv
<1> QED BY <1>2, <1>3 DEF FreeFinished

\* The prompts of a queue are members of it.
LEMMA PromptsKeep ==
  ASSUME NEW st, NEW q \in Seq(Req)
  PROVE  /\ Prompts(st, q) \in Seq(Req)
         /\ ToSet(Prompts(st, q)) \subseteq ToSet(q)
         /\ IsInjective(q) => IsInjective(Prompts(st, q))
BY KeepProperties DEF Prompts

\* schedule() starts when no member is finished.
LEMMA BeginScheduleKeeps ==
  ASSUME QueueInv, BeginSchedule
  PROVE  QueueInv'
<1>1. /\ pc = "reap" /\ FinishedSeqs = <<>> /\ pc' \in {"completion", "admit"}
      /\ UNCHANGED <<waiting, running, pool, reqs>>
  BY DEF BeginSchedule, kvVars
<1>2. \E S \in SUBSET Runs : status' = SetStatus(S, "RunningCompletion")
  <2> DEFINE S == {s \in ToSet(running) : status[s] = "RunningPrompt" /\ Uncomputed(s) = 0}
  <2>1. status' = SetStatus(S, "RunningCompletion") /\ S \in SUBSET Runs
    BY DEF BeginSchedule, Runs
  <2> QED BY <2>1
<1>3. \E q \in {<<>>, Prompts(status', running)} : local' = [NoLocals EXCEPT !.scheduled = q]
      /\ (q # <<>> => pc' = "admit")
  BY DEF BeginSchedule
<1>4. running \in Seq(Req) /\ IsInjective(running)
  BY DEF QueueInv, Types, QueueTypes, NoneDoubled
<1>5. PICK q \in Seq(Req) : /\ local' = [NoLocals EXCEPT !.scheduled = q]
                            /\ q # <<>> => pc' = "admit"
                            /\ ToSet(q) \subseteq Runs /\ IsInjective(q)
  BY <1>3, <1>4, PromptsKeep, EmptyQueue DEF Runs
<1>6. /\ local' \in [scheduled : Seq(Req), again : Seq(Req), kept : Seq(Req), prompts : Seq(Req),
                     doomed : Seq(Req)]
      /\ local'.scheduled = q /\ local'.again = <<>> /\ local'.kept = <<>>
      /\ local'.prompts = <<>> /\ local'.doomed = <<>>
  BY <1>5, EmptyQueue DEF NoLocals
<1>7. Again = {} /\ Kept = {} /\ SetAside = {} /\ Doomed = {}
  BY <1>1, LocalsEmpty
<1>8. /\ Again' = {} /\ Kept' = {} /\ SetAside' = {} /\ Doomed' = {}
      /\ Scheduled' \subseteq Runs /\ Runs' = Runs /\ Waits' = Waits
  BY <1>1, <1>5, <1>6, EmptyQueue DEF Again, Kept, SetAside, Doomed, Scheduled, Runs, Waits
<1>9. Holders' = Holders /\ Members' = Members /\ Members = Runs \cup Waits
  BY <1>7, <1>8 DEF Holders, Members
<1>10. /\ status' \in [Req -> Statuses]
       /\ \A s \in Req : status'[s] = status[s] \/ (s \in Runs /\ status'[s] = "RunningCompletion")
  BY <1>2 DEF SetStatus, QueueInv, Types, Statuses
<1>11. Types'
  BY <1>1, <1>6, <1>10 DEF QueueInv, Types, QueueTypes, Places
<1>12. NoneDoubled'
  BY <1>1, <1>5, <1>6, EmptyQueue DEF QueueInv, NoneDoubled
<1>13. Apart' /\ Candidates'
  BY <1>7, <1>8, <1>9 DEF QueueInv, Apart, Candidates
<1>14. Phases' /\ OldestFirst'
  BY <1>1, <1>5, <1>6 DEF Phases, OldestFirst
<1>15. Bounded'
  BY <1>8, FewerStayBounded
<1>16. StatusAgrees'
  <2>1. \A s \in Members : ~IsFinished(s)
    BY <1>1, <1>9, FinishedSeqsFinished, EmptyQueue
  <2>2. Members \subseteq Req
    BY QueueSets DEF QueueInv, Types, Members, Holders
  <2>3. \A s \in Req : "RunningCompletion" \notin Finished
    BY DEF Finished
  <2> QED BY <1>9, <1>10, <2>1, <2>2, <2>3 DEF QueueInv, StatusAgrees, IsFinished
<1>17. EntriesAgree'
  BY <1>1, <1>9 DEF QueueInv, EntriesAgree, KV!Live
<1> QED BY <1>11, <1>12, <1>13, <1>14, <1>15, <1>16, <1>17 DEF QueueInv

-----------------------------------------------------------------------------
(* Preemption and admission. *)

\* A preempted sequence gives up its entry and waits again.
LEMMA PreemptKeeps ==
  ASSUME QueueInv, Preempt
  PROVE  QueueInv'
<1> DEFINE s == Head(local.doomed)
<1>1. /\ local.doomed # <<>> /\ pc' = pc /\ running' = running
      /\ pc \in {"evict", "ready", "slots", "settle"}
  BY DEF Preempt, QueueInv, Phases
<1>2. /\ waiting \in Seq(Req) /\ IsInjective(waiting)
      /\ local.doomed \in Seq(Req) /\ IsInjective(local.doomed)
  BY QueueSets DEF QueueInv, Types, QueueTypes, NoneDoubled
<1>3. /\ s \in Doomed /\ Tail(local.doomed) \in Seq(Req)
      /\ IsInjective(Tail(local.doomed)) /\ ToSet(Tail(local.doomed)) = Doomed \ {s}
  BY <1>1, <1>2, TailKeeps DEF Doomed
<1>4. s \in Req /\ s \in Members /\ s \notin Waits
  BY <1>3, QueueSets DEF QueueInv, Types, Apart, Holders, Members
<1>5. ~IsFinished(s)
  BY <1>1, <1>4 DEF QueueInv, StatusAgrees
<1>6. CASE ~Published(s)
  <2>1. KV!CacheBlocks(s) /\ UNCHANGED <<waiting, status, local>>
    BY <1>5, <1>6 DEF Preempt
  <2>2. KV!Live' = KV!Live /\ pool.ok
    BY <2>1, CacheKeepsEntries
  <2> QED BY <1>1, <2>1, <2>2, PlainStep
<1>7. CASE Published(s)
  <2>1. /\ KV!Free(s) /\ status' = [status EXCEPT ![s] = "Waiting"]
        /\ waiting' = PushFront(s)
        /\ local' = [local EXCEPT !.doomed = Tail(local.doomed)]
    BY <1>5, <1>7 DEF Preempt
  <2> HIDE DEF s
  <2>2. KV!Live' = KV!Live \ {s} /\ pool.ok
    BY <2>1, FreeDropsEntry
  <2>3. /\ waiting' \in Seq(Req) /\ IsInjective(waiting') /\ Waits' = Waits \cup {s}
        /\ pc = "evict" => waiting' # <<>>
    <3>1. CASE pc = "evict"
      <4>1. waiting # <<>> /\ waiting' = InsertAt(waiting, 2, s)
        BY <2>1, <3>1 DEF PushFront, QueueInv, Phases
      <4>2. s \notin ToSet(waiting)
        BY <1>4 DEF Waits
      <4>3. /\ InsertAt(waiting, 2, s) \in Seq(Req) /\ InsertAt(waiting, 2, s) # <<>>
            /\ ToSet(InsertAt(waiting, 2, s)) = ToSet(waiting) \cup {s}
            /\ IsInjective(InsertAt(waiting, 2, s))
        <5>1. waiting \in Seq(Req) /\ IsInjective(waiting) /\ s \in Req /\ waiting # <<>>
          BY <1>2, <1>4, <4>1
        <5> QED BY <4>2, <5>1, InsertSecondKeeps, ZenonT(40)
      <4> QED BY <4>1, <4>3 DEF Waits
    <3>2. CASE pc # "evict"
      <4>1. waiting' = <<s>> \o waiting
        BY <2>1, <3>2 DEF PushFront
      <4> QED BY <1>2, <1>4, <3>2, <4>1, PushKeeps DEF Waits
    <3> QED BY <3>1, <3>2
  <2>4. /\ local' \in [scheduled : Seq(Req), again : Seq(Req), kept : Seq(Req), prompts : Seq(Req),
                       doomed : Seq(Req)]
        /\ local'.scheduled = local.scheduled /\ local'.again = local.again
        /\ local'.kept = local.kept /\ local'.prompts = local.prompts
        /\ local'.doomed = Tail(local.doomed)
    BY <1>3, <2>1 DEF QueueInv, Types, QueueTypes
  <2>5. /\ Again' = Again /\ Runs' = Runs /\ Kept' = Kept
        /\ SetAside' = SetAside /\ Doomed' = Doomed \ {s} /\ Scheduled' = Scheduled
    BY <1>1, <1>3, <2>4 DEF Again, Runs, Kept, SetAside, Doomed, Scheduled
  <2>6. s \notin Runs \cup Kept \cup SetAside \cup Again
    BY <1>3 DEF QueueInv, Apart, Holders
  <2>7. Holders' = Holders \ {s} /\ Members' = Members
    BY <1>3, <2>3, <2>5, <2>6 DEF Holders, Members
  <2>8. Types'
    <3>1. status' \in [Req -> Statuses]
      BY <1>4, <2>1 DEF QueueInv, Types, Statuses
    <3> QED BY <1>1, <2>3, <2>4, <3>1 DEF QueueInv, Types, QueueTypes
  <2>9. NoneDoubled'
    BY <1>1, <1>3, <2>3, <2>4 DEF QueueInv, NoneDoubled
  <2>10. Apart'
    <3>1. Waits' \cap (Again' \cup Holders') = {}
      BY <2>3, <2>5, <2>6, <2>7 DEF QueueInv, Apart
    <3>2. Again' \cap Holders' = {}
      BY <2>5, <2>7 DEF QueueInv, Apart
    <3> QED BY <2>5, <3>1, <3>2 DEF QueueInv, Apart
  <2>11. Phases'
    BY <1>1, <2>3, <2>4 DEF QueueInv, Phases
  <2>12. Candidates' /\ Bounded'
    BY <2>5 DEF QueueInv, Candidates, Bounded
  <2>13. OldestFirst'
    BY <1>1, <2>5 DEF QueueInv, OldestFirst, Increasing
  <2>14. StatusAgrees'
    <3>1. \A t \in Req : status'[t] = IF t = s THEN "Waiting" ELSE status[t]
      BY <2>1 DEF QueueInv, Types
    <3>2. Members \subseteq Req
      BY QueueSets DEF QueueInv, Types, Members, Holders
    <3>3. "Waiting" \notin Finished
      BY DEF Finished
    <3> QED BY <1>1, <1>4, <2>7, <3>1, <3>2, <3>3 DEF QueueInv, StatusAgrees, IsFinished
  <2>15. EntriesAgree'
    BY <2>2, <2>7 DEF QueueInv, EntriesAgree
  <2> QED BY <2>8, <2>9, <2>10, <2>11, <2>12, <2>13, <2>14, <2>15 DEF QueueInv
<1> QED BY <1>6, <1>7

\* finish_front_of_waiting turns the front of the queue away.
LEMMA FinishFrontKeeps ==
  ASSUME QueueInv, FinishFrontOfWaiting, waiting # <<>>,
         pc \in {"admit", "evict"}, pc' = "admit", local.doomed = <<>>,
         UNCHANGED <<running, local>>, KV!Live' = KV!Live, pool'.ok = pool.ok
  PROVE  QueueInv'
<1>0. PICK s : s = Head(waiting)
  OBVIOUS
<1>1. waiting' = Tail(waiting) /\ status' = [status EXCEPT ![s] = "Ignored"]
  BY <1>0 DEF FinishFrontOfWaiting
<1>2. waiting \in Seq(Req) /\ IsInjective(waiting)
  BY DEF QueueInv, Types, QueueTypes, NoneDoubled
<1>3. s \in Waits /\ waiting' \in Seq(Req) /\ IsInjective(waiting') /\ Waits' = Waits \ {s}
  BY <1>0, <1>1, <1>2, TailKeeps DEF Waits
<1>4. /\ Again' = Again /\ Runs' = Runs /\ Kept' = Kept
      /\ SetAside' = SetAside /\ Doomed' = Doomed /\ Scheduled' = Scheduled
  BY DEF Again, Runs, Kept, SetAside, Doomed, Scheduled
<1>5. s \in Req /\ s \notin Again /\ s \notin Holders
  BY <1>3, QueueSets DEF QueueInv, Types, Apart
<1>6. Holders' = Holders /\ Members' = Members \ {s}
  BY <1>3, <1>4, <1>5 DEF Holders, Members
<1>7. Types'
  <2>1. status' \in [Req -> Statuses]
    BY <1>1, <1>5 DEF QueueInv, Types, Statuses, Finished
  <2> QED BY <1>3, <2>1 DEF QueueInv, Types, QueueTypes, Places
<1>8. NoneDoubled'
  BY <1>3 DEF QueueInv, NoneDoubled
<1>9. Apart'
  <2>1. Waits' \cap (Again' \cup Holders') = {}
    BY <1>3, <1>4, <1>6 DEF QueueInv, Apart
  <2> QED BY <1>4, <1>6, <2>1 DEF QueueInv, Apart
<1>10. Phases' /\ OldestFirst'
  BY DEF QueueInv, Phases, OldestFirst
<1>11. Candidates' /\ Bounded'
  BY <1>4 DEF QueueInv, Candidates, Bounded
<1>12. StatusAgrees'
  <2>1. \A t \in Req : status'[t] = IF t = s THEN "Ignored" ELSE status[t]
    BY <1>1 DEF QueueInv, Types
  <2>2. Members \subseteq Req
    BY QueueSets DEF QueueInv, Types, Members, Holders
  <2>3. "Ignored" \in Finished
    BY DEF Finished
  <2> QED BY <1>6, <2>1, <2>2, <2>3 DEF QueueInv, StatusAgrees, IsFinished
<1>13. EntriesAgree'
  BY <1>6 DEF QueueInv, EntriesAgree
<1> QED BY <1>7, <1>8, <1>9, <1>10, <1>11, <1>12, <1>13 DEF QueueInv

\* A prompt longer than the cache leaves the waiting queue.
LEMMA RejectTooLongKeeps ==
  ASSUME QueueInv, RejectTooLong
  PROVE  QueueInv'
<1>1. /\ FinishFrontOfWaiting /\ waiting # <<>> /\ pc = "admit" /\ pc' = "admit"
      /\ local.doomed = <<>> /\ UNCHANGED <<running, local, pool, reqs>>
  BY DEF RejectTooLong, At, RoomForMore, kvVars
<1>2. KV!Live' = KV!Live /\ pool'.ok = pool.ok
  BY <1>1 DEF KV!Live
<1> QED BY <1>1, <1>2, FinishFrontKeeps

\* A prompt of another medium is put by for after the admission loop.
LEMMA DeferForMediaKeeps ==
  ASSUME QueueInv, DeferForMedia
  PROVE  QueueInv'
<1>0. PICK s : s = Head(waiting)
  OBVIOUS
<1>1. /\ pc = "admit" /\ pc' = "admit" /\ local.doomed = <<>> /\ waiting # <<>>
      /\ waiting' = Tail(waiting) /\ local' = [local EXCEPT !.again = Append(local.again, s)]
      /\ UNCHANGED <<running, status, pool, reqs>>
  BY <1>0 DEF DeferForMedia, At, RoomForMore, kvVars
<1>2. /\ waiting \in Seq(Req) /\ IsInjective(waiting)
      /\ local.again \in Seq(Req) /\ IsInjective(local.again)
  BY QueueSets DEF QueueInv, Types, QueueTypes, NoneDoubled
<1>3. s \in Waits /\ waiting' \in Seq(Req) /\ IsInjective(waiting') /\ Waits' = Waits \ {s}
  BY <1>0, <1>1, <1>2, TailKeeps DEF Waits
<1>4. s \in Req /\ s \notin Again /\ s \notin Holders
  BY <1>3, QueueSets DEF QueueInv, Types, Apart
<1>5. /\ Append(local.again, s) \in Seq(Req) /\ IsInjective(Append(local.again, s))
      /\ ToSet(Append(local.again, s)) = Again \cup {s}
  BY <1>2, <1>4, AppendKeeps DEF Again
<1>6. /\ local' \in [scheduled : Seq(Req), again : Seq(Req), kept : Seq(Req), prompts : Seq(Req),
                     doomed : Seq(Req)]
      /\ local'.scheduled = local.scheduled /\ local'.again = Append(local.again, s)
      /\ local'.kept = local.kept /\ local'.prompts = local.prompts
      /\ local'.doomed = local.doomed
  BY <1>1, <1>5 DEF QueueInv, Types, QueueTypes
<1>7. /\ Again' = Again \cup {s} /\ Runs' = Runs /\ Kept' = Kept
      /\ SetAside' = SetAside /\ Doomed' = Doomed /\ Scheduled' = Scheduled
  BY <1>1, <1>5, <1>6 DEF Again, Runs, Kept, SetAside, Doomed, Scheduled
<1>8. Holders' = Holders /\ Members' = Members
  BY <1>3, <1>7 DEF Holders, Members
<1>9. Types' /\ NoneDoubled'
  BY <1>1, <1>3, <1>5, <1>6 DEF QueueInv, Types, QueueTypes, NoneDoubled
<1>10. Apart'
  <2>1. Waits' \cap (Again' \cup Holders') = {} /\ Again' \cap Holders' = {}
    BY <1>3, <1>4, <1>7, <1>8 DEF QueueInv, Apart
  <2> QED BY <1>7, <1>8, <2>1 DEF QueueInv, Apart
<1>11. Phases' /\ OldestFirst'
  BY <1>1, <1>6 DEF QueueInv, Phases, OldestFirst
<1>12. Candidates' /\ Bounded'
  BY <1>7 DEF QueueInv, Candidates, Bounded
<1>13. StatusAgrees' /\ EntriesAgree'
  BY <1>1, <1>8 DEF QueueInv, StatusAgrees, IsFinished, EntriesAgree, KV!Live
<1> QED BY <1>9, <1>10, <1>11, <1>12, <1>13 DEF QueueInv

\* The loop ends: what was set aside for its media goes back to the queue.
LEMMA LeaveAdmissionKeeps ==
  ASSUME QueueInv, LeaveAdmission, pc \in {"admit", "allocate"}, local.doomed = <<>>,
         UNCHANGED <<running, status>>, KV!Live' = KV!Live, pool'.ok = pool.ok
  PROVE  QueueInv'
<1>1. /\ waiting' = waiting \o local.again /\ local' = [local EXCEPT !.again = <<>>]
      /\ pc' = "prompt"
  BY DEF LeaveAdmission
<1>2. /\ waiting \in Seq(Req) /\ IsInjective(waiting)
      /\ local.again \in Seq(Req) /\ IsInjective(local.again)
      /\ ToSet(waiting) \cap ToSet(local.again) = {}
  BY QueueSets DEF QueueInv, Types, QueueTypes, NoneDoubled, Apart, Waits, Again
<1>3. /\ waiting' \in Seq(Req) /\ IsInjective(waiting') /\ Waits' = Waits \cup Again
  BY <1>1, <1>2, ConcatIsUnion, ConcatInjective, ConcatProperties DEF Waits, Again
<1>4. /\ local' \in [scheduled : Seq(Req), again : Seq(Req), kept : Seq(Req), prompts : Seq(Req),
                     doomed : Seq(Req)]
      /\ local'.scheduled = local.scheduled /\ local'.again = <<>>
      /\ local'.kept = local.kept /\ local'.prompts = local.prompts
      /\ local'.doomed = local.doomed
  BY <1>1, EmptyQueue DEF QueueInv, Types, QueueTypes
<1>5. /\ Again' = {} /\ Runs' = Runs /\ Kept' = Kept
      /\ SetAside' = SetAside /\ Doomed' = Doomed /\ Scheduled' = Scheduled
  BY <1>4, EmptyQueue DEF Again, Runs, Kept, SetAside, Doomed, Scheduled
<1>6. Holders' = Holders /\ Members' = Members
  BY <1>3, <1>5 DEF Holders, Members
<1>7. Types'
  BY <1>1, <1>3, <1>4 DEF QueueInv, Types, QueueTypes, Places
<1>8. NoneDoubled'
  BY <1>3, <1>4, EmptyQueue DEF QueueInv, NoneDoubled
<1>9. Apart'
  <2>1. Waits' \cap (Again' \cup Holders') = {} /\ Again' \cap Holders' = {}
    BY <1>3, <1>5, <1>6 DEF QueueInv, Apart
  <2> QED BY <1>5, <1>6, <2>1 DEF QueueInv, Apart
<1>10. Phases' /\ OldestFirst'
  BY <1>1, <1>4 DEF QueueInv, Phases, OldestFirst
<1>11. Candidates' /\ Bounded'
  BY <1>5 DEF QueueInv, Candidates, Bounded
<1>12. StatusAgrees' /\ EntriesAgree'
  BY <1>1, <1>6 DEF QueueInv, StatusAgrees, IsFinished, EntriesAgree
<1> QED BY <1>7, <1>8, <1>9, <1>10, <1>11, <1>12 DEF QueueInv

\* The admission loop ends when nothing more may run.
LEMMA NoRoomKeeps ==
  ASSUME QueueInv, NoRoom
  PROVE  QueueInv'
<1>1. /\ LeaveAdmission /\ pc = "admit" /\ local.doomed = <<>>
      /\ UNCHANGED <<running, status, pool, reqs>>
  BY DEF NoRoom, At, kvVars
<1>2. KV!Live' = KV!Live /\ pool'.ok = pool.ok
  BY <1>1 DEF KV!Live
<1> QED BY <1>1, <1>2, LeaveAdmissionKeeps

\* The front of the waiting queue does not fit: evict for it, or leave the loop.
LEMMA DoesNotFitKeeps ==
  ASSUME QueueInv, DoesNotFit
  PROVE  QueueInv'
<1>1. pc = "allocate" /\ local.doomed = <<>> /\ UNCHANGED <<running, status>>
  BY DEF DoesNotFit, At
<1>2. CASE pc' = "evict" /\ UNCHANGED <<kvVars, waiting, local>>
  <2>1. KV!Live' = KV!Live /\ pool'.ok = pool.ok
    BY <1>2 DEF KV!Live, kvVars
  <2>2. Phases'
    BY <1>1, <1>2 DEF QueueInv, Phases
  <2> QED BY <1>1, <1>2, <2>1, <2>2, PlaceStep DEF Places
<1>3. CASE KV!AbandonLookup /\ LeaveAdmission
  <2>1. KV!Live' = KV!Live /\ pool'.ok = pool.ok
    BY <1>3, LookupKeepsEntries
  <2> QED BY <1>1, <1>3, <2>1, LeaveAdmissionKeeps
<1> QED BY <1>2, <1>3 DEF DoesNotFit

\* An admitted sequence moves from the waiting queue to the running one.
LEMMA AdmitKeeps ==
  ASSUME QueueInv, Admit
  PROVE  QueueInv'
<1>0. PICK s : s = Head(waiting)
  OBVIOUS
<1>1. /\ pc \in {"allocate", "evict"} /\ pc' = "admit" /\ local.doomed = <<>>
      /\ KV!ReservePrompt(s) \/ KV!AllocateNewRequest(s)
      /\ status' = [status EXCEPT ![s] = "RunningPrompt"]
      /\ waiting' = Tail(waiting) /\ running' = Append(running, s)
      /\ local' = [local EXCEPT !.scheduled = Append(local.scheduled, s)]
  BY <1>0 DEF Admit
<1>2. waiting # <<>> /\ Len(running) < MaxNumSeqs
  BY <1>1 DEF QueueInv, Phases
<1>3. pool.ok /\ (KV!Live' = KV!Live \cup {s} \/ (KV!Live' = KV!Live /\ ~pool'.ok))
  BY <1>1, AdmissionAddsEntry
<1>4. /\ waiting \in Seq(Req) /\ IsInjective(waiting)
      /\ running \in Seq(Req) /\ IsInjective(running)
      /\ local.scheduled \in Seq(Req) /\ IsInjective(local.scheduled)
  BY QueueSets DEF QueueInv, Types, QueueTypes, NoneDoubled
<1>5. s \in Waits /\ waiting' \in Seq(Req) /\ IsInjective(waiting') /\ Waits' = Waits \ {s}
  BY <1>0, <1>1, <1>2, <1>4, TailKeeps DEF Waits
<1>6. s \in Req /\ s \notin Again /\ s \notin Holders
  BY <1>5, QueueSets DEF QueueInv, Types, Apart
<1>7. s \notin Runs /\ s \notin Scheduled
  BY <1>6 DEF Holders, QueueInv, Candidates
<1>8. running' \in Seq(Req) /\ IsInjective(running') /\ Runs' = Runs \cup {s}
  BY <1>1, <1>4, <1>6, <1>7, AppendKeeps DEF Runs
<1>9. /\ Append(local.scheduled, s) \in Seq(Req) /\ IsInjective(Append(local.scheduled, s))
      /\ ToSet(Append(local.scheduled, s)) = Scheduled \cup {s}
  BY <1>4, <1>6, <1>7, AppendKeeps DEF Scheduled
<1>10. /\ local' \in [scheduled : Seq(Req), again : Seq(Req), kept : Seq(Req), prompts : Seq(Req),
                      doomed : Seq(Req)]
       /\ local'.scheduled = Append(local.scheduled, s) /\ local'.again = local.again
       /\ local'.kept = local.kept /\ local'.prompts = local.prompts
       /\ local'.doomed = local.doomed
  BY <1>1, <1>9 DEF QueueInv, Types, QueueTypes
<1>11. Kept = {} /\ SetAside = {} /\ Doomed = {}
  BY <1>1, LocalsEmpty
<1>12. /\ Again' = Again /\ Kept' = {} /\ SetAside' = {} /\ Doomed' = {}
       /\ Scheduled' = Scheduled \cup {s}
  BY <1>9, <1>10, <1>11 DEF Again, Kept, SetAside, Doomed, Scheduled
<1>13. Holders' = Holders \cup {s} /\ Members' = Members
  BY <1>5, <1>8, <1>11, <1>12 DEF Holders, Members
<1>14. Types'
  <2>1. status' \in [Req -> Statuses]
    BY <1>1, <1>6 DEF QueueInv, Types, Statuses
  <2> QED BY <1>1, <1>5, <1>8, <1>10, <2>1 DEF Types, QueueTypes, Places
<1>15. NoneDoubled'
  BY <1>5, <1>8, <1>9, <1>10 DEF QueueInv, NoneDoubled
<1>16. Apart'
  <2>1. Waits' \cap (Again' \cup Holders') = {} /\ Again' \cap Holders' = {}
    BY <1>5, <1>6, <1>12, <1>13 DEF QueueInv, Apart
  <2> QED BY <1>12, <2>1 DEF Apart
<1>17. Phases' /\ OldestFirst'
  BY <1>1, <1>10 DEF QueueInv, Phases, OldestFirst
<1>18. Candidates'
  BY <1>8, <1>12 DEF QueueInv, Candidates
<1>19. Bounded'
  <2>1. IsFiniteSet(Runs) /\ Cardinality(Runs) = Len(running)
    BY <1>4, LenIsCardinality DEF Runs
  <2>2. Cardinality(Runs \cup {s}) = Cardinality(Runs) + 1
    BY <1>7, <2>1, FS_AddElement
  <2>3. (Runs \cup Kept \cup SetAside)' = Runs \cup {s}
    BY <1>8, <1>12
  <2>4. Len(running) \in Nat /\ MaxNumSeqs \in Nat
    BY <1>4, SchedulerAssumption
  <2>5. Cardinality(Runs \cup {s}) <= MaxNumSeqs
    BY <1>2, <2>1, <2>2, <2>4
  <2> QED BY <2>3, <2>5 DEF Bounded
<1>20. StatusAgrees'
  <2>1. \A t \in Req : status'[t] = IF t = s THEN "RunningPrompt" ELSE status[t]
    BY <1>1 DEF QueueInv, Types
  <2>2. Members \subseteq Req /\ s \in Members
    BY <1>5, QueueSets DEF QueueInv, Types, Members, Holders
  <2>3. "RunningPrompt" \notin Finished
    BY DEF Finished
  <2> QED BY <1>1, <1>13, <2>1, <2>2, <2>3 DEF QueueInv, StatusAgrees, IsFinished
<1>21. EntriesAgree'
  BY <1>3, <1>13 DEF QueueInv, EntriesAgree
<1> QED BY <1>14, <1>15, <1>16, <1>17, <1>18, <1>19, <1>20, <1>21 DEF QueueInv

\* The last running sequence goes, or the front of the waiting queue is given up.
LEMMA MakeRoomKeeps ==
  ASSUME QueueInv, MakeRoom
  PROVE  QueueInv'
<1>1. pc = "evict" /\ local.doomed = <<>>
  BY DEF MakeRoom, At
<1>2. CASE running = <<>>
  <2>1. /\ KV!AbandonLookup /\ FinishFrontOfWaiting /\ pc' = "admit"
        /\ UNCHANGED <<running, local>>
    BY <1>2 DEF MakeRoom
  <2>2. KV!Live' = KV!Live /\ pool'.ok = pool.ok
    BY <2>1, LookupKeepsEntries
  <2>3. waiting # <<>>
    BY <1>1 DEF QueueInv, Phases
  <2> QED BY <1>1, <2>1, <2>2, <2>3, FinishFrontKeeps
<1>3. CASE running # <<>>
  <2>0. PICK s : s = Last(running)
    OBVIOUS
  <2>1. /\ running' = Front(running)
        /\ local' = [local EXCEPT !.doomed = <<s>>, !.scheduled = Dropping(local.scheduled, {s})]
        /\ UNCHANGED <<waiting, status, pc, pool, reqs>>
    BY <1>3, <2>0 DEF MakeRoom, kvVars
  <2>2. /\ running \in Seq(Req) /\ IsInjective(running)
        /\ local.scheduled \in Seq(Req) /\ IsInjective(local.scheduled)
    BY QueueSets DEF QueueInv, Types, QueueTypes, NoneDoubled
  <2>3. s \in Runs /\ running' \in Seq(Req) /\ IsInjective(running') /\ Runs' = Runs \ {s}
    BY <1>3, <2>0, <2>1, <2>2, FrontKeeps DEF Runs
  <2>4. s \in Req
    BY <2>3, QueueSets DEF QueueInv, Types
  <2>5. /\ Dropping(local.scheduled, {s}) \in Seq(Req)
        /\ IsInjective(Dropping(local.scheduled, {s}))
        /\ ToSet(Dropping(local.scheduled, {s})) = Scheduled \ {s}
    BY <2>2, DroppingKeeps DEF Scheduled
  <2>6. <<s>> \in Seq(Req) /\ ToSet(<<s>>) = {s} /\ IsInjective(<<s>>)
    BY <2>4, SingletonQueue
  <2>7. /\ local' \in [scheduled : Seq(Req), again : Seq(Req), kept : Seq(Req), prompts : Seq(Req),
                       doomed : Seq(Req)]
        /\ local'.scheduled = Dropping(local.scheduled, {s}) /\ local'.again = local.again
        /\ local'.kept = local.kept /\ local'.prompts = local.prompts
        /\ local'.doomed = <<s>>
    BY <2>1, <2>5, <2>6 DEF QueueInv, Types, QueueTypes
  <2>8. Kept = {} /\ SetAside = {} /\ Doomed = {}
    BY <1>1, LocalsEmpty
  <2>9. /\ Waits' = Waits /\ Again' = Again /\ Kept' = {} /\ SetAside' = {} /\ Doomed' = {s}
        /\ Scheduled' = Scheduled \ {s}
    BY <2>1, <2>5, <2>6, <2>7, <2>8 DEF Waits, Again, Kept, SetAside, Doomed, Scheduled
  <2>10. Holders' = Holders /\ Members' = Members
    BY <2>3, <2>8, <2>9 DEF Holders, Members
  <2>11. Types'
    BY <2>1, <2>3, <2>7 DEF QueueInv, Types, QueueTypes
  <2>12. NoneDoubled'
    BY <2>1, <2>3, <2>5, <2>6, <2>7 DEF QueueInv, NoneDoubled
  <2>13. Apart'
    <3>1. Waits' \cap (Again' \cup Holders') = {} /\ Again' \cap Holders' = {}
      BY <2>9, <2>10 DEF QueueInv, Apart
    <3> QED BY <2>3, <2>9, <3>1 DEF Apart
  <2>14. Phases' /\ OldestFirst'
    <3>1. Len(running') < MaxNumSeqs
      <4>1. Len(running') = Len(running) - 1
        BY <1>3, <2>1, <2>2, FrontElements
      <4>2. Len(running) \in Nat /\ Len(running) < MaxNumSeqs /\ MaxNumSeqs \in Nat
        BY <1>1, <2>2, SchedulerAssumption DEF QueueInv, Phases
      <4> QED BY <4>1, <4>2
    <3>2. local'.again # <<>> => pc' \in {"admit", "allocate", "evict"}
      BY <1>1, <2>1
    <3>3. local'.kept = <<>> /\ local'.prompts = <<>>
      BY <1>1, <2>7 DEF QueueInv, Phases
    <3>4. waiting' # <<>>
      BY <1>1, <2>1 DEF QueueInv, Phases
    <3> QED BY <1>1, <2>1, <3>1, <3>2, <3>3, <3>4 DEF Phases, OldestFirst
  <2>15. Candidates'
    BY <2>3, <2>9 DEF QueueInv, Candidates
  <2>16. Bounded'
    BY <2>3, <2>9, FewerStayBounded
  <2>17. StatusAgrees' /\ EntriesAgree'
    BY <2>1, <2>10 DEF QueueInv, StatusAgrees, IsFinished, EntriesAgree, KV!Live
  <2> QED BY <2>11, <2>12, <2>13, <2>14, <2>15, <2>16, <2>17 DEF QueueInv
<1> QED BY <1>2, <1>3

-----------------------------------------------------------------------------
(* The prompt phase and the completion phase. *)

\* Rotating the candidates keeps them all.
LEMMA RotatedKeeps ==
  ASSUME NEW q \in Seq(Req)
  PROVE  /\ Rotated(q) \in Seq(Req)
         /\ ToSet(Rotated(q)) = ToSet(q)
         /\ IsInjective(q) => IsInjective(Rotated(q))
<1>1. CASE turn.next_prompt \notin ToSet(q)
  BY <1>1 DEF Rotated
<1>2. CASE turn.next_prompt \in ToSet(q)
  <2>1. PICK i : i = Position(q, turn.next_prompt)
    OBVIOUS
  <2>2. i \in 1..Len(q)
    <3>1. \E j \in 1..Len(q) : q[j] = turn.next_prompt
      BY <1>2, MembersHavePositions
    <3> QED BY <2>1, <3>1 DEF Position
  <2>3. i \in 1..(Len(q) + 1)
    BY <2>2
  <2>4. PICK a, b : a = SubSeq(q, 1, i - 1) /\ b = SubSeq(q, i, Len(q))
    OBVIOUS
  <2>5. Rotated(q) = b \o a
    BY <1>2, <2>1, <2>4 DEF Rotated
  <2>6. /\ a \in Seq(Req) /\ b \in Seq(Req) /\ ToSet(a) \cup ToSet(b) = ToSet(q)
        /\ IsInjective(q) => IsInjective(a) /\ IsInjective(b) /\ ToSet(a) \cap ToSet(b) = {}
    BY <2>3, <2>4, HalvesKeep
  <2>7. b \o a \in Seq(Req) /\ ToSet(b \o a) = ToSet(b) \cup ToSet(a)
    BY <2>6, ConcatIsUnion, ConcatProperties
  <2>8. ASSUME IsInjective(q) PROVE IsInjective(b \o a)
    <3>1. IsInjective(a) /\ IsInjective(b) /\ ToSet(b) \cap ToSet(a) = {}
      BY <2>6, <2>8
    <3> QED BY <2>6, <3>1, ConcatInjective
  <2> QED BY <2>5, <2>6, <2>7, <2>8
<1> QED BY <1>1, <1>2

\* The candidates that do not share the bucket of the batch are preempted.
LEMMA SelectPromptBatchKeeps ==
  ASSUME QueueInv, SelectPromptBatch
  PROVE  QueueInv'
<1>1. /\ pc = "prompt" /\ local.doomed = <<>>
      /\ UNCHANGED <<waiting, status, pool, reqs>>
  BY DEF SelectPromptBatch, At, kvVars
<1>2. /\ running \in Seq(Req) /\ IsInjective(running)
      /\ local.scheduled \in Seq(Req) /\ IsInjective(local.scheduled)
  BY QueueSets DEF QueueInv, Types, QueueTypes, NoneDoubled
<1>3. PICK q \in Seq(Req) : /\ q = Rotated(local.scheduled) /\ ToSet(q) = Scheduled /\ IsInjective(q)
  BY <1>2, RotatedKeeps DEF Scheduled
<1>4. PICK c \in Seq(Req) : /\ c = Compatible(q) /\ ToSet(c) \subseteq Scheduled /\ IsInjective(c)
  BY <1>3, KeepProperties DEF Compatible
<1>5. PICK r : /\ r = <<>> \/ \E S : r = Dropping(c, S)
               /\ running' = Dropping(running, ToSet(r))
               /\ local' = [NoLocals EXCEPT !.doomed = Reverse(r)]
               /\ pc' \in {"materialize", "ready"} /\ (pc' = "materialize" => r = <<>>)
  BY <1>3, <1>4 DEF SelectPromptBatch
<1>6. r \in Seq(Req) /\ IsInjective(r) /\ ToSet(r) \subseteq Runs
  <2>1. CASE r = <<>>
    BY <2>1, EmptyQueue
  <2>2. ASSUME NEW S, r = Dropping(c, S)
        PROVE  r \in Seq(Req) /\ IsInjective(r) /\ ToSet(r) \subseteq Runs
    BY <1>4, <2>2, DroppingKeeps DEF QueueInv, Candidates
  <2> QED BY <1>5, <2>1, <2>2
<1>7. running' \in Seq(Req) /\ IsInjective(running') /\ Runs' = Runs \ ToSet(r)
  BY <1>2, <1>5, DroppingKeeps DEF Runs
<1>8. Reverse(r) \in Seq(Req) /\ IsInjective(Reverse(r)) /\ ToSet(Reverse(r)) = ToSet(r)
  BY <1>6, ReverseKeeps
<1>9. /\ local' \in [scheduled : Seq(Req), again : Seq(Req), kept : Seq(Req), prompts : Seq(Req),
                     doomed : Seq(Req)]
      /\ local'.scheduled = <<>> /\ local'.again = <<>> /\ local'.kept = <<>>
      /\ local'.prompts = <<>> /\ local'.doomed = Reverse(r)
  BY <1>5, <1>8, EmptyQueue DEF NoLocals
<1>10. Again = {} /\ Kept = {} /\ SetAside = {} /\ Doomed = {}
  BY <1>1, LocalsEmpty
<1>11. /\ Waits' = Waits /\ Again' = {} /\ Kept' = {} /\ SetAside' = {} /\ Doomed' = ToSet(r)
       /\ Scheduled' = {}
  BY <1>1, <1>8, <1>9, EmptyQueue DEF Waits, Again, Kept, SetAside, Doomed, Scheduled
<1>12. Holders' = Holders /\ Members' = Members
  BY <1>6, <1>7, <1>10, <1>11 DEF Holders, Members
<1>13. Types'
  BY <1>1, <1>5, <1>7, <1>9 DEF QueueInv, Types, QueueTypes, Places
<1>14. NoneDoubled'
  BY <1>1, <1>7, <1>8, <1>9, EmptyQueue DEF QueueInv, NoneDoubled
<1>15. Apart'
  <2>1. Waits' \cap (Again' \cup Holders') = {} /\ Again' \cap Holders' = {}
    BY <1>11, <1>12 DEF QueueInv, Apart
  <2> QED BY <1>7, <1>11, <2>1 DEF Apart
<1>16. Phases' /\ OldestFirst'
  <2>1. pc' = "materialize" => local'.doomed = <<>>
    BY <1>5, <1>8, <1>9, NonemptyQueue, EmptyQueue
  <2> QED BY <1>5, <1>9, <2>1 DEF Phases, OldestFirst
<1>17. Candidates'
  BY <1>11 DEF Candidates
<1>18. Bounded'
  BY <1>7, <1>11, FewerStayBounded
<1>19. StatusAgrees' /\ EntriesAgree'
  BY <1>1, <1>12 DEF QueueInv, StatusAgrees, IsFinished, EntriesAgree, KV!Live
<1> QED BY <1>13, <1>14, <1>15, <1>16, <1>17, <1>18, <1>19 DEF QueueInv

\* The prompts are set aside and the completions sorted by age.
LEMMA BeginCompletionKeeps ==
  ASSUME QueueInv, BeginCompletion
  PROVE  QueueInv'
<1>1. /\ pc = "completion" /\ pc' = "slots" /\ local.doomed = <<>>
      /\ UNCHANGED <<waiting, status, pool, reqs>>
  BY DEF BeginCompletion, At, kvVars
<1>2. running \in Seq(Req) /\ IsInjective(running)
  BY QueueSets DEF QueueInv, Types, QueueTypes, NoneDoubled
<1>3. PICK p \in Seq(Req) : /\ p = Prompts(status, running)
                            /\ ToSet(p) \subseteq Runs /\ IsInjective(p)
  BY <1>2, PromptsKeep DEF Runs
<1>4. PICK d \in Seq(Req) : /\ d = Dropping(running, ToSet(p))
                            /\ ToSet(d) = Runs \ ToSet(p)
  BY <1>2, DroppingKeeps DEF Runs
<1>5. /\ local' = [NoLocals EXCEPT !.prompts = p]
      /\ running' = InOrder(ToSet(d))
  BY <1>3, <1>4 DEF BeginCompletion, PriorityOrder
<1>6. /\ running' \in Seq(Req) /\ IsInjective(running') /\ Increasing(running')
      /\ Runs' = Runs \ ToSet(p)
  <2>1. NumSeqs \in Nat /\ ToSet(d) \in SUBSET (1..NumSeqs)
    BY SchedulerAssumption, MembersHavePositions DEF Req
  <2>2. PICK o : o = InOrder(ToSet(d))
    OBVIOUS
  <2>3. /\ o \in Seq(ToSet(d)) /\ ToSet(o) = ToSet(d)
        /\ Increasing(o) /\ IsInjective(o)
    BY <2>1, <2>2, InOrderProperties
  <2>4. o \in Seq(Req)
    BY <2>1, <2>3, SeqMonotonic DEF Req
  <2> QED BY <1>4, <1>5, <2>2, <2>3, <2>4 DEF Runs
<1>7. /\ local' \in [scheduled : Seq(Req), again : Seq(Req), kept : Seq(Req), prompts : Seq(Req),
                     doomed : Seq(Req)]
      /\ local'.scheduled = <<>> /\ local'.again = <<>> /\ local'.kept = <<>>
      /\ local'.prompts = p /\ local'.doomed = <<>>
  BY <1>5, EmptyQueue DEF NoLocals
<1>8. Again = {} /\ Kept = {} /\ SetAside = {} /\ Doomed = {}
  BY <1>1, LocalsEmpty
<1>9. /\ Waits' = Waits /\ Again' = {} /\ Kept' = {} /\ SetAside' = ToSet(p) /\ Doomed' = {}
      /\ Scheduled' = {}
  BY <1>1, <1>7, EmptyQueue DEF Waits, Again, Kept, SetAside, Doomed, Scheduled
<1>10. Holders' = Holders /\ Members' = Members
  BY <1>3, <1>6, <1>8, <1>9 DEF Holders, Members
<1>11. Types'
  BY <1>1, <1>6, <1>7 DEF QueueInv, Types, QueueTypes, Places
<1>12. NoneDoubled'
  BY <1>1, <1>3, <1>6, <1>7, EmptyQueue DEF QueueInv, NoneDoubled
<1>13. Apart'
  <2>1. Waits' \cap (Again' \cup Holders') = {} /\ Again' \cap Holders' = {}
    BY <1>9, <1>10 DEF QueueInv, Apart
  <2> QED BY <1>6, <1>9, <2>1 DEF Apart
<1>14. Phases' /\ OldestFirst'
  BY <1>1, <1>6, <1>7, <1>9 DEF Phases, OldestFirst
<1>15. Candidates'
  BY <1>9 DEF Candidates
<1>16. Bounded'
  BY <1>3, <1>6, <1>9, FewerStayBounded
<1>17. StatusAgrees' /\ EntriesAgree'
  BY <1>1, <1>10 DEF QueueInv, StatusAgrees, IsFinished, EntriesAgree, KV!Live
<1> QED BY <1>11, <1>12, <1>13, <1>14, <1>15, <1>16, <1>17 DEF QueueInv

\* The oldest completion without slots gets them, or goes because of its medium.
LEMMA TakeSlotsKeeps ==
  ASSUME QueueInv, TakeSlots
  PROVE  QueueInv'
<1>0. PICK s : s = Head(running)
  OBVIOUS
<1>1. /\ pc = "slots" /\ local.doomed = <<>> /\ running # <<>>
      /\ running' = Tail(running) /\ UNCHANGED <<waiting, status, pc>>
      /\ AllocateSlots(s, CompletionTokens(s))
      /\ \/ local' = [local EXCEPT !.doomed = <<s>>]
         \/ local' = [local EXCEPT !.kept = Append(local.kept, s)]
  BY <1>0 DEF TakeSlots, At
<1>2. KV!Live' = KV!Live /\ (pool.ok \/ pool' = pool)
  BY <1>1, AllocationKeepsEntries
<1>3. /\ running \in Seq(Req) /\ IsInjective(running)
      /\ local.kept \in Seq(Req) /\ IsInjective(local.kept)
  BY QueueSets DEF QueueInv, Types, QueueTypes, NoneDoubled
<1>4. s \in Runs /\ running' \in Seq(Req) /\ IsInjective(running') /\ Runs' = Runs \ {s}
  BY <1>0, <1>1, <1>3, TailKeeps DEF Runs
<1>5. s \in Req /\ s \notin Kept /\ s \notin SetAside /\ s \notin Waits /\ s \notin Again
  BY <1>4, QueueSets DEF QueueInv, Types, Apart, Holders
<1>6. Increasing(running') /\ \A t \in Runs' : s < t
  <2>1. Increasing(running) /\ NumSeqs \in Nat /\ running \in Seq(1..NumSeqs)
    BY <1>1, <1>3, SchedulerAssumption DEF QueueInv, OldestFirst, Req
  <2> QED BY <1>0, <1>1, <2>1, IncreasingEnds DEF Runs
<1>7. Doomed = {} /\ Again = {}
  BY <1>1, LocalsEmpty
<1>8. Scheduled = {} /\ local.scheduled = <<>>
  BY <1>1, EmptyQueue DEF QueueInv, Phases, Scheduled
<1>9. CASE local' = [local EXCEPT !.doomed = <<s>>]
  <2>1. <<s>> \in Seq(Req) /\ ToSet(<<s>>) = {s} /\ IsInjective(<<s>>)
    BY <1>5, SingletonQueue
  <2>2. /\ local' \in [scheduled : Seq(Req), again : Seq(Req), kept : Seq(Req), prompts : Seq(Req),
                       doomed : Seq(Req)]
        /\ local'.scheduled = local.scheduled /\ local'.again = local.again
        /\ local'.kept = local.kept /\ local'.prompts = local.prompts
        /\ local'.doomed = <<s>>
    BY <1>9, <2>1 DEF QueueInv, Types, QueueTypes
  <2>3. /\ Waits' = Waits /\ Again' = Again /\ Kept' = Kept /\ SetAside' = SetAside
        /\ Doomed' = {s} /\ Scheduled' = {}
    BY <1>1, <1>8, <2>1, <2>2 DEF Waits, Again, Kept, SetAside, Doomed, Scheduled
  <2>4. Holders' = Holders /\ Members' = Members
    BY <1>4, <1>7, <2>3 DEF Holders, Members
  <2>5. Types'
    BY <1>1, <1>4, <2>2 DEF QueueInv, Types, QueueTypes
  <2>6. NoneDoubled'
    BY <1>1, <1>4, <2>1, <2>2 DEF QueueInv, NoneDoubled
  <2>7. Apart'
    <3>1. Waits' \cap (Again' \cup Holders') = {} /\ Again' \cap Holders' = {}
      BY <2>3, <2>4 DEF QueueInv, Apart
    <3> QED BY <1>4, <1>5, <2>3, <3>1 DEF QueueInv, Apart
  <2>8. Phases' /\ Candidates'
    BY <1>1, <2>2, <2>3 DEF QueueInv, Phases, Candidates
  <2>9. OldestFirst'
    BY <1>1, <1>4, <1>6, <2>3 DEF QueueInv, OldestFirst
  <2>10. Bounded'
    BY <1>4, <2>3, FewerStayBounded
  <2>11. StatusAgrees' /\ EntriesAgree'
    BY <1>1, <1>2, <2>4 DEF QueueInv, StatusAgrees, IsFinished, EntriesAgree
  <2> QED BY <2>5, <2>6, <2>7, <2>8, <2>9, <2>10, <2>11 DEF QueueInv
<1>10. CASE local' = [local EXCEPT !.kept = Append(local.kept, s)]
  <2>1. /\ Append(local.kept, s) \in Seq(Req) /\ IsInjective(Append(local.kept, s))
        /\ ToSet(Append(local.kept, s)) = Kept \cup {s}
    BY <1>3, <1>5, AppendKeeps DEF Kept
  <2>2. /\ local' \in [scheduled : Seq(Req), again : Seq(Req), kept : Seq(Req), prompts : Seq(Req),
                       doomed : Seq(Req)]
        /\ local'.scheduled = local.scheduled /\ local'.again = local.again
        /\ local'.kept = Append(local.kept, s) /\ local'.prompts = local.prompts
        /\ local'.doomed = <<>>
    BY <1>1, <1>10, <2>1 DEF QueueInv, Types, QueueTypes
  <2>3. /\ Waits' = Waits /\ Again' = Again /\ Kept' = Kept \cup {s} /\ SetAside' = SetAside
        /\ Doomed' = {} /\ Scheduled' = {}
    BY <1>1, <1>8, <2>1, <2>2, EmptyQueue DEF Waits, Again, Kept, SetAside, Doomed, Scheduled
  <2>4. Holders' = Holders /\ Members' = Members
    BY <1>4, <1>7, <2>3 DEF Holders, Members
  <2>5. Types'
    BY <1>1, <1>4, <2>2 DEF QueueInv, Types, QueueTypes
  <2>6. NoneDoubled'
    BY <1>1, <1>4, <2>1, <2>2, EmptyQueue DEF QueueInv, NoneDoubled
  <2>7. Apart'
    <3>1. Waits' \cap (Again' \cup Holders') = {} /\ Again' \cap Holders' = {}
      BY <2>3, <2>4 DEF QueueInv, Apart
    <3> QED BY <1>4, <1>5, <2>3, <3>1 DEF QueueInv, Apart
  <2>8. Phases' /\ Candidates'
    BY <1>1, <2>2, <2>3 DEF QueueInv, Phases, Candidates
  <2>9. OldestFirst'
    BY <1>1, <1>4, <1>6, <2>3 DEF QueueInv, OldestFirst
  <2>10. Bounded'
    BY <1>4, <2>3, FewerStayBounded
  <2>11. StatusAgrees' /\ EntriesAgree'
    BY <1>1, <1>2, <2>4 DEF QueueInv, StatusAgrees, IsFinished, EntriesAgree
  <2> QED BY <2>5, <2>6, <2>7, <2>8, <2>9, <2>10, <2>11 DEF QueueInv
<1> QED BY <1>1, <1>9, <1>10

\* The youngest completion goes for want of slots.
LEMMA PreemptForSlotsKeeps ==
  ASSUME QueueInv, PreemptForSlots
  PROVE  QueueInv'
<1>0. PICK s : s = Last(running)
  OBVIOUS
<1>1. /\ pc = "slots" /\ local.doomed = <<>> /\ running # <<>>
      /\ running' = Front(running) /\ UNCHANGED <<waiting, status, pc, pool, reqs>>
      /\ local' = [local EXCEPT !.doomed = <<s>>]
  BY <1>0 DEF PreemptForSlots, At, kvVars
<1>2. running \in Seq(Req) /\ IsInjective(running)
  BY QueueSets DEF QueueInv, Types, QueueTypes, NoneDoubled
<1>3. s \in Runs /\ running' \in Seq(Req) /\ IsInjective(running') /\ Runs' = Runs \ {s}
  BY <1>0, <1>1, <1>2, FrontKeeps DEF Runs
<1>4. s \in Req /\ s \notin Kept /\ s \notin SetAside /\ s \notin Waits /\ s \notin Again
  BY <1>3, QueueSets DEF QueueInv, Types, Apart, Holders
<1>5. Increasing(running')
  <2>1. Increasing(running) /\ NumSeqs \in Nat /\ running \in Seq(1..NumSeqs)
    BY <1>1, <1>2, SchedulerAssumption DEF QueueInv, OldestFirst, Req
  <2> QED BY <1>1, <2>1, IncreasingEnds
<1>6. Doomed = {} /\ Again = {}
  BY <1>1, LocalsEmpty
<1>7. Scheduled = {} /\ local.scheduled = <<>>
  BY <1>1, EmptyQueue DEF QueueInv, Phases, Scheduled
<1>8. <<s>> \in Seq(Req) /\ ToSet(<<s>>) = {s} /\ IsInjective(<<s>>)
  BY <1>4, SingletonQueue
<1>9. /\ local' \in [scheduled : Seq(Req), again : Seq(Req), kept : Seq(Req), prompts : Seq(Req),
                     doomed : Seq(Req)]
      /\ local'.scheduled = local.scheduled /\ local'.again = local.again
      /\ local'.kept = local.kept /\ local'.prompts = local.prompts
      /\ local'.doomed = <<s>>
  BY <1>1, <1>8 DEF QueueInv, Types, QueueTypes
<1>10. /\ Waits' = Waits /\ Again' = Again /\ Kept' = Kept /\ SetAside' = SetAside
       /\ Doomed' = {s} /\ Scheduled' = {}
  BY <1>1, <1>7, <1>8, <1>9 DEF Waits, Again, Kept, SetAside, Doomed, Scheduled
<1>11. Holders' = Holders /\ Members' = Members
  BY <1>3, <1>6, <1>10 DEF Holders, Members
<1>12. Types'
  BY <1>1, <1>3, <1>9 DEF QueueInv, Types, QueueTypes
<1>13. NoneDoubled'
  BY <1>1, <1>3, <1>8, <1>9 DEF QueueInv, NoneDoubled
<1>14. Apart'
  <2>1. Waits' \cap (Again' \cup Holders') = {} /\ Again' \cap Holders' = {}
    BY <1>10, <1>11 DEF QueueInv, Apart
  <2> QED BY <1>3, <1>4, <1>10, <2>1 DEF QueueInv, Apart
<1>15. Phases' /\ Candidates'
  BY <1>1, <1>9, <1>10 DEF QueueInv, Phases, Candidates
<1>16. OldestFirst'
  BY <1>1, <1>3, <1>5, <1>10 DEF QueueInv, OldestFirst
<1>17. Bounded'
  BY <1>3, <1>10, FewerStayBounded
<1>18. StatusAgrees' /\ EntriesAgree'
  BY <1>1, <1>11 DEF QueueInv, StatusAgrees, IsFinished, EntriesAgree, KV!Live
<1> QED BY <1>12, <1>13, <1>14, <1>15, <1>16, <1>17, <1>18 DEF QueueInv

\* The completions outside the bucket of the oldest one go.
LEMMA EnforceCompatibilityKeeps ==
  ASSUME QueueInv, EnforceCompatibility
  PROVE  QueueInv'
<1>1. PICK B : /\ pc = "slots" /\ pc' = "settle" /\ local.doomed = <<>> /\ running = <<>>
               /\ UNCHANGED <<waiting, running, status, pool, reqs>>
               /\ local' = [local EXCEPT !.kept = Keep(local.kept, B),
                                         !.doomed = Reverse(Dropping(local.kept, B))]
  BY DEF EnforceCompatibility, At, kvVars
<1>2. local.kept \in Seq(Req) /\ IsInjective(local.kept)
  BY QueueSets DEF QueueInv, Types, NoneDoubled
<1>3. PICK k \in Seq(Req) : /\ k = Keep(local.kept, B) /\ ToSet(k) = Kept \cap B /\ IsInjective(k)
  BY <1>2, KeepProperties DEF Kept
<1>4. PICK d \in Seq(Req) : /\ d = Dropping(local.kept, B) /\ ToSet(d) = Kept \ B /\ IsInjective(d)
  BY <1>2, DroppingKeeps DEF Kept
<1>5. PICK r \in Seq(Req) : /\ r = Reverse(d) /\ ToSet(r) = Kept \ B /\ IsInjective(r)
  BY <1>4, ReverseKeeps
<1>6. /\ local' \in [scheduled : Seq(Req), again : Seq(Req), kept : Seq(Req), prompts : Seq(Req),
                     doomed : Seq(Req)]
      /\ local'.scheduled = local.scheduled /\ local'.again = local.again
      /\ local'.kept = k /\ local'.prompts = local.prompts
      /\ local'.doomed = r
  BY <1>1, <1>3, <1>4, <1>5 DEF QueueInv, Types, QueueTypes
<1>7. Doomed = {} /\ Again = {}
  BY <1>1, LocalsEmpty
<1>8. /\ Waits' = Waits /\ Again' = Again /\ Runs' = Runs /\ Kept' = Kept \cap B
      /\ SetAside' = SetAside /\ Doomed' = Kept \ B /\ Scheduled' = Scheduled
  BY <1>1, <1>3, <1>5, <1>6 DEF Waits, Again, Runs, Kept, SetAside, Doomed, Scheduled
<1>9. Holders' = Holders /\ Members' = Members
  BY <1>7, <1>8 DEF Holders, Members
<1>10. Types'
  BY <1>1, <1>6 DEF QueueInv, Types, QueueTypes, Places
<1>11. NoneDoubled'
  BY <1>1, <1>3, <1>5, <1>6 DEF QueueInv, NoneDoubled
<1>12. Apart'
  <2>1. Waits' \cap (Again' \cup Holders') = {} /\ Again' \cap Holders' = {}
    BY <1>8, <1>9 DEF QueueInv, Apart
  <2> QED BY <1>8, <2>1 DEF QueueInv, Apart
<1>13. Phases' /\ OldestFirst'
  BY <1>1, <1>6 DEF QueueInv, Phases, OldestFirst
<1>14. Candidates'
  BY <1>8 DEF QueueInv, Candidates
<1>15. Bounded'
  BY <1>8, FewerStayBounded
<1>16. StatusAgrees' /\ EntriesAgree'
  BY <1>1, <1>9 DEF QueueInv, StatusAgrees, IsFinished, EntriesAgree, KV!Live
<1> QED BY <1>10, <1>11, <1>12, <1>13, <1>14, <1>15, <1>16 DEF QueueInv

\* The completions that are left run, or all that run is terminated.
LEMMA SettleKeeps ==
  ASSUME QueueInv, Settle
  PROVE  QueueInv'
<1>1. /\ pc = "settle" /\ local.doomed = <<>>
      /\ UNCHANGED <<waiting, pool, reqs>>
  BY DEF Settle, At, kvVars
<1>2. /\ local.kept \in Seq(Req) /\ IsInjective(local.kept)
      /\ local.prompts \in Seq(Req) /\ IsInjective(local.prompts)
  BY QueueSets DEF QueueInv, Types, NoneDoubled
<1>3. Doomed = {} /\ Again = {} /\ Runs = {}
  BY <1>1, LocalsEmpty
<1>4. Kept \subseteq Req /\ SetAside \subseteq Req /\ Waits \subseteq Req /\ Kept \cap SetAside = {}
  BY QueueSets DEF QueueInv, Types, Apart
<1>5. Scheduled = {} /\ local.scheduled = <<>>
  BY <1>1, EmptyQueue DEF QueueInv, Phases, Scheduled
<1>6. ASSUME NEW S, NEW v \in Statuses, status' = SetStatus(S, v)
      PROVE  /\ status' \in [Req -> Statuses]
             /\ \A s \in Req : status'[s] = IF s \in S THEN v ELSE status[s]
  BY <1>6 DEF SetStatus, QueueInv, Types
<1>7. CASE terminate
  <2>1. /\ running' = local.kept \o local.prompts
        /\ status' = SetStatus(Runs', "Done") /\ local' = NoLocals /\ pc' = "idle"
    BY <1>7 DEF Settle, Runs
  <2>2. PICK r \in Seq(Req) : r = local.kept \o local.prompts
    BY <1>2, ConcatProperties
  <2>3. ToSet(r) = Kept \cup SetAside /\ IsInjective(r)
    BY <1>2, <1>4, <2>2, ConcatIsUnion, ConcatInjective DEF Kept, SetAside
  <2>4. running' \in Seq(Req) /\ IsInjective(running') /\ Runs' = Kept \cup SetAside
    BY <2>1, <2>2, <2>3 DEF Runs
  <2>5. /\ local' \in [scheduled : Seq(Req), again : Seq(Req), kept : Seq(Req), prompts : Seq(Req),
                       doomed : Seq(Req)]
        /\ local'.scheduled = <<>> /\ local'.again = <<>> /\ local'.kept = <<>>
        /\ local'.prompts = <<>> /\ local'.doomed = <<>>
    BY <2>1, EmptyQueue DEF NoLocals
  <2>6. /\ Waits' = Waits /\ Again' = {} /\ Kept' = {} /\ SetAside' = {} /\ Doomed' = {}
        /\ Scheduled' = {}
    BY <1>1, <2>5, EmptyQueue DEF Waits, Again, Kept, SetAside, Doomed, Scheduled
  <2>7. Holders' = Holders /\ Members' = Members
    BY <1>3, <2>4, <2>6 DEF Holders, Members
  <2>8. /\ status' \in [Req -> Statuses]
        /\ \A s \in Req : status'[s] = IF s \in Runs' THEN "Done" ELSE status[s]
    BY <1>6, <2>1 DEF Statuses, Finished
  <2>9. Types'
    BY <1>1, <2>1, <2>4, <2>5, <2>8 DEF QueueInv, Types, QueueTypes, Places
  <2>10. NoneDoubled'
    BY <1>1, <2>4, <2>5, EmptyQueue DEF QueueInv, NoneDoubled
  <2>11. Apart'
    <3>1. Waits' \cap (Again' \cup Holders') = {} /\ Again' \cap Holders' = {}
      BY <2>6, <2>7 DEF QueueInv, Apart
    <3> QED BY <2>6, <3>1 DEF Apart
  <2>12. Phases' /\ OldestFirst'
    BY <2>1, <2>5 DEF Phases, OldestFirst
  <2>13. Candidates'
    BY <2>6 DEF Candidates
  <2>14. Bounded'
    BY <2>4, <2>6, FewerStayBounded
  <2>15. StatusAgrees'
    <3>1. Members \subseteq Req
      BY <1>3, <1>4 DEF Members, Holders
    <3>2. "Done" \in Finished /\ "Done" # "Absent"
      BY DEF Finished
    <3> QED BY <2>1, <2>7, <2>8, <3>1, <3>2 DEF QueueInv, StatusAgrees
  <2>16. EntriesAgree'
    BY <1>1, <2>7 DEF QueueInv, EntriesAgree, KV!Live
  <2> QED BY <2>9, <2>10, <2>11, <2>12, <2>13, <2>14, <2>15, <2>16 DEF QueueInv
<1>8. CASE ~terminate
  <2>1. /\ running' = local.kept
        /\ status' = SetStatus(Kept, "RunningCompletion")
        /\ local' = [local EXCEPT !.kept = <<>>] /\ pc' = "publish"
    BY <1>8 DEF Settle, Kept
  <2>2. running' \in Seq(Req) /\ IsInjective(running') /\ Runs' = Kept
    BY <1>2, <2>1 DEF Runs, Kept
  <2>3. /\ local' \in [scheduled : Seq(Req), again : Seq(Req), kept : Seq(Req), prompts : Seq(Req),
                       doomed : Seq(Req)]
        /\ local'.scheduled = <<>> /\ local'.again = local.again /\ local'.kept = <<>>
        /\ local'.prompts = local.prompts /\ local'.doomed = <<>>
    BY <1>1, <1>5, <2>1, EmptyQueue DEF QueueInv, Types, QueueTypes
  <2>4. /\ Waits' = Waits /\ Again' = {} /\ Kept' = {} /\ SetAside' = SetAside /\ Doomed' = {}
        /\ Scheduled' = {}
    BY <1>1, <1>3, <2>3, EmptyQueue DEF Waits, Again, Kept, SetAside, Doomed, Scheduled
  <2>5. Holders' = Holders /\ Members' = Members
    BY <1>3, <2>2, <2>4 DEF Holders, Members
  <2>6. /\ status' \in [Req -> Statuses]
        /\ \A s \in Req : status'[s] = IF s \in Kept THEN "RunningCompletion" ELSE status[s]
    BY <1>6, <2>1 DEF Statuses
  <2>7. Types'
    BY <1>1, <2>1, <2>2, <2>3, <2>6 DEF QueueInv, Types, QueueTypes, Places
  <2>8. NoneDoubled'
    BY <1>1, <2>2, <2>3, EmptyQueue DEF QueueInv, NoneDoubled
  <2>9. Apart'
    <3>1. Waits' \cap (Again' \cup Holders') = {} /\ Again' \cap Holders' = {}
      BY <2>4, <2>5 DEF QueueInv, Apart
    <3> QED BY <1>4, <2>2, <2>4, <3>1 DEF Apart
  <2>10. Phases' /\ OldestFirst'
    <3>1. local'.again = <<>>
      BY <1>1, <2>3 DEF QueueInv, Phases
    <3> QED BY <2>1, <2>3, <3>1 DEF Phases, OldestFirst
  <2>11. Candidates'
    BY <2>4 DEF Candidates
  <2>12. Bounded'
    BY <2>2, <2>4, FewerStayBounded
  <2>13. StatusAgrees'
    <3>1. Members \subseteq Req /\ Kept \subseteq Members
      BY <1>3, <1>4 DEF Members, Holders
    <3>2. "RunningCompletion" \notin Finished /\ "RunningCompletion" # "Absent"
      BY DEF Finished
    <3> QED BY <1>1, <2>1, <2>5, <2>6, <3>1, <3>2 DEF QueueInv, StatusAgrees, IsFinished
  <2>14. EntriesAgree'
    BY <1>1, <2>5 DEF QueueInv, EntriesAgree, KV!Live
  <2> QED BY <2>7, <2>8, <2>9, <2>10, <2>11, <2>12, <2>13, <2>14 DEF QueueInv
<1> QED BY <1>7, <1>8

\* The completion batch is handed to the engine and the prompts rejoin the queue.
LEMMA SelectCompletionBatchKeeps ==
  ASSUME QueueInv, SelectCompletionBatch
  PROVE  QueueInv'
<1>1. /\ pc = "publish" /\ local.doomed = <<>> /\ pc' = "step"
      /\ running' = running \o local.prompts /\ local' = NoLocals
      /\ UNCHANGED <<waiting, status, pool, reqs>>
  BY DEF SelectCompletionBatch, At, kvVars
<1>2. /\ running \in Seq(Req) /\ IsInjective(running)
      /\ local.prompts \in Seq(Req) /\ IsInjective(local.prompts)
  BY QueueSets DEF QueueInv, Types, QueueTypes, NoneDoubled
<1>3. Doomed = {} /\ Again = {} /\ Kept = {}
  BY <1>1, LocalsEmpty
<1>4. Runs \cap SetAside = {}
  BY DEF QueueInv, Apart
<1>5. PICK r \in Seq(Req) : r = running \o local.prompts
  BY <1>2, ConcatProperties
<1>6. ToSet(r) = Runs \cup SetAside /\ IsInjective(r)
  BY <1>2, <1>4, <1>5, ConcatIsUnion, ConcatInjective DEF Runs, SetAside
<1>7. running' \in Seq(Req) /\ IsInjective(running') /\ Runs' = Runs \cup SetAside
  BY <1>1, <1>5, <1>6 DEF Runs
<1>8. /\ local' \in [scheduled : Seq(Req), again : Seq(Req), kept : Seq(Req), prompts : Seq(Req),
                     doomed : Seq(Req)]
      /\ local'.scheduled = <<>> /\ local'.again = <<>> /\ local'.kept = <<>>
      /\ local'.prompts = <<>> /\ local'.doomed = <<>>
  BY <1>1, EmptyQueue DEF NoLocals
<1>9. /\ Waits' = Waits /\ Again' = {} /\ Kept' = {} /\ SetAside' = {} /\ Doomed' = {}
      /\ Scheduled' = {}
  BY <1>1, <1>8, EmptyQueue DEF Waits, Again, Kept, SetAside, Doomed, Scheduled
<1>10. Holders' = Holders /\ Members' = Members
  BY <1>3, <1>7, <1>9 DEF Holders, Members
<1>11. Types'
  BY <1>1, <1>7, <1>8 DEF QueueInv, Types, QueueTypes, Places
<1>12. NoneDoubled'
  BY <1>1, <1>7, <1>8, EmptyQueue DEF QueueInv, NoneDoubled
<1>13. Apart'
  <2>1. Waits' \cap (Again' \cup Holders') = {} /\ Again' \cap Holders' = {}
    BY <1>9, <1>10 DEF QueueInv, Apart
  <2> QED BY <1>9, <2>1 DEF Apart
<1>14. Phases' /\ OldestFirst'
  BY <1>1, <1>8 DEF Phases, OldestFirst
<1>15. Candidates'
  BY <1>9 DEF Candidates
<1>16. Bounded'
  BY <1>7, <1>9, FewerStayBounded
<1>17. StatusAgrees' /\ EntriesAgree'
  BY <1>1, <1>10 DEF QueueInv, StatusAgrees, IsFinished, EntriesAgree, KV!Live
<1> QED BY <1>11, <1>12, <1>13, <1>14, <1>15, <1>16, <1>17 DEF QueueInv

-----------------------------------------------------------------------------
(* The invariant, and what it gives. *)

\* The invariant holds before the first sequence arrives.
LEMMA QueuesStart ==
  ASSUME Init
  PROVE  QueueInv
<1>1. /\ waiting = <<>> /\ running = <<>> /\ pc = "idle" /\ local = NoLocals
      /\ status = [s \in Req |-> "Absent"]
  BY DEF Init
<1>2. /\ local \in [scheduled : Seq(Req), again : Seq(Req), kept : Seq(Req), prompts : Seq(Req),
                    doomed : Seq(Req)]
      /\ local.scheduled = <<>> /\ local.again = <<>> /\ local.kept = <<>>
      /\ local.prompts = <<>> /\ local.doomed = <<>>
  BY <1>1, EmptyQueue DEF NoLocals
<1>3. /\ Waits = {} /\ Again = {} /\ Runs = {} /\ Kept = {} /\ SetAside = {} /\ Doomed = {}
      /\ Scheduled = {}
  BY <1>1, <1>2, EmptyQueue DEF Waits, Again, Runs, Kept, SetAside, Doomed, Scheduled
<1>4. Holders = {} /\ Members = {}
  BY <1>3 DEF Holders, Members
<1>5. KV!Live = {}
  BY DEF Init, KV!Init, KV!Live
<1>6. Types
  BY <1>1, <1>2, EmptyQueue DEF Types, QueueTypes, Places, Statuses
<1>7. NoneDoubled /\ Apart /\ Phases /\ Candidates /\ OldestFirst
  BY <1>1, <1>2, <1>3, <1>4, EmptyQueue DEF NoneDoubled, Apart, Phases, Candidates, OldestFirst
<1>8. StatusAgrees /\ EntriesAgree
  BY <1>1, <1>4, <1>5 DEF StatusAgrees, EntriesAgree
<1>9. Bounded
  <2>1. Cardinality({}) = 0 /\ MaxNumSeqs \in Nat
    BY FS_EmptySet, SchedulerAssumption
  <2> QED BY <1>3, <2>1 DEF Bounded
<1> QED BY <1>6, <1>7, <1>8, <1>9 DEF QueueInv

\* No step of the engine or of the environment breaks the invariant.
LEMMA QueuesStay ==
  ASSUME QueueInv, [Next]_vars
  PROVE  QueueInv'
<1>1. CASE AddSeq
  BY <1>1, AddSeqKeeps
<1>2. CASE CloseResponse \/ TerminateAll \/ RetainPromptPrefix
  BY <1>2, EnvironmentKeeps
<1>3. CASE StepFails
  BY <1>3, StepFailsKeeps
<1>4. CASE CancelClosed
  BY <1>4, CancelClosedKeeps
<1>5. CASE FreeFinished
  BY <1>5, FreeFinishedKeeps
<1>6. CASE StepSequence
  BY <1>6, StepSequenceKeeps
<1>7. CASE EndOfStep
  BY <1>7, EndOfStepKeeps
<1>8. CASE Schedule
  <2>1. CASE Preempt
    BY <2>1, PreemptKeeps
  <2>2. CASE BeginSchedule
    BY <2>2, BeginScheduleKeeps
  <2>3. CASE RejectTooLong
    BY <2>3, RejectTooLongKeeps
  <2>4. CASE DeferForMedia
    BY <2>4, DeferForMediaKeeps
  <2>5. CASE LookUp
    BY <2>5, LookUpKeeps
  <2>6. CASE Admit
    BY <2>6, AdmitKeeps
  <2>7. CASE NoRoom
    BY <2>7, NoRoomKeeps
  <2>8. CASE DoesNotFit
    BY <2>8, DoesNotFitKeeps
  <2>9. CASE MakeRoom
    BY <2>9, MakeRoomKeeps
  <2>10. CASE SelectPromptBatch
    BY <2>10, SelectPromptBatchKeeps
  <2>11. CASE NoPromptToRun
    BY <2>11, NoPromptToRunKeeps
  <2>12. CASE MaterializePromptChunk
    BY <2>12, MaterializePromptChunkKeeps
  <2>13. CASE PromptBatchReady
    BY <2>13, PromptBatchReadyKeeps
  <2>14. CASE BeginCompletion
    BY <2>14, BeginCompletionKeeps
  <2>15. CASE TakeSlots
    BY <2>15, TakeSlotsKeeps
  <2>16. CASE PreemptForSlots
    BY <2>16, PreemptForSlotsKeeps
  <2>17. CASE EnforceCompatibility
    BY <2>17, EnforceCompatibilityKeeps
  <2>18. CASE Settle
    BY <2>18, SettleKeeps
  <2>19. CASE PublishRunning
    BY <2>19, PublishRunningKeeps
  <2>20. CASE SelectCompletionBatch
    BY <2>20, SelectCompletionBatchKeeps
  <2> QED BY <1>8, <2>1, <2>2, <2>3, <2>4, <2>5, <2>6, <2>7, <2>8, <2>9, <2>10, <2>11, <2>12,
             <2>13, <2>14, <2>15, <2>16, <2>17, <2>18, <2>19, <2>20 DEF Schedule
<1>9. CASE UNCHANGED vars
  <2>1. UNCHANGED <<waiting, running, local, status, pc>> /\ UNCHANGED <<pool, reqs>>
    BY <1>9 DEF vars, kvVars
  <2>2. KV!Live' = KV!Live /\ pool'.ok = pool.ok
    BY <2>1 DEF KV!Live
  <2> QED BY <2>1, <2>2, PlainStep
<1> QED BY <1>1, <1>2, <1>3, <1>4, <1>5, <1>6, <1>7, <1>8, <1>9 DEF Next, Engine

\* schedule() keeps its queues, the states of the sequences and the KV entries
\* in agreement at each point where it gives up the manager's lock.
THEOREM QueuesAgree == Spec => []QueueInv
<1>1. Init => QueueInv
  BY QueuesStart
<1>2. QueueInv /\ [Next]_vars => QueueInv'
  BY QueuesStay
<1> QED BY <1>1, <1>2, PTL DEF Spec

\* Joining two queues that share nothing doubles nothing.
LEMMA JoinKeeps ==
  ASSUME NEW a \in Seq(Req), NEW b \in Seq(Req), IsInjective(a), IsInjective(b),
         ToSet(a) \cap ToSet(b) = {}
  PROVE  /\ a \o b \in Seq(Req) /\ IsInjective(a \o b)
         /\ ToSet(a \o b) = ToSet(a) \cup ToSet(b)
BY ConcatPositions, ConcatInjective, ConcatIsUnion

\* The queues one after the other have the members of all of them, each once.
LEMMA EverywhereIsMembers ==
  ASSUME QueueInv
  PROVE  ToSet(Everywhere) = Members /\ IsInjective(Everywhere)
<1>1. /\ waiting \in Seq(Req) /\ running \in Seq(Req) /\ local.again \in Seq(Req)
      /\ local.kept \in Seq(Req) /\ local.prompts \in Seq(Req) /\ local.doomed \in Seq(Req)
  BY QueueSets DEF QueueInv, Types, QueueTypes
<1>2. /\ IsInjective(waiting) /\ IsInjective(running) /\ IsInjective(local.again)
      /\ IsInjective(local.kept) /\ IsInjective(local.prompts) /\ IsInjective(local.doomed)
  BY DEF QueueInv, NoneDoubled
<1>3. PICK c1 \in Seq(Req) : /\ c1 = waiting \o local.again /\ IsInjective(c1)
                             /\ ToSet(c1) = Waits \cup Again
  <2>1. ToSet(waiting) \cap ToSet(local.again) = {}
    BY DEF QueueInv, Apart, Waits, Again
  <2> QED BY <1>1, <1>2, JoinKeeps, <2>1 DEF Waits, Again
<1>4. PICK c2 \in Seq(Req) : /\ c2 = c1 \o running /\ IsInjective(c2)
                             /\ ToSet(c2) = Waits \cup Again \cup Runs
  <2>1. ToSet(c1) \cap ToSet(running) = {}
    BY <1>3 DEF QueueInv, Apart, Holders, Runs
  <2>2. /\ c1 \o running \in Seq(Req) /\ IsInjective(c1 \o running)
        /\ ToSet(c1 \o running) = ToSet(c1) \cup ToSet(running)
    BY <1>1, <1>2, JoinKeeps, <1>3, <2>1, Zenon
  <2> QED BY <1>3, <2>2 DEF Runs
<1>5. PICK c3 \in Seq(Req) : /\ c3 = c2 \o local.kept /\ IsInjective(c3)
                             /\ ToSet(c3) = Waits \cup Again \cup Runs \cup Kept
  <2>1. ToSet(c2) \cap ToSet(local.kept) = {}
    BY <1>4 DEF QueueInv, Apart, Holders, Kept
  <2>2. /\ c2 \o local.kept \in Seq(Req) /\ IsInjective(c2 \o local.kept)
        /\ ToSet(c2 \o local.kept) = ToSet(c2) \cup ToSet(local.kept)
    BY <1>1, <1>2, JoinKeeps, <1>4, <2>1, Zenon
  <2> QED BY <1>4, <2>2 DEF Kept
<1>6. PICK c4 \in Seq(Req) : /\ c4 = c3 \o local.prompts /\ IsInjective(c4)
                             /\ ToSet(c4) = Waits \cup Again \cup Runs \cup Kept \cup SetAside
  <2>1. ToSet(c3) \cap ToSet(local.prompts) = {}
    BY <1>5 DEF QueueInv, Apart, Holders, SetAside
  <2>2. /\ c3 \o local.prompts \in Seq(Req) /\ IsInjective(c3 \o local.prompts)
        /\ ToSet(c3 \o local.prompts) = ToSet(c3) \cup ToSet(local.prompts)
    BY <1>1, <1>2, JoinKeeps, <1>5, <2>1, Zenon
  <2> QED BY <1>5, <2>2 DEF SetAside
<1>7. PICK c5 \in Seq(Req) : /\ c5 = c4 \o local.doomed /\ IsInjective(c5)
                             /\ ToSet(c5) = Waits \cup Again \cup Runs \cup Kept \cup SetAside \cup Doomed
  <2>1. ToSet(c4) \cap ToSet(local.doomed) = {}
    BY <1>6 DEF QueueInv, Apart, Holders, Doomed
  <2>2. /\ c4 \o local.doomed \in Seq(Req) /\ IsInjective(c4 \o local.doomed)
        /\ ToSet(c4 \o local.doomed) = ToSet(c4) \cup ToSet(local.doomed)
    BY <1>1, <1>2, JoinKeeps, <1>6, <2>1, Zenon
  <2> QED BY <1>6, <2>2 DEF Doomed
<1>8. Everywhere = c5
  BY <1>3, <1>4, <1>5, <1>6, <1>7 DEF Everywhere
<1> QED BY <1>7, <1>8 DEF Members, Holders

\* No sequence is lost or doubled between the queues and the local variables
\* of schedule(), and none that has left them keeps a KV entry, for any number
\* of sequences and whatever their lengths, media and limits.
THEOREM NoneIsLost == Spec => []NoSequenceLost
<1>1. ASSUME QueueInv PROVE NoSequenceLost
  <2>1. ToSet(Everywhere) = Members /\ IsInjective(Everywhere)
    BY <1>1, EverywhereIsMembers
  <2>2. KV!Live \subseteq Members
    BY <1>1 DEF QueueInv, EntriesAgree, Members
  <2> QED BY <1>1, <2>1, <2>2 DEF NoSequenceLost, QueueInv, StatusAgrees
<1> QED BY <1>1, QueuesAgree, PTL

\* For want of slots the completion phase never preempts a sequence while a
\* younger one keeps its slots or still waits for them.
THEOREM YoungestGoesFirst == Spec => PreemptsYoungestFirst
<1>1. ASSUME QueueInv, PreemptForSlots, NEW s \in ToSet(running \o local.kept)
      PROVE  s <= local'.doomed[1]
  <2>1. /\ running # <<>> /\ pc = "slots"
        /\ running \in Seq(Req) /\ local.kept \in Seq(Req) /\ IsInjective(running)
    BY <1>1, QueueSets DEF PreemptForSlots, At, QueueInv, Types, QueueTypes, NoneDoubled
  <2>2. PICK last : last = Last(running)
    OBVIOUS
  <2>3. local'.doomed[1] = last
    <3>1. local' = [local EXCEPT !.doomed = <<last>>]
      BY <1>1, <2>2 DEF PreemptForSlots
    <3>2. local'.doomed = <<last>>
      BY <1>1, <3>1 DEF QueueInv, Types, QueueTypes
    <3> QED BY <3>2
  <2>4. last \in Runs
    BY <2>1, <2>2, FrontKeeps DEF Runs
  <2>5. /\ Increasing(running) /\ \A x \in Kept, t \in Runs : x < t
        /\ NumSeqs \in Nat /\ running \in Seq(1..NumSeqs)
    BY <1>1, <2>1, SchedulerAssumption DEF QueueInv, OldestFirst, Req
  <2>6. s \in Runs \/ s \in Kept
    <3>1. ToSet(running \o local.kept) = ToSet(running) \cup ToSet(local.kept)
      BY <2>1, ConcatIsUnion, ZenonT(40)
    <3> QED BY <1>1, <3>1 DEF Runs, Kept
  <2>7. CASE s \in Runs
    BY <2>1, <2>2, <2>3, <2>5, <2>7, IncreasingEnds DEF Runs
  <2>8. CASE s \in Kept
    <3>1. s \in Nat /\ last \in Nat
      BY <1>1, <2>4, <2>8, QueueSets, SchedulerAssumption DEF QueueInv, Types, Req
    <3> QED BY <2>3, <2>4, <2>5, <2>8, <3>1
  <2> QED BY <2>6, <2>7, <2>8
<1>2. QueueInv /\ [Next]_vars =>
        [ pc = "slots" /\ PreemptForSlots =>
            \A s \in ToSet(running \o local.kept) : s <= local'.doomed[1] ]_vars
  BY <1>1
<1> QED BY <1>2, QueuesAgree, PTL DEF Spec, PreemptsYoungestFirst

-----------------------------------------------------------------------------
(* Sequences, blocks and batches. *)

\* schedule() is between the lookup of a prompt and its admission.
Deciding == pc \in {"allocate", "evict"}

\* schedule() works on the prompt that it has looked up, which fits in an
\* empty cache and has tokens left to compute.
LookupAgrees ==
    /\ lookup # KV!NoLookup <=> Deciding
    /\ Deciding => /\ lookup.req = {Head(waiting)} /\ lookup.chain = ChainOf[Head(waiting)]
                   /\ lookup.tokens = len[Head(waiting)] /\ len[Head(waiting)] <= Capacity
                   /\ Len(lookup.hit) * BlockSize < lookup.tokens

\* A sequence that has arrived has tokens.
Lengths == len \in [Req -> Nat] /\ \A s \in Req : status[s] # "Absent" => len[s] > 0

\* The tokens that the blocks of s have slots for.
Slots(s) == Len(reqs[s].block_ids) * BlockSize

\* The blocks that s has, and those that it has been promised.
Promised(s) == Len(reqs[s].block_ids) + IF s \in Visible THEN reqs[s].reserved_blocks ELSE 0

\* The cache knows the tokens of a sequence by their hashes; one that goes on has
\* a token to compute, and the blocks of a prompt are there or promised.
TokensAgree ==
    \A s \in KV!Live :
        /\ seqs[s].chain = ChainOf[s]
        /\ ~IsFinished(s) => seqs[s].computed < len[s]
        /\ status[s] = "RunningPrompt" => KV!DivCeil(len[s]) <= Promised(s)

\* s and t are of one medium where the pipeline needs that.
SameMedia(s, t) == UniformMedia => Media[s] = Media[t]

\* s and t may be decoded together.
Mates(s, t) == SameMedia(s, t) /\ (UniformCompletion => len[s] = len[t])

\* The candidates are prompts; the completions that passed have their slots
\* and, later, go together.
CompletionsAgree ==
    /\ \A s \in Scheduled : status[s] = "RunningPrompt"
    /\ \A s \in Kept : len[s] <= Slots(s)
    /\ \A s, t \in Kept : SameMedia(s, t)
    /\ pc = "settle" => \A s, t \in Kept : Mates(s, t)
    /\ pc = "publish" => /\ \A s \in Runs : status[s] = "RunningCompletion" /\ len[s] <= Slots(s)
                         /\ \A s, t \in Runs : Mates(s, t)

\* A batch has been chosen and has not ended.
Chosen == pc \in {"materialize", "ready", "step"}

\* The i-th row of the batch.
Row(i) == output.batch[i]

\* The types of the batch and of the fairness state.
BatchTypes ==
    /\ output \in [prompt : BOOLEAN, batch : Seq([id : Req, end : Nat]), next : Nat \ {0}]
    /\ turn = [decode_steps |-> turn.decode_steps, epoch |-> turn.epoch,
               next_prompt |-> turn.next_prompt, cursor |-> turn.cursor]
    /\ turn.cursor \in Nat
    /\ pc \in {"materialize", "ready"} => output.prompt
    /\ pc = "ready" => output.next = 1

\* The rows of a batch are running, and those that have yet to run have tokens
\* to compute and, once they are materialized, slots for them.
RowsAgree ==
    Chosen => \A i \in 1..Len(output.batch) :
        /\ Row(i).id \in Runs
        /\ pc # "step" \/ i >= output.next
           => /\ status[Row(i).id] = IF output.prompt THEN "RunningPrompt" ELSE "RunningCompletion"
              /\ seqs[Row(i).id].computed < Row(i).end /\ Row(i).end <= len[Row(i).id]
              /\ pc # "materialize" \/ i < output.next => Row(i).end <= Slots(Row(i).id)

\* No sequence has two rows.
RowsDistinct == \A i, j \in 1..Len(output.batch) : Row(i).id = Row(j).id => i = j

\* Rows i and j go together.
Uniform(i, j) ==
    /\ UniformMedia \/ (output.prompt /\ UniformPrompt) => Media[Row(i).id] = Media[Row(j).id]
    /\ output.prompt /\ UniformPrompt =>
           seqs[Row(i).id].computed = seqs[Row(j).id].computed /\ Row(i).end = Row(j).end
    /\ ~output.prompt /\ UniformCompletion => len[Row(i).id] = len[Row(j).id]

\* A batch that has not begun to run is uniform.
RowsUniform ==
    pc \in {"materialize", "ready"} \/ (pc = "step" /\ output.next = 1) =>
        \A i, j \in 1..Len(output.batch) : Uniform(i, j)

\* What the batch, the queues and the sequences owe each other.
BatchInv ==
    /\ LookupAgrees /\ Lengths /\ TokensAgree /\ CompletionsAgree
    /\ BatchTypes /\ RowsAgree /\ RowsDistinct /\ RowsUniform
    /\ OnlyTooLongIgnored

\* The inductive invariant: of the queues, of the manager and of the batch.
EngineInv == QueueInv /\ KV!ManagerInv /\ BatchInv

-----------------------------------------------------------------------------
(* What the critical sections of the manager do for the scheduler. *)

\* The sequences of S keep their tokens and lose neither slots nor promises.
GoesOn(S) ==
    \A t \in S : /\ seqs'[t] = seqs[t]
                 /\ Slots(t) \in Nat /\ Slots(t)' \in Nat /\ Slots(t)' >= Slots(t)
                 /\ Promised(t) \in Nat /\ Promised(t)' \in Nat /\ Promised(t)' >= Promised(t)

\* The types of what t holds.
HoldingFacts(t) ==
    /\ Slots(t) \in Nat /\ Promised(t) \in Nat /\ Len(reqs[t].block_ids) \in Nat
    /\ seqs[t].computed \in Nat /\ Computed(t) = seqs[t].computed /\ t \in Req

-----------------------------------------------------------------------------
(* What the scheduler relies on: each critical section of the manager keeps *)
(* the manager's invariant and does for the sequences what its name says.   *)

\* What is known between two critical sections.
FactsGiven ==
    KV!ManagerInv =>
        /\ pool.ok /\ ~pool.dirty
        /\ KV!Live \subseteq Req /\ DOMAIN seqs = KV!Live
        /\ total_reserved \in Nat /\ KV!NumFree(pool) \in Nat /\ total_reserved <= KV!NumFree(pool)
        /\ \A s \in KV!Live : reqs[s].reserved_blocks \in Nat /\ reqs[s].reserved_blocks <= total_reserved

\* The types of what a sequence holds.
HoldingGiven == KV!ManagerInv => \A t \in KV!Live : HoldingFacts(t)

\* Enough blocks for n tokens, and enough tokens in the blocks.
CeilGiven ==
    \A n, k \in Nat : KV!DivCeil(n) \in Nat /\ (KV!DivCeil(n) <= k <=> n <= k * BlockSize)

\* When nothing runs, every block can be had.
EmptyGiven ==
    KV!ManagerInv /\ KV!Live = {} => total_reserved = 0 /\ KV!NumFree(pool) = NumBlocks

\* A step that leaves the manager alone.
StillGiven ==
    KV!ManagerInv /\ UNCHANGED kvVars =>
        KV!ManagerInv' /\ KV!Live' = KV!Live /\ lookup' = lookup /\ GoesOn(KV!Live) /\ pool'.ok

\* free drops one sequence.
FreeGiven ==
    \A s \in Req : KV!ManagerInv /\ KV!Free(s) =>
        KV!ManagerInv' /\ KV!Live' = KV!Live \ {s} /\ lookup' = lookup /\ GoesOn(KV!Live')

\* cache_blocks changes what is published only.
CacheGiven ==
    \A s \in Req : KV!ManagerInv /\ KV!CacheBlocks(s) =>
        KV!ManagerInv' /\ KV!Live' = KV!Live /\ lookup' = lookup /\ GoesOn(KV!Live)

\* allocate_slots for a running sequence: it has the slots it asked for.
AllocateGiven ==
    \A s \in KV!Live, n \in Nat : KV!ManagerInv /\ AllocateSlots(s, n) =>
        /\ KV!ManagerInv' /\ KV!Live' = KV!Live /\ lookup' = lookup /\ GoesOn(KV!Live)
        /\ n <= Slots(s)'

\* A prefix lookup leaves a token to compute.
LookupGiven ==
    \A s \in Req, n \in Nat \ {0} : KV!ManagerInv /\ KV!GetComputedBlocks(s, ChainOf[s], n) =>
        /\ KV!ManagerInv' /\ KV!Live' = KV!Live /\ GoesOn(KV!Live)
        /\ lookup' # KV!NoLookup /\ lookup'.req = {s} /\ lookup'.chain = ChainOf[s]
        /\ lookup'.tokens = n /\ Len(lookup'.hit) * BlockSize < n

\* A lookup that is given up changes nothing for the sequences that run.
AbandonGiven ==
    KV!ManagerInv /\ KV!AbandonLookup =>
        KV!ManagerInv' /\ KV!Live' = KV!Live /\ GoesOn(KV!Live) /\ lookup' = KV!NoLookup

\* An admitted prompt has all its blocks or the promise of them.
AdmissionGiven ==
    \A s \in Req :
        KV!ManagerInv /\ (IF s \in Visible THEN KV!ReservePrompt(s) ELSE KV!AllocateNewRequest(s)) =>
            /\ KV!ManagerInv' /\ KV!Live' = KV!Live \cup {s} /\ s \notin KV!Live /\ GoesOn(KV!Live)
            /\ lookup' = KV!NoLookup
            /\ seqs'[s] = [chain |-> lookup.chain, computed |-> Len(lookup.hit) * BlockSize]
            /\ KV!DivCeil(lookup.tokens) <= Promised(s)'

\* A forward pass moves one sequence ahead.
ForwardGiven ==
    \A s \in Req, n \in Nat : KV!ManagerInv /\ KV!Forward(s, n, n) =>
        /\ KV!ManagerInv' /\ KV!Live' = KV!Live /\ lookup' = lookup /\ reqs' = reqs
        /\ GoesOn(KV!Live \ {s}) /\ s \in KV!Live
        /\ seqs'[s].computed = n /\ seqs'[s].chain = seqs[s].chain
        /\ Slots(s)' = Slots(s) /\ Promised(s)' = Promised(s)

\* All of it; ContractKept below proves it from the manager's theorems.
CacheContract ==
    /\ FactsGiven /\ HoldingGiven /\ HoldingGiven' /\ CeilGiven /\ EmptyGiven
    /\ StillGiven /\ FreeGiven /\ CacheGiven /\ AllocateGiven
    /\ LookupGiven /\ AbandonGiven /\ AdmissionGiven /\ ForwardGiven

\* The facts, applied.
LEMMA CacheFacts ==
  ASSUME CacheContract, KV!ManagerInv
  PROVE  /\ pool.ok /\ ~pool.dirty
         /\ KV!Live \subseteq Req /\ DOMAIN seqs = KV!Live
         /\ total_reserved \in Nat /\ KV!NumFree(pool) \in Nat /\ total_reserved <= KV!NumFree(pool)
         /\ \A s \in KV!Live : reqs[s].reserved_blocks \in Nat /\ reqs[s].reserved_blocks <= total_reserved
BY DEF CacheContract, FactsGiven

\* The types of what a sequence holds, now.
LEMMA SlotFacts ==
  ASSUME CacheContract
  PROVE  KV!ManagerInv => \A t \in KV!Live : HoldingFacts(t)
BY DEF CacheContract, HoldingGiven

\* and in the next state.
LEMMA SlotsNext ==
  ASSUME CacheContract
  PROVE  KV!ManagerInv' => (\A t \in KV!Live : HoldingFacts(t))'
BY DEF CacheContract, HoldingGiven

\* A number of tokens in blocks.
LEMMA BlocksCover ==
  ASSUME CacheContract, NEW n \in Nat, NEW k \in Nat
  PROVE  KV!DivCeil(n) \in Nat /\ (KV!DivCeil(n) <= k <=> n <= k * BlockSize)
BY DEF CacheContract, CeilGiven

\* No critical section.
LEMMA StillGoesOn ==
  ASSUME CacheContract, KV!ManagerInv, UNCHANGED kvVars
  PROVE  KV!ManagerInv' /\ KV!Live' = KV!Live /\ lookup' = lookup /\ GoesOn(KV!Live) /\ pool'.ok
BY DEF CacheContract, StillGiven

\* free, applied.
LEMMA FreeGoesOn ==
  ASSUME CacheContract, KV!ManagerInv, NEW s \in Req, KV!Free(s)
  PROVE  KV!ManagerInv' /\ KV!Live' = KV!Live \ {s} /\ lookup' = lookup /\ GoesOn(KV!Live')
BY DEF CacheContract, FreeGiven

\* cache_blocks, applied.
LEMMA CacheGoesOn ==
  ASSUME CacheContract, KV!ManagerInv, NEW s \in Req, KV!CacheBlocks(s)
  PROVE  KV!ManagerInv' /\ KV!Live' = KV!Live /\ lookup' = lookup /\ GoesOn(KV!Live)
BY DEF CacheContract, CacheGiven

\* allocate_slots, applied.
LEMMA AllocateGoesOn ==
  ASSUME CacheContract, KV!ManagerInv, NEW s \in KV!Live, NEW n \in Nat, AllocateSlots(s, n)
  PROVE  /\ KV!ManagerInv' /\ KV!Live' = KV!Live /\ lookup' = lookup /\ GoesOn(KV!Live)
         /\ n <= Slots(s)'
BY DEF CacheContract, AllocateGiven

\* get_computed_blocks, applied.
LEMMA LookupGoesOn ==
  ASSUME CacheContract, KV!ManagerInv, NEW s \in Req, NEW n \in Nat \ {0},
         KV!GetComputedBlocks(s, ChainOf[s], n)
  PROVE  /\ KV!ManagerInv' /\ KV!Live' = KV!Live /\ GoesOn(KV!Live)
         /\ lookup' # KV!NoLookup /\ lookup'.req = {s} /\ lookup'.chain = ChainOf[s]
         /\ lookup'.tokens = n /\ Len(lookup'.hit) * BlockSize < n
BY DEF CacheContract, LookupGiven

\* A lookup given up.
LEMMA AbandonGoesOn ==
  ASSUME CacheContract, KV!ManagerInv, KV!AbandonLookup
  PROVE  KV!ManagerInv' /\ KV!Live' = KV!Live /\ GoesOn(KV!Live) /\ lookup' = KV!NoLookup
BY DEF CacheContract, AbandonGiven

\* reserve_prompt and allocate_slots for a new prompt, applied.
LEMMA AdmissionGoesOn ==
  ASSUME CacheContract, KV!ManagerInv, NEW s \in Req,
         IF s \in Visible THEN KV!ReservePrompt(s) ELSE KV!AllocateNewRequest(s)
  PROVE  /\ KV!ManagerInv' /\ KV!Live' = KV!Live \cup {s} /\ s \notin KV!Live /\ GoesOn(KV!Live)
         /\ lookup' = KV!NoLookup
         /\ seqs'[s] = [chain |-> lookup.chain, computed |-> Len(lookup.hit) * BlockSize]
         /\ KV!DivCeil(lookup.tokens) <= Promised(s)'
BY DEF CacheContract, AdmissionGiven

\* A forward pass, applied.
LEMMA ForwardGoesOn ==
  ASSUME CacheContract, KV!ManagerInv, NEW s \in Req, NEW n \in Nat, KV!Forward(s, n, n)
  PROVE  /\ KV!ManagerInv' /\ KV!Live' = KV!Live /\ lookup' = lookup /\ reqs' = reqs
         /\ GoesOn(KV!Live \ {s}) /\ s \in KV!Live
         /\ seqs'[s].computed = n /\ seqs'[s].chain = seqs[s].chain
         /\ Slots(s)' = Slots(s) /\ Promised(s)' = Promised(s)
BY DEF CacheContract, ForwardGiven

\* The manager's Cardinality is the one of FiniteSets.
LEMMA SameCardinality ==
  ASSUME NEW S
  PROVE  KV!Cardinality(S) = Cardinality(S)
BY DEF KV!Cardinality, Cardinality

-----------------------------------------------------------------------------
(* What a step leaves alone. *)

\* Every sequence that runs, or is set aside, has an entry.
LEMMA HoldersLive ==
  ASSUME CacheContract, EngineInv
  PROVE  /\ pool.ok /\ KV!Live = Holders /\ Runs \subseteq KV!Live /\ Kept \subseteq KV!Live
         /\ SetAside \subseteq KV!Live /\ Doomed \subseteq KV!Live /\ Scheduled \subseteq KV!Live
         /\ KV!Live \subseteq Req /\ status \in [Req -> Statuses] /\ len \in [Req -> Nat]
<1>1. pool.ok /\ KV!Live \subseteq Req
  BY CacheFacts DEF EngineInv
<1>2. KV!Live = Holders
  BY <1>1 DEF EngineInv, QueueInv, EntriesAgree
<1>3. Scheduled \subseteq Runs /\ status \in [Req -> Statuses] /\ len \in [Req -> Nat]
  BY DEF EngineInv, QueueInv, Candidates, Types, BatchInv, Lengths
<1> QED BY <1>1, <1>2, <1>3 DEF Holders

\* Tokens still agree when sequences go on, finish or leave.
LEMMA TokensGoOn ==
  ASSUME CacheContract, EngineInv, len' = len, KV!Live' \subseteq KV!Live, GoesOn(KV!Live'),
         \A s \in KV!Live' : /\ status'[s] = "RunningPrompt" => status[s] = "RunningPrompt"
                             /\ status'[s] \notin Finished => status[s] \notin Finished
  PROVE  TokensAgree'
<1> SUFFICES ASSUME NEW s \in KV!Live'
             PROVE  /\ seqs'[s].chain = ChainOf[s]
                    /\ status'[s] \notin Finished => seqs'[s].computed < len[s]
                    /\ status'[s] = "RunningPrompt" => KV!DivCeil(len[s]) <= Promised(s)'
  BY DEF TokensAgree, IsFinished
<1>1. /\ seqs[s].chain = ChainOf[s]
      /\ status[s] \notin Finished => seqs[s].computed < len[s]
      /\ status[s] = "RunningPrompt" => KV!DivCeil(len[s]) <= Promised(s)
  BY DEF EngineInv, BatchInv, TokensAgree, IsFinished
<1>2. seqs'[s] = seqs[s] /\ Promised(s) \in Nat /\ Promised(s)' \in Nat /\ Promised(s)' >= Promised(s)
  BY DEF GoesOn
<1>3. len[s] \in Nat
  BY HoldersLive
<1>4. PICK d \in Nat : d = KV!DivCeil(len[s])
  <2>1. 0 \in Nat
    OBVIOUS
  <2> QED BY <1>3, <2>1, BlocksCover
<1> QED BY <1>1, <1>2, <1>4

\* The completions that passed still agree when they go on.
LEMMA KeptGoOn ==
  ASSUME CacheContract, EngineInv, len' = len, Kept' \subseteq Kept, GoesOn(Kept'),
         \A s \in Scheduled' : status'[s] = "RunningPrompt",
         pc' = "settle" => pc = "settle",
         pc' = "publish" => /\ pc = "publish" /\ Runs' \subseteq Runs /\ GoesOn(Runs')
                            /\ \A s \in Runs' : status'[s] = status[s]
  PROVE  CompletionsAgree'
<1>0. CompletionsAgree
  BY DEF EngineInv, BatchInv
<1>1. \A s \in Kept' : len[s] <= Slots(s)'
  <2> SUFFICES ASSUME NEW s \in Kept' PROVE len[s] <= Slots(s)'
    OBVIOUS
  <2>1. len[s] \in Nat
    BY HoldersLive
  <2>2. len[s] <= Slots(s) /\ Slots(s) \in Nat /\ Slots(s)' \in Nat /\ Slots(s)' >= Slots(s)
    BY <1>0 DEF CompletionsAgree, GoesOn
  <2> QED BY <2>1, <2>2
<1>2. (\A s, t \in Kept : SameMedia(s, t))'
  BY <1>0 DEF CompletionsAgree, SameMedia
<1>3. (pc = "settle" => \A s, t \in Kept : Mates(s, t))'
  BY <1>0 DEF CompletionsAgree, SameMedia, Mates
<1>4. ASSUME pc' = "publish"
      PROVE  /\ \A s \in Runs' : status'[s] = "RunningCompletion" /\ len[s] <= Slots(s)'
             /\ (\A s, t \in Runs : Mates(s, t))'
  <2>1. /\ \A s \in Runs : status[s] = "RunningCompletion" /\ len[s] <= Slots(s)
        /\ \A s, t \in Runs : Mates(s, t)
    BY <1>0, <1>4 DEF CompletionsAgree
  <2>2. ASSUME NEW s \in Runs' PROVE len[s] <= Slots(s)'
    <3>1. len[s] \in Nat
      BY <1>4, <2>2, HoldersLive
    <3>2. len[s] <= Slots(s) /\ Slots(s) \in Nat /\ Slots(s)' \in Nat /\ Slots(s)' >= Slots(s)
      BY <1>4, <2>1, <2>2 DEF GoesOn
    <3> QED BY <3>1, <3>2
  <2>3. (\A s, t \in Runs : Mates(s, t))'
    BY <1>4, <2>1 DEF Mates, SameMedia
  <2> QED BY <1>4, <2>1, <2>2, <2>3
<1> QED BY <1>1, <1>2, <1>3, <1>4 DEF CompletionsAgree

\* Between batches.
LEMMA RowsIdle ==
  ASSUME CacheContract, EngineInv, output' = output \/ output' = NoOutput,
         turn' = turn \/ \E v : turn' = [turn EXCEPT !.epoch = v],
         ~Chosen'
  PROVE  BatchTypes' /\ RowsAgree' /\ RowsDistinct' /\ RowsUniform'
<1>0. BatchTypes /\ RowsDistinct
  BY DEF EngineInv, BatchInv
<1>1. RowsAgree' /\ RowsUniform'
  BY DEF Chosen, RowsAgree, RowsUniform
<1>2. output' \in [prompt : BOOLEAN, batch : Seq([id : Req, end : Nat]), next : Nat \ {0}]
  <2>1. CASE output' = output
    BY <1>0, <2>1 DEF BatchTypes
  <2>2. CASE output' = NoOutput
    <3>1. FALSE \in BOOLEAN /\ <<>> \in Seq([id : Req, end : Nat]) /\ 1 \in Nat \ {0}
      OBVIOUS
    <3> QED BY <2>2, <3>1, Zenon DEF NoOutput
  <2> QED BY <2>1, <2>2
<1>3. RowsDistinct'
  <2>1. CASE output' = output
    BY <1>0, <2>1 DEF RowsDistinct, Row
  <2>2. CASE output' = NoOutput
    BY <2>2 DEF RowsDistinct, Row, NoOutput
  <2> QED BY <2>1, <2>2
<1>4. /\ turn' = [decode_steps |-> turn'.decode_steps, epoch |-> turn'.epoch,
                  next_prompt |-> turn'.next_prompt, cursor |-> turn'.cursor]
      /\ turn'.cursor \in Nat
  BY <1>0 DEF BatchTypes
<1>5. ~(pc' \in {"materialize", "ready"}) /\ pc' # "ready"
  BY DEF Chosen
<1> QED BY <1>1, <1>2, <1>3, <1>4, <1>5 DEF BatchTypes

\* The rows of a batch are running sequences.
LEMMA RowsRun ==
  ASSUME CacheContract, EngineInv, NEW i \in 1..Len(output.batch), Chosen
  PROVE  /\ Row(i).id \in Runs /\ Row(i).id \in KV!Live /\ Row(i).id \in Req /\ Row(i).end \in Nat
         /\ pc # "step" \/ i >= output.next =>
              /\ status[Row(i).id] = IF output.prompt THEN "RunningPrompt" ELSE "RunningCompletion"
              /\ seqs[Row(i).id].computed < Row(i).end /\ Row(i).end <= len[Row(i).id]
              /\ pc # "materialize" \/ i < output.next => Row(i).end <= Slots(Row(i).id)
<1>1. output.batch \in Seq([id : Req, end : Nat])
  BY DEF EngineInv, BatchInv, BatchTypes
<1>2. Row(i) \in [id : Req, end : Nat]
  BY <1>1, ElementOfSeq DEF Row
<1> QED BY <1>2, HoldersLive DEF EngineInv, BatchInv, RowsAgree

\* The rows still agree when their sequences go on.
LEMMA RowsGoOn ==
  ASSUME CacheContract, EngineInv, UNCHANGED <<output, turn, pc, len>>, Runs \subseteq Runs', GoesOn(Runs),
         \A s \in Runs : status'[s] = status[s]
  PROVE  BatchTypes' /\ RowsAgree' /\ RowsDistinct' /\ RowsUniform'
<1>0. BatchTypes /\ RowsDistinct /\ RowsUniform
  BY DEF EngineInv, BatchInv
<1>1. BatchTypes' /\ RowsDistinct'
  BY <1>0 DEF BatchTypes, RowsDistinct, Row
<1>2. RowsAgree'
  <2> SUFFICES ASSUME Chosen, NEW i \in 1..Len(output.batch)
               PROVE  \A s : s = Row(i).id =>
                        /\ s \in Runs'
                        /\ pc # "step" \/ i >= output.next =>
                             /\ status'[s] = IF output.prompt THEN "RunningPrompt" ELSE "RunningCompletion"
                             /\ seqs'[s].computed < Row(i).end /\ Row(i).end <= len[s]
                             /\ pc # "materialize" \/ i < output.next => Row(i).end <= Slots(s)'
    BY DEF RowsAgree, Chosen, Row
  <2>1. PICK s, e : s = Row(i).id /\ e = Row(i).end
    OBVIOUS
  <2>2. /\ s \in Runs /\ e \in Nat
        /\ pc # "step" \/ i >= output.next =>
             /\ status[s] = IF output.prompt THEN "RunningPrompt" ELSE "RunningCompletion"
             /\ seqs[s].computed < e /\ e <= len[s]
             /\ pc # "materialize" \/ i < output.next => e <= Slots(s)
    BY <2>1, RowsRun
  <2>3. seqs'[s] = seqs[s] /\ Slots(s) \in Nat /\ Slots(s)' \in Nat /\ Slots(s)' >= Slots(s)
    BY <2>2 DEF GoesOn
  <2>4. s \in Runs' /\ status'[s] = status[s]
    BY <2>2
  <2> QED BY <2>1, <2>2, <2>3, <2>4
<1>3. RowsUniform'
  <2> SUFFICES ASSUME pc \in {"materialize", "ready"} \/ (pc = "step" /\ output.next = 1),
                      NEW i \in 1..Len(output.batch), NEW j \in 1..Len(output.batch)
               PROVE  Uniform(i, j)'
    BY DEF RowsUniform
  <2>1. Uniform(i, j)
    BY <1>0 DEF RowsUniform
  <2>2. Row(i).id \in Runs /\ Row(j).id \in Runs
    BY RowsRun DEF Chosen
  <2>3. seqs'[Row(i).id] = seqs[Row(i).id] /\ seqs'[Row(j).id] = seqs[Row(j).id]
    BY <2>2 DEF GoesOn
  <2> QED BY <2>1, <2>3 DEF Uniform, Row
<1> QED BY <1>1, <1>2, <1>3

\* Lengths and rejections stay right when nothing arrives and only what is too long
\* is rejected.
LEMMA StatusSteady ==
  ASSUME CacheContract, EngineInv, len' = len,
         \A s \in Req : /\ status'[s] # "Absent" => status[s] # "Absent"
                        /\ status'[s] = "Ignored" => status[s] = "Ignored" \/ len[s] > Capacity
  PROVE  Lengths' /\ OnlyTooLongIgnored'
BY DEF EngineInv, BatchInv, Lengths, OnlyTooLongIgnored, Capacity

\* Outside of a decision there is no lookup.
LEMMA LookupIdle ==
  ASSUME CacheContract, EngineInv, ~Deciding', lookup' = KV!NoLookup \/ (lookup' = lookup /\ ~Deciding)
  PROVE  LookupAgrees'
BY DEF EngineInv, BatchInv, LookupAgrees, KV!NoLookup

\* A status that schedule() may give to a sequence that is not in a batch.
Settled ==
    \A s \in Req :
        /\ status'[s] # "Absent" => status[s] # "Absent"
        /\ status'[s] = "Ignored" => status[s] = "Ignored" \/ len[s] > Capacity
        /\ s \in KV!Live' => /\ status'[s] = "RunningPrompt" => status[s] = "RunningPrompt"
                             /\ status'[s] \notin Finished => status[s] \notin Finished

\* A step that leaves every status alone is such a step.
LEMMA SettledSame ==
  ASSUME status' = status
  PROVE  Settled
BY DEF Settled

\* Steps outside of a batch.
LEMMA QuietAgrees ==
  ASSUME CacheContract, EngineInv, QueueInv', KV!ManagerInv',
         ~Chosen', pc' \notin {"settle", "publish"}, output' = output \/ output' = NoOutput,
         turn' = turn \/ \E v : turn' = [turn EXCEPT !.epoch = v],
         len' = len, KV!Live' \subseteq KV!Live, GoesOn(KV!Live'), Settled, LookupAgrees',
         Kept' \subseteq Kept, \A s \in Scheduled' : status'[s] = "RunningPrompt"
  PROVE  BatchInv'
<1>1. KV!Live \subseteq Req /\ KV!Live' \subseteq Req
  BY HoldersLive
<1>2. Lengths' /\ OnlyTooLongIgnored'
  BY StatusSteady DEF Settled
<1>3. TokensAgree'
  BY <1>1, TokensGoOn DEF Settled
<1>4. BatchTypes' /\ RowsAgree' /\ RowsDistinct' /\ RowsUniform'
  BY RowsIdle
<1>5. Kept' \subseteq KV!Live'
  <2>1. pool'.ok
    BY DEF KV!ManagerInv, KV!PoolInv
  <2> QED BY <2>1 DEF QueueInv, EntriesAgree, Holders
<1>6. GoesOn(Kept')
  BY <1>5 DEF GoesOn
<1>7. CompletionsAgree'
  BY <1>6, KeptGoOn
<1> QED BY <1>2, <1>3, <1>4, <1>7 DEF BatchInv

\* The candidates of this round are still prompts.
LEMMA ScheduledStill ==
  ASSUME CacheContract, EngineInv, local' = local, \A s \in Runs : status'[s] = status[s]
  PROVE  (\A s \in Scheduled' : status'[s] = "RunningPrompt") /\ Kept' = Kept
<1>1. Scheduled' = Scheduled /\ Kept' = Kept
  BY DEF Scheduled, Kept
<1> QED BY <1>1 DEF EngineInv, QueueInv, Candidates, BatchInv, CompletionsAgree

\* A client that leaves, a termination request, and no step at all.
LEMMA EnvironmentAgrees ==
  ASSUME CacheContract, EngineInv, CloseResponse \/ TerminateAll \/ UNCHANGED vars
  PROVE  KV!ManagerInv' /\ BatchInv'
<1>1. UNCHANGED <<kvVars, waiting, running, status, len, turn, pc, local, output>>
  BY DEF CloseResponse, TerminateAll, vars
<1>2. KV!ManagerInv' /\ KV!Live' = KV!Live /\ lookup' = lookup /\ GoesOn(KV!Live)
  BY <1>1, StillGoesOn DEF EngineInv
<1>3. Runs' = Runs /\ Kept' = Kept /\ GoesOn(Runs) /\ GoesOn(Kept)
  BY <1>1, <1>2, HoldersLive DEF Runs, Kept, GoesOn
<1>4. \A s \in Scheduled' : status'[s] = "RunningPrompt"
  BY <1>1, ScheduledStill
<1>5. Lengths' /\ OnlyTooLongIgnored'
  BY <1>1, StatusSteady
<1>6. TokensAgree'
  BY <1>1, <1>2, TokensGoOn
<1>7. CompletionsAgree'
  BY <1>1, <1>3, <1>4, KeptGoOn
<1>8. BatchTypes' /\ RowsAgree' /\ RowsDistinct' /\ RowsUniform'
  BY <1>1, <1>3, RowsGoOn
<1>9. LookupAgrees'
  <2>1. len' = len /\ waiting' = waiting /\ lookup' = lookup /\ pc' = pc
    BY <1>1, <1>2
  <2> QED BY <2>1 DEF EngineInv, BatchInv, LookupAgrees, Deciding, Capacity, KV!NoLookup
<1> QED BY <1>2, <1>5, <1>6, <1>7, <1>8, <1>9 DEF BatchInv

\* A sequence arrives.
LEMMA AddSeqAgrees ==
  ASSUME CacheContract, EngineInv, QueueInv', AddSeq
  PROVE  KV!ManagerInv' /\ BatchInv'
<1>1. PICK s \in Req : /\ status[s] = "Absent" /\ status' = [status EXCEPT ![s] = "Waiting"]
                       /\ len' = [len EXCEPT ![s] = PromptLen[s]]
  BY DEF AddSeq
<1>2. UNCHANGED <<kvVars, running, turn, pc, local, output>> /\ pc = "idle"
  BY DEF AddSeq
<1>3. KV!ManagerInv' /\ KV!Live' = KV!Live /\ lookup' = lookup /\ GoesOn(KV!Live)
  BY <1>2, StillGoesOn DEF EngineInv
<1>4. s \notin KV!Live
  <2>1. s \notin Members
    BY <1>1 DEF EngineInv, QueueInv, StatusAgrees
  <2> QED BY <2>1, HoldersLive DEF Members
<1>5. \A t \in KV!Live : status'[t] = status[t] /\ len'[t] = len[t]
  BY <1>1, <1>4, HoldersLive
<1>6. PromptLen[s] \in Nat \ {0}
  BY SchedulerAssumption
<1>7. Lengths' /\ OnlyTooLongIgnored'
  <2>1. status \in [Req -> Statuses] /\ len \in [Req -> Nat]
    BY HoldersLive
  <2>2. Lengths'
    BY <1>1, <1>6, <2>1 DEF EngineInv, BatchInv, Lengths
  <2>3. OnlyTooLongIgnored'
    BY <1>1, <2>1 DEF EngineInv, BatchInv, OnlyTooLongIgnored, Capacity
  <2> QED BY <2>2, <2>3
<1>8. TokensAgree'
  <2> SUFFICES ASSUME NEW t \in KV!Live'
               PROVE  /\ seqs'[t].chain = ChainOf[t]
                      /\ status'[t] \notin Finished => seqs'[t].computed < len'[t]
                      /\ status'[t] = "RunningPrompt" => KV!DivCeil(len'[t]) <= Promised(t)'
    BY DEF TokensAgree, IsFinished
  <2>1. /\ seqs[t].chain = ChainOf[t]
        /\ status[t] \notin Finished => seqs[t].computed < len[t]
        /\ status[t] = "RunningPrompt" => KV!DivCeil(len[t]) <= Promised(t)
    BY <1>3 DEF EngineInv, BatchInv, TokensAgree, IsFinished
  <2>2. seqs' = seqs /\ Promised(t)' = Promised(t)
    BY <1>2 DEF Promised, kvVars
  <2> QED BY <1>3, <1>5, <2>1, <2>2
<1>9. CompletionsAgree'
  <2>1. Kept' = {} /\ Scheduled' = {}
    BY <1>2, EmptyQueue DEF EngineInv, QueueInv, Phases, Kept, Scheduled
  <2> QED BY <1>2, <2>1 DEF CompletionsAgree
<1>10. BatchTypes' /\ RowsAgree' /\ RowsDistinct' /\ RowsUniform'
  BY <1>2, RowsIdle DEF Chosen
<1>11. LookupAgrees'
  BY <1>2, <1>3, LookupIdle DEF Deciding
<1> QED BY <1>3, <1>7, <1>8, <1>9, <1>10, <1>11 DEF BatchInv

\* Outside of the admission and completion loops nothing is scheduled or kept.
LEMMA OutsideSchedule ==
  ASSUME CacheContract, EngineInv, pc \in {"idle", "reap", "step", "completion"}
  PROVE  Kept = {} /\ Scheduled = {} /\ ~Deciding
BY EmptyQueue DEF EngineInv, QueueInv, Phases, Kept, Scheduled, Deciding

\* Sequences whose client went away are cancelled.
LEMMA CancelClosedAgrees ==
  ASSUME CacheContract, EngineInv, QueueInv', CancelClosed
  PROVE  KV!ManagerInv' /\ BatchInv'
<1>1. UNCHANGED <<kvVars, len, turn, local, output>> /\ pc = "idle" /\ pc' = "reap"
  BY DEF CancelClosed
<1>2. KV!ManagerInv' /\ KV!Live' = KV!Live /\ lookup' = lookup /\ GoesOn(KV!Live)
  BY <1>1, StillGoesOn DEF EngineInv
<1>3. Kept' = Kept /\ Scheduled' = {}
  BY <1>1, OutsideSchedule DEF Kept, Scheduled
<1>4. Settled
  <2> DEFINE S == closed \cap ToSet(running \o waiting)
  <2>1. status' = SetStatus({s \in S : ~IsFinished(s)}, "Done")
    BY DEF CancelClosed
  <2>2. \A s \in Req : status'[s] = status[s] \/ (status[s] \notin Finished /\ status'[s] = "Done" /\ s \in S)
    BY <2>1 DEF SetStatus, IsFinished
  <2>3. S \subseteq Members
    <3>1. running \in Seq(Req) /\ waiting \in Seq(Req)
      BY DEF EngineInv, QueueInv, Types, QueueTypes
    <3> QED BY <3>1, ConcatIsUnion DEF Members, Holders, Runs, Waits
  <2>4. \A s \in S : status[s] # "Absent"
    BY <2>3 DEF EngineInv, QueueInv, StatusAgrees
  <2> HIDE DEF S
  <2> QED BY <2>2, <2>4 DEF Settled, Finished
<1>5. LookupAgrees'
  BY <1>1, <1>2, LookupIdle DEF Deciding
<1> QED BY <1>1, <1>2, <1>3, <1>4, <1>5, QuietAgrees DEF Chosen

\* The batch has run.
LEMMA EndOfStepAgrees ==
  ASSUME CacheContract, EngineInv, QueueInv', EndOfStep
  PROVE  KV!ManagerInv' /\ BatchInv'
<1>1. UNCHANGED <<kvVars, status, len, turn, local>> /\ pc = "step" /\ pc' = "idle" /\ output' = NoOutput
  BY DEF EndOfStep
<1>2. KV!ManagerInv' /\ KV!Live' = KV!Live /\ lookup' = lookup /\ GoesOn(KV!Live)
  BY <1>1, StillGoesOn DEF EngineInv
<1>3. Kept' = Kept /\ Scheduled' = {}
  BY <1>1, OutsideSchedule DEF Kept, Scheduled
<1>4. Settled
  BY <1>1, SettledSame
<1>5. LookupAgrees'
  BY <1>1, <1>2, LookupIdle DEF Deciding
<1> QED BY <1>1, <1>2, <1>3, <1>4, <1>5, QuietAgrees DEF Chosen

\* A failed step fails its whole batch, whose entries stay until they are reaped.
LEMMA StepFailsAgrees ==
  ASSUME CacheContract, EngineInv, QueueInv', StepFails
  PROVE  KV!ManagerInv' /\ BatchInv'
<1>1. /\ UNCHANGED <<kvVars, len, turn, local>> /\ pc = "step" /\ pc' = "idle" /\ output' = NoOutput
      /\ status' = SetStatus(Ids(output.batch), "Error")
  BY DEF StepFails
<1>2. KV!ManagerInv' /\ KV!Live' = KV!Live /\ lookup' = lookup /\ GoesOn(KV!Live)
  BY <1>1, StillGoesOn DEF EngineInv
<1>3. Kept' = Kept /\ Scheduled' = {}
  BY <1>1, OutsideSchedule DEF Kept, Scheduled
<1>4. Settled
  <2>1. \A s \in Req : status'[s] = status[s] \/ (s \in Ids(output.batch) /\ status'[s] = "Error")
    BY <1>1 DEF SetStatus
  <2>2. \A s \in Ids(output.batch) : status[s] # "Absent"
    <3>1. Ids(output.batch) \subseteq Runs
      BY <1>1, RowsRun DEF Chosen, Ids, Row
    <3> QED BY <3>1 DEF EngineInv, QueueInv, StatusAgrees, Members, Holders
  <2> QED BY <2>1, <2>2 DEF Settled, Finished
<1>5. LookupAgrees'
  BY <1>1, <1>2, LookupIdle DEF Deciding
<1> QED BY <1>1, <1>2, <1>3, <1>4, <1>5, QuietAgrees DEF Chosen

\* Finished sequences are published and freed.
LEMMA FreeFinishedAgrees ==
  ASSUME CacheContract, EngineInv, QueueInv', FreeFinished
  PROVE  KV!ManagerInv' /\ BatchInv'
<1>1. UNCHANGED <<status, len, turn, pc, local, output>> /\ pc = "reap"
  BY DEF FreeFinished
<1>2. /\ KV!ManagerInv' /\ KV!Live' \subseteq KV!Live /\ lookup' = lookup /\ GoesOn(KV!Live')
  <2>1. \/ \E s \in KV!Live : KV!CacheBlocks(s) \/ KV!Free(s)
        \/ UNCHANGED kvVars
    <3>1. \/ \E s : KV!CacheBlocks(s)
          \/ \E s \in KV!Live : KV!Free(s)
          \/ UNCHANGED kvVars
      BY DEF FreeFinished
    <3>2. \A s : KV!CacheBlocks(s) => s \in KV!Live
      BY DEF KV!CacheBlocks
    <3> QED BY <3>1, <3>2
  <2>2. KV!Live \subseteq Req /\ KV!ManagerInv
    BY HoldersLive DEF EngineInv
  <2>3. ASSUME NEW s \in KV!Live, KV!CacheBlocks(s) PROVE KV!ManagerInv' /\ KV!Live' \subseteq KV!Live /\ lookup' = lookup /\ GoesOn(KV!Live')
    BY <2>2, <2>3, CacheGoesOn
  <2>4. ASSUME NEW s \in KV!Live, KV!Free(s) PROVE KV!ManagerInv' /\ KV!Live' \subseteq KV!Live /\ lookup' = lookup /\ GoesOn(KV!Live')
    BY <2>2, <2>4, FreeGoesOn
  <2>5. CASE UNCHANGED kvVars
    BY <2>2, <2>5, StillGoesOn
  <2> QED BY <2>1, <2>3, <2>4, <2>5
<1>3. Kept' = Kept /\ Scheduled' = {}
  BY <1>1, OutsideSchedule DEF Kept, Scheduled
<1>4. Settled
  BY <1>1, SettledSame
<1>5. LookupAgrees'
  BY <1>1, <1>2, LookupIdle DEF Deciding
<1> QED BY <1>1, <1>2, <1>3, <1>4, <1>5, QuietAgrees DEF Chosen

\* schedule() turns computed prompts into completions and collects the candidates.
LEMMA BeginScheduleAgrees ==
  ASSUME CacheContract, EngineInv, QueueInv', BeginSchedule
  PROVE  KV!ManagerInv' /\ BatchInv'
<1>1. /\ pc = "reap" /\ pc' \in {"completion", "admit"} /\ UNCHANGED <<kvVars, len, output>>
      /\ \E v : turn' = [turn EXCEPT !.epoch = v]
  BY DEF BeginSchedule
<1>2. PICK S \in SUBSET Runs : /\ status' = SetStatus(S, "RunningCompletion")
                               /\ \A s \in S : status[s] = "RunningPrompt"
  <2> DEFINE S == {s \in ToSet(running) : status[s] = "RunningPrompt" /\ Uncomputed(s) = 0}
  <2>1. status' = SetStatus(S, "RunningCompletion") /\ S \in SUBSET Runs
    BY DEF BeginSchedule, Runs
  <2> QED BY <2>1
<1>3. KV!ManagerInv' /\ KV!Live' = KV!Live /\ lookup' = lookup /\ GoesOn(KV!Live)
  BY <1>1, StillGoesOn DEF EngineInv
<1>4. Settled
  BY <1>2 DEF SetStatus, Settled, Finished
<1>5. LookupAgrees'
  BY <1>1, <1>3, LookupIdle DEF Deciding
<1>6. PICK q \in {<<>>, Prompts(status', running)} : local' = [NoLocals EXCEPT !.scheduled = q]
  BY DEF BeginSchedule
<1>7. Kept' = {} /\ Scheduled' = ToSet(q)
  BY <1>6, EmptyQueue DEF Kept, Scheduled, NoLocals
<1>8. \A s \in Scheduled' : status'[s] = "RunningPrompt"
  <2>1. running \in Seq(Req)
    BY DEF EngineInv, QueueInv, Types, QueueTypes
  <2>2. ToSet(Prompts(status', running)) \subseteq {s \in ToSet(running) : status'[s] = "RunningPrompt"}
    BY <2>1, KeepProperties DEF Prompts
  <2> QED BY <1>6, <1>7, <2>2, EmptyQueue
<1> QED BY <1>1, <1>3, <1>4, <1>5, <1>7, <1>8, QuietAgrees DEF Chosen

\* Without candidates it goes on to the completions.
LEMMA NoPromptToRunAgrees ==
  ASSUME CacheContract, EngineInv, QueueInv', NoPromptToRun
  PROVE  KV!ManagerInv' /\ BatchInv'
<1>1. UNCHANGED <<kvVars, status, len, turn, local, output>> /\ pc = "prompt" /\ pc' = "completion"
  BY DEF NoPromptToRun, At
<1>2. KV!ManagerInv' /\ KV!Live' = KV!Live /\ lookup' = lookup /\ GoesOn(KV!Live)
  BY <1>1, StillGoesOn DEF EngineInv
<1>3. Kept' = Kept /\ \A s \in Scheduled' : status'[s] = "RunningPrompt"
  BY <1>1, ScheduledStill
<1>4. Settled
  BY <1>1, SettledSame
<1>5. LookupAgrees'
  BY <1>1, <1>2, LookupIdle DEF Deciding
<1> QED BY <1>1, <1>2, <1>3, <1>4, <1>5, QuietAgrees DEF Chosen

\* The prompts are set aside and the completions ordered.
LEMMA BeginCompletionAgrees ==
  ASSUME CacheContract, EngineInv, QueueInv', BeginCompletion
  PROVE  KV!ManagerInv' /\ BatchInv'
<1>1. /\ UNCHANGED <<kvVars, status, len, turn, output>> /\ pc = "completion" /\ pc' = "slots"
      /\ \E q : local' = [NoLocals EXCEPT !.prompts = q]
  BY DEF BeginCompletion, At
<1>2. KV!ManagerInv' /\ KV!Live' = KV!Live /\ lookup' = lookup /\ GoesOn(KV!Live)
  BY <1>1, StillGoesOn DEF EngineInv
<1>3. Kept' = {} /\ Scheduled' = {}
  BY <1>1, EmptyQueue DEF Kept, Scheduled, NoLocals
<1>4. Settled
  BY <1>1, SettledSame
<1>5. LookupAgrees'
  BY <1>1, <1>2, LookupIdle DEF Deciding
<1> QED BY <1>1, <1>2, <1>3, <1>4, <1>5, QuietAgrees DEF Chosen

\* A lookup stays right while the front of the queue does.
LEMMA LookupStill ==
  ASSUME CacheContract, EngineInv, lookup' = lookup, Deciding' <=> Deciding, len' = len,
         Deciding => Head(waiting') = Head(waiting)
  PROVE  LookupAgrees'
BY DEF EngineInv, BatchInv, LookupAgrees, Capacity, KV!NoLookup

\* The front of the waiting queue is a sequence that does not run.
LEMMA FrontWaits ==
  ASSUME CacheContract, EngineInv, waiting # <<>>
  PROVE  /\ Head(waiting) \in Req /\ Head(waiting) \notin KV!Live /\ Head(waiting) \notin Runs
         /\ status[Head(waiting)] # "Absent" /\ len[Head(waiting)] \in Nat \ {0}
<1>1. Head(waiting) \in Waits /\ Head(waiting) \in Req
  BY TailKeeps, QueueSets DEF EngineInv, QueueInv, Types, QueueTypes, NoneDoubled, Waits
<1>2. Head(waiting) \notin Holders
  BY <1>1 DEF EngineInv, QueueInv, Apart
<1>3. status[Head(waiting)] # "Absent"
  BY <1>1 DEF EngineInv, QueueInv, StatusAgrees, Members
<1>4. len[Head(waiting)] \in Nat \ {0}
  BY <1>1, <1>3 DEF EngineInv, BatchInv, Lengths
<1> QED BY <1>1, <1>2, <1>3, <1>4, HoldersLive DEF Holders

\* A prompt that no cache of this size can hold is rejected.
LEMMA RejectTooLongAgrees ==
  ASSUME CacheContract, EngineInv, QueueInv', RejectTooLong
  PROVE  KV!ManagerInv' /\ BatchInv'
<1>1. /\ UNCHANGED <<kvVars, len, turn, pc, local, output>> /\ pc = "admit" /\ waiting # <<>>
      /\ len[Head(waiting)] > Capacity /\ status' = [status EXCEPT ![Head(waiting)] = "Ignored"]
  BY DEF RejectTooLong, At, RoomForMore, FinishFrontOfWaiting
<1>2. KV!ManagerInv' /\ KV!Live' = KV!Live /\ lookup' = lookup /\ GoesOn(KV!Live)
  BY <1>1, StillGoesOn DEF EngineInv
<1>3. \A s \in Req : status'[s] = IF s = Head(waiting) THEN "Ignored" ELSE status[s]
  BY <1>1, HoldersLive
<1>4. Settled
  BY <1>1, <1>2, <1>3, FrontWaits DEF Settled
<1>5. Kept' = Kept /\ \A s \in Scheduled' : status'[s] = "RunningPrompt"
  <2>1. \A s \in Runs : status'[s] = status[s]
    BY <1>1, <1>3, FrontWaits, HoldersLive
  <2> QED BY <1>1, <2>1, ScheduledStill
<1>6. LookupAgrees'
  BY <1>1, <1>2, LookupIdle DEF Deciding
<1> QED BY <1>1, <1>2, <1>4, <1>5, <1>6, QuietAgrees DEF Chosen

\* A prompt of another medium waits for the next round.
LEMMA DeferForMediaAgrees ==
  ASSUME CacheContract, EngineInv, QueueInv', DeferForMedia
  PROVE  KV!ManagerInv' /\ BatchInv'
<1>1. /\ UNCHANGED <<kvVars, status, len, turn, pc, output>> /\ pc = "admit"
      /\ \E q : local' = [local EXCEPT !.again = q]
  BY DEF DeferForMedia, At
<1>2. KV!ManagerInv' /\ KV!Live' = KV!Live /\ lookup' = lookup /\ GoesOn(KV!Live)
  BY <1>1, StillGoesOn DEF EngineInv
<1>3. Kept' = Kept /\ Scheduled' = Scheduled
  BY <1>1 DEF EngineInv, QueueInv, Types, QueueTypes, Kept, Scheduled
<1>4. Settled
  BY <1>1, SettledSame
<1>5. \A s \in Scheduled' : status'[s] = "RunningPrompt"
  BY <1>1, <1>3 DEF EngineInv, BatchInv, CompletionsAgree
<1>6. LookupAgrees'
  BY <1>1, <1>2, LookupIdle DEF Deciding
<1> QED BY <1>1, <1>2, <1>3, <1>4, <1>5, <1>6, QuietAgrees DEF Chosen

\* The end of the admission loop.
LEMMA LeaveAdmissionAgrees ==
  ASSUME CacheContract, EngineInv, QueueInv', KV!ManagerInv', LeaveAdmission, UNCHANGED <<status, len, turn, output>>,
         KV!Live' = KV!Live, GoesOn(KV!Live), LookupAgrees'
  PROVE  BatchInv'
<1>1. pc' = "prompt" /\ \E q : local' = [local EXCEPT !.again = q]
  BY DEF LeaveAdmission
<1>2. Kept' = Kept /\ Scheduled' = Scheduled
  BY <1>1 DEF EngineInv, QueueInv, Types, QueueTypes, Kept, Scheduled
<1>3. \A s \in Scheduled' : status'[s] = "RunningPrompt"
  BY <1>2 DEF EngineInv, BatchInv, CompletionsAgree
<1>4. Settled
  BY SettledSame
<1> QED BY <1>1, <1>2, <1>3, <1>4, QuietAgrees DEF Chosen

\* The admission loop ends for want of room.
LEMMA NoRoomAgrees ==
  ASSUME CacheContract, EngineInv, QueueInv', NoRoom
  PROVE  KV!ManagerInv' /\ BatchInv'
<1>1. UNCHANGED <<kvVars, status, len, turn, output>> /\ pc = "admit" /\ LeaveAdmission /\ pc' = "prompt"
  BY DEF NoRoom, At, LeaveAdmission
<1>2. KV!ManagerInv' /\ KV!Live' = KV!Live /\ lookup' = lookup /\ GoesOn(KV!Live)
  BY <1>1, StillGoesOn DEF EngineInv
<1>3. LookupAgrees'
  BY <1>1, <1>2, LookupIdle DEF Deciding
<1> QED BY <1>1, <1>2, <1>3, LeaveAdmissionAgrees

\* The front prompt does not fit: it is left waiting, or makes room for itself.
LEMMA DoesNotFitAgrees ==
  ASSUME CacheContract, EngineInv, QueueInv', DoesNotFit
  PROVE  KV!ManagerInv' /\ BatchInv'
<1>1. UNCHANGED <<status, len, turn, output>> /\ pc = "allocate"
  BY DEF DoesNotFit, At
<1>2. CASE pc' = "evict" /\ UNCHANGED <<kvVars, waiting, local>>
  <2>1. KV!ManagerInv' /\ KV!Live' = KV!Live /\ lookup' = lookup /\ GoesOn(KV!Live)
    BY <1>2, StillGoesOn DEF EngineInv
  <2>2. Kept' = Kept /\ \A s \in Scheduled' : status'[s] = "RunningPrompt"
    BY <1>1, <1>2, ScheduledStill
  <2>3. LookupAgrees'
    BY <1>1, <1>2, <2>1, LookupStill DEF Deciding
  <2>4. Settled
    BY <1>1, SettledSame
  <2> QED BY <1>1, <1>2, <2>1, <2>2, <2>3, <2>4, QuietAgrees DEF Chosen
<1>3. CASE KV!AbandonLookup /\ LeaveAdmission
  <2>1. KV!ManagerInv' /\ KV!Live' = KV!Live /\ lookup' = KV!NoLookup /\ GoesOn(KV!Live)
    BY <1>3, AbandonGoesOn DEF EngineInv
  <2>2. LookupAgrees'
    BY <1>3, <2>1, LookupIdle DEF Deciding, LeaveAdmission
  <2> QED BY <1>1, <1>3, <2>1, <2>2, LeaveAdmissionAgrees
<1> QED BY <1>2, <1>3 DEF DoesNotFit

\* The front prompt is looked up in the prefix cache.
LEMMA LookUpAgrees ==
  ASSUME CacheContract, EngineInv, QueueInv', LookUp
  PROVE  KV!ManagerInv' /\ BatchInv'
<1>1. /\ UNCHANGED <<waiting, running, status, len, turn, local, output>> /\ pc = "admit" /\ pc' = "allocate"
      /\ waiting # <<>> /\ len[Head(waiting)] <= Capacity
      /\ KV!GetComputedBlocks(Head(waiting), ChainOf[Head(waiting)], len[Head(waiting)])
  BY DEF LookUp, At, RoomForMore
<1>2. Head(waiting) \in Req /\ len[Head(waiting)] \in Nat \ {0}
  BY <1>1, FrontWaits
<1>3. PICK s, n : s = Head(waiting) /\ n = len[Head(waiting)]
  OBVIOUS
<1>4. /\ KV!ManagerInv' /\ KV!Live' = KV!Live /\ GoesOn(KV!Live)
      /\ lookup' # KV!NoLookup /\ lookup'.req = {s} /\ lookup'.chain = ChainOf[s]
      /\ lookup'.tokens = n /\ Len(lookup'.hit) * BlockSize < n
  BY <1>1, <1>2, <1>3, LookupGoesOn DEF EngineInv
<1>5. LookupAgrees'
  <2>1. lookup' # KV!NoLookup' /\ Deciding'
    BY <1>1, <1>4 DEF KV!NoLookup, Deciding
  <2> QED BY <1>1, <1>3, <1>4, <2>1 DEF LookupAgrees, Capacity
<1>6. Kept' = Kept /\ \A t \in Scheduled' : status'[t] = "RunningPrompt"
  BY <1>1, ScheduledStill
<1>7. Settled
  BY <1>1, SettledSame
<1> QED BY <1>1, <1>4, <1>5, <1>6, <1>7, QuietAgrees DEF Chosen

\* The front prompt is admitted with the blocks it was looked up with.
LEMMA AdmitAgrees ==
  ASSUME CacheContract, EngineInv, QueueInv', Admit
  PROVE  KV!ManagerInv' /\ BatchInv'
<1>1. PICK s : s = Head(waiting)
  OBVIOUS
<1>2. /\ UNCHANGED <<len, turn, output>> /\ Deciding /\ pc' = "admit"
      /\ IF s \in Visible THEN KV!ReservePrompt(s) ELSE KV!AllocateNewRequest(s)
      /\ status' = [status EXCEPT ![s] = "RunningPrompt"]
      /\ local' = [local EXCEPT !.scheduled = Append(@, s)]
  BY <1>1 DEF Admit, Deciding
<1>3. waiting # <<>> /\ local.kept = <<>>
  BY <1>2 DEF EngineInv, QueueInv, Phases, Deciding
<1>4. s \in Req /\ status[s] # "Absent" /\ len[s] \in Nat /\ s \notin Runs
  BY <1>1, <1>3, FrontWaits
<1>5. /\ KV!ManagerInv' /\ KV!Live' = KV!Live \cup {s} /\ s \notin KV!Live /\ GoesOn(KV!Live)
      /\ lookup' = KV!NoLookup
      /\ seqs'[s] = [chain |-> lookup.chain, computed |-> Len(lookup.hit) * BlockSize]
      /\ KV!DivCeil(lookup.tokens) <= Promised(s)'
  BY <1>2, <1>4, AdmissionGoesOn DEF EngineInv
<1>6. lookup.chain = ChainOf[s] /\ lookup.tokens = len[s] /\ Len(lookup.hit) * BlockSize < len[s]
  BY <1>1, <1>2 DEF EngineInv, BatchInv, LookupAgrees
<1>7. \A t \in Req : status'[t] = IF t = s THEN "RunningPrompt" ELSE status[t]
  BY <1>2, HoldersLive
<1>8. Lengths' /\ OnlyTooLongIgnored'
  BY <1>2, <1>4, <1>7, StatusSteady
<1>9. TokensAgree'
  <2> SUFFICES ASSUME NEW t \in KV!Live'
               PROVE  /\ seqs'[t].chain = ChainOf[t]
                      /\ status'[t] \notin Finished => seqs'[t].computed < len[t]
                      /\ status'[t] = "RunningPrompt" => KV!DivCeil(len[t]) <= Promised(t)'
    BY <1>2 DEF TokensAgree, IsFinished
  <2>1. CASE t = s
    BY <1>5, <1>6, <2>1
  <2>2. CASE t # s
    <3>1. t \in KV!Live /\ t \in Req /\ status'[t] = status[t]
      BY <1>5, <1>7, <2>2, HoldersLive
    <3>2. /\ seqs[t].chain = ChainOf[t]
          /\ status[t] \notin Finished => seqs[t].computed < len[t]
          /\ status[t] = "RunningPrompt" => KV!DivCeil(len[t]) <= Promised(t)
      BY <3>1 DEF EngineInv, BatchInv, TokensAgree, IsFinished
    <3>3. seqs'[t] = seqs[t] /\ Promised(t) \in Nat /\ Promised(t)' \in Nat /\ Promised(t)' >= Promised(t)
      BY <1>5, <3>1 DEF GoesOn
    <3>4. len[t] \in Nat
      BY <3>1, HoldersLive
    <3>5. PICK d \in Nat : d = KV!DivCeil(len[t])
      <4>1. 0 \in Nat
        OBVIOUS
      <4> QED BY <3>4, <4>1, BlocksCover
    <3> QED BY <3>1, <3>2, <3>3, <3>5
  <2> QED BY <2>1, <2>2
<1>10. local'.scheduled = Append(local.scheduled, s) /\ local'.kept = local.kept
  BY <1>2 DEF EngineInv, QueueInv, Types, QueueTypes
<1>11. Kept' = {} /\ Scheduled' = Scheduled \cup {s}
  <2>1. local.scheduled \in Seq(Req)
    BY QueueSets DEF EngineInv, QueueInv, Types
  <2> QED BY <1>3, <1>4, <1>10, <2>1, EmptyQueue, AppendKeeps DEF Kept, Scheduled
<1>12. CompletionsAgree'
  <2>1. \A t \in Scheduled' : status'[t] = "RunningPrompt"
    <3>1. \A t \in Scheduled : t \in Req /\ status[t] = "RunningPrompt"
      BY HoldersLive DEF EngineInv, BatchInv, CompletionsAgree
    <3> QED BY <1>4, <1>7, <1>11, <3>1
  <2> QED BY <1>2, <1>11, <2>1 DEF CompletionsAgree
<1>13. BatchTypes' /\ RowsAgree' /\ RowsDistinct' /\ RowsUniform'
  BY <1>2, RowsIdle DEF Chosen
<1>14. LookupAgrees'
  BY <1>2, <1>5, LookupIdle DEF Deciding
<1> QED BY <1>5, <1>8, <1>9, <1>12, <1>13, <1>14 DEF BatchInv

\* "making room cannot fail after the capacity check and full preemption":
\* a prompt within the capacity fits when nothing runs.
LEMMA FitsWhenAlone ==
  ASSUME CacheContract, EngineInv, Deciding, KV!Live = {}
  PROVE  Fits
<1>1. lookup.req = {Head(waiting)} /\ lookup.tokens <= NumBlocks * BlockSize
  BY DEF EngineInv, BatchInv, LookupAgrees, Capacity
<1>2. lookup.hit \in Seq(KV!Block) /\ lookup.tokens \in Nat
  BY DEF EngineInv, BatchInv, LookupAgrees, KV!ManagerInv, KV!LookupKnown
<1>3. total_reserved = 0 /\ KV!NumFree(pool) = NumBlocks
  BY DEF EngineInv, CacheContract, EmptyGiven
<1>4. KV!NumUnreserved = NumBlocks
  BY <1>3, CacheAssumption DEF KV!NumUnreserved
<1>5. KV!DivCeil(lookup.tokens) \in Nat /\ KV!DivCeil(lookup.tokens) <= NumBlocks
  BY <1>1, <1>2, CacheAssumption, BlocksCover
<1>6. PICK m \in Nat : m = Len(lookup.hit)
  BY <1>2
<1>7. KV!NumEvictable \in Nat /\ KV!NumEvictable <= m
  <2> DEFINE I == {i \in 1..m : pool.ref_cnt[lookup.hit[i]] = 0}
  <2>1. KV!NumEvictable = Cardinality(I)
    BY <1>6, SameCardinality DEF KV!NumEvictable
  <2>2. I \subseteq 1..m /\ IsFiniteSet(1..m) /\ Cardinality(1..m) = m
    <3>1. I \subseteq 1..m
      BY Zenon
    <3>2. IsFiniteSet(1..m) /\ Cardinality(1..m) = IF 1 > m THEN 0 ELSE m - 1 + 1
      <4>1. 1 \in Int /\ m \in Int
        BY <1>6
      <4> QED BY <4>1, FS_Interval
    <3> QED BY <1>6, <3>1, <3>2
  <2>3. IsFiniteSet(I) /\ Cardinality(I) <= m
    BY <2>2, FS_Subset
  <2> QED BY <2>1, <2>3, FS_CardinalityType
<1> QED BY <1>4, <1>5, <1>6, <1>7, CacheAssumption DEF Fits

\* Making room preempts the last running sequence; the branch in which nothing is
\* left to preempt and the prompt still does not fit is never taken.
LEMMA MakeRoomAgrees ==
  ASSUME CacheContract, EngineInv, QueueInv', MakeRoom
  PROVE  KV!ManagerInv' /\ BatchInv'
<1>1. pc = "evict" /\ local.doomed = <<>> /\ ~Fits /\ UNCHANGED <<len, turn, output>>
  BY DEF MakeRoom, At
<1>2. running # <<>>
  <2> SUFFICES ASSUME running = <<>> PROVE FALSE
    OBVIOUS
  <2>1. local.kept = <<>> /\ local.prompts = <<>>
    BY <1>1 DEF EngineInv, QueueInv, Phases
  <2>2. Holders = {}
    BY <1>1, <2>1, EmptyQueue DEF Holders, Runs, Kept, SetAside, Doomed
  <2>3. KV!Live = {}
    BY <2>2, HoldersLive
  <2> QED BY <1>1, <2>3, FitsWhenAlone DEF Deciding
<1>3. /\ UNCHANGED <<kvVars, waiting, status, pc>>
      /\ local' = [local EXCEPT !.doomed = <<Last(running)>>,
                                !.scheduled = Dropping(@, {Last(running)})]
  BY <1>2 DEF MakeRoom
<1>4. KV!ManagerInv' /\ KV!Live' = KV!Live /\ lookup' = lookup /\ GoesOn(KV!Live)
  BY <1>3, StillGoesOn DEF EngineInv
<1>5. local'.scheduled = Dropping(local.scheduled, {Last(running)}) /\ local'.kept = local.kept
  BY <1>3 DEF EngineInv, QueueInv, Types, QueueTypes
<1>6. Kept' = Kept /\ Scheduled' \subseteq Scheduled
  <2>1. local.scheduled \in Seq(Req)
    BY QueueSets DEF EngineInv, QueueInv, Types
  <2> QED BY <1>5, <2>1, DroppingKeeps DEF Kept, Scheduled
<1>7. \A s \in Scheduled' : status'[s] = "RunningPrompt"
  BY <1>3, <1>6 DEF EngineInv, BatchInv, CompletionsAgree
<1>8. Settled
  BY <1>3, SettledSame
<1>9. LookupAgrees'
  BY <1>1, <1>3, <1>4, LookupStill DEF Deciding
<1> QED BY <1>1, <1>3, <1>4, <1>6, <1>7, <1>8, <1>9, QuietAgrees DEF Chosen

\* A sequence preempted for the front of the queue goes behind it.
LEMMA InsertSecondHead ==
  ASSUME NEW T, NEW q \in Seq(T), NEW x \in T, q # <<>>
  PROVE  Head(InsertAt(q, 2, x)) = Head(q)
<1>1. PICK a \in Seq(T), b \in Seq(T) : a = SubSeq(q, 1, 1) /\ b = SubSeq(q, 2, Len(q))
  <2>1. 2 \in 1..(Len(q) + 1) /\ 1 \in 1..(Len(q) + 1) /\ 1 \in 0..Len(q) /\ Len(q) \in 0..Len(q)
    OBVIOUS
  <2> QED BY <2>1, SubSeqKeeps
<1>2. Len(a) = 1 /\ a[1] = q[1]
  BY <1>1
<1>3. InsertAt(q, 2, x) = a \o <<x>> \o b
  BY <1>1 DEF InsertAt
<1>4. PICK c \in Seq(T) : c = a \o <<x>> /\ Len(c) = 2 /\ c[1] = q[1]
  <2>1. PICK y \in Seq(T) : y = <<x>> /\ Len(y) = 1
    <3>1. <<x>> \in Seq(T) /\ Len(<<x>>) = 1
      OBVIOUS
    <3> QED BY <3>1, Zenon
  <2>2. /\ a \o y \in Seq(T) /\ Len(a \o y) = Len(a) + Len(y)
        /\ \A i \in 1..Len(a) : (a \o y)[i] = a[i]
    BY <2>1, ConcatPositions
  <2>3. Len(a \o y) = 2 /\ (a \o y)[1] = q[1]
    BY <1>2, <2>1, <2>2
  <2> QED BY <2>1, <2>2, <2>3
<1>5. (c \o b) \in Seq(T) /\ Len(c \o b) > 0 /\ (c \o b)[1] = q[1]
  BY <1>4
<1> QED BY <1>3, <1>4, <1>5

\* _preempt frees a sequence that is in no batch.
LEMMA PreemptAgrees ==
  ASSUME CacheContract, EngineInv, QueueInv', Preempt
  PROVE  KV!ManagerInv' /\ BatchInv'
<1>0. PICK s : s = Head(local.doomed)
  OBVIOUS
<1>1. /\ local.doomed # <<>> /\ UNCHANGED <<running, len, turn, pc, output>>
      /\ pc \in {"evict", "ready", "slots", "settle"}
  BY DEF Preempt, EngineInv, QueueInv, Phases
<1>2. s \in Doomed /\ s \in Req /\ s \notin Runs /\ s \notin Kept /\ s \in Members
  <2>1. local.doomed \in Seq(Req) /\ IsInjective(local.doomed)
    BY QueueSets DEF EngineInv, QueueInv, Types, NoneDoubled
  <2>2. s \in Doomed /\ s \in Req
    BY <1>0, <1>1, <2>1, TailKeeps, QueueSets DEF Doomed, EngineInv, QueueInv, Types
  <2> QED BY <2>2 DEF EngineInv, QueueInv, Apart, Members, Holders
<1>3. ~IsFinished(s) /\ status[s] # "Absent"
  BY <1>1, <1>2 DEF EngineInv, QueueInv, StatusAgrees
<1>4. \/ KV!CacheBlocks(s) /\ UNCHANGED <<waiting, status, local>>
      \/ /\ KV!Free(s) /\ status' = [status EXCEPT ![s] = "Waiting"] /\ waiting' = PushFront(s)
         /\ local' = [local EXCEPT !.doomed = Tail(@)]
  BY <1>0, <1>3 DEF Preempt
<1>5. /\ KV!ManagerInv' /\ KV!Live' \subseteq KV!Live /\ lookup' = lookup /\ GoesOn(KV!Live')
      /\ KV!Live \ {s} \subseteq KV!Live'
  <2>1. KV!ManagerInv
    BY DEF EngineInv
  <2> QED BY <1>2, <1>4, <2>1, CacheGoesOn, FreeGoesOn
<1>6. status' = status \/ (s \notin KV!Live' /\ \A t \in Req : status'[t] = IF t = s THEN "Waiting" ELSE status[t])
  <2>1. CASE KV!Free(s) /\ status' = [status EXCEPT ![s] = "Waiting"]
    BY <2>1, FreeDropsEntry, HoldersLive
  <2> QED BY <1>4, <2>1
<1>7. Settled
  BY <1>3, <1>6 DEF Settled, Finished
<1>8. \A t \in Req \ {s} : status'[t] = status[t]
  BY <1>6
<1>9. Runs' = Runs /\ Kept' = Kept /\ Scheduled' = Scheduled
  <2>1. local'.kept = local.kept /\ local'.scheduled = local.scheduled
    BY <1>4 DEF EngineInv, QueueInv, Types, QueueTypes
  <2> QED BY <1>1, <2>1 DEF Runs, Kept, Scheduled
<1>10. Runs \subseteq Req \ {s} /\ Runs \subseteq KV!Live' /\ Kept \subseteq KV!Live' /\ Scheduled \subseteq Runs
  BY <1>2, <1>5, HoldersLive DEF EngineInv, QueueInv, Candidates
<1>11. \A t \in Scheduled' : status'[t] = "RunningPrompt"
  BY <1>8, <1>9, <1>10 DEF EngineInv, BatchInv, CompletionsAgree
<1>12. GoesOn(Runs) /\ GoesOn(Kept')
  BY <1>5, <1>9, <1>10 DEF GoesOn
<1>13. LookupAgrees'
  <2>1. ASSUME Deciding PROVE Head(waiting') = Head(waiting)
    <3>1. pc = "evict" /\ waiting \in Seq(Req) /\ waiting # <<>>
      BY <1>1, <2>1 DEF Deciding, EngineInv, QueueInv, Types, QueueTypes, Phases
    <3>2. waiting' = waiting \/ waiting' = InsertAt(waiting, 2, s)
      BY <1>4, <3>1 DEF PushFront
    <3> QED BY <1>2, <3>1, <3>2, InsertSecondHead
  <2> QED BY <1>1, <1>5, <2>1, LookupStill DEF Deciding
<1>14. CompletionsAgree'
  BY <1>1, <1>9, <1>11, <1>12, KeptGoOn
<1>15. BatchTypes' /\ RowsAgree' /\ RowsDistinct' /\ RowsUniform'
  BY <1>1, <1>8, <1>9, <1>10, <1>12, RowsGoOn
<1>16. Lengths' /\ OnlyTooLongIgnored'
  BY <1>1, <1>7, StatusSteady DEF Settled
<1>17. TokensAgree'
  BY <1>1, <1>5, <1>7, TokensGoOn, HoldersLive DEF Settled
<1> QED BY <1>5, <1>13, <1>14, <1>15, <1>16, <1>17 DEF BatchInv

-----------------------------------------------------------------------------
(* The completion phase. *)

\* What stays when neither the manager nor a sequence moves.
LEMMA StillAgrees ==
  ASSUME CacheContract, EngineInv, UNCHANGED <<kvVars, status, len>>
  PROVE  /\ KV!ManagerInv' /\ TokensAgree' /\ Lengths' /\ OnlyTooLongIgnored'
         /\ KV!Live' = KV!Live /\ GoesOn(KV!Live) /\ lookup' = lookup
<1>1. KV!ManagerInv' /\ KV!Live' = KV!Live /\ lookup' = lookup /\ GoesOn(KV!Live)
  BY StillGoesOn DEF EngineInv
<1>2. TokensAgree'
  BY <1>1, TokensGoOn
<1>3. Lengths' /\ OnlyTooLongIgnored'
  BY StatusSteady
<1> QED BY <1>1, <1>2, <1>3

\* Publishing full blocks changes no sequence.
LEMMA PublishRunningAgrees ==
  ASSUME CacheContract, EngineInv, QueueInv', PublishRunning
  PROVE  KV!ManagerInv' /\ BatchInv'
<1>1. UNCHANGED <<running, status, len, turn, pc, local, output>> /\ pc = "publish"
  BY DEF PublishRunning, At
<1>2. PICK s : KV!CacheBlocks(s)
  BY DEF PublishRunning
<1>3. s \in KV!Live /\ s \in Req
  BY <1>2, HoldersLive DEF KV!CacheBlocks
<1>4. KV!ManagerInv' /\ KV!Live' = KV!Live /\ lookup' = lookup /\ GoesOn(KV!Live)
  BY <1>2, <1>3, CacheGoesOn DEF EngineInv
<1>5. Runs' = Runs /\ GoesOn(Runs') /\ GoesOn(Kept')
  BY <1>1, <1>4, HoldersLive DEF Runs, Kept, GoesOn
<1>6. Kept' = Kept /\ \A t \in Scheduled' : status'[t] = "RunningPrompt"
  BY <1>1, ScheduledStill
<1>7. CompletionsAgree'
  BY <1>1, <1>5, <1>6, KeptGoOn
<1>8. BatchTypes' /\ RowsAgree' /\ RowsDistinct' /\ RowsUniform'
  BY <1>1, RowsIdle DEF Chosen
<1>9. Lengths' /\ OnlyTooLongIgnored'
  BY <1>1, StatusSteady
<1>10. TokensAgree'
  BY <1>1, <1>4, TokensGoOn
<1>11. LookupAgrees'
  BY <1>1, <1>4, LookupIdle DEF Deciding
<1> QED BY <1>4, <1>7, <1>8, <1>9, <1>10, <1>11 DEF BatchInv

\* For want of slots a sequence leaves the round.
LEMMA PreemptForSlotsAgrees ==
  ASSUME CacheContract, EngineInv, QueueInv', PreemptForSlots
  PROVE  KV!ManagerInv' /\ BatchInv'
<1>1. /\ UNCHANGED <<kvVars, status, len, turn, pc, output>> /\ pc = "slots"
      /\ \E q : local' = [local EXCEPT !.doomed = q]
  BY DEF PreemptForSlots, At
<1>2. KV!ManagerInv' /\ KV!Live' = KV!Live /\ lookup' = lookup /\ GoesOn(KV!Live)
  BY <1>1, StillGoesOn DEF EngineInv
<1>3. Kept' = Kept /\ Scheduled' = Scheduled
  BY <1>1 DEF EngineInv, QueueInv, Types, QueueTypes, Kept, Scheduled
<1>4. \A s \in Scheduled' : status'[s] = "RunningPrompt"
  BY <1>1, <1>3 DEF EngineInv, BatchInv, CompletionsAgree
<1>5. Settled
  BY <1>1, SettledSame
<1>6. LookupAgrees'
  BY <1>1, <1>2, LookupIdle DEF Deciding
<1> QED BY <1>1, <1>2, <1>3, <1>4, <1>5, <1>6, QuietAgrees DEF Chosen

\* A member that schedule() works on has a token to compute.
LEMMA RunsOn ==
  ASSUME CacheContract, EngineInv, pc \notin {"idle", "reap", "step"}, NEW s \in KV!Live
  PROVE  /\ ~IsFinished(s) /\ seqs[s].computed < len[s] /\ Computed(s) = seqs[s].computed
         /\ len[s] \in Nat /\ seqs[s].computed \in Nat /\ Uncomputed(s) > 0
         /\ Uncomputed(s) = len[s] - seqs[s].computed
<1>1. HoldingFacts(s)
  BY SlotFacts DEF EngineInv
<1>2. s \in Members /\ s \in Req
  BY HoldersLive DEF Members
<1>3. ~IsFinished(s)
  BY <1>2 DEF EngineInv, QueueInv, StatusAgrees
<1>4. seqs[s].computed < len[s] /\ len[s] \in Nat
  BY <1>2, <1>3 DEF EngineInv, BatchInv, TokensAgree, Lengths
<1> QED BY <1>1, <1>3, <1>4 DEF HoldingFacts, Uncomputed

\* A completion that gets its slots is kept, unless its medium clashes.
LEMMA TakeSlotsAgrees ==
  ASSUME CacheContract, EngineInv, QueueInv', TakeSlots
  PROVE  KV!ManagerInv' /\ BatchInv'
<1>0. PICK s : s = Head(running)
  OBVIOUS
<1>1. /\ UNCHANGED <<status, len, turn, pc, output>> /\ pc = "slots" /\ running # <<>>
      /\ AllocateSlots(s, CompletionTokens(s))
      /\ \/ local' = [local EXCEPT !.doomed = <<s>>]
         \/ /\ local' = [local EXCEPT !.kept = Append(local.kept, s)]
            /\ UniformMedia /\ local.kept # <<>> => Media[s] = Media[local.kept[1]]
  BY <1>0 DEF TakeSlots, At
<1>2. s \in Runs /\ s \in KV!Live /\ s \in Req
  <2>1. s \in Runs
    BY <1>0, <1>1, TailKeeps DEF EngineInv, QueueInv, Types, QueueTypes, NoneDoubled, Runs
  <2> QED BY <2>1, HoldersLive
<1>3. CompletionTokens(s) = len[s] /\ len[s] \in Nat
  BY <1>1, <1>2, RunsOn DEF CompletionTokens
<1>4. /\ KV!ManagerInv' /\ KV!Live' = KV!Live /\ lookup' = lookup /\ GoesOn(KV!Live)
      /\ len[s] <= Slots(s)'
  BY <1>1, <1>2, <1>3, AllocateGoesOn DEF EngineInv
<1>5. BatchTypes' /\ RowsAgree' /\ RowsDistinct' /\ RowsUniform'
  BY <1>1, RowsIdle DEF Chosen
<1>6. Lengths' /\ OnlyTooLongIgnored'
  BY <1>1, StatusSteady
<1>7. TokensAgree'
  BY <1>1, <1>4, TokensGoOn
<1>8. LookupAgrees'
  BY <1>1, <1>4, LookupIdle DEF Deciding
<1>9. Kept \subseteq KV!Live /\ GoesOn(Kept)
  BY <1>4, HoldersLive DEF GoesOn
<1>10. CompletionsAgree
  BY DEF EngineInv, BatchInv
<1>11. CompletionsAgree'
  <2>1. CASE local' = [local EXCEPT !.doomed = <<s>>]
    <3>1. Kept' = Kept /\ Scheduled' = Scheduled
      BY <2>1 DEF EngineInv, QueueInv, Types, QueueTypes, Kept, Scheduled
    <3>2. \A t \in Scheduled' : status'[t] = "RunningPrompt"
      BY <1>1, <1>10, <3>1 DEF CompletionsAgree
    <3> QED BY <1>1, <1>9, <3>1, <3>2, KeptGoOn
  <2>2. CASE /\ local' = [local EXCEPT !.kept = Append(local.kept, s)]
             /\ UniformMedia /\ local.kept # <<>> => Media[s] = Media[local.kept[1]]
    <3>0. local.kept \in Seq(Req)
      BY QueueSets DEF EngineInv, QueueInv, Types
    <3>1. local'.kept = Append(local.kept, s) /\ local'.scheduled = local.scheduled
      BY <2>2 DEF EngineInv, QueueInv, Types, QueueTypes
    <3>2. Kept' = Kept \cup {s} /\ Scheduled' = Scheduled
      BY <1>2, <3>0, <3>1, AppendKeeps DEF Kept, Scheduled
    <3>3. \A t \in Scheduled' : status'[t] = "RunningPrompt"
      BY <1>1, <1>10, <3>2 DEF CompletionsAgree
    <3>4. \A t \in Kept' : len'[t] <= Slots(t)'
      <4> SUFFICES ASSUME NEW t \in Kept' PROVE len[t] <= Slots(t)'
        BY <1>1
      <4>1. CASE t = s
        BY <1>4, <4>1
      <4>2. CASE t \in Kept
        <5>1. len[t] <= Slots(t) /\ Slots(t) \in Nat /\ Slots(t)' \in Nat /\ Slots(t)' >= Slots(t)
          BY <1>9, <1>10, <4>2 DEF GoesOn, CompletionsAgree
        <5>2. len[t] \in Nat
          BY <1>9, <4>2, HoldersLive
        <5> QED BY <5>1, <5>2
      <4> QED BY <3>2, <4>1, <4>2
    <3>5. ASSUME NEW t \in Kept PROVE SameMedia(s, t) /\ SameMedia(t, s)
      <4>1. local.kept # <<>> /\ local.kept[1] \in Kept
        <5>1. local.kept # <<>>
          BY <3>5, EmptyQueue DEF Kept
        <5>2. 1 \in 1..Len(local.kept)
          BY <3>0, <5>1
        <5> QED BY <3>0, <5>1, <5>2, MembersHavePositions DEF Kept
      <4>2. SameMedia(local.kept[1], t)
        BY <1>10, <3>5, <4>1 DEF CompletionsAgree
      <4> QED BY <2>2, <4>1, <4>2 DEF SameMedia
    <3>6. (\A t, u \in Kept : SameMedia(t, u))'
      BY <1>10, <3>2, <3>5 DEF CompletionsAgree, SameMedia
    <3> QED BY <1>1, <3>3, <3>4, <3>6 DEF CompletionsAgree
  <2> QED BY <1>1, <2>1, <2>2
<1> QED BY <1>4, <1>5, <1>6, <1>7, <1>8, <1>11 DEF BatchInv

\* What is kept is of one length, where the pipeline needs that.
LEMMA EnforceCompatibilityAgrees ==
  ASSUME CacheContract, EngineInv, QueueInv', EnforceCompatibility
  PROVE  KV!ManagerInv' /\ BatchInv'
<1>1. PICK B : /\ pc = "slots" /\ pc' = "settle"
               /\ UNCHANGED <<kvVars, status, len, turn, output>>
               /\ B = {s \in Kept : InFirstBucket(s)}
               /\ local' = [local EXCEPT !.kept = Keep(local.kept, B),
                                         !.doomed = Reverse(Dropping(local.kept, B))]
  BY DEF EnforceCompatibility, At, Kept
<1>2. /\ KV!ManagerInv' /\ TokensAgree' /\ Lengths' /\ OnlyTooLongIgnored'
      /\ KV!Live' = KV!Live /\ GoesOn(KV!Live) /\ lookup' = lookup
  BY <1>1, StillAgrees
<1>3. BatchTypes' /\ RowsAgree' /\ RowsDistinct' /\ RowsUniform'
  BY <1>1, RowsIdle DEF Chosen
<1>4. LookupAgrees'
  BY <1>1, <1>2, LookupIdle DEF Deciding
<1>5. local'.kept = Keep(local.kept, B) /\ local'.scheduled = local.scheduled
  BY <1>1 DEF EngineInv, QueueInv, Types, QueueTypes
<1>6. Kept' = B /\ Scheduled' = Scheduled /\ B \subseteq Kept
  <2>1. local.kept \in Seq(Req)
    BY QueueSets DEF EngineInv, QueueInv, Types
  <2>2. ToSet(Keep(local.kept, B)) = ToSet(local.kept) \cap B
    BY <2>1, KeepProperties
  <2> QED BY <1>1, <1>5, <2>2 DEF Kept, Scheduled
<1>7. CompletionsAgree
  BY DEF EngineInv, BatchInv
<1>8. \A s \in Kept' : len'[s] <= Slots(s)'
  <2>1. \A s \in Kept' : Slots(s)' = Slots(s)
    BY <1>1 DEF Slots, kvVars
  <2> QED BY <1>1, <1>6, <1>7, <2>1 DEF CompletionsAgree
<1>9. \A s, t \in B : SameMedia(s, t) /\ Mates(s, t)
  BY <1>1, <1>6, <1>7 DEF CompletionsAgree, Mates, InFirstBucket
<1>10. (\A s, t \in Kept : SameMedia(s, t) /\ Mates(s, t))'
  BY <1>1, <1>6, <1>9 DEF SameMedia, Mates
<1>11. CompletionsAgree'
  BY <1>1, <1>6, <1>7, <1>8, <1>10 DEF CompletionsAgree
<1> QED BY <1>2, <1>3, <1>4, <1>11 DEF BatchInv

\* The kept completions run on, or all are terminated.
LEMMA SettleAgrees ==
  ASSUME CacheContract, EngineInv, QueueInv', Settle
  PROVE  KV!ManagerInv' /\ BatchInv'
<1>1. pc = "settle" /\ UNCHANGED <<kvVars, len, turn, output>>
  BY DEF Settle, At
<1>2. KV!ManagerInv' /\ KV!Live' = KV!Live /\ lookup' = lookup /\ GoesOn(KV!Live)
  BY <1>1, StillGoesOn DEF EngineInv
<1>3. /\ local.kept \in Seq(Req) /\ local.prompts \in Seq(Req)
  BY QueueSets DEF EngineInv, QueueInv, Types
<1>4. \A s \in Kept \cup SetAside : s \in Req /\ status[s] # "Absent" /\ status[s] \notin Finished
  BY <1>1, HoldersLive DEF EngineInv, QueueInv, StatusAgrees, Members, Holders, IsFinished
<1>5. CASE terminate
  <2>1. /\ running' = local.kept \o local.prompts /\ local' = NoLocals /\ pc' = "idle"
        /\ status' = SetStatus(Runs', "Done")
    BY <1>5 DEF Settle, Runs
  <2>2. Runs' = Kept \cup SetAside
    BY <1>3, <2>1, ConcatIsUnion DEF Runs, Kept, SetAside
  <2>3. Kept' = {} /\ Scheduled' = {}
    BY <2>1, EmptyQueue DEF Kept, Scheduled, NoLocals
  <2>4. Settled
    BY <1>4, <2>1, <2>2 DEF Settled, SetStatus, Finished
  <2>5. LookupAgrees'
    BY <1>1, <1>2, <2>1, LookupIdle DEF Deciding
  <2> QED BY <1>1, <1>2, <2>1, <2>3, <2>4, <2>5, QuietAgrees DEF Chosen
<1>6. CASE ~terminate
  <2>1. /\ running' = local.kept /\ local' = [local EXCEPT !.kept = <<>>] /\ pc' = "publish"
        /\ status' = SetStatus(Kept, "RunningCompletion")
    BY <1>6 DEF Settle, Kept
  <2>2. \A s \in Req : status'[s] = IF s \in Kept THEN "RunningCompletion" ELSE status[s]
    BY <2>1 DEF SetStatus
  <2>3. Settled
    BY <1>4, <2>2 DEF Settled, Finished
  <2>4. Lengths' /\ OnlyTooLongIgnored'
    BY <1>1, <2>3, StatusSteady DEF Settled
  <2>5. TokensAgree'
    BY <1>1, <1>2, <2>3, TokensGoOn, HoldersLive DEF Settled
  <2>6. BatchTypes' /\ RowsAgree' /\ RowsDistinct' /\ RowsUniform'
    BY <1>1, <2>1, RowsIdle DEF Chosen
  <2>7. LookupAgrees'
    BY <1>1, <1>2, <2>1, LookupIdle DEF Deciding
  <2>8. Runs' = Kept /\ Kept' = {} /\ Scheduled' = {}
    <3>1. local'.kept = <<>> /\ local'.scheduled = local.scheduled /\ local.scheduled = <<>>
      BY <1>1, <2>1 DEF EngineInv, QueueInv, Types, QueueTypes, Phases
    <3> QED BY <2>1, <3>1, EmptyQueue DEF Runs, Kept, Scheduled
  <2>9. /\ \A s \in Kept : len[s] <= Slots(s)
        /\ \A s, t \in Kept : Mates(s, t)
    BY <1>1 DEF EngineInv, BatchInv, CompletionsAgree
  <2>10. \A s \in Runs' : status'[s] = "RunningCompletion" /\ len'[s] <= Slots(s)'
    <3>1. \A s \in Runs' : Slots(s)' = Slots(s)
      BY <1>1 DEF Slots, kvVars
    <3> QED BY <1>1, <1>4, <2>2, <2>8, <2>9, <3>1
  <2>11. (\A s, t \in Runs : Mates(s, t))'
    BY <1>1, <2>8, <2>9 DEF Mates, SameMedia
  <2>12. CompletionsAgree'
    BY <2>1, <2>8, <2>10, <2>11 DEF CompletionsAgree
  <2> QED BY <1>2, <2>4, <2>5, <2>6, <2>7, <2>12 DEF BatchInv
<1> QED BY <1>5, <1>6

-----------------------------------------------------------------------------
(* The engine's step. *)

\* The types of the batch, one by one.
LEMMA OutputTypes ==
  ASSUME CacheContract, EngineInv
  PROVE  /\ output.batch \in Seq([id : Req, end : Nat]) /\ output.next \in Nat \ {0}
         /\ output.prompt \in BOOLEAN /\ Len(output.batch) \in Nat
         /\ output = [prompt |-> output.prompt, batch |-> output.batch, next |-> output.next]
<1>1. output \in [prompt : BOOLEAN, batch : Seq([id : Req, end : Nat]), next : Nat \ {0}]
  BY DEF EngineInv, BatchInv, BatchTypes
<1>2. output.batch \in Seq([id : Req, end : Nat])
  BY <1>1
<1>3. Len(output.batch) \in Nat
  BY <1>2
<1> QED BY <1>1, <1>2, <1>3

\* A batch is handed to the engine.
LEMMA PromptBatchReadyAgrees ==
  ASSUME CacheContract, EngineInv, QueueInv', PromptBatchReady
  PROVE  KV!ManagerInv' /\ BatchInv'
<1>1. /\ UNCHANGED <<kvVars, running, status, len, local>> /\ pc' = "step"
      /\ pc \in {"ready", "materialize"} /\ (pc = "materialize" => output.next > Len(output.batch))
      /\ turn' = [turn EXCEPT !.decode_steps = 0] /\ output' = [output EXCEPT !.next = 1]
  BY DEF PromptBatchReady, At
<1>2. /\ KV!ManagerInv' /\ TokensAgree' /\ Lengths' /\ OnlyTooLongIgnored'
      /\ KV!Live' = KV!Live /\ GoesOn(KV!Live) /\ lookup' = lookup
  BY <1>1, StillAgrees
<1>3. BatchTypes /\ RowsDistinct /\ RowsUniform
  BY DEF EngineInv, BatchInv
<1>4. output' = [prompt |-> output.prompt, batch |-> output.batch, next |-> 1] /\ output.prompt
  BY <1>1, <1>3, OutputTypes DEF BatchTypes
<1>5. output'.prompt /\ output'.batch = output.batch /\ output'.next = 1
  BY <1>4
<1>6. BatchTypes'
  <2>1. output' \in [prompt : BOOLEAN, batch : Seq([id : Req, end : Nat]), next : Nat \ {0}]
    <3>1. 1 \in Nat \ {0}
      OBVIOUS
    <3> QED BY <1>4, <3>1, OutputTypes, Zenon
  <2>2. /\ turn' = [decode_steps |-> turn'.decode_steps, epoch |-> turn'.epoch,
                    next_prompt |-> turn'.next_prompt, cursor |-> turn'.cursor]
        /\ turn'.cursor \in Nat
    BY <1>1, <1>3 DEF BatchTypes
  <2> QED BY <1>1, <2>1, <2>2 DEF BatchTypes
<1>7. RowsDistinct'
  BY <1>3, <1>5 DEF RowsDistinct, Row
<1>8. RowsUniform'
  BY <1>1, <1>3, <1>5 DEF RowsUniform, Uniform, Row, kvVars
<1>9. RowsAgree'
  <2> SUFFICES ASSUME NEW i \in 1..Len(output.batch)
               PROVE  \A s : s = Row(i).id =>
                        /\ s \in Runs' /\ status'[s] = "RunningPrompt"
                        /\ seqs'[s].computed < Row(i).end /\ Row(i).end <= len'[s]
                        /\ Row(i).end <= Slots(s)'
    BY <1>5 DEF RowsAgree, Chosen, Row
  <2>1. PICK s, e : s = Row(i).id /\ e = Row(i).end
    OBVIOUS
  <2>2. pc = "materialize" => i < output.next
    BY <1>1, OutputTypes
  <2>3. s \in Runs /\ status[s] = "RunningPrompt" /\ seqs[s].computed < e /\ e <= len[s] /\ e <= Slots(s)
    BY <1>1, <1>4, <2>1, <2>2, RowsRun DEF Chosen
  <2>4. Runs' = Runs /\ Slots(s)' = Slots(s) /\ seqs' = seqs
    BY <1>1 DEF Runs, Slots, kvVars
  <2> QED BY <1>1, <2>1, <2>3, <2>4
<1>10. Kept' = {} /\ Scheduled' = {}
  BY <1>1, EmptyQueue DEF EngineInv, QueueInv, Phases, Kept, Scheduled
<1>11. CompletionsAgree'
  BY <1>1, <1>10 DEF CompletionsAgree
<1>12. LookupAgrees'
  BY <1>1, <1>2, LookupIdle DEF Deciding
<1> QED BY <1>2, <1>6, <1>7, <1>8, <1>9, <1>11, <1>12 DEF BatchInv

\* CUDA memory is short: the front half of the batch runs.
LEMMA RetainPromptPrefixAgrees ==
  ASSUME CacheContract, EngineInv, QueueInv', RetainPromptPrefix
  PROVE  KV!ManagerInv' /\ BatchInv'
<1>0. PICK k : k = (Len(output.batch) + 1) \div 2
  OBVIOUS
<1>1. /\ UNCHANGED <<kvVars, running, status, len, pc, local>> /\ pc = "step" /\ output.next = 1
      /\ output.prompt
      /\ output' = [output EXCEPT !.batch = SubSeq(output.batch, 1, k)]
      /\ \E v : turn' = [turn EXCEPT !.next_prompt = v]
  BY <1>0 DEF RetainPromptPrefix
<1>2. k \in 0..Len(output.batch)
  <2>1. PICK m \in Nat : m = Len(output.batch) /\ m > 1
    BY OutputTypes DEF RetainPromptPrefix
  <2>2. \A n \in Nat : n > 1 => (n + 1) \div 2 \in 0..n
    OBVIOUS
  <2>3. k \in 0..m
    BY <1>0, <2>1, <2>2
  <2> QED BY <2>1, <2>3
<1>3. PICK b \in Seq([id : Req, end : Nat]) :
         /\ b = SubSeq(output.batch, 1, k) /\ Len(b) = k
         /\ \A i \in 1..k : b[i] = output.batch[i]
  <2>1. 1 \in 1..(Len(output.batch) + 1)
    BY OutputTypes
  <2>2. SubSeq(output.batch, 1, k) \in Seq([id : Req, end : Nat])
    BY <1>2, <2>1, OutputTypes, SubSeqKeeps
  <2>3. /\ Len(SubSeq(output.batch, 1, k)) = k
        /\ \A i \in 1..k : SubSeq(output.batch, 1, k)[i] = output.batch[i]
    BY <1>2, OutputTypes
  <2> QED BY <2>2, <2>3
<1>4. /\ KV!ManagerInv' /\ TokensAgree' /\ Lengths' /\ OnlyTooLongIgnored'
      /\ KV!Live' = KV!Live /\ GoesOn(KV!Live) /\ lookup' = lookup
  BY <1>1, StillAgrees
<1>5. BatchTypes /\ RowsDistinct /\ RowsUniform
  BY DEF EngineInv, BatchInv
<1>6. output' = [prompt |-> output.prompt, batch |-> b, next |-> output.next]
  BY <1>1, <1>3, OutputTypes
<1>7. output'.prompt = output.prompt /\ output'.batch = b /\ output'.next = output.next
  BY <1>6
<1>8. BatchTypes'
  <2>1. output' \in [prompt : BOOLEAN, batch : Seq([id : Req, end : Nat]), next : Nat \ {0}]
    BY <1>3, <1>6, OutputTypes, Zenon
  <2>2. /\ turn' = [decode_steps |-> turn'.decode_steps, epoch |-> turn'.epoch,
                    next_prompt |-> turn'.next_prompt, cursor |-> turn'.cursor]
        /\ turn'.cursor \in Nat
    BY <1>1, <1>5 DEF BatchTypes
  <2> QED BY <1>1, <2>1, <2>2 DEF BatchTypes
<1>9. \A i \in 1..k : i \in 1..Len(output.batch)
  BY <1>2, OutputTypes
<1>10. RowsDistinct'
  <2> SUFFICES ASSUME NEW i \in 1..k, NEW j \in 1..k, b[i].id = b[j].id
               PROVE  i = j
    BY <1>3, <1>7 DEF RowsDistinct, Row
  <2> QED BY <1>3, <1>5, <1>9 DEF RowsDistinct, Row
<1>11. RowsUniform'
  <2> SUFFICES ASSUME NEW i \in 1..k, NEW j \in 1..k PROVE Uniform(i, j)'
    BY <1>3, <1>7 DEF RowsUniform
  <2>1. Uniform(i, j)
    BY <1>1, <1>5, <1>9 DEF RowsUniform
  <2>2. b[i] = output.batch[i] /\ b[j] = output.batch[j]
    BY <1>3
  <2> QED BY <1>1, <1>7, <2>1, <2>2 DEF Uniform, Row, kvVars
<1>12. RowsAgree'
  <2> SUFFICES ASSUME NEW i \in 1..k
               PROVE  \A s : s = b[i].id =>
                        /\ s \in Runs' /\ status'[s] = "RunningPrompt"
                        /\ seqs'[s].computed < b[i].end /\ b[i].end <= len'[s]
                        /\ b[i].end <= Slots(s)'
    BY <1>1, <1>3, <1>7 DEF RowsAgree, Chosen, Row
  <2>1. PICK s, e : s = b[i].id /\ e = b[i].end
    OBVIOUS
  <2>2. i \in 1..Len(output.batch) /\ s = Row(i).id /\ e = Row(i).end /\ i >= output.next
    BY <1>1, <1>3, <1>9, <2>1 DEF Row
  <2>3. s \in Runs /\ status[s] = "RunningPrompt" /\ seqs[s].computed < e /\ e <= len[s] /\ e <= Slots(s)
    BY <1>1, <2>2, RowsRun DEF Chosen
  <2>4. Runs' = Runs /\ Slots(s)' = Slots(s) /\ seqs' = seqs
    BY <1>1 DEF Runs, Slots, kvVars
  <2> QED BY <1>1, <2>1, <2>3, <2>4
<1>13. Kept' = {} /\ Scheduled' = {}
  BY <1>1, OutsideSchedule DEF Kept, Scheduled
<1>14. CompletionsAgree'
  BY <1>1, <1>13 DEF CompletionsAgree
<1>15. LookupAgrees'
  BY <1>1, <1>4, LookupIdle DEF Deciding
<1> QED BY <1>4, <1>8, <1>10, <1>11, <1>12, <1>14, <1>15 DEF BatchInv

\* One row of the batch runs.
LEMMA StepSequenceAgrees ==
  ASSUME CacheContract, EngineInv, QueueInv', StepSequence
  PROVE  KV!ManagerInv' /\ BatchInv'
<1>0. PICK k, s, e : k = output.next /\ s = Row(output.next).id /\ e = Row(output.next).end
  BY Zenon
<1>1. /\ UNCHANGED <<running, turn, pc, local>> /\ pc = "step" /\ k <= Len(output.batch)
      /\ KV!Forward(s, e, e) /\ output' = [output EXCEPT !.next = @ + 1]
      /\ \/ e < len[s] /\ UNCHANGED <<status, len>>
         \/ e = len[s] /\ status' = [status EXCEPT ![s] = "Done"] /\ UNCHANGED len
         \/ /\ e = len[s] /\ status' = [status EXCEPT ![s] = "RunningCompletion"]
            /\ len' = [len EXCEPT ![s] = @ + 1]
  BY <1>0 DEF StepSequence, Row
<1>2. k \in 1..Len(output.batch)
  BY <1>0, <1>1, OutputTypes
<1>3. /\ s \in Runs /\ s \in KV!Live /\ s \in Req /\ e \in Nat
      /\ status[s] \in {"RunningPrompt", "RunningCompletion"}
      /\ seqs[s].computed < e /\ e <= len[s] /\ len[s] \in Nat
  <2>1. k >= output.next
    BY <1>0, OutputTypes
  <2> QED BY <1>0, <1>1, <1>2, <2>1, RowsRun, HoldersLive DEF Chosen
<1>4. /\ KV!ManagerInv' /\ KV!Live' = KV!Live /\ lookup' = lookup /\ reqs' = reqs
      /\ GoesOn(KV!Live \ {s})
      /\ seqs'[s].computed = e /\ seqs'[s].chain = seqs[s].chain
      /\ Slots(s)' = Slots(s) /\ Promised(s)' = Promised(s)
  BY <1>1, <1>3, ForwardGoesOn DEF EngineInv
<1>5. /\ \A t \in Req \ {s} : status'[t] = status[t] /\ len'[t] = len[t]
      /\ \/ e < len[s] /\ status'[s] = status[s] /\ len'[s] = len[s]
         \/ status'[s] = "Done" /\ len'[s] = len[s]
         \/ e = len[s] /\ status'[s] = "RunningCompletion" /\ len'[s] = len[s] + 1
      /\ len' \in [Req -> Nat]
  BY <1>1, <1>3, HoldersLive
<1>6. Lengths'
  BY <1>3, <1>5 DEF EngineInv, BatchInv, Lengths
<1>7. OnlyTooLongIgnored'
  BY <1>3, <1>5 DEF EngineInv, BatchInv, OnlyTooLongIgnored, Capacity
<1>8. TokensAgree'
  <2> SUFFICES ASSUME NEW t \in KV!Live
               PROVE  /\ seqs'[t].chain = ChainOf[t]
                      /\ status'[t] \notin Finished => seqs'[t].computed < len'[t]
                      /\ status'[t] = "RunningPrompt" => KV!DivCeil(len'[t]) <= Promised(t)'
    BY <1>4 DEF TokensAgree, IsFinished
  <2>1. /\ seqs[t].chain = ChainOf[t]
        /\ status[t] \notin Finished => seqs[t].computed < len[t]
        /\ status[t] = "RunningPrompt" => KV!DivCeil(len[t]) <= Promised(t)
    BY DEF EngineInv, BatchInv, TokensAgree, IsFinished
  <2>2. CASE t = s
    BY <1>3, <1>4, <1>5, <2>1, <2>2 DEF Finished
  <2>3. CASE t # s
    <3>1. status'[t] = status[t] /\ len'[t] = len[t] /\ len[t] \in Nat
      BY <1>5, <2>3, HoldersLive
    <3>2. seqs'[t] = seqs[t] /\ Promised(t)' = Promised(t)
      BY <1>4, <2>3 DEF GoesOn, Promised
    <3> QED BY <2>1, <3>1, <3>2
  <2> QED BY <2>2, <2>3
<1>9. output' = [prompt |-> output.prompt, batch |-> output.batch, next |-> k + 1] /\ k + 1 \in Nat \ {0}
  BY <1>0, <1>1, <1>2, OutputTypes
<1>10. output'.prompt = output.prompt /\ output'.batch = output.batch /\ output'.next = k + 1
  BY <1>9
<1>11. BatchTypes'
  <2>1. output' \in [prompt : BOOLEAN, batch : Seq([id : Req, end : Nat]), next : Nat \ {0}]
    BY <1>9, OutputTypes, Zenon
  <2> QED BY <1>1, <2>1 DEF EngineInv, BatchInv, BatchTypes
<1>12. RowsDistinct /\ RowsDistinct'
  BY <1>10 DEF EngineInv, BatchInv, RowsDistinct, Row
<1>13. RowsUniform'
  BY <1>1, <1>2, <1>10 DEF RowsUniform
<1>14. RowsAgree'
  <2> SUFFICES ASSUME NEW i \in 1..Len(output.batch)
               PROVE  \A t : t = Row(i).id =>
                        /\ t \in Runs'
                        /\ i >= k + 1 =>
                             /\ status'[t] = IF output.prompt THEN "RunningPrompt" ELSE "RunningCompletion"
                             /\ seqs'[t].computed < Row(i).end /\ Row(i).end <= len'[t]
                             /\ Row(i).end <= Slots(t)'
    BY <1>1, <1>10 DEF RowsAgree, Chosen, Row
  <2>1. PICK t, f : t = Row(i).id /\ f = Row(i).end
    OBVIOUS
  <2>2. /\ t \in Runs /\ t \in KV!Live /\ t \in Req
        /\ i >= k => /\ status[t] = IF output.prompt THEN "RunningPrompt" ELSE "RunningCompletion"
                     /\ seqs[t].computed < f /\ f <= len[t] /\ f <= Slots(t)
    BY <1>0, <1>1, <2>1, RowsRun DEF Chosen
  <2>3. Runs' = Runs
    BY <1>1 DEF Runs
  <2>4. ASSUME i >= k + 1
        PROVE  /\ status'[t] = IF output.prompt THEN "RunningPrompt" ELSE "RunningCompletion"
               /\ seqs'[t].computed < f /\ f <= len'[t] /\ f <= Slots(t)'
    <3>1. i >= k /\ i # k
      BY <1>2, <2>4
    <3>2. t # s
      BY <1>0, <1>2, <1>12, <2>1, <3>1 DEF RowsDistinct
    <3>3. status'[t] = status[t] /\ len'[t] = len[t]
      BY <1>5, <2>2, <3>2
    <3>4. seqs'[t] = seqs[t] /\ Slots(t)' = Slots(t)
      BY <1>4, <2>2, <3>2 DEF GoesOn, Slots
    <3> QED BY <2>2, <3>1, <3>3, <3>4
  <2> QED BY <2>1, <2>2, <2>3, <2>4
<1>15. Kept' = {} /\ Scheduled' = {}
  BY <1>1, OutsideSchedule DEF Kept, Scheduled
<1>16. CompletionsAgree'
  BY <1>1, <1>15 DEF CompletionsAgree
<1>17. LookupAgrees'
  BY <1>1, <1>4, LookupIdle DEF Deciding
<1> QED BY <1>4, <1>6, <1>7, <1>8, <1>11, <1>12, <1>13, <1>14, <1>16, <1>17 DEF BatchInv

-----------------------------------------------------------------------------
(* A new batch. *)

\* The batch of the sequences of g, up to the token e of each.
BatchOf(g, e) == [i \in 1..Len(g) |-> [id |-> g[i], end |-> e[g[i]]]]

\* Each of them has tokens to compute before e, and as many as the others have
\* where the pipeline needs that.
ChunksOf(g, e) ==
    /\ \A s \in ToSet(g) : e[s] \in Nat /\ seqs[s].computed < e[s] /\ e[s] <= len[s]
    /\ \A s, t \in ToSet(g) : UniformPrompt => e[s] - seqs[s].computed = e[t] - seqs[t].computed

\* What a new batch needs of its sequences g and of the ends e of its rows.
NewBatch(p, g, e) ==
    /\ output' = [prompt |-> p, batch |-> BatchOf(g, e), next |-> 1]
    /\ pc' \in {"materialize", "ready", "step"} /\ (pc' # "step" => p)
    /\ ToSet(g) \subseteq Runs'
    /\ \A s \in ToSet(g) :
         /\ e[s] \in Nat /\ status[s] = IF p THEN "RunningPrompt" ELSE "RunningCompletion"
         /\ seqs[s].computed < e[s] /\ e[s] <= len[s] /\ (pc' # "materialize" => e[s] <= Slots(s))
    /\ \A s, t \in ToSet(g) :
         /\ UniformMedia \/ (p /\ UniformPrompt) => Media[s] = Media[t]
         /\ p /\ UniformPrompt => seqs[s].computed = seqs[t].computed /\ e[s] = e[t]
         /\ ~p /\ UniformCompletion => len[s] = len[t]

\* A batch that meets NewBatch agrees with the rest.
LEMMA NewBatchAgrees ==
  ASSUME UNCHANGED <<kvVars, status, len>>, NEW p \in BOOLEAN, NEW g \in Seq(Req), IsInjective(g),
         NEW e, NewBatch(p, g, e), turn'.cursor \in Nat,
         turn' = [decode_steps |-> turn'.decode_steps, epoch |-> turn'.epoch,
                  next_prompt |-> turn'.next_prompt, cursor |-> turn'.cursor]
  PROVE  BatchTypes' /\ RowsAgree' /\ RowsDistinct' /\ RowsUniform'
<1>1. PICK m \in Nat : m = Len(g)
  OBVIOUS
<1>2. PICK b : b = [i \in 1..m |-> [id |-> g[i], end |-> e[g[i]]]]
  OBVIOUS
<1>3. \A i \in 1..m : g[i] \in ToSet(g) /\ g[i] \in Req
  BY <1>1, MembersHavePositions
<1>4. b \in Seq([id : Req, end : Nat]) /\ Len(b) = m
  <2>1. \A i \in 1..m : e[g[i]] \in Nat
    BY <1>3 DEF NewBatch
  <2>2. b \in [1..m -> [id : Req, end : Nat]]
    BY <1>2, <1>3, <2>1
  <2>3. \A T : \A f \in [1..m -> T] : f \in Seq(T) /\ Len(f) = m
    BY <1>1
  <2> QED BY <2>2, <2>3
<1>5. \A i \in 1..m : b[i].id = g[i] /\ b[i].end = e[g[i]]
  BY <1>2
<1>6. output' = [prompt |-> p, batch |-> b, next |-> 1]
  BY <1>1, <1>2 DEF NewBatch, BatchOf
<1>7. output'.prompt = p /\ output'.batch = b /\ output'.next = 1
  BY <1>6
<1>8. BatchTypes'
  <2>1. output' \in [prompt : BOOLEAN, batch : Seq([id : Req, end : Nat]), next : Nat \ {0}]
    <3>1. 1 \in Nat \ {0}
      OBVIOUS
    <3> QED BY <1>4, <1>6, <3>1, Zenon
  <2> QED BY <1>7, <2>1 DEF BatchTypes, NewBatch
<1>9. RowsDistinct'
  <2>1. \A i, j \in 1..m : g[i] = g[j] => i = j
    BY <1>1, InjectiveByPositions
  <2> QED BY <1>4, <1>5, <1>7, <2>1 DEF RowsDistinct, Row
<1>10. RowsAgree'
  <2> SUFFICES ASSUME NEW i \in 1..m
               PROVE  /\ g[i] \in Runs'
                      /\ status'[g[i]] = IF p THEN "RunningPrompt" ELSE "RunningCompletion"
                      /\ seqs'[g[i]].computed < e[g[i]] /\ e[g[i]] <= len'[g[i]]
                      /\ pc' # "materialize" => \A s : s = g[i] => e[s] <= Slots(s)'
    <3>1. \A i \in 1..m : ~(i < 1)
      BY <1>1
    <3> QED BY <1>4, <1>5, <1>7, <3>1 DEF RowsAgree, Row
  <2>1. PICK s : s = g[i]
    OBVIOUS
  <2>2. /\ s \in Runs' /\ status[s] = IF p THEN "RunningPrompt" ELSE "RunningCompletion"
        /\ seqs[s].computed < e[s] /\ e[s] <= len[s] /\ (pc' # "materialize" => e[s] <= Slots(s))
    BY <1>3, <2>1 DEF NewBatch
  <2>3. Slots(s)' = Slots(s) /\ seqs' = seqs
    BY DEF Slots, kvVars
  <2> QED BY <2>1, <2>2, <2>3
<1>11. RowsUniform'
  <2> SUFFICES ASSUME NEW i \in 1..m, NEW j \in 1..m
               PROVE  Uniform(i, j)'
    BY <1>4, <1>7 DEF RowsUniform
  <2>1. PICK s, t : s = g[i] /\ t = g[j]
    OBVIOUS
  <2>2. /\ UniformMedia \/ (p /\ UniformPrompt) => Media[s] = Media[t]
        /\ p /\ UniformPrompt => seqs[s].computed = seqs[t].computed /\ e[s] = e[t]
        /\ ~p /\ UniformCompletion => len[s] = len[t]
    BY <1>3, <2>1 DEF NewBatch
  <2>3. seqs' = seqs
    BY DEF kvVars
  <2> QED BY <1>5, <1>7, <2>1, <2>2, <2>3 DEF Uniform, Row
<1> QED BY <1>8, <1>9, <1>10, <1>11

\* Turning the rows loses and doubles none.
LEMMA InTurnKeeps ==
  ASSUME NEW q \in Seq(Req), q # <<>>, turn.cursor \in Nat
  PROVE  /\ InTurn(q) \in Seq(Req) /\ ToSet(InTurn(q)) = ToSet(q)
         /\ IsInjective(q) => IsInjective(InTurn(q))
<1>1. PICK n \in Nat : n = Len(q) /\ n > 0
  OBVIOUS
<1>2. PICK k \in 0..(n - 1) : k = turn.cursor % n
  <2>1. \A c \in Nat : c % n \in 0..(n - 1)
    BY <1>1
  <2> QED BY <2>1
<1>3. k + 1 \in 1..(Len(q) + 1) /\ (k + 1) - 1 = k
  BY <1>1, <1>2
<1>4. PICK a, b : a = SubSeq(q, 1, k) /\ b = SubSeq(q, k + 1, Len(q))
  OBVIOUS
<1>5. InTurn(q) = b \o a
  BY <1>1, <1>2, <1>4 DEF InTurn
<1>6. /\ a \in Seq(Req) /\ b \in Seq(Req) /\ ToSet(a) \cup ToSet(b) = ToSet(q)
      /\ IsInjective(q) => IsInjective(a) /\ IsInjective(b) /\ ToSet(a) \cap ToSet(b) = {}
  BY <1>3, <1>4, HalvesKeep
<1>7. b \o a \in Seq(Req) /\ ToSet(b \o a) = ToSet(b) \cup ToSet(a)
  BY <1>6, ConcatIsUnion, ConcatProperties
<1>8. ASSUME IsInjective(q) PROVE IsInjective(b \o a)
  <2>1. IsInjective(a) /\ IsInjective(b) /\ ToSet(b) \cap ToSet(a) = {}
    BY <1>6, <1>8
  <2> QED BY <1>6, <2>1, ConcatInjective
<1> QED BY <1>5, <1>6, <1>7, <1>8

\* A batch of completions, each of which has its slots.
LEMMA SelectCompletionBatchAgrees ==
  ASSUME CacheContract, EngineInv, QueueInv', SelectCompletionBatch
  PROVE  KV!ManagerInv' /\ BatchInv'
<1>1. /\ UNCHANGED <<kvVars, status, len>> /\ pc = "publish" /\ pc' = "step"
      /\ running' = running \o local.prompts /\ local' = NoLocals
  BY DEF SelectCompletionBatch, At
<1>2. /\ KV!ManagerInv' /\ TokensAgree' /\ Lengths' /\ OnlyTooLongIgnored'
      /\ KV!Live' = KV!Live /\ GoesOn(KV!Live) /\ lookup' = lookup
  BY <1>1, StillAgrees
<1>3. LookupAgrees'
  BY <1>1, <1>2, LookupIdle DEF Deciding
<1>4. Kept' = {} /\ Scheduled' = {}
  BY <1>1, EmptyQueue DEF Kept, Scheduled, NoLocals
<1>5. CompletionsAgree'
  BY <1>1, <1>4 DEF CompletionsAgree
<1>6. running \in Seq(Req) /\ IsInjective(running) /\ local.prompts \in Seq(Req)
  BY QueueSets DEF EngineInv, QueueInv, Types, QueueTypes, NoneDoubled
<1>7. Runs \subseteq Runs'
  BY <1>1, <1>6, ConcatIsUnion DEF Runs
<1>8. BatchTypes
  BY DEF EngineInv, BatchInv
<1>9. CASE running = <<>>
  <2>1. output' = NoOutput /\ \E v : turn' = [turn EXCEPT !.decode_steps = v]
    BY <1>9 DEF SelectCompletionBatch
  <2>2. output'.batch = <<>> /\ output'.next = 1
    BY <2>1 DEF NoOutput
  <2>3. RowsAgree' /\ RowsDistinct' /\ RowsUniform'
    BY <2>2 DEF RowsAgree, RowsDistinct, RowsUniform
  <2>4. output' \in [prompt : BOOLEAN, batch : Seq([id : Req, end : Nat]), next : Nat \ {0}]
    <3>1. FALSE \in BOOLEAN /\ <<>> \in Seq([id : Req, end : Nat]) /\ 1 \in Nat \ {0}
      OBVIOUS
    <3> QED BY <2>1, <3>1, Zenon DEF NoOutput
  <2>5. /\ turn' = [decode_steps |-> turn'.decode_steps, epoch |-> turn'.epoch,
                    next_prompt |-> turn'.next_prompt, cursor |-> turn'.cursor]
        /\ turn'.cursor \in Nat
    BY <1>8, <2>1 DEF BatchTypes
  <2>6. BatchTypes'
    BY <1>1, <2>4, <2>5 DEF BatchTypes
  <2> QED BY <1>2, <1>3, <1>5, <2>3, <2>6 DEF BatchInv
<1>10. CASE running # <<>>
  <2>1. PICK q \in Seq(Req) : q = InTurn(running) /\ ToSet(q) = Runs /\ IsInjective(q)
    BY <1>6, <1>8, <1>10, InTurnKeeps DEF BatchTypes, Runs
  <2>2. PICK S, last :
          /\ S \in CompletionBatches(q) /\ last = Position(running, Last(Keep(q, S)))
          /\ \E v : turn' = [turn EXCEPT !.decode_steps = v, !.cursor = last % Len(running)]
          /\ output' = [prompt |-> FALSE, batch |-> WholePrompts(Keep(q, S)), next |-> 1]
    BY <1>10, <2>1 DEF SelectCompletionBatch
  <2>3. PICK g \in Seq(Req) : g = Keep(q, S) /\ ToSet(g) = Runs \cap S /\ IsInjective(g)
    BY <2>1, KeepProperties
  <2>4. g # <<>>
    <3>1. q # <<>> /\ 1 \in 1..Len(q)
      <4>1. Runs # {}
        BY <1>6, <1>10, NonemptyQueue DEF Runs
      <4>2. q # <<>>
        BY <2>1, <4>1, EmptyQueue
      <4> QED BY <2>1, <4>2
    <3>2. q[1] \in S
      BY <2>2, <3>1 DEF CompletionBatches
    <3>3. q[1] \in ToSet(q)
      BY <2>1, <3>1, MembersHavePositions
    <3> QED BY <2>1, <2>3, <3>2, <3>3, EmptyQueue
  <2>5. last % Len(running) \in Nat
    <3>1. Last(g) \in ToSet(running)
      BY <2>3, <2>4, FrontKeeps DEF Runs
    <3>2. \E i \in 1..Len(running) : running[i] = Last(g)
      BY <1>6, <3>1, MembersHavePositions
    <3>3. last \in 1..Len(running)
      BY <2>2, <2>3, <3>2 DEF Position
    <3>4. PICK n \in Nat : n = Len(running)
      BY <1>6
    <3>5. n > 0 /\ last \in Nat
      BY <3>3, <3>4
    <3>6. last % n \in Nat
      BY <3>4, <3>5
    <3> QED BY <3>4, <3>6
  <2>6. /\ turn' = [decode_steps |-> turn'.decode_steps, epoch |-> turn'.epoch,
                    next_prompt |-> turn'.next_prompt, cursor |-> turn'.cursor]
        /\ turn'.cursor \in Nat
    BY <1>8, <2>2, <2>5 DEF BatchTypes
  <2>7. CompletionsAgree
    BY DEF EngineInv, BatchInv
  <2>8. ASSUME NEW s \in ToSet(g)
        PROVE  /\ len[s] \in Nat /\ status[s] = "RunningCompletion"
               /\ seqs[s].computed < len[s] /\ len[s] <= Slots(s)
    <3>1. s \in Runs /\ s \in KV!Live
      BY <2>3, <2>8, HoldersLive
    <3> QED BY <1>1, <2>7, <3>1, RunsOn DEF CompletionsAgree
  <2>9. ASSUME NEW s \in ToSet(g), NEW t \in ToSet(g)
        PROVE  (UniformMedia => Media[s] = Media[t]) /\ (UniformCompletion => len[s] = len[t])
    <3>1. s \in Runs /\ t \in Runs
      BY <2>3
    <3>2. Mates(s, t)
      BY <1>1, <2>7, <3>1 DEF CompletionsAgree
    <3> QED BY <3>2 DEF Mates, SameMedia
  <2>10. NewBatch(FALSE, g, len)
    <3>1. ToSet(g) \subseteq Runs'
      BY <1>7, <2>3
    <3>2. output' = [prompt |-> FALSE, batch |-> BatchOf(g, len), next |-> 1]
      BY <2>2, <2>3 DEF WholePrompts, BatchOf
    <3>3. \A s \in ToSet(g) : len[s] <= len[s]
      BY <2>8
    <3> QED BY <1>1, <2>8, <2>9, <3>1, <3>2, <3>3 DEF NewBatch
  <2>11. BatchTypes' /\ RowsAgree' /\ RowsDistinct' /\ RowsUniform'
    BY <1>1, <2>3, <2>6, <2>10, NewBatchAgrees
  <2> QED BY <1>2, <1>3, <1>5, <2>11 DEF BatchInv
<1> QED BY <1>9, <1>10

-----------------------------------------------------------------------------
(* Prompt chunks. *)

\* allocate_slots cannot fail for a prompt chunk: its blocks are promised.
LEMMA ChunkHasSlots ==
  ASSUME CacheContract, EngineInv, NEW s \in KV!Live, status[s] = "RunningPrompt", NEW n \in Nat, n <= len[s]
  PROVE  HasSlots(s, n)
<1>0. SUFFICES ASSUME ~(NewBlocks(s, n) <= 0) PROVE HasSlots(s, n)
  BY DEF HasSlots
<1>1. HoldingFacts(s)
  BY SlotFacts DEF EngineInv
<1>2. PICK L \in Nat : L = Len(reqs[s].block_ids)
  BY <1>1 DEF HoldingFacts
<1>3. PICK R \in Nat : R = reqs[s].reserved_blocks /\ R <= total_reserved
  BY CacheFacts DEF EngineInv
<1>4. PICK F \in Nat, U \in Nat : F = KV!NumFree(pool) /\ U = total_reserved /\ U <= F
  BY CacheFacts DEF EngineInv
<1>5. len[s] \in Nat
  BY HoldersLive
<1>6. PICK d \in Nat : d = KV!DivCeil(len[s])
  BY <1>2, <1>5, BlocksCover
<1>7. PICK c \in Nat : c = KV!DivCeil(n) /\ c <= d
  <2>1. len[s] <= d * BlockSize
    BY <1>5, <1>6, BlocksCover
  <2>2. PICK w \in Nat : w = d * BlockSize
    BY CacheAssumption
  <2>3. n <= d * BlockSize
    BY <1>5, <2>1, <2>2
  <2> QED BY <2>3, BlocksCover
<1>8. d <= Promised(s)
  BY <1>6 DEF EngineInv, BatchInv, TokensAgree
<1>9. c - L <= R /\ c - L > 0
  BY <1>0, <1>2, <1>3, <1>7, <1>8 DEF Promised, NewBlocks
<1>10. NewBlocks(s, n) = c - L
  BY <1>2, <1>7 DEF NewBlocks
<1>11. KV!TakenFromReservation(s, c - L) = c - L
  BY <1>2, <1>3, <1>7, <1>9 DEF KV!TakenFromReservation, KV!LesserOf
<1>12. KV!NumUnreserved = F - U
  BY <1>4 DEF KV!NumUnreserved
<1>13. (c - L) - (c - L) <= F - U /\ c - L <= F
  BY <1>2, <1>3, <1>4, <1>7, <1>9
<1> QED BY <1>4, <1>10, <1>11, <1>12, <1>13 DEF HasSlots

\* Each prompt chunk gets the blocks that were promised to it: the expect of
\* materialize_prompt_chunks does not fail.
LEMMA MaterializePromptChunkAgrees ==
  ASSUME CacheContract, EngineInv, QueueInv', MaterializePromptChunk
  PROVE  KV!ManagerInv' /\ BatchInv'
<1>0. PICK k, s, e : k = output.next /\ s = Row(output.next).id /\ e = Row(output.next).end
  OBVIOUS
<1>1. /\ UNCHANGED <<running, status, len, turn, pc, local>> /\ pc = "materialize" /\ k <= Len(output.batch)
      /\ output' = [output EXCEPT !.next = @ + 1]
  BY <1>0 DEF MaterializePromptChunk, At
<1>2. k \in 1..Len(output.batch)
  BY <1>0, <1>1, OutputTypes
<1>3. output.prompt
  BY <1>1 DEF EngineInv, BatchInv, BatchTypes
<1>4. /\ s \in Runs /\ s \in KV!Live /\ s \in Req /\ e \in Nat /\ status[s] = "RunningPrompt" /\ e <= len[s]
  BY <1>0, <1>1, <1>2, <1>3, RowsRun DEF Chosen
<1>5. AllocateSlots(s, e)
  <2>1. HasSlots(s, e)
    BY <1>4, ChunkHasSlots
  <2> QED BY <1>0, <2>1 DEF MaterializePromptChunk, Row
<1>6. /\ KV!ManagerInv' /\ KV!Live' = KV!Live /\ lookup' = lookup /\ GoesOn(KV!Live) /\ e <= Slots(s)'
  BY <1>4, <1>5, AllocateGoesOn DEF EngineInv
<1>7. Lengths' /\ OnlyTooLongIgnored'
  BY <1>1, StatusSteady
<1>8. TokensAgree'
  BY <1>1, <1>6, TokensGoOn
<1>9. LookupAgrees'
  BY <1>1, <1>6, LookupIdle DEF Deciding
<1>10. Kept' = {} /\ Scheduled' = {}
  BY <1>1, EmptyQueue DEF EngineInv, QueueInv, Phases, Kept, Scheduled
<1>11. CompletionsAgree'
  BY <1>1, <1>10 DEF CompletionsAgree
<1>12. output' = [prompt |-> output.prompt, batch |-> output.batch, next |-> k + 1] /\ k + 1 \in Nat \ {0}
  BY <1>0, <1>1, <1>2, OutputTypes
<1>13. output'.prompt = output.prompt /\ output'.batch = output.batch /\ output'.next = k + 1
  BY <1>12
<1>14. BatchTypes'
  <2>1. output' \in [prompt : BOOLEAN, batch : Seq([id : Req, end : Nat]), next : Nat \ {0}]
    BY <1>12, OutputTypes, Zenon
  <2> QED BY <1>1, <1>3, <1>13, <2>1 DEF EngineInv, BatchInv, BatchTypes
<1>15. RowsDistinct'
  BY <1>13 DEF EngineInv, BatchInv, RowsDistinct, Row
<1>16. RowsUniform'
  <2> SUFFICES ASSUME NEW i \in 1..Len(output.batch), NEW j \in 1..Len(output.batch) PROVE Uniform(i, j)'
    BY <1>13 DEF RowsUniform
  <2>1. Uniform(i, j)
    BY <1>1 DEF EngineInv, BatchInv, RowsUniform
  <2>2. Row(i).id \in KV!Live /\ Row(j).id \in KV!Live
    BY <1>1, RowsRun DEF Chosen
  <2>3. seqs'[Row(i).id] = seqs[Row(i).id] /\ seqs'[Row(j).id] = seqs[Row(j).id]
    BY <1>6, <2>2 DEF GoesOn
  <2> QED BY <1>1, <1>13, <2>1, <2>3 DEF Uniform, Row
<1>17. RowsAgree'
  <2> SUFFICES ASSUME NEW i \in 1..Len(output.batch)
               PROVE  \A t : t = Row(i).id =>
                        /\ t \in Runs' /\ status'[t] = "RunningPrompt"
                        /\ seqs'[t].computed < Row(i).end /\ Row(i).end <= len'[t]
                        /\ i < k + 1 => Row(i).end <= Slots(t)'
    BY <1>1, <1>3, <1>13 DEF RowsAgree, Chosen, Row
  <2>1. PICK t, f : t = Row(i).id /\ f = Row(i).end
    OBVIOUS
  <2>2. /\ t \in Runs /\ t \in KV!Live /\ f \in Nat /\ status[t] = "RunningPrompt"
        /\ seqs[t].computed < f /\ f <= len[t] /\ (i < k => f <= Slots(t))
    BY <1>0, <1>1, <1>3, <2>1, RowsRun DEF Chosen
  <2>3. Runs' = Runs
    BY <1>1 DEF Runs
  <2>4. seqs'[t] = seqs[t] /\ Slots(t) \in Nat /\ Slots(t)' \in Nat /\ Slots(t)' >= Slots(t)
    BY <1>6, <2>2 DEF GoesOn
  <2>5. ASSUME i < k + 1 PROVE f <= Slots(t)'
    <3>1. CASE i = k
      BY <1>0, <1>6, <2>1, <3>1
    <3>2. CASE i < k
      BY <2>2, <2>4, <3>2
    <3> QED BY <1>2, <2>5, <3>1, <3>2
  <2> QED BY <1>1, <2>1, <2>2, <2>3, <2>4, <2>5
<1> QED BY <1>6, <1>7, <1>8, <1>9, <1>11, <1>14, <1>15, <1>16, <1>17 DEF BatchInv

\* The prefill budget is never zero, so that a chunk has at least one token.
LEMMA BudgetPositive ==
  ASSUME NEW epoch, NEW latency
  PROVE  /\ PrefillTokenBudget(epoch, latency) \in Nat \ {0}
         /\ \A n \in Nat \ {0} : PromptChunkSize(PrefillTokenBudget(epoch, latency), n, latency) \in Nat \ {0}
<1>1. MaxBatchedTokens \in Nat \ {0} /\ MaxPrefillChunk \in Nat \ {0}
  BY SchedulerAssumption
<1>2. PICK b \in Nat \ {0} : b = PrefillTokenBudget(epoch, latency)
  BY <1>1 DEF PrefillTokenBudget, KV!LesserOf
<1>3. ASSUME NEW n \in Nat \ {0} PROVE PromptChunkSize(b, n, latency) \in Nat \ {0}
  <2>1. PICK even \in Nat \ {0} : even = IF b \div n = 0 THEN 1 ELSE b \div n
    <3>1. \A x, y \in Nat : y > 0 => x \div y \in Nat
      OBVIOUS
    <3>2. b \div n \in Nat
      BY <3>1
    <3> QED BY <3>2
  <2>2. PromptChunkSize(b, n, latency) = IF latency THEN KV!LesserOf(even, MaxPrefillChunk) ELSE even
    BY <2>1 DEF PromptChunkSize
  <2> QED BY <1>1, <2>1, <2>2 DEF KV!LesserOf
<1> QED BY <1>2, <1>3

\* The rows of a batch of chunks.
LEMMA VisibleBatchRows ==
  ASSUME CacheContract, EngineInv, pc = "prompt", NEW c \in Seq(Req), c # <<>>, IsInjective(c), ToSet(c) \subseteq KV!Live
  PROVE  \E g, e : /\ g \in Seq(Req) /\ IsInjective(g) /\ ToSet(g) \subseteq ToSet(c)
                   /\ VisibleBatch(c) = BatchOf(g, e) /\ ChunksOf(g, e)
<1> DEFINE latency   == \E s \in ToSet(running) : status[s] = "RunningCompletion"
           budget    == PrefillTokenBudget(turn.epoch, latency)
           cands     == SubSeq(c, 1, KV!LesserOf(Len(c), budget))
           chunk     == PromptChunkSize(budget, Len(cands), latency)
           End(s)    == KV!LesserOf(Computed(s) + chunk, len[s])
           Final(s)  == End(s) = len[s]
           Length(s) == End(s) - Computed(s)
           first     == cands[1]
           G         == {s \in ToSet(cands) :
                           /\ Final(s) <=> Final(first)
                           /\ UniformPrompt \/ ~PackedPrefill => Length(s) = Length(first)}
           g         == Keep(cands, G)
           e         == [s \in Req |-> End(s)]
<1>1. budget \in Nat \ {0}
  BY BudgetPositive
<1>2. PICK m \in Nat \ {0} : m = KV!LesserOf(Len(c), budget) /\ m <= Len(c)
  <2>1. Len(c) \in Nat \ {0}
    OBVIOUS
  <2> HIDE DEF budget
  <2> QED BY <1>1, <2>1 DEF KV!LesserOf
<1>11. m <= Len(c)
  BY <1>2
<1>3. cands \in Seq(Req) /\ IsInjective(cands) /\ ToSet(cands) \subseteq ToSet(c) /\ Len(cands) = m
  <2>0. PICK n \in Nat : n = Len(c)
    OBVIOUS
  <2>1. 1 \in 1..(Len(c) + 1) /\ m \in 0..Len(c) /\ cands = SubSeq(c, 1, m)
    <3>1. cands = SubSeq(c, 1, m)
      BY <1>2, Zenon
    <3>2. 1 \in 1..(n + 1) /\ m \in 0..n
      BY <1>11, <2>0
    <3> QED BY <2>0, <3>1, <3>2
  <2>2. /\ SubSeq(c, 1, m) \in Seq(Req) /\ IsInjective(SubSeq(c, 1, m))
        /\ \A x : x \in ToSet(SubSeq(c, 1, m)) <=> \E i \in 1..m : c[i] = x
    BY <2>1, SubSeqKeeps
  <2>3. \A i \in 1..m : c[i] \in ToSet(c)
    <3>1. \A i \in 1..m : i \in 1..n
      BY <1>11, <2>0
    <3> QED BY <2>0, <3>1, MembersHavePositions
  <2>4. Len(SubSeq(c, 1, m)) = m
    <3>1. m <= n /\ 1 \in Nat
      BY <1>11, <2>0
    <3> HIDE DEF cands, chunk, budget
    <3> QED BY <2>0, <2>1, <3>1
  <2> QED BY <2>1, <2>2, <2>3, <2>4
<1>4. chunk \in Nat \ {0}
  BY <1>2, <1>3, BudgetPositive
<1> HIDE DEF cands, chunk, budget
<1>5. g \in Seq(Req) /\ IsInjective(g) /\ ToSet(g) = ToSet(cands) \cap G
  BY <1>3, KeepProperties
<1>6. ToSet(g) \subseteq ToSet(c) /\ ToSet(g) \subseteq KV!Live /\ ToSet(g) \subseteq Req
  BY <1>3, <1>5, HoldersLive
<1>7. ASSUME NEW s \in ToSet(g)
      PROVE  /\ e[s] = End(s) /\ e[s] \in Nat /\ seqs[s].computed < e[s] /\ e[s] <= len[s]
             /\ Computed(s) = seqs[s].computed
  <2>1. Computed(s) = seqs[s].computed /\ len[s] \in Nat /\ seqs[s].computed \in Nat /\ seqs[s].computed < len[s]
    BY <1>6, RunsOn
  <2>2. e[s] = End(s)
    BY <1>6
  <2>3. End(s) \in Nat /\ seqs[s].computed < End(s) /\ End(s) <= len[s]
    BY <1>4, <2>1 DEF KV!LesserOf
  <2> QED BY <2>1, <2>2, <2>3
<1>8. ASSUME NEW s \in ToSet(g), NEW t \in ToSet(g), UniformPrompt
      PROVE  e[s] - seqs[s].computed = e[t] - seqs[t].computed
  <2>1. Length(s) = Length(first) /\ Length(t) = Length(first)
    BY <1>5, <1>8
  <2> QED BY <1>7, <2>1
<1>9. VisibleBatch(c) = BatchOf(g, e)
  <2>1. VisibleBatch(c) = [i \in 1..Len(g) |-> [id |-> g[i], end |-> End(g[i])]]
    BY Zenon DEF VisibleBatch, cands, chunk, budget
  <2>2. \A i \in 1..Len(g) : e[g[i]] = End(g[i])
    BY <1>5, <1>7, MembersHavePositions
  <2> HIDE DEF g, e, End
  <2> QED BY <2>1, <2>2, Zenon DEF BatchOf
<1> HIDE DEF g, e, End
<1>10. ChunksOf(g, e)
  BY <1>7, <1>8 DEF ChunksOf
<1> QED BY <1>5, <1>6, <1>9, <1>10, Zenon

-----------------------------------------------------------------------------
(* The prompt batch. *)

\* The first candidate is in its own batch, and the others go with it.
LEMMA CompatibleKeeps ==
  ASSUME NEW q \in Seq(Req), q # <<>>, IsInjective(q)
  PROVE  /\ Compatible(q) \in Seq(Req) /\ IsInjective(Compatible(q)) /\ Compatible(q) # <<>>
         /\ ToSet(Compatible(q)) \subseteq ToSet(q)
         /\ \A s \in ToSet(Compatible(q)) :
               /\ s \in Visible <=> q[1] \in Visible
               /\ UniformPrompt \/ UniformMedia => Media[s] = Media[q[1]]
               /\ UniformPrompt /\ q[1] \in Visible => Computed(s) = Computed(q[1])
<1> DEFINE C == {s \in ToSet(q) : /\ s \in Visible <=> q[1] \in Visible
                                  /\ UniformPrompt \/ UniformMedia => Media[s] = Media[q[1]]
                                  /\ UniformPrompt /\ q[1] \in Visible => Computed(s) = Computed(q[1])}
<1>1. Compatible(q) = Keep(q, C)
  BY DEF Compatible
<1>2. Keep(q, C) \in Seq(Req) /\ IsInjective(Keep(q, C)) /\ ToSet(Keep(q, C)) = ToSet(q) \cap C
  BY KeepProperties
<1>3. q[1] \in ToSet(q)
  <2>1. 1 \in 1..Len(q)
    OBVIOUS
  <2> QED BY <2>1, MembersHavePositions
<1>4. q[1] \in C
  BY <1>3
<1>5. Keep(q, C) # <<>>
  BY <1>2, <1>3, <1>4, EmptyQueue
<1> QED BY <1>1, <1>2, <1>5

\* The rows of a batch of whole prompts.
LEMMA WholePromptRows ==
  ASSUME CacheContract, EngineInv, pc = "prompt", NEW c \in Seq(Req), IsInjective(c), ToSet(c) \subseteq KV!Live
  PROVE  \E g \in Seq(Req) : /\ g = WholePromptBucket(c) /\ IsInjective(g) /\ ToSet(g) \subseteq ToSet(c)
                             /\ ChunksOf(g, len)
                             /\ \A s, t \in ToSet(g) : Computed(s) = Computed(t)
<1> DEFINE uniform == UniformPrompt \/ \E i \in 1..Len(c) : Computed(c[i]) > 0
           Ragged(s) == (len[s] + RaggedBucketTokens - 1) \div RaggedBucketTokens
           Size(s) == IF uniform THEN Uncomputed(s) ELSE IF PackedPrefill THEN 0 ELSE Ragged(s)
           Key(s)  == <<Size(s), Computed(s), IF uniform \/ UniformMedia THEN Media[s] ELSE 0>>
           K       == {s \in ToSet(c) : Key(s) = Key(c[1])}
           g       == Keep(c, K)
<1>1. g = WholePromptBucket(c)
  BY Zenon DEF WholePromptBucket
<1>2. g \in Seq(Req) /\ IsInjective(g) /\ ToSet(g) = ToSet(c) \cap K
  BY KeepProperties
<1>3. ASSUME NEW s \in ToSet(g)
      PROVE  /\ len[s] \in Nat /\ seqs[s].computed < len[s] /\ len[s] <= len[s]
             /\ seqs[s].computed \in Nat /\ Computed(s) = seqs[s].computed
             /\ Uncomputed(s) = len[s] - seqs[s].computed
  <2>1. s \in KV!Live
    BY <1>2
  <2> QED BY <2>1, RunsOn
<1>4. ASSUME NEW s \in ToSet(g), NEW t \in ToSet(g)
      PROVE  Computed(s) = Computed(t) /\ (UniformPrompt => Uncomputed(s) = Uncomputed(t))
  <2>1. Key(s) = Key(t)
    BY <1>2
  <2>2. Computed(s) = Computed(t) /\ Size(s) = Size(t)
    BY <2>1
  <2> QED BY <2>2
<1>5. ChunksOf(g, len)
  <2> HIDE DEF g
  <2>1. \A s \in ToSet(g) : len[s] \in Nat /\ seqs[s].computed < len[s] /\ len[s] <= len[s]
    BY <1>3
  <2>2. \A s, t \in ToSet(g) : UniformPrompt => len[s] - seqs[s].computed = len[t] - seqs[t].computed
    BY <1>3, <1>4
  <2> QED BY <2>1, <2>2 DEF ChunksOf
<1> HIDE DEF g
<1> QED BY <1>1, <1>2, <1>4, <1>5

\* A batch of prompts: chunks of one round, or whole prompts of one bucket.
LEMMA SelectPromptBatchAgrees ==
  ASSUME CacheContract, EngineInv, QueueInv', SelectPromptBatch
  PROVE  KV!ManagerInv' /\ BatchInv'
<1>1. UNCHANGED <<kvVars, status, len>> /\ pc = "prompt" /\ local.scheduled # <<>>
  BY DEF SelectPromptBatch, At
<1>2. /\ KV!ManagerInv' /\ TokensAgree' /\ Lengths' /\ OnlyTooLongIgnored'
      /\ KV!Live' = KV!Live /\ GoesOn(KV!Live) /\ lookup' = lookup
  BY <1>1, StillAgrees
<1>3. local.scheduled \in Seq(Req) /\ IsInjective(local.scheduled) /\ running \in Seq(Req)
  BY QueueSets DEF EngineInv, QueueInv, Types, QueueTypes, NoneDoubled
<1>4. PICK q \in Seq(Req) : q = Rotated(local.scheduled) /\ ToSet(q) = Scheduled /\ IsInjective(q) /\ q # <<>>
  <2>1. /\ Rotated(local.scheduled) \in Seq(Req) /\ ToSet(Rotated(local.scheduled)) = Scheduled
        /\ IsInjective(Rotated(local.scheduled))
    BY <1>3, RotatedKeeps DEF Scheduled
  <2>2. Scheduled # {}
    BY <1>1, <1>3, NonemptyQueue DEF Scheduled
  <2> QED BY <2>1, <2>2, EmptyQueue
<1>5. PICK c \in Seq(Req) :
        /\ c = Compatible(q) /\ IsInjective(c) /\ c # <<>> /\ ToSet(c) \subseteq Scheduled
        /\ \A s \in ToSet(c) : /\ s \in Visible <=> q[1] \in Visible
                               /\ UniformPrompt \/ UniformMedia => Media[s] = Media[q[1]]
                               /\ UniformPrompt /\ q[1] \in Visible => Computed(s) = Computed(q[1])
  BY <1>4, CompatibleKeeps
<1>6. ASSUME NEW s \in ToSet(c)
      PROVE  /\ s \in Runs /\ s \in KV!Live /\ s \in Req /\ status[s] = "RunningPrompt"
             /\ Computed(s) = seqs[s].computed
  <2>1. s \in Scheduled /\ s \in Runs /\ s \in KV!Live /\ s \in Req
    BY <1>5, <1>6, HoldersLive DEF EngineInv, QueueInv, Candidates
  <2>2. status[s] = "RunningPrompt"
    BY <2>1 DEF EngineInv, BatchInv, CompletionsAgree
  <2> QED BY <1>1, <2>1, <2>2, RunsOn
<1>7. ToSet(c) \subseteq KV!Live
  BY <1>6
<1>8. \E v, d : turn' = [turn EXCEPT !.next_prompt = v] /\ local' = [NoLocals EXCEPT !.doomed = d]
  BY DEF SelectPromptBatch
<1>9. /\ turn' = [decode_steps |-> turn'.decode_steps, epoch |-> turn'.epoch,
                  next_prompt |-> turn'.next_prompt, cursor |-> turn'.cursor]
      /\ turn'.cursor \in Nat
  BY <1>8 DEF EngineInv, BatchInv, BatchTypes
<1>10. \E g, e : g \in Seq(Req) /\ IsInjective(g) /\ NewBatch(TRUE, g, e)
  <2>1. CASE q[1] \in Visible
    <3>1. /\ output' = [prompt |-> TRUE, batch |-> VisibleBatch(c), next |-> 1]
          /\ running' = Dropping(running, ToSet(<<>>)) /\ pc' = "materialize"
      BY <1>4, <1>5, <2>1 DEF SelectPromptBatch
    <3>2. Runs' = Runs
      <4>1. ToSet(Dropping(running, {})) = ToSet(running) \ {}
        BY <1>3, DroppingKeeps
      <4>2. running' = Dropping(running, {})
        BY <3>1, EmptyQueue
      <4> QED BY <4>1, <4>2 DEF Runs
    <3>3. PICK g, e : /\ g \in Seq(Req) /\ IsInjective(g) /\ ToSet(g) \subseteq ToSet(c)
                      /\ VisibleBatch(c) = BatchOf(g, e) /\ ChunksOf(g, e)
      BY <1>1, <1>5, <1>7, VisibleBatchRows
    <3>4. \A s \in ToSet(g) : e[s] \in Nat /\ seqs[s].computed < e[s] /\ e[s] <= len[s]
      BY <3>3 DEF ChunksOf
    <3>5. ASSUME NEW s \in ToSet(g), NEW t \in ToSet(g)
          PROVE  /\ UniformMedia \/ UniformPrompt => Media[s] = Media[t]
                 /\ UniformPrompt => seqs[s].computed = seqs[t].computed /\ e[s] = e[t]
      <4>1. UniformMedia \/ UniformPrompt => Media[s] = Media[t]
        BY <1>5, <3>3
      <4>2. ASSUME UniformPrompt PROVE seqs[s].computed = seqs[t].computed /\ e[s] = e[t]
        <5>1. seqs[s].computed = seqs[t].computed
          BY <1>5, <1>6, <2>1, <3>3, <4>2
        <5>2. e[s] - seqs[s].computed = e[t] - seqs[t].computed
          BY <3>3, <4>2 DEF ChunksOf
        <5>3. seqs[s].computed \in Nat
          BY <1>1, <1>7, <3>3, RunsOn
        <5> QED BY <3>4, <5>1, <5>2, <5>3
      <4> QED BY <4>1, <4>2
    <3>6. ToSet(g) \subseteq Runs'
      BY <1>6, <3>2, <3>3
    <3>7. \A s \in ToSet(g) : status[s] = "RunningPrompt"
      BY <1>6, <3>3
    <3>8. NewBatch(TRUE, g, e)
      BY <3>1, <3>3, <3>4, <3>5, <3>6, <3>7 DEF NewBatch
    <3> QED BY <3>3, <3>8
  <2>2. CASE q[1] \notin Visible
    <3>1. /\ output' = [prompt |-> TRUE, batch |-> WholePrompts(WholePromptBucket(c)), next |-> 1]
          /\ running' = Dropping(running, ToSet(Dropping(c, ToSet(WholePromptBucket(c))))) /\ pc' = "ready"
      BY <1>4, <1>5, <2>2 DEF SelectPromptBatch
    <3>2. PICK g \in Seq(Req) : /\ g = WholePromptBucket(c) /\ IsInjective(g) /\ ToSet(g) \subseteq ToSet(c)
                                /\ ChunksOf(g, len)
                                /\ \A s, t \in ToSet(g) : Computed(s) = Computed(t)
      BY <1>1, <1>5, <1>7, WholePromptRows
    <3>3. ToSet(g) \subseteq Runs'
      <4>1. ToSet(Dropping(c, ToSet(g))) = ToSet(c) \ ToSet(g)
        BY DroppingKeeps
      <4>2. Runs' = Runs \ (ToSet(c) \ ToSet(g))
        BY <1>3, <3>1, <3>2, <4>1, DroppingKeeps DEF Runs
      <4> QED BY <1>6, <3>2, <4>2
    <3>4. ASSUME NEW s \in ToSet(g)
          PROVE  /\ len[s] \in Nat /\ status[s] = "RunningPrompt"
                 /\ seqs[s].computed < len[s] /\ len[s] <= len[s] /\ len[s] <= Slots(s)
      <4>1. len[s] \in Nat /\ seqs[s].computed < len[s] /\ len[s] <= len[s]
        BY <3>2 DEF ChunksOf
      <4>2. s \in KV!Live /\ status[s] = "RunningPrompt" /\ s \notin Visible
        BY <1>5, <1>6, <2>2, <3>2
      <4>3. PICK L \in Nat : L = Len(reqs[s].block_ids)
        <5>1. HoldingFacts(s)
          BY <4>2, SlotFacts DEF EngineInv
        <5> QED BY <5>1 DEF HoldingFacts
      <4>4. KV!DivCeil(len[s]) <= Promised(s)
        BY <4>2 DEF EngineInv, BatchInv, TokensAgree
      <4>5. PICK d \in Nat : d = KV!DivCeil(len[s])
        BY <4>1, <4>3, BlocksCover
      <4>6. d <= L
        BY <4>2, <4>3, <4>4, <4>5 DEF Promised
      <4>7. len[s] <= Slots(s)
        BY <4>1, <4>3, <4>5, <4>6, BlocksCover DEF Slots
      <4> QED BY <4>1, <4>2, <4>7
    <3>5. ASSUME NEW s \in ToSet(g), NEW t \in ToSet(g)
          PROVE  /\ UniformMedia \/ UniformPrompt => Media[s] = Media[t]
                 /\ UniformPrompt => seqs[s].computed = seqs[t].computed /\ len[s] = len[t]
      <4>1. UniformMedia \/ UniformPrompt => Media[s] = Media[t]
        BY <1>5, <3>2
      <4>2. ASSUME UniformPrompt PROVE seqs[s].computed = seqs[t].computed /\ len[s] = len[t]
        <5>1. seqs[s].computed = seqs[t].computed
          BY <1>6, <3>2, <3>5
        <5>2. len[s] - seqs[s].computed = len[t] - seqs[t].computed
          BY <3>2, <4>2 DEF ChunksOf
        <5>3. seqs[s].computed \in Nat
          BY <1>1, <1>7, <3>2, RunsOn
        <5> QED BY <3>4, <5>1, <5>2, <5>3
      <4> QED BY <4>1, <4>2
    <3>6. WholePrompts(g) = BatchOf(g, len)
      BY DEF WholePrompts, BatchOf
    <3>7. NewBatch(TRUE, g, len)
      BY <3>1, <3>2, <3>3, <3>4, <3>5, <3>6 DEF NewBatch
    <3> QED BY <3>2, <3>7
  <2> QED BY <2>1, <2>2
<1>11. BatchTypes' /\ RowsAgree' /\ RowsDistinct' /\ RowsUniform'
  BY <1>1, <1>9, <1>10, NewBatchAgrees
<1>12. pc' \in {"materialize", "ready"}
  BY DEF SelectPromptBatch
<1>13. Kept' = {} /\ Scheduled' = {}
  BY <1>8, EmptyQueue DEF Kept, Scheduled, NoLocals
<1>14. CompletionsAgree'
  BY <1>12, <1>13 DEF CompletionsAgree
<1>15. LookupAgrees'
  BY <1>1, <1>2, <1>12, LookupIdle DEF Deciding
<1> QED BY <1>2, <1>11, <1>14, <1>15 DEF BatchInv

-----------------------------------------------------------------------------
(* The manager under the scheduler. *)

\* The manager's proofs, for the constants that the scheduler gives it.  KV and KVP
\* are the same manager; the lemmas Same... say so where it is needed.
KVP == INSTANCE KVCacheManagerProofs WITH
    Lease <- {}, DebugAssertions <- TRUE, MaxTokens <- 0,
    Chains <- {ChainOf[s] : s \in Req}

\* The two instances count, collect and reverse alike.
LEMMA SameCount ==
  ASSUME NEW S
  PROVE  /\ KV!Cardinality(S) = Cardinality(S) /\ KVP!Cardinality(S) = Cardinality(S)
         /\ KV!ToSet(S) = ToSet(S) /\ KVP!ToSet(S) = ToSet(S)
         /\ KV!Reverse(S) = Reverse(S) /\ KVP!Reverse(S) = Reverse(S)
<1>1. KV!Cardinality(S) = Cardinality(S)
  BY DEF KV!Cardinality, Cardinality
<1>2. KVP!Cardinality(S) = Cardinality(S)
  BY DEF KVP!Cardinality, Cardinality
<1>3. /\ KV!ToSet(S) = ToSet(S) /\ KVP!ToSet(S) = ToSet(S)
  BY DEF KV!ToSet, KVP!ToSet, ToSet
<1>4. /\ KV!Reverse(S) = Reverse(S) /\ KVP!Reverse(S) = Reverse(S)
  BY DEF KV!Reverse, KVP!Reverse, Reverse
<1> QED BY <1>1, <1>2, <1>3, <1>4

\* They select from queues alike.
LEMMA SameKeep ==
  ASSUME NEW q, NEW S
  PROVE  /\ KV!Keep(q, S) = Keep(q, S) /\ KVP!Keep(q, S) = Keep(q, S)
         /\ KV!Positions(q, S) = Positions(q, S) /\ KVP!Positions(q, S) = Positions(q, S)
         /\ KV!InOrder(S) = InOrder(S) /\ KVP!InOrder(S) = InOrder(S)
         /\ KV!Picked(q, S) = Picked(q, S) /\ KVP!Picked(q, S) = Picked(q, S)
<1>1. \A T : /\ KV!InOrder(T) = InOrder(T)
  BY SameCount, Zenon DEF KV!InOrder, InOrder, KV!Increasing, Increasing, KV!Cardinality, Cardinality
<1>2. \A T : /\ KVP!InOrder(T) = InOrder(T)
  BY SameCount, Zenon DEF KVP!InOrder, InOrder, KVP!Increasing, Increasing, KVP!Cardinality, Cardinality
<1>3. \A p, T : /\ KV!Positions(p, T) = Positions(p, T) /\ KVP!Positions(p, T) = Positions(p, T)
  BY Zenon DEF KV!Positions, KVP!Positions, Positions
<1>4. \A p, T : /\ KV!Picked(p, T) = Picked(p, T) /\ KVP!Picked(p, T) = Picked(p, T)
  BY Zenon DEF KV!Picked, KVP!Picked, Picked
<1>5. KV!Keep(q, S) = Keep(q, S)
  BY <1>1, <1>3, <1>4 DEF KV!Keep, Keep
<1>6. KVP!Keep(q, S) = Keep(q, S)
  BY <1>2, <1>3, <1>4 DEF KVP!Keep, Keep
<1> QED BY <1>1, <1>2, <1>3, <1>4, <1>5, <1>6

\* They agree on the manager's basic terms.
LEMMA SameBasics ==
  /\ KV!Live = KVP!Live /\ KV!Block = KVP!Block /\ (KV!Running <=> KVP!Running) /\ KV!Slot = KVP!Slot
  /\ KV!NoLookup = KVP!NoLookup /\ KV!NoBlock = KVP!NoBlock /\ KV!NumUnreserved = KVP!NumUnreserved
  /\ KV!NumEvictable = KVP!NumEvictable
  /\ \A n : KV!DivCeil(n) = KVP!DivCeil(n)
  /\ \A m, n : KV!LesserOf(m, n) = KVP!LesserOf(m, n)
  /\ \A f, r : KV!Without(f, r) = KVP!Without(f, r)
  /\ \A f, r, v : KV!With(f, r, v) = KVP!With(f, r, v)
  /\ \A p : KV!NumFree(p) = KVP!NumFree(p) /\ KV!NotAllocated(p) = KVP!NotAllocated(p)
  /\ \A p, holds : KV!Check(p, holds) = KVP!Check(p, holds) /\ KV!DebugCheck(p, holds) = KVP!DebugCheck(p, holds)
<1>1. KV!Live = KVP!Live /\ KV!Block = KVP!Block /\ (KV!Running <=> KVP!Running) /\ KV!Slot = KVP!Slot
      /\ KV!NoLookup = KVP!NoLookup /\ KV!NoBlock = KVP!NoBlock
  BY Zenon DEF KV!Live, KVP!Live, KV!Block, KVP!Block, KV!Running, KVP!Running, KV!Slot, KVP!Slot,
     KV!NoLookup, KVP!NoLookup, KV!NoBlock, KVP!NoBlock
<1>2. \A p : KV!NumFree(p) = KVP!NumFree(p) /\ KV!NotAllocated(p) = KVP!NotAllocated(p)
  BY Zenon DEF KV!NumFree, KVP!NumFree, KV!NotAllocated, KVP!NotAllocated
<1>3. KV!NumUnreserved = KVP!NumUnreserved
  BY <1>2, Zenon DEF KV!NumUnreserved, KVP!NumUnreserved
<1>4. KV!NumEvictable = KVP!NumEvictable
  BY SameCount, Zenon DEF KV!NumEvictable, KVP!NumEvictable
<1>5. /\ \A n : KV!DivCeil(n) = KVP!DivCeil(n)
      /\ \A m, n : KV!LesserOf(m, n) = KVP!LesserOf(m, n)
  BY Zenon DEF KV!DivCeil, KVP!DivCeil, KV!LesserOf, KVP!LesserOf
<1>6. /\ \A f, r : KV!Without(f, r) = KVP!Without(f, r)
      /\ \A f, r, v : KV!With(f, r, v) = KVP!With(f, r, v)
  BY Zenon DEF KV!Without, KVP!Without, KV!With, KVP!With
<1>7. \A p, holds : KV!Check(p, holds) = KVP!Check(p, holds) /\ KV!DebugCheck(p, holds) = KVP!DebugCheck(p, holds)
  BY Zenon DEF KV!Check, KVP!Check, KV!DebugCheck, KVP!DebugCheck
<1> QED BY <1>1, <1>2, <1>3, <1>4, <1>5, <1>6, <1>7, Zenon

\* They agree on how often a block is listed, and where first.
LEMMA SameListed ==
  ASSUME NEW bs, NEW b
  PROVE  KV!Listed(bs, b) = KVP!Listed(bs, b) /\ KV!Firsts(bs) = KVP!Firsts(bs)
<1>1. KV!Listed(bs, b) = KVP!Listed(bs, b)
  BY SameCount, Zenon DEF KV!Listed, KVP!Listed
<1>2. KV!Firsts(bs) = KVP!Firsts(bs)
  <2> DEFINE I == {i \in 1..Len(bs) : \A j \in 1..(i - 1) : bs[j] # bs[i]}
  <2>1. KV!InOrder(I) = KVP!InOrder(I)
    BY SameKeep, Zenon
  <2>2. KV!Picked(bs, KV!InOrder(I)) = KVP!Picked(bs, KVP!InOrder(I))
    BY <2>1, SameKeep, ZenonT(40)
  <2> QED BY <2>2, Zenon DEF KV!Firsts, KVP!Firsts
<1> QED BY <1>1, <1>2

\* They release blocks alike.
LEMMA SameRelease ==
  ASSUME NEW p, NEW bs, NEW pinned
  PROVE  KV!ReleaseBlocks(p, bs, pinned) = KVP!ReleaseBlocks(p, bs, pinned)
<1> DEFINE idle == {b \in ToSet(bs) : p.ref_cnt[b] = KVP!Listed(bs, b)}
           free == [p EXCEPT !.ref_cnt = [b \in KVP!Block |-> @[b] - KVP!Listed(bs, b)],
                             !.retained_free = @ + Cardinality(idle \cap pinned),
                             !.queue = @ \o Keep(KVP!Firsts(bs), idle \ pinned)]
           good == \A b \in ToSet(bs) : p.ref_cnt[b] >= KVP!Listed(bs, b)
<1>1. KVP!ReleaseBlocks(p, bs, pinned) = KVP!Check(free, good)
  BY SameCount, SameKeep DEF KVP!ReleaseBlocks
<1>2. KV!ReleaseBlocks(p, bs, pinned) = KVP!Check(free, good)
  <2>1. {b \in KV!ToSet(bs) : p.ref_cnt[b] = KV!Listed(bs, b)} = idle
    BY SameCount, SameListed
  <2>2. [b \in KV!Block |-> p.ref_cnt[b] - KV!Listed(bs, b)] = [b \in KVP!Block |-> p.ref_cnt[b] - KVP!Listed(bs, b)]
    BY SameBasics, SameListed
  <2>3. (\A b \in KV!ToSet(bs) : p.ref_cnt[b] >= KV!Listed(bs, b)) <=> good
    BY SameCount, SameListed
  <2> QED BY <2>1, <2>2, <2>3, SameBasics, SameCount, SameListed, SameKeep DEF KV!ReleaseBlocks
<1> QED BY <1>1, <1>2

\* Without a retention request pending, free_blocks is the same of both.
LEMMA SameFreeBlocks ==
  ASSUME NEW p, ~p.dirty, NEW bs
  PROVE  KV!FreeBlocks(p, bs) = KVP!FreeBlocks(p, bs)
<1>1. KV!SyncRetention(p) = {p} /\ KVP!SyncRetention(p) = {p}
  BY DEF KV!SyncRetention, KVP!SyncRetention
<1> DEFINE pinned == {b \in KVP!Block : p.retention_count[b] > 0}
<1>2. KV!FreeBlocks(p, bs) = {KV!ReleaseBlocks(p, bs, pinned)}
  BY <1>1, SameBasics DEF KV!FreeBlocks
<1>3. KVP!FreeBlocks(p, bs) = {KVP!ReleaseBlocks(p, bs, pinned)}
  BY <1>1 DEF KVP!FreeBlocks
<1> QED BY <1>2, <1>3, SameRelease

\* So is touch.
LEMMA SameTouch ==
  ASSUME NEW p, ~p.dirty, NEW bs
  PROVE  KV!Touch(p, bs) = KVP!Touch(p, bs)
<1>1. KV!SyncRetention(p) = {p} /\ KVP!SyncRetention(p) = {p}
  BY DEF KV!SyncRetention, KVP!SyncRetention
<1>2. KV!TouchBlocks(p, bs) = KVP!TouchBlocks(p, bs)
  <2> DEFINE idle == {b \in ToSet(bs) : p.ref_cnt[b] = 0}
             held == {b \in idle : p.retention_count[b] > 0}
             q    == [p EXCEPT !.ref_cnt = [b \in KVP!Block |-> @[b] + KVP!Listed(bs, b)],
                               !.retained_free = @ - Cardinality(held),
                               !.queue = Keep(@, KVP!Block \ (idle \ held))]
             good == idle \ held \subseteq ToSet(p.queue) /\ Cardinality(held) <= p.retained_free
  <2>1. KVP!TouchBlocks(p, bs) = KVP!Check(q, good)
    BY SameCount, SameKeep DEF KVP!TouchBlocks
  <2>2. [b \in KV!Block |-> p.ref_cnt[b] + KV!Listed(bs, b)] = [b \in KVP!Block |-> p.ref_cnt[b] + KVP!Listed(bs, b)]
    BY SameBasics, SameListed
  <2>3. KV!TouchBlocks(p, bs) = KVP!Check(q, good)
    BY <2>2, SameBasics, SameCount, SameKeep DEF KV!TouchBlocks
  <2> QED BY <2>1, <2>3
<1> QED BY <1>1, <1>2 DEF KV!Touch, KVP!Touch

\* So is the eviction of cached blocks.
LEMMA SameEvict ==
  ASSUME NEW p, NEW bs
  PROVE  KV!EvictCachedBlocks(p, bs) = KVP!EvictCachedBlocks(p, bs)
BY SameBasics, SameCount DEF KV!EvictCachedBlocks, KVP!EvictCachedBlocks

\* So is get_new_blocks.
LEMMA SameAllocate ==
  ASSUME NEW p, NEW n
  PROVE  KV!GetNewBlocks(p, n) = KVP!GetNewBlocks(p, n)
<1>1. KV!AllocateFreeBlocks(p, n) = KVP!AllocateFreeBlocks(p, n)
  <2> DEFINE taken == SubSeq(p.queue, 1, n)
             rest  == [p EXCEPT !.queue = SubSeq(@, n + 1, Len(@))]
             q     == KVP!EvictCachedBlocks(rest, ToSet(taken))
             r     == [q EXCEPT !.ref_cnt = [b \in KVP!Block |-> IF b \in ToSet(taken) THEN 1 ELSE @[b]]]
             a     == [pool |-> KVP!DebugCheck(r, \A b \in ToSet(taken) : p.ref_cnt[b] = 0), some |-> TRUE, blocks |-> taken]
  <2>1. KVP!AllocateFreeBlocks(p, n) = a
    BY SameCount DEF KVP!AllocateFreeBlocks
  <2>2. KV!EvictCachedBlocks(rest, KV!ToSet(taken)) = q
    BY SameCount, SameEvict
  <2>3. KV!AllocateFreeBlocks(p, n) = a
    BY <2>2, SameBasics, SameCount DEF KV!AllocateFreeBlocks
  <2> QED BY <2>1, <2>3
<1> QED BY <1>1, SameBasics DEF KV!GetNewBlocks, KVP!GetNewBlocks

\* So is cache_full_blocks.
LEMMA SameCacheFull ==
  ASSUME NEW p, ~p.dirty, NEW bs, NEW hs, NEW from, NEW to
  PROVE  KV!CacheFullBlocks(p, bs, hs, from, to) = KVP!CacheFullBlocks(p, bs, hs, from, to)
<1>1. KV!SyncRetention(p) = {p} /\ KVP!SyncRetention(p) = {p}
  BY DEF KV!SyncRetention, KVP!SyncRetention
<1>2. ASSUME NEW q, NEW pick PROVE KV!Pin(q, pick) = KVP!Pin(q, pick)
  <2> DEFINE Pins(b) == {h \in DOMAIN pick : pick[h] = b}
             new  == {b \in KVP!Block : q.retention_count[b] = 0 /\ Pins(b) # {}}
             idle == {b \in new : q.ref_cnt[b] = 0}
             r    == [q EXCEPT !.retained_block = [h \in Hash |-> IF h \in DOMAIN pick THEN pick[h] ELSE @[h]],
                               !.retention_count = [b \in KVP!Block |-> @[b] + Cardinality(Pins(b))],
                               !.retained = @ + Cardinality(new),
                               !.retained_free = @ + Cardinality(idle),
                               !.queue = Keep(@, KVP!Block \ idle)]
             good == idle \subseteq ToSet(q.queue)
  <2>1. KVP!Pin(q, pick) = KVP!Check(r, good)
    <3>1. [b \in KVP!Block |-> q.retention_count[b] + KVP!Cardinality(Pins(b))]
            = [b \in KVP!Block |-> q.retention_count[b] + Cardinality(Pins(b))]
      BY SameCount
    <3> QED BY <3>1, SameCount, SameKeep DEF KVP!Pin
  <2>2. KV!Pin(q, pick) = KVP!Check(r, good)
    <3>1. [b \in KV!Block |-> q.retention_count[b] + KV!Cardinality(Pins(b))]
            = [b \in KVP!Block |-> q.retention_count[b] + Cardinality(Pins(b))]
      BY SameBasics, SameCount
    <3> QED BY <3>1, SameBasics, SameCount, SameKeep DEF KV!Pin
  <2> QED BY <2>1, <2>2
<1>3. ASSUME NEW q, NEW h PROVE KV!Reconcile(q, h) = KVP!Reconcile(q, h)
  BY <1>2, SameBasics DEF KV!Reconcile, KVP!Reconcile
<1>4. ASSUME NEW q, NEW new PROVE KV!PublishBlocks(q, bs, hs, new) = KVP!PublishBlocks(q, bs, hs, new)
  BY SameBasics, SameCount DEF KV!PublishBlocks, KVP!PublishBlocks
<1> QED BY <1>1, <1>3, <1>4, SameBasics DEF KV!CacheFullBlocks, KVP!CacheFullBlocks

\* The two prefix lookups are the same action, and so are the ways out of one.
LEMMA SameLookups ==
  /\ \A r, c, n : KV!GetComputedBlocks(r, c, n) <=> KVP!GetComputedBlocks(r, c, n)
  /\ KV!AbandonLookup <=> KVP!AbandonLookup
<1>1. \A p, h : KV!CachedBlocks(p, h) = KVP!CachedBlocks(p, h)
  BY SameBasics DEF KV!CachedBlocks, KVP!CachedBlocks
<1>2. \A c, n : KV!LongestHits(c, n) = KVP!LongestHits(c, n)
  BY <1>1, SameBasics DEF KV!LongestHits, KVP!LongestHits
<1>3. \A r, c, n : KV!GetComputedBlocks(r, c, n) <=> KVP!GetComputedBlocks(r, c, n)
  BY <1>2, SameBasics DEF KV!GetComputedBlocks, KVP!GetComputedBlocks
<1>4. KV!AbandonLookup <=> KVP!AbandonLookup
  BY SameBasics DEF KV!AbandonLookup, KVP!AbandonLookup
<1> QED BY <1>3, <1>4

\* reserve_prompt and allocate_slots admit a prompt alike in both.
LEMMA SameAdmission ==
  ASSUME ~pool.dirty, NEW r
  PROVE  /\ KV!ReservePrompt(r) <=> KVP!ReservePrompt(r)
         /\ KV!AllocateNewRequest(r) <=> KVP!AllocateNewRequest(r)
<1>1. \A ids, reserve : KV!Admitted(r, ids, reserve) <=> KVP!Admitted(r, ids, reserve)
  BY SameBasics DEF KV!Admitted, KVP!Admitted
<1>2. KV!Touch(pool, lookup.hit) = KVP!Touch(pool, lookup.hit)
  BY SameTouch
<1>3. KV!ReservePrompt(r) <=> KVP!ReservePrompt(r)
  BY <1>1, <1>2, SameBasics DEF KV!ReservePrompt, KVP!ReservePrompt
<1>4. KV!Panic <=> KVP!Panic
  BY SameBasics DEF KV!Panic, KVP!Panic
<1>5. KV!AllocateNewRequest(r) <=> KVP!AllocateNewRequest(r)
  BY <1>1, <1>2, <1>4, SameBasics, SameAllocate DEF KV!AllocateNewRequest, KVP!AllocateNewRequest
<1> QED BY <1>3, <1>5

\* allocate_slots grows a sequence alike in both.
LEMMA SameGrow ==
  ASSUME NEW r, NEW n
  PROVE  KV!AllocateMore(r, n) <=> KVP!AllocateMore(r, n)
<1>1. \A f : KV!TakenFromReservation(r, f) = KVP!TakenFromReservation(r, f)
  BY SameBasics DEF KV!TakenFromReservation, KVP!TakenFromReservation
<1> QED BY <1>1, SameBasics, SameAllocate DEF KV!AllocateMore, KVP!AllocateMore

\* free is the same action of both.
LEMMA SameFree ==
  ASSUME ~pool.dirty, NEW r
  PROVE  KV!Free(r) <=> KVP!Free(r)
<1>1. \A ids : KV!ReleaseOrder(ids) = KVP!ReleaseOrder(ids)
  BY SameCount DEF KV!ReleaseOrder, KVP!ReleaseOrder
<1>2. KV!FreeBlocks(pool, KV!ReleaseOrder(reqs[r].block_ids)) = KVP!FreeBlocks(pool, KVP!ReleaseOrder(reqs[r].block_ids))
  BY <1>1, SameFreeBlocks
<1> QED BY <1>2, SameBasics DEF KV!Free, KVP!Free

\* cache_blocks is the same action of both.
LEMMA SameCache ==
  ASSUME ~pool.dirty, NEW r
  PROVE  (KV!CacheBlocks(r) <=> KVP!CacheBlocks(r)) /\ KV!NumFullBlocks(r) = KVP!NumFullBlocks(r)
<1>1. KV!NumFullBlocks(r) = KVP!NumFullBlocks(r)
  BY SameBasics DEF KV!NumFullBlocks, KVP!NumFullBlocks
<1>2. KV!CacheFullBlocks(pool, reqs[r].block_ids, seqs[r].chain, reqs[r].num_cached_blocks, KV!NumFullBlocks(r))
        = KVP!CacheFullBlocks(pool, reqs[r].block_ids, seqs[r].chain, reqs[r].num_cached_blocks, KVP!NumFullBlocks(r))
  BY <1>1, SameCacheFull
<1> QED BY <1>1, <1>2, SameBasics DEF KV!CacheBlocks, KVP!CacheBlocks

\* A forward pass is the same action of both.
LEMMA SameForward ==
  ASSUME NEW r, NEW n, NEW w
  PROVE  KV!Forward(r, n, w) <=> KVP!Forward(r, n, w)
BY Zenon DEF KV!Forward, KVP!Forward, KV!SlotOf, KVP!SlotOf, KV!LesserOf, KVP!LesserOf, KV!Block, KVP!Block,
   KV!Slot, KVP!Slot, KV!Live, KVP!Live, KV!Running, KVP!Running, KV!NoLookup, KVP!NoLookup

\* The scheduler gives the manager constants that satisfy its assumptions.
LEMMA ManagerConstants == KVP!PoolAssumption /\ KVP!ManagerAssumption /\ KVP!HashAssumption
<1>1. KVP!PoolAssumption
  BY CacheAssumption DEF KVP!PoolAssumption
<1>2. KVP!ManagerAssumption
  <2>1. IsFiniteSet(Req)
    BY SchedulerAssumption, FS_Interval DEF Req
  <2>2. KVP!IsFiniteSet(Req)
    BY <2>1 DEF KVP!IsFiniteSet, IsFiniteSet
  <2>3. {ChainOf[s] : s \in Req} \subseteq Seq(Hash)
    BY CacheAssumption
  <2> QED BY <2>2, <2>3, CacheAssumption DEF KVP!ManagerAssumption, KVP!NoHash
<1>3. KVP!HashAssumption
  BY CacheAssumption DEF KVP!HashAssumption
<1> QED BY <1>1, <1>2, <1>3

\* What the scheduler needs of the manager's invariant.
LEMMA ManagerFacts ==
  ASSUME KVP!ManagerInv
  PROVE  /\ pool.ok /\ ~pool.dirty
         /\ KV!Live \subseteq Req /\ DOMAIN seqs = KV!Live
         /\ total_reserved \in Nat /\ KV!NumFree(pool) \in Nat /\ total_reserved <= KV!NumFree(pool)
         /\ \A s \in KV!Live : /\ reqs[s] \in [block_ids : Seq(KVP!Block), num_cached_blocks : Nat, reserved_blocks : Nat]
                               /\ seqs[s].computed \in Nat /\ seqs[s].chain \in Seq(Hash)
                               /\ reqs[s].reserved_blocks <= total_reserved
<1>1. pool.ok /\ ~pool.dirty
  BY DEF KVP!ManagerInv, KVP!PoolInv
<1>2. KV!Live \subseteq Req /\ DOMAIN seqs = KV!Live
  BY SameBasics DEF KVP!ManagerInv, KVP!Typed
<1>3. total_reserved \in Nat /\ KV!NumFree(pool) \in Nat
  BY ManagerConstants, SameBasics, KVP!CapacityFacts
<1>4. total_reserved <= KV!NumFree(pool)
  BY ManagerConstants, SameBasics, KVP!PromisesFit
<1>5. ASSUME NEW s \in KV!Live
      PROVE  /\ reqs[s] \in [block_ids : Seq(KVP!Block), num_cached_blocks : Nat, reserved_blocks : Nat]
             /\ seqs[s].computed \in Nat /\ seqs[s].chain \in Seq(Hash)
             /\ reqs[s].reserved_blocks <= total_reserved
  <2>1. s \in KVP!Live
    BY SameBasics
  <2>2. reqs[s] \in KVP!RequestRecord /\ seqs[s] \in KVP!TokensRecord
    BY <2>1 DEF KVP!ManagerInv, KVP!Typed
  <2>3. KVP!RequestFacts(s, reqs[s].block_ids, reqs[s].num_cached_blocks, seqs[s].chain, seqs[s].computed \div BlockSize)
    BY <2>1, ManagerConstants, KVP!HeldFacts
  <2> QED BY <2>2, <2>3 DEF KVP!RequestRecord, KVP!TokensRecord, KVP!RequestFacts
<1> QED BY <1>1, <1>2, <1>3, <1>4, <1>5

\* The manager's invariant holds at the start.
LEMMA ManagerStarts ==
  ASSUME KV!Init
  PROVE  KVP!ManagerInv
<1>1. KV!EmptyPool = KVP!EmptyPool
  BY Zenon DEF KV!EmptyPool, KVP!EmptyPool, KV!Block, KVP!Block, KV!NoBlock, KVP!NoBlock
<1>2. KVP!Init
  BY <1>1, SameBasics DEF KV!Init, KVP!Init
<1> QED BY <1>2, ManagerConstants, KVP!StartKeeps

\* It holds after a step that leaves the manager alone.
LEMMA ManagerStays ==
  ASSUME KVP!ManagerInv, UNCHANGED kvVars
  PROVE  KVP!ManagerInv'
<1>1. [KVP!Next]_KVP!vars
  BY DEF kvVars, KVP!vars
<1>2. KVP!Kept
  BY <1>1, ManagerConstants, KVP!StepKeeps
<1> QED BY <1>2 DEF KVP!Kept

\* The invariant of the manager is the same of both.
LEMMA SameInv == KV!ManagerInv <=> KVP!ManagerInv
<1>1. KV!Typed <=> KVP!Typed
  BY Zenon DEF KV!Typed, KVP!Typed, KV!Live, KVP!Live, KV!Block, KVP!Block, KV!Slot, KVP!Slot, KV!RequestRecord, KVP!RequestRecord, KV!TokensRecord, KVP!TokensRecord
<1>2. KV!LookupKnown <=> KVP!LookupKnown
  BY Zenon DEF KV!LookupKnown, KVP!LookupKnown, KV!NoLookup, KVP!NoLookup, KV!Block, KVP!Block
<1>3. KV!OwnTokens <=> KVP!OwnTokens
  BY Zenon DEF KV!OwnTokens, KVP!OwnTokens, KV!Live, KVP!Live, KV!SlotOf, KVP!SlotOf
<1>4. KV!PoolInv(pool) <=> KVP!PoolInv(pool)
  BY Zenon DEF KV!PoolInv, KVP!PoolInv, KV!PoolRecord, KVP!PoolRecord, KV!FreeListExact, KVP!FreeListExact, KV!IndexesAgree, KVP!IndexesAgree, KV!LeasesCounted, KVP!LeasesCounted, KV!PinsKnown, KVP!PinsKnown, KV!CaughtUp, KVP!CaughtUp, KV!LeaseEntry, KVP!LeaseEntry, KV!Block, KVP!Block, KV!NoBlock, KVP!NoBlock, KV!IsInjective, KVP!IsInjective, KV!ToSet, KVP!ToSet, KV!Cardinality, KVP!Cardinality, KV!IsFiniteSet, KVP!IsFiniteSet
<1>5. KV!Ledger!LedgerInv <=> KVP!Ledger!LedgerInv
  BY Zenon DEF KV!Ledger!TypeOK, KVP!Ledger!TypeOK, KV!Ledger!DeadRequestsEmpty, KVP!Ledger!DeadRequestsEmpty, KV!Ledger!ProgressOrdered, KVP!Ledger!ProgressOrdered, KV!Ledger!PublishedKeys, KVP!Ledger!PublishedKeys, KV!Ledger!TailPrivate, KVP!Ledger!TailPrivate, KV!Ledger!RefCountsExact, KVP!Ledger!RefCountsExact, KV!Ledger!PrefixHitsSound, KVP!Ledger!PrefixHitsSound, KV!Ledger!HeldPrefixIntact, KVP!Ledger!HeldPrefixIntact, KV!Ledger!ReservedSlots, KVP!Ledger!ReservedSlots, KV!Ledger!ReservationsExact, KVP!Ledger!ReservationsExact, KV!Ledger!ReservationsCovered, KVP!Ledger!ReservationsCovered, KV!Ledger!ActiveBlocks, KVP!Ledger!ActiveBlocks, KV!Ledger!Holders, KVP!Ledger!Holders, KV!Ledger!Elements, KVP!Ledger!Elements, KV!Ledger!IsFiniteSet, KVP!Ledger!IsFiniteSet, KV!Ledger!Cardinality, KVP!Ledger!Cardinality, KV!Ledger!LedgerInv, KVP!Ledger!LedgerInv, KV!BlocksOf, KVP!BlocksOf, KV!CachedOf, KVP!CachedOf, KV!ReservedOf, KVP!ReservedOf, KV!HashesOf, KVP!HashesOf, KV!DoneOf, KVP!DoneOf, KV!Keys, KVP!Keys, KV!Contents, KVP!Contents, KV!Live, KVP!Live, KV!Block, KVP!Block, KV!Slot, KVP!Slot, KV!NoHash, KVP!NoHash, KV!Entry, KVP!Entry, KV!Tokens, KVP!Tokens, KV!KeyOf, KVP!KeyOf, KV!BlockContent, KVP!BlockContent, KV!OrElse, KVP!OrElse
<1> QED BY <1>1, <1>2, <1>3, <1>4, <1>5, SameCount DEF KV!ManagerInv, KVP!ManagerInv

\* And in the next state.
LEMMA SameInvNext == KV!ManagerInv' <=> KVP!ManagerInv'
BY SameInv, PTL

\* Every sequence with an entry has typed holdings.
LEMMA HoldingTyped == KVP!ManagerInv => \A t \in KV!Live : HoldingFacts(t)
<1> SUFFICES ASSUME KVP!ManagerInv, NEW t \in KV!Live PROVE HoldingFacts(t)
  OBVIOUS
<1>1. /\ reqs[t] \in [block_ids : Seq(KVP!Block), num_cached_blocks : Nat, reserved_blocks : Nat]
      /\ seqs[t].computed \in Nat /\ DOMAIN seqs = KV!Live /\ t \in Req
  BY ManagerFacts
<1>2. Computed(t) = seqs[t].computed
  BY <1>1 DEF Computed, KV!Tokens, KV!OrElse
<1>3. Len(reqs[t].block_ids) \in Nat /\ reqs[t].reserved_blocks \in Nat
  BY <1>1
<1>4. Slots(t) \in Nat
  BY <1>3, CacheAssumption DEF Slots
<1>5. Promised(t) \in Nat
  BY <1>3 DEF Promised
<1> QED BY <1>1, <1>2, <1>3, <1>4, <1>5 DEF HoldingFacts

\* And in the next state.
LEMMA HoldingTypedNext == KVP!ManagerInv' => (\A t \in KV!Live : HoldingFacts(t))'
BY HoldingTyped, PTL

\* Sequences whose entries do not change go on.
LEMMA SameGoesOn ==
  ASSUME KVP!ManagerInv, KVP!ManagerInv', NEW S, S \subseteq KV!Live, S \subseteq KV!Live',
         \A t \in S : /\ seqs'[t] = seqs[t] /\ reqs'[t].block_ids = reqs[t].block_ids
                      /\ reqs'[t].reserved_blocks = reqs[t].reserved_blocks
  PROVE  GoesOn(S)
<1> SUFFICES ASSUME NEW t \in S
             PROVE  /\ seqs'[t] = seqs[t]
                    /\ Slots(t) \in Nat /\ Slots(t)' \in Nat /\ Slots(t)' >= Slots(t)
                    /\ Promised(t) \in Nat /\ Promised(t)' \in Nat /\ Promised(t)' >= Promised(t)
  BY DEF GoesOn
<1>1. HoldingFacts(t)
  BY HoldingTyped
<1>2. Slots(t)' = Slots(t) /\ Promised(t)' = Promised(t)
  BY DEF Slots, Promised
<1> QED BY <1>1, <1>2 DEF HoldingFacts

\* What the manager leaves alone stays.
LEMMA StillDelivers ==
  ASSUME KVP!ManagerInv, UNCHANGED kvVars
  PROVE  KVP!ManagerInv' /\ KV!Live' = KV!Live /\ lookup' = lookup /\ GoesOn(KV!Live) /\ pool'.ok
<1>1. KVP!ManagerInv'
  BY ManagerStays
<1>2. KV!Live' = KV!Live /\ lookup' = lookup /\ reqs' = reqs /\ seqs' = seqs
  BY DEF kvVars, KV!Live
<1>3. pool'.ok
  BY ManagerFacts DEF kvVars
<1> QED BY <1>1, <1>2, <1>3, SameGoesOn

\* free drops one sequence.
LEMMA FreeDelivers ==
  ASSUME KVP!ManagerInv, NEW s \in Req, KV!Free(s)
  PROVE  KVP!ManagerInv' /\ KV!Live' = KV!Live \ {s} /\ lookup' = lookup /\ GoesOn(KV!Live')
<1>1. KVP!Free(s)
  BY ManagerFacts, SameFree
<1>2. KVP!ManagerInv'
  BY <1>1, ManagerConstants, KVP!FreeKeeps DEF KVP!Kept
<1>3. KV!Live' = KV!Live \ {s}
  BY FreeDropsEntry
<1>4. lookup' = lookup
  BY DEF KV!Free
<1>5. \A t \in KV!Live' : seqs'[t] = seqs[t] /\ reqs'[t] = reqs[t]
  BY <1>3, ManagerFacts DEF KV!Free, KV!Without, KV!Live
<1> QED BY <1>2, <1>3, <1>4, <1>5, SameGoesOn

\* cache_blocks changes what is published only.
LEMMA CacheDelivers ==
  ASSUME KVP!ManagerInv, NEW s \in Req, KV!CacheBlocks(s)
  PROVE  KVP!ManagerInv' /\ KV!Live' = KV!Live /\ lookup' = lookup /\ GoesOn(KV!Live)
<1>1. KVP!CacheBlocks(s)
  BY ManagerFacts, SameCache
<1>2. KVP!ManagerInv'
  BY <1>1, ManagerConstants, KVP!CacheBlocksKeeps DEF KVP!Kept
<1>3. KV!Live' = KV!Live
  BY CacheKeepsEntries
<1>4. lookup' = lookup /\ seqs' = seqs
  BY DEF KV!CacheBlocks
<1>5. \A t \in KV!Live : reqs'[t].block_ids = reqs[t].block_ids /\ reqs'[t].reserved_blocks = reqs[t].reserved_blocks
  <2>1. PICK n : reqs' = [reqs EXCEPT ![s].num_cached_blocks = n]
    BY DEF KV!CacheBlocks
  <2>2. \A t \in KV!Live : reqs[t] \in [block_ids : Seq(KVP!Block), num_cached_blocks : Nat, reserved_blocks : Nat]
    BY ManagerFacts
  <2> QED BY <2>1, <2>2 DEF KV!Live
<1> QED BY <1>2, <1>3, <1>4, <1>5, SameGoesOn

\* Enough blocks for n tokens, and enough tokens in the blocks.
LEMMA CeilDelivers ==
  ASSUME NEW n \in Nat, NEW k \in Nat
  PROVE  KV!DivCeil(n) \in Nat /\ (KV!DivCeil(n) <= k <=> n <= k * BlockSize)
<1>1. KVP!DivCeil(n) \in Nat /\ (n <= k * BlockSize <=> KVP!DivCeil(n) <= k)
  BY ManagerConstants, KVP!CeilCovers
<1> QED BY <1>1, SameBasics

\* allocate_slots for a running sequence: it has the slots it asked for.
LEMMA AllocateDelivers ==
  ASSUME KVP!ManagerInv, NEW s \in KV!Live, NEW n \in Nat, AllocateSlots(s, n)
  PROVE  /\ KVP!ManagerInv' /\ KV!Live' = KV!Live /\ lookup' = lookup /\ GoesOn(KV!Live)
         /\ n <= Slots(s)'
<1>0. HoldingFacts(s)
  BY HoldingTyped
<1>1. CASE NewBlocks(s, n) <= 0
  <2>1. UNCHANGED kvVars
    BY <1>1 DEF AllocateSlots
  <2>2. KV!DivCeil(n) <= Len(reqs[s].block_ids)
    BY <1>0, <1>1, CeilDelivers DEF NewBlocks, HoldingFacts
  <2>3. n <= Slots(s)
    BY <1>0, <2>2, CeilDelivers DEF Slots, HoldingFacts
  <2>4. Slots(s)' = Slots(s)
    BY <2>1 DEF Slots, kvVars
  <2> QED BY <2>1, <2>3, <2>4, StillDelivers
<1>2. CASE ~(NewBlocks(s, n) <= 0)
  <2> DEFINE fresh == KV!DivCeil(n) - Len(reqs[s].block_ids)
             R     == reqs[s].reserved_blocks
             taken == KV!TakenFromReservation(s, fresh)
  <2>1. KVP!AllocateMore(s, n)
    BY <1>2, SameGrow DEF AllocateSlots
  <2>2. s \in Req
    BY <1>0 DEF HoldingFacts
  <2>3. /\ KVP!Kept
        /\ \E bs \in Seq(KVP!Block) :
               LET f == KVP!DivCeil(n) - Len(reqs[s].block_ids)
               IN  /\ Len(bs) = f
                   /\ reqs' = [reqs EXCEPT ![s].block_ids = @ \o bs,
                                           ![s].reserved_blocks = @ - KVP!TakenFromReservation(s, f)]
    BY <2>1, <2>2, ManagerConstants, KVP!GrowKeeps
  <2>4. PICK bs \in Seq(KVP!Block) :
            /\ Len(bs) = fresh
            /\ reqs' = [reqs EXCEPT ![s].block_ids = @ \o bs, ![s].reserved_blocks = @ - taken]
    <3>1. fresh = KVP!DivCeil(n) - Len(reqs[s].block_ids)
      BY SameBasics
    <3>2. taken = KVP!TakenFromReservation(s, fresh)
      BY SameBasics, Zenon DEF KV!TakenFromReservation, KVP!TakenFromReservation
    <3> QED BY <2>3, <3>1, <3>2
  <2>5. KVP!ManagerInv'
    BY <2>3 DEF KVP!Kept
  <2>6. KV!Live' = KV!Live
    BY <2>4 DEF KV!Live
  <2>7. seqs' = seqs /\ lookup' = lookup
    BY <2>1 DEF KVP!AllocateMore
  <2>8. /\ reqs[s].block_ids \in Seq(KVP!Block) /\ R \in Nat
        /\ reqs[s] \in [block_ids : Seq(KVP!Block), num_cached_blocks : Nat, reserved_blocks : Nat]
    BY ManagerFacts
  <2>9. reqs'[s].block_ids = reqs[s].block_ids \o bs /\ reqs'[s].reserved_blocks = R - taken
    BY <2>4, <2>8 DEF KV!Live
  <2>10. \A t \in KV!Live \ {s} : reqs'[t] = reqs[t]
    BY <2>4 DEF KV!Live
  <2>11. fresh \in Nat \ {0} /\ KV!DivCeil(n) \in Nat
    <3>1. Len(reqs[s].block_ids) \in Nat
      BY <1>0 DEF HoldingFacts
    <3>2. KV!DivCeil(n) \in Nat
      BY <3>1, CeilDelivers
    <3> HIDE DEF fresh
    <3>3. fresh = KV!DivCeil(n) - Len(reqs[s].block_ids) /\ ~(fresh <= 0)
      BY <1>2 DEF fresh, NewBlocks
    <3> QED BY <3>1, <3>2, <3>3
  <2>12. Len(reqs'[s].block_ids) = KV!DivCeil(n)
    BY <2>4, <2>8, <2>9, <2>11, <1>0 DEF HoldingFacts
  <2>13. n <= Slots(s)'
    BY <2>11, <2>12, CeilDelivers DEF Slots
  <2>14. taken \in Nat /\ taken <= fresh
    BY <2>8, <2>11 DEF KV!TakenFromReservation, KV!LesserOf
  <2>15. Promised(s)' >= Promised(s)
    BY <2>9, <2>8, <2>11, <2>12, <2>14, <1>0, SMTT(30) DEF Promised, HoldingFacts
  <2>16. Slots(s)' >= Slots(s)
    <3>1. \A a, b, c \in Nat : a >= b => a * c >= b * c
      OBVIOUS
    <3>2. Len(reqs'[s].block_ids) >= Len(reqs[s].block_ids)
      BY <2>11, <2>12, <1>0 DEF HoldingFacts
    <3>3. Len(reqs[s].block_ids) \in Nat /\ Len(reqs'[s].block_ids) \in Nat /\ BlockSize \in Nat
      BY <1>0, <2>11, <2>12, CacheAssumption DEF HoldingFacts
    <3> QED BY <3>1, <3>2, <3>3 DEF Slots
  <2>17. GoesOn({s})
    <3>1. HoldingFacts(s)'
      BY <2>5, <2>6, HoldingTypedNext
    <3> QED BY <1>0, <3>1, <2>7, <2>15, <2>16 DEF GoesOn, HoldingFacts
  <2>18. GoesOn(KV!Live \ {s})
    BY <2>5, <2>6, <2>7, <2>10, SameGoesOn
  <2> QED BY <2>5, <2>6, <2>7, <2>13, <2>17, <2>18 DEF GoesOn
<1> QED BY <1>1, <1>2

\* A prefix lookup leaves a token to compute.
LEMMA LookupDelivers ==
  ASSUME KVP!ManagerInv, NEW s \in Req, NEW n \in Nat \ {0}, KV!GetComputedBlocks(s, ChainOf[s], n)
  PROVE  /\ KVP!ManagerInv' /\ KV!Live' = KV!Live /\ GoesOn(KV!Live)
         /\ lookup' # KV!NoLookup /\ lookup'.req = {s} /\ lookup'.chain = ChainOf[s]
         /\ lookup'.tokens = n /\ Len(lookup'.hit) * BlockSize < n
<1>1. KVP!GetComputedBlocks(s, ChainOf[s], n)
  BY SameLookups
<1>2. KVP!ManagerInv' /\ Len(lookup'.hit) * BlockSize < n
  BY <1>1, ManagerConstants, KVP!GetComputedBlocksKeeps DEF KVP!Kept
<1>3. reqs' = reqs /\ seqs' = seqs
  BY DEF KV!GetComputedBlocks
<1>4. PICK hit : lookup' = [req |-> {s}, chain |-> ChainOf[s], tokens |-> n, hit |-> hit]
  BY DEF KV!GetComputedBlocks
<1>5. lookup' # KV!NoLookup
  BY <1>4 DEF KV!NoLookup
<1>6. KV!Live' = KV!Live
  BY <1>3 DEF KV!Live
<1>7. GoesOn(KV!Live)
  BY <1>2, <1>3, <1>6, SameGoesOn
<1> QED BY <1>2, <1>4, <1>5, <1>6, <1>7

\* A lookup that is given up changes nothing for the sequences that run.
LEMMA AbandonDelivers ==
  ASSUME KVP!ManagerInv, KV!AbandonLookup
  PROVE  KVP!ManagerInv' /\ KV!Live' = KV!Live /\ GoesOn(KV!Live) /\ lookup' = KV!NoLookup
<1>1. KVP!AbandonLookup
  BY SameLookups
<1>2. KVP!ManagerInv'
  BY <1>1, ManagerConstants, KVP!AbandonLookupKeeps DEF KVP!Kept
<1>3. reqs' = reqs /\ seqs' = seqs /\ lookup' = KV!NoLookup
  BY DEF KV!AbandonLookup
<1>4. KV!Live' = KV!Live
  BY <1>3 DEF KV!Live
<1> QED BY <1>2, <1>3, <1>4, SameGoesOn

\* An admitted prompt has all its blocks or the promise of them.
LEMMA AdmissionDelivers ==
  ASSUME KVP!ManagerInv, NEW s \in Req,
         IF s \in Visible THEN KV!ReservePrompt(s) ELSE KV!AllocateNewRequest(s)
  PROVE  /\ KVP!ManagerInv' /\ KV!Live' = KV!Live \cup {s} /\ s \notin KV!Live /\ GoesOn(KV!Live)
         /\ lookup' = KV!NoLookup
         /\ seqs'[s] = [chain |-> lookup.chain, computed |-> Len(lookup.hit) * BlockSize]
         /\ KV!DivCeil(lookup.tokens) <= Promised(s)'
<1>1. lookup.req = {s} /\ s \notin KV!Live
  BY DEF KV!ReservePrompt, KV!AllocateNewRequest
<1>2. /\ lookup.hit \in Seq(KVP!Block) /\ lookup.tokens \in Nat
  BY <1>1, ManagerConstants, KVP!HitFacts
<1>3. PICK d \in Nat : d = KV!DivCeil(lookup.tokens)
  <2>1. 0 \in Nat
    OBVIOUS
  <2> QED BY <1>2, <2>1, CeilDelivers
<1>4. ASSUME NEW ids, NEW n, KV!Admitted(s, ids, n)
      PROVE  /\ KV!Live' = KV!Live \cup {s} /\ lookup' = KV!NoLookup
             /\ seqs'[s] = [chain |-> lookup.chain, computed |-> Len(lookup.hit) * BlockSize]
             /\ \A t \in KV!Live : reqs'[t] = reqs[t] /\ seqs'[t] = seqs[t]
             /\ reqs'[s].block_ids = ids /\ reqs'[s].reserved_blocks = n
  BY <1>1, <1>4, ManagerFacts DEF KV!Admitted, KV!With, KV!Live
<1>5. /\ KVP!ManagerInv'
      /\ \E ids, n : KV!Admitted(s, ids, n) /\ d <= Len(ids) + IF s \in Visible THEN n ELSE 0
  <2>1. CASE s \in Visible
    <3>1. KVP!ReservePrompt(s)
      BY <2>1, ManagerFacts, SameAdmission
    <3>2. KVP!ManagerInv'
      BY <3>1, ManagerConstants, KVP!ReservePromptKeeps DEF KVP!Kept
    <3>3. KV!Admitted(s, lookup.hit, d - Len(lookup.hit))
      BY <1>3, <2>1 DEF KV!ReservePrompt
    <3>4. d <= Len(lookup.hit) + (d - Len(lookup.hit))
      BY <1>2, <1>3
    <3> QED BY <2>1, <3>2, <3>3, <3>4
  <2>2. CASE s \notin Visible
    <3>1. KVP!AllocateNewRequest(s)
      BY <2>2, ManagerFacts, SameAdmission
    <3>2. /\ KVP!Kept
          /\ \E bs \in Seq(KVP!Block) : /\ Len(bs) = KVP!DivCeil(lookup.tokens) - Len(lookup.hit)
                                        /\ KVP!Admitted(s, lookup.hit \o bs, 0)
      BY <3>1, ManagerConstants, KVP!AllocateNewKeeps
    <3>3. PICK bs \in Seq(KVP!Block) : /\ Len(bs) = KVP!DivCeil(lookup.tokens) - Len(lookup.hit)
                                       /\ KVP!Admitted(s, lookup.hit \o bs, 0)
      BY <3>2
    <3>4. KV!Admitted(s, lookup.hit \o bs, 0)
      BY <3>3, SameBasics DEF KV!Admitted, KVP!Admitted
    <3>5. d <= Len(lookup.hit \o bs) + 0
      <4>1. KVP!DivCeil(lookup.tokens) = d
        BY <1>3, SameBasics
      <4>2. Len(lookup.hit \o bs) = Len(lookup.hit) + Len(bs)
        BY <1>2
      <4> QED BY <1>2, <1>3, <3>3, <4>1, <4>2
    <3>6. KVP!ManagerInv'
      BY <3>2 DEF KVP!Kept
    <3> QED BY <2>2, <3>4, <3>5, <3>6
  <2> QED BY <2>1, <2>2
<1>6. PICK ids, n : KV!Admitted(s, ids, n) /\ d <= Len(ids) + IF s \in Visible THEN n ELSE 0
  BY <1>5
<1>7. /\ KV!Live' = KV!Live \cup {s} /\ lookup' = KV!NoLookup
      /\ seqs'[s] = [chain |-> lookup.chain, computed |-> Len(lookup.hit) * BlockSize]
      /\ \A t \in KV!Live : reqs'[t] = reqs[t] /\ seqs'[t] = seqs[t]
      /\ reqs'[s].block_ids = ids /\ reqs'[s].reserved_blocks = n
  BY <1>4, <1>6
<1>8. GoesOn(KV!Live)
  BY <1>5, <1>7, SameGoesOn
<1>9. d <= Promised(s)'
  BY <1>6, <1>7 DEF Promised
<1> QED BY <1>1, <1>3, <1>5, <1>7, <1>8, <1>9

\* A forward pass moves one sequence ahead.
LEMMA ForwardDelivers ==
  ASSUME KVP!ManagerInv, NEW s \in Req, NEW n \in Nat, KV!Forward(s, n, n)
  PROVE  /\ KVP!ManagerInv' /\ KV!Live' = KV!Live /\ lookup' = lookup /\ reqs' = reqs
         /\ GoesOn(KV!Live \ {s}) /\ s \in KV!Live
         /\ seqs'[s].computed = n /\ seqs'[s].chain = seqs[s].chain
         /\ Slots(s)' = Slots(s) /\ Promised(s)' = Promised(s)
<1>1. KVP!Forward(s, n, n)
  BY SameForward
<1>2. KVP!ManagerInv'
  BY <1>1, ManagerConstants, KVP!ForwardKeeps DEF KVP!Kept
<1>3. /\ reqs' = reqs /\ lookup' = lookup /\ s \in KV!Live
      /\ seqs' = [seqs EXCEPT ![s].computed = n]
  BY DEF KV!Forward
<1>4. KV!Live' = KV!Live
  BY <1>3 DEF KV!Live
<1>5. GoesOn(KV!Live \ {s})
  <2>1. \A t \in KV!Live \ {s} : seqs'[t] = seqs[t]
    BY <1>3, ManagerFacts
  <2> QED BY <1>2, <1>3, <1>4, <2>1, SameGoesOn
<1>6. seqs'[s].computed = n /\ seqs'[s].chain = seqs[s].chain
  <2>1. seqs[s] \in KVP!TokensRecord /\ s \in DOMAIN seqs
    BY <1>3, ManagerFacts, SameBasics DEF KVP!ManagerInv, KVP!Typed
  <2> QED BY <1>3, <2>1 DEF KVP!TokensRecord
<1>7. Slots(s)' = Slots(s) /\ Promised(s)' = Promised(s)
  BY <1>3 DEF Slots, Promised
<1> QED BY <1>2, <1>3, <1>4, <1>5, <1>6, <1>7

\* The manager meets the contract.
LEMMA ContractKept == CacheContract
<1>1. FactsGiven
  BY SameInv, ManagerFacts DEF FactsGiven
<1>2. HoldingGiven
  BY SameInv, HoldingTyped DEF HoldingGiven
<1>3. HoldingGiven'
  BY SameInvNext, HoldingTypedNext DEF HoldingGiven
<1>4. CeilGiven
  BY CeilDelivers DEF CeilGiven
<1>5. EmptyGiven
  BY SameInv, SameBasics, ManagerConstants, KVP!NothingHeld DEF EmptyGiven
<1>6. StillGiven
  BY SameInv, SameInvNext, StillDelivers DEF StillGiven
<1>7. FreeGiven
  BY SameInv, SameInvNext, FreeDelivers DEF FreeGiven
<1>8. CacheGiven
  BY SameInv, SameInvNext, CacheDelivers DEF CacheGiven
<1>9. AllocateGiven
  BY SameInv, SameInvNext, AllocateDelivers DEF AllocateGiven
<1>10. LookupGiven
  BY SameInv, SameInvNext, LookupDelivers DEF LookupGiven
<1>11. AbandonGiven
  BY SameInv, SameInvNext, AbandonDelivers DEF AbandonGiven
<1>12. AdmissionGiven
  BY SameInv, SameInvNext, AdmissionDelivers DEF AdmissionGiven
<1>13. ForwardGiven
  BY SameInv, SameInvNext, ForwardDelivers DEF ForwardGiven
<1> QED BY <1>1, <1>2, <1>3, <1>4, <1>5, <1>6, <1>7, <1>8, <1>9, <1>10, <1>11, <1>12, <1>13 DEF CacheContract

-----------------------------------------------------------------------------
(* The theorems. *)

\* Before anything has arrived.
LEMMA EngineStarts ==
  ASSUME Init
  PROVE  EngineInv
<1>1. QueueInv
  BY QueuesStart
<1>2. KV!ManagerInv
  BY ManagerStarts, SameInv DEF Init
<1>3. /\ status = [s \in Req |-> "Absent"] /\ len = [s \in Req |-> 0] /\ pc = "idle"
      /\ local = NoLocals /\ output = NoOutput
      /\ turn = [decode_steps |-> 0, epoch |-> FALSE, next_prompt |-> NoSeq, cursor |-> 0]
  BY DEF Init
<1>4. KV!Live = {} /\ lookup = KV!NoLookup
  BY DEF Init, KV!Init, KV!Live
<1>5. Kept = {} /\ Scheduled = {}
  BY <1>3, EmptyQueue DEF Kept, Scheduled, NoLocals
<1>6. Lengths /\ OnlyTooLongIgnored
  BY <1>3 DEF Lengths, OnlyTooLongIgnored
<1>7. LookupAgrees
  BY <1>3, <1>4 DEF LookupAgrees, Deciding
<1>8. TokensAgree
  BY <1>4 DEF TokensAgree
<1>9. CompletionsAgree
  BY <1>3, <1>5 DEF CompletionsAgree
<1>10. BatchTypes
  <2>1. /\ NoOutput.prompt = FALSE /\ NoOutput.next = 1
        /\ NoOutput \in [prompt : BOOLEAN, batch : Seq([id : Req, end : Nat]), next : Nat \ {0}]
    BY DEF NoOutput
  <2> QED BY <1>3, <2>1 DEF BatchTypes
<1>11. RowsAgree /\ RowsUniform
  BY <1>3 DEF RowsAgree, RowsUniform, Chosen
<1>12. RowsDistinct
  <2>1. output.batch = <<>>
    BY <1>3 DEF NoOutput
  <2>2. 1..Len(output.batch) = {}
    BY <2>1
  <2> QED BY <2>2 DEF RowsDistinct
<1> QED BY <1>1, <1>2, <1>6, <1>7, <1>8, <1>9, <1>10, <1>11, <1>12 DEF EngineInv, BatchInv

\* Every step keeps the queues, the cache and the batch in agreement.
LEMMA EngineStays ==
  ASSUME EngineInv, [Next]_vars
  PROVE  EngineInv'
<1>1. QueueInv'
  BY QueuesStay DEF EngineInv
<1>2. CASE CloseResponse \/ TerminateAll \/ UNCHANGED vars
  BY <1>1, <1>2, ContractKept, EnvironmentAgrees DEF EngineInv
<1>3. CASE AddSeq
  BY <1>1, <1>3, ContractKept, AddSeqAgrees DEF EngineInv
<1>4. CASE CancelClosed
  BY <1>1, <1>4, ContractKept, CancelClosedAgrees DEF EngineInv
<1>5. CASE FreeFinished
  BY <1>1, <1>5, ContractKept, FreeFinishedAgrees DEF EngineInv
<1>6. CASE StepSequence
  BY <1>1, <1>6, ContractKept, StepSequenceAgrees DEF EngineInv
<1>7. CASE EndOfStep
  BY <1>1, <1>7, ContractKept, EndOfStepAgrees DEF EngineInv
<1>8. CASE StepFails
  BY <1>1, <1>8, ContractKept, StepFailsAgrees DEF EngineInv
<1>9. CASE RetainPromptPrefix
  BY <1>1, <1>9, ContractKept, RetainPromptPrefixAgrees DEF EngineInv
<1>10. CASE Schedule
  <2>1. CASE Preempt
    BY <1>1, <2>1, ContractKept, PreemptAgrees DEF EngineInv
  <2>2. CASE BeginSchedule
    BY <1>1, <2>2, ContractKept, BeginScheduleAgrees DEF EngineInv
  <2>3. CASE RejectTooLong
    BY <1>1, <2>3, ContractKept, RejectTooLongAgrees DEF EngineInv
  <2>4. CASE DeferForMedia
    BY <1>1, <2>4, ContractKept, DeferForMediaAgrees DEF EngineInv
  <2>5. CASE LookUp
    BY <1>1, <2>5, ContractKept, LookUpAgrees DEF EngineInv
  <2>6. CASE Admit
    BY <1>1, <2>6, ContractKept, AdmitAgrees DEF EngineInv
  <2>7. CASE NoRoom
    BY <1>1, <2>7, ContractKept, NoRoomAgrees DEF EngineInv
  <2>8. CASE DoesNotFit
    BY <1>1, <2>8, ContractKept, DoesNotFitAgrees DEF EngineInv
  <2>9. CASE MakeRoom
    BY <1>1, <2>9, ContractKept, MakeRoomAgrees DEF EngineInv
  <2>10. CASE SelectPromptBatch
    BY <1>1, <2>10, ContractKept, SelectPromptBatchAgrees DEF EngineInv
  <2>11. CASE NoPromptToRun
    BY <1>1, <2>11, ContractKept, NoPromptToRunAgrees DEF EngineInv
  <2>12. CASE MaterializePromptChunk
    BY <1>1, <2>12, ContractKept, MaterializePromptChunkAgrees DEF EngineInv
  <2>13. CASE PromptBatchReady
    BY <1>1, <2>13, ContractKept, PromptBatchReadyAgrees DEF EngineInv
  <2>14. CASE BeginCompletion
    BY <1>1, <2>14, ContractKept, BeginCompletionAgrees DEF EngineInv
  <2>15. CASE TakeSlots
    BY <1>1, <2>15, ContractKept, TakeSlotsAgrees DEF EngineInv
  <2>16. CASE PreemptForSlots
    BY <1>1, <2>16, ContractKept, PreemptForSlotsAgrees DEF EngineInv
  <2>17. CASE EnforceCompatibility
    BY <1>1, <2>17, ContractKept, EnforceCompatibilityAgrees DEF EngineInv
  <2>18. CASE Settle
    BY <1>1, <2>18, ContractKept, SettleAgrees DEF EngineInv
  <2>19. CASE PublishRunning
    BY <1>1, <2>19, ContractKept, PublishRunningAgrees DEF EngineInv
  <2>20. CASE SelectCompletionBatch
    BY <1>1, <2>20, ContractKept, SelectCompletionBatchAgrees DEF EngineInv
  <2> QED BY <1>10, <2>1, <2>2, <2>3, <2>4, <2>5, <2>6, <2>7, <2>8, <2>9, <2>10, <2>11, <2>12,
             <2>13, <2>14, <2>15, <2>16, <2>17, <2>18, <2>19, <2>20 DEF Schedule
<1> QED BY <1>2, <1>3, <1>4, <1>5, <1>6, <1>7, <1>8, <1>9, <1>10 DEF Next, Engine

\* The scheduler, the KV cache manager and the batch agree in every state.
THEOREM EngineAgrees == Spec => []EngineInv
<1>1. Init => EngineInv
  BY EngineStarts
<1>2. EngineInv /\ [Next]_vars => EngineInv'
  BY EngineStays
<1> QED BY <1>1, <1>2, PTL DEF Spec

\* No expect of the scheduler or of the manager under it fails, for any number of
\* sequences and blocks and any limits: what reserve_prompt promises is there when
\* materialize_prompt_chunks asks for it, and no block is freed twice.
THEOREM SchedulerNeverPanics == Spec => []NoPanic
<1>1. EngineInv => NoPanic
  BY ContractKept, CacheFacts DEF EngineInv, NoPanic
<1> QED BY <1>1, EngineAgrees, PTL

\* Only a prompt longer than the whole cache is turned away: making room for one
\* that has waited too long cannot fail.
THEOREM OnlyTooLongAreIgnored == Spec => []OnlyTooLongIgnored
<1>1. EngineInv => OnlyTooLongIgnored
  BY DEF EngineInv, BatchInv
<1> QED BY <1>1, EngineAgrees, PTL

\* Whatever was preempted, published, evicted and taken from the prefix cache, a
\* sequence attends to the KV of its own tokens.
THEOREM EachAttendsToItsOwn == Spec => []AttendsToItsOwnTokens
<1>1. ASSUME EngineInv PROVE AttendsToItsOwnTokens
  <2> SUFFICES ASSUME NEW s \in KV!Live, NEW t \in 0..(Computed(s) - 1),
                      t < Len(ChainOf[s]) * BlockSize
               PROVE  kv[KV!SlotOf(s, t).block][KV!SlotOf(s, t).offset] = ChainOf[s][t \div BlockSize + 1]
    BY DEF AttendsToItsOwnTokens
  <2>1. seqs[s].chain = ChainOf[s]
    BY <1>1 DEF EngineInv, BatchInv, TokensAgree
  <2>2. Computed(s) = seqs[s].computed
    BY <1>1, ContractKept, SlotFacts DEF EngineInv, HoldingFacts
  <2>3. KV!OwnTokens
    BY <1>1 DEF EngineInv, KV!ManagerInv
  <2>4. kv[KV!SlotOf(s, t).block][KV!SlotOf(s, t).offset] = seqs[s].chain[t \div BlockSize + 1]
    BY <2>1, <2>2, <2>3 DEF KV!OwnTokens
  <2> QED BY <2>1, <2>4
<1>2. EngineInv => AttendsToItsOwnTokens
  BY <1>1
<1> QED BY <1>2, EngineAgrees, PTL

\* Every batch is as uniform as the pipeline asked for.
THEOREM BatchesAreUniform == Spec => []BatchIsUniform
<1>1. ASSUME EngineInv PROVE BatchIsUniform
  <2> SUFFICES ASSUME pc = "step", output.next = 1,
                      NEW i \in 1..Len(output.batch), NEW j \in 1..Len(output.batch)
               PROVE  LET s == output.batch[i].id
                          t == output.batch[j].id
                      IN  /\ UniformMedia \/ (output.prompt /\ UniformPrompt) => Media[s] = Media[t]
                          /\ output.prompt /\ UniformPrompt =>
                                 /\ Computed(s) = Computed(t)
                                 /\ output.batch[i].end = output.batch[j].end
                          /\ ~output.prompt /\ UniformCompletion => len[s] = len[t]
    BY DEF BatchIsUniform
  <2>1. Uniform(i, j)
    BY <1>1 DEF EngineInv, BatchInv, RowsUniform
  <2>2. Row(i).id \in Runs /\ Row(j).id \in Runs
    BY <1>1 DEF EngineInv, BatchInv, RowsAgree, Chosen
  <2>3. Row(i).id \in KV!Live /\ Row(j).id \in KV!Live
    BY <1>1, <2>2, ContractKept, HoldersLive
  <2>4. Computed(Row(i).id) = seqs[Row(i).id].computed /\ Computed(Row(j).id) = seqs[Row(j).id].computed
    BY <1>1, <2>3, ContractKept, SlotFacts DEF EngineInv, HoldingFacts
  <2> QED BY <2>1, <2>4 DEF Uniform, Row
<1>2. EngineInv => BatchIsUniform
  BY <1>1
<1> QED BY <1>2, EngineAgrees, PTL

\* Every row of a batch is a running sequence in the state the batch is of, with a
\* token to compute and a slot for every token of it.  That the tokens stay within
\* the budget is the sum over the batch, which is left to TLC.
THEOREM BatchesAreRunnable == Spec => [](WithinBudget => BatchIsRunnable)
<1>1. ASSUME EngineInv, WithinBudget PROVE BatchIsRunnable
  <2> SUFFICES ASSUME pc = "step", NEW i \in output.next..Len(output.batch)
               PROVE  LET s == output.batch[i].id
                      IN  /\ s \in ToSet(running) /\ s \in KV!Live
                          /\ status[s] = IF output.prompt THEN "RunningPrompt" ELSE "RunningCompletion"
                          /\ Computed(s) < output.batch[i].end
                          /\ output.batch[i].end <= Len(reqs[s].block_ids) * BlockSize
    BY <1>1 DEF BatchIsRunnable
  <2>1. output.next \in Nat \ {0} /\ Len(output.batch) \in Nat
    BY <1>1 DEF EngineInv, BatchInv, BatchTypes
  <2>2. i \in 1..Len(output.batch) /\ i >= output.next
    BY <2>1
  <2>3. /\ Row(i).id \in Runs
        /\ status[Row(i).id] = IF output.prompt THEN "RunningPrompt" ELSE "RunningCompletion"
        /\ seqs[Row(i).id].computed < Row(i).end /\ Row(i).end <= Slots(Row(i).id)
    BY <1>1, <2>2 DEF EngineInv, BatchInv, RowsAgree, Chosen
  <2>4. Row(i).id \in KV!Live
    BY <1>1, <2>3, ContractKept, HoldersLive
  <2>5. Computed(Row(i).id) = seqs[Row(i).id].computed
    BY <1>1, <2>4, ContractKept, SlotFacts DEF EngineInv, HoldingFacts
  <2> QED BY <2>3, <2>4, <2>5 DEF Row, Runs, Slots
<1>2. EngineInv => (WithinBudget => BatchIsRunnable)
  BY <1>1
<1> QED BY <1>2, EngineAgrees, PTL

\* A sequence holds KV blocks exactly while it runs, and no more than
\* max_num_seqs run.
THEOREM OnlyRunningHold == Spec => []WaitingHoldNothing
<1>1. ASSUME EngineInv PROVE WaitingHoldNothing
  <2>0. QueueInv /\ NoPanic
    BY <1>1, ContractKept, CacheFacts DEF EngineInv, NoPanic
  <2>1. /\ running \in Seq(Req) /\ local.kept \in Seq(Req) /\ local.prompts \in Seq(Req)
        /\ local.doomed \in Seq(Req)
    BY <2>0, QueueSets DEF QueueInv, Types, QueueTypes
  <2>2. /\ IsInjective(running) /\ IsInjective(local.kept) /\ IsInjective(local.prompts)
        /\ ToSet(running) \cap ToSet(local.kept) = {}
        /\ (Runs \cup Kept) \cap ToSet(local.prompts) = {}
    BY <2>0 DEF QueueInv, NoneDoubled, Apart, Runs, Kept, SetAside
  <2>3. PICK c1 \in Seq(Req) : /\ c1 = running \o local.kept /\ IsInjective(c1)
                               /\ ToSet(c1) = Runs \cup Kept
    <3>1. /\ running \o local.kept \in Seq(Req) /\ IsInjective(running \o local.kept)
          /\ ToSet(running \o local.kept) = ToSet(running) \cup ToSet(local.kept)
      BY <2>1, <2>2, JoinKeeps, Zenon
    <3> QED BY <3>1 DEF Runs, Kept
  <2>4. PICK c2 \in Seq(Req) : /\ c2 = c1 \o local.prompts /\ IsInjective(c2)
                               /\ ToSet(c2) = Runs \cup Kept \cup SetAside
    <3>1. ToSet(c1) \cap ToSet(local.prompts) = {}
      BY <2>2, <2>3
    <3>2. /\ c1 \o local.prompts \in Seq(Req) /\ IsInjective(c1 \o local.prompts)
          /\ ToSet(c1 \o local.prompts) = ToSet(c1) \cup ToSet(local.prompts)
      BY <2>1, <2>2, <2>3, <3>1, JoinKeeps, Zenon
    <3> QED BY <2>3, <3>2 DEF SetAside
  <2>5. ToSet(c2 \o local.doomed) = Holders
    <3>1. ToSet(c2 \o local.doomed) = ToSet(c2) \cup ToSet(local.doomed)
      BY <2>1, ConcatIsUnion, ZenonT(40)
    <3> QED BY <2>4, <3>1 DEF Holders, Doomed
  <2>6. KV!Live = Holders
    BY <2>0 DEF NoPanic, QueueInv, EntriesAgree
  <2>7. Len(c2) <= MaxNumSeqs
    <3>1. Len(c2) = Cardinality(ToSet(c2))
      BY <2>4, LenIsCardinality
    <3> QED BY <2>0, <2>4, <3>1 DEF QueueInv, Bounded
  <2> QED BY <2>3, <2>4, <2>5, <2>6, <2>7 DEF WaitingHoldNothing
<1>2. EngineInv => WaitingHoldNothing
  BY <1>1
<1> QED BY <1>2, EngineAgrees, PTL

=============================================================================
