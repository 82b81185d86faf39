------------------------------ MODULE BlockPool ------------------------------
(***************************************************************************)
(* block_pool.rs: the pool of physical KV blocks, the prefix cache and the *)
(* retention of hot prefixes.                                              *)
(*                                                                         *)
(* The pool is ONE record that its operations map to a new record, so that *)
(* KVCacheManager can chain several of them in one critical section.  An   *)
(* operation whose result depends on the iteration order of a HashMap or a *)
(* HashSet returns the SET of records it may leave behind.  The field `ok` *)
(* turns FALSE where the code would panic (assert!, expect, checked_sub,   *)
(* an index NO_LINK, and debug_assert! where it is compiled in).           *)
(*                                                                         *)
(* A loop over hashes or blocks is written as what it leaves behind: a     *)
(* checked_sub in each round as one comparison, a counter as a             *)
(* cardinality.  The free list is linked through the blocks themselves, so *)
(* no block can be in it twice.                                            *)
(*                                                                         *)
(* The null block is never handed out, so block ids are those of the other *)
(* blocks.  cache_blocks assigns all group ids of a block under one lock,  *)
(* so a key is a hash.  The revision numbers are only ever compared for    *)
(* equality: `dirty` says that the published revision is not the applied   *)
(* one.  Likewise `revoked` says that the revocation epoch has moved since *)
(* the monitor last looked.                                                *)
(***************************************************************************)
EXTENDS Integers, Sequences, FiniteSets, SequencesExt, Queues

CONSTANTS
    NumBlocks,          \* num_gpu_blocks without the null block
    Hash,               \* block hashes
    Lease,              \* names of retention leases; none: not enabled
    DebugAssertions     \* whether debug_assert! is compiled in

ASSUME PoolAssumption == NumBlocks \in Nat \ {0} /\ DebugAssertions \in BOOLEAN

Block == 1..NumBlocks

NoBlock == 0

EmptyPool ==
    [ queue           |-> [i \in 1..NumBlocks |-> i],   \* free_queue, LRU first
      ref_cnt         |-> [b \in Block |-> 0],
      block_hashes    |-> [b \in Block |-> {}],
      cache           |-> [h \in Hash |-> {}],          \* cached_block_hash_to_block
      prefix_cached   |-> 0,          \* num_prefix_cached_physical_blocks
      retained_hashes |-> {},
      retained_block  |-> [h \in Hash |-> NoBlock],     \* retained_hash_to_block
      retention_count |-> [b \in Block |-> 0],
      retained        |-> 0,          \* num_retained_physical_blocks
      retained_free   |-> 0,          \* num_retained_free_blocks
      entries         |-> <<>>,       \* of the retention state, oldest first
      hash_ref        |-> [h \in Hash |-> 0],           \* hash_ref_counts
      dirty           |-> FALSE,
      revoked         |-> FALSE,
      ok              |-> TRUE ]

Bit(holds) == IF holds THEN 1 ELSE 0

Check(p, holds) == [p EXCEPT !.ok = @ /\ holds]

DebugCheck(p, holds) == [p EXCEPT !.ok = @ /\ (DebugAssertions => holds)]

NumFree(p) == Len(p.queue) + p.retained_free

-----------------------------------------------------------------------------
(* Retention of physical blocks by retained hashes. *)

\* reconcile_retained_hash_block and retain_physical_block: every hash of pick
\* is retained by the block that pick gives it; an idle one leaves the free list.
Pin(p, pick) ==
    LET Pins(b) == {h \in DOMAIN pick : pick[h] = b}
        new     == {b \in Block : p.retention_count[b] = 0 /\ Pins(b) # {}}
        idle    == {b \in new : p.ref_cnt[b] = 0}
    IN  Check([p EXCEPT !.retained_block = [h \in Hash |-> IF h \in DOMAIN pick THEN pick[h] ELSE @[h]],
                        !.retention_count = [b \in Block |-> @[b] + Cardinality(Pins(b))],
                        !.retained = @ + Cardinality(new),
                        !.retained_free = @ + Cardinality(idle),
                        !.queue = Keep(@, Block \ idle)],
              idle \subseteq ToSet(p.queue))

\* The candidate is any block of the hash: a HashMap yields its keys in any order.
Reconcile(p, hs) ==
    LET wanted == {h \in hs : p.retained_block[h] = NoBlock /\ p.cache[h] # {}}
    IN  {Pin(p, pick) : pick \in {f \in [wanted -> Block] : \A h \in wanted : f[h] \in p.cache[h]}}

Pins(p, hs, b) == {h \in hs : p.retained_block[h] = b}

\* The blocks that hs are the last hashes to retain.
Unpinned(p, hs) ==
    {b \in Block : p.retention_count[b] > 0 /\ p.retention_count[b] = Cardinality(Pins(p, hs, b))}

LeftIdle(p, hs) == {b \in Unpinned(p, hs) : p.ref_cnt[b] = 0}

\* release_physical_block for the hashes hs: the blocks that are left idle
\* return to the free list, in the given order.
Unpin(p, hs, order) ==
    Check([p EXCEPT !.retained_block = [h \in Hash |-> IF h \in hs THEN NoBlock ELSE @[h]],
                    !.retention_count = [b \in Block |-> @[b] - Cardinality(Pins(p, hs, b))],
                    !.retained = @ - Cardinality(Unpinned(p, hs)),
                    !.retained_free = @ - Cardinality(LeftIdle(p, hs)),
                    !.queue = @ \o order],
          /\ \A b \in Block : Cardinality(Pins(p, hs, b)) <= p.retention_count[b]
          /\ Cardinality(Unpinned(p, hs)) <= p.retained
          /\ Cardinality(LeftIdle(p, hs)) <= p.retained_free)

\* sync_retention_locked: follow the hashes that leases retain right now, in
\* the order in which a HashSet yields them.
SyncRetention(p) ==
    IF ~p.dirty THEN {p}
    ELSE LET next    == {h \in Hash : p.hash_ref[h] > 0}
             removed == p.retained_hashes \ next
             Unpins  == {Unpin(p, removed, order) : order \in SetToSeqs(LeftIdle(p, removed))}
         IN  {[q EXCEPT !.retained_hashes = next, !.dirty = FALSE] :
                 q \in UNION {Reconcile(u, next \ p.retained_hashes) : u \in Unpins}}

-----------------------------------------------------------------------------
(* PrefixBlockRetentionState and its leases. *)

Retain(p, l, hs) ==
    [p EXCEPT !.entries = Append(@, [id |-> l, hashes |-> hs]),
              !.hash_ref = [h \in Hash |-> @[h] + Bit(h \in ToSet(hs))],
              !.dirty = TRUE]

EntriesOf(p, l) == {e \in ToSet(p.entries) : e.id = l}

\* shift_remove and insert: the entry becomes the youngest.
TouchLease(p, l) ==
    [p EXCEPT !.entries = Keep(@, ToSet(@) \ EntriesOf(p, l)) \o Keep(@, EntriesOf(p, l))]

RemoveEntry(p, e) ==
    Check([p EXCEPT !.entries = Keep(@, ToSet(@) \ {e}),
                    !.hash_ref = [h \in Hash |-> @[h] - Bit(h \in ToSet(e.hashes))],
                    !.dirty = TRUE],
          \A h \in ToSet(e.hashes) : p.hash_ref[h] > 0)

DropLease(p, l) ==
    IF EntriesOf(p, l) = {} THEN p ELSE RemoveEntry(p, CHOOSE e \in EntriesOf(p, l) : TRUE)

\* The hashes that only e retains, as remove_entry returns them.
Released(p, e) == Keep(Reverse(e.hashes), {h \in Hash : p.hash_ref[h] = 1})

\* release_retained_hashes: the removal from retained_hashes is an argument
\* of debug_assert!, so it happens only in a build that has them.
ReleaseRetainedHashes(p, hs) ==
    LET blocks == [i \in 1..Len(hs) |-> p.retained_block[hs[i]]]
        q      == IF DebugAssertions
                    THEN Check([p EXCEPT !.retained_hashes = @ \ ToSet(hs)],
                               ToSet(hs) \subseteq p.retained_hashes)
                    ELSE p
    IN  Unpin(q, ToSet(hs), Keep(blocks, LeftIdle(p, ToSet(hs))))

RevokeEntry(p, e) == ReleaseRetainedHashes(RemoveEntry(p, e), Released(p, e))

\* Mutant: the youngest lease is revoked first.
RevokeYoungest(p) == RevokeEntry(p, Last(p.entries))

RevokeOldest(p) == RevokeEntry(p, Head(p.entries))

\* The pool after the k oldest leases were revoked, for each k.
Revocations(p) ==
    LET after[k \in 0..Len(p.entries)] == IF k = 0 THEN p ELSE RevokeOldest(after[k - 1])
    IN  after

\* Revoke leases, oldest first, until n blocks are in the free queue.
RevokeForPressure(p, n) ==
    LET after == Revocations(p)
        k     == Min({i \in DOMAIN after : i = Len(p.entries) \/ n <= Len(after[i].queue)})
    IN  [after[k] EXCEPT !.dirty = FALSE, !.revoked = @ \/ k > 0]

-----------------------------------------------------------------------------
(* Allocation, sharing and release of blocks. *)

\* Mutant: evicted blocks stay in the hash map.
EvictKeepsHashMap(p, bs) ==
    [p EXCEPT !.block_hashes = [b \in Block |-> IF b \in bs THEN {} ELSE @[b]],
              !.prefix_cached = @ - Cardinality({b \in bs : p.block_hashes[b] # {}})]

\* maybe_evict_cached_block for each of bs.
EvictCachedBlocks(p, bs) ==
    LET cached == {b \in bs : p.block_hashes[b] # {}}
    IN  DebugCheck(Check([p EXCEPT !.block_hashes = [b \in Block |-> IF b \in bs THEN {} ELSE @[b]],
                                   !.cache = [h \in Hash |-> @[h] \ {b \in bs : h \in p.block_hashes[b]}],
                                   !.prefix_cached = @ - Cardinality(cached)],
                         Cardinality(cached) <= p.prefix_cached),
                   \A b \in bs : p.retention_count[b] = 0)

AllocateFreeBlocks(p, n) ==
    LET taken == SubSeq(p.queue, 1, n)
        q     == EvictCachedBlocks([p EXCEPT !.queue = SubSeq(@, n + 1, Len(@))], ToSet(taken))
    IN  [pool |-> DebugCheck([q EXCEPT !.ref_cnt = [b \in Block |-> IF b \in ToSet(taken) THEN 1 ELSE @[b]]],
                             \A b \in ToSet(taken) : p.ref_cnt[b] = 0),
         some |-> TRUE, blocks |-> taken]

NotAllocated(p) == [pool |-> p, some |-> FALSE, blocks |-> <<>>]

\* Mutant: pinned blocks count as free, but no lease is revoked to get them.
GetNewBlocksNoRevocation(p, n) ==
    { IF n > Len(q.queue) THEN NotAllocated(q) ELSE AllocateFreeBlocks(q, n) :
      q \in SyncRetention(p) }

GetNewBlocks(p, n) ==
    IF n > NumFree(p) THEN {NotAllocated(p)}
    ELSE IF Lease = {} THEN {AllocateFreeBlocks(p, n)}
    ELSE LET Allocate(q) == IF n > Len(q.queue) THEN NotAllocated(q)
                            ELSE AllocateFreeBlocks(q, n)
         IN  {Allocate(RevokeForPressure(q, n)) : q \in SyncRetention(p)}

\* get_common_cached_block: the retained block of a hash, else any block of it.
CachedBlocks(p, h) ==
    LET b == p.retained_block[h]
    IN  IF b # NoBlock /\ h \in p.block_hashes[b] THEN {b} ELSE p.cache[h]

\* How often a block is listed.
Listed(bs, b) == Cardinality({i \in 1..Len(bs) : bs[i] = b})

\* Mutant: an unreferenced block is always taken to be in the free queue.
TouchBlocksIgnoresPins(p, bs) ==
    LET idle == {b \in ToSet(bs) : p.ref_cnt[b] = 0}
    IN  Check([p EXCEPT !.ref_cnt = [b \in Block |-> @[b] + Listed(bs, b)],
                        !.queue = Keep(@, Block \ idle)],
              idle \subseteq ToSet(p.queue))

TouchBlocks(p, bs) ==
    LET idle == {b \in ToSet(bs) : p.ref_cnt[b] = 0}
        held == {b \in idle : p.retention_count[b] > 0}
    IN  Check([p EXCEPT !.ref_cnt = [b \in Block |-> @[b] + Listed(bs, b)],
                        !.retained_free = @ - Cardinality(held),
                        !.queue = Keep(@, Block \ (idle \ held))],
              idle \ held \subseteq ToSet(p.queue) /\ Cardinality(held) <= p.retained_free)

Touch(p, bs) == {TouchBlocks(q, bs) : q \in SyncRetention(p)}

\* Every block in its first place.
Firsts(bs) == Picked(bs, InOrder({i \in 1..Len(bs) : \A j \in 1..(i - 1) : bs[j] # bs[i]}))

\* Every block loses as many references as it is listed; those left without
\* any go to the free queue in the order of their first listing, unless pinned.
ReleaseBlocks(p, bs, pinned) ==
    LET idle == {b \in ToSet(bs) : p.ref_cnt[b] = Listed(bs, b)}
    IN  Check([p EXCEPT !.ref_cnt = [b \in Block |-> @[b] - Listed(bs, b)],
                        !.retained_free = @ + Cardinality(idle \cap pinned),
                        !.queue = @ \o Keep(Firsts(bs), idle \ pinned)],
              \A b \in ToSet(bs) : p.ref_cnt[b] >= Listed(bs, b))

\* Mutant: a released block goes to the free queue even when it is pinned.
FreeBlocksIgnoresPins(p, bs) == {ReleaseBlocks(q, bs, {}) : q \in SyncRetention(p)}

FreeBlocks(p, bs) ==
    {ReleaseBlocks(q, bs, {b \in Block : q.retention_count[b] > 0}) : q \in SyncRetention(p)}

\* cache_full_blocks for the blocks bs[i] and hashes hs[i] with i in new.
PublishBlocks(p, bs, hs, new) ==
    LET Added(b) == {hs[i] : i \in {j \in new : bs[j] = b}}
        fresh    == {b \in Block : p.block_hashes[b] = {} /\ Added(b) # {}}
    IN  [p EXCEPT !.prefix_cached = @ + Cardinality(fresh),
                  !.block_hashes = [b \in Block |-> @[b] \cup Added(b)],
                  !.cache = [h \in Hash |-> @[h] \cup {b \in Block : h \in Added(b)}]]

CacheFullBlocks(p, bs, hs, from, to) ==
    IF from >= to THEN {p}
    ELSE LET New(q)    == {i \in (from + 1)..to : hs[i] \notin q.block_hashes[bs[i]]}
             Hashes(q) == {hs[i] : i \in New(q)} \cap q.retained_hashes
         IN  UNION {Reconcile(PublishBlocks(Check(q, Len(hs) >= to), bs, hs, New(q)), Hashes(q)) :
                       q \in SyncRetention(p)}

\* reset_prefix_cache, for a pool that has no block in use.
ResetPool(p) ==
    LET Revoked(q) == Revocations(q)[Len(q.entries)]
        Reset(q)   == [q EXCEPT !.cache = [h \in Hash |-> {}],
                                !.retained_block = [h \in Hash |-> NoBlock],
                                !.prefix_cached = 0,
                                !.block_hashes = [b \in Block |-> {}],
                                !.dirty = FALSE,
                                !.revoked = @ \/ p.entries # <<>>]
    IN  { LET r == Revoked(q)
          IN  DebugCheck(Reset(r), \A h \in Hash : r.retained_block[h] = NoBlock) :
          q \in SyncRetention(p) }

-----------------------------------------------------------------------------
(* What is known of a pool between two operations. *)

\* A lease with the hashes it retains, and the type of a pool.
LeaseEntry == [id : Lease, hashes : Seq(Hash)]

PoolRecord ==
    [ queue : Seq(Block), ref_cnt : [Block -> Nat],
      block_hashes : [Block -> SUBSET Hash], cache : [Hash -> SUBSET Block],
      prefix_cached : Int, retained_hashes : SUBSET Hash,
      retained_block : [Hash -> Block \cup {NoBlock}], retention_count : [Block -> Int],
      retained : Int, retained_free : Int,
      entries : Seq(LeaseEntry), hash_ref : [Hash -> Int],
      dirty : BOOLEAN, revoked : BOOLEAN, ok : BOOLEAN ]

\* The free list holds every unreferenced block exactly once, unless a
\* retained hash pins it; pinned unreferenced blocks are counted exactly.
FreeListExact(p) ==
    LET idle   == {b \in Block : p.ref_cnt[b] = 0}
        pinned == {b \in idle : p.retention_count[b] > 0}
    IN  /\ IsInjective(p.queue)
        /\ ToSet(p.queue) = idle \ pinned
        /\ p.retained_free = Cardinality(pinned)

\* The hash map, the keys on the blocks, the retained map and the counters
\* kept beside them all tell the same story.
IndexesAgree(p) ==
    /\ \A b \in Block, h \in Hash : h \in p.block_hashes[b] <=> b \in p.cache[h]
    /\ \A b \in Block : \A g, h \in p.block_hashes[b] : g = h
    /\ p.prefix_cached = Cardinality({b \in Block : p.block_hashes[b] # {}})
    /\ p.retained = Cardinality({b \in Block : p.retention_count[b] > 0})
    /\ \A b \in Block : p.retention_count[b] = Cardinality({h \in Hash : p.retained_block[h] = b})
    /\ \A h \in Hash : p.retained_block[h] # NoBlock => h \in p.block_hashes[p.retained_block[h]]

\* Once the pool has caught up with the leases, a cached hash is pinned if
\* and only if some lease retains it.
RetentionExact(p) ==
    ~p.dirty => \A h \in Hash :
        p.retained_block[h] # NoBlock <=> p.hash_ref[h] > 0 /\ p.cache[h] # {}

\* Every lease has one entry, and a hash is counted once per entry.
LeasesCounted(p) ==
    /\ IsInjective(p.entries)
    /\ \A e, f \in ToSet(p.entries) : e.id = f.id => e = f
    /\ \A e \in ToSet(p.entries) : IsInjective(e.hashes)
    /\ \A h \in Hash :
          p.hash_ref[h] = Cardinality({e \in ToSet(p.entries) : h \in ToSet(e.hashes)})

\* The hashes that are pinned are those of retained_hashes that are cached.
PinsKnown(p) ==
    \A h \in Hash : p.retained_block[h] # NoBlock <=> h \in p.retained_hashes /\ p.cache[h] # {}

\* The retained hashes are those that some lease retains.
CaughtUp(p) == p.retained_hashes = {h \in Hash : p.hash_ref[h] > 0}

\* What every operation keeps.
PoolInv(p) ==
    /\ p \in PoolRecord
    /\ p.ok
    /\ FreeListExact(p)
    /\ IndexesAgree(p)
    /\ LeasesCounted(p)
    /\ PinsKnown(p)
    /\ ~p.dirty => CaughtUp(p)
    /\ p.dirty => Lease # {}

=============================================================================
