--------------------------- MODULE KVCacheManager ---------------------------
(***************************************************************************)
(* kv_cache_manager.rs over the pool of block_pool.rs: one action per      *)
(* public operation that changes state, each run under the manager's lock, *)
(* interleaved with the operations of the prefix cacher on its retention   *)
(* leases, which take only the lease lock.                                 *)
(*                                                                         *)
(* The callers are modelled as far as they decide what the manager sees:   *)
(*  - the scheduler looks a prefix up, drops the lock, may preempt other   *)
(*    requests, and only then reserves or allocates with the blocks it     *)
(*    found (`lookup`);                                                    *)
(*  - the pipeline writes the KV of a request's tokens into the slots that *)
(*    get_slot_mapping names (`kv`) and advances num_computed_tokens;      *)
(*  - a speculative step may write past the accepted tokens and trims.     *)
(***************************************************************************)
EXTENDS BlockPool

CONSTANTS
    Req,            \* request (sequence) ids
    Chains,         \* the block-hash chains that requests may have
    BlockSize,      \* tokens per block
    MaxTokens,      \* bound on the tokens a request asks slots for
    Junk            \* KV content that no hash describes

\* The key of a block that is not in the prefix cache.
NoHash == 0

ASSUME ManagerAssumption ==
    /\ BlockSize \in Nat \ {0}
    /\ MaxTokens \in Nat
    /\ IsFiniteSet(Req)
    /\ Chains \subseteq Seq(Hash)
    /\ NoHash \notin Hash /\ Junk \notin Hash

\* A block hash folds in its parent's hash, so it says where in a chain it
\* stands and what is in front of it.
ASSUME HashAssumption ==
    \A c, d \in Chains : \A i \in 1..Len(c), j \in 1..Len(d) :
        c[i] = d[j] => i = j /\ \A k \in 1..i : c[k] = d[k]

VARIABLES
    pool,           \* block_pool, with the shared retention state
    reqs,           \* req_to_blocks
    total_reserved, \* total_reserved_blocks
    seqs,           \* tokens of the admitted sequences: their hashes, num_computed_tokens
    lookup,         \* the scheduler's computed_blocks, between lookup and admission
    kv,             \* GPU memory: what each slot of each block holds
    leases          \* the leases that the prefix cacher holds

vars == <<pool, reqs, total_reserved, seqs, lookup, kv, leases>>

NoLookup == [req |-> {}]

Slot == 0..(BlockSize - 1)

DivCeil(n) == (n + BlockSize - 1) \div BlockSize

LesserOf(m, n) == IF m <= n THEN m ELSE n

Live == DOMAIN reqs

With(f, r, v) == [x \in DOMAIN f \cup {r} |-> IF x = r THEN v ELSE f[x]]

Without(f, r) == [x \in DOMAIN f \ {r} |-> f[x]]

\* Mutant: the reservations of admitted prompts are not set aside.
NumUnreservedIgnoresReservations == NumFree(pool)

\* num_unreserved_blocks
NumUnreserved == NumFree(pool) - total_reserved

\* A panic aborts the process: only the failed check is left to see.
Panic == pool' = With(pool, "ok", FALSE)

Running == pool.ok

Init ==
    /\ pool = EmptyPool
    /\ reqs = << >>
    /\ total_reserved = 0
    /\ seqs = << >>
    /\ lookup = NoLookup
    /\ kv = [b \in Block |-> [o \in Slot |-> Junk]]
    /\ leases = {}

-----------------------------------------------------------------------------
(* Admission: lookup, then reserve_prompt or allocate_slots. *)

\* get_computed_blocks walks the hashes up to the first miss, and at most to
\* the token before the last one.
LongestHits(c, n) ==
    LET bound == LesserOf((n - 1) \div BlockSize, Len(c))
        Hit(s) == \A i \in 1..Len(s) : s[i] \in CachedBlocks(pool, c[i])
        Ends(k) == k = bound \/ CachedBlocks(pool, c[k + 1]) = {}
    IN  {s \in UNION {[1..k -> Block] : k \in 0..bound} : Hit(s) /\ Ends(Len(s))}

\* The scheduler looks up a waiting sequence; multimodal spans and recurrent
\* state may make it cut the hit short.
GetComputedBlocks(r, c, n) ==
    /\ Running /\ lookup = NoLookup /\ r \notin Live
    /\ \E found \in LongestHits(c, n) : \E k \in 0..Len(found) :
          lookup' = [req |-> {r}, chain |-> c, tokens |-> n, hit |-> SubSeq(found, 1, k)]
    /\ UNCHANGED <<pool, reqs, total_reserved, seqs, kv, leases>>

\* The scheduler stops retrying a sequence that does not fit.
AbandonLookup ==
    /\ Running /\ lookup # NoLookup
    /\ lookup' = NoLookup
    /\ UNCHANGED <<pool, reqs, total_reserved, seqs, kv, leases>>

\* Mutant: adopting an unreferenced block is taken to cost nothing.
NumEvictableIgnored == 0

\* Blocks of the hit that admission would take off the free list.
NumEvictable == Cardinality({i \in 1..Len(lookup.hit) : pool.ref_cnt[lookup.hit[i]] = 0})

Admitted(r, ids, reserve) ==
    /\ reqs' = With(reqs, r, [block_ids |-> ids, num_cached_blocks |-> Len(lookup.hit),
                              reserved_blocks |-> reserve])
    /\ total_reserved' = total_reserved + reserve
    /\ seqs' = With(seqs, r, [chain |-> lookup.chain, computed |-> Len(lookup.hit) * BlockSize])
    /\ lookup' = NoLookup

ReservePrompt(r) ==
    /\ Running /\ lookup.req = {r} /\ r \notin Live
    /\ LET reserve == DivCeil(lookup.tokens) - Len(lookup.hit)
       IN  /\ reserve >= 0
           /\ reserve + NumEvictable <= NumUnreserved
           /\ pool' \in IF lookup.hit = <<>> THEN {pool} ELSE Touch(pool, lookup.hit)
           /\ Admitted(r, lookup.hit, reserve)
    /\ UNCHANGED <<kv, leases>>

\* allocate_slots for a request that has no entry yet.
AllocateNewRequest(r) ==
    /\ Running /\ lookup.req = {r} /\ r \notin Live
    /\ LET fresh == DivCeil(lookup.tokens) - Len(lookup.hit)
       IN  /\ fresh + NumEvictable <= NumUnreserved
           /\ \E p \in IF lookup.hit = <<>> THEN {pool} ELSE Touch(pool, lookup.hit) :
              \E got \in IF fresh > 0 THEN GetNewBlocks(p, fresh)
                         ELSE {[pool |-> p, some |-> TRUE, blocks |-> <<>>]} :
                 IF got.some
                   THEN pool' = got.pool /\ Admitted(r, lookup.hit \o got.blocks, 0)
                   ELSE Panic /\ UNCHANGED <<reqs, total_reserved, seqs, lookup>>
    /\ UNCHANGED <<kv, leases>>

-----------------------------------------------------------------------------
(* Running requests. *)

TakenFromReservation(r, fresh) == LesserOf(fresh, reqs[r].reserved_blocks)

\* allocate_slots for a request that has an entry: out of its reservation
\* first.  get_new_blocks may revoke leases and still return None.
AllocateMore(r, n) ==
    /\ Running /\ lookup = NoLookup /\ r \in Live
    /\ LET fresh == DivCeil(n) - Len(reqs[r].block_ids)
           taken == TakenFromReservation(r, fresh)
       IN  /\ fresh > 0
           /\ fresh - taken <= NumUnreserved
           /\ \E got \in GetNewBlocks(pool, fresh) :
                 /\ pool' = got.pool
                 /\ IF got.some
                      THEN /\ reqs' = [reqs EXCEPT ![r].block_ids = @ \o got.blocks,
                                                   ![r].reserved_blocks = @ - taken]
                           /\ total_reserved' = total_reserved - taken
                      ELSE UNCHANGED <<reqs, total_reserved>>
    /\ UNCHANGED <<seqs, lookup, kv, leases>>

\* Mutant: blocks are released front to back.
ReleaseOrderForward(ids) == ids

\* free and trim release the tail of a request first.
ReleaseOrder(ids) == Reverse(ids)

Free(r) ==
    /\ Running /\ r \in Live
    /\ total_reserved' = total_reserved - reqs[r].reserved_blocks
    /\ pool' \in FreeBlocks(pool, ReleaseOrder(reqs[r].block_ids))
    /\ reqs' = Without(reqs, r)
    /\ seqs' = Without(seqs, r)
    /\ UNCHANGED <<lookup, kv, leases>>

\* trim_request_to_num_tokens, after a speculative step kept n tokens.
TrimRequest(r, n) ==
    /\ Running /\ lookup = NoLookup /\ r \in Live /\ n >= seqs[r].computed
    /\ LET req  == reqs[r]
           keep == DivCeil(n)
           gone == SubSeq(req.block_ids, keep + 1, Len(req.block_ids))
           back == IF req.reserved_blocks # 0 THEN Len(gone) ELSE 0
       IN  /\ keep < Len(req.block_ids)
           /\ reqs' = [reqs EXCEPT ![r].block_ids = SubSeq(@, 1, keep),
                                   ![r].num_cached_blocks = LesserOf(@, keep),
                                   ![r].reserved_blocks = @ + back]
           /\ pool' \in FreeBlocks(pool, ReleaseOrder(gone))
           /\ total_reserved' = total_reserved + back
    /\ UNCHANGED <<seqs, lookup, kv, leases>>

\* Mutant: a partly filled block counts as full.
NumFullBlocksRoundedUp(r) == LesserOf(DivCeil(seqs[r].computed), Len(seqs[r].chain))

NumFullBlocks(r) == LesserOf(seqs[r].computed \div BlockSize, Len(reqs[r].block_ids))

\* cache_blocks, called with the tokens computed so far.
CacheBlocks(r) ==
    /\ Running /\ r \in Live
    /\ LET req  == reqs[r]
           full == NumFullBlocks(r)
       IN  /\ req.num_cached_blocks < full
           /\ pool' \in CacheFullBlocks(pool, req.block_ids, seqs[r].chain,
                                        req.num_cached_blocks, full)
           /\ reqs' = [reqs EXCEPT ![r].num_cached_blocks = full]
    /\ UNCHANGED <<total_reserved, seqs, lookup, kv, leases>>

\* get_slot_mapping: the block and offset of a token position.
SlotOf(r, t) == [block |-> reqs[r].block_ids[t \div BlockSize + 1], offset |-> t % BlockSize]

\* A forward pass over the tokens computed..w-1, of which those below n are
\* accepted; the rest are rejected drafts whose KV stays in its slots.
Forward(r, n, w) ==
    /\ Running /\ lookup = NoLookup /\ r \in Live
    /\ seqs[r].computed <= n /\ n <= w /\ seqs[r].computed < w
    /\ n < (Len(seqs[r].chain) + 1) * BlockSize
    /\ w <= Len(reqs[r].block_ids) * BlockSize
    /\ LET written == seqs[r].computed..(w - 1)
           Value(t) == IF t < LesserOf(n, Len(seqs[r].chain) * BlockSize)
                         THEN seqs[r].chain[t \div BlockSize + 1] ELSE Junk
           At(b, o) == {t \in written : SlotOf(r, t) = [block |-> b, offset |-> o]}
       IN  kv' = [b \in Block |-> [o \in Slot |->
                    IF At(b, o) = {} THEN kv[b][o] ELSE Value(CHOOSE t \in At(b, o) : TRUE)]]
    /\ seqs' = [seqs EXCEPT ![r].computed = n]
    /\ UNCHANGED <<pool, reqs, total_reserved, lookup, leases>>

\* reset_prefix_cache: only when no request has an entry and no block is in use.
ResetPrefixCache ==
    /\ Running /\ lookup = NoLookup
    /\ Live = {} /\ NumFree(pool) = NumBlocks
    /\ pool' \in ResetPool(pool)
    /\ total_reserved' = 0
    /\ UNCHANGED <<reqs, seqs, lookup, kv, leases>>

-----------------------------------------------------------------------------
(* The prefix cacher's leases on hot prefixes. *)

RetainPrefix(l, c, k) ==
    /\ Running /\ l \notin leases
    /\ pool' = Retain(pool, l, SubSeq(c, 1, k))
    /\ leases' = leases \cup {l}
    /\ UNCHANGED <<reqs, total_reserved, seqs, lookup, kv>>

TouchPrefix(l) ==
    /\ Running /\ l \in leases
    /\ pool' = TouchLease(pool, l)
    /\ UNCHANGED <<reqs, total_reserved, seqs, lookup, kv, leases>>

DropPrefix(l) ==
    /\ Running /\ l \in leases
    /\ pool' = DropLease(pool, l)
    /\ leases' = leases \ {l}
    /\ UNCHANGED <<reqs, total_reserved, seqs, lookup, kv>>

\* PrefixBlockRetentionRevocationMonitor::take_pending
TakePendingRevocation ==
    /\ Running /\ pool.revoked
    /\ pool' = [pool EXCEPT !.revoked = FALSE]
    /\ UNCHANGED <<reqs, total_reserved, seqs, lookup, kv, leases>>

\* What a serving process does; reset_prefix_cache is offered beside it.
Serve ==
    \/ \E r \in Req, c \in Chains, n \in 1..MaxTokens : GetComputedBlocks(r, c, n)
    \/ AbandonLookup
    \/ \E r \in Req : ReservePrompt(r) \/ AllocateNewRequest(r)
    \/ \E r \in Req : Free(r) \/ CacheBlocks(r)
    \/ \E r \in Req, n \in 1..MaxTokens : AllocateMore(r, n) \/ TrimRequest(r, n)
    \/ \E r \in Req, n, w \in 0..MaxTokens : Forward(r, n, w)
    \/ \E l \in Lease, c \in Chains : \E k \in 1..Len(c) : RetainPrefix(l, c, k)
    \/ \E l \in Lease : TouchPrefix(l) \/ DropPrefix(l)
    \/ TakePendingRevocation

Next == Serve \/ ResetPrefixCache

ServingSpec == Init /\ [][Serve]_vars

Spec == Init /\ [][Next]_vars

-----------------------------------------------------------------------------
(* Refinement of the ledger. *)

\* What a block holds as a whole.
BlockContent(b) == IF \E h \in Hash : \A o \in Slot : kv[b][o] = h THEN kv[b][0] ELSE Junk

OrElse(f, r, default) == IF r \in DOMAIN f THEN f[r] ELSE default

Entry(r) == OrElse(reqs, r, [block_ids |-> <<>>, num_cached_blocks |-> 0, reserved_blocks |-> 0])

Tokens(r) == OrElse(seqs, r, [chain |-> <<>>, computed |-> 0])

KeyOf(b) == IF pool.block_hashes[b] = {} THEN NoHash ELSE CHOOSE h \in pool.block_hashes[b] : TRUE

BlocksOf   == [r \in Req |-> Entry(r).block_ids]
CachedOf   == [r \in Req |-> Entry(r).num_cached_blocks]
ReservedOf == [r \in Req |-> Entry(r).reserved_blocks]
HashesOf   == [r \in Req |-> Tokens(r).chain]
DoneOf     == [r \in Req |-> Tokens(r).computed \div BlockSize]
Keys       == [b \in Block |-> KeyOf(b)]
Contents   == [b \in Block |-> BlockContent(b)]

Ledger == INSTANCE KVCacheLedger WITH
    live <- Live, blocks <- BlocksOf, cached <- CachedOf, reserved <- ReservedOf,
    total <- total_reserved, ref <- pool.ref_cnt, key <- Keys,
    chain <- HashesOf, done <- DoneOf, content <- Contents

\* The manager keeps what KVCacheLedger promises, whatever the free list, the
\* hash map and the retention leases do underneath.
LedgerSpec == Ledger!Spec

-----------------------------------------------------------------------------

\* Every variable has its type.
TypeOK ==
    /\ pool.queue \in Seq(Block)
    /\ pool.ref_cnt \in [Block -> Nat]
    /\ pool.block_hashes \in [Block -> SUBSET Hash]
    /\ pool.cache \in [Hash -> SUBSET Block]
    /\ pool.retained_hashes \subseteq Hash
    /\ pool.retained_block \in [Hash -> Block \cup {NoBlock}]
    /\ pool.retention_count \in [Block -> Nat]
    /\ pool.hash_ref \in [Hash -> Nat]
    /\ Live \subseteq Req /\ DOMAIN seqs = Live
    /\ total_reserved \in Nat
    /\ kv \in [Block -> [Slot -> Hash \cup {Junk}]]
    /\ leases \subseteq Lease

\* No assertion, expect or checked subtraction of the pool or the manager
\* fails, in particular "Should have enough blocks after capacity check" and
\* that of num_unreserved_blocks, "KV reservations exceed physical free blocks".
NoPanic == pool.ok /\ total_reserved <= NumFree(pool)

\* The pool's free list, indexes and pins are all exact.
PoolConsistent == TypeOK /\ FreeListExact(pool) /\ IndexesAgree(pool) /\ RetentionExact(pool)

\* A reservation can be taken at any time: "reserved prompt chunk must fit
\* in the KV cache".
ReservationsHonoured ==
    \A r \in Live : \A got \in GetNewBlocks(pool, reqs[r].reserved_blocks) : got.some

\* Leases are revoked oldest first, and only as a request or a reset needs it.
RevokesOldestFirst ==
    [][ leases' = leases /\ Len(pool'.entries) < Len(pool.entries)
          => IsSuffix(pool'.entries, pool.entries) /\ pool'.revoked ]_vars

\* Freed requests give up their tail first, so eviction never cuts a cached
\* prefix in the middle: whatever is cached can also be found by a lookup,
\* which walks a chain from its start.  (Retention releases hashes in any
\* order, so this is a property of a pool without leases.)
NoOrphanedBlocks ==
    \A c \in Chains : \A i \in 2..Len(c) :
        pool.cache[c[i]] # {} => pool.cache[c[i - 1]] # {}

-----------------------------------------------------------------------------
(* The inductive invariant behind the properties above. *)

RequestRecord == [block_ids : Seq(Block), num_cached_blocks : Nat, reserved_blocks : Nat]

TokensRecord == [chain : Chains, computed : Nat]

Typed ==
    /\ Live \subseteq Req
    /\ reqs \in [Live -> RequestRecord]
    /\ seqs \in [Live -> TokensRecord]
    /\ kv \in [Block -> [Slot -> Hash \cup {Junk}]]
    /\ leases \subseteq Lease

\* The blocks that the scheduler found still carry the hashes it looked for:
\* nothing that runs between lookup and admission evicts a block.
LookupKnown ==
    lookup # NoLookup =>
        /\ lookup \in [req : SUBSET Req, chain : Chains, tokens : Nat, hit : Seq(Block)]
        /\ Len(lookup.hit) <= Len(lookup.chain)
        /\ Len(lookup.hit) * BlockSize <= lookup.tokens
        /\ \A i \in 1..Len(lookup.hit) : lookup.chain[i] \in pool.block_hashes[lookup.hit[i]]

\* Every computed token has a slot, and the slot holds its KV.
OwnTokens ==
    \A r \in Live :
        /\ seqs[r].computed <= Len(reqs[r].block_ids) * BlockSize
        /\ \A t \in 0..(seqs[r].computed - 1) : t < Len(seqs[r].chain) * BlockSize =>
              kv[SlotOf(r, t).block][SlotOf(r, t).offset] = seqs[r].chain[t \div BlockSize + 1]

ManagerInv ==
    /\ Typed
    /\ PoolInv(pool)
    /\ \A e \in ToSet(pool.entries) : e.id \in leases
    /\ LookupKnown
    /\ OwnTokens
    /\ Ledger!LedgerInv

\* Of a pool without leases: for an idle cached block there is a block with
\* the hash in front of it that is not evicted before it.
EvictionOrder(p) ==
    \A c \in Chains : \A i \in 2..Len(c) : \A b \in p.cache[c[i]] :
        p.ref_cnt[b] = 0 => \E a \in p.cache[c[i - 1]] : ~Ahead(p.queue, a, b)

TailEvictedFirst == EvictionOrder(pool)

=============================================================================
