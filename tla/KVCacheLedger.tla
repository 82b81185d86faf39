---------------------------- MODULE KVCacheLedger ----------------------------
(***************************************************************************)
(* What KVCacheManager promises to the scheduler, with the free list, the  *)
(* hash map and the retention of hot prefixes left out: physical blocks    *)
(* are handed out, shared and taken back, and a block that carries a       *)
(* prefix-cache key can be adopted by any request whose token prefix has   *)
(* that hash.  A fresh block is ANY block with no reference.               *)
(*                                                                         *)
(* Sequence positions are counted in whole blocks: done[r] blocks of the   *)
(* request are completely computed, and whatever lies behind them (a       *)
(* partly filled block, rejected speculative tokens) is scratch space.     *)
(* A Hash stands for the content it is computed from: the tokens of one    *)
(* block together with everything in front of them.                        *)
(***************************************************************************)
EXTENDS Integers, Sequences, FiniteSets

CONSTANTS
    Block,      \* the usable physical blocks (all but the null block)
    Req,        \* request (sequence) ids
    Hash,       \* block hashes
    NoHash,     \* the key of a block that is not in the prefix cache
    Junk,       \* KV content that no hash describes
    Chains      \* the block-hash chains that requests may have

ASSUME LedgerAssumption ==
    /\ IsFiniteSet(Block)
    /\ IsFiniteSet(Req)
    /\ NoHash \notin Hash
    /\ Junk \notin Hash
    /\ Chains \subseteq Seq(Hash)

\* A block hash folds in its parent's hash, so no hash occurs twice in a chain.
ASSUME ChainAssumption ==
    \A c \in Chains : \A i, j \in 1..Len(c) : c[i] = c[j] => i = j

VARIABLES
    live,       \* the requests with an entry in req_to_blocks
    blocks,     \* block_ids of each request, in sequence order
    cached,     \* num_cached_blocks of each request
    reserved,   \* reserved_blocks of each request
    total,      \* total_reserved_blocks
    ref,        \* ref_cnt of each block
    key,        \* the prefix-cache key of each block
    chain,      \* the hashes of each request's tokens
    done,       \* number of completely computed blocks of each request
    content     \* what each block's KV memory holds

vars == <<live, blocks, cached, reserved, total, ref, key, chain, done, content>>

-----------------------------------------------------------------------------

Elements(s) == {s[i] : i \in 1..Len(s)}

Distinct(s) == \A i, j \in 1..Len(s) : s[i] = s[j] => i = j

\* No request holds more blocks than there are.
BlockSeqs == UNION {[1..k -> Block] : k \in 0..Cardinality(Block)}

Holders(b) == {r \in live : b \in Elements(blocks[r])}

\* Mutant: a block with one holder counts as free.
FreeBlocksOffByOne == {b \in Block : ref[b] <= 1}

FreeBlocks == {b \in Block : ref[b] = 0}

ActiveBlocks == {b \in Block : ref[b] # 0}

\* One slot for every block that some request has reserved and not yet taken.
ReservedSlots == UNION {{r} \X (1..reserved[r]) : r \in Req}

\* Mutant: reservations are not set aside.
UnreservedIgnoresTotal == Cardinality(FreeBlocks)

\* Blocks that nobody holds and nobody has been promised.
Unreserved == Cardinality(FreeBlocks) - total

LesserOf(m, n) == IF m <= n THEN m ELSE n

-----------------------------------------------------------------------------

Init ==
    /\ live = {}
    /\ blocks = [r \in Req |-> <<>>]
    /\ cached = [r \in Req |-> 0]
    /\ reserved = [r \in Req |-> 0]
    /\ total = 0
    /\ ref = [b \in Block |-> 0]
    /\ key = [b \in Block |-> NoHash]
    /\ chain = [r \in Req |-> <<>>]
    /\ done = [r \in Req |-> 0]
    /\ content = [b \in Block |-> Junk]

\* Mutant: a block is taken for fresh as soon as it carries no key.
FreshBlocksByKey == {s \in BlockSeqs : Distinct(s) /\ \A b \in Elements(s) : key[b] = NoHash}

\* Sequences of unreferenced blocks, and of blocks that hold a prefix of c.
FreshBlocks == {s \in BlockSeqs : Distinct(s) /\ Elements(s) \subseteq FreeBlocks}

\* Mutant: the position of a hash in the chain is not compared.
CachedPrefixesAnyOrder(c) ==
    {s \in BlockSeqs : Len(s) <= Len(c) /\ \A i \in 1..Len(s) : key[s[i]] \in Elements(c)}

CachedPrefixes(c) ==
    {s \in BlockSeqs : Len(s) <= Len(c) /\ \A i \in 1..Len(s) : key[s[i]] = c[i]}

\* A request enters with a cached prefix, which it shares, and either fresh
\* blocks or a reservation for the rest of its prompt.
AdmitWith(r, hit, fresh, n) ==
    /\ Elements(fresh) \cap Elements(hit) = {}
    /\ Len(fresh) + n + Cardinality(FreeBlocks \cap Elements(hit)) <= Unreserved
    /\ blocks' = [blocks EXCEPT ![r] = hit \o fresh]
    /\ cached' = [cached EXCEPT ![r] = Len(hit)]
    /\ reserved' = [reserved EXCEPT ![r] = n]
    /\ total' = total + n
    /\ ref' = [b \in Block |-> IF b \in Elements(hit) \cup Elements(fresh)
                                 THEN ref[b] + 1 ELSE ref[b]]
    /\ key' = [b \in Block |-> IF b \in Elements(fresh) THEN NoHash ELSE key[b]]
    /\ done' = [done EXCEPT ![r] = Len(hit)]

Admit(r, c) ==
    /\ r \notin live
    /\ live' = live \cup {r}
    /\ chain' = [chain EXCEPT ![r] = c]
    /\ UNCHANGED content
    /\ \E hit \in CachedPrefixes(c), fresh \in FreshBlocks, n \in 0..Cardinality(Block) :
          AdmitWith(r, hit, fresh, n)

\* A running request takes fresh blocks, out of its reservation first.
GrowBy(r, fresh) ==
    LET taken == LesserOf(Len(fresh), reserved[r])
    IN  /\ Len(fresh) - taken <= Unreserved
        /\ blocks' = [blocks EXCEPT ![r] = blocks[r] \o fresh]
        /\ reserved' = [reserved EXCEPT ![r] = reserved[r] - taken]
        /\ total' = total - taken
        /\ ref' = [b \in Block |-> IF b \in Elements(fresh) THEN 1 ELSE ref[b]]
        /\ key' = [b \in Block |-> IF b \in Elements(fresh) THEN NoHash ELSE key[b]]

Grow(r) ==
    /\ r \in live
    /\ UNCHANGED <<live, cached, chain, done, content>>
    /\ \E fresh \in FreshBlocks : GrowBy(r, fresh)

\* A request gives up every block behind the first n; a request that still
\* has a reservation gets the capacity back as reservation.
Trim(r, n) ==
    LET removed == {blocks[r][i] : i \in (n + 1)..Len(blocks[r])}
        back    == IF reserved[r] # 0 THEN Len(blocks[r]) - n ELSE 0
    IN  /\ r \in live
        /\ n \in done[r]..(Len(blocks[r]) - 1)
        /\ blocks' = [blocks EXCEPT ![r] = SubSeq(blocks[r], 1, n)]
        /\ reserved' = [reserved EXCEPT ![r] = reserved[r] + back]
        /\ total' = total + back
        /\ ref' = [b \in Block |-> IF b \in removed THEN ref[b] - 1 ELSE ref[b]]
        /\ UNCHANGED <<live, cached, key, chain, done, content>>

\* Mutant: the reservation of the request stays in the total.
FreeKeepsTotal(r) ==
    /\ r \in live
    /\ live' = live \ {r}
    /\ blocks' = [blocks EXCEPT ![r] = <<>>]
    /\ cached' = [cached EXCEPT ![r] = 0]
    /\ reserved' = [reserved EXCEPT ![r] = 0]
    /\ ref' = [b \in Block |-> IF b \in Elements(blocks[r]) THEN ref[b] - 1 ELSE ref[b]]
    /\ chain' = [chain EXCEPT ![r] = <<>>]
    /\ done' = [done EXCEPT ![r] = 0]
    /\ UNCHANGED <<key, content, total>>

\* A request leaves: finished, cancelled or preempted.  Its blocks keep their
\* keys and their content.
Free(r) ==
    /\ r \in live
    /\ live' = live \ {r}
    /\ blocks' = [blocks EXCEPT ![r] = <<>>]
    /\ cached' = [cached EXCEPT ![r] = 0]
    /\ reserved' = [reserved EXCEPT ![r] = 0]
    /\ total' = total - reserved[r]
    /\ ref' = [b \in Block |-> IF b \in Elements(blocks[r]) THEN ref[b] - 1 ELSE ref[b]]
    /\ chain' = [chain EXCEPT ![r] = <<>>]
    /\ done' = [done EXCEPT ![r] = 0]
    /\ UNCHANGED <<key, content>>

\* Mutant: allocated blocks are published before they are computed.
PublishAllocated(r, n) ==
    /\ r \in live
    /\ n \in (cached[r] + 1)..LesserOf(Len(blocks[r]), Len(chain[r]))
    /\ cached' = [cached EXCEPT ![r] = n]
    /\ key' = [b \in Block |-> IF \E i \in (cached[r] + 1)..n : b = blocks[r][i]
                 THEN chain[r][CHOOSE i \in (cached[r] + 1)..n : b = blocks[r][i]] ELSE key[b]]
    /\ UNCHANGED <<live, blocks, reserved, total, ref, chain, done, content>>

\* The first n blocks of a request, completely computed, become visible in
\* the prefix cache.
Publish(r, n) ==
    LET new == (cached[r] + 1)..n
    IN  /\ r \in live
        /\ n \in (cached[r] + 1)..done[r]
        /\ cached' = [cached EXCEPT ![r] = n]
        /\ UNCHANGED <<live, blocks, reserved, total, ref, chain, done, content>>
        /\ key' \in [Block -> Hash \cup {NoHash}]
        /\ \A i \in new : key'[blocks[r][i]] = chain[r][i]
        /\ \A b \in Block : b \notin {blocks[r][i] : i \in new} => key'[b] = key[b]

\* A forward pass writes the KV of the request's tokens: blocks up to n are
\* complete, blocks up to w hold scratch (part of a block, rejected drafts).
Compute(r, n, w) ==
    /\ r \in live
    /\ n \in done[r]..LesserOf(Len(blocks[r]), Len(chain[r]))
    /\ w \in n..Len(blocks[r])
    /\ done' = [done EXCEPT ![r] = n]
    /\ UNCHANGED <<live, blocks, cached, reserved, total, ref, key, chain>>
    /\ content' \in [Block -> Hash \cup {Junk}]
    /\ \A i \in (done[r] + 1)..n : content'[blocks[r][i]] = chain[r][i]
    /\ \A b \in Block : b \notin {blocks[r][i] : i \in (done[r] + 1)..w} =>
                           content'[b] = content[b]

\* The prefix cache is dropped while no request is running.
Reset ==
    /\ live = {}
    /\ key' = [b \in Block |-> NoHash]
    /\ UNCHANGED <<live, blocks, cached, reserved, total, ref, chain, done, content>>

-----------------------------------------------------------------------------

Next ==
    \/ \E r \in Req, c \in Chains : Admit(r, c)
    \/ \E r \in Req : Grow(r)
    \/ \E r \in Req, n \in 0..Cardinality(Block) : Trim(r, n)
    \/ \E r \in Req : Free(r)
    \/ \E r \in Req, n \in 0..Cardinality(Block) : Publish(r, n)
    \/ \E r \in Req, n, w \in 0..Cardinality(Block) : Compute(r, n, w)
    \/ Reset

Spec == Init /\ [][Next]_vars

-----------------------------------------------------------------------------

\* Every variable keeps its type; total is an integer because the proof that
\* it never goes below zero is ReservationsExact.
TypeOK ==
    /\ live \subseteq Req
    /\ blocks \in [Req -> Seq(Block)]
    /\ cached \in [Req -> Nat]
    /\ reserved \in [Req -> Nat]
    /\ total \in Int
    /\ ref \in [Block -> Nat]
    /\ key \in [Block -> Hash \cup {NoHash}]
    /\ chain \in [Req -> Seq(Hash)]
    /\ done \in [Req -> Nat]
    /\ content \in [Block -> Hash \cup {Junk}]

\* The reference count of a block is the number of requests holding it, so a
\* block is freed neither early (use after free) nor never (a leak).
RefCountsExact == \A b \in Block : ref[b] = Cardinality(Holders(b))

\* A block that carries a prefix-cache key holds exactly the KV that the key
\* promises: adopting it instead of recomputing never changes a result.
PrefixHitsSound == \A b \in Block : key[b] # NoHash => content[b] = key[b]

\* What a request attends to is the KV of its own tokens: no other request
\* overwrites a block it holds.
HeldPrefixIntact ==
    \A r \in live : \A i \in 1..done[r] : content[blocks[r][i]] = chain[r][i]

\* total_reserved_blocks is the sum of all reservations.
ReservationsExact == total = Cardinality(ReservedSlots)

\* Blocks in use and blocks promised together never exceed the cache, so a
\* reservation can always be taken (debug_assert_reservation_invariant).
ReservationsCovered == Cardinality(ActiveBlocks) + total <= Cardinality(Block)

\* A step changes the KV of a block only if at most one request holds it and
\* the prefix cache does not offer it.
SharedBlocksImmutable ==
    [][\A b \in Block : content'[b] # content[b] =>
          /\ key[b] = NoHash
          /\ Cardinality(Holders(b)) = 1]_vars

-----------------------------------------------------------------------------
(* The inductive invariant behind the properties above. *)

\* A request without an entry owns nothing.
DeadRequestsEmpty ==
    \A r \in Req \ live : blocks[r] = <<>> /\ reserved[r] = 0

\* Only completely computed blocks are published, and only blocks that the
\* request has are computed.
ProgressOrdered ==
    \A r \in live :
        /\ chain[r] \in Chains
        /\ cached[r] <= done[r]
        /\ done[r] <= Len(blocks[r])
        /\ done[r] <= Len(chain[r])

\* The published blocks of a request carry its hashes.
PublishedKeys ==
    \A r \in live : \A i \in 1..cached[r] : key[blocks[r][i]] = chain[r][i]

\* The other blocks of a request are its own: no key, no second holder.
TailPrivate ==
    \A r \in live : \A i \in (cached[r] + 1)..Len(blocks[r]) :
        /\ key[blocks[r][i]] = NoHash
        /\ \A q \in live : \A j \in 1..Len(blocks[q]) :
              blocks[q][j] = blocks[r][i] => q = r /\ j = i

LedgerInv ==
    /\ TypeOK
    /\ DeadRequestsEmpty
    /\ ProgressOrdered
    /\ PublishedKeys
    /\ TailPrivate
    /\ RefCountsExact
    /\ PrefixHitsSound
    /\ HeldPrefixIntact
    /\ IsFiniteSet(ReservedSlots)
    /\ ReservationsExact
    /\ ReservationsCovered

=============================================================================
