--------------------------- MODULE KVCacheManagerProofs -----------------------
(***************************************************************************)
(* What block_pool.rs and kv_cache_manager.rs keep, for any number of      *)
(* blocks, requests, hashes and leases: the operations of the pool first,  *)
(* then those of the manager, then the theorems.                           *)
(***************************************************************************)
EXTENDS KVCacheManager, QueueTheorems

-----------------------------------------------------------------------------
\* A queue that doubles nothing has every member in its first place.
LEMMA FirstsOfInjective ==
  ASSUME NEW T, NEW q \in Seq(T), IsInjective(q)
  PROVE  Firsts(q) = Keep(q, ToSet(q))
<1>1. PICK n \in Nat : n = Len(q)
  OBVIOUS
<1>2. \A i, j \in 1..n : q[i] = q[j] => i = j
  BY <1>1, InjectiveByPositions
<1>3. {i \in 1..n : \A j \in 1..(i - 1) : q[j] # q[i]} = 1..n
  BY <1>2
<1>4. Positions(q, ToSet(q)) = 1..n
  BY <1>1, MembersHavePositions DEF Positions
<1>5. {i \in 1..Len(q) : \A j \in 1..(i - 1) : q[j] # q[i]} = Positions(q, ToSet(q))
  BY <1>1, <1>3, <1>4
<1> QED BY <1>5, KeepPicks DEF Firsts

-----------------------------------------------------------------------------
(* Cardinalities. *)

\* What is left of a finite set, and how much of it.
LEMMA CardMinus ==
  ASSUME NEW S, IsFiniteSet(S), NEW T \in SUBSET S
  PROVE  /\ IsFiniteSet(T) /\ IsFiniteSet(S \ T)
         /\ Cardinality(S) \in Nat /\ Cardinality(T) \in Nat
         /\ Cardinality(S \ T) = Cardinality(S) - Cardinality(T)
         /\ Cardinality(T) <= Cardinality(S)
<1>1. IsFiniteSet(T) /\ Cardinality(T) <= Cardinality(S)
  BY FS_Subset
<1>2. IsFiniteSet(S \ T) /\ Cardinality(S \ T) = Cardinality(S) - Cardinality(S \cap T)
  BY FS_Difference
<1>3. S \cap T = T
  OBVIOUS
<1>4. Cardinality(S) \in Nat /\ Cardinality(T) \in Nat
  BY <1>1, FS_CardinalityType
<1> QED BY <1>1, <1>2, <1>3, <1>4

\* Two finite sets without a common member are counted together.
LEMMA CardPlus ==
  ASSUME NEW S, IsFiniteSet(S), NEW T, IsFiniteSet(T), S \cap T = {}
  PROVE  /\ IsFiniteSet(S \cup T)
         /\ Cardinality(S) \in Nat /\ Cardinality(T) \in Nat
         /\ Cardinality(S \cup T) = Cardinality(S) + Cardinality(T)
<1>1. /\ IsFiniteSet(S \cup T)
      /\ Cardinality(S \cup T) = Cardinality(S) + Cardinality(T) - Cardinality(S \cap T)
  BY FS_Union
<1>2. Cardinality(S \cap T) = 0
  BY FS_EmptySet
<1>3. Cardinality(S) \in Nat /\ Cardinality(T) \in Nat
  BY FS_CardinalityType
<1> QED BY <1>1, <1>2, <1>3

\* A set that has at most one member.
LEMMA CardAtMostOne ==
  ASSUME NEW S, \A x, y \in S : x = y
  PROVE  IsFiniteSet(S) /\ Cardinality(S) = Bit(S # {})
<1>1. CASE S = {}
  BY <1>1, FS_EmptySet DEF Bit
<1>2. CASE S # {}
  <2>1. PICK x : x \in S
    BY <1>2
  <2>2. S = {x}
    BY <2>1
  <2> QED BY <1>2, <2>2, FS_Singleton DEF Bit
<1> QED BY <1>1, <1>2

\* The blocks are finite in number.
LEMMA BlocksFinite ==
  /\ NumBlocks \in Nat /\ NumBlocks > 0
  /\ IsFiniteSet(Block) /\ Cardinality(Block) = NumBlocks
  /\ NoBlock \notin Block
  /\ \A S \in SUBSET Block : IsFiniteSet(S) /\ Cardinality(S) \in Nat
<1>1. NumBlocks \in Nat /\ NumBlocks > 0
  BY PoolAssumption
<1>2. IsFiniteSet(Block) /\ Cardinality(Block) = NumBlocks
  BY <1>1, FS_Interval DEF Block
<1>3. NoBlock \notin Block
  BY <1>1 DEF Block, NoBlock
<1>4. ASSUME NEW S \in SUBSET Block PROVE IsFiniteSet(S) /\ Cardinality(S) \in Nat
  BY <1>2, FS_Subset, FS_CardinalityType
<1> QED BY <1>1, <1>2, <1>3, <1>4

-----------------------------------------------------------------------------
(* The shape of a pool: the free list and the indexes, with the counters   *)
(* of pins read off the set of pinned blocks.                              *)

Idle(p) == {b \in Block : p.ref_cnt[b] = 0}

Pinned(p) == {b \in Block : \E h \in Hash : p.retained_block[h] = b}

Cached(p) == {b \in Block : p.block_hashes[b] # {}}

Indexed(p) ==
    /\ \A b \in Block, h \in Hash : h \in p.block_hashes[b] <=> b \in p.cache[h]
    /\ \A b \in Block : \A g, h \in p.block_hashes[b] : g = h
    /\ \A h \in Hash : p.retained_block[h] # NoBlock => h \in p.block_hashes[p.retained_block[h]]

Shape(p) ==
    /\ Indexed(p)
    /\ p.prefix_cached = Cardinality(Cached(p))
    /\ p.retention_count = [b \in Block |-> Bit(b \in Pinned(p))]
    /\ p.retained = Cardinality(Pinned(p))
    /\ p.retained_free = Cardinality(Idle(p) \cap Pinned(p))
    /\ IsInjective(p.queue)
    /\ ToSet(p.queue) = Idle(p) \ Pinned(p)

\* Two hashes pin different blocks: a block is pinned by the hash it carries.
LEMMA PinsDiffer ==
  ASSUME NEW p \in PoolRecord, Indexed(p)
  PROVE  \A g, h \in Hash :
            p.retained_block[g] # NoBlock /\ p.retained_block[g] = p.retained_block[h] => g = h
<1>1. p.retained_block \in [Hash -> Block \cup {NoBlock}]
  BY DEF PoolRecord
<1>2. SUFFICES ASSUME NEW g \in Hash, NEW h \in Hash, NEW b \in Block,
                      p.retained_block[g] = b, p.retained_block[h] = b
               PROVE  g = h
  BY <1>1
<1>3. g \in p.block_hashes[b] /\ h \in p.block_hashes[b]
  BY <1>2, BlocksFinite DEF Indexed
<1> QED BY <1>3 DEF Indexed

\* A block that carries one hash is pinned at most once.
LEMMA OnePin ==
  ASSUME NEW p \in PoolRecord, Indexed(p), NEW hs \in SUBSET Hash, NEW b \in Block
  PROVE  /\ IsFiniteSet(Pins(p, hs, b))
         /\ Cardinality(Pins(p, hs, b)) = Bit(Pins(p, hs, b) # {})
<1>1. \A g, h \in Pins(p, hs, b) : g = h
  BY PinsDiffer, BlocksFinite DEF Pins
<1> QED BY <1>1, CardAtMostOne

\* The free list and the indexes are exact when the pool has this shape.
LEMMA ShapeIs ==
  ASSUME NEW p \in PoolRecord
  PROVE  FreeListExact(p) /\ IndexesAgree(p) <=> Shape(p)
<1>0. p.retention_count \in [Block -> Int]
  BY DEF PoolRecord
<1>1. ASSUME Indexed(p)
      PROVE  \A b \in Block : Cardinality({h \in Hash : p.retained_block[h] = b}) = Bit(b \in Pinned(p))
  <2>1. TAKE b \in Block
  <2>2. Hash \in SUBSET Hash
    OBVIOUS
  <2>3. Pins(p, Hash, b) = {h \in Hash : p.retained_block[h] = b}
    BY DEF Pins
  <2>4. b \in Pinned(p) <=> Pins(p, Hash, b) # {}
    BY DEF Pins, Pinned
  <2>5. Cardinality(Pins(p, Hash, b)) = Bit(Pins(p, Hash, b) # {})
    BY <1>1, <2>2, OnePin
  <2> QED BY <2>3, <2>4, <2>5 DEF Bit
<1>2. ASSUME Indexed(p)
      PROVE  (\A b \in Block : p.retention_count[b] = Cardinality({h \in Hash : p.retained_block[h] = b}))
             <=> p.retention_count = [b \in Block |-> Bit(b \in Pinned(p))]
  BY <1>0, <1>1, <1>2
<1>3. ASSUME p.retention_count = [b \in Block |-> Bit(b \in Pinned(p))]
      PROVE  {b \in Block : p.retention_count[b] > 0} = Pinned(p)
  <2>1. \A b \in Block : p.retention_count[b] > 0 <=> b \in Pinned(p)
    BY <1>3 DEF Bit
  <2> QED BY <2>1 DEF Pinned
<1>4. IndexesAgree(p) <=> /\ Indexed(p)
                          /\ p.prefix_cached = Cardinality(Cached(p))
                          /\ p.retention_count = [b \in Block |-> Bit(b \in Pinned(p))]
                          /\ p.retained = Cardinality(Pinned(p))
  <2>1. IndexesAgree(p) <=> /\ Indexed(p)
                            /\ p.prefix_cached = Cardinality(Cached(p))
                            /\ \A b \in Block : p.retention_count[b] = Cardinality({h \in Hash : p.retained_block[h] = b})
                            /\ p.retained = Cardinality({b \in Block : p.retention_count[b] > 0})
    BY DEF IndexesAgree, Indexed, Cached
  <2> QED BY <1>2, <1>3, <2>1
<1>5. ASSUME {b \in Block : p.retention_count[b] > 0} = Pinned(p)
      PROVE  FreeListExact(p) <=> /\ p.retained_free = Cardinality(Idle(p) \cap Pinned(p))
                                  /\ IsInjective(p.queue)
                                  /\ ToSet(p.queue) = Idle(p) \ Pinned(p)
  <2>1. {b \in Idle(p) : p.retention_count[b] > 0} = Idle(p) \cap Pinned(p)
    BY <1>5 DEF Idle
  <2>2. Idle(p) \ (Idle(p) \cap Pinned(p)) = Idle(p) \ Pinned(p)
    OBVIOUS
  <2> QED BY <2>1, <2>2 DEF FreeListExact, Idle
<1> QED BY <1>3, <1>4, <1>5 DEF Shape

\* Pinned or not, every idle block counts as free.
LEMMA FreeIsIdle ==
  ASSUME NEW p \in PoolRecord, Shape(p)
  PROVE  NumFree(p) = Cardinality(Idle(p)) /\ Len(p.queue) <= NumFree(p) /\ Len(p.queue) \in Nat
<1>1. p.queue \in Seq(Block)
  BY DEF PoolRecord
<1>2. Len(p.queue) = Cardinality(Idle(p) \ Pinned(p))
  BY <1>1, LenIsCardinality DEF Shape
<1>3. IsFiniteSet(Idle(p))
  BY BlocksFinite DEF Idle
<1>4. Cardinality(Idle(p) \ Pinned(p)) = Cardinality(Idle(p)) - Cardinality(Idle(p) \cap Pinned(p))
  BY <1>3, FS_Difference
<1>5. Cardinality(Idle(p)) \in Nat /\ Cardinality(Idle(p) \cap Pinned(p)) \in Nat
  BY BlocksFinite DEF Idle
<1> QED BY <1>1, <1>2, <1>4, <1>5 DEF NumFree, Shape

-----------------------------------------------------------------------------
(* Pins. *)

SameIndexes(p, q) ==
    /\ q.block_hashes = p.block_hashes
    /\ q.cache = p.cache
    /\ q.prefix_cached = p.prefix_cached

SameLeases(p, q) ==
    /\ q.entries = p.entries
    /\ q.hash_ref = p.hash_ref
    /\ q.dirty = p.dirty
    /\ q.revoked = p.revoked

\* Pins were taken away, and pins were given, and nothing else happened.
Repinned(p, q) ==
    /\ q \in PoolRecord /\ Shape(q) /\ q.ok = p.ok
    /\ SameIndexes(p, q) /\ SameLeases(p, q)
    /\ q.ref_cnt = p.ref_cnt /\ q.retained_hashes = p.retained_hashes

PinsRemoved(p, q, hs) ==
    \A h \in Hash : q.retained_block[h] = IF h \in hs THEN NoBlock ELSE p.retained_block[h]

PinsAdded(p, q, pick) ==
    \A h \in Hash : q.retained_block[h] = IF h \in DOMAIN pick THEN pick[h] ELSE p.retained_block[h]

\* release_physical_block keeps the pool's shape.
LEMMA UnpinKeeps ==
  ASSUME NEW p \in PoolRecord, Shape(p), NEW hs \in SUBSET Hash,
         NEW order \in Seq(Block), IsInjective(order), ToSet(order) = LeftIdle(p, hs)
  PROVE  LET q == Unpin(p, hs, order)
         IN  Repinned(p, q) /\ PinsRemoved(p, q, hs)
<1> DEFINE U == {b \in Block : Pins(p, hs, b) # {}}
<1>1. /\ p.queue \in Seq(Block) /\ p.retention_count \in [Block -> Int] /\ p.retained \in Int
      /\ p.retained_free \in Int /\ p.retained_block \in [Hash -> Block \cup {NoBlock}] /\ p.ok \in BOOLEAN
      /\ p.ref_cnt \in [Block -> Nat]
  BY DEF PoolRecord
<1>2. \A b \in Block : Cardinality(Pins(p, hs, b)) = Bit(b \in U)
  <2>1. TAKE b \in Block
  <2>2. Cardinality(Pins(p, hs, b)) = Bit(Pins(p, hs, b) # {})
    BY OnePin DEF Shape
  <2> QED BY <2>2 DEF Bit
<1>3. U \subseteq Pinned(p)
  BY DEF Pins, Pinned
<1>4. Unpinned(p, hs) = U
  <2>1. \A b \in Block : p.retention_count[b] > 0 /\ p.retention_count[b] = Cardinality(Pins(p, hs, b)) <=> b \in U
    <3>1. TAKE b \in Block
    <3>2. p.retention_count[b] = Bit(b \in Pinned(p))
      BY DEF Shape
    <3> HIDE DEF U
    <3> QED BY <1>2, <1>3, <3>1, <3>2 DEF Bit
  <2> QED BY <2>1 DEF Unpinned
<1>5. LeftIdle(p, hs) = Idle(p) \cap U
  BY <1>4 DEF LeftIdle, Idle
<1>6. PICK q : q = Unpin(p, hs, order)
  OBVIOUS
<1>7. /\ Cardinality(U) <= p.retained /\ Cardinality(U) \in Nat
      /\ Cardinality(Pinned(p) \ U) = p.retained - Cardinality(U)
  <2>1. U \in SUBSET Pinned(p) /\ IsFiniteSet(Pinned(p))
    BY <1>3, BlocksFinite DEF Pinned
  <2>2. p.retained = Cardinality(Pinned(p))
    BY DEF Shape
  <2> HIDE DEF U
  <2>3. /\ Cardinality(Pinned(p)) \in Nat /\ Cardinality(U) \in Nat
        /\ Cardinality(Pinned(p) \ U) = Cardinality(Pinned(p)) - Cardinality(U)
        /\ Cardinality(U) <= Cardinality(Pinned(p))
    BY <2>1, CardMinus
  <2> QED BY <2>2, <2>3
<1>8. /\ Cardinality(Idle(p) \cap U) <= p.retained_free /\ Cardinality(Idle(p) \cap U) \in Nat
      /\ Cardinality(Idle(p) \cap (Pinned(p) \ U)) = p.retained_free - Cardinality(Idle(p) \cap U)
  <2>1. Idle(p) \cap U \in SUBSET (Idle(p) \cap Pinned(p)) /\ IsFiniteSet(Idle(p) \cap Pinned(p))
    BY <1>3, BlocksFinite DEF Idle
  <2>2. (Idle(p) \cap Pinned(p)) \ (Idle(p) \cap U) = Idle(p) \cap (Pinned(p) \ U)
    OBVIOUS
  <2> HIDE DEF U
  <2>3. PICK A, B : A = Idle(p) \cap Pinned(p) /\ B = Idle(p) \cap U
    OBVIOUS
  <2>4. /\ Cardinality(A \ B) = Cardinality(A) - Cardinality(B)
        /\ Cardinality(B) <= Cardinality(A) /\ Cardinality(B) \in Nat
    BY <2>1, <2>3, CardMinus
  <2> QED BY <2>2, <2>3, <2>4 DEF Shape
<1>9. \A b \in Block : Cardinality(Pins(p, hs, b)) <= p.retention_count[b] /\ Cardinality(Pins(p, hs, b)) \in Nat
  BY <1>2, <1>3 DEF Shape, Bit
<1>10. /\ p.queue \o order \in Seq(Block)
       /\ ToSet(p.queue \o order) = ToSet(p.queue) \cup (Idle(p) \cap U)
       /\ IsInjective(p.queue \o order)
  <2>1. ToSet(p.queue) \cap ToSet(order) = {}
    BY <1>3, <1>5 DEF Shape
  <2>2. IsInjective(p.queue)
    BY DEF Shape
  <2> QED BY <1>1, <1>5, <2>1, <2>2, ConcatIsUnion, ConcatInjective, ConcatPositions
<1>11. /\ q.retained_block = [h \in Hash |-> IF h \in hs THEN NoBlock ELSE p.retained_block[h]]
       /\ q.retention_count = [b \in Block |-> p.retention_count[b] - Cardinality(Pins(p, hs, b))]
       /\ q.retained = p.retained - Cardinality(U)
       /\ q.retained_free = p.retained_free - Cardinality(Idle(p) \cap U)
       /\ q.queue = p.queue \o order
       /\ q.block_hashes = p.block_hashes /\ q.cache = p.cache /\ q.prefix_cached = p.prefix_cached
       /\ q.entries = p.entries /\ q.hash_ref = p.hash_ref /\ q.dirty = p.dirty /\ q.revoked = p.revoked
       /\ q.ref_cnt = p.ref_cnt /\ q.retained_hashes = p.retained_hashes
  <2> HIDE DEF U
  <2> QED BY <1>4, <1>5, <1>6 DEF Unpin, Check, PoolRecord
<1>12. q.ok = p.ok
  <2> HIDE DEF U
  <2>1. q.ok = (p.ok /\ /\ \A b \in Block : Cardinality(Pins(p, hs, b)) <= p.retention_count[b]
                        /\ Cardinality(U) <= p.retained
                        /\ Cardinality(Idle(p) \cap U) <= p.retained_free)
    BY <1>4, <1>5, <1>6 DEF Unpin, Check, PoolRecord
  <2> QED BY <1>1, <1>7, <1>8, <1>9, <2>1
<1>13. q \in PoolRecord
  <2> HIDE DEF U
  <2>1. /\ (p.queue \o order) \in Seq(Block)
        /\ [h \in Hash |-> IF h \in hs THEN NoBlock ELSE p.retained_block[h]] \in [Hash -> Block \cup {NoBlock}]
        /\ [b \in Block |-> p.retention_count[b] - Cardinality(Pins(p, hs, b))] \in [Block -> Int]
        /\ p.retained - Cardinality(U) \in Int
        /\ p.retained_free - Cardinality(Idle(p) \cap U) \in Int
    BY <1>1, <1>7, <1>8, <1>9, <1>10
  <2>2. PICK x1, x2, x3, x4, x5, x6 :
           /\ x1 = p.queue \o order
           /\ x2 = [h \in Hash |-> IF h \in hs THEN NoBlock ELSE p.retained_block[h]]
           /\ x3 = [b \in Block |-> p.retention_count[b] - Cardinality(Pins(p, hs, b))]
           /\ x4 = p.retained - Cardinality(U)
           /\ x5 = p.retained_free - Cardinality(Idle(p) \cap U)
           /\ x6 = (/\ \A b \in Block : Cardinality(Pins(p, hs, b)) <= p.retention_count[b]
                    /\ Cardinality(U) <= p.retained
                    /\ Cardinality(Idle(p) \cap U) <= p.retained_free)
    OBVIOUS
  <2>3. x6 \in BOOLEAN
    BY <2>2
  <2>4. q = Check([p EXCEPT !.retained_block = x2, !.retention_count = x3, !.retained = x4,
                            !.retained_free = x5, !.queue = x1], x6)
    BY <1>4, <1>5, <1>6, <2>2 DEF Unpin
  <2> QED BY <2>1, <2>2, <2>3, <2>4, ZenonT(30) DEF Check, PoolRecord
<1>14. Pinned(q) = Pinned(p) \ U /\ Idle(q) = Idle(p) /\ Cached(q) = Cached(p)
  <2>1. \A b \in Block : (\E h \in Hash : q.retained_block[h] = b) <=> b \in Pinned(p) /\ b \notin U
    <3>1. TAKE b \in Block
    <3>2. b # NoBlock
      BY BlocksFinite
    <3>3. \A g, h \in Hash : p.retained_block[g] = b /\ p.retained_block[h] = b => g = h
      <4>1. Indexed(p)
        BY DEF Shape
      <4> QED BY <3>2, <4>1, PinsDiffer
    <3> QED BY <1>11, <3>2, <3>3 DEF Pinned, Pins
  <2> QED BY <1>11, <2>1 DEF Pinned, Idle, Cached
<1>15. Indexed(q)
  BY <1>1, <1>11 DEF Indexed, Shape
<1>16. Shape(q)
  <2> HIDE DEF U
  <2>1. q.retention_count = [b \in Block |-> Bit(b \in Pinned(q))]
    <3>1. \A b \in Block : p.retention_count[b] - Cardinality(Pins(p, hs, b)) = Bit(b \in Pinned(q))
      <4>1. TAKE b \in Block
      <4>2. p.retention_count[b] = Bit(b \in Pinned(p)) /\ Cardinality(Pins(p, hs, b)) = Bit(b \in U)
        BY <1>2 DEF Shape
      <4>3. b \in Pinned(q) <=> b \in Pinned(p) /\ b \notin U
        BY <1>14
      <4> QED BY <1>3, <4>2, <4>3 DEF Bit
    <3> QED BY <1>11, <3>1
  <2>2. ToSet(q.queue) = Idle(q) \ Pinned(q)
    BY <1>3, <1>10, <1>11, <1>14 DEF Shape
  <2> QED BY <1>7, <1>8, <1>10, <1>11, <1>14, <1>15, <2>1, <2>2 DEF Shape
<1>17. Repinned(p, q)
  BY <1>11, <1>12, <1>13, <1>16 DEF Repinned, SameIndexes, SameLeases
<1>18. PinsRemoved(p, q, hs)
  BY <1>11 DEF PinsRemoved
<1> QED BY <1>6, <1>17, <1>18

\* retain_physical_block keeps the pool's shape.
LEMMA PinKeeps ==
  ASSUME NEW p \in PoolRecord, Shape(p), NEW W \in SUBSET Hash, NEW pick \in [W -> Block],
         \A h \in W : p.retained_block[h] = NoBlock /\ pick[h] \in p.cache[h]
  PROVE  LET q == Pin(p, pick)
         IN  Repinned(p, q) /\ PinsAdded(p, q, pick)
<1> DEFINE P(b) == {h \in DOMAIN pick : pick[h] = b}
           N == {b \in Block : P(b) # {}}
<1>1. /\ p.queue \in Seq(Block) /\ p.retention_count \in [Block -> Int] /\ p.retained \in Int
      /\ p.retained_free \in Int /\ p.retained_block \in [Hash -> Block \cup {NoBlock}] /\ p.ok \in BOOLEAN
      /\ p.ref_cnt \in [Block -> Nat] /\ p.cache \in [Hash -> SUBSET Block]
  BY DEF PoolRecord
<1>2. DOMAIN pick = W /\ \A h \in W : h \in Hash /\ h \in p.block_hashes[pick[h]] /\ pick[h] \in Block
  BY <1>1 DEF Shape, Indexed
<1>3. \A b \in Block : Cardinality(P(b)) = Bit(b \in N) /\ \A g, h \in W : pick[g] = b /\ pick[h] = b => g = h
  <2>1. TAKE b \in Block
  <2>2. \A g, h \in W : pick[g] = b /\ pick[h] = b => g = h
    BY <1>2 DEF Shape, Indexed
  <2>3. \A g, h \in P(b) : g = h
    BY <1>2, <2>2
  <2>4. Cardinality(P(b)) = Bit(P(b) # {})
    <3> HIDE DEF P
    <3> QED BY <2>3, CardAtMostOne
  <2> QED BY <2>2, <2>4 DEF Bit
<1>4. N \cap Pinned(p) = {}
  <2>1. ASSUME NEW b \in N, b \in Pinned(p) PROVE FALSE
    <3>1. PICK h \in W : pick[h] = b
      BY <1>2
    <3>2. PICK g \in Hash : p.retained_block[g] = b
      BY <2>1 DEF Pinned
    <3>3. g \in p.block_hashes[b] /\ h \in p.block_hashes[b]
      BY <1>2, <3>1, <3>2, BlocksFinite DEF Shape, Indexed
    <3>4. g = h
      BY <3>3 DEF Shape, Indexed
    <3> QED BY <3>1, <3>2, <3>4, BlocksFinite
  <2> QED BY <2>1
<1>5. {b \in Block : p.retention_count[b] = 0 /\ P(b) # {}} = N
  <2>1. \A b \in Block : b \in N => p.retention_count[b] = 0
    BY <1>4 DEF Shape, Bit
  <2> QED BY <2>1
<1>6. {b \in N : p.ref_cnt[b] = 0} = Idle(p) \cap N
  BY DEF Idle
<1>7. PICK q : q = Pin(p, pick)
  OBVIOUS
<1>8. Cardinality(N) \in Nat /\ Cardinality(Pinned(p) \cup N) = p.retained + Cardinality(N)
  <2> HIDE DEF P
  <2>1. IsFiniteSet(N) /\ IsFiniteSet(Pinned(p)) /\ Pinned(p) \cap N = {}
    BY <1>4, BlocksFinite DEF Pinned
  <2>2. p.retained = Cardinality(Pinned(p))
    BY DEF Shape
  <2> HIDE DEF N
  <2>3. /\ Cardinality(N) \in Nat
        /\ Cardinality(Pinned(p) \cup N) = Cardinality(Pinned(p)) + Cardinality(N)
    BY <2>1, CardPlus
  <2> QED BY <2>2, <2>3
<1>9. /\ Cardinality(Idle(p) \cap N) \in Nat
      /\ Cardinality(Idle(p) \cap (Pinned(p) \cup N)) = p.retained_free + Cardinality(Idle(p) \cap N)
  <2> HIDE DEF N
  <2>1. /\ IsFiniteSet(Idle(p) \cap N) /\ IsFiniteSet(Idle(p) \cap Pinned(p))
        /\ (Idle(p) \cap Pinned(p)) \cap (Idle(p) \cap N) = {}
    BY <1>4, BlocksFinite DEF Idle
  <2>2. Idle(p) \cap (Pinned(p) \cup N) = (Idle(p) \cap Pinned(p)) \cup (Idle(p) \cap N)
    OBVIOUS
  <2>3. PICK A, B : A = Idle(p) \cap Pinned(p) /\ B = Idle(p) \cap N
    OBVIOUS
  <2>4. Cardinality(A \cup B) = Cardinality(A) + Cardinality(B) /\ Cardinality(B) \in Nat
    BY <2>1, <2>3, CardPlus
  <2> QED BY <2>2, <2>3, <2>4 DEF Shape
<1>10. PICK k : k = Keep(p.queue, Block \ (Idle(p) \cap N))
  OBVIOUS
<1>11. k \in Seq(Block) /\ IsInjective(k) /\ ToSet(k) = ToSet(p.queue) \cap (Block \ (Idle(p) \cap N))
  <2>1. IsInjective(p.queue)
    BY DEF Shape
  <2> HIDE DEF N
  <2> QED BY <1>1, <1>10, <2>1, KeepProperties
<1>12. Idle(p) \cap N \subseteq ToSet(p.queue)
  BY <1>4 DEF Shape
<1>13. q = Check([p EXCEPT !.retained_block = [h \in Hash |-> IF h \in DOMAIN pick THEN pick[h] ELSE p.retained_block[h]],
                           !.retention_count = [b \in Block |-> p.retention_count[b] + Cardinality(P(b))],
                           !.retained = p.retained + Cardinality(N),
                           !.retained_free = p.retained_free + Cardinality(Idle(p) \cap N),
                           !.queue = k],
                 Idle(p) \cap N \subseteq ToSet(p.queue))
  BY <1>5, <1>6, <1>7, <1>10 DEF Pin
<1>14. PICK x2, x3, x4, x5, x6 :
           /\ x2 = [h \in Hash |-> IF h \in W THEN pick[h] ELSE p.retained_block[h]]
           /\ x3 = [b \in Block |-> p.retention_count[b] + Cardinality(P(b))]
           /\ x4 = p.retained + Cardinality(N)
           /\ x5 = p.retained_free + Cardinality(Idle(p) \cap N)
           /\ x6 = (Idle(p) \cap N \subseteq ToSet(p.queue))
  OBVIOUS
<1>15. q = Check([p EXCEPT !.retained_block = x2, !.retention_count = x3, !.retained = x4,
                           !.retained_free = x5, !.queue = k], x6)
  BY <1>2, <1>13, <1>14
<1>16. x6 = TRUE
  BY <1>12, <1>14
<1>17. \A b \in Block : x3[b] = Bit(b \in Pinned(p) \cup N)
  <2>1. TAKE b \in Block
  <2>2. p.retention_count[b] = Bit(b \in Pinned(p)) /\ Cardinality(P(b)) = Bit(b \in N)
    BY <1>3 DEF Shape
  <2>3. x3[b] = p.retention_count[b] + Cardinality(P(b))
    BY <1>14
  <2> HIDE DEF N, P
  <2> QED BY <1>4, <2>2, <2>3 DEF Bit
<1>18. x3 \in [Block -> Int] /\ x2 \in [Hash -> Block \cup {NoBlock}] /\ x4 \in Int /\ x5 \in Int
  <2>1. DOMAIN x3 = Block /\ x3 = [b \in Block |-> x3[b]]
    BY <1>14
  <2>2. x3 \in [Block -> Int]
    BY <1>17, <2>1 DEF Bit
  <2>3. x2 \in [Hash -> Block \cup {NoBlock}]
    BY <1>1, <1>2, <1>14
  <2> QED BY <1>1, <1>8, <1>9, <1>14, <2>2, <2>3
<1> HIDE DEF N, P
<1>19. q \in PoolRecord
  BY <1>11, <1>15, <1>16, <1>18 DEF Check, PoolRecord
<1>20. /\ q.retained_block = x2 /\ q.retention_count = x3 /\ q.retained = x4 /\ q.retained_free = x5
       /\ q.queue = k
       /\ q.block_hashes = p.block_hashes /\ q.cache = p.cache /\ q.prefix_cached = p.prefix_cached
       /\ q.entries = p.entries /\ q.hash_ref = p.hash_ref /\ q.dirty = p.dirty /\ q.revoked = p.revoked
       /\ q.ref_cnt = p.ref_cnt /\ q.retained_hashes = p.retained_hashes
  BY <1>15 DEF Check, PoolRecord
<1>21. q.ok = p.ok
  <2>1. q.ok = (p.ok /\ x6)
    BY <1>15 DEF Check, PoolRecord
  <2> QED BY <1>1, <1>16, <2>1
<1>22. Pinned(q) = Pinned(p) \cup N /\ Idle(q) = Idle(p) /\ Cached(q) = Cached(p)
  <2>1. \A b \in Block : (\E h \in Hash : x2[h] = b) <=> b \in Pinned(p) \/ b \in N
    <3>1. TAKE b \in Block
    <3>2. b # NoBlock
      BY BlocksFinite
    <3>3. b \in N <=> \E h \in W : pick[h] = b
      BY <1>2 DEF N, P
    <3>4. b \in Pinned(p) <=> \E h \in Hash : p.retained_block[h] = b
      BY DEF Pinned
    <3> QED BY <1>14, <3>2, <3>3, <3>4
  <2>2. N \subseteq Block
    BY DEF N
  <2> QED BY <1>20, <2>1, <2>2 DEF Pinned, Idle, Cached
<1>23. Indexed(q)
  <2>1. \A h \in Hash : x2[h] # NoBlock => h \in p.block_hashes[x2[h]]
    BY <1>2, <1>14 DEF Shape, Indexed
  <2> QED BY <1>20, <2>1 DEF Indexed, Shape
<1>24. Shape(q)
  <2>1. q.retention_count = [b \in Block |-> Bit(b \in Pinned(q))]
    <3>1. x3 = [b \in Block |-> x3[b]]
      BY <1>18
    <3> QED BY <1>17, <1>20, <1>22, <3>1
  <2>2. ToSet(q.queue) = Idle(q) \ Pinned(q)
    BY <1>11, <1>20, <1>22 DEF Shape, Idle
  <2> QED BY <1>8, <1>9, <1>11, <1>14, <1>20, <1>22, <1>23, <2>1, <2>2 DEF Shape
<1>25. Repinned(p, q)
  BY <1>19, <1>20, <1>21, <1>24 DEF Repinned, SameIndexes, SameLeases
<1>26. PinsAdded(p, q, pick)
  BY <1>2, <1>14, <1>20 DEF PinsAdded
<1> QED BY <1>7, <1>25, <1>26

-----------------------------------------------------------------------------
(* Following the leases. *)

\* The shape and the leases are those of the fields they are about.
LEMMA ShapeSame ==
  ASSUME NEW p, NEW q, Shape(p), SameIndexes(p, q), q.ref_cnt = p.ref_cnt,
         q.retained_block = p.retained_block, q.retention_count = p.retention_count,
         q.retained = p.retained, q.retained_free = p.retained_free, q.queue = p.queue
  PROVE  Shape(q)
BY DEF Shape, SameIndexes, Indexed, Idle, Pinned, Cached

\* The leases are those of the fields they are about.
LEMMA LeasesSame ==
  ASSUME NEW p, NEW q, LeasesCounted(p), q.entries = p.entries, q.hash_ref = p.hash_ref
  PROVE  LeasesCounted(q)
BY DEF LeasesCounted

\* The invariant of the pool, with the shape for the free list and the indexes.
LEMMA PoolInvIs ==
  ASSUME NEW p
  PROVE  PoolInv(p) <=> /\ p \in PoolRecord /\ p.ok /\ Shape(p)
                        /\ LeasesCounted(p) /\ PinsKnown(p)
                        /\ (~p.dirty => CaughtUp(p)) /\ (p.dirty => Lease # {})
BY ShapeIs DEF PoolInv

\* Following the leases changes pins and nothing else.
LEMMA SyncKeeps ==
  ASSUME NEW p, PoolInv(p), NEW q \in SyncRetention(p)
  PROVE  /\ PoolInv(q) /\ CaughtUp(q) /\ ~q.dirty
         /\ q.ref_cnt = p.ref_cnt /\ SameIndexes(p, q)
         /\ q.entries = p.entries /\ q.hash_ref = p.hash_ref /\ q.revoked = p.revoked
<1>0. /\ p \in PoolRecord /\ p.ok /\ Shape(p) /\ LeasesCounted(p) /\ PinsKnown(p)
      /\ (~p.dirty => CaughtUp(p)) /\ (p.dirty => Lease # {})
  BY PoolInvIs
<1>1. CASE ~p.dirty
  <2>1. q = p
    BY <1>1 DEF SyncRetention
  <2> QED BY <1>0, <1>1, <2>1 DEF SameIndexes
<1>2. CASE p.dirty
  <2> DEFINE next    == {h \in Hash : p.hash_ref[h] > 0}
             removed == p.retained_hashes \ next
             Unpins  == {Unpin(p, removed, order) : order \in SetToSeqs(LeftIdle(p, removed))}
  <2>1. PICK u \in Unpins : \E s \in Reconcile(u, next \ p.retained_hashes) :
                               q = [s EXCEPT !.retained_hashes = next, !.dirty = FALSE]
    BY <1>2, ZenonT(30) DEF SyncRetention
  <2>2. PICK order \in SetToSeqs(LeftIdle(p, removed)) : u = Unpin(p, removed, order)
    BY <2>1
  <2>3. PICK s \in Reconcile(u, next \ p.retained_hashes) :
           q = [s EXCEPT !.retained_hashes = next, !.dirty = FALSE]
    BY <2>1
  <2>4. p.retained_hashes \in SUBSET Hash /\ p.retained_block \in [Hash -> Block \cup {NoBlock}]
    BY <1>0 DEF PoolRecord
  <2>5. removed \in SUBSET Hash /\ next \in SUBSET Hash
    BY <2>4
  <2>6. order \in Seq(Block) /\ IsInjective(order) /\ ToSet(order) = LeftIdle(p, removed)
    <3>1. LeftIdle(p, removed) \subseteq Block
      BY DEF LeftIdle, Unpinned
    <3>2. order \in Seq(LeftIdle(p, removed)) /\ IsInjective(order) /\ ToSet(order) = LeftIdle(p, removed)
      BY <2>2, <3>1, BlocksFinite, SetToSeqsProperties
    <3>3. order \in Seq(Block)
      BY <3>1, <3>2
    <3> QED BY <3>2, <3>3
  <2> HIDE DEF next, removed, Unpins
  <2>7. Repinned(p, u) /\ PinsRemoved(p, u, removed)
    BY <1>0, <2>2, <2>5, <2>6, UnpinKeeps
  <2> DEFINE W == {h \in next \ p.retained_hashes : u.retained_block[h] = NoBlock /\ u.cache[h] # {}}
  <2>8. PICK pick \in [W -> Block] : s = Pin(u, pick) /\ \A h \in W : pick[h] \in u.cache[h]
    <3>1. Reconcile(u, next \ p.retained_hashes) =
             {Pin(u, pick) : pick \in {f \in [W -> Block] : \A h \in W : f[h] \in u.cache[h]}}
      BY DEF Reconcile
    <3> HIDE DEF W
    <3> QED BY <2>3, <3>1
  <2>9. W \in SUBSET Hash /\ \A h \in W : u.retained_block[h] = NoBlock /\ pick[h] \in u.cache[h]
    BY <2>5, <2>8
  <2>10. Repinned(u, s) /\ PinsAdded(u, s, pick)
    <3> HIDE DEF W
    <3>1. u \in PoolRecord /\ Shape(u)
      BY <2>7 DEF Repinned
    <3> QED BY <2>8, <2>9, <3>1, PinKeeps
  <2>11. /\ q \in PoolRecord /\ q.retained_hashes = next /\ q.dirty = FALSE
         /\ SameIndexes(s, q) /\ q.ref_cnt = s.ref_cnt /\ q.ok = s.ok
         /\ q.retained_block = s.retained_block /\ q.retention_count = s.retention_count
         /\ q.retained = s.retained /\ q.retained_free = s.retained_free /\ q.queue = s.queue
         /\ q.entries = s.entries /\ q.hash_ref = s.hash_ref /\ q.revoked = s.revoked
    BY <2>3, <2>5, <2>10 DEF Repinned, PoolRecord, SameIndexes
  <2>12. Shape(q)
    BY <2>10, <2>11, ShapeSame DEF Repinned
  <2>13. SameIndexes(p, q) /\ q.entries = p.entries /\ q.hash_ref = p.hash_ref /\ q.revoked = p.revoked
    BY <2>7, <2>10, <2>11 DEF Repinned, SameIndexes, SameLeases
  <2>14. PinsKnown(q)
    <3>1. SUFFICES ASSUME NEW h \in Hash
                   PROVE  q.retained_block[h] # NoBlock <=> h \in next /\ p.cache[h] # {}
      BY <2>11, <2>13 DEF PinsKnown, SameIndexes
    <3>2. p.retained_block[h] # NoBlock <=> h \in p.retained_hashes /\ p.cache[h] # {}
      BY <1>0 DEF PinsKnown
    <3>3. u.cache = p.cache
      BY <2>7 DEF Repinned, SameIndexes
    <3>4. h \in W => pick[h] # NoBlock
      <4> HIDE DEF W
      <4> QED BY <2>8, BlocksFinite
    <3>5. q.retained_block[h] = IF h \in W THEN pick[h] ELSE u.retained_block[h]
      BY <2>8, <2>10, <2>11 DEF PinsAdded
    <3>6. u.retained_block[h] = IF h \in removed THEN NoBlock ELSE p.retained_block[h]
      BY <2>7 DEF PinsRemoved
    <3>7. h \in removed <=> h \in p.retained_hashes /\ h \notin next
      BY DEF removed
    <3> QED BY <3>2, <3>3, <3>4, <3>5, <3>6, <3>7
  <2>15. CaughtUp(q)
    BY <2>11, <2>13 DEF CaughtUp, next
  <2>16. LeasesCounted(q)
    BY <1>0, <2>13, LeasesSame
  <2>17. PoolInv(q)
    BY <1>0, <2>7, <2>10, <2>11, <2>12, <2>14, <2>15, <2>16, PoolInvIs DEF Repinned
  <2> QED BY <2>7, <2>10, <2>11, <2>13, <2>15, <2>17 DEF Repinned
<1> QED BY <1>1, <1>2

-----------------------------------------------------------------------------
(* Leases. *)

\* A new lease is the youngest.
LEMMA RetainKeeps ==
  ASSUME NEW p, PoolInv(p), NEW l \in Lease, \A e \in ToSet(p.entries) : e.id # l,
         NEW hs \in Seq(Hash), IsInjective(hs)
  PROVE  LET q == Retain(p, l, hs)
         IN  /\ PoolInv(q) /\ q.ref_cnt = p.ref_cnt /\ SameIndexes(p, q)
             /\ \A f \in ToSet(q.entries) : f \in ToSet(p.entries) \/ f.id = l
<1>0. /\ p \in PoolRecord /\ p.ok /\ Shape(p) /\ LeasesCounted(p) /\ PinsKnown(p)
  BY PoolInvIs
<1>1. PICK e : e = [id |-> l, hashes |-> hs]
  OBVIOUS
<1>2. e \in LeaseEntry /\ e.id = l /\ e.hashes = hs
  BY <1>1 DEF LeaseEntry
<1>3. p.entries \in Seq(LeaseEntry) /\ p.hash_ref \in [Hash -> Int] /\ p.ok \in BOOLEAN
  BY <1>0 DEF PoolRecord
<1>4. PICK q : q = Retain(p, l, hs)
  OBVIOUS
<1>5. PICK x, y : x = Append(p.entries, e) /\ y = [h \in Hash |-> p.hash_ref[h] + Bit(h \in ToSet(hs))]
  OBVIOUS
<1>6. q = [p EXCEPT !.entries = x, !.hash_ref = y, !.dirty = TRUE]
  BY <1>1, <1>4, <1>5 DEF Retain
<1>7. e \notin ToSet(p.entries)
  BY <1>2
<1>8. x \in Seq(LeaseEntry) /\ ToSet(x) = ToSet(p.entries) \cup {e} /\ IsInjective(x)
  BY <1>0, <1>2, <1>3, <1>5, <1>7, AppendKeeps DEF LeasesCounted
<1>9. y \in [Hash -> Int]
  BY <1>3, <1>5 DEF Bit
<1>10. /\ q \in PoolRecord /\ q.entries = x /\ q.hash_ref = y /\ q.dirty = TRUE
       /\ SameIndexes(p, q) /\ q.ref_cnt = p.ref_cnt /\ q.ok = p.ok
       /\ q.retained_block = p.retained_block /\ q.retention_count = p.retention_count
       /\ q.retained = p.retained /\ q.retained_free = p.retained_free /\ q.queue = p.queue
       /\ q.retained_hashes = p.retained_hashes
  BY <1>0, <1>6, <1>8, <1>9 DEF PoolRecord, SameIndexes
<1>11. Shape(q)
  BY <1>0, <1>10, ShapeSame
<1>12. PinsKnown(q)
  BY <1>0, <1>10 DEF PinsKnown, SameIndexes
<1>13. LeasesCounted(q)
  <2>1. ASSUME NEW h \in Hash
        PROVE  y[h] = Cardinality({f \in ToSet(x) : h \in ToSet(f.hashes)})
    <3> DEFINE A == {f \in ToSet(p.entries) : h \in ToSet(f.hashes)}
    <3>1. p.hash_ref[h] = Cardinality(A)
      BY <1>0 DEF LeasesCounted
    <3>2. IsFiniteSet(A)
      <4>1. IsFiniteSet(ToSet(p.entries))
        BY <1>0, <1>3, LenIsCardinality DEF LeasesCounted
      <4> QED BY <4>1, FS_Subset
    <3>3. y[h] = IF h \in ToSet(hs) THEN p.hash_ref[h] + 1 ELSE p.hash_ref[h]
      BY <1>3, <1>5 DEF Bit
    <3>4. CASE h \in ToSet(hs)
      <4>1. {f \in ToSet(x) : h \in ToSet(f.hashes)} = A \cup {e}
        BY <1>2, <1>8, <3>4
      <4>2. e \notin A
        BY <1>7
      <4> HIDE DEF A
      <4>3. Cardinality(A \cup {e}) = Cardinality(A) + 1
        BY <3>2, <4>2, FS_AddElement
      <4> QED BY <3>1, <3>3, <3>4, <4>1, <4>3
    <3>5. CASE h \notin ToSet(hs)
      <4>1. {f \in ToSet(x) : h \in ToSet(f.hashes)} = A
        BY <1>2, <1>8, <3>5
      <4> HIDE DEF A
      <4> QED BY <3>1, <3>3, <3>5, <4>1
    <3> QED BY <3>4, <3>5
  <2>2. \A f, g \in ToSet(x) : f.id = g.id => f = g
    BY <1>0, <1>2, <1>8 DEF LeasesCounted
  <2>3. \A f \in ToSet(x) : IsInjective(f.hashes)
    BY <1>0, <1>2, <1>8 DEF LeasesCounted
  <2> QED BY <1>8, <1>10, <2>1, <2>2, <2>3 DEF LeasesCounted
<1>14. \A f \in ToSet(x) : f \in ToSet(p.entries) \/ f.id = l
  BY <1>2, <1>8
<1> QED BY <1>0, <1>1, <1>4, <1>8, <1>10, <1>11, <1>12, <1>13, <1>14, PoolInvIs

\* Using a lease moves it, no more.
LEMMA TouchLeaseKeeps ==
  ASSUME NEW p, PoolInv(p), NEW l
  PROVE  LET q == TouchLease(p, l)
         IN  /\ PoolInv(q) /\ q.ref_cnt = p.ref_cnt /\ SameIndexes(p, q)
             /\ ToSet(q.entries) = ToSet(p.entries) /\ Len(q.entries) = Len(p.entries)
<1>0. /\ p \in PoolRecord /\ p.ok /\ Shape(p) /\ LeasesCounted(p) /\ PinsKnown(p)
      /\ (~p.dirty => CaughtUp(p)) /\ (p.dirty => Lease # {})
  BY PoolInvIs
<1>1. p.entries \in Seq(LeaseEntry) /\ IsInjective(p.entries)
  BY <1>0 DEF PoolRecord, LeasesCounted
<1>2. PICK E : E = EntriesOf(p, l)
  OBVIOUS
<1>3. E \subseteq ToSet(p.entries)
  BY <1>2 DEF EntriesOf
<1>4. PICK a, b : a = Keep(p.entries, ToSet(p.entries) \ E) /\ b = Keep(p.entries, E)
  OBVIOUS
<1>5. /\ a \in Seq(LeaseEntry) /\ ToSet(a) = ToSet(p.entries) \cap (ToSet(p.entries) \ E) /\ IsInjective(a)
      /\ b \in Seq(LeaseEntry) /\ ToSet(b) = ToSet(p.entries) \cap E /\ IsInjective(b)
  BY <1>1, <1>4, KeepProperties
<1>6. PICK x : x = a \o b
  OBVIOUS
<1>7. x \in Seq(LeaseEntry) /\ ToSet(x) = ToSet(p.entries) /\ IsInjective(x)
  <2>1. ToSet(a) \cap ToSet(b) = {}
    BY <1>5
  <2>2. ToSet(a) \cup ToSet(b) = ToSet(p.entries)
    BY <1>3, <1>5
  <2>3. x \in Seq(LeaseEntry)
    BY <1>5, <1>6
  <2>4. ToSet(x) = ToSet(a) \cup ToSet(b)
    BY <1>5, <1>6, ConcatIsUnion
  <2>5. IsInjective(x)
    BY <1>5, <1>6, <2>1, ConcatInjective
  <2> QED BY <2>2, <2>3, <2>4, <2>5
<1>8. PICK q : q = TouchLease(p, l)
  OBVIOUS
<1>9. q = [p EXCEPT !.entries = x]
  BY <1>2, <1>4, <1>6, <1>8 DEF TouchLease
<1>10. /\ q \in PoolRecord /\ q.entries = x /\ q.hash_ref = p.hash_ref /\ q.dirty = p.dirty
       /\ SameIndexes(p, q) /\ q.ref_cnt = p.ref_cnt /\ q.ok = p.ok
       /\ q.retained_block = p.retained_block /\ q.retention_count = p.retention_count
       /\ q.retained = p.retained /\ q.retained_free = p.retained_free /\ q.queue = p.queue
       /\ q.retained_hashes = p.retained_hashes
  BY <1>0, <1>7, <1>9 DEF PoolRecord, SameIndexes
<1>11. Shape(q)
  BY <1>0, <1>10, ShapeSame
<1>12. PinsKnown(q) /\ (~q.dirty => CaughtUp(q))
  BY <1>0, <1>10 DEF PinsKnown, SameIndexes, CaughtUp
<1>13. LeasesCounted(q)
  BY <1>0, <1>7, <1>10 DEF LeasesCounted
<1>14. Len(x) = Len(p.entries)
  BY <1>1, <1>7, LenIsCardinality
<1> QED BY <1>0, <1>7, <1>8, <1>10, <1>11, <1>12, <1>13, <1>14, PoolInvIs

SameBlocks(p, q) ==
    /\ SameIndexes(p, q) /\ q.ref_cnt = p.ref_cnt
    /\ q.retained_block = p.retained_block /\ q.retention_count = p.retention_count
    /\ q.retained = p.retained /\ q.retained_free = p.retained_free /\ q.queue = p.queue

\* A hash is counted for every entry that has it.
LEMMA CountsPositive ==
  ASSUME NEW p \in PoolRecord, LeasesCounted(p)
  PROVE  /\ \A h \in Hash : p.hash_ref[h] \in Nat
         /\ \A e \in ToSet(p.entries) : \A h \in ToSet(e.hashes) : h \in Hash /\ p.hash_ref[h] > 0
         /\ \A h \in Hash : p.hash_ref[h] > 0 => \E e \in ToSet(p.entries) : h \in ToSet(e.hashes)
<1>1. p.entries \in Seq(LeaseEntry) /\ IsInjective(p.entries)
  BY DEF PoolRecord, LeasesCounted
<1>2. IsFiniteSet(ToSet(p.entries)) /\ ToSet(p.entries) \subseteq LeaseEntry
  BY <1>1, LenIsCardinality, MembersHavePositions
<1>3. ASSUME NEW h \in Hash
      PROVE  /\ p.hash_ref[h] \in Nat
             /\ p.hash_ref[h] = 0 <=> {e \in ToSet(p.entries) : h \in ToSet(e.hashes)} = {}
  <2>1. IsFiniteSet({e \in ToSet(p.entries) : h \in ToSet(e.hashes)})
    BY <1>2, FS_Subset
  <2> QED BY <2>1, FS_CardinalityType, FS_EmptySet DEF LeasesCounted
<1>4. ASSUME NEW e \in ToSet(p.entries) PROVE \A h \in ToSet(e.hashes) : h \in Hash
  <2>1. e.hashes \in Seq(Hash)
    BY <1>2 DEF LeaseEntry
  <2> QED BY <2>1, MembersHavePositions
<1>5. \A e \in ToSet(p.entries) : \A h \in ToSet(e.hashes) : h \in Hash /\ p.hash_ref[h] > 0
  <2>1. TAKE e \in ToSet(p.entries)
  <2>2. TAKE h \in ToSet(e.hashes)
  <2>3. h \in Hash /\ p.hash_ref[h] # 0
    BY <1>3, <1>4
  <2> QED BY <1>3, <2>3
<1>6. \A h \in Hash : p.hash_ref[h] > 0 => \E e \in ToSet(p.entries) : h \in ToSet(e.hashes)
  <2>1. TAKE h \in Hash
  <2>2. HAVE p.hash_ref[h] > 0
  <2> QED BY <1>3, <2>2
<1> QED BY <1>3, <1>5, <1>6

\* remove_entry
Removed(p, q, e) ==
    /\ q \in PoolRecord /\ q.ok = p.ok /\ LeasesCounted(q)
    /\ SameBlocks(p, q) /\ q.retained_hashes = p.retained_hashes /\ q.revoked = p.revoked
    /\ q.dirty = TRUE
    /\ q.entries = Keep(p.entries, ToSet(p.entries) \ {e})
    /\ ToSet(q.entries) = ToSet(p.entries) \ {e}
    /\ \A h \in Hash : q.hash_ref[h] = IF h \in ToSet(e.hashes) THEN p.hash_ref[h] - 1 ELSE p.hash_ref[h]

\* remove_entry takes one lease out of the counts, and no other.
LEMMA RemoveEntryKeeps ==
  ASSUME NEW p \in PoolRecord, LeasesCounted(p), NEW e \in ToSet(p.entries)
  PROVE  Removed(p, RemoveEntry(p, e), e)
<1>1. /\ p.entries \in Seq(LeaseEntry) /\ IsInjective(p.entries) /\ p.hash_ref \in [Hash -> Int]
      /\ p.ok \in BOOLEAN
  BY DEF PoolRecord, LeasesCounted
<1>2. \A h \in ToSet(e.hashes) : h \in Hash /\ p.hash_ref[h] > 0
  BY CountsPositive
<1>3. PICK q : q = RemoveEntry(p, e)
  OBVIOUS
<1>4. PICK x, y : x = Keep(p.entries, ToSet(p.entries) \ {e})
                  /\ y = [h \in Hash |-> p.hash_ref[h] - Bit(h \in ToSet(e.hashes))]
  OBVIOUS
<1>5. PICK c \in BOOLEAN : c = \A h \in ToSet(e.hashes) : p.hash_ref[h] > 0
  OBVIOUS
<1>6. q = Check([p EXCEPT !.entries = x, !.hash_ref = y, !.dirty = TRUE], c)
  BY <1>3, <1>4, <1>5 DEF RemoveEntry
<1>7. c = TRUE
  BY <1>2, <1>5
<1>8. x \in Seq(LeaseEntry) /\ IsInjective(x) /\ ToSet(x) = ToSet(p.entries) \ {e}
  <2>1. ToSet(x) = ToSet(p.entries) \cap (ToSet(p.entries) \ {e})
    BY <1>1, <1>4, KeepProperties
  <2> QED BY <1>1, <1>4, <2>1, KeepProperties
<1>9. y \in [Hash -> Int] /\ \A h \in Hash : y[h] = IF h \in ToSet(e.hashes) THEN p.hash_ref[h] - 1 ELSE p.hash_ref[h]
  BY <1>1, <1>4 DEF Bit
<1>10. /\ q \in PoolRecord /\ q.entries = x /\ q.hash_ref = y /\ q.dirty = TRUE /\ q.ok = p.ok
       /\ SameBlocks(p, q) /\ q.retained_hashes = p.retained_hashes /\ q.revoked = p.revoked
  BY <1>1, <1>6, <1>7, <1>8, <1>9 DEF Check, PoolRecord, SameBlocks, SameIndexes
<1>11. LeasesCounted(q)
  <2>1. ASSUME NEW h \in Hash
        PROVE  y[h] = Cardinality({f \in ToSet(x) : h \in ToSet(f.hashes)})
    <3> DEFINE A == {f \in ToSet(p.entries) : h \in ToSet(f.hashes)}
    <3>1. p.hash_ref[h] = Cardinality(A)
      BY DEF LeasesCounted
    <3>2. IsFiniteSet(A)
      <4>1. IsFiniteSet(ToSet(p.entries))
        BY <1>1, LenIsCardinality
      <4> QED BY <4>1, FS_Subset
    <3>3. y[h] = IF h \in ToSet(e.hashes) THEN p.hash_ref[h] - 1 ELSE p.hash_ref[h]
      BY <1>9
    <3>4. CASE h \in ToSet(e.hashes)
      <4>1. {f \in ToSet(x) : h \in ToSet(f.hashes)} = A \ {e}
        BY <1>8
      <4>2. e \in A
        BY <3>4
      <4> HIDE DEF A
      <4>3. Cardinality(A \ {e}) = Cardinality(A) - 1
        BY <3>2, <4>2, FS_RemoveElement
      <4> QED BY <3>1, <3>3, <3>4, <4>1, <4>3
    <3>5. CASE h \notin ToSet(e.hashes)
      <4>1. {f \in ToSet(x) : h \in ToSet(f.hashes)} = A
        BY <1>8, <3>5
      <4> HIDE DEF A
      <4> QED BY <3>1, <3>3, <3>5, <4>1
    <3> QED BY <3>4, <3>5
  <2>2. \A f, g \in ToSet(x) : f.id = g.id => f = g
    BY <1>8 DEF LeasesCounted
  <2>3. \A f \in ToSet(x) : IsInjective(f.hashes)
    BY <1>8 DEF LeasesCounted
  <2> QED BY <1>8, <1>10, <2>1, <2>2, <2>3 DEF LeasesCounted
<1>12. Removed(p, q, e)
  BY <1>4, <1>8, <1>9, <1>10, <1>11 DEF Removed
<1> QED BY <1>3, <1>12

\* Dropping a lease, revoked or not.
LEMMA DropLeaseKeeps ==
  ASSUME NEW p, PoolInv(p), NEW l
  PROVE  LET q == DropLease(p, l)
         IN  /\ PoolInv(q) /\ q.ref_cnt = p.ref_cnt /\ SameIndexes(p, q)
             /\ \A e \in ToSet(q.entries) : e \in ToSet(p.entries) /\ e.id # l
<1>0. /\ p \in PoolRecord /\ p.ok /\ Shape(p) /\ LeasesCounted(p) /\ PinsKnown(p)
  BY PoolInvIs
<1>1. CASE EntriesOf(p, l) = {}
  BY <1>1 DEF DropLease, EntriesOf, SameIndexes
<1>2. CASE EntriesOf(p, l) # {}
  <2>1. PICK e \in EntriesOf(p, l) : DropLease(p, l) = RemoveEntry(p, e)
    BY <1>2 DEF DropLease
  <2>2. e \in ToSet(p.entries) /\ e.id = l
    BY DEF EntriesOf
  <2>3. PICK q : q = DropLease(p, l)
    OBVIOUS
  <2>4. Removed(p, q, e)
    BY <1>0, <2>1, <2>2, <2>3, RemoveEntryKeeps
  <2>5. Shape(q)
    BY <1>0, <2>4, ShapeSame DEF Removed, SameBlocks
  <2>6. PinsKnown(q)
    BY <1>0, <2>4 DEF Removed, SameBlocks, SameIndexes, PinsKnown
  <2>7. PoolInv(q)
    <3>1. p.entries \in Seq(LeaseEntry)
      BY <1>0 DEF PoolRecord
    <3>2. e \in LeaseEntry
      BY <2>2, <3>1, MembersHavePositions
    <3>3. Lease # {}
      BY <3>2 DEF LeaseEntry
    <3> QED BY <1>0, <2>4, <2>5, <2>6, <3>3, PoolInvIs DEF Removed
  <2>8. \A f \in ToSet(q.entries) : f \in ToSet(p.entries) /\ f.id # l
    BY <1>0, <2>2, <2>4 DEF Removed, LeasesCounted
  <2> QED BY <2>3, <2>4, <2>7, <2>8 DEF Removed, SameBlocks
<1> QED BY <1>1, <1>2

-----------------------------------------------------------------------------
(* Revocation. *)

\* A pool that has caught up with its leases and stays so while it revokes.
Revoking(p) ==
    /\ p \in PoolRecord /\ p.ok /\ Shape(p)
    /\ LeasesCounted(p) /\ PinsKnown(p) /\ CaughtUp(p)

EntriesRevoked(p, q) ==
    /\ q.ref_cnt = p.ref_cnt /\ SameIndexes(p, q) /\ q.revoked = p.revoked

\* Revoking the oldest lease.
LEMMA RevokeOldestKeeps ==
  ASSUME DebugAssertions, NEW p, Revoking(p), p.entries # << >>
  PROVE  LET q == RevokeOldest(p)
         IN  Revoking(q) /\ EntriesRevoked(p, q) /\ q.entries = Tail(p.entries)
<1>0. /\ p \in PoolRecord /\ p.ok /\ Shape(p)
      /\ LeasesCounted(p) /\ PinsKnown(p) /\ CaughtUp(p)
  BY DEF Revoking
<1>1. p.entries \in Seq(LeaseEntry) /\ IsInjective(p.entries)
  BY <1>0 DEF PoolRecord, LeasesCounted
<1>2. PICK e : e = Head(p.entries)
  OBVIOUS
<1>3. e \in ToSet(p.entries) /\ e \in LeaseEntry
  BY <1>1, <1>2, TailKeeps, MembersHavePositions
<1>4. PICK r : r = RemoveEntry(p, e)
  OBVIOUS
<1>5. Removed(p, r, e)
  BY <1>0, <1>3, <1>4, RemoveEntryKeeps
<1>6. PICK hs : hs = Released(p, e)
  OBVIOUS
<1>7. hs \in Seq(Hash) /\ IsInjective(hs) /\ ToSet(hs) = {h \in ToSet(e.hashes) : p.hash_ref[h] = 1}
  <2>1. e.hashes \in Seq(Hash) /\ IsInjective(e.hashes)
    BY <1>0, <1>3 DEF LeaseEntry, LeasesCounted
  <2>2. PICK v : v = Reverse(e.hashes)
    OBVIOUS
  <2>3. v \in Seq(Hash) /\ IsInjective(v) /\ ToSet(v) = ToSet(e.hashes)
    BY <2>1, <2>2, ReverseKeeps
  <2>4. PICK S : S = {h \in Hash : p.hash_ref[h] = 1}
    OBVIOUS
  <2>5. hs = Keep(v, S)
    BY <1>6, <2>2, <2>4 DEF Released
  <2>6. hs \in Seq(Hash) /\ IsInjective(hs) /\ ToSet(hs) = ToSet(v) \cap S
    BY <2>3, <2>5, KeepProperties
  <2>7. ToSet(e.hashes) \subseteq Hash
    BY <2>1, MembersHavePositions
  <2> QED BY <2>3, <2>4, <2>6, <2>7
<1>8. PICK R : R = ToSet(hs)
  OBVIOUS
<1>9. R \in SUBSET Hash /\ R \subseteq p.retained_hashes
  <2>1. \A h \in R : h \in Hash /\ p.hash_ref[h] = 1
    BY <1>7, <1>8, MembersHavePositions
  <2> QED BY <1>0, <2>1 DEF CaughtUp
<1>10. PICK s : s = Check([r EXCEPT !.retained_hashes = @ \ R], R \subseteq r.retained_hashes)
  OBVIOUS
<1>11. /\ s \in PoolRecord /\ s.ok = p.ok /\ SameBlocks(r, s) /\ s.retained_hashes = p.retained_hashes \ R
       /\ s.entries = r.entries /\ s.hash_ref = r.hash_ref /\ s.revoked = r.revoked
  <2>1. r \in PoolRecord /\ r.ok = p.ok /\ r.ok \in BOOLEAN /\ r.retained_hashes = p.retained_hashes
        /\ r.retained_hashes \in SUBSET Hash
    BY <1>5 DEF Removed, PoolRecord
  <2>2. PICK x, c : x = r.retained_hashes \ R /\ c = (R \subseteq r.retained_hashes)
    OBVIOUS
  <2>3. x \in SUBSET Hash /\ c = TRUE /\ x = p.retained_hashes \ R
    BY <1>9, <2>1, <2>2
  <2>4. s = Check([r EXCEPT !.retained_hashes = x], c)
    BY <1>10, <2>2
  <2> QED BY <2>1, <2>3, <2>4 DEF Check, PoolRecord, SameBlocks, SameIndexes
<1>12. Shape(s)
  <2>1. Shape(r)
    BY <1>0, <1>5, ShapeSame DEF Removed, SameBlocks
  <2> QED BY <1>11, <2>1, ShapeSame DEF SameBlocks
<1>13. PICK blocks : blocks = [i \in 1..Len(hs) |-> r.retained_block[hs[i]]]
  OBVIOUS
<1>14. PICK I : I = LeftIdle(s, R)
  OBVIOUS
<1>15. I = LeftIdle(r, R)
  BY <1>11, <1>14 DEF LeftIdle, Unpinned, Pins, SameBlocks
<1>16. PICK order : order = Keep(blocks, I)
  OBVIOUS
<1>17. RevokeOldest(p) = Unpin(s, R, order)
  <2>1. RevokeOldest(p) = ReleaseRetainedHashes(r, hs)
    BY <1>2, <1>4, <1>6 DEF RevokeOldest, RevokeEntry
  <2>2. ReleaseRetainedHashes(r, hs) = Unpin(s, R, order)
    BY <1>8, <1>10, <1>13, <1>15, <1>16 DEF ReleaseRetainedHashes
  <2> QED BY <2>1, <2>2
<1>18. /\ r.retained_block = p.retained_block /\ s.retained_block = p.retained_block
       /\ p.retained_block \in [Hash -> Block \cup {NoBlock}]
  BY <1>0, <1>5, <1>11 DEF Removed, SameBlocks, PoolRecord
<1>19. PICK n \in Nat : n = Len(hs)
  BY <1>7
<1>20. /\ blocks \in Seq(Block \cup {NoBlock}) /\ Len(blocks) = n
       /\ \A i \in 1..n : blocks[i] = p.retained_block[hs[i]] /\ hs[i] \in Hash
  BY <1>7, <1>13, <1>18, <1>19
<1>21. I \subseteq Block /\ \A b \in I : \E h \in R : p.retained_block[h] = b
  <2>1. I \subseteq Block
    BY <1>14 DEF LeftIdle, Unpinned
  <2>2. ASSUME NEW b \in I PROVE \E h \in R : p.retained_block[h] = b
    <3>1. s.retention_count[b] > 0 /\ s.retention_count[b] = Cardinality(Pins(s, R, b))
      BY <1>14 DEF LeftIdle, Unpinned
    <3>2. Pins(s, R, b) # {}
      <4>1. SUFFICES ASSUME Pins(s, R, b) = {} PROVE FALSE
        OBVIOUS
      <4>2. Cardinality(Pins(s, R, b)) = 0
        BY <4>1, FS_EmptySet
      <4> QED BY <3>1, <4>2
    <3> QED BY <1>18, <3>2 DEF Pins
  <2> QED BY <2>1, <2>2
<1>22. ToSet(order) = I
  <2>1. ToSet(order) = ToSet(blocks) \cap I
    BY <1>16, <1>20, KeepProperties
  <2>2. ASSUME NEW b \in I PROVE b \in ToSet(blocks)
    <3>1. PICK h \in R : p.retained_block[h] = b
      BY <1>21
    <3>2. PICK i \in 1..n : hs[i] = h
      BY <1>7, <1>8, <1>19, <3>1, MembersHavePositions
    <3> QED BY <1>20, <3>1, <3>2, MembersHavePositions
  <2> QED BY <2>1, <2>2
<1>23. order \in Seq(Block)
  <2>1. order \in Seq(Block \cup {NoBlock})
    BY <1>16, <1>20, KeepProperties
  <2> QED BY <1>21, <1>22, <2>1, SeqOfMembers
<1>24. IsInjective(order)
  <2>1. \A i, j \in 1..n : hs[i] = hs[j] => i = j
    BY <1>7, <1>19, InjectiveByPositions
  <2>2. Indexed(p)
    BY <1>0 DEF Shape
  <2>3. \A i, j \in 1..Len(blocks) : blocks[i] \in I /\ blocks[i] = blocks[j] => i = j
    BY <1>0, <1>20, <1>21, <2>1, <2>2, PinsDiffer, BlocksFinite
  <2> QED BY <1>16, <1>20, <2>3, KeepInjective
<1>25. PICK q : q = RevokeOldest(p)
  OBVIOUS
<1>26. Repinned(s, q) /\ PinsRemoved(s, q, R)
  BY <1>9, <1>11, <1>12, <1>14, <1>17, <1>22, <1>23, <1>24, <1>25, UnpinKeeps
<1>27. /\ q \in PoolRecord /\ Shape(q) /\ q.ok /\ q.entries = r.entries /\ q.hash_ref = r.hash_ref
       /\ SameIndexes(p, q) /\ q.ref_cnt = p.ref_cnt /\ q.revoked = p.revoked
       /\ q.retained_hashes = p.retained_hashes \ R
  BY <1>0, <1>5, <1>11, <1>26 DEF Repinned, Removed, SameBlocks, SameIndexes, SameLeases
<1>28. LeasesCounted(q)
  BY <1>5, <1>27, LeasesSame DEF Removed
<1>29. PinsKnown(q)
  <2>1. SUFFICES ASSUME NEW h \in Hash
                 PROVE  q.retained_block[h] # NoBlock <=> h \in p.retained_hashes \ R /\ p.cache[h] # {}
    BY <1>27 DEF PinsKnown, SameIndexes
  <2>2. q.retained_block[h] = IF h \in R THEN NoBlock ELSE p.retained_block[h]
    BY <1>18, <1>26 DEF PinsRemoved
  <2> QED BY <1>0, <2>2 DEF PinsKnown
<1>30. CaughtUp(q)
  <2>1. ASSUME NEW h \in Hash PROVE h \in p.retained_hashes \ R <=> r.hash_ref[h] > 0
    <3>1. h \in p.retained_hashes <=> p.hash_ref[h] > 0
      BY <1>0 DEF CaughtUp
    <3>2. h \in R <=> h \in ToSet(e.hashes) /\ p.hash_ref[h] = 1
      BY <1>7, <1>8
    <3>3. r.hash_ref[h] = IF h \in ToSet(e.hashes) THEN p.hash_ref[h] - 1 ELSE p.hash_ref[h]
      BY <1>5 DEF Removed
    <3>4. p.hash_ref[h] \in Nat
      BY <1>0, CountsPositive
    <3> QED BY <3>1, <3>2, <3>3, <3>4
  <2>2. p.retained_hashes \subseteq Hash
    BY <1>0 DEF PoolRecord
  <2> QED BY <1>27, <2>1, <2>2 DEF CaughtUp
<1>31. q.entries = Tail(p.entries)
  BY <1>1, <1>2, <1>5, <1>27, KeepAllButHead DEF Removed
<1> QED BY <1>25, <1>27, <1>28, <1>29, <1>30, <1>31 DEF Revoking, EntriesRevoked

\* The recursion over the number of revoked leases has a solution.
LEMMA RevocationsExist ==
  ASSUME NEW p, NEW n \in Nat
  PROVE  \E f : f = [k \in 0..n |-> IF k = 0 THEN p ELSE RevokeOldest(f[k - 1])]
<1> DEFINE Solved(m) == \E f : f = [k \in 0..m |-> IF k = 0 THEN p ELSE RevokeOldest(f[k - 1])]
           Bad == {m \in Nat : ~Solved(m)}
<1>1. SUFFICES ASSUME Bad # {} PROVE FALSE
  BY <1>1
<1>2. PICK m \in Bad : \A k \in Bad : m <= k
  BY <1>1, LeastMember
<1>3. m \in Nat /\ ~Solved(m)
  OBVIOUS
<1>4. CASE m = 0
  <2> DEFINE f == [k \in 0..0 |-> p]
  <2>1. f = [k \in 0..0 |-> IF k = 0 THEN p ELSE RevokeOldest(f[k - 1])]
    OBVIOUS
  <2> QED BY <1>3, <1>4, <2>1
<1>5. CASE m # 0
  <2>1. m - 1 \in Nat /\ m - 1 \notin Bad
    BY <1>2, <1>3, <1>5
  <2>2. Solved(m - 1)
    BY <2>1
  <2>3. PICK f : f = [k \in 0..(m - 1) |-> IF k = 0 THEN p ELSE RevokeOldest(f[k - 1])]
    BY <2>2
  <2> DEFINE g == [k \in 0..m |-> IF k = m THEN RevokeOldest(f[m - 1]) ELSE f[k]]
  <2>4. \A k \in 0..m : g[k] = IF k = 0 THEN p ELSE RevokeOldest(g[k - 1])
    <3>1. TAKE k \in 0..m
    <3>2. CASE k = m
      <4>1. g[k] = RevokeOldest(f[m - 1])
        BY <3>2
      <4>2. m - 1 \in 0..m /\ m - 1 # m
        BY <2>1
      <4>3. g[m - 1] = f[m - 1]
        BY <4>2
      <4> QED BY <1>5, <3>2, <4>1, <4>3
    <3>3. CASE k # m
      <4>1. k \in 0..(m - 1) /\ g[k] = f[k]
        BY <1>3, <3>3
      <4>2. f[k] = IF k = 0 THEN p ELSE RevokeOldest(f[k - 1])
        BY <2>3, <4>1
      <4>3. k # 0 => k - 1 \in 0..m /\ k - 1 # m
        BY <4>1
      <4>4. k # 0 => g[k - 1] = f[k - 1]
        BY <4>3
      <4> HIDE DEF g
      <4> QED BY <4>1, <4>2, <4>4
    <3> QED BY <3>2, <3>3
  <2>5. g = [k \in 0..m |-> g[k]]
    OBVIOUS
  <2>6. g = [k \in 0..m |-> IF k = 0 THEN p ELSE RevokeOldest(g[k - 1])]
    <3> HIDE DEF g
    <3> QED BY <2>4, <2>5
  <2> QED BY <1>3, <2>6
<1> QED BY <1>4, <1>5

\* What the pool is after k revocations.
LEMMA RevocationsAre ==
  ASSUME NEW p, p.entries \in Seq(LeaseEntry)
  PROVE  /\ DOMAIN Revocations(p) = 0..Len(p.entries)
         /\ Revocations(p)[0] = p
         /\ \A k \in 1..Len(p.entries) : Revocations(p)[k] = RevokeOldest(Revocations(p)[k - 1])
<1>1. PICK n \in Nat : n = Len(p.entries)
  OBVIOUS
<1>2. PICK f : f = Revocations(p)
  OBVIOUS
<1>3. f = CHOOSE g : g = [k \in 0..n |-> IF k = 0 THEN p ELSE RevokeOldest(g[k - 1])]
  BY <1>1, <1>2 DEF Revocations
<1>4. \E g : g = [k \in 0..n |-> IF k = 0 THEN p ELSE RevokeOldest(g[k - 1])]
  BY RevocationsExist
<1>5. f = [k \in 0..n |-> IF k = 0 THEN p ELSE RevokeOldest(f[k - 1])]
  BY <1>3, <1>4
<1>6. DOMAIN f = 0..n
  BY <1>5
<1>7. \A k \in 0..n : f[k] = IF k = 0 THEN p ELSE RevokeOldest(f[k - 1])
  BY <1>5
<1>8. f[0] = p /\ \A k \in 1..n : f[k] = RevokeOldest(f[k - 1])
  BY <1>7
<1> QED BY <1>1, <1>2, <1>6, <1>8

\* Each revocation takes the oldest lease that is left.
LEMMA RevocationsKeep ==
  ASSUME NEW p, Revoking(p), DebugAssertions \/ p.entries = << >>
  PROVE  \A k \in 0..Len(p.entries) :
            /\ Revoking(Revocations(p)[k]) /\ EntriesRevoked(p, Revocations(p)[k])
            /\ Revocations(p)[k].entries = SubSeq(p.entries, k + 1, Len(p.entries))
<1>1. p.entries \in Seq(LeaseEntry)
  BY DEF Revoking, PoolRecord
<1>2. PICK n \in Nat : n = Len(p.entries)
  BY <1>1
<1>3. PICK f : f = Revocations(p)
  OBVIOUS
<1>4. f[0] = p /\ \A k \in 1..n : f[k] = RevokeOldest(f[k - 1])
  BY <1>1, <1>2, <1>3, RevocationsAre
<1> DEFINE Good(k) == Revoking(f[k]) /\ EntriesRevoked(p, f[k]) /\ f[k].entries = SubSeq(p.entries, k + 1, n)
           Bad == {k \in 0..n : ~Good(k)}
<1>5. SUFFICES ASSUME Bad # {} PROVE FALSE
  BY <1>2, <1>3
<1>6. Bad \in SUBSET Nat
  OBVIOUS
<1>7. PICK k \in Bad : \A j \in Bad : k <= j
  <2> HIDE DEF Bad
  <2> QED BY <1>5, <1>6, LeastMember
<1>8. k \in 0..n /\ ~Good(k)
  BY <1>7
<1>9. CASE k = 0
  <2>1. SubSeq(p.entries, 1, n) = p.entries
    BY <1>1, <1>2
  <2>2. Good(0)
    BY <1>4, <2>1 DEF EntriesRevoked, SameIndexes
  <2> QED BY <1>8, <1>9, <2>2
<1>10. CASE k # 0
  <2>1. k - 1 \in 0..n /\ k - 1 \notin Bad /\ k \in 1..n
    BY <1>7, <1>8, <1>10
  <2>2. Good(k - 1)
    BY <2>1
  <2>3. (k - 1) + 1 = k
    BY <1>8
  <2>4. /\ Revoking(f[k - 1]) /\ EntriesRevoked(p, f[k - 1])
        /\ f[k - 1].entries = SubSeq(p.entries, k, n)
    BY <2>2, <2>3
  <2>5. f[k - 1].entries # << >> /\ Tail(f[k - 1].entries) = SubSeq(p.entries, k + 1, n)
    BY <1>1, <1>2, <2>1, <2>4, TailOfSuffix
  <2>6. DebugAssertions
    <3>1. p.entries # << >>
      BY <1>1, <1>2, <2>1
    <3> QED BY <3>1
  <2>7. /\ Revoking(f[k]) /\ EntriesRevoked(f[k - 1], f[k]) /\ f[k].entries = Tail(f[k - 1].entries)
    BY <1>4, <2>1, <2>4, <2>5, <2>6, RevokeOldestKeeps
  <2>8. Good(k)
    BY <2>4, <2>5, <2>7 DEF EntriesRevoked, SameIndexes
  <2> QED BY <1>8, <2>8
<1> QED BY <1>9, <1>10

\* Once all leases are revoked nothing is pinned, and every idle block is in
\* the free queue.
LEMMA NothingPinned ==
  ASSUME NEW p, Revoking(p), p.entries = << >>
  PROVE  /\ \A h \in Hash : p.retained_block[h] = NoBlock
         /\ Pinned(p) = {} /\ Len(p.queue) = NumFree(p)
<1>1. p \in PoolRecord /\ Shape(p) /\ LeasesCounted(p) /\ PinsKnown(p) /\ CaughtUp(p)
  BY DEF Revoking
<1>2. ToSet(p.entries) = {}
  BY EmptyQueue
<1>3. \A h \in Hash : ~(p.hash_ref[h] > 0)
  BY <1>1, <1>2, CountsPositive
<1>4. \A h \in Hash : p.retained_block[h] = NoBlock
  BY <1>1, <1>3 DEF CaughtUp, PinsKnown
<1>5. Pinned(p) = {}
  BY <1>4, BlocksFinite DEF Pinned
<1>6. Cardinality(Idle(p) \cap Pinned(p)) = 0
  BY <1>5, FS_EmptySet
<1>7. Len(p.queue) \in Nat
  BY <1>1, FreeIsIdle
<1> QED BY <1>1, <1>4, <1>5, <1>6, <1>7 DEF Shape, NumFree

\* Leases are revoked oldest first until n blocks are in the free queue, which
\* happens if n blocks are free at all.
LEMMA RevokeForPressureKeeps ==
  ASSUME NEW p, PoolInv(p), CaughtUp(p), DebugAssertions \/ p.entries = << >>,
         NEW n \in Nat, n <= NumFree(p)
  PROVE  LET q == RevokeForPressure(p, n)
         IN  /\ PoolInv(q) /\ q.ref_cnt = p.ref_cnt /\ SameIndexes(p, q)
             /\ n <= Len(q.queue)
             /\ \E k \in 0..Len(p.entries) :
                   /\ q.entries = SubSeq(p.entries, k + 1, Len(p.entries))
                   /\ q.revoked = (p.revoked \/ k > 0)
<1>0. Revoking(p)
  BY PoolInvIs DEF Revoking
<1>1. p.entries \in Seq(LeaseEntry) /\ p.revoked \in BOOLEAN
  BY <1>0 DEF Revoking, PoolRecord
<1>2. PICK m \in Nat : m = Len(p.entries)
  BY <1>1
<1>3. PICK f : f = Revocations(p)
  OBVIOUS
<1>4. DOMAIN f = 0..m
  BY <1>1, <1>2, <1>3, RevocationsAre
<1>5. \A k \in 0..m : /\ Revoking(f[k]) /\ EntriesRevoked(p, f[k])
                      /\ f[k].entries = SubSeq(p.entries, k + 1, m)
  BY <1>0, <1>2, <1>3, RevocationsKeep
<1>6. PICK S : S = {i \in DOMAIN f : i = Len(p.entries) \/ n <= Len(f[i].queue)}
  OBVIOUS
<1>7. S \in SUBSET (0..m) /\ m \in S
  BY <1>2, <1>4, <1>6
<1>8. PICK k : k = Min(S)
  OBVIOUS
<1>9. k \in S
  <2>1. \E x \in S : \A y \in S : x <= y
    <3>1. S \in SUBSET Nat /\ S # {}
      BY <1>2, <1>7
    <3> QED BY <3>1, LeastMember
  <2> QED BY <1>8, <2>1 DEF Min
<1>10. k \in 0..m /\ (k = m \/ n <= Len(f[k].queue))
  BY <1>2, <1>6, <1>7, <1>9
<1>11. PICK q : q = RevokeForPressure(p, n)
  OBVIOUS
<1>12. q = [f[k] EXCEPT !.dirty = FALSE, !.revoked = @ \/ k > 0]
  BY <1>3, <1>6, <1>8, <1>11 DEF RevokeForPressure
<1>13. PICK g : g = f[k]
  OBVIOUS
<1>14. Revoking(g) /\ EntriesRevoked(p, g) /\ g.entries = SubSeq(p.entries, k + 1, m)
  BY <1>5, <1>10, <1>13
<1>15. g \in PoolRecord /\ g.ok /\ Shape(g) /\ LeasesCounted(g) /\ PinsKnown(g) /\ CaughtUp(g)
  BY <1>14 DEF Revoking
<1>16. PICK c \in BOOLEAN : c = (g.revoked \/ k > 0)
  OBVIOUS
<1>17. q = [g EXCEPT !.dirty = FALSE, !.revoked = c]
  BY <1>12, <1>13, <1>16
<1>18. /\ q \in PoolRecord /\ SameBlocks(g, q) /\ q.ok = g.ok /\ q.entries = g.entries
       /\ q.hash_ref = g.hash_ref /\ q.retained_hashes = g.retained_hashes /\ q.revoked = c /\ q.dirty = FALSE
  BY <1>15, <1>17 DEF PoolRecord, SameBlocks, SameIndexes
<1>19. Shape(q)
  BY <1>15, <1>18, ShapeSame DEF SameBlocks
<1>20. LeasesCounted(q) /\ PinsKnown(q) /\ CaughtUp(q)
  BY <1>15, <1>18 DEF LeasesCounted, PinsKnown, CaughtUp, SameBlocks, SameIndexes
<1>21. PoolInv(q)
  BY <1>15, <1>18, <1>19, <1>20, PoolInvIs
<1>22. n <= Len(q.queue)
  <2>1. CASE n <= Len(g.queue)
    BY <1>18, <2>1 DEF SameBlocks
  <2>2. CASE k = m
    <3>1. g.entries = << >>
      <4>1. SubSeq(p.entries, m + 1, m) = << >>
        BY <1>1, <1>2
      <4> QED BY <1>14, <2>2, <4>1
    <3>2. Len(g.queue) = NumFree(g)
      BY <1>14, <3>1, NothingPinned
    <3>3. NumFree(g) = NumFree(p)
      <4>1. Idle(g) = Idle(p)
        BY <1>14 DEF Idle, EntriesRevoked
      <4> QED BY <1>0, <1>15, <4>1, FreeIsIdle DEF Revoking
    <3> QED BY <1>18, <3>2, <3>3 DEF SameBlocks
  <2> QED BY <1>10, <1>13, <2>1, <2>2
<1>23. q.ref_cnt = p.ref_cnt /\ SameIndexes(p, q)
  BY <1>14, <1>18 DEF EntriesRevoked, SameBlocks, SameIndexes
<1>24. q.entries = SubSeq(p.entries, k + 1, m) /\ q.revoked = (p.revoked \/ k > 0)
  BY <1>14, <1>16, <1>18 DEF EntriesRevoked
<1> QED BY <1>2, <1>10, <1>11, <1>21, <1>22, <1>23, <1>24

-----------------------------------------------------------------------------
(* Allocation. *)

\* The blocks taken are idle ones; each gets a reference and loses its hash.
Allocated(p, q, bs) ==
    /\ bs \in Seq(Block) /\ IsInjective(bs) /\ ToSet(bs) \subseteq Idle(p)
    /\ \A b \in Block :
          /\ q.ref_cnt[b] = IF b \in ToSet(bs) THEN 1 ELSE p.ref_cnt[b]
          /\ q.block_hashes[b] = IF b \in ToSet(bs) THEN {} ELSE p.block_hashes[b]

\* allocate_free_blocks hands out the front of the free queue, evicted.
LEMMA AllocateFreeKeeps ==
  ASSUME NEW p, PoolInv(p), NEW n \in 0..Len(p.queue)
  PROVE  LET got == AllocateFreeBlocks(p, n)
         IN  /\ got.some /\ PoolInv(got.pool) /\ Allocated(p, got.pool, got.blocks)
             /\ got.blocks = SubSeq(p.queue, 1, n) /\ Len(got.blocks) = n
             /\ got.pool.queue = SubSeq(p.queue, n + 1, Len(p.queue))
             /\ got.pool.entries = p.entries /\ got.pool.revoked = p.revoked
<1>0. /\ p \in PoolRecord /\ p.ok /\ Shape(p) /\ LeasesCounted(p) /\ PinsKnown(p)
      /\ (~p.dirty => CaughtUp(p)) /\ (p.dirty => Lease # {})
  BY PoolInvIs
<1>1. /\ p.queue \in Seq(Block) /\ p.ref_cnt \in [Block -> Nat] /\ p.block_hashes \in [Block -> SUBSET Hash]
      /\ p.cache \in [Hash -> SUBSET Block] /\ p.prefix_cached \in Int /\ p.ok \in BOOLEAN
  BY <1>0 DEF PoolRecord
<1>2. PICK l \in Nat : l = Len(p.queue) /\ n \in 0..l
  BY <1>1
<1>3. PICK taken, rest : taken = SubSeq(p.queue, 1, n) /\ rest = SubSeq(p.queue, n + 1, Len(p.queue))
  OBVIOUS
<1>4. PICK bs : bs = ToSet(taken)
  OBVIOUS
<1>5. /\ taken \in Seq(Block) /\ IsInjective(taken) /\ rest \in Seq(Block) /\ IsInjective(rest)
      /\ bs \cup ToSet(rest) = ToSet(p.queue) /\ bs \cap ToSet(rest) = {}
  <2>1. n + 1 \in 1..(Len(p.queue) + 1) /\ (n + 1) - 1 = n
    BY <1>2
  <2>2. IsInjective(p.queue)
    BY <1>0 DEF Shape
  <2> QED BY <1>1, <1>3, <1>4, <2>1, <2>2, HalvesKeep
<1>6. Len(taken) = n
  BY <1>1, <1>2, <1>3
<1>7. /\ bs \subseteq Idle(p) /\ bs \cap Pinned(p) = {} /\ bs \subseteq Block
      /\ ToSet(rest) = (Idle(p) \ bs) \ Pinned(p)
  BY <1>0, <1>5 DEF Shape, Idle
<1>8. PICK p1 : p1 = [p EXCEPT !.queue = rest]
  OBVIOUS
<1>9. /\ p1 \in PoolRecord /\ p1.queue = rest /\ p1.ref_cnt = p.ref_cnt /\ SameIndexes(p, p1)
      /\ p1.retained_block = p.retained_block /\ p1.retention_count = p.retention_count
      /\ p1.retained = p.retained /\ p1.retained_free = p.retained_free
      /\ p1.retained_hashes = p.retained_hashes /\ p1.ok = p.ok /\ SameLeases(p, p1)
  BY <1>0, <1>5, <1>8 DEF PoolRecord, SameIndexes, SameLeases
<1>10. PICK x2, x3, x4, x5 :
          /\ x2 = [b \in Block |-> IF b \in bs THEN {} ELSE p.block_hashes[b]]
          /\ x3 = [h \in Hash |-> p.cache[h] \ {b \in bs : h \in p.block_hashes[b]}]
          /\ x4 = p.prefix_cached - Cardinality(Cached(p) \cap bs)
          /\ x5 = [b \in Block |-> IF b \in bs THEN 1 ELSE p.ref_cnt[b]]
  OBVIOUS
<1>11. /\ x2 \in [Block -> SUBSET Hash] /\ x3 \in [Hash -> SUBSET Block] /\ x5 \in [Block -> Nat]
  BY <1>1, <1>10
<1>12. /\ x4 \in Int /\ Cardinality(Cached(p) \cap bs) <= p.prefix_cached
       /\ x4 = Cardinality(Cached(p) \ bs)
  <2>1. IsFiniteSet(Cached(p)) /\ Cached(p) \cap bs \in SUBSET Cached(p)
    BY BlocksFinite DEF Cached
  <2>2. Cached(p) \ (Cached(p) \cap bs) = Cached(p) \ bs
    OBVIOUS
  <2>3. /\ Cardinality(Cached(p) \ (Cached(p) \cap bs)) = Cardinality(Cached(p)) - Cardinality(Cached(p) \cap bs)
        /\ Cardinality(Cached(p) \cap bs) <= Cardinality(Cached(p))
        /\ Cardinality(Cached(p) \cap bs) \in Nat /\ Cardinality(Cached(p)) \in Nat
    BY <2>1, CardMinus
  <2>4. p.prefix_cached = Cardinality(Cached(p))
    BY <1>0 DEF Shape
  <2>5. x4 = Cardinality(Cached(p)) - Cardinality(Cached(p) \cap bs)
    BY <1>10, <2>4
  <2>6. x4 \in Int
    BY <2>3, <2>5
  <2>7. x4 = Cardinality(Cached(p) \ bs)
    BY <2>2, <2>3, <2>5
  <2> QED BY <2>3, <2>4, <2>6, <2>7
<1>13. PICK c1, c2, c3 :
          /\ c1 = (Cardinality(Cached(p) \cap bs) <= p.prefix_cached)
          /\ c2 = (\A b \in bs : p1.retention_count[b] = 0)
          /\ c3 = (\A b \in bs : p.ref_cnt[b] = 0)
  OBVIOUS
<1>14. c1 = TRUE /\ c2 = TRUE /\ c3 = TRUE
  <2>1. \A b \in bs : p1.retention_count[b] = 0
    BY <1>0, <1>7, <1>9 DEF Shape, Bit
  <2>2. \A b \in bs : p.ref_cnt[b] = 0
    BY <1>7 DEF Idle
  <2> QED BY <1>12, <1>13, <2>1, <2>2
<1>15. PICK e : e = EvictCachedBlocks(p1, bs)
  OBVIOUS
<1>16. e = DebugCheck(Check([p1 EXCEPT !.block_hashes = x2, !.cache = x3, !.prefix_cached = x4], c1), c2)
  <2>1. {b \in bs : p1.block_hashes[b] # {}} = Cached(p) \cap bs
    BY <1>7, <1>9 DEF Cached, SameIndexes
  <2>2. p1.block_hashes = p.block_hashes /\ p1.cache = p.cache /\ p1.prefix_cached = p.prefix_cached
    BY <1>9 DEF SameIndexes
  <2> QED BY <1>10, <1>13, <1>15, <2>1, <2>2 DEF EvictCachedBlocks
<1>17. /\ e \in PoolRecord /\ e.block_hashes = x2 /\ e.cache = x3 /\ e.prefix_cached = x4
       /\ e.queue = rest /\ e.ref_cnt = p.ref_cnt
       /\ e.retained_block = p.retained_block /\ e.retention_count = p.retention_count
       /\ e.retained = p.retained /\ e.retained_free = p.retained_free
       /\ e.retained_hashes = p.retained_hashes /\ e.ok = p.ok /\ SameLeases(p, e)
  BY <1>9, <1>11, <1>12, <1>14, <1>16, PoolAssumption, ZenonT(30) DEF PoolRecord, Check, DebugCheck, SameLeases
<1>18. PICK got : got = AllocateFreeBlocks(p, n)
  OBVIOUS
<1>19. PICK q : q = DebugCheck([e EXCEPT !.ref_cnt = x5], c3)
  OBVIOUS
<1>20. got = [pool |-> q, some |-> TRUE, blocks |-> taken]
  <2>1. e.ref_cnt = p.ref_cnt
    BY <1>17
  <2> QED BY <1>3, <1>4, <1>8, <1>10, <1>13, <1>15, <1>18, <1>19, <2>1 DEF AllocateFreeBlocks
<1>21. /\ q \in PoolRecord /\ q.block_hashes = x2 /\ q.cache = x3 /\ q.prefix_cached = x4
       /\ q.queue = rest /\ q.ref_cnt = x5
       /\ q.retained_block = p.retained_block /\ q.retention_count = p.retention_count
       /\ q.retained = p.retained /\ q.retained_free = p.retained_free
       /\ q.retained_hashes = p.retained_hashes /\ q.ok = p.ok /\ SameLeases(p, q)
  BY <1>11, <1>14, <1>17, <1>19, PoolAssumption DEF PoolRecord, DebugCheck, SameLeases
<1>22. Idle(q) = Idle(p) \ bs /\ Pinned(q) = Pinned(p) /\ Cached(q) = Cached(p) \ bs
  BY <1>7, <1>10, <1>21 DEF Idle, Pinned, Cached
<1>23. Indexed(q)
  <2>1. \A b \in Block, h \in Hash : h \in x2[b] <=> b \in x3[h]
    BY <1>0, <1>1, <1>10 DEF Shape, Indexed
  <2>2. \A b \in Block : \A g, h \in x2[b] : g = h
    BY <1>0, <1>10 DEF Shape, Indexed
  <2>3. \A h \in Hash : p.retained_block[h] # NoBlock => h \in x2[p.retained_block[h]]
    <3>1. TAKE h \in Hash
    <3>2. HAVE p.retained_block[h] # NoBlock
    <3>3. p.retained_block[h] \in Pinned(p) /\ p.retained_block[h] \in Block
      BY <1>0, <3>2 DEF PoolRecord, Pinned
    <3>4. h \in p.block_hashes[p.retained_block[h]]
      BY <1>0, <3>2 DEF Shape, Indexed
    <3> QED BY <1>7, <1>10, <3>3, <3>4
  <2> QED BY <1>21, <2>1, <2>2, <2>3 DEF Indexed
<1>24. Shape(q)
  <2>1. (Idle(p) \ bs) \cap Pinned(p) = Idle(p) \cap Pinned(p)
    BY <1>7
  <2> QED BY <1>0, <1>5, <1>7, <1>12, <1>21, <1>22, <1>23, <2>1 DEF Shape
<1>25. PinsKnown(q)
  <2>1. SUFFICES ASSUME NEW h \in Hash
                 PROVE  p.retained_block[h] # NoBlock <=> h \in p.retained_hashes /\ x3[h] # {}
    BY <1>21 DEF PinsKnown
  <2>2. x3[h] \subseteq p.cache[h]
    BY <1>10
  <2>3. ASSUME p.retained_block[h] # NoBlock PROVE x3[h] # {}
    <3>1. PICK b \in Block : b = p.retained_block[h]
      BY <1>0, <2>3 DEF PoolRecord
    <3>2. h \in x2[b]
      BY <1>21, <1>23, <2>3, <3>1 DEF Indexed
    <3>3. b \in x3[h]
      BY <1>21, <1>23, <3>1, <3>2 DEF Indexed
    <3> QED BY <3>3
  <2>4. p.retained_block[h] # NoBlock <=> h \in p.retained_hashes /\ p.cache[h] # {}
    BY <1>0 DEF PinsKnown
  <2> QED BY <2>2, <2>3, <2>4
<1>26. PoolInv(q)
  <2>1. LeasesCounted(q)
    BY <1>0, <1>21, LeasesSame DEF SameLeases
  <2>2. (~q.dirty => CaughtUp(q)) /\ (q.dirty => Lease # {})
    BY <1>0, <1>21 DEF CaughtUp, SameLeases
  <2> QED BY <1>0, <1>21, <1>24, <1>25, <2>1, <2>2, PoolInvIs
<1>27. Allocated(p, q, taken)
  BY <1>4, <1>5, <1>7, <1>10, <1>21 DEF Allocated
<1>28. got.pool = q /\ got.some /\ got.blocks = taken
  BY <1>20
<1> QED BY <1>3, <1>6, <1>18, <1>21, <1>26, <1>27, <1>28 DEF SameLeases

\* Without leases nothing is pinned.
LEMMA NoLeaseNoPin ==
  ASSUME NEW p, PoolInv(p), Lease = {}
  PROVE  p.entries = << >> /\ Revoking(p) /\ ~p.dirty
<1>1. p.entries \in Seq(LeaseEntry) /\ ~p.dirty
  BY PoolInvIs DEF PoolRecord
<1>2. LeaseEntry = {}
  BY DEF LeaseEntry
<1>3. ToSet(p.entries) = {}
  BY <1>1, <1>2, MembersHavePositions
<1>4. p.entries = << >>
  BY <1>1, <1>3, NonemptyQueue
<1> QED BY <1>1, <1>4, PoolInvIs DEF Revoking

\* The oldest k leases are gone, and that is noted.
LeasesRevoked(p, q) ==
    \E k \in 0..Len(p.entries) :
        /\ q.entries = SubSeq(p.entries, k + 1, Len(p.entries))
        /\ q.revoked = (p.revoked \/ k > 0)

\* Leases that stay as they are have none revoked.
LEMMA NoLeaseRevoked ==
  ASSUME NEW p \in PoolRecord, NEW q, q.entries = p.entries, q.revoked = p.revoked
  PROVE  LeasesRevoked(p, q)
<1>1. p.entries \in Seq(LeaseEntry) /\ p.revoked \in BOOLEAN
  BY DEF PoolRecord
<1>2. 0 \in 0..Len(p.entries) /\ SubSeq(p.entries, 0 + 1, Len(p.entries)) = p.entries
  BY <1>1
<1>3. q.revoked = (p.revoked \/ 0 > 0)
  BY <1>1
<1> QED BY <1>2, <1>3 DEF LeasesRevoked

\* get_new_blocks fails only when there are not enough free blocks.
LEMMA GetNewBlocksKeeps ==
  ASSUME DebugAssertions \/ Lease = {},
         NEW p, PoolInv(p), NEW n \in Nat, NEW got \in GetNewBlocks(p, n)
  PROVE  /\ n > NumFree(p) => got.pool = p /\ ~got.some
         /\ n <= NumFree(p) => /\ got.some /\ PoolInv(got.pool) /\ Len(got.blocks) = n
                               /\ Allocated(p, got.pool, got.blocks)
                               /\ LeasesRevoked(p, got.pool)
<1>0. p \in PoolRecord /\ Shape(p)
  BY PoolInvIs
<1>00. NumFree(p) \in Nat /\ NumFree(p) = Cardinality(Idle(p))
  <2>1. Cardinality(Idle(p)) \in Nat
    BY BlocksFinite DEF Idle
  <2> QED BY <1>0, <2>1, FreeIsIdle
<1>1. CASE n > NumFree(p)
  <2>1. got = NotAllocated(p)
    BY <1>1 DEF GetNewBlocks
  <2> QED BY <1>00, <1>1, <2>1 DEF NotAllocated
<1>2. CASE n <= NumFree(p) /\ Lease = {}
  <2>1. ~(n > NumFree(p))
    BY <1>00, <1>2
  <2>2. got = AllocateFreeBlocks(p, n)
    BY <1>2, <2>1 DEF GetNewBlocks
  <2>3. Len(p.queue) = NumFree(p)
    BY <1>2, NoLeaseNoPin, NothingPinned
  <2>4. n \in 0..Len(p.queue)
    BY <1>00, <1>2, <2>3
  <2>5. /\ got.some /\ PoolInv(got.pool) /\ Allocated(p, got.pool, got.blocks) /\ Len(got.blocks) = n
        /\ got.pool.entries = p.entries /\ got.pool.revoked = p.revoked
    BY <2>2, <2>4, AllocateFreeKeeps
  <2>6. LeasesRevoked(p, got.pool)
    BY <1>0, <2>5, NoLeaseRevoked
  <2> QED BY <2>1, <2>5, <2>6
<1>3. CASE n <= NumFree(p) /\ Lease # {}
  <2>1. ~(n > NumFree(p)) /\ DebugAssertions
    BY <1>00, <1>3
  <2>2. PICK s \in SyncRetention(p) :
           got = LET q == RevokeForPressure(s, n)
                 IN  IF n > Len(q.queue) THEN NotAllocated(q) ELSE AllocateFreeBlocks(q, n)
    BY <1>3, <2>1 DEF GetNewBlocks
  <2>3. /\ PoolInv(s) /\ CaughtUp(s) /\ s.ref_cnt = p.ref_cnt /\ SameIndexes(p, s)
        /\ s.entries = p.entries /\ s.revoked = p.revoked
    BY SyncKeeps
  <2>4. NumFree(s) = NumFree(p)
    <3>1. s \in PoolRecord /\ Shape(s)
      BY <2>3, PoolInvIs
    <3>2. Idle(s) = Idle(p)
      BY <2>3 DEF Idle
    <3> QED BY <1>00, <3>1, <3>2, FreeIsIdle
  <2>5. PICK q : q = RevokeForPressure(s, n)
    OBVIOUS
  <2>6. n <= NumFree(s)
    BY <1>3, <2>4
  <2>7. /\ PoolInv(q) /\ q.ref_cnt = s.ref_cnt /\ SameIndexes(s, q) /\ n <= Len(q.queue)
        /\ \E k \in 0..Len(s.entries) :
              /\ q.entries = SubSeq(s.entries, k + 1, Len(s.entries))
              /\ q.revoked = (s.revoked \/ k > 0)
    BY <2>1, <2>3, <2>5, <2>6, RevokeForPressureKeeps
  <2>8. q.queue \in Seq(Block)
    BY <2>7, PoolInvIs DEF PoolRecord
  <2>9. n \in 0..Len(q.queue) /\ ~(n > Len(q.queue))
    BY <2>7, <2>8
  <2>10. got = AllocateFreeBlocks(q, n)
    BY <2>2, <2>5, <2>9
  <2>11. /\ got.some /\ PoolInv(got.pool) /\ Allocated(q, got.pool, got.blocks) /\ Len(got.blocks) = n
         /\ got.pool.entries = q.entries /\ got.pool.revoked = q.revoked
    BY <2>7, <2>9, <2>10, AllocateFreeKeeps
  <2>12. Allocated(p, got.pool, got.blocks)
    BY <2>3, <2>7, <2>11 DEF Allocated, Idle, SameIndexes
  <2>13. LeasesRevoked(p, got.pool)
    BY <2>3, <2>7, <2>11 DEF LeasesRevoked
  <2> QED BY <2>1, <2>11, <2>12, <2>13
<1> QED BY <1>00, <1>1, <1>2, <1>3

-----------------------------------------------------------------------------
(* Sharing and release. *)

\* A row without repetition lists a block once or not at all.
LEMMA ListedOnce ==
  ASSUME NEW bs \in Seq(Block), IsInjective(bs), NEW b
  PROVE  Listed(bs, b) = IF b \in ToSet(bs) THEN 1 ELSE 0
<1>1. PICK S : S = {i \in 1..Len(bs) : bs[i] = b}
  OBVIOUS
<1>2. \A i, j \in S : i = j
  BY <1>1, InjectiveByPositions
<1>3. Cardinality(S) = Bit(S # {})
  BY <1>2, CardAtMostOne
<1>4. S # {} <=> b \in ToSet(bs)
  BY <1>1, MembersHavePositions
<1>5. Listed(bs, b) = Cardinality(S)
  BY <1>1 DEF Listed
<1> QED BY <1>3, <1>4, <1>5 DEF Bit

\* What an operation on references leaves alone.
SameCaches(p, q) ==
    /\ SameIndexes(p, q) /\ q.entries = p.entries /\ q.revoked = p.revoked

\* touch: every block of bs has one reference more.
LEMMA TouchKeeps ==
  ASSUME NEW p, PoolInv(p), NEW bs \in Seq(Block), IsInjective(bs), NEW q \in Touch(p, bs)
  PROVE  /\ PoolInv(q) /\ SameCaches(p, q)
         /\ \A b \in Block : q.ref_cnt[b] = IF b \in ToSet(bs) THEN p.ref_cnt[b] + 1 ELSE p.ref_cnt[b]
         /\ Lease = {} => \A a, b : Ahead(q.queue, a, b) => Ahead(p.queue, a, b)
<1>1. PICK s \in SyncRetention(p) : q = TouchBlocks(s, bs)
  BY DEF Touch
<1>2. /\ PoolInv(s) /\ CaughtUp(s) /\ ~s.dirty /\ s.ref_cnt = p.ref_cnt /\ SameIndexes(p, s)
      /\ s.entries = p.entries /\ s.revoked = p.revoked
  BY SyncKeeps
<1>3. /\ s \in PoolRecord /\ s.ok /\ Shape(s) /\ LeasesCounted(s) /\ PinsKnown(s)
  BY <1>2, PoolInvIs
<1>4. /\ s.queue \in Seq(Block) /\ s.ref_cnt \in [Block -> Nat] /\ s.retained_free \in Int /\ s.ok \in BOOLEAN
  BY <1>3 DEF PoolRecord
<1>5. PICK B \in SUBSET Block : B = ToSet(bs)
  BY MembersHavePositions
<1>6. PICK held : held = B \cap Idle(s) \cap Pinned(s)
  OBVIOUS
<1>7. PICK lone : lone = (B \cap Idle(s)) \ held
  OBVIOUS
<1>8. {b \in ToSet(bs) : s.ref_cnt[b] = 0} = B \cap Idle(s)
  BY <1>5 DEF Idle
<1>9. {b \in B \cap Idle(s) : s.retention_count[b] > 0} = held
  <2>1. \A b \in Block : s.retention_count[b] > 0 <=> b \in Pinned(s)
    BY <1>3 DEF Shape, Bit
  <2> QED BY <1>6, <2>1
<1>10. PICK x1, x2, x3, c : /\ x1 = [b \in Block |-> s.ref_cnt[b] + Listed(bs, b)]
                            /\ x2 = s.retained_free - Cardinality(held)
                            /\ x3 = Keep(s.queue, Block \ lone)
                            /\ c = (lone \subseteq ToSet(s.queue) /\ Cardinality(held) <= s.retained_free)
  OBVIOUS
<1>11. q = Check([s EXCEPT !.ref_cnt = x1, !.retained_free = x2, !.queue = x3], c)
  BY <1>1, <1>7, <1>8, <1>9, <1>10 DEF TouchBlocks
<1>12. \A b \in Block : x1[b] = IF b \in B THEN s.ref_cnt[b] + 1 ELSE s.ref_cnt[b]
  <2>1. TAKE b \in Block
  <2>2. Listed(bs, b) = IF b \in B THEN 1 ELSE 0
    BY <1>5, ListedOnce
  <2>3. x1[b] = s.ref_cnt[b] + Listed(bs, b)
    BY <1>10
  <2> QED BY <1>4, <2>2, <2>3
<1>13. x1 \in [Block -> Nat]
  <2>1. x1 = [b \in Block |-> x1[b]]
    BY <1>10
  <2>2. ASSUME NEW b \in Block PROVE x1[b] \in Nat
    <3>1. s.ref_cnt[b] \in Nat
      BY <1>4
    <3>2. x1[b] = s.ref_cnt[b] + 1 \/ x1[b] = s.ref_cnt[b]
      BY <1>12
    <3> QED BY <3>1, <3>2
  <2> QED BY <2>1, <2>2
<1>14. /\ x2 \in Int /\ Cardinality(held) <= s.retained_free
       /\ x2 = Cardinality((Idle(s) \ B) \cap Pinned(s))
  <2>1. IsFiniteSet(Idle(s) \cap Pinned(s)) /\ held \in SUBSET (Idle(s) \cap Pinned(s))
    BY <1>6, BlocksFinite DEF Idle
  <2>2. (Idle(s) \cap Pinned(s)) \ held = (Idle(s) \ B) \cap Pinned(s)
    BY <1>6
  <2>3. PICK A : A = Idle(s) \cap Pinned(s)
    OBVIOUS
  <2>4. /\ Cardinality(A \ held) = Cardinality(A) - Cardinality(held) /\ Cardinality(held) <= Cardinality(A)
        /\ Cardinality(A) \in Nat /\ Cardinality(held) \in Nat
    BY <2>1, <2>3, CardMinus
  <2>5. s.retained_free = Cardinality(A)
    BY <1>3, <2>3 DEF Shape
  <2>6. x2 = Cardinality(A) - Cardinality(held)
    BY <1>10, <2>5
  <2>7. x2 = Cardinality(A \ held)
    BY <2>4, <2>6
  <2>8. A \ held = (Idle(s) \ B) \cap Pinned(s)
    BY <2>2, <2>3
  <2>9. x2 \in Int /\ Cardinality(held) <= s.retained_free
    BY <2>4, <2>5, <2>6
  <2> QED BY <2>7, <2>8, <2>9
<1>15. x3 \in Seq(Block) /\ IsInjective(x3) /\ ToSet(x3) = (Idle(s) \ B) \ Pinned(s)
  <2>1. IsInjective(s.queue) /\ ToSet(s.queue) = Idle(s) \ Pinned(s)
    BY <1>3 DEF Shape
  <2>2. x3 \in Seq(Block) /\ IsInjective(x3) /\ ToSet(x3) = ToSet(s.queue) \cap (Block \ lone)
    BY <1>4, <1>10, <2>1, KeepProperties
  <2>3. ToSet(x3) = (Idle(s) \ B) \ Pinned(s)
    BY <1>6, <1>7, <2>1, <2>2 DEF Idle
  <2> QED BY <2>2, <2>3
<1>16. c = TRUE
  <2>1. lone \subseteq ToSet(s.queue)
    BY <1>3, <1>6, <1>7 DEF Shape
  <2> QED BY <1>10, <1>14, <2>1
<1>17. /\ q \in PoolRecord /\ q.ref_cnt = x1 /\ q.retained_free = x2 /\ q.queue = x3 /\ q.ok = s.ok
       /\ SameIndexes(s, q) /\ SameLeases(s, q) /\ q.retained_hashes = s.retained_hashes
       /\ q.retained_block = s.retained_block /\ q.retention_count = s.retention_count /\ q.retained = s.retained
  BY <1>3, <1>4, <1>11, <1>13, <1>14, <1>15, <1>16 DEF Check, PoolRecord, SameIndexes, SameLeases
<1>18. Idle(q) = Idle(s) \ B /\ Pinned(q) = Pinned(s) /\ Cached(q) = Cached(s)
  <2>1. \A b \in Block : x1[b] = 0 <=> s.ref_cnt[b] = 0 /\ b \notin B
    BY <1>4, <1>12
  <2> QED BY <1>17, <2>1 DEF Idle, Pinned, Cached, SameIndexes
<1>19. Shape(q)
  <2>1. Indexed(q)
    BY <1>3, <1>17 DEF Shape, Indexed, SameIndexes
  <2> QED BY <1>3, <1>14, <1>15, <1>17, <1>18, <2>1 DEF Shape, SameIndexes
<1>20. PoolInv(q)
  <2>1. LeasesCounted(q)
    BY <1>3, <1>17, LeasesSame DEF SameLeases
  <2>2. CaughtUp(q) /\ ~q.dirty /\ PinsKnown(q)
    BY <1>2, <1>3, <1>17 DEF CaughtUp, SameLeases, PinsKnown, SameIndexes
  <2> QED BY <1>3, <1>17, <1>19, <2>1, <2>2, PoolInvIs
<1>21. SameCaches(p, q)
  BY <1>2, <1>17 DEF SameCaches, SameIndexes, SameLeases
<1>22. \A b \in Block : q.ref_cnt[b] = IF b \in ToSet(bs) THEN p.ref_cnt[b] + 1 ELSE p.ref_cnt[b]
  BY <1>2, <1>5, <1>12, <1>17
<1>23. ASSUME Lease = {}, NEW a, NEW b, Ahead(q.queue, a, b) PROVE Ahead(p.queue, a, b)
  <2>1. s = p
    BY <1>23, NoLeaseNoPin DEF SyncRetention
  <2> QED BY <1>4, <1>10, <1>17, <1>23, <2>1, AheadInKeep
<1> QED BY <1>20, <1>21, <1>22, <1>23

\* free_blocks: every block of bs has one reference less; a pool without
\* leases puts those that are left idle behind the free queue.
LEMMA FreeBlocksKeeps ==
  ASSUME NEW p, PoolInv(p), NEW bs \in Seq(Block), IsInjective(bs),
         \A b \in ToSet(bs) : p.ref_cnt[b] > 0, NEW q \in FreeBlocks(p, bs)
  PROVE  /\ PoolInv(q) /\ SameCaches(p, q)
         /\ \A b \in Block : q.ref_cnt[b] = IF b \in ToSet(bs) THEN p.ref_cnt[b] - 1 ELSE p.ref_cnt[b]
         /\ Lease = {} => \E S \in SUBSET Block : q.queue = p.queue \o Keep(Keep(bs, ToSet(bs)), S)
<1>1. PICK s \in SyncRetention(p) : q = ReleaseBlocks(s, bs, {b \in Block : s.retention_count[b] > 0})
  BY DEF FreeBlocks
<1>2. /\ PoolInv(s) /\ CaughtUp(s) /\ ~s.dirty /\ s.ref_cnt = p.ref_cnt /\ SameIndexes(p, s)
      /\ s.entries = p.entries /\ s.revoked = p.revoked
  BY SyncKeeps
<1>3. /\ s \in PoolRecord /\ s.ok /\ Shape(s) /\ LeasesCounted(s) /\ PinsKnown(s)
  BY <1>2, PoolInvIs
<1>4. /\ s.queue \in Seq(Block) /\ s.ref_cnt \in [Block -> Nat] /\ s.retained_free \in Int /\ s.ok \in BOOLEAN
  BY <1>3 DEF PoolRecord
<1>5. PICK B \in SUBSET Block : B = ToSet(bs)
  BY MembersHavePositions
<1>6. PICK I : I = {b \in B : s.ref_cnt[b] = 1}
  OBVIOUS
<1>7. {b \in Block : s.retention_count[b] > 0} = Pinned(s)
  <2>1. \A b \in Block : s.retention_count[b] > 0 <=> b \in Pinned(s)
    BY <1>3 DEF Shape, Bit
  <2> QED BY <2>1 DEF Pinned
<1>8. \A b \in Block : Listed(bs, b) = IF b \in B THEN 1 ELSE 0
  BY <1>5, ListedOnce
<1>9. {b \in ToSet(bs) : s.ref_cnt[b] = Listed(bs, b)} = I
  BY <1>5, <1>6, <1>8
<1>10. PICK back : back = Keep(Firsts(bs), I \ Pinned(s))
  OBVIOUS
<1>11. PICK x1, x2, x3, c : /\ x1 = [b \in Block |-> s.ref_cnt[b] - Listed(bs, b)]
                            /\ x2 = s.retained_free + Cardinality(I \cap Pinned(s))
                            /\ x3 = s.queue \o back
                            /\ c = (\A b \in ToSet(bs) : s.ref_cnt[b] >= Listed(bs, b))
  OBVIOUS
<1>12. q = Check([s EXCEPT !.ref_cnt = x1, !.retained_free = x2, !.queue = x3], c)
  BY <1>1, <1>7, <1>9, <1>10, <1>11 DEF ReleaseBlocks
<1>13. \A b \in B : s.ref_cnt[b] > 0
  BY <1>2, <1>5
<1>14. \A b \in Block : x1[b] = IF b \in B THEN s.ref_cnt[b] - 1 ELSE s.ref_cnt[b]
  <2>1. TAKE b \in Block
  <2>2. x1[b] = s.ref_cnt[b] - Listed(bs, b)
    BY <1>11
  <2> QED BY <1>4, <1>8, <2>2
<1>15. x1 \in [Block -> Nat]
  <2>1. x1 = [b \in Block |-> x1[b]]
    BY <1>11
  <2>2. \A b \in Block : x1[b] \in Nat
    BY <1>4, <1>13, <1>14
  <2> QED BY <2>1, <2>2
<1>16. I \cap Idle(s) = {} /\ I \subseteq B
  BY <1>6 DEF Idle
<1>17. /\ x2 \in Int /\ x2 = Cardinality((Idle(s) \cup I) \cap Pinned(s))
  <2>1. /\ IsFiniteSet(Idle(s) \cap Pinned(s)) /\ IsFiniteSet(I \cap Pinned(s))
        /\ (Idle(s) \cap Pinned(s)) \cap (I \cap Pinned(s)) = {}
    BY <1>16, BlocksFinite DEF Pinned
  <2>2. (Idle(s) \cap Pinned(s)) \cup (I \cap Pinned(s)) = (Idle(s) \cup I) \cap Pinned(s)
    OBVIOUS
  <2>3. PICK A, C : A = Idle(s) \cap Pinned(s) /\ C = I \cap Pinned(s)
    OBVIOUS
  <2>4. Cardinality(A \cup C) = Cardinality(A) + Cardinality(C) /\ Cardinality(A) \in Nat /\ Cardinality(C) \in Nat
    BY <2>1, <2>3, CardPlus
  <2>5. s.retained_free = Cardinality(A)
    BY <1>3, <2>3 DEF Shape
  <2>6. x2 = Cardinality(A) + Cardinality(C)
    BY <1>11, <2>3, <2>5
  <2>7. x2 = Cardinality(A \cup C) /\ x2 \in Int
    BY <2>4, <2>6
  <2>8. A \cup C = (Idle(s) \cup I) \cap Pinned(s)
    BY <2>2, <2>3
  <2> QED BY <2>7, <2>8
<1>18. Firsts(bs) = Keep(bs, ToSet(bs))
  BY FirstsOfInjective
<1>19. back \in Seq(Block) /\ IsInjective(back) /\ ToSet(back) = I \ Pinned(s)
  <2>1. PICK k : k = Keep(bs, ToSet(bs))
    OBVIOUS
  <2>2. k \in Seq(Block) /\ IsInjective(k) /\ ToSet(k) = ToSet(bs) \cap ToSet(bs)
    BY <2>1, KeepProperties
  <2>3. back = Keep(k, I \ Pinned(s))
    BY <1>10, <1>18, <2>1
  <2>4. back \in Seq(Block) /\ IsInjective(back) /\ ToSet(back) = ToSet(k) \cap (I \ Pinned(s))
    BY <2>2, <2>3, KeepProperties
  <2> QED BY <1>5, <1>16, <2>2, <2>4
<1>20. x3 \in Seq(Block) /\ IsInjective(x3) /\ ToSet(x3) = (Idle(s) \cup I) \ Pinned(s)
  <2>1. IsInjective(s.queue) /\ ToSet(s.queue) = Idle(s) \ Pinned(s)
    BY <1>3 DEF Shape
  <2>2. ToSet(s.queue) \cap ToSet(back) = {}
    BY <1>16, <1>19, <2>1
  <2>3. x3 \in Seq(Block)
    BY <1>4, <1>11, <1>19
  <2>4. ToSet(x3) = ToSet(s.queue) \cup ToSet(back)
    BY <1>4, <1>11, <1>19, ConcatIsUnion
  <2>5. IsInjective(x3)
    BY <1>4, <1>11, <1>19, <2>1, <2>2, ConcatInjective
  <2> QED BY <1>19, <2>1, <2>3, <2>4, <2>5
<1>21. c = TRUE
  <2>1. \A b \in ToSet(bs) : s.ref_cnt[b] >= Listed(bs, b)
    BY <1>4, <1>5, <1>8, <1>13
  <2> QED BY <1>11, <2>1
<1>22. /\ q \in PoolRecord /\ q.ref_cnt = x1 /\ q.retained_free = x2 /\ q.queue = x3 /\ q.ok = s.ok
       /\ SameIndexes(s, q) /\ SameLeases(s, q) /\ q.retained_hashes = s.retained_hashes
       /\ q.retained_block = s.retained_block /\ q.retention_count = s.retention_count /\ q.retained = s.retained
  BY <1>3, <1>4, <1>12, <1>15, <1>17, <1>20, <1>21 DEF Check, PoolRecord, SameIndexes, SameLeases
<1>23. Idle(q) = Idle(s) \cup I /\ Pinned(q) = Pinned(s) /\ Cached(q) = Cached(s)
  <2>1. \A b \in Block : x1[b] = 0 <=> s.ref_cnt[b] = 0 \/ b \in I
    BY <1>4, <1>6, <1>13, <1>14
  <2>2. I \subseteq Block
    BY <1>16
  <2> QED BY <1>22, <2>1, <2>2 DEF Idle, Pinned, Cached, SameIndexes
<1>24. Shape(q)
  <2>1. Indexed(q)
    BY <1>3, <1>22 DEF Shape, Indexed, SameIndexes
  <2> QED BY <1>3, <1>17, <1>20, <1>22, <1>23, <2>1 DEF Shape, SameIndexes
<1>25. PoolInv(q)
  <2>1. LeasesCounted(q)
    BY <1>3, <1>22, LeasesSame DEF SameLeases
  <2>2. CaughtUp(q) /\ ~q.dirty /\ PinsKnown(q)
    BY <1>2, <1>3, <1>22 DEF CaughtUp, SameLeases, PinsKnown, SameIndexes
  <2> QED BY <1>3, <1>22, <1>24, <2>1, <2>2, PoolInvIs
<1>26. SameCaches(p, q)
  BY <1>2, <1>22 DEF SameCaches, SameIndexes, SameLeases
<1>27. \A b \in Block : q.ref_cnt[b] = IF b \in ToSet(bs) THEN p.ref_cnt[b] - 1 ELSE p.ref_cnt[b]
  BY <1>2, <1>5, <1>14, <1>22
<1>28. ASSUME Lease = {} PROVE \E S \in SUBSET Block : q.queue = p.queue \o Keep(Keep(bs, ToSet(bs)), S)
  <2>1. ~p.dirty
    BY <1>28, NoLeaseNoPin
  <2>2. s = p
    BY <2>1 DEF SyncRetention
  <2>3. I \ Pinned(s) \in SUBSET Block
    BY <1>16
  <2>4. q.queue = p.queue \o Keep(Keep(bs, ToSet(bs)), I \ Pinned(s))
    BY <1>10, <1>11, <1>18, <1>22, <2>2
  <2> QED BY <2>3, <2>4
<1> QED BY <1>25, <1>26, <1>27, <1>28

-----------------------------------------------------------------------------
(* Publishing and reset. *)

\* The blocks bs[i] with i in new, which carry no key, get the keys hs[i].
Published(p, q, bs, hs, new) ==
    /\ \A i \in new : q.block_hashes[bs[i]] = {hs[i]}
    /\ \A b \in Block : b \notin {bs[i] : i \in new} => q.block_hashes[b] = p.block_hashes[b]

KeysAdded(p, q, bs, hs, new) ==
    /\ q \in PoolRecord /\ Shape(q) /\ q.ok = p.ok /\ SameLeases(p, q)
    /\ q.ref_cnt = p.ref_cnt /\ q.retained_hashes = p.retained_hashes
    /\ q.retained_block = p.retained_block /\ q.queue = p.queue
    /\ Published(p, q, bs, hs, new)
    /\ \A h \in Hash : /\ p.cache[h] \subseteq q.cache[h]
                       /\ q.cache[h] = p.cache[h] \/ \E i \in new : hs[i] = h

\* Publishing gives blocks in use their hashes in every index.
LEMMA PublishKeeps ==
  ASSUME NEW p \in PoolRecord, Shape(p),
         NEW bs \in Seq(Block), IsInjective(bs), NEW hs \in Seq(Hash),
         NEW new, new \subseteq 1..Len(bs), new \subseteq 1..Len(hs),
         \A i \in new : p.block_hashes[bs[i]] = {}
  PROVE  KeysAdded(p, PublishBlocks(p, bs, hs, new), bs, hs, new)
<1> DEFINE Added(b) == {hs[i] : i \in {j \in new : bs[j] = b}}
           q == PublishBlocks(p, bs, hs, new)
<1>1. PICK N \in SUBSET Block : N = {bs[i] : i \in new}
  <2>1. \A i \in new : bs[i] \in Block
    OBVIOUS
  <2>2. {bs[i] : i \in new} \in SUBSET Block
    BY <2>1
  <2> QED BY <2>2
<1>2. \A i, j \in new : bs[i] = bs[j] => i = j
  BY InjectiveByPositions
<1>3. \A i \in new : Added(bs[i]) = {hs[i]}
  BY <1>2
<1>4. \A b \in Block : (Added(b) # {} <=> b \in N) /\ Added(b) \subseteq Hash
  BY <1>1
<1>5. PICK f : f = {b \in Block : p.block_hashes[b] = {} /\ Added(b) # {}}
  OBVIOUS
<1>6. f = N /\ N \cap Cached(p) = {}
  BY <1>1, <1>4, <1>5 DEF Cached
<1>7. PICK x1, x2, x3 : /\ x1 = p.prefix_cached + Cardinality(f)
                        /\ x2 = [b \in Block |-> p.block_hashes[b] \cup Added(b)]
                        /\ x3 = [h \in Hash |-> p.cache[h] \cup {b \in Block : h \in Added(b)}]
  OBVIOUS
<1>8. q = [p EXCEPT !.prefix_cached = x1, !.block_hashes = x2, !.cache = x3]
  BY <1>5, <1>7 DEF PublishBlocks
<1>9. /\ p.prefix_cached \in Int /\ p.block_hashes \in [Block -> SUBSET Hash] /\ p.cache \in [Hash -> SUBSET Block]
  BY DEF PoolRecord
<1>10. x2 \in [Block -> SUBSET Hash] /\ x3 \in [Hash -> SUBSET Block]
  <2>1. \A b \in Block : p.block_hashes[b] \cup Added(b) \in SUBSET Hash
    BY <1>4, <1>9
  <2>2. \A h \in Hash : p.cache[h] \cup {b \in Block : h \in Added(b)} \in SUBSET Block
    BY <1>9
  <2> HIDE DEF Added
  <2> QED BY <1>7, <2>1, <2>2
<1>11. /\ \A b \in Block : x2[b] = p.block_hashes[b] \cup Added(b)
       /\ \A h \in Hash : x3[h] = p.cache[h] \cup {b \in Block : h \in Added(b)}
  <2> HIDE DEF Added
  <2> QED BY <1>7
<1>12. x1 \in Int /\ x1 = Cardinality(Cached(p) \cup N)
  <2>1. IsFiniteSet(Cached(p)) /\ IsFiniteSet(N) /\ Cached(p) \cap N = {}
    BY <1>6, BlocksFinite DEF Cached
  <2>2. PICK A : A = Cached(p)
    OBVIOUS
  <2>3. Cardinality(A \cup N) = Cardinality(A) + Cardinality(N) /\ Cardinality(A) \in Nat /\ Cardinality(N) \in Nat
    BY <2>1, <2>2, CardPlus
  <2>4. p.prefix_cached = Cardinality(A)
    BY <2>2 DEF Shape
  <2>5. x1 = Cardinality(A) + Cardinality(N)
    BY <1>6, <1>7, <2>4
  <2> QED BY <2>2, <2>3, <2>5
<1>13. /\ q \in PoolRecord /\ q.prefix_cached = x1 /\ q.block_hashes = x2 /\ q.cache = x3
       /\ q.ok = p.ok /\ SameLeases(p, q) /\ q.ref_cnt = p.ref_cnt /\ q.retained_hashes = p.retained_hashes
       /\ q.retained_block = p.retained_block /\ q.retention_count = p.retention_count
       /\ q.retained = p.retained /\ q.retained_free = p.retained_free /\ q.queue = p.queue
  <2>1. PICK z : z = q
    OBVIOUS
  <2>2. z = [p EXCEPT !.prefix_cached = x1, !.block_hashes = x2, !.cache = x3]
    BY <1>8, <2>1
  <2> HIDE DEF q
  <2>3. /\ z \in PoolRecord /\ z.prefix_cached = x1 /\ z.block_hashes = x2 /\ z.cache = x3
        /\ z.ok = p.ok /\ SameLeases(p, z) /\ z.ref_cnt = p.ref_cnt /\ z.retained_hashes = p.retained_hashes
        /\ z.retained_block = p.retained_block /\ z.retention_count = p.retention_count
        /\ z.retained = p.retained /\ z.retained_free = p.retained_free /\ z.queue = p.queue
    BY <1>10, <1>12, <2>2 DEF PoolRecord, SameLeases
  <2> QED BY <2>1, <2>3
<1> HIDE DEF q
<1>14. Idle(q) = Idle(p) /\ Pinned(q) = Pinned(p) /\ Cached(q) = Cached(p) \cup N
  <2>1. \A b \in Block : x2[b] # {} <=> p.block_hashes[b] # {} \/ b \in N
    BY <1>4, <1>11
  <2> HIDE DEF Added
  <2>2. Cached(q) = Cached(p) \cup N
    BY <1>13, <2>1 DEF Cached
  <2>3. Idle(q) = Idle(p)
    BY <1>13 DEF Idle
  <2>4. Pinned(q) = Pinned(p)
    BY <1>13 DEF Pinned
  <2> QED BY <2>2, <2>3, <2>4
<1>15. Published(p, q, bs, hs, new)
  <2>1. ASSUME NEW i \in new PROVE q.block_hashes[bs[i]] = {hs[i]}
    <3>1. Added(bs[i]) = {hs[i]}
      BY <1>3
    <3>2. bs[i] \in Block /\ p.block_hashes[bs[i]] = {}
      OBVIOUS
    <3> HIDE DEF Added
    <3> QED BY <1>11, <1>13, <3>1, <3>2
  <2>2. ASSUME NEW b \in Block, b \notin N PROVE q.block_hashes[b] = p.block_hashes[b]
    <3>1. Added(b) = {}
      BY <1>4, <2>2
    <3> HIDE DEF Added
    <3> QED BY <1>11, <1>13, <3>1
  <2> QED BY <1>1, <2>1, <2>2 DEF Published
<1>16. ASSUME NEW h \in Hash
       PROVE  p.cache[h] \subseteq q.cache[h] /\ (q.cache[h] = p.cache[h] \/ \E i \in new : hs[i] = h)
  <2>1. (\E i \in new : hs[i] = h) \/ {b \in Block : h \in Added(b)} = {}
    OBVIOUS
  <2> HIDE DEF Added
  <2> QED BY <1>11, <1>13, <2>1, ZenonT(30)
<1>17. Indexed(q)
  <2>1. \A b \in Block, h \in Hash : h \in q.block_hashes[b] <=> b \in q.cache[h]
    <3>1. \A b \in Block, h \in Hash : h \in p.block_hashes[b] <=> b \in p.cache[h]
      BY DEF Shape, Indexed
    <3> HIDE DEF Added
    <3> QED BY <1>11, <1>13, <3>1
  <2>2. \A b \in Block : \A g, h \in q.block_hashes[b] : g = h
    <3>1. \A b \in Block : \A g, h \in p.block_hashes[b] : g = h
      BY DEF Shape, Indexed
    <3>2. ASSUME NEW b \in Block PROVE \A g, h \in q.block_hashes[b] : g = h
      <4>1. CASE b \in N
        <5>1. PICK i \in new : b = bs[i]
          BY <1>1, <4>1
        <5> QED BY <1>15, <5>1 DEF Published
      <4>2. CASE b \notin N
        BY <1>1, <1>15, <3>1, <4>2 DEF Published
      <4> QED BY <4>1, <4>2
    <3> QED BY <3>2
  <2>3. \A h \in Hash : q.retained_block[h] # NoBlock => h \in q.block_hashes[q.retained_block[h]]
    <3>1. \A h \in Hash : p.retained_block[h] # NoBlock => h \in p.block_hashes[p.retained_block[h]] /\ p.retained_block[h] \in Block
      BY DEF Shape, Indexed, PoolRecord
    <3> HIDE DEF Added
    <3> QED BY <1>11, <1>13, <3>1
  <2> QED BY <2>1, <2>2, <2>3 DEF Indexed
<1>18. Shape(q)
  BY <1>12, <1>13, <1>14, <1>17 DEF Shape
<1>19. KeysAdded(p, q, bs, hs, new)
  BY <1>13, <1>15, <1>16, <1>18 DEF KeysAdded
<1> QED BY <1>19 DEF q

\* cache_full_blocks for blocks that carry no key yet.
LEMMA CacheFullKeeps ==
  ASSUME NEW p, PoolInv(p), NEW bs \in Seq(Block), IsInjective(bs), NEW hs \in Seq(Hash),
         NEW from \in Nat, NEW to \in Nat, from < to, to <= Len(bs), to <= Len(hs),
         \A i \in (from + 1)..to : p.block_hashes[bs[i]] = {},
         NEW q \in CacheFullBlocks(p, bs, hs, from, to)
  PROVE  /\ PoolInv(q) /\ q.ref_cnt = p.ref_cnt /\ q.entries = p.entries /\ q.revoked = p.revoked
         /\ Published(p, q, bs, hs, (from + 1)..to)
         /\ Lease = {} => \A a, b : Ahead(q.queue, a, b) => Ahead(p.queue, a, b)
<1> DEFINE New(s) == {i \in (from + 1)..to : hs[i] \notin s.block_hashes[bs[i]]}
           Hashes(s) == {hs[i] : i \in New(s)} \cap s.retained_hashes
<1>1. PICK s \in SyncRetention(p) : q \in Reconcile(PublishBlocks(Check(s, Len(hs) >= to), bs, hs, New(s)), Hashes(s))
  <2>1. ~(from >= to)
    OBVIOUS
  <2>2. q \in UNION {Reconcile(PublishBlocks(Check(s, Len(hs) >= to), bs, hs, New(s)), Hashes(s)) : s \in SyncRetention(p)}
    BY <2>1 DEF CacheFullBlocks
  <2> HIDE DEF New, Hashes
  <2> QED BY <2>2
<1>2. /\ PoolInv(s) /\ CaughtUp(s) /\ ~s.dirty /\ s.ref_cnt = p.ref_cnt /\ SameIndexes(p, s)
      /\ s.entries = p.entries /\ s.revoked = p.revoked
  BY SyncKeeps
<1>3. /\ s \in PoolRecord /\ s.ok /\ Shape(s) /\ LeasesCounted(s) /\ PinsKnown(s)
  BY <1>2, PoolInvIs
<1>4. PICK new : new = (from + 1)..to
  OBVIOUS
<1>5. new \subseteq 1..Len(bs) /\ new \subseteq 1..Len(hs) /\ \A i \in new : s.block_hashes[bs[i]] = {}
  BY <1>2, <1>4 DEF SameIndexes
<1>6. New(s) = new
  BY <1>4, <1>5
<1>7. PICK H \in SUBSET Hash : H = {hs[i] : i \in new} \cap s.retained_hashes
  <2>1. s.retained_hashes \subseteq Hash
    BY <1>3 DEF PoolRecord
  <2> QED BY <2>1
<1>8. Check(s, Len(hs) >= to) = s
  <2>1. (Len(hs) >= to) = TRUE /\ s.ok \in BOOLEAN
    BY <1>3 DEF PoolRecord
  <2>2. [s EXCEPT !.ok = s.ok] = s
    BY <1>3 DEF PoolRecord
  <2>3. Check(s, TRUE) = [s EXCEPT !.ok = s.ok]
    BY <2>1 DEF Check
  <2> QED BY <2>1, <2>2, <2>3
<1>9. PICK u : u = PublishBlocks(s, bs, hs, new)
  OBVIOUS
<1>10. q \in Reconcile(u, H)
  BY <1>1, <1>6, <1>7, <1>8, <1>9
<1>11. /\ u \in PoolRecord /\ Shape(u) /\ u.ok = s.ok /\ SameLeases(s, u)
       /\ u.ref_cnt = s.ref_cnt /\ u.retained_hashes = s.retained_hashes
       /\ u.retained_block = s.retained_block
       /\ Published(s, u, bs, hs, new)
       /\ \A h \in Hash : /\ s.cache[h] \subseteq u.cache[h]
                          /\ u.cache[h] = s.cache[h] \/ \E i \in new : hs[i] = h
  <2>1. KeysAdded(s, PublishBlocks(s, bs, hs, new), bs, hs, new)
    BY <1>3, <1>5, PublishKeeps
  <2> QED BY <1>9, <2>1 DEF KeysAdded
<1>12. PICK W \in SUBSET Hash : W = {h \in H : u.retained_block[h] = NoBlock /\ u.cache[h] # {}}
  OBVIOUS
<1>13. PICK pick \in [W -> Block] : q = Pin(u, pick) /\ \A h \in W : pick[h] \in u.cache[h]
  BY <1>10, <1>12 DEF Reconcile
<1>14. Repinned(u, q) /\ PinsAdded(u, q, pick)
  BY <1>11, <1>12, <1>13, PinKeeps
<1>15. PinsKnown(q)
  <2> SUFFICES ASSUME NEW h \in Hash
               PROVE  q.retained_block[h] # NoBlock <=> h \in q.retained_hashes /\ q.cache[h] # {}
    BY DEF PinsKnown
  <2>1. q.retained_hashes = s.retained_hashes /\ q.cache = u.cache
    BY <1>11, <1>14 DEF Repinned, SameIndexes
  <2>2. s.retained_block[h] # NoBlock <=> h \in s.retained_hashes /\ s.cache[h] # {}
    BY <1>3 DEF PinsKnown
  <2>3. CASE h \in W
    <3>1. q.retained_block[h] = pick[h] /\ pick[h] \in Block
      BY <1>13, <1>14, <2>3 DEF PinsAdded
    <3>2. h \in s.retained_hashes /\ u.cache[h] # {}
      BY <1>7, <1>12, <2>3
    <3> QED BY <2>1, <3>1, <3>2, BlocksFinite
  <2>4. CASE h \notin W
    <3>1. q.retained_block[h] = s.retained_block[h]
      BY <1>11, <1>13, <1>14, <2>4 DEF PinsAdded
    <3>2. CASE h \in {hs[i] : i \in new}
      <4>1. h \in s.retained_hashes /\ u.cache[h] # {} => s.retained_block[h] # NoBlock
        BY <1>7, <1>11, <1>12, <2>4, <3>2
      <4>2. s.cache[h] # {} => u.cache[h] # {}
        BY <1>11
      <4> QED BY <2>1, <2>2, <3>1, <4>1, <4>2
    <3>3. CASE h \notin {hs[i] : i \in new}
      <4>1. u.cache[h] = s.cache[h]
        BY <1>11, <3>3
      <4> QED BY <2>1, <2>2, <3>1, <4>1
    <3> QED BY <3>2, <3>3
  <2> QED BY <2>3, <2>4
<1>16. PoolInv(q)
  <2>1. LeasesCounted(q) /\ q.entries = s.entries /\ q.hash_ref = s.hash_ref /\ q.dirty = s.dirty
    <3>1. q.entries = s.entries /\ q.hash_ref = s.hash_ref /\ q.dirty = s.dirty
      BY <1>11, <1>14 DEF Repinned, SameLeases
    <3> QED BY <1>3, <3>1, LeasesSame
  <2>2. CaughtUp(q) /\ ~q.dirty
    BY <1>2, <1>11, <1>14, <2>1 DEF CaughtUp, Repinned
  <2> QED BY <1>3, <1>11, <1>14, <1>15, <2>1, <2>2, PoolInvIs DEF Repinned
<1>17. q.ref_cnt = p.ref_cnt /\ q.entries = p.entries /\ q.revoked = p.revoked
  BY <1>2, <1>11, <1>14 DEF Repinned, SameLeases
<1>18. Published(p, q, bs, hs, (from + 1)..to)
  <2>1. q.block_hashes = u.block_hashes /\ s.block_hashes = p.block_hashes
    BY <1>2, <1>14 DEF Repinned, SameIndexes
  <2>2. Published(s, u, bs, hs, new)
    BY <1>11
  <2>3. Published(p, q, bs, hs, new)
    BY <2>1, <2>2 DEF Published
  <2> QED BY <1>4, <2>3
<1>19. ASSUME Lease = {}, NEW a, NEW b, Ahead(q.queue, a, b) PROVE Ahead(p.queue, a, b)
  <2>1. s = p
    BY <1>1, <1>19, NoLeaseNoPin DEF SyncRetention
  <2>2. PICK S : q.queue = Keep(u.queue, S)
    <3> DEFINE Ps(x) == {h \in DOMAIN pick : pick[h] = x}
               fresh == {x \in Block : u.retention_count[x] = 0 /\ Ps(x) # {}}
               idle  == {x \in fresh : u.ref_cnt[x] = 0}
    <3>1. q.queue = Keep(u.queue, Block \ idle)
      BY <1>11, <1>13 DEF Pin, Check, PoolRecord
    <3> HIDE DEF idle
    <3> QED BY <3>1
  <2>3. u.queue = s.queue /\ s.queue \in Seq(Block)
    BY <1>3, <1>9 DEF PublishBlocks, PoolRecord
  <2> QED BY <1>19, <2>1, <2>2, <2>3, AheadInKeep
<1> QED BY <1>16, <1>17, <1>18, <1>19

-----------------------------------------------------------------------------

\* A pool without any key.
LEMMA EmptyPoolKeeps == PoolInv(EmptyPool)
<1> DEFINE p == EmptyPool
<1>1. PICK x1, x2 : x1 = [i \in 1..NumBlocks |-> i] /\ x2 = [h \in Hash |-> {}]
  OBVIOUS
<1>2. x1 \in Seq(Block) /\ Len(x1) = NumBlocks /\ \A i \in 1..NumBlocks : x1[i] = i
  BY <1>1, BlocksFinite DEF Block
<1>3. IsInjective(x1) /\ ToSet(x1) = Block
  <2>1. IsInjective(x1)
    BY <1>2, InjectiveByPositions
  <2>2. \A x : x \in ToSet(x1) <=> \E i \in 1..Len(x1) : x1[i] = x
    BY <1>2, MembersHavePositions
  <2>3. Block = 1..NumBlocks
    BY DEF Block
  <2>4. \A x : x \in ToSet(x1) <=> x \in 1..NumBlocks
    BY <1>2, <2>2
  <2>5. ToSet(x1) = Block
    BY <2>3, <2>4
  <2> QED BY <2>1, <2>5
<1>4. << >> \in Seq(LeaseEntry) /\ ToSet(<< >>) = {} /\ IsInjective(<< >>)
  BY EmptyQueue
<1>5. x2 \in [Hash -> SUBSET Block]
  BY <1>1
<1>6. /\ p.queue = x1 /\ p.ref_cnt = [b \in Block |-> 0] /\ p.block_hashes = [b \in Block |-> {}]
      /\ p.cache = x2 /\ p.prefix_cached = 0 /\ p.retained_hashes = {}
      /\ p.retained_block = [h \in Hash |-> NoBlock] /\ p.retention_count = [b \in Block |-> 0]
      /\ p.retained = 0 /\ p.retained_free = 0 /\ p.entries = << >> /\ p.hash_ref = [h \in Hash |-> 0]
      /\ p.dirty = FALSE /\ p.revoked = FALSE /\ p.ok = TRUE
  BY <1>1 DEF EmptyPool
<1>7. p \in PoolRecord
  <2>1. [b \in Block |-> 0] \in [Block -> Nat] /\ [b \in Block |-> 0] \in [Block -> Int]
    OBVIOUS
  <2>2. [b \in Block |-> {}] \in [Block -> SUBSET Hash] /\ [h \in Hash |-> NoBlock] \in [Hash -> Block \cup {NoBlock}]
    OBVIOUS
  <2>3. [h \in Hash |-> 0] \in [Hash -> Int]
    OBVIOUS
  <2>4. PICK y1, y2, y3, y4, y5 : /\ y1 = [b \in Block |-> 0] /\ y2 = [b \in Block |-> {}]
                                  /\ y3 = [h \in Hash |-> NoBlock] /\ y4 = [h \in Hash |-> 0] /\ y5 = << >>
    OBVIOUS
  <2>5. p = [queue |-> x1, ref_cnt |-> y1, block_hashes |-> y2, cache |-> x2, prefix_cached |-> 0,
             retained_hashes |-> {}, retained_block |-> y3, retention_count |-> y1, retained |-> 0,
             retained_free |-> 0, entries |-> y5, hash_ref |-> y4, dirty |-> FALSE, revoked |-> FALSE, ok |-> TRUE]
    BY <1>1, <2>4 DEF EmptyPool
  <2> HIDE DEF p
  <2> QED BY <1>2, <1>4, <1>5, <2>1, <2>2, <2>3, <2>4, <2>5 DEF PoolRecord
<1> HIDE DEF p
<1>8. Idle(p) = Block /\ Pinned(p) = {} /\ Cached(p) = {}
  BY <1>6, BlocksFinite DEF Idle, Pinned, Cached
<1>9. Cardinality({}) = 0
  BY FS_EmptySet
<1>10. Indexed(p)
  BY <1>1, <1>6 DEF Indexed
<1>11. Shape(p)
  <2>1. p.retention_count = [b \in Block |-> Bit(b \in Pinned(p))]
    BY <1>6, <1>8 DEF Bit
  <2> QED BY <1>3, <1>6, <1>8, <1>9, <1>10, <2>1 DEF Shape
<1>12. LeasesCounted(p)
  <2>1. \A h \in Hash : {e \in ToSet(p.entries) : h \in ToSet(e.hashes)} = {} /\ p.hash_ref[h] = 0
    BY <1>4, <1>6
  <2> QED BY <1>4, <1>6, <1>9, <2>1 DEF LeasesCounted
<1>13. PinsKnown(p) /\ CaughtUp(p)
  BY <1>6 DEF PinsKnown, CaughtUp
<1>14. PoolInv(p)
  BY <1>6, <1>7, <1>11, <1>12, <1>13, PoolInvIs
<1> QED BY <1>14 DEF p

\* reset_prefix_cache revokes every lease and forgets every key.
LEMMA ResetKeeps ==
  ASSUME DebugAssertions \/ Lease = {}, NEW p, PoolInv(p), NEW q \in ResetPool(p)
  PROVE  /\ PoolInv(q) /\ q.ref_cnt = p.ref_cnt /\ q.entries = << >>
         /\ q.revoked = (p.revoked \/ p.entries # << >>)
         /\ \A b \in Block : q.block_hashes[b] = {}
<1>1. PICK s \in SyncRetention(p) :
         LET r == Revocations(s)[Len(s.entries)]
             z == [r EXCEPT !.cache = [h \in Hash |-> {}],
                            !.retained_block = [h \in Hash |-> NoBlock],
                            !.prefix_cached = 0,
                            !.block_hashes = [b \in Block |-> {}],
                            !.dirty = FALSE,
                            !.revoked = @ \/ p.entries # << >>]
         IN  q = DebugCheck(z, \A h \in Hash : r.retained_block[h] = NoBlock)
  BY DEF ResetPool
<1>2. /\ PoolInv(s) /\ CaughtUp(s) /\ ~s.dirty /\ s.ref_cnt = p.ref_cnt /\ SameIndexes(p, s)
      /\ s.entries = p.entries /\ s.revoked = p.revoked
  BY SyncKeeps
<1>3. /\ s \in PoolRecord /\ s.ok /\ Shape(s) /\ LeasesCounted(s) /\ PinsKnown(s)
  BY <1>2, PoolInvIs
<1>4. s.entries \in Seq(LeaseEntry) /\ Revoking(s)
  BY <1>2, <1>3 DEF PoolRecord, Revoking
<1>5. DebugAssertions \/ s.entries = << >>
  BY <1>2, NoLeaseNoPin
<1>6. PICK r : r = Revocations(s)[Len(s.entries)]
  OBVIOUS
<1>7. Revoking(r) /\ EntriesRevoked(s, r) /\ r.entries = SubSeq(s.entries, Len(s.entries) + 1, Len(s.entries))
  <2>1. Len(s.entries) \in 0..Len(s.entries)
    BY <1>4
  <2> QED BY <1>4, <1>5, <1>6, <2>1, RevocationsKeep
<1>8. r.entries = << >>
  BY <1>4, <1>7
<1>9. /\ \A h \in Hash : r.retained_block[h] = NoBlock
      /\ Pinned(r) = {}
  BY <1>7, <1>8, NothingPinned
<1>10. r \in PoolRecord /\ r.ok /\ Shape(r) /\ LeasesCounted(r) /\ PinsKnown(r) /\ CaughtUp(r)
  BY <1>7 DEF Revoking
<1>11. PICK x1, x2, x3, x4, c : /\ x1 = [h \in Hash |-> {}] /\ x2 = [h \in Hash |-> NoBlock] /\ x3 = [b \in Block |-> {}]
                                /\ x4 = (r.revoked \/ p.entries # << >>)
                                /\ c = (\A h \in Hash : r.retained_block[h] = NoBlock)
  OBVIOUS
<1>12. q = DebugCheck([r EXCEPT !.cache = x1, !.retained_block = x2, !.prefix_cached = 0,
                                !.block_hashes = x3, !.dirty = FALSE, !.revoked = x4], c)
  BY <1>1, <1>6, <1>11
<1>13. c = TRUE /\ x4 \in BOOLEAN
  BY <1>9, <1>11
<1>14. x1 \in [Hash -> SUBSET Block] /\ x2 \in [Hash -> Block \cup {NoBlock}] /\ x3 \in [Block -> SUBSET Hash]
  BY <1>11
<1>15. /\ q \in PoolRecord /\ q.ok = r.ok /\ q.cache = x1 /\ q.retained_block = x2 /\ q.prefix_cached = 0
       /\ q.block_hashes = x3 /\ q.dirty = FALSE /\ q.revoked = x4 /\ q.ref_cnt = r.ref_cnt
       /\ q.entries = r.entries /\ q.hash_ref = r.hash_ref /\ q.queue = r.queue
       /\ q.retained_hashes = r.retained_hashes /\ q.retention_count = r.retention_count
       /\ q.retained = r.retained /\ q.retained_free = r.retained_free
  <2>1. r.ok = TRUE
    BY <1>10 DEF PoolRecord
  <2>2. PICK z : z = [r EXCEPT !.cache = x1, !.retained_block = x2, !.prefix_cached = 0,
                               !.block_hashes = x3, !.dirty = FALSE, !.revoked = x4]
    OBVIOUS
  <2>3. z \in PoolRecord /\ z.ok = TRUE
    <3>5. PICK n \in Int : n = 0
      OBVIOUS
    <3>1. PICK y : y = [r EXCEPT !.cache = x1, !.retained_block = x2, !.prefix_cached = n]
      OBVIOUS
    <3>4. r \in PoolRecord
      BY <1>10
    <3>2. y \in PoolRecord /\ y.ok = TRUE
      BY <1>14, <2>1, <3>1, <3>4 DEF PoolRecord
    <3>3. z = [y EXCEPT !.block_hashes = x3, !.dirty = FALSE, !.revoked = x4]
      BY <2>2, <3>1, <3>5
    <3> QED BY <1>13, <1>14, <3>2, <3>3 DEF PoolRecord
  <2>4. q = [z EXCEPT !.ok = (z.ok /\ (DebugAssertions => TRUE))]
    BY <1>12, <1>13, <2>2 DEF DebugCheck
  <2>5. (z.ok /\ (DebugAssertions => TRUE)) = TRUE
    BY <2>3
  <2>6. q = [z EXCEPT !.ok = TRUE]
    BY <2>4, <2>5
  <2>7. q = z
    BY <2>3, <2>6 DEF PoolRecord
  <2> QED BY <1>10, <2>1, <2>2, <2>3, <2>7 DEF PoolRecord
<1>16. Idle(q) = Idle(r) /\ Pinned(q) = {} /\ Cached(q) = {}
  <2>1. Idle(q) = Idle(r)
    BY <1>15 DEF Idle
  <2>2. Pinned(q) = {}
    BY <1>11, <1>15, BlocksFinite DEF Pinned
  <2>3. Cached(q) = {}
    BY <1>11, <1>15 DEF Cached
  <2> QED BY <2>1, <2>2, <2>3
<1>17. Indexed(q)
  BY <1>11, <1>15 DEF Indexed
<1>18. Shape(q)
  <2>1. Cardinality({}) = 0
    BY FS_EmptySet
  <2>7. /\ r.retained = Cardinality(Pinned(r)) /\ r.retained_free = Cardinality(Idle(r) \cap Pinned(r))
        /\ IsInjective(r.queue) /\ ToSet(r.queue) = Idle(r) \ Pinned(r)
        /\ r.retention_count = [b \in Block |-> Bit(b \in Pinned(r))]
    BY <1>10 DEF Shape
  <2>2. /\ r.retained = Cardinality({}) /\ r.retained_free = Cardinality(Idle(r) \cap {})
        /\ IsInjective(r.queue) /\ ToSet(r.queue) = Idle(r) \ {}
        /\ r.retention_count = [b \in Block |-> Bit(b \in {})]
    BY <1>9, <2>7
  <2>3. q.prefix_cached = Cardinality(Cached(q)) /\ q.retained = Cardinality(Pinned(q))
    BY <1>15, <1>16, <2>1, <2>2
  <2>4. q.retained_free = Cardinality(Idle(q) \cap Pinned(q))
    BY <1>15, <1>16, <2>2
  <2>5. q.retention_count = [b \in Block |-> Bit(b \in Pinned(q))]
    BY <1>15, <1>16, <2>2
  <2>6. IsInjective(q.queue) /\ ToSet(q.queue) = Idle(q) \ Pinned(q)
    BY <1>15, <1>16, <2>2
  <2> QED BY <1>17, <2>3, <2>4, <2>5, <2>6 DEF Shape
<1>19. LeasesCounted(q)
  BY <1>10, <1>15, LeasesSame
<1>20. CaughtUp(q)
  BY <1>10, <1>15 DEF CaughtUp
<1>21. PinsKnown(q)
  BY <1>11, <1>15 DEF PinsKnown
<1>22. PoolInv(q)
  BY <1>10, <1>15, <1>18, <1>19, <1>20, <1>21, PoolInvIs
<1>23. q.ref_cnt = p.ref_cnt /\ q.revoked = (p.revoked \/ p.entries # << >>)
  BY <1>2, <1>7, <1>11, <1>15 DEF EntriesRevoked
<1>24. \A b \in Block : q.block_hashes[b] = {}
  BY <1>11, <1>15
<1> QED BY <1>8, <1>15, <1>22, <1>23, <1>24

-----------------------------------------------------------------------------
(* The ledger. *)

LP == INSTANCE KVCacheLedgerProofs WITH
    live <- Live, blocks <- BlocksOf, cached <- CachedOf, reserved <- ReservedOf,
    total <- total_reserved, ref <- pool.ref_cnt, key <- Keys,
    chain <- HashesOf, done <- DoneOf, content <- Contents

\* The instances of the ledger count as this module does.
LEMMA SameCardinality ==
  ASSUME NEW S
  PROVE  /\ Ledger!Cardinality(S) = Cardinality(S) /\ LP!Cardinality(S) = Cardinality(S)
         /\ Ledger!IsFiniteSet(S) <=> IsFiniteSet(S)
         /\ LP!IsFiniteSet(S) <=> IsFiniteSet(S)
<1>1. Ledger!Cardinality(S) = Cardinality(S)
  BY DEF Ledger!Cardinality, Cardinality
<1>2. LP!Cardinality(S) = Cardinality(S)
  BY DEF LP!Cardinality, Cardinality
<1>3. Ledger!IsFiniteSet(S) <=> IsFiniteSet(S)
  BY DEF Ledger!IsFiniteSet, IsFiniteSet
<1>4. LP!IsFiniteSet(S) <=> IsFiniteSet(S)
  BY DEF LP!IsFiniteSet, IsFiniteSet
<1> QED BY <1>1, <1>2, <1>3, <1>4

\* The constants satisfy what the theorems of the ledger assume.
LEMMA LedgerConstants == LP!LedgerAssumption /\ LP!ChainAssumption
<1>1. LP!IsFiniteSet(Block) /\ LP!IsFiniteSet(Req)
  BY SameCardinality, ManagerAssumption, BlocksFinite
<1>2. LP!LedgerAssumption
  BY <1>1, ManagerAssumption DEF LP!LedgerAssumption
<1>3. LP!ChainAssumption
  BY HashAssumption DEF LP!ChainAssumption
<1> QED BY <1>2, <1>3

\* The two instances of the ledger have one invariant.
LEMMA SameInvariant == Ledger!LedgerInv <=> LP!LedgerInv
<1>1. Ledger!TypeOK <=> LP!TypeOK
  BY DEF Ledger!TypeOK, LP!TypeOK
<1>2. Ledger!DeadRequestsEmpty <=> LP!DeadRequestsEmpty
  BY DEF Ledger!DeadRequestsEmpty, LP!DeadRequestsEmpty
<1>3. Ledger!ProgressOrdered <=> LP!ProgressOrdered
  BY DEF Ledger!ProgressOrdered, LP!ProgressOrdered
<1>4. Ledger!PublishedKeys <=> LP!PublishedKeys
  BY DEF Ledger!PublishedKeys, LP!PublishedKeys
<1>5. Ledger!TailPrivate <=> LP!TailPrivate
  BY DEF Ledger!TailPrivate, LP!TailPrivate
<1>6. Ledger!RefCountsExact <=> LP!RefCountsExact
  BY SameCardinality DEF Ledger!RefCountsExact, LP!RefCountsExact, Ledger!Holders, LP!Holders, Ledger!Elements, LP!Elements
<1>7. Ledger!PrefixHitsSound <=> LP!PrefixHitsSound
  BY DEF Ledger!PrefixHitsSound, LP!PrefixHitsSound
<1>8. Ledger!HeldPrefixIntact <=> LP!HeldPrefixIntact
  BY DEF Ledger!HeldPrefixIntact, LP!HeldPrefixIntact
<1>9. Ledger!IsFiniteSet(Ledger!ReservedSlots) <=> LP!IsFiniteSet(LP!ReservedSlots)
  BY SameCardinality DEF Ledger!ReservedSlots, LP!ReservedSlots
<1>10. Ledger!ReservationsExact <=> LP!ReservationsExact
  BY SameCardinality DEF Ledger!ReservationsExact, LP!ReservationsExact, Ledger!ReservedSlots, LP!ReservedSlots
<1>11. Ledger!ReservationsCovered <=> LP!ReservationsCovered
  BY SameCardinality DEF Ledger!ReservationsCovered, LP!ReservationsCovered, Ledger!ActiveBlocks, LP!ActiveBlocks
<1> QED BY <1>1, <1>2, <1>3, <1>4, <1>5, <1>6, <1>7, <1>8, <1>9, <1>10, <1>11 DEF Ledger!LedgerInv, LP!LedgerInv

\* The same, of the next state.
LEMMA SameInvariantNext == Ledger!LedgerInv' <=> LP!LedgerInv'
<1>1. Ledger!TypeOK' <=> LP!TypeOK'
  BY DEF Ledger!TypeOK, LP!TypeOK
<1>2. Ledger!DeadRequestsEmpty' <=> LP!DeadRequestsEmpty'
  BY DEF Ledger!DeadRequestsEmpty, LP!DeadRequestsEmpty
<1>3. Ledger!ProgressOrdered' <=> LP!ProgressOrdered'
  BY DEF Ledger!ProgressOrdered, LP!ProgressOrdered
<1>4. Ledger!PublishedKeys' <=> LP!PublishedKeys'
  BY DEF Ledger!PublishedKeys, LP!PublishedKeys
<1>5. Ledger!TailPrivate' <=> LP!TailPrivate'
  BY DEF Ledger!TailPrivate, LP!TailPrivate
<1>6. Ledger!RefCountsExact' <=> LP!RefCountsExact'
  BY SameCardinality DEF Ledger!RefCountsExact, LP!RefCountsExact, Ledger!Holders, LP!Holders, Ledger!Elements, LP!Elements
<1>7. Ledger!PrefixHitsSound' <=> LP!PrefixHitsSound'
  BY DEF Ledger!PrefixHitsSound, LP!PrefixHitsSound
<1>8. Ledger!HeldPrefixIntact' <=> LP!HeldPrefixIntact'
  BY DEF Ledger!HeldPrefixIntact, LP!HeldPrefixIntact
<1>9. Ledger!IsFiniteSet(Ledger!ReservedSlots)' <=> LP!IsFiniteSet(LP!ReservedSlots)'
  BY SameCardinality DEF Ledger!ReservedSlots, LP!ReservedSlots
<1>10. Ledger!ReservationsExact' <=> LP!ReservationsExact'
  BY SameCardinality DEF Ledger!ReservationsExact, LP!ReservationsExact, Ledger!ReservedSlots, LP!ReservedSlots
<1>11. Ledger!ReservationsCovered' <=> LP!ReservationsCovered'
  BY SameCardinality DEF Ledger!ReservationsCovered, LP!ReservationsCovered, Ledger!ActiveBlocks, LP!ActiveBlocks
<1> QED BY <1>1, <1>2, <1>3, <1>4, <1>5, <1>6, <1>7, <1>8, <1>9, <1>10, <1>11 DEF Ledger!LedgerInv, LP!LedgerInv

\* The two instances of the ledger have the same steps.
LEMMA SameStep == [Ledger!Next]_Ledger!vars <=> [LP!Next]_LP!vars
<1>1. UNCHANGED Ledger!vars <=> UNCHANGED LP!vars
  BY DEF Ledger!vars, LP!vars
<1>2. Ledger!Next <=> LP!Next
  <2>1. /\ \A q : Ledger!Elements(q) = LP!Elements(q) /\ (Ledger!Distinct(q) <=> LP!Distinct(q))
        /\ \A m, n : Ledger!LesserOf(m, n) = LP!LesserOf(m, n)
    BY DEF Ledger!Elements, LP!Elements, Ledger!Distinct, LP!Distinct, Ledger!LesserOf, LP!LesserOf
  <2>2. Ledger!BlockSeqs = LP!BlockSeqs /\ Ledger!FreeBlocks = LP!FreeBlocks
    BY SameCardinality DEF Ledger!BlockSeqs, LP!BlockSeqs, Ledger!FreeBlocks, LP!FreeBlocks
  <2>3. Ledger!FreshBlocks = LP!FreshBlocks
    BY <2>1, <2>2 DEF Ledger!FreshBlocks, LP!FreshBlocks
  <2>4. \A c : Ledger!CachedPrefixes(c) = LP!CachedPrefixes(c)
    BY <2>1, <2>2 DEF Ledger!CachedPrefixes, LP!CachedPrefixes
  <2>5. Ledger!Unreserved = LP!Unreserved
    BY <2>2, SameCardinality DEF Ledger!Unreserved, LP!Unreserved
  <2>6. \A r, hit, fresh, n : Ledger!AdmitWith(r, hit, fresh, n) <=> LP!AdmitWith(r, hit, fresh, n)
    <3> TAKE r, hit, fresh, n
    <3>1. PICK E1, E2 : /\ E1 = Ledger!Elements(hit) /\ E1 = LP!Elements(hit)
                        /\ E2 = Ledger!Elements(fresh) /\ E2 = LP!Elements(fresh)
      BY <2>1
    <3>2. Ledger!Cardinality(Ledger!FreeBlocks \cap E1) = LP!Cardinality(LP!FreeBlocks \cap E1)
      BY <2>2, SameCardinality
    <3> QED BY <2>5, <3>1, <3>2 DEF Ledger!AdmitWith, LP!AdmitWith
  <2>7. \A r, c : Ledger!Admit(r, c) <=> LP!Admit(r, c)
    BY <2>3, <2>4, <2>6, SameCardinality DEF Ledger!Admit, LP!Admit
  <2>8. \A r, fresh : Ledger!GrowBy(r, fresh) <=> LP!GrowBy(r, fresh)
    BY <2>1, <2>5 DEF Ledger!GrowBy, LP!GrowBy
  <2>9. \A r : Ledger!Grow(r) <=> LP!Grow(r)
    BY <2>3, <2>8 DEF Ledger!Grow, LP!Grow
  <2>10. \A r, n : Ledger!Trim(r, n) <=> LP!Trim(r, n)
    BY DEF Ledger!Trim, LP!Trim
  <2>11. \A r : Ledger!Free(r) <=> LP!Free(r)
    BY <2>1 DEF Ledger!Free, LP!Free
  <2>12. \A r, n : Ledger!Publish(r, n) <=> LP!Publish(r, n)
    BY DEF Ledger!Publish, LP!Publish
  <2>13. \A r, n, w : Ledger!Compute(r, n, w) <=> LP!Compute(r, n, w)
    BY <2>1 DEF Ledger!Compute, LP!Compute
  <2>14. Ledger!Reset <=> LP!Reset
    BY DEF Ledger!Reset, LP!Reset
  <2>15. Ledger!Cardinality(Block) = LP!Cardinality(Block)
    BY SameCardinality
  <2> QED BY <2>7, <2>9, <2>10, <2>11, <2>12, <2>13, <2>14, <2>15 DEF Ledger!Next, LP!Next
<1> QED BY <1>1, <1>2

\* A step of the ledger keeps its invariant: KVCacheLedgerProofs.
LEMMA LedgerStep ==
  ASSUME Ledger!LedgerInv, [Ledger!Next]_Ledger!vars
  PROVE  Ledger!LedgerInv'
BY SameInvariant, SameInvariantNext, SameStep, LedgerConstants, LP!StepInv

-----------------------------------------------------------------------------
(* Tokens and blocks. *)

\* Token n is in block n \div BlockSize, at offset n % BlockSize.
LEMMA TokenPosition ==
  ASSUME NEW n \in Nat
  PROVE  /\ n \div BlockSize \in Nat /\ n % BlockSize \in Slot
         /\ n % BlockSize = n - (n \div BlockSize) * BlockSize
         /\ (n \div BlockSize) * BlockSize <= n
         /\ n < (n \div BlockSize + 1) * BlockSize
<1>1. PICK B \in Nat \ {0} : B = BlockSize
  BY ManagerAssumption
<1>2. n \div B \in Nat
  OBVIOUS
<1>3. n % B \in 0..(B - 1)
  OBVIOUS
<1>4. n % B = n - B * (n \div B)
  OBVIOUS
<1>5. PICK d \in Nat, o \in 0..(B - 1) : d = n \div B /\ o = n % B
  BY <1>2, <1>3
<1>6. n = B * d + o
  BY <1>4, <1>5
<1>7. B * d = d * B /\ (d + 1) * B = d * B + B /\ d * B \in Nat
  OBVIOUS
<1>8. n = d * B + o /\ d * B <= n /\ n < (d + 1) * B
  BY <1>6, <1>7
<1>9. o \in Slot
  BY <1>1 DEF Slot
<1>10. n \div BlockSize = d /\ n % BlockSize = o
  BY <1>1, <1>5
<1>11. n = d * BlockSize + o /\ d * BlockSize <= n /\ n < (d + 1) * BlockSize
  BY <1>1, <1>8
<1>12. n \div BlockSize \in Nat /\ n % BlockSize \in Slot
  BY <1>9, <1>10
<1>13. n % BlockSize = n - (n \div BlockSize) * BlockSize
  BY <1>1
<1>14. (n \div BlockSize) * BlockSize <= n /\ n < (n \div BlockSize + 1) * BlockSize
  BY <1>10, <1>11, Zenon
<1> QED BY <1>12, <1>13, <1>14, Zenon

\* The block that a token count reaches into.
LEMMA BlockOfToken ==
  ASSUME NEW n \in Nat, NEW k \in Nat
  PROVE  /\ k * BlockSize <= n <=> k <= n \div BlockSize
         /\ n < k * BlockSize <=> n \div BlockSize < k
<1>1. PICK B \in Nat \ {0} : B = BlockSize
  BY ManagerAssumption
<1>2. PICK d \in Nat : d = n \div B /\ d * B <= n /\ n < (d + 1) * B
  BY <1>1, TokenPosition
<1>3. ASSUME k <= d PROVE k * B <= n
  <2>1. PICK e \in Nat : d = k + e
    BY <1>3
  <2>2. d * B = k * B + e * B /\ e * B >= 0 /\ k * B \in Nat /\ e * B \in Nat
    BY <2>1
  <2> QED BY <1>2, <2>2
<1>4. ASSUME d < k PROVE n < k * B
  <2>1. PICK e \in Nat : k = d + 1 + e
    <3>1. k - d - 1 \in Nat /\ k = d + 1 + (k - d - 1)
      BY <1>4
    <3> QED BY <3>1
  <2>2. k * B = (d + 1) * B + e * B /\ e * B >= 0 /\ (d + 1) * B \in Nat /\ e * B \in Nat
    BY <2>1
  <2> QED BY <1>2, <2>2
<1>5. k * B \in Nat
  BY <1>1
<1> QED BY <1>1, <1>2, <1>3, <1>4, <1>5

\* The tokens of whole blocks.
LEMMA WholeBlocks ==
  ASSUME NEW k \in Nat
  PROVE  k * BlockSize \in Nat /\ (k * BlockSize) \div BlockSize = k
<1>1. k * BlockSize \in Nat /\ (k + 1) * BlockSize \in Nat /\ k * BlockSize < (k + 1) * BlockSize
  BY ManagerAssumption
<1>2. PICK d \in Nat : d = (k * BlockSize) \div BlockSize
  BY <1>1, TokenPosition
<1>3. k <= d
  BY <1>1, <1>2, BlockOfToken
<1>4. d < k + 1
  BY <1>1, <1>2, BlockOfToken
<1> QED BY <1>1, <1>2, <1>3, <1>4

\* div_ceil is the least number of blocks with that many slots.
LEMMA CeilCovers ==
  ASSUME NEW n \in Nat
  PROVE  /\ DivCeil(n) \in Nat /\ n <= DivCeil(n) * BlockSize
         /\ \A k \in Nat : n <= k * BlockSize <=> DivCeil(n) <= k
<1>1. PICK B \in Nat \ {0} : B = BlockSize
  BY ManagerAssumption
<1>2. PICK m \in Nat : m = n + B - 1
  OBVIOUS
<1>3. PICK c \in Nat : c = m \div B /\ c = DivCeil(n) /\ c * B <= m /\ m < (c + 1) * B
  BY <1>1, <1>2, TokenPosition DEF DivCeil
<1>4. n <= c * B
  <2>1. (c + 1) * B = c * B + B /\ c * B \in Nat
    OBVIOUS
  <2> QED BY <1>2, <1>3, <2>1
<1>5. ASSUME NEW k \in Nat PROVE n <= k * B <=> c <= k
  <2>1. CASE c <= k
    <3>1. PICK e \in Nat : k = c + e
      <4>1. k - c \in Nat /\ k = c + (k - c)
        BY <2>1
      <4> QED BY <4>1
    <3>2. k * B = c * B + e * B /\ e * B \in Nat /\ c * B \in Nat
      BY <3>1
    <3> QED BY <1>4, <2>1, <3>2
  <2>2. CASE k < c
    <3>1. PICK e \in Nat : c = k + 1 + e
      <4>1. c - k - 1 \in Nat /\ c = k + 1 + (c - k - 1)
        BY <2>2
      <4> QED BY <4>1
    <3>2. c * B = k * B + B + e * B /\ e * B \in Nat /\ k * B \in Nat
      BY <3>1
    <3> QED BY <1>2, <1>3, <2>2, <3>2
  <2> QED BY <2>1, <2>2
<1> QED BY <1>1, <1>3, <1>4, <1>5

\* The token of a slot, and that it is the only one.
LEMMA TokenOfSlot ==
  ASSUME NEW i \in Nat, NEW o \in Slot
  PROVE  LET t == i * BlockSize + o
         IN  t \in Nat /\ t \div BlockSize = i /\ t % BlockSize = o /\ t < (i + 1) * BlockSize
<1>1. PICK B \in Nat \ {0} : B = BlockSize
  BY ManagerAssumption
<1>2. o \in 0..(B - 1)
  BY <1>1 DEF Slot
<1>3. i * B \in Nat /\ (i + 1) * B = i * B + B
  OBVIOUS
<1>4. PICK t \in Nat : t = i * B + o /\ i * B <= t /\ t < (i + 1) * B
  BY <1>2, <1>3
<1>5. i <= t \div BlockSize /\ t \div BlockSize < i + 1
  BY <1>1, <1>4, BlockOfToken
<1>6. PICK d \in Nat : d = t \div BlockSize
  BY TokenPosition
<1>7. d = i
  BY <1>5, <1>6
<1>8. t % BlockSize = t - d * BlockSize
  BY <1>6, TokenPosition
<1>9. t % BlockSize = o
  BY <1>1, <1>2, <1>3, <1>4, <1>7, <1>8
<1> QED BY <1>1, <1>4, <1>6, <1>7, <1>9

\* No two tokens of a request share a slot.
LEMMA OneToken ==
  ASSUME NEW t \in Nat, NEW u \in Nat, t \div BlockSize = u \div BlockSize, t % BlockSize = u % BlockSize
  PROVE  t = u
<1>1. PICK d \in Nat : d = t \div BlockSize
  BY TokenPosition
<1>2. PICK m \in Nat : m = d * BlockSize
  BY ManagerAssumption
<1>3. t % BlockSize = t - m
  BY <1>1, <1>2, TokenPosition
<1>4. u % BlockSize = u - m
  BY <1>1, <1>2, TokenPosition
<1>5. t - m = u - m
  BY <1>3, <1>4
<1> QED BY <1>5

-----------------------------------------------------------------------------
(* What the invariant says of the manager's own state. *)

\* A key says which hash a block carries.
LEMMA KeyFacts ==
  ASSUME NEW p, p = pool, p \in PoolRecord, Indexed(p), NEW b \in Block
  PROVE  /\ Keys[b] = NoHash <=> p.block_hashes[b] = {}
         /\ \A h \in Hash : h \in p.block_hashes[b] <=> Keys[b] = h
<1>1. Keys[b] = KeyOf(b)
  BY DEF Keys
<1>2. p.block_hashes[b] \subseteq Hash /\ \A g, h \in p.block_hashes[b] : g = h
  BY DEF PoolRecord, Indexed
<1>3. NoHash \notin Hash
  BY ManagerAssumption
<1>4. CASE p.block_hashes[b] = {}
  BY <1>1, <1>3, <1>4 DEF KeyOf
<1>5. CASE p.block_hashes[b] # {}
  <2>1. PICK k : k = CHOOSE h \in p.block_hashes[b] : TRUE
    OBVIOUS
  <2>2. k \in p.block_hashes[b]
    BY <1>5, <2>1
  <2>3. Keys[b] = k
    BY <1>1, <1>5, <2>1 DEF KeyOf
  <2> QED BY <1>2, <1>3, <2>2, <2>3
<1> QED BY <1>4, <1>5

\* The mapping at a request.
LEMMA Mapped ==
  ASSUME Typed
  PROVE  /\ \A r \in Live :
               /\ r \in Req /\ reqs[r] \in RequestRecord /\ seqs[r] \in TokensRecord
               /\ BlocksOf[r] = reqs[r].block_ids /\ CachedOf[r] = reqs[r].num_cached_blocks
               /\ ReservedOf[r] = reqs[r].reserved_blocks
               /\ HashesOf[r] = seqs[r].chain /\ DoneOf[r] = seqs[r].computed \div BlockSize
         /\ \A r \in Req \ Live :
               /\ BlocksOf[r] = << >> /\ CachedOf[r] = 0 /\ ReservedOf[r] = 0
               /\ HashesOf[r] = << >> /\ DoneOf[r] = 0
<1>1. ASSUME NEW r \in Live
      PROVE  /\ r \in Req /\ reqs[r] \in RequestRecord /\ seqs[r] \in TokensRecord
             /\ BlocksOf[r] = reqs[r].block_ids /\ CachedOf[r] = reqs[r].num_cached_blocks
             /\ ReservedOf[r] = reqs[r].reserved_blocks
             /\ HashesOf[r] = seqs[r].chain /\ DoneOf[r] = seqs[r].computed \div BlockSize
  <2>1. r \in Req /\ reqs[r] \in RequestRecord /\ seqs[r] \in TokensRecord /\ r \in DOMAIN reqs /\ r \in DOMAIN seqs
    BY DEF Typed, Live
  <2>2. Entry(r) = reqs[r] /\ Tokens(r) = seqs[r]
    BY <2>1 DEF Entry, Tokens, OrElse
  <2> QED BY <2>1, <2>2 DEF BlocksOf, CachedOf, ReservedOf, HashesOf, DoneOf
<1>2. ASSUME NEW r \in Req \ Live
      PROVE  /\ BlocksOf[r] = << >> /\ CachedOf[r] = 0 /\ ReservedOf[r] = 0
             /\ HashesOf[r] = << >> /\ DoneOf[r] = 0
  <2>1. r \notin DOMAIN reqs /\ r \notin DOMAIN seqs
    BY DEF Typed, Live
  <2>2. /\ Entry(r) = [block_ids |-> <<>>, num_cached_blocks |-> 0, reserved_blocks |-> 0]
        /\ Tokens(r) = [chain |-> <<>>, computed |-> 0]
    BY <2>1 DEF Entry, Tokens, OrElse
  <2>3. 0 \div BlockSize = 0
    BY WholeBlocks, ManagerAssumption
  <2> QED BY <2>2, <2>3 DEF BlocksOf, CachedOf, ReservedOf, HashesOf, DoneOf
<1> QED BY <1>1, <1>2

\* What the ledger's invariant says of a request and its blocks.
RequestFacts(r, ids, cached, c, done) ==
    /\ ids \in Seq(Block) /\ IsInjective(ids) /\ Len(ids) <= NumBlocks
    /\ \A b \in ToSet(ids) : pool.ref_cnt[b] > 0
    /\ c \in Chains /\ c \in Seq(Hash)
    /\ cached \in Nat /\ done \in Nat
    /\ cached <= done /\ done <= Len(ids) /\ done <= Len(c)
    /\ reqs[r].reserved_blocks \in Nat /\ reqs[r].reserved_blocks <= total_reserved
    /\ \A i \in 1..cached : c[i] \in pool.block_hashes[ids[i]]
    /\ \A i \in (cached + 1)..Len(ids) :
          /\ pool.block_hashes[ids[i]] = {}
          /\ \A q \in Live : \A j \in 1..Len(reqs[q].block_ids) :
                reqs[q].block_ids[j] = ids[i] => q = r /\ j = i

\* What the invariant says of a request that has an entry.
LEMMA HeldFacts ==
  ASSUME ManagerInv, NEW r \in Live
  PROVE  RequestFacts(r, reqs[r].block_ids, reqs[r].num_cached_blocks, seqs[r].chain, seqs[r].computed \div BlockSize)
<1> DEFINE ids == reqs[r].block_ids
           cached == reqs[r].num_cached_blocks
           c == seqs[r].chain
           done == seqs[r].computed \div BlockSize
<1>1. Typed /\ PoolInv(pool) /\ Ledger!LedgerInv
  BY DEF ManagerInv
<1>2. LP!LedgerInv /\ LP!TypeOK /\ LP!ProgressOrdered /\ LP!PublishedKeys /\ LP!TailPrivate /\ LP!ReservationsExact
  BY <1>1, SameInvariant DEF LP!LedgerInv
<1>3. pool \in PoolRecord /\ Indexed(pool)
  BY <1>1, PoolInvIs DEF Shape
<1>4. /\ r \in Req /\ reqs[r] \in RequestRecord /\ seqs[r] \in TokensRecord
      /\ BlocksOf[r] = ids /\ CachedOf[r] = cached /\ ReservedOf[r] = reqs[r].reserved_blocks
      /\ HashesOf[r] = c /\ DoneOf[r] = done
  BY <1>1, Mapped
<1>5. /\ ids \in Seq(Block) /\ cached \in Nat /\ reqs[r].reserved_blocks \in Nat /\ c \in Chains
      /\ c \in Seq(Hash) /\ seqs[r].computed \in Nat
  BY <1>4, ManagerAssumption DEF RequestRecord, TokensRecord
<1>6. done \in Nat
  BY <1>5, TokenPosition
<1>7. cached <= done /\ done <= Len(ids) /\ done <= Len(c)
  BY <1>2, <1>4 DEF LP!ProgressOrdered
<1>8. IsInjective(ids)
  <2>1. LP!Distinct(BlocksOf[r])
    BY <1>2, LedgerConstants, LP!BlocksDistinct
  <2> QED BY <1>4, <1>5, <2>1, InjectiveByPositions DEF LP!Distinct
<1>9. Len(ids) <= NumBlocks
  <2>1. ToSet(ids) \subseteq Block
    BY <1>5, MembersHavePositions
  <2>2. PICK A \in SUBSET Block : A = ToSet(ids)
    BY <2>1
  <2>3. Cardinality(A) = Len(ids)
    BY <1>5, <1>8, <2>2, LenIsCardinality
  <2>4. Cardinality(A) <= Cardinality(Block)
    BY BlocksFinite, CardMinus
  <2> QED BY <2>3, <2>4, BlocksFinite
<1>10. \A b \in ToSet(ids) : pool.ref_cnt[b] > 0
  <2>1. ASSUME NEW i \in 1..Len(ids) PROVE pool.ref_cnt[ids[i]] > 0
    <3>1. pool.ref_cnt[BlocksOf[r][i]] \in Nat \ {0}
      <4>1. i \in 1..Len(BlocksOf[r])
        BY <1>4
      <4> QED BY <1>2, <4>1, LedgerConstants, LP!HeldBlocks
    <3> QED BY <1>4, <3>1
  <2> QED BY <1>5, <2>1, MembersHavePositions
<1>11. reqs[r].reserved_blocks <= total_reserved
  <2>1. LP!IsFiniteSet(LP!ReservedSlots)
    BY <1>2 DEF LP!LedgerInv
  <2>2. ReservedOf[r] <= total_reserved
    BY <1>2, <1>4, <2>1, LedgerConstants, LP!ReservedWithinTotal
  <2> QED BY <1>4, <2>2
<1>12. \A i \in 1..cached : c[i] \in pool.block_hashes[ids[i]]
  <2> SUFFICES ASSUME NEW i \in 1..cached PROVE c[i] \in pool.block_hashes[ids[i]]
    OBVIOUS
  <2>1. Keys[ids[i]] = c[i]
    BY <1>2, <1>4 DEF LP!PublishedKeys
  <2>2. ids[i] \in Block /\ c[i] \in Hash
    BY <1>5, <1>6, <1>7
  <2> QED BY <1>3, <2>1, <2>2, KeyFacts
<1>13. \A i \in (cached + 1)..Len(ids) :
          /\ pool.block_hashes[ids[i]] = {}
          /\ \A q \in Live : \A j \in 1..Len(reqs[q].block_ids) :
                reqs[q].block_ids[j] = ids[i] => q = r /\ j = i
  <2> SUFFICES ASSUME NEW i \in (cached + 1)..Len(ids)
               PROVE  /\ pool.block_hashes[ids[i]] = {}
                      /\ \A q \in Live : \A j \in 1..Len(reqs[q].block_ids) :
                            reqs[q].block_ids[j] = ids[i] => q = r /\ j = i
    OBVIOUS
  <2>1. /\ Keys[ids[i]] = NoHash
        /\ \A q \in Live : \A j \in 1..Len(BlocksOf[q]) : BlocksOf[q][j] = ids[i] => q = r /\ j = i
    BY <1>2, <1>4 DEF LP!TailPrivate
  <2>2. ids[i] \in Block
    BY <1>5
  <2>3. pool.block_hashes[ids[i]] = {}
    BY <1>3, <2>1, <2>2, KeyFacts
  <2>4. \A q \in Live : BlocksOf[q] = reqs[q].block_ids
    BY <1>1, Mapped
  <2> QED BY <2>1, <2>3, <2>4
<1> QED BY <1>5, <1>6, <1>7, <1>8, <1>9, <1>10, <1>11, <1>12, <1>13 DEF RequestFacts

-----------------------------------------------------------------------------
(* What a change of the manager's state is to the ledger. *)

\* An entry is added.
LEMMA ReqsWith ==
  ASSUME NEW r \in Req, NEW v, reqs' = With(reqs, r, v)
  PROVE  /\ Live' = Live \cup {r}
         /\ BlocksOf' = [BlocksOf EXCEPT ![r] = v.block_ids]
         /\ CachedOf' = [CachedOf EXCEPT ![r] = v.num_cached_blocks]
         /\ ReservedOf' = [ReservedOf EXCEPT ![r] = v.reserved_blocks]
         /\ reqs'[r] = v /\ \A x \in Live \ {r} : reqs'[x] = reqs[x]
<1>1. Live' = Live \cup {r} /\ reqs'[r] = v /\ \A x \in Live \ {r} : reqs'[x] = reqs[x]
  BY DEF Live, With
<1>2. \A x \in Req : Entry(x)' = IF x = r THEN v ELSE Entry(x)
  BY DEF Entry, OrElse, With
<1> QED BY <1>1, <1>2 DEF BlocksOf, CachedOf, ReservedOf

\* An entry is removed.
LEMMA ReqsWithout ==
  ASSUME NEW r \in Req, reqs' = Without(reqs, r)
  PROVE  /\ Live' = Live \ {r}
         /\ BlocksOf' = [BlocksOf EXCEPT ![r] = << >>]
         /\ CachedOf' = [CachedOf EXCEPT ![r] = 0]
         /\ ReservedOf' = [ReservedOf EXCEPT ![r] = 0]
         /\ \A x \in Live \ {r} : reqs'[x] = reqs[x]
<1>1. Live' = Live \ {r} /\ \A x \in Live \ {r} : reqs'[x] = reqs[x]
  BY DEF Live, Without
<1>2. \A x \in Req : Entry(x)' = IF x = r THEN [block_ids |-> <<>>, num_cached_blocks |-> 0, reserved_blocks |-> 0]
                                 ELSE Entry(x)
  BY DEF Entry, OrElse, Without
<1>3. \A x \in Req : /\ Entry(x)'.block_ids = IF x = r THEN << >> ELSE Entry(x).block_ids
                     /\ Entry(x)'.num_cached_blocks = IF x = r THEN 0 ELSE Entry(x).num_cached_blocks
                     /\ Entry(x)'.reserved_blocks = IF x = r THEN 0 ELSE Entry(x).reserved_blocks
  BY <1>2
<1>4. BlocksOf' = [BlocksOf EXCEPT ![r] = << >>]
  BY <1>3 DEF BlocksOf
<1>5. CachedOf' = [CachedOf EXCEPT ![r] = 0]
  BY <1>3 DEF CachedOf
<1>6. ReservedOf' = [ReservedOf EXCEPT ![r] = 0]
  BY <1>3 DEF ReservedOf
<1> QED BY <1>1, <1>4, <1>5, <1>6

\* The tokens of a request are added.
LEMMA SeqsWith ==
  ASSUME NEW r \in Req, NEW v, seqs' = With(seqs, r, v)
  PROVE  /\ HashesOf' = [HashesOf EXCEPT ![r] = v.chain]
         /\ DoneOf' = [DoneOf EXCEPT ![r] = v.computed \div BlockSize]
         /\ seqs'[r] = v /\ \A x \in DOMAIN seqs \ {r} : seqs'[x] = seqs[x]
<1>1. seqs'[r] = v /\ \A x \in DOMAIN seqs \ {r} : seqs'[x] = seqs[x]
  BY DEF With
<1>2. \A x \in Req : Tokens(x)' = IF x = r THEN v ELSE Tokens(x)
  BY DEF Tokens, OrElse, With
<1> QED BY <1>1, <1>2 DEF HashesOf, DoneOf

\* The tokens of a request are removed.
LEMMA SeqsWithout ==
  ASSUME NEW r \in Req, seqs' = Without(seqs, r)
  PROVE  /\ HashesOf' = [HashesOf EXCEPT ![r] = << >>]
         /\ DoneOf' = [DoneOf EXCEPT ![r] = 0]
         /\ \A x \in DOMAIN seqs \ {r} : seqs'[x] = seqs[x]
<1>1. \A x \in DOMAIN seqs \ {r} : seqs'[x] = seqs[x]
  BY DEF Without
<1>2. \A x \in Req : Tokens(x)' = IF x = r THEN [chain |-> <<>>, computed |-> 0] ELSE Tokens(x)
  BY DEF Tokens, OrElse, Without
<1>3. 0 \div BlockSize = 0
  BY ManagerAssumption, WholeBlocks
<1>4. \A x \in Req : /\ Tokens(x)'.chain = IF x = r THEN << >> ELSE Tokens(x).chain
                     /\ Tokens(x)'.computed = IF x = r THEN 0 ELSE Tokens(x).computed
  BY <1>2
<1>5. HashesOf' = [HashesOf EXCEPT ![r] = << >>]
  BY <1>4 DEF HashesOf
<1>6. DoneOf' = [DoneOf EXCEPT ![r] = 0]
  BY <1>3, <1>4 DEF DoneOf
<1> QED BY <1>1, <1>5, <1>6

\* What does not change is not changed in the ledger.
LEMMA SameRequests ==
  /\ UNCHANGED reqs => UNCHANGED <<Live, BlocksOf, CachedOf, ReservedOf>>
  /\ UNCHANGED seqs => UNCHANGED <<HashesOf, DoneOf>>
  /\ UNCHANGED kv => UNCHANGED Contents
<1>1. UNCHANGED reqs => UNCHANGED <<Live, BlocksOf, CachedOf, ReservedOf>>
  BY DEF Live, BlocksOf, CachedOf, ReservedOf, Entry, OrElse
<1>2. UNCHANGED seqs => UNCHANGED <<HashesOf, DoneOf>>
  BY DEF HashesOf, DoneOf, Tokens, OrElse
<1>3. UNCHANGED kv => UNCHANGED Contents
  BY DEF Contents, BlockContent
<1> QED BY <1>1, <1>2, <1>3

\* The blocks of F lose their keys.
LEMMA KeysWithout ==
  ASSUME NEW F, \A b \in Block : pool'.block_hashes[b] = IF b \in F THEN {} ELSE pool.block_hashes[b]
  PROVE  Keys' = [b \in Block |-> IF b \in F THEN NoHash ELSE Keys[b]]
<1>1. \A b \in Block : KeyOf(b)' = IF b \in F THEN NoHash ELSE KeyOf(b)
  <2> TAKE b \in Block
  <2>1. CASE b \in F
    BY <2>1 DEF KeyOf
  <2>2. CASE b \notin F
    <3>1. pool'.block_hashes[b] = pool.block_hashes[b]
      BY <2>2
    <3>2. KeyOf(b)' = KeyOf(b)
      BY <3>1 DEF KeyOf
    <3> QED BY <2>2, <3>2
  <2> QED BY <2>1, <2>2
<1> QED BY <1>1 DEF Keys

\* The keys are those of the indexes.
LEMMA SameKeys ==
  ASSUME SameIndexes(pool, pool')
  PROVE  Keys' = Keys
BY DEF SameIndexes, Keys, KeyOf

-----------------------------------------------------------------------------
(* The steps. *)

\* Revocation, as RevokesOldestFirst has it of a step.
RevokesInOrder ==
    leases' = leases /\ Len(pool'.entries) < Len(pool.entries)
      => IsSuffix(pool'.entries, pool.entries) /\ pool'.revoked

\* What is shown of every step.
Kept == ManagerInv' /\ [Ledger!Next]_Ledger!vars /\ RevokesInOrder

\* Revoking from the front of the entries is in order.
LEMMA RevokedInOrder ==
  ASSUME pool \in PoolRecord, LeasesRevoked(pool, pool')
  PROVE  RevokesInOrder
<1>1. PICK k \in 0..Len(pool.entries) : /\ pool'.entries = SubSeq(pool.entries, k + 1, Len(pool.entries))
                                        /\ pool'.revoked = (pool.revoked \/ k > 0)
  BY DEF LeasesRevoked
<1>2. pool.entries \in Seq(LeaseEntry)
  BY DEF PoolRecord
<1>3. Len(pool'.entries) = Len(pool.entries) - k /\ IsSuffix(pool'.entries, pool.entries)
  BY <1>1, <1>2, SuffixOfQueue
<1>4. ASSUME Len(pool'.entries) < Len(pool.entries) PROVE pool'.revoked
  <2>1. k > 0
    BY <1>2, <1>3, <1>4
  <2> QED BY <1>1, <2>1
<1> QED BY <1>3, <1>4 DEF RevokesInOrder

\* The parts of the invariant that a step has to keep itself.
LEMMA InvariantKept ==
  ASSUME ManagerInv, [Ledger!Next]_Ledger!vars, Typed', PoolInv(pool'),
         \A e \in ToSet(pool'.entries) : e.id \in leases', LookupKnown', OwnTokens'
  PROVE  ManagerInv'
<1>1. Ledger!LedgerInv'
  BY LedgerStep DEF ManagerInv
<1> QED BY <1>1 DEF ManagerInv

\* A step that changes nothing but leases, pins and the free queue.
LEMMA PinsOnly ==
  ASSUME ManagerInv, UNCHANGED <<reqs, total_reserved, seqs, lookup, kv>>,
         PoolInv(pool'), pool'.ref_cnt = pool.ref_cnt, SameIndexes(pool, pool'),
         leases' \subseteq Lease, \A e \in ToSet(pool'.entries) : e.id \in leases'
  PROVE  ManagerInv' /\ [Ledger!Next]_Ledger!vars
<1>1. UNCHANGED Ledger!vars
  BY SameRequests, SameKeys DEF Ledger!vars
<1>2. Typed'
  BY DEF ManagerInv, Typed, Live
<1>3. LookupKnown'
  BY DEF ManagerInv, LookupKnown, SameIndexes
<1>4. OwnTokens'
  BY DEF ManagerInv, OwnTokens, SlotOf, Live
<1> QED BY <1>1, <1>2, <1>3, <1>4, InvariantKept

\* PrefixBlockRetentionState::retain.
LEMMA RetainPrefixKeeps ==
  ASSUME ManagerInv, NEW l \in Lease, NEW c \in Chains, NEW k \in 1..Len(c), RetainPrefix(l, c, k)
  PROVE  Kept
<1>1. /\ l \notin leases /\ pool' = Retain(pool, l, SubSeq(c, 1, k)) /\ leases' = leases \cup {l}
      /\ UNCHANGED <<reqs, total_reserved, seqs, lookup, kv>>
  BY DEF RetainPrefix
<1>2. PoolInv(pool) /\ \A e \in ToSet(pool.entries) : e.id # l
  BY <1>1 DEF ManagerInv
<1>3. PICK hs \in Seq(Hash) : hs = SubSeq(c, 1, k) /\ IsInjective(hs)
  <2>1. c \in Seq(Hash)
    BY ManagerAssumption
  <2>2. \A i, j \in 1..Len(c) : c[i] = c[j] => i = j
    BY HashAssumption
  <2>3. IsInjective(c)
    BY <2>1, <2>2, InjectiveByPositions
  <2>4. 1 \in 1..(Len(c) + 1) /\ k \in 0..Len(c)
    BY <2>1
  <2>5. SubSeq(c, 1, k) \in Seq(Hash) /\ IsInjective(SubSeq(c, 1, k))
    BY <2>1, <2>3, <2>4, SubSeqKeeps
  <2> QED BY <2>5
<1>4. pool' = Retain(pool, l, hs)
  BY <1>1, <1>3
<1>5. /\ PoolInv(pool') /\ pool'.ref_cnt = pool.ref_cnt /\ SameIndexes(pool, pool')
      /\ \A f \in ToSet(pool'.entries) : f \in ToSet(pool.entries) \/ f.id = l
  <2>1. PICK p : p = pool
    OBVIOUS
  <2>2. PoolInv(p) /\ \A e \in ToSet(p.entries) : e.id # l
    BY <1>2, <2>1
  <2>3. LET q == Retain(p, l, hs)
        IN  /\ PoolInv(q) /\ q.ref_cnt = p.ref_cnt /\ SameIndexes(p, q)
            /\ \A f \in ToSet(q.entries) : f \in ToSet(p.entries) \/ f.id = l
    <3>1. IsInjective(hs)
      BY <1>3
    <3> QED BY <2>2, <3>1, RetainKeeps
  <2> QED BY <1>4, <2>1, <2>3
<1>6. leases' \subseteq Lease /\ \A e \in ToSet(pool'.entries) : e.id \in leases'
  BY <1>1, <1>5 DEF ManagerInv, Typed
<1>7. ManagerInv' /\ [Ledger!Next]_Ledger!vars
  BY <1>1, <1>5, <1>6, PinsOnly
<1>8. RevokesInOrder
  <2>1. leases' # leases
    BY <1>1
  <2> QED BY <2>1 DEF RevokesInOrder
<1> QED BY <1>7, <1>8 DEF Kept

\* A lease is used again.
LEMMA TouchPrefixKeeps ==
  ASSUME ManagerInv, NEW l \in Lease, TouchPrefix(l)
  PROVE  Kept
<1>1. /\ pool' = TouchLease(pool, l) /\ leases' = leases
      /\ UNCHANGED <<reqs, total_reserved, seqs, lookup, kv>>
  BY DEF TouchPrefix
<1>2. PoolInv(pool) /\ pool \in PoolRecord
  BY PoolInvIs DEF ManagerInv
<1>3. /\ PoolInv(pool') /\ pool'.ref_cnt = pool.ref_cnt /\ SameIndexes(pool, pool')
      /\ ToSet(pool'.entries) = ToSet(pool.entries) /\ Len(pool'.entries) = Len(pool.entries)
  BY <1>1, <1>2, TouchLeaseKeeps
<1>4. leases' \subseteq Lease /\ \A e \in ToSet(pool'.entries) : e.id \in leases'
  BY <1>1, <1>3 DEF ManagerInv, Typed
<1>5. ManagerInv' /\ [Ledger!Next]_Ledger!vars
  BY <1>1, <1>3, <1>4, PinsOnly
<1>6. ~(Len(pool'.entries) < Len(pool.entries))
  <2>1. pool.entries \in Seq(LeaseEntry)
    BY <1>2 DEF PoolRecord
  <2> QED BY <1>3, <2>1
<1> QED BY <1>5, <1>6 DEF Kept, RevokesInOrder

\* A lease is dropped.
LEMMA DropPrefixKeeps ==
  ASSUME ManagerInv, NEW l \in Lease, DropPrefix(l)
  PROVE  Kept
<1>1. /\ l \in leases /\ pool' = DropLease(pool, l) /\ leases' = leases \ {l}
      /\ UNCHANGED <<reqs, total_reserved, seqs, lookup, kv>>
  BY DEF DropPrefix
<1>2. PoolInv(pool)
  BY DEF ManagerInv
<1>3. /\ PoolInv(pool') /\ pool'.ref_cnt = pool.ref_cnt /\ SameIndexes(pool, pool')
      /\ \A e \in ToSet(pool'.entries) : e \in ToSet(pool.entries) /\ e.id # l
  BY <1>1, <1>2, DropLeaseKeeps
<1>4. leases' \subseteq Lease /\ \A e \in ToSet(pool'.entries) : e.id \in leases'
  BY <1>1, <1>3 DEF ManagerInv, Typed
<1>5. ManagerInv' /\ [Ledger!Next]_Ledger!vars
  BY <1>1, <1>3, <1>4, PinsOnly
<1>6. leases' # leases
  BY <1>1
<1> QED BY <1>5, <1>6 DEF Kept, RevokesInOrder

\* The revocation monitor is read.
LEMMA TakePendingKeeps ==
  ASSUME ManagerInv, TakePendingRevocation
  PROVE  Kept
<1>1. /\ pool' = [pool EXCEPT !.revoked = FALSE] /\ UNCHANGED <<reqs, total_reserved, seqs, lookup, kv, leases>>
  BY DEF TakePendingRevocation
<1>2. /\ pool \in PoolRecord /\ pool.ok /\ Shape(pool) /\ LeasesCounted(pool) /\ PinsKnown(pool)
      /\ (~pool.dirty => CaughtUp(pool)) /\ (pool.dirty => Lease # {})
  BY PoolInvIs DEF ManagerInv
<1>3. /\ pool' \in PoolRecord /\ pool'.ok = pool.ok /\ SameIndexes(pool, pool') /\ pool'.ref_cnt = pool.ref_cnt
      /\ pool'.retained_block = pool.retained_block /\ pool'.retention_count = pool.retention_count
      /\ pool'.retained = pool.retained /\ pool'.retained_free = pool.retained_free /\ pool'.queue = pool.queue
      /\ pool'.entries = pool.entries /\ pool'.hash_ref = pool.hash_ref /\ pool'.dirty = pool.dirty
      /\ pool'.retained_hashes = pool.retained_hashes
  BY <1>1, <1>2 DEF PoolRecord, SameIndexes
<1>4. Shape(pool') /\ LeasesCounted(pool')
  BY <1>2, <1>3, ShapeSame, LeasesSame
<1>5. PinsKnown(pool') /\ (~pool'.dirty => CaughtUp(pool'))
  BY <1>2, <1>3 DEF PinsKnown, CaughtUp, SameIndexes
<1>6. PoolInv(pool')
  BY <1>2, <1>3, <1>4, <1>5, PoolInvIs
<1>7. leases' \subseteq Lease /\ \A e \in ToSet(pool'.entries) : e.id \in leases'
  BY <1>1, <1>3 DEF ManagerInv, Typed
<1>8. ManagerInv' /\ [Ledger!Next]_Ledger!vars
  BY <1>1, <1>3, <1>6, <1>7, PinsOnly
<1>9. ~(Len(pool'.entries) < Len(pool.entries))
  <2>1. pool.entries \in Seq(LeaseEntry)
    BY <1>2 DEF PoolRecord
  <2> QED BY <1>3, <2>1
<1> QED BY <1>8, <1>9 DEF Kept, RevokesInOrder

-----------------------------------------------------------------------------

\* A step that changes nothing but the scheduler's lookup.
LEMMA LookupOnly ==
  ASSUME ManagerInv, UNCHANGED <<pool, reqs, total_reserved, seqs, kv, leases>>, LookupKnown'
  PROVE  Kept
<1>1. UNCHANGED Ledger!vars
  BY SameRequests DEF Ledger!vars, Keys, KeyOf
<1>2. Typed' /\ OwnTokens'
  BY DEF ManagerInv, Typed, Live, OwnTokens, SlotOf
<1>3. PoolInv(pool') /\ \A e \in ToSet(pool'.entries) : e.id \in leases'
  BY DEF ManagerInv
<1>4. ManagerInv'
  BY <1>1, <1>2, <1>3, InvariantKept
<1>5. ~(Len(pool'.entries) < Len(pool.entries))
  <2>1. pool \in PoolRecord
    BY PoolInvIs DEF ManagerInv
  <2>2. pool.entries \in Seq(LeaseEntry)
    BY <2>1 DEF PoolRecord
  <2> QED BY <2>2
<1> QED BY <1>1, <1>4, <1>5 DEF Kept, RevokesInOrder

\* A sequence that does not fit is not retried.
LEMMA AbandonLookupKeeps ==
  ASSUME ManagerInv, AbandonLookup
  PROVE  Kept
BY LookupOnly DEF AbandonLookup, LookupKnown

\* get_computed_blocks finds blocks that carry the hashes it looks for.
LEMMA GetComputedBlocksKeeps ==
  ASSUME ManagerInv, NEW r \in Req, NEW c \in Chains, NEW n \in Nat \ {0}, GetComputedBlocks(r, c, n)
  PROVE  Kept /\ Len(lookup'.hit) * BlockSize < n
<1>1. UNCHANGED <<pool, reqs, total_reserved, seqs, kv, leases>>
  BY DEF GetComputedBlocks
<1>2. PICK found \in LongestHits(c, n) : \E k \in 0..Len(found) :
          lookup' = [req |-> {r}, chain |-> c, tokens |-> n, hit |-> SubSeq(found, 1, k)]
  BY DEF GetComputedBlocks
<1>3. PICK k \in 0..Len(found) : lookup' = [req |-> {r}, chain |-> c, tokens |-> n, hit |-> SubSeq(found, 1, k)]
  BY <1>2
<1>4. c \in Seq(Hash)
  BY ManagerAssumption
<1>5. PICK d \in Nat : d = (n - 1) \div BlockSize /\ d * BlockSize <= n - 1
  <2>1. n - 1 \in Nat
    OBVIOUS
  <2> QED BY <2>1, TokenPosition
<1>6. PICK bound \in Nat : bound = LesserOf((n - 1) \div BlockSize, Len(c)) /\ bound <= d /\ bound <= Len(c)
  <2>1. Len(c) \in Nat
    BY <1>4
  <2>2. LesserOf(d, Len(c)) \in Nat /\ LesserOf(d, Len(c)) <= d /\ LesserOf(d, Len(c)) <= Len(c)
    BY <2>1 DEF LesserOf
  <2> QED BY <1>5, <2>2
<1>7. PICK m \in 0..bound : found \in [1..m -> Block]
  BY <1>6 DEF LongestHits
<1>8. \A i \in 1..Len(found) : found[i] \in CachedBlocks(pool, c[i])
  BY DEF LongestHits
<1>9. found \in Seq(Block) /\ Len(found) = m /\ k \in Nat /\ k <= m
  BY <1>7
<1>10. PICK hit \in Seq(Block) : hit = SubSeq(found, 1, k) /\ Len(hit) = k /\ \A i \in 1..k : hit[i] = found[i]
  <2>1. k \in 0..Len(found)
    OBVIOUS
  <2>2. SubSeq(found, 1, k) \in Seq(Block) /\ Len(SubSeq(found, 1, k)) = k
    BY <1>9
  <2>3. \A i \in 1..k : SubSeq(found, 1, k)[i] = found[i]
    BY <1>9
  <2> QED BY <2>2, <2>3
<1>11. Indexed(pool) /\ pool \in PoolRecord
  BY PoolInvIs DEF ManagerInv, Shape
<1>12. \A i \in 1..k : c[i] \in pool.block_hashes[hit[i]]
  <2> SUFFICES ASSUME NEW i \in 1..k PROVE c[i] \in pool.block_hashes[hit[i]]
    OBVIOUS
  <2>1. i \in 1..Len(found) /\ i \in 1..Len(c) /\ hit[i] = found[i] /\ hit[i] \in Block
    BY <1>4, <1>6, <1>9, <1>10
  <2>2. PICK b, h : b = hit[i] /\ h = c[i]
    OBVIOUS
  <2>3. b \in CachedBlocks(pool, h) /\ h \in Hash /\ b \in Block
    BY <1>4, <1>8, <2>1, <2>2
  <2>4. h \in pool.block_hashes[b]
    BY <1>11, <2>3 DEF CachedBlocks, Indexed
  <2> QED BY <2>2, <2>4
<1>13. k * BlockSize \in Nat /\ k * BlockSize < n
  <2>1. k <= d
    BY <1>6, <1>9
  <2>2. k * BlockSize <= n - 1
    BY <1>5, <1>9, <2>1, BlockOfToken
  <2>3. k * BlockSize \in Nat
    BY <1>9, WholeBlocks
  <2> QED BY <2>2, <2>3
<1>14. LookupKnown'
  <2>1. lookup' = [req |-> {r}, chain |-> c, tokens |-> n, hit |-> hit]
    BY <1>3, <1>10
  <2>2. lookup' \in [req : SUBSET Req, chain : Chains, tokens : Nat, hit : Seq(Block)]
    BY <2>1
  <2>3. Len(lookup'.hit) = k /\ lookup'.chain = c /\ lookup'.tokens = n /\ lookup'.hit = hit
    BY <1>10, <2>1
  <2>4. k <= Len(c)
    BY <1>4, <1>6, <1>9
  <2> QED BY <1>1, <1>12, <1>13, <2>2, <2>3, <2>4 DEF LookupKnown
<1>15. Len(lookup'.hit) = k
  BY <1>3, <1>10
<1> QED BY <1>1, <1>13, <1>14, <1>15, LookupOnly

\* The tokens tok, computed into the blocks ids of the memory m.
OwnIn(m, ids, tok) ==
    /\ tok.computed <= Len(ids) * BlockSize
    /\ \A t \in 0..(tok.computed - 1) : t < Len(tok.chain) * BlockSize =>
          m[ids[t \div BlockSize + 1]][t % BlockSize] = tok.chain[t \div BlockSize + 1]

\* OwnTokens, request by request.
LEMMA OwnTokensIs ==
  /\ OwnTokens <=> \A r \in Live : OwnIn(kv, reqs[r].block_ids, seqs[r])
  /\ OwnTokens' <=> \A r \in Live' : OwnIn(kv', reqs'[r].block_ids, seqs'[r])
<1>1. OwnTokens <=> \A r \in Live : OwnIn(kv, reqs[r].block_ids, seqs[r])
  BY DEF OwnTokens, OwnIn, SlotOf
<1>2. OwnTokens' <=> \A r \in Live' : OwnIn(kv', reqs'[r].block_ids, seqs'[r])
  BY DEF OwnTokens, OwnIn, SlotOf
<1> QED BY <1>1, <1>2

\* Only the blocks that computed tokens reach into matter.
LEMMA OwnPrefix ==
  ASSUME NEW m, NEW ids, NEW tok \in TokensRecord, OwnIn(m, ids, tok),
         NEW more, NEW k \in Nat, tok.computed <= k * BlockSize, k <= Len(more), Len(more) \in Nat,
         \A i \in 1..k : more[i] = ids[i]
  PROVE  OwnIn(m, more, tok)
<1>1. tok.computed \in Nat
  BY DEF TokensRecord
<1>2. tok.computed <= Len(more) * BlockSize
  <2>1. PICK n \in Nat : n = tok.computed
    BY <1>1
  <2>2. DivCeil(n) \in Nat /\ (\A l \in Nat : n <= l * BlockSize <=> DivCeil(n) <= l)
    BY CeilCovers
  <2>3. PICK d \in Nat : d = DivCeil(n)
    BY <2>2
  <2>4. PICK l \in Nat : l = Len(more)
    OBVIOUS
  <2>5. d <= k
    BY <2>1, <2>2, <2>3
  <2>6. d <= l
    BY <2>4, <2>5
  <2> QED BY <2>1, <2>2, <2>3, <2>4, <2>6
<1>3. ASSUME NEW t \in 0..(tok.computed - 1), t < Len(tok.chain) * BlockSize
      PROVE  m[more[t \div BlockSize + 1]][t % BlockSize] = tok.chain[t \div BlockSize + 1]
  <2>1. t \in Nat /\ t < k * BlockSize
    <3>1. k * BlockSize \in Nat
      BY WholeBlocks
    <3> QED BY <1>1, <3>1
  <2>2. PICK d \in Nat : d = t \div BlockSize /\ d < k
    BY <2>1, TokenPosition, BlockOfToken
  <2>3. d + 1 \in 1..k
    BY <2>2
  <2>4. more[d + 1] = ids[d + 1]
    BY <2>3
  <2> QED BY <1>3, <2>2, <2>4 DEF OwnIn
<1> QED BY <1>2, <1>3 DEF OwnIn

\* A step that changes one request, whose blocks then hold its tokens.
LEMMA OthersOwn ==
  ASSUME ManagerInv, UNCHANGED kv, NEW r,
         \A x \in Live' \ {r} : x \in Live /\ reqs'[x] = reqs[x] /\ seqs'[x] = seqs[x],
         r \in Live' => OwnIn(kv, reqs'[r].block_ids, seqs'[r])
  PROVE  OwnTokens'
<1>1. \A x \in Live : OwnIn(kv, reqs[x].block_ids, seqs[x])
  BY OwnTokensIs DEF ManagerInv
<1>2. ASSUME NEW x \in Live' PROVE OwnIn(kv', reqs'[x].block_ids, seqs'[x])
  BY <1>1
<1> QED BY <1>2, OwnTokensIs

\* The members of a sequence, as the ledger and as the pool name them.
LEMMA ElementsAre ==
  ASSUME NEW T, NEW q \in Seq(T)
  PROVE  Ledger!Elements(q) = ToSet(q) /\ (Ledger!Distinct(q) <=> IsInjective(q))
<1>1. Ledger!Elements(q) = ToSet(q)
  <2>1. \A x : x \in ToSet(q) <=> \E i \in 1..Len(q) : q[i] = x
    BY MembersHavePositions
  <2> QED BY <2>1 DEF Ledger!Elements
<1>2. Ledger!Distinct(q) <=> IsInjective(q)
  BY InjectiveByPositions DEF Ledger!Distinct
<1> QED BY <1>1, <1>2

\* The lookup is as good as before when no block has lost its key.
LEMMA LookupKept ==
  ASSUME ManagerInv, UNCHANGED lookup, \A b \in Block : pool.block_hashes[b] \subseteq pool'.block_hashes[b]
  PROVE  LookupKnown'
<1>1. SUFFICES ASSUME lookup' # NoLookup
               PROVE  /\ lookup' \in [req : SUBSET Req, chain : Chains, tokens : Nat, hit : Seq(Block)]
                      /\ Len(lookup'.hit) <= Len(lookup'.chain)
                      /\ Len(lookup'.hit) * BlockSize <= lookup'.tokens
                      /\ \A i \in 1..Len(lookup'.hit) : lookup'.chain[i] \in pool'.block_hashes[lookup'.hit[i]]
  BY DEF LookupKnown
<1>2. /\ lookup \in [req : SUBSET Req, chain : Chains, tokens : Nat, hit : Seq(Block)]
      /\ Len(lookup.hit) <= Len(lookup.chain)
      /\ Len(lookup.hit) * BlockSize <= lookup.tokens
      /\ \A i \in 1..Len(lookup.hit) : lookup.chain[i] \in pool.block_hashes[lookup.hit[i]]
  BY <1>1 DEF ManagerInv, LookupKnown
<1>3. PICK hit \in Seq(Block) : hit = lookup.hit
  BY <1>2
<1>4. \A i \in 1..Len(hit) : hit[i] \in Block
  OBVIOUS
<1> QED BY <1>2, <1>3, <1>4

\* free returns every block of the request and its reservation.
LEMMA FreeKeeps ==
  ASSUME ManagerInv, NEW r \in Req, Free(r)
  PROVE  Kept
<1>1. /\ r \in Live /\ total_reserved' = total_reserved - reqs[r].reserved_blocks
      /\ pool' \in FreeBlocks(pool, Reverse(reqs[r].block_ids))
      /\ reqs' = Without(reqs, r) /\ seqs' = Without(seqs, r) /\ UNCHANGED <<lookup, kv, leases>>
  BY DEF Free, ReleaseOrder
<1>2. Typed /\ PoolInv(pool) /\ pool \in PoolRecord
  BY PoolInvIs DEF ManagerInv
<1>3. PICK ids \in Seq(Block) : ids = reqs[r].block_ids /\ IsInjective(ids) /\ \A b \in ToSet(ids) : pool.ref_cnt[b] > 0
  BY <1>1, HeldFacts DEF RequestFacts
<1>4. PICK bs \in Seq(Block) : bs = Reverse(ids) /\ IsInjective(bs) /\ ToSet(bs) = ToSet(ids)
  BY <1>3, ReverseKeeps
<1>5. pool' \in FreeBlocks(pool, bs)
  BY <1>1, <1>3, <1>4
<1>6. /\ PoolInv(pool') /\ SameCaches(pool, pool')
      /\ \A b \in Block : pool'.ref_cnt[b] = IF b \in ToSet(bs) THEN pool.ref_cnt[b] - 1 ELSE pool.ref_cnt[b]
  BY <1>2, <1>3, <1>4, <1>5, FreeBlocksKeeps
<1>7. /\ Live' = Live \ {r} /\ BlocksOf' = [BlocksOf EXCEPT ![r] = << >>]
      /\ CachedOf' = [CachedOf EXCEPT ![r] = 0] /\ ReservedOf' = [ReservedOf EXCEPT ![r] = 0]
      /\ \A x \in Live \ {r} : reqs'[x] = reqs[x]
  BY <1>1, ReqsWithout
<1>8. /\ HashesOf' = [HashesOf EXCEPT ![r] = << >>] /\ DoneOf' = [DoneOf EXCEPT ![r] = 0]
      /\ \A x \in DOMAIN seqs \ {r} : seqs'[x] = seqs[x]
  BY <1>1, SeqsWithout
<1>9. Keys' = Keys /\ Contents' = Contents
  BY <1>1, <1>6, SameKeys, SameRequests DEF SameCaches
<1>10. BlocksOf[r] = ids /\ ReservedOf[r] = reqs[r].reserved_blocks
  BY <1>1, <1>2, <1>3, Mapped
<1>11. pool'.ref_cnt = [b \in Block |-> IF b \in Ledger!Elements(BlocksOf[r]) THEN pool.ref_cnt[b] - 1 ELSE pool.ref_cnt[b]]
  <2>1. Ledger!Elements(BlocksOf[r]) = ToSet(bs)
    BY <1>4, <1>10, ElementsAre
  <2>2. pool' \in PoolRecord
    BY <1>6, PoolInvIs
  <2>3. pool'.ref_cnt = [b \in Block |-> pool'.ref_cnt[b]]
    BY <2>2 DEF PoolRecord
  <2> QED BY <1>6, <2>1, <2>3
<1>12. Ledger!Free(r)
  BY <1>1, <1>7, <1>8, <1>9, <1>10, <1>11 DEF Ledger!Free
<1>13. [Ledger!Next]_Ledger!vars
  BY <1>12 DEF Ledger!Next
<1>14. Typed'
  <2>1. Live' \subseteq Req /\ leases' \subseteq Lease /\ kv' \in [Block -> [Slot -> Hash \cup {Junk}]]
    BY <1>1, <1>2, <1>7 DEF Typed
  <2>2. reqs' \in [Live' -> RequestRecord] /\ seqs' \in [Live' -> TokensRecord]
    BY <1>1, <1>2, <1>7 DEF Typed, Without, Live
  <2> QED BY <2>1, <2>2 DEF Typed
<1>15. LookupKnown'
  BY <1>1, <1>6, LookupKept DEF SameCaches, SameIndexes
<1>16. OwnTokens'
  <2>1. \A x \in Live' \ {r} : x \in Live /\ reqs'[x] = reqs[x] /\ seqs'[x] = seqs[x]
    BY <1>2, <1>7, <1>8 DEF Typed
  <2>2. r \notin Live'
    BY <1>7
  <2> QED BY <1>1, <2>1, <2>2, OthersOwn
<1>17. \A e \in ToSet(pool'.entries) : e.id \in leases'
  BY <1>1, <1>6 DEF ManagerInv, SameCaches
<1>18. ManagerInv'
  BY <1>6, <1>13, <1>14, <1>15, <1>16, <1>17, InvariantKept
<1>19. RevokesInOrder
  BY <1>2, <1>6, NoLeaseRevoked, RevokedInOrder DEF SameCaches
<1> QED BY <1>13, <1>18, <1>19 DEF Kept

\* A request that is there gets a new entry.
LEMMA Updated ==
  ASSUME Typed, NEW r \in Live, NEW v \in RequestRecord, reqs' = [reqs EXCEPT ![r] = v]
  PROVE  /\ reqs' = With(reqs, r, v) /\ r \in Req /\ Live' = Live
         /\ reqs' \in [Live' -> RequestRecord]
         /\ BlocksOf' = [BlocksOf EXCEPT ![r] = v.block_ids]
         /\ CachedOf' = [CachedOf EXCEPT ![r] = v.num_cached_blocks]
         /\ ReservedOf' = [ReservedOf EXCEPT ![r] = v.reserved_blocks]
         /\ reqs'[r] = v /\ \A x \in Live \ {r} : reqs'[x] = reqs[x]
<1>1. r \in Req /\ reqs \in [Live -> RequestRecord] /\ DOMAIN reqs = Live
  BY DEF Typed, Live
<1>2. reqs' = With(reqs, r, v)
  BY <1>1 DEF With
<1>3. Live' = Live
  BY <1>1 DEF Live
<1>4. reqs' \in [Live' -> RequestRecord]
  BY <1>1, <1>3
<1> QED BY <1>1, <1>2, <1>3, <1>4, ReqsWith

\* trim_request_to_num_tokens cuts no computed token off.
LEMMA TrimKeeps ==
  ASSUME ManagerInv, NEW r \in Req, NEW n \in Nat, TrimRequest(r, n)
  PROVE  Kept
<1> DEFINE req  == reqs[r]
           tok  == seqs[r]
           keep == DivCeil(n)
           gone == SubSeq(req.block_ids, keep + 1, Len(req.block_ids))
           back == IF req.reserved_blocks # 0 THEN Len(gone) ELSE 0
<1>1. /\ r \in Live /\ n >= tok.computed /\ keep < Len(req.block_ids)
      /\ reqs' = [reqs EXCEPT ![r].block_ids = SubSeq(@, 1, keep),
                              ![r].num_cached_blocks = LesserOf(@, keep),
                              ![r].reserved_blocks = @ + back]
      /\ pool' \in FreeBlocks(pool, Reverse(gone))
      /\ total_reserved' = total_reserved + back
      /\ UNCHANGED <<seqs, lookup, kv, leases>>
  BY DEF TrimRequest, ReleaseOrder
<1>2. Typed /\ PoolInv(pool) /\ pool \in PoolRecord
  BY PoolInvIs DEF ManagerInv
<1>3. PICK ids, cached, c, done :
         /\ ids = req.block_ids /\ cached = req.num_cached_blocks /\ c = tok.chain /\ done = tok.computed \div BlockSize
         /\ RequestFacts(r, ids, cached, c, done)
  BY <1>1, HeldFacts
<1>4. /\ ids \in Seq(Block) /\ IsInjective(ids) /\ Len(ids) <= NumBlocks /\ \A b \in ToSet(ids) : pool.ref_cnt[b] > 0
      /\ cached \in Nat /\ done \in Nat /\ cached <= done /\ req.reserved_blocks \in Nat
  BY <1>3 DEF RequestFacts
<1>5. req \in RequestRecord /\ tok \in TokensRecord /\ tok.computed \in Nat
  BY <1>1, <1>2, Mapped DEF TokensRecord
<1>6. PICK k \in Nat : k = keep /\ n <= k * BlockSize /\ k < Len(ids)
  BY <1>1, <1>3, CeilCovers
<1>7. tok.computed <= k * BlockSize /\ done <= k
  <2>1. tok.computed <= k * BlockSize
    <3>1. k * BlockSize \in Nat
      BY WholeBlocks
    <3> QED BY <1>1, <1>5, <1>6, <3>1
  <2>2. done * BlockSize <= tok.computed
    BY <1>3, <1>5, TokenPosition
  <2>3. done * BlockSize <= k * BlockSize
    <3>1. k * BlockSize \in Nat /\ done * BlockSize \in Nat
      BY <1>4, WholeBlocks
    <3> QED BY <1>5, <2>1, <2>2, <3>1
  <2>4. done <= (k * BlockSize) \div BlockSize
    <3>1. k * BlockSize \in Nat
      BY WholeBlocks
    <3> QED BY <1>4, <2>3, <3>1, BlockOfToken
  <2> QED BY <2>1, <2>4, WholeBlocks
<1>8. PICK out \in Seq(Block) : out = gone /\ Len(out) = Len(ids) - k
  <2>1. SubSeq(ids, k + 1, Len(ids)) \in Seq(Block) /\ Len(SubSeq(ids, k + 1, Len(ids))) = Len(ids) - k
    BY <1>4, <1>6
  <2> QED BY <1>3, <1>6, <2>1
<1>9. IsInjective(out) /\ \A x : x \in ToSet(out) <=> \E i \in (k + 1)..Len(ids) : ids[i] = x
  <2>1. k + 1 \in 1..(Len(ids) + 1) /\ Len(ids) \in 0..Len(ids)
    BY <1>4, <1>6
  <2>2. PICK w \in 0..Len(ids), j \in 1..(Len(ids) + 1) : w = Len(ids) /\ j = k + 1
    BY <2>1
  <2>3. /\ \A x : x \in ToSet(SubSeq(ids, j, w)) <=> \E i \in j..w : ids[i] = x
        /\ IsInjective(SubSeq(ids, j, w))
    BY <1>4, SubSeqKeeps
  <2>4. out = SubSeq(ids, j, w)
    BY <1>3, <1>6, <1>8, <2>2
  <2> QED BY <2>2, <2>3, <2>4
<1>10. PICK stay \in Seq(Block) : /\ stay = SubSeq(ids, 1, k) /\ Len(stay) = k /\ \A i \in 1..k : stay[i] = ids[i]
  <2>1. SubSeq(ids, 1, k) \in Seq(Block) /\ Len(SubSeq(ids, 1, k)) = k
    BY <1>4, <1>6
  <2>2. \A i \in 1..k : SubSeq(ids, 1, k)[i] = ids[i]
    BY <1>4, <1>6
  <2> QED BY <2>1, <2>2
<1>11. PICK bs \in Seq(Block) : bs = Reverse(out) /\ IsInjective(bs) /\ ToSet(bs) = ToSet(out)
  BY <1>9, ReverseKeeps
<1>12. /\ pool' \in FreeBlocks(pool, bs) /\ \A b \in ToSet(bs) : pool.ref_cnt[b] > 0
  <2>1. pool' \in FreeBlocks(pool, bs)
    BY <1>1, <1>8, <1>11
  <2>2. ToSet(bs) \subseteq ToSet(ids)
    <3>1. \A x : x \in ToSet(ids) <=> \E i \in 1..Len(ids) : ids[i] = x
      BY <1>4, MembersHavePositions
    <3> QED BY <1>6, <1>9, <1>11, <3>1
  <2> QED BY <1>4, <2>1, <2>2
<1>13. /\ PoolInv(pool') /\ SameCaches(pool, pool')
       /\ \A b \in Block : pool'.ref_cnt[b] = IF b \in ToSet(bs) THEN pool.ref_cnt[b] - 1 ELSE pool.ref_cnt[b]
  <2>1. IsInjective(bs)
    BY <1>11
  <2> QED BY <1>2, <1>12, <2>1, FreeBlocksKeeps
<1>14. PICK m \in Nat : m = back /\ m = IF req.reserved_blocks # 0 THEN Len(ids) - k ELSE 0
  <2>1. Len(ids) - k \in Nat
    BY <1>4, <1>6
  <2>2. back = IF req.reserved_blocks # 0 THEN Len(ids) - k ELSE 0
    BY <1>8
  <2> QED BY <2>1, <2>2
<1>15. PICK v \in RequestRecord :
          /\ v.block_ids = stay /\ v.num_cached_blocks = cached /\ v.reserved_blocks = req.reserved_blocks + m
          /\ reqs' = [reqs EXCEPT ![r] = v]
  <2>1. LesserOf(cached, keep) = cached
    BY <1>4, <1>6, <1>7 DEF LesserOf
  <2>2. PICK w \in Nat : w = req.reserved_blocks + m
    BY <1>4
  <2>3. PICK y \in RequestRecord : y = req
    BY <1>5
  <2>4. PICK v : v = [y EXCEPT !.block_ids = stay, !.num_cached_blocks = cached, !.reserved_blocks = w]
    OBVIOUS
  <2>5. v \in RequestRecord /\ v.block_ids = stay /\ v.num_cached_blocks = cached /\ v.reserved_blocks = w
    BY <1>4, <2>4 DEF RequestRecord
  <2>6. reqs' = [reqs EXCEPT ![r] = v]
    <3>1. SubSeq(req.block_ids, 1, keep) = stay /\ LesserOf(req.num_cached_blocks, keep) = cached
      BY <1>3, <1>6, <1>10, <2>1
    <3> QED BY <1>1, <1>14, <2>2, <2>3, <2>4, <3>1
  <2> QED BY <2>2, <2>5, <2>6
<1>16. /\ Live' = Live /\ reqs' \in [Live' -> RequestRecord]
       /\ BlocksOf' = [BlocksOf EXCEPT ![r] = stay]
       /\ CachedOf' = [CachedOf EXCEPT ![r] = cached]
       /\ ReservedOf' = [ReservedOf EXCEPT ![r] = req.reserved_blocks + m]
       /\ reqs'[r].block_ids = stay /\ \A x \in Live \ {r} : reqs'[x] = reqs[x]
  <2>1. v.block_ids = stay /\ v.num_cached_blocks = cached /\ v.reserved_blocks = req.reserved_blocks + m
    BY <1>15
  <2>2. reqs' = [reqs EXCEPT ![r] = v]
    BY <1>15
  <2>3. /\ Live' = Live /\ reqs' \in [Live' -> RequestRecord]
        /\ BlocksOf' = [BlocksOf EXCEPT ![r] = v.block_ids]
        /\ CachedOf' = [CachedOf EXCEPT ![r] = v.num_cached_blocks]
        /\ ReservedOf' = [ReservedOf EXCEPT ![r] = v.reserved_blocks]
        /\ reqs'[r] = v /\ \A x \in Live \ {r} : reqs'[x] = reqs[x]
    BY <1>1, <1>2, <2>2, Updated
  <2> HIDE DEF req
  <2> QED BY <2>1, <2>3, ZenonT(30)
<1>17. /\ BlocksOf[r] = ids /\ CachedOf[r] = cached /\ ReservedOf[r] = req.reserved_blocks /\ DoneOf[r] = done
       /\ CachedOf \in [Req -> Nat]
  <2>1. BlocksOf[r] = ids /\ CachedOf[r] = cached /\ ReservedOf[r] = req.reserved_blocks /\ DoneOf[r] = done
    BY <1>1, <1>2, <1>3, Mapped
  <2>2. CachedOf \in [Req -> Nat]
    BY DEF ManagerInv, Ledger!LedgerInv, Ledger!TypeOK
  <2> QED BY <2>1, <2>2
<1>18. UNCHANGED <<Keys, Contents, HashesOf, DoneOf, CachedOf>>
  <2>1. Keys' = Keys /\ Contents' = Contents /\ UNCHANGED <<HashesOf, DoneOf>>
    BY <1>1, <1>13, SameKeys, SameRequests DEF SameCaches
  <2>2. CachedOf' = CachedOf
    BY <1>16, <1>17
  <2> QED BY <2>1, <2>2
<1>19. pool'.ref_cnt = [b \in Block |-> IF b \in {ids[i] : i \in (k + 1)..Len(ids)} THEN pool.ref_cnt[b] - 1 ELSE pool.ref_cnt[b]]
  <2>1. {ids[i] : i \in (k + 1)..Len(ids)} = ToSet(bs)
    BY <1>9, <1>11
  <2>2. pool' \in PoolRecord
    BY <1>13, PoolInvIs
  <2>3. pool'.ref_cnt = [b \in Block |-> pool'.ref_cnt[b]]
    BY <2>2 DEF PoolRecord
  <2> QED BY <1>13, <2>1, <2>3
<1>20. Ledger!Trim(r, k)
  <2>1. k \in done..(Len(ids) - 1)
    BY <1>4, <1>6, <1>7
  <2> HIDE DEF req, tok, keep, gone, back
  <2> QED BY <1>1, <1>10, <1>14, <1>16, <1>17, <1>18, <1>19, <2>1 DEF Ledger!Trim
<1>21. [Ledger!Next]_Ledger!vars
  <2>1. k \in 0..Ledger!Cardinality(Block)
    BY <1>4, <1>6, BlocksFinite, SameCardinality
  <2> QED BY <1>20, <2>1 DEF Ledger!Next
<1>22. Typed'
  BY <1>1, <1>2, <1>16 DEF Typed
<1>23. LookupKnown'
  BY <1>1, <1>13, LookupKept DEF SameCaches, SameIndexes
<1>24. OwnTokens'
  <2>1. OwnIn(kv, ids, tok)
    BY <1>1, <1>3, OwnTokensIs DEF ManagerInv
  <2>2. OwnIn(kv, stay, tok)
    <3>1. k <= Len(stay) /\ Len(stay) \in Nat
      BY <1>10
    <3>2. tok.computed <= k * BlockSize /\ \A i \in 1..k : stay[i] = ids[i]
      BY <1>7, <1>10
    <3> HIDE DEF tok
    <3> QED BY <1>5, <2>1, <3>1, <3>2, OwnPrefix
  <2>3. \A x \in Live' \ {r} : x \in Live /\ reqs'[x] = reqs[x] /\ seqs'[x] = seqs[x]
    BY <1>1, <1>16
  <2> QED BY <1>1, <1>16, <2>2, <2>3, OthersOwn
<1>25. \A e \in ToSet(pool'.entries) : e.id \in leases'
  BY <1>1, <1>13 DEF ManagerInv, SameCaches
<1>26. ManagerInv'
  BY <1>13, <1>21, <1>22, <1>23, <1>24, <1>25, InvariantKept
<1>27. RevokesInOrder
  BY <1>2, <1>13, NoLeaseRevoked, RevokedInOrder DEF SameCaches
<1> QED BY <1>21, <1>26, <1>27 DEF Kept

\* Only blocks in use get a key, and none loses one.
KeysGained(p, q) ==
    /\ q.ref_cnt = p.ref_cnt
    /\ \A b \in Block : p.block_hashes[b] \subseteq q.block_hashes[b]
    /\ \A b \in Block : q.ref_cnt[b] = 0 => q.block_hashes[b] = p.block_hashes[b]

\* cache_blocks publishes full blocks of one request.
LEMMA CacheBlocksKeeps ==
  ASSUME ManagerInv, NEW r \in Req, CacheBlocks(r)
  PROVE  Kept /\ KeysGained(pool, pool') /\ (Lease = {} => \A a, b : Ahead(pool'.queue, a, b) => Ahead(pool.queue, a, b))
<1> DEFINE req  == reqs[r]
           tok  == seqs[r]
<1>1. /\ r \in Live /\ req.num_cached_blocks < NumFullBlocks(r)
      /\ pool' \in CacheFullBlocks(pool, req.block_ids, tok.chain, req.num_cached_blocks, NumFullBlocks(r))
      /\ reqs' = [reqs EXCEPT ![r].num_cached_blocks = NumFullBlocks(r)]
      /\ UNCHANGED <<total_reserved, seqs, lookup, kv, leases>>
  BY DEF CacheBlocks
<1>2. Typed /\ PoolInv(pool) /\ pool \in PoolRecord
  BY PoolInvIs DEF ManagerInv
<1>3. PICK ids, cached, c, done :
         /\ ids = req.block_ids /\ cached = req.num_cached_blocks /\ c = tok.chain /\ done = tok.computed \div BlockSize
         /\ RequestFacts(r, ids, cached, c, done)
  BY <1>1, HeldFacts
<1>4. /\ ids \in Seq(Block) /\ IsInjective(ids) /\ Len(ids) <= NumBlocks /\ c \in Seq(Hash)
      /\ cached \in Nat /\ done \in Nat /\ done <= Len(ids) /\ done <= Len(c) /\ req.reserved_blocks \in Nat
      /\ \A i \in (cached + 1)..Len(ids) : pool.block_hashes[ids[i]] = {}
  BY <1>3 DEF RequestFacts
<1>5. req \in RequestRecord /\ tok \in TokensRecord
  BY <1>1, <1>2, Mapped
<1>6. NumFullBlocks(r) = done /\ cached < done
  <2>1. NumFullBlocks(r) = LesserOf(done, Len(ids))
    BY <1>3 DEF NumFullBlocks
  <2>2. NumFullBlocks(r) = done
    BY <1>4, <2>1 DEF LesserOf
  <2> QED BY <1>1, <1>3, <2>2
<1>7. pool' \in CacheFullBlocks(pool, ids, c, cached, done)
  BY <1>1, <1>3, <1>6
<1>8. \A i \in (cached + 1)..done : pool.block_hashes[ids[i]] = {}
  BY <1>4
<1>9. /\ PoolInv(pool') /\ pool'.ref_cnt = pool.ref_cnt /\ pool'.entries = pool.entries /\ pool'.revoked = pool.revoked
      /\ Published(pool, pool', ids, c, (cached + 1)..done)
      /\ Lease = {} => \A a, b : Ahead(pool'.queue, a, b) => Ahead(pool.queue, a, b)
  <2>1. ids \in Seq(Block) /\ IsInjective(ids) /\ c \in Seq(Hash) /\ cached \in Nat /\ done \in Nat
    BY <1>4
  <2>2. cached < done /\ done <= Len(ids) /\ done <= Len(c)
    BY <1>4, <1>6
  <2>3. PICK p, q : p = pool /\ q = pool'
    OBVIOUS
  <2>4. PoolInv(p) /\ q \in CacheFullBlocks(p, ids, c, cached, done)
    BY <1>2, <1>7, <2>3
  <2>5. \A i \in (cached + 1)..done : p.block_hashes[ids[i]] = {}
    BY <1>8, <2>3
  <2>6. /\ PoolInv(q) /\ q.ref_cnt = p.ref_cnt /\ q.entries = p.entries /\ q.revoked = p.revoked
        /\ Published(p, q, ids, c, (cached + 1)..done)
        /\ Lease = {} => \A a, b : Ahead(q.queue, a, b) => Ahead(p.queue, a, b)
    BY <2>1, <2>2, <2>4, <2>5, CacheFullKeeps
  <2> QED BY <2>3, <2>6
<1>10. PICK new : new = (cached + 1)..done
  OBVIOUS
<1>11. /\ \A i \in new : pool'.block_hashes[ids[i]] = {c[i]}
       /\ \A b \in Block : b \notin {ids[i] : i \in new} => pool'.block_hashes[b] = pool.block_hashes[b]
  BY <1>9, <1>10 DEF Published
<1>12. pool' \in PoolRecord
  BY <1>9, PoolInvIs
<1>13. new \subseteq 1..Len(ids) /\ new \subseteq 1..Len(c) /\ \A i \in new : ids[i] \in Block /\ c[i] \in Hash
  BY <1>4, <1>10
<1>14. Keys' \in [Block -> Hash \cup {NoHash}]
  <2>1. ASSUME NEW b \in Block PROVE KeyOf(b)' \in Hash \cup {NoHash}
    <3>1. pool'.block_hashes[b] \subseteq Hash
      BY <1>12 DEF PoolRecord
    <3> QED BY <3>1 DEF KeyOf
  <2> QED BY <2>1 DEF Keys
<1>15. \A i \in new : Keys'[ids[i]] = c[i]
  <2> SUFFICES ASSUME NEW i \in new PROVE Keys'[ids[i]] = c[i]
    OBVIOUS
  <2>1. PICK b \in Block : b = ids[i]
    BY <1>13
  <2>2. PICK h : h = c[i]
    OBVIOUS
  <2>3. pool'.block_hashes[b] = {h}
    BY <1>11, <2>1, <2>2
  <2>4. KeyOf(b)' = h
    BY <2>3 DEF KeyOf
  <2> QED BY <2>1, <2>2, <2>4 DEF Keys
<1>16. \A b \in Block : b \notin {ids[i] : i \in new} => Keys'[b] = Keys[b]
  <2> SUFFICES ASSUME NEW b \in Block, b \notin {ids[i] : i \in new} PROVE Keys'[b] = Keys[b]
    OBVIOUS
  <2>1. pool'.block_hashes[b] = pool.block_hashes[b]
    BY <1>11
  <2>2. KeyOf(b)' = KeyOf(b)
    BY <2>1 DEF KeyOf
  <2> QED BY <2>2 DEF Keys
<1>17. PICK v \in RequestRecord :
          /\ v.block_ids = ids /\ v.num_cached_blocks = done /\ v.reserved_blocks = req.reserved_blocks
          /\ reqs' = [reqs EXCEPT ![r] = v]
  <2>1. PICK y \in RequestRecord : y = req
    BY <1>5
  <2>2. PICK v : v = [y EXCEPT !.num_cached_blocks = done]
    OBVIOUS
  <2>3. v \in RequestRecord /\ v.block_ids = y.block_ids /\ v.num_cached_blocks = done /\ v.reserved_blocks = y.reserved_blocks
    BY <1>4, <2>2 DEF RequestRecord
  <2>4. reqs' = [reqs EXCEPT ![r] = v]
    BY <1>1, <1>6, <2>1, <2>2
  <2> QED BY <1>3, <2>1, <2>3, <2>4
<1>18. /\ Live' = Live /\ reqs' \in [Live' -> RequestRecord]
       /\ BlocksOf' = [BlocksOf EXCEPT ![r] = ids]
       /\ CachedOf' = [CachedOf EXCEPT ![r] = done]
       /\ ReservedOf' = [ReservedOf EXCEPT ![r] = req.reserved_blocks]
       /\ reqs'[r].block_ids = ids /\ \A x \in Live \ {r} : reqs'[x] = reqs[x]
  <2>1. v.block_ids = ids /\ v.num_cached_blocks = done /\ v.reserved_blocks = req.reserved_blocks
    BY <1>17
  <2>2. reqs' = [reqs EXCEPT ![r] = v]
    BY <1>17
  <2>3. /\ Live' = Live /\ reqs' \in [Live' -> RequestRecord]
        /\ BlocksOf' = [BlocksOf EXCEPT ![r] = v.block_ids]
        /\ CachedOf' = [CachedOf EXCEPT ![r] = v.num_cached_blocks]
        /\ ReservedOf' = [ReservedOf EXCEPT ![r] = v.reserved_blocks]
        /\ reqs'[r] = v /\ \A x \in Live \ {r} : reqs'[x] = reqs[x]
    BY <1>1, <1>2, <2>2, Updated
  <2> HIDE DEF req
  <2> QED BY <2>1, <2>3
<1>19. /\ BlocksOf[r] = ids /\ CachedOf[r] = cached /\ ReservedOf[r] = req.reserved_blocks /\ DoneOf[r] = done
       /\ HashesOf[r] = c
  BY <1>1, <1>2, <1>3, Mapped
<1>20. UNCHANGED <<BlocksOf, ReservedOf, HashesOf, DoneOf, Contents>>
  <2>1. BlocksOf \in [Req -> Seq(Block)] /\ ReservedOf \in [Req -> Nat]
    BY DEF ManagerInv, Ledger!LedgerInv, Ledger!TypeOK
  <2>2. BlocksOf' = BlocksOf
    BY <1>18, <1>19, <2>1
  <2>3. ReservedOf' = ReservedOf
    BY <1>18, <1>19, <2>1
  <2> QED BY <1>1, <2>2, <2>3, SameRequests
<1>21. Ledger!Publish(r, done)
  <2>1. done \in (cached + 1)..done
    BY <1>4, <1>6
  <2> HIDE DEF req, tok
  <2> QED BY <1>1, <1>9, <1>10, <1>14, <1>15, <1>16, <1>18, <1>19, <1>20, <2>1 DEF Ledger!Publish
<1>22. [Ledger!Next]_Ledger!vars
  <2>1. done \in 0..Ledger!Cardinality(Block)
    BY <1>4, BlocksFinite, SameCardinality
  <2> QED BY <1>21, <2>1 DEF Ledger!Next
<1>23. Typed'
  BY <1>1, <1>2, <1>18 DEF Typed
<1>24. KeysGained(pool, pool')
  <2>1. ASSUME NEW b \in Block
        PROVE  /\ pool.block_hashes[b] \subseteq pool'.block_hashes[b]
               /\ pool'.ref_cnt[b] = 0 => pool'.block_hashes[b] = pool.block_hashes[b]
    <3>1. CASE b \in {ids[i] : i \in new}
      <4>1. PICK i \in new : b = ids[i]
        BY <3>1
      <4>2. pool.block_hashes[b] = {}
        BY <1>8, <1>10, <4>1
      <4>3. i \in 1..Len(ids)
        BY <1>13, <4>1
      <4>4. b \in ToSet(ids)
        BY <1>4, <4>1, <4>3, MembersHavePositions
      <4>5. pool.ref_cnt[b] > 0
        BY <1>3, <4>4 DEF RequestFacts
      <4> QED BY <1>9, <4>2, <4>5
    <3>2. CASE b \notin {ids[i] : i \in new}
      BY <1>11, <3>2
    <3> QED BY <3>1, <3>2
  <2> QED BY <1>9, <2>1 DEF KeysGained
<1>30. LookupKnown'
  <2>1. \A b \in Block : pool.block_hashes[b] \subseteq pool'.block_hashes[b]
    BY <1>24 DEF KeysGained
  <2> QED BY <1>1, <2>1, LookupKept
<1>25. OwnTokens'
  <2>1. OwnIn(kv, ids, tok)
    BY <1>1, <1>3, OwnTokensIs DEF ManagerInv
  <2>2. \A x \in Live' \ {r} : x \in Live /\ reqs'[x] = reqs[x] /\ seqs'[x] = seqs[x]
    BY <1>1, <1>18
  <2> QED BY <1>1, <1>18, <2>1, <2>2, OthersOwn
<1>26. \A e \in ToSet(pool'.entries) : e.id \in leases'
  BY <1>1, <1>9 DEF ManagerInv
<1>27. ManagerInv'
  BY <1>9, <1>22, <1>23, <1>25, <1>26, <1>30, InvariantKept
<1>28. RevokesInOrder
  BY <1>2, <1>9, NoLeaseRevoked, RevokedInOrder
<1> QED BY <1>9, <1>22, <1>24, <1>27, <1>28 DEF Kept

-----------------------------------------------------------------------------

\* What the ledger's invariant says of the pool as a whole.
LEMMA CapacityFacts ==
  ASSUME ManagerInv
  PROVE  /\ total_reserved \in Nat
         /\ NumFree(pool) \in Nat /\ NumFree(pool) <= NumBlocks
         /\ Ledger!FreeBlocks = Idle(pool)
         /\ NumUnreserved = Ledger!Unreserved
<1>1. PoolInv(pool) /\ pool \in PoolRecord /\ Shape(pool)
  BY PoolInvIs DEF ManagerInv
<1>2. Ledger!FreeBlocks = Idle(pool)
  BY DEF Ledger!FreeBlocks, Idle
<1>3. NumFree(pool) = Cardinality(Idle(pool))
  BY <1>1, FreeIsIdle
<1>4. PICK A \in SUBSET Block : A = Idle(pool)
  BY DEF Idle
<1>5. Cardinality(A) \in Nat /\ Cardinality(A) <= NumBlocks
  BY BlocksFinite, CardMinus
<1>6. NumUnreserved = Ledger!Unreserved
  BY <1>2, <1>3, SameCardinality DEF NumUnreserved, Ledger!Unreserved
<1>7. total_reserved \in Nat
  <2>1. Ledger!IsFiniteSet(Ledger!ReservedSlots) /\ total_reserved = Ledger!Cardinality(Ledger!ReservedSlots)
    BY DEF ManagerInv, Ledger!LedgerInv, Ledger!ReservationsExact
  <2>2. IsFiniteSet(Ledger!ReservedSlots) /\ total_reserved = Cardinality(Ledger!ReservedSlots)
    BY <2>1, SameCardinality
  <2> QED BY <2>2, FS_CardinalityType
<1> QED BY <1>2, <1>3, <1>4, <1>5, <1>6, <1>7

\* A row of different blocks is one that the ledger chooses from.
LEMMA RowOfBlocks ==
  ASSUME NEW q \in Seq(Block), IsInjective(q)
  PROVE  q \in Ledger!BlockSeqs /\ Len(q) <= NumBlocks
<1>1. PICK A \in SUBSET Block : A = ToSet(q)
  BY MembersHavePositions
<1>2. Cardinality(A) = Len(q)
  BY <1>1, LenIsCardinality
<1>3. Cardinality(A) <= NumBlocks
  BY BlocksFinite, CardMinus
<1>4. Len(q) \in 0..Ledger!Cardinality(Block) /\ q \in [1..Len(q) -> Block]
  BY <1>2, <1>3, BlocksFinite, SameCardinality
<1> QED BY <1>2, <1>3, <1>4 DEF Ledger!BlockSeqs

\* The blocks that are promised are there.
LEMMA PromisesFit ==
  ASSUME ManagerInv
  PROVE  total_reserved <= NumFree(pool)
<1>1. /\ total_reserved \in Nat /\ NumFree(pool) \in Nat /\ Ledger!FreeBlocks = Idle(pool)
  BY CapacityFacts
<1>2. Ledger!Cardinality(Ledger!ActiveBlocks) + total_reserved <= Ledger!Cardinality(Block)
  BY DEF ManagerInv, Ledger!LedgerInv, Ledger!ReservationsCovered
<1>3. PICK A \in SUBSET Block, B \in SUBSET Block : A = Ledger!ActiveBlocks /\ B = Idle(pool)
  BY DEF Ledger!ActiveBlocks, Idle
<1>4. A = Block \ B
  BY <1>3 DEF Ledger!ActiveBlocks, Idle
<1>5. Cardinality(A) + total_reserved <= NumBlocks
  BY <1>2, <1>3, SameCardinality, BlocksFinite
<1>6. Cardinality(B) = NumFree(pool)
  <2>1. PoolInv(pool) /\ pool \in PoolRecord /\ Shape(pool)
    BY PoolInvIs DEF ManagerInv
  <2> QED BY <1>3, <2>1, FreeIsIdle
<1>7. Cardinality(A) = NumBlocks - Cardinality(B) /\ Cardinality(A) \in Nat /\ Cardinality(B) \in Nat
  <2>1. IsFiniteSet(Block) /\ Cardinality(Block) = NumBlocks
    BY BlocksFinite
  <2>2. Cardinality(Block \ B) = Cardinality(Block) - Cardinality(Block \cap B)
    BY <2>1, FS_Difference
  <2>3. Block \cap B = B /\ IsFiniteSet(A) /\ IsFiniteSet(B)
    BY <2>1, FS_Subset
  <2> QED BY <1>4, <2>1, <2>2, <2>3, FS_CardinalityType
<1>8. NumBlocks \in Nat
  BY PoolAssumption
<1> QED BY <1>1, <1>5, <1>6, <1>7, <1>8

\* The leases that are left were there before.
LEMMA RevokedEntries ==
  ASSUME NEW p \in PoolRecord, NEW q, LeasesRevoked(p, q)
  PROVE  ToSet(q.entries) \subseteq ToSet(p.entries)
<1>1. PICK es \in Seq(LeaseEntry) : es = p.entries
  BY DEF PoolRecord
<1>2. PICK k \in 0..Len(es) : q.entries = SubSeq(es, k + 1, Len(es))
  BY <1>1 DEF LeasesRevoked
<1>3. PICK j \in 1..(Len(es) + 1), n \in 0..Len(es) : j = k + 1 /\ n = Len(es)
  OBVIOUS
<1>4. \A x : x \in ToSet(SubSeq(es, j, n)) <=> \E i \in j..n : es[i] = x
  BY SubSeqKeeps
<1>5. \A i \in 1..Len(es) : es[i] \in ToSet(es)
  BY MembersHavePositions
<1>6. q.entries = SubSeq(es, j, n)
  BY <1>2, <1>3
<1> QED BY <1>1, <1>3, <1>4, <1>5, <1>6

\* allocate_slots of a running request: the capacity check suffices.
LEMMA GrowKeeps ==
  ASSUME DebugAssertions \/ Lease = {}, ManagerInv, NEW r \in Req, NEW n \in Nat, AllocateMore(r, n)
  PROVE  /\ Kept
         /\ \E f \in Nat : f <= NumFree(pool) /\ \E got \in GetNewBlocks(pool, f) : pool' = got.pool
         /\ \E bs \in Seq(Block) :
               LET fresh == DivCeil(n) - Len(reqs[r].block_ids)
               IN  /\ Len(bs) = fresh
                   /\ reqs' = [reqs EXCEPT ![r].block_ids = @ \o bs,
                                           ![r].reserved_blocks = @ - TakenFromReservation(r, fresh)]
<1> DEFINE req   == reqs[r]
           tok   == seqs[r]
           fresh == DivCeil(n) - Len(req.block_ids)
           taken == TakenFromReservation(r, fresh)
<1>1. /\ r \in Live /\ lookup = NoLookup /\ fresh > 0 /\ fresh - taken <= NumUnreserved
      /\ UNCHANGED <<seqs, lookup, kv, leases>>
  BY DEF AllocateMore
<1>2. PICK got \in GetNewBlocks(pool, fresh) :
         /\ pool' = got.pool
         /\ got.some => /\ reqs' = [reqs EXCEPT ![r].block_ids = @ \o got.blocks, ![r].reserved_blocks = @ - taken]
                        /\ total_reserved' = total_reserved - taken
  BY DEF AllocateMore
<1>3. Typed /\ PoolInv(pool) /\ pool \in PoolRecord
  BY PoolInvIs DEF ManagerInv
<1>4. PICK ids, cached, c, done :
         /\ ids = req.block_ids /\ cached = req.num_cached_blocks /\ c = tok.chain /\ done = tok.computed \div BlockSize
         /\ RequestFacts(r, ids, cached, c, done)
  BY <1>1, HeldFacts
<1>5. /\ ids \in Seq(Block) /\ cached \in Nat /\ req.reserved_blocks \in Nat /\ Len(ids) \in Nat
      /\ req.reserved_blocks <= total_reserved
  BY <1>4 DEF RequestFacts
<1>6. req \in RequestRecord /\ tok \in TokensRecord /\ tok.computed \in Nat
  BY <1>1, <1>3, Mapped DEF TokensRecord
<1>7. PICK f \in Nat : f = fresh /\ f > 0
  <2>1. DivCeil(n) \in Nat
    BY CeilCovers
  <2>2. fresh \in Nat
    BY <1>1, <1>4, <1>5, <2>1
  <2> QED BY <1>1, <2>2
<1>8. PICK k \in Nat : k = taken /\ k = Ledger!LesserOf(f, req.reserved_blocks) /\ k <= f /\ k <= req.reserved_blocks
  BY <1>5, <1>7 DEF TakenFromReservation, LesserOf, Ledger!LesserOf
<1>9. f <= NumFree(pool) /\ f - k <= Ledger!Unreserved
  <2>1. total_reserved \in Nat /\ NumFree(pool) \in Nat /\ NumUnreserved = Ledger!Unreserved
    BY CapacityFacts
  <2>2. f - k <= NumUnreserved
    BY <1>1, <1>7, <1>8
  <2>3. f - k <= NumFree(pool) - total_reserved
    BY <2>2 DEF NumUnreserved
  <2> QED BY <1>5, <1>8, <2>1, <2>2, <2>3
<1>10. PICK bs : bs = got.blocks
  OBVIOUS
<1>11. got.some /\ PoolInv(pool') /\ Len(bs) = f /\ Allocated(pool, pool', bs) /\ LeasesRevoked(pool, pool')
  <2>1. got \in GetNewBlocks(pool, f)
    BY <1>7
  <2>2. /\ got.some /\ PoolInv(got.pool) /\ Len(got.blocks) = f
        /\ Allocated(pool, got.pool, got.blocks)
        /\ LeasesRevoked(pool, got.pool)
    BY <1>3, <1>9, <2>1, GetNewBlocksKeeps
  <2> QED BY <1>2, <1>10, <2>2
<1>12. /\ bs \in Seq(Block) /\ IsInjective(bs) /\ ToSet(bs) \subseteq Idle(pool)
       /\ \A b \in Block : /\ pool'.ref_cnt[b] = IF b \in ToSet(bs) THEN 1 ELSE pool.ref_cnt[b]
                           /\ pool'.block_hashes[b] = IF b \in ToSet(bs) THEN {} ELSE pool.block_hashes[b]
  BY <1>11 DEF Allocated
<1>13. PICK all \in Seq(Block) : all = ids \o bs /\ Len(all) = Len(ids) + Len(bs) /\ \A i \in 1..Len(ids) : all[i] = ids[i]
  <2>1. ids \in Seq(Block) /\ bs \in Seq(Block)
    BY <1>5, <1>12
  <2>2. /\ ids \o bs \in Seq(Block) /\ Len(ids \o bs) = Len(ids) + Len(bs)
        /\ \A i \in 1..Len(ids) : (ids \o bs)[i] = ids[i]
    BY <2>1, ConcatPositions
  <2> QED BY <2>2
<1>14. PICK v \in RequestRecord :
          /\ v.block_ids = all /\ v.num_cached_blocks = cached /\ v.reserved_blocks = req.reserved_blocks - k
          /\ reqs' = [reqs EXCEPT ![r] = v]
  <2>1. PICK w \in Nat : w = req.reserved_blocks - k
    BY <1>5, <1>8
  <2>2. PICK y \in RequestRecord : y = req
    BY <1>6
  <2>3. PICK v : v = [y EXCEPT !.block_ids = all, !.reserved_blocks = w]
    OBVIOUS
  <2>4. v \in RequestRecord /\ v.block_ids = all /\ v.num_cached_blocks = y.num_cached_blocks /\ v.reserved_blocks = w
    BY <2>3 DEF RequestRecord
  <2>5. reqs' = [reqs EXCEPT ![r] = v]
    <3>1. reqs' = [reqs EXCEPT ![r].block_ids = @ \o bs, ![r].reserved_blocks = @ - k]
      BY <1>2, <1>8, <1>10, <1>11
    <3>2. y.block_ids \o bs = all /\ y.reserved_blocks - k = w
      BY <1>4, <1>13, <2>1, <2>2
    <3> QED BY <2>2, <2>3, <3>1, <3>2
  <2> QED BY <1>4, <2>1, <2>2, <2>4, <2>5
<1>15. /\ Live' = Live /\ reqs' \in [Live' -> RequestRecord]
       /\ BlocksOf' = [BlocksOf EXCEPT ![r] = all]
       /\ CachedOf' = [CachedOf EXCEPT ![r] = cached]
       /\ ReservedOf' = [ReservedOf EXCEPT ![r] = req.reserved_blocks - k]
       /\ reqs'[r].block_ids = all /\ \A x \in Live \ {r} : reqs'[x] = reqs[x]
  <2>1. v.block_ids = all /\ v.num_cached_blocks = cached /\ v.reserved_blocks = req.reserved_blocks - k
    BY <1>14
  <2>2. reqs' = [reqs EXCEPT ![r] = v]
    BY <1>14
  <2>3. /\ Live' = Live /\ reqs' \in [Live' -> RequestRecord]
        /\ BlocksOf' = [BlocksOf EXCEPT ![r] = v.block_ids]
        /\ CachedOf' = [CachedOf EXCEPT ![r] = v.num_cached_blocks]
        /\ ReservedOf' = [ReservedOf EXCEPT ![r] = v.reserved_blocks]
        /\ reqs'[r] = v /\ \A x \in Live \ {r} : reqs'[x] = reqs[x]
    BY <1>1, <1>3, <2>2, Updated
  <2> HIDE DEF req
  <2> QED BY <2>1, <2>3
<1>16. /\ BlocksOf[r] = ids /\ CachedOf[r] = cached /\ ReservedOf[r] = req.reserved_blocks
       /\ CachedOf \in [Req -> Nat]
  <2>1. BlocksOf[r] = ids /\ CachedOf[r] = cached /\ ReservedOf[r] = req.reserved_blocks
    BY <1>1, <1>3, <1>4, Mapped
  <2>2. CachedOf \in [Req -> Nat]
    BY DEF ManagerInv, Ledger!LedgerInv, Ledger!TypeOK
  <2> QED BY <2>1, <2>2
<1>17. UNCHANGED <<Live, CachedOf, HashesOf, DoneOf, Contents>>
  <2>1. CachedOf' = CachedOf
    BY <1>15, <1>16
  <2> QED BY <1>1, <1>15, <2>1, SameRequests
<1>18. PICK E : E = ToSet(bs) /\ E = Ledger!Elements(bs)
  BY <1>12, ElementsAre
<1>19. Keys' = [b \in Block |-> IF b \in E THEN NoHash ELSE Keys[b]]
  BY <1>12, <1>18, KeysWithout
<1>20. pool'.ref_cnt = [b \in Block |-> IF b \in E THEN 1 ELSE pool.ref_cnt[b]]
  <2>1. pool' \in PoolRecord
    BY <1>11, PoolInvIs
  <2>2. pool'.ref_cnt = [b \in Block |-> pool'.ref_cnt[b]]
    BY <2>1 DEF PoolRecord
  <2> QED BY <1>12, <1>18, <2>2
<1>21. bs \in Ledger!FreshBlocks
  <2>1. bs \in Ledger!BlockSeqs
    BY <1>12, RowOfBlocks
  <2>2. Ledger!Distinct(bs)
    BY <1>12, ElementsAre
  <2>3. E \subseteq Ledger!FreeBlocks
    BY <1>12, <1>18, CapacityFacts
  <2> QED BY <1>18, <2>1, <2>2, <2>3 DEF Ledger!FreshBlocks
<1>22. Ledger!GrowBy(r, bs)
  <2>1. PICK m : m = req.reserved_blocks
    OBVIOUS
  <2>2. Ledger!LesserOf(Len(bs), ReservedOf[r]) = k
    BY <1>8, <1>11, <1>16
  <2>3. total_reserved' = total_reserved - k
    BY <1>2, <1>8, <1>11
  <2>4. Len(bs) - k <= Ledger!Unreserved
    BY <1>9, <1>11
  <2>5. ReservedOf' = [ReservedOf EXCEPT ![r] = ReservedOf[r] - k]
    BY <1>15, <1>16
  <2>6. BlocksOf' = [BlocksOf EXCEPT ![r] = BlocksOf[r] \o bs]
    BY <1>13, <1>15, <1>16
  <2> QED BY <1>18, <1>19, <1>20, <2>2, <2>3, <2>4, <2>5, <2>6 DEF Ledger!GrowBy
<1>23. [Ledger!Next]_Ledger!vars
  <2>1. Ledger!Grow(r)
    BY <1>1, <1>17, <1>21, <1>22 DEF Ledger!Grow
  <2> QED BY <2>1 DEF Ledger!Next
<1>24. Typed'
  BY <1>1, <1>3, <1>15 DEF Typed
<1>25. LookupKnown'
  BY <1>1 DEF LookupKnown, NoLookup
<1>26. OwnTokens'
  <2>1. OwnIn(kv, ids, tok)
    BY <1>1, <1>4, OwnTokensIs DEF ManagerInv
  <2>2. OwnIn(kv, all, tok)
    <3>1. PICK m \in Nat : m = Len(ids)
      BY <1>5
    <3>2. m <= Len(all) /\ Len(all) \in Nat
      BY <1>7, <1>11, <1>13, <3>1
    <3>3. tok.computed <= m * BlockSize /\ \A i \in 1..m : all[i] = ids[i]
      BY <1>13, <2>1, <3>1 DEF OwnIn
    <3> HIDE DEF tok
    <3> QED BY <1>6, <2>1, <3>2, <3>3, OwnPrefix
  <2>3. \A x \in Live' \ {r} : x \in Live /\ reqs'[x] = reqs[x] /\ seqs'[x] = seqs[x]
    BY <1>1, <1>15
  <2> QED BY <1>1, <1>15, <2>2, <2>3, OthersOwn
<1>27. RevokesInOrder
  BY <1>3, <1>11, RevokedInOrder
<1>28. \A e \in ToSet(pool'.entries) : e.id \in leases'
  BY <1>1, <1>3, <1>11, RevokedEntries DEF ManagerInv
<1>29. ManagerInv'
  BY <1>11, <1>23, <1>24, <1>25, <1>26, <1>28, InvariantKept
<1>30. \E x \in GetNewBlocks(pool, f) : pool' = x.pool
  <2>1. got \in GetNewBlocks(pool, f)
    BY <1>7
  <2> QED BY <1>2, <2>1
<1>31. f <= NumFree(pool)
  BY <1>9
<1>32. Kept
  BY <1>23, <1>27, <1>29 DEF Kept
<1>33. /\ Len(bs) = fresh
       /\ reqs' = [reqs EXCEPT ![r].block_ids = @ \o bs, ![r].reserved_blocks = @ - taken]
  BY <1>2, <1>7, <1>10, <1>11
<1> HIDE DEF fresh, taken
<1>34. \E b \in Seq(Block) :
          /\ Len(b) = fresh
          /\ reqs' = [reqs EXCEPT ![r].block_ids = @ \o b, ![r].reserved_blocks = @ - taken]
  BY <1>12, <1>33
<1> USE DEF fresh, taken
<1> QED BY <1>30, <1>31, <1>32, <1>34

-----------------------------------------------------------------------------
(* Admission. *)

\* A hit lists every block once: a block carries one hash, and no hash occurs
\* twice in a chain.
LEMMA HitFacts ==
  ASSUME ManagerInv, NEW r, lookup.req = {r}
  PROVE  /\ lookup.hit \in Seq(Block) /\ IsInjective(lookup.hit)
         /\ lookup.chain \in Chains /\ lookup.chain \in Seq(Hash) /\ lookup.tokens \in Nat
         /\ Len(lookup.hit) <= Len(lookup.chain)
         /\ Len(lookup.hit) * BlockSize <= lookup.tokens
         /\ \A i \in 1..Len(lookup.hit) :
               lookup.chain[i] \in pool.block_hashes[lookup.hit[i]] /\ lookup.chain[i] \in Hash
<1>1. lookup # NoLookup
  BY DEF NoLookup
<1>2. /\ lookup \in [req : SUBSET Req, chain : Chains, tokens : Nat, hit : Seq(Block)]
      /\ Len(lookup.hit) <= Len(lookup.chain)
      /\ Len(lookup.hit) * BlockSize <= lookup.tokens
      /\ \A i \in 1..Len(lookup.hit) : lookup.chain[i] \in pool.block_hashes[lookup.hit[i]]
  BY <1>1 DEF ManagerInv, LookupKnown
<1>3. PICK hit \in Seq(Block), c \in Chains : hit = lookup.hit /\ c = lookup.chain
  BY <1>2
<1>4. c \in Seq(Hash) /\ lookup.tokens \in Nat
  BY <1>2, ManagerAssumption
<1>5. pool \in PoolRecord /\ Indexed(pool)
  BY PoolInvIs DEF ManagerInv, Shape
<1>6. Len(hit) <= Len(c) /\ \A i \in 1..Len(hit) : c[i] \in pool.block_hashes[hit[i]]
  BY <1>2, <1>3
<1>7. ASSUME NEW i \in 1..Len(hit), NEW j \in 1..Len(hit), hit[i] = hit[j] PROVE i = j
  <2>1. PICK b \in Block : b = hit[i] /\ b = hit[j]
    BY <1>7
  <2>2. c[i] \in pool.block_hashes[b] /\ c[j] \in pool.block_hashes[b]
    BY <1>6, <2>1
  <2>3. c[i] = c[j]
    BY <1>5, <2>2 DEF Indexed
  <2>4. i \in 1..Len(c) /\ j \in 1..Len(c)
    BY <1>4, <1>6
  <2> QED BY <2>3, <2>4, HashAssumption
<1>8. IsInjective(hit)
  BY <1>7, InjectiveByPositions
<1>9. \A i \in 1..Len(hit) : c[i] \in Hash
  BY <1>4, <1>6
<1> QED BY <1>2, <1>3, <1>4, <1>8, <1>9

\* The hit is adopted: one reference more for each of its blocks.
Adopted(p, hit) ==
    /\ PoolInv(p) /\ SameCaches(pool, p)
    /\ \A b \in Block : p.ref_cnt[b] = IF b \in ToSet(hit) THEN pool.ref_cnt[b] + 1 ELSE pool.ref_cnt[b]
    /\ Lease = {} => \A a, b : Ahead(p.queue, a, b) => Ahead(pool.queue, a, b)

\* Touching the blocks of a hit adopts it.
LEMMA AdoptHit ==
  ASSUME ManagerInv, NEW hit \in Seq(Block), IsInjective(hit),
         NEW p \in (IF hit = <<>> THEN {pool} ELSE Touch(pool, hit))
  PROVE  Adopted(p, hit)
<1>1. PoolInv(pool)
  BY DEF ManagerInv
<1>2. CASE hit = <<>>
  <2>1. p = pool /\ ToSet(hit) = {}
    BY <1>2, EmptyQueue
  <2>2. SameCaches(pool, p)
    BY <2>1 DEF SameCaches, SameIndexes
  <2> QED BY <1>1, <2>1, <2>2 DEF Adopted
<1>3. CASE hit # <<>>
  <2>1. p \in Touch(pool, hit)
    BY <1>3
  <2> QED BY <1>1, <2>1, TouchKeeps DEF Adopted
<1> QED BY <1>2, <1>3

\* The blocks that a hit takes off the free list.
LEMMA EvictableOfHit ==
  ASSUME ManagerInv, NEW hit \in Seq(Block), hit = lookup.hit, IsInjective(hit),
         NEW p, Adopted(p, hit)
  PROVE  /\ NumEvictable = Cardinality(Idle(pool) \cap ToSet(hit)) /\ NumEvictable \in Nat
         /\ NumFree(p) = NumFree(pool) - NumEvictable
<1>1. pool \in PoolRecord /\ Shape(pool) /\ p \in PoolRecord /\ Shape(p)
  BY PoolInvIs DEF ManagerInv, Adopted
<1>2. NumEvictable = Cardinality(Positions(hit, Idle(pool)))
  <2>1. {i \in 1..Len(hit) : pool.ref_cnt[hit[i]] = 0} = Positions(hit, Idle(pool))
    BY DEF Positions, Idle
  <2> QED BY <2>1 DEF NumEvictable
<1>3. PICK I \in SUBSET (1..Len(hit)) : I = Positions(hit, Idle(pool))
  BY DEF Positions
<1>4. InOrder(I) \in Seq(I) /\ Len(InOrder(I)) = Cardinality(I)
  <2>1. PICK n \in Nat : n = Len(hit)
    OBVIOUS
  <2>2. I \in SUBSET (1..n)
    BY <2>1
  <2> QED BY <2>2, InOrderProperties
<1>5. PICK q : q = Keep(hit, Idle(pool))
  OBVIOUS
<1>6. Len(q) = Cardinality(I)
  <2>1. q = [x \in 1..Len(InOrder(I)) |-> hit[InOrder(I)[x]]]
    BY <1>3, <1>5, KeepPicks DEF Picked
  <2>2. PICK m \in Nat : m = Len(InOrder(I))
    BY <1>4
  <2>3. q = [x \in 1..m |-> hit[InOrder(I)[x]]]
    BY <2>1, <2>2
  <2>4. Len(q) = m
    BY <2>3
  <2> QED BY <1>4, <2>2, <2>4
<1>7. q \in Seq(Block) /\ IsInjective(q) /\ ToSet(q) = ToSet(hit) \cap Idle(pool)
  BY <1>5, KeepProperties
<1>8. Cardinality(ToSet(q)) = Len(q) /\ Len(q) \in Nat
  <2>1. q \in Seq(Block) /\ IsInjective(q)
    BY <1>7
  <2>2. Len(q) \in Nat
    BY <2>1
  <2> QED BY <2>1, <2>2, LenIsCardinality
<1>9. PICK A \in SUBSET Block, E \in SUBSET Block : A = Idle(pool) /\ E = Idle(pool) \cap ToSet(hit) /\ E \subseteq A
  <2>1. Idle(pool) \in SUBSET Block
    BY DEF Idle
  <2>2. Idle(pool) \cap ToSet(hit) \in SUBSET Block /\ Idle(pool) \cap ToSet(hit) \subseteq Idle(pool)
    BY <2>1
  <2> QED BY <2>1, <2>2
<1>10. NumEvictable = Cardinality(E) /\ NumEvictable \in Nat
  <2>1. ToSet(q) = E
    BY <1>7, <1>9
  <2> QED BY <1>2, <1>3, <1>6, <1>8, <2>1
<1>11. Idle(p) = A \ E
  <2>1. \A b \in Block : pool.ref_cnt[b] \in Nat
    BY <1>1 DEF PoolRecord
  <2>2. \A b \in Block : p.ref_cnt[b] = 0 <=> pool.ref_cnt[b] = 0 /\ b \notin ToSet(hit)
    BY <2>1 DEF Adopted
  <2> QED BY <1>9, <2>2 DEF Idle
<1>12. NumFree(p) = Cardinality(Idle(p)) /\ NumFree(pool) = Cardinality(A)
  BY <1>1, <1>9, FreeIsIdle
<1>13. IsFiniteSet(A)
  BY BlocksFinite, CardMinus
<1>14. Cardinality(A \ E) = Cardinality(A) - Cardinality(E)
  <2>1. E \in SUBSET A
    BY <1>9
  <2> QED BY <1>13, <2>1, CardMinus
<1> QED BY <1>9, <1>10, <1>11, <1>12, <1>14

\* A block that carries a hash holds its KV in every slot.
LEMMA KeyedSlots ==
  ASSUME ManagerInv, NEW b \in Block, NEW h \in Hash, h \in pool.block_hashes[b], NEW o \in Slot
  PROVE  kv[b][o] = h
<1>1. pool \in PoolRecord /\ Indexed(pool)
  BY PoolInvIs DEF ManagerInv, Shape
<1>2. Keys[b] = h /\ h # NoHash /\ h # Junk
  BY <1>1, KeyFacts, ManagerAssumption
<1>3. Contents[b] = h
  BY <1>2 DEF ManagerInv, Ledger!LedgerInv, Ledger!PrefixHitsSound
<1>4. BlockContent(b) = h
  BY <1>3 DEF Contents
<1>5. PICK g \in Hash : (\A x \in Slot : kv[b][x] = g) /\ kv[b][0] = h
  BY <1>2, <1>4 DEF BlockContent
<1>6. 0 \in Slot
  BY ManagerAssumption DEF Slot
<1> QED BY <1>5, <1>6

\* What was adopted is the KV of the request's own tokens.
LEMMA AdoptedOwn ==
  ASSUME ManagerInv, NEW hit \in Seq(Block), NEW c \in Seq(Hash),
         \A i \in 1..Len(hit) : c[i] \in pool.block_hashes[hit[i]] /\ c[i] \in Hash,
         NEW all \in Seq(Block), Len(hit) <= Len(all), \A i \in 1..Len(hit) : all[i] = hit[i],
         NEW tok, tok.chain = c, tok.computed = Len(hit) * BlockSize
  PROVE  OwnIn(kv, all, tok)
<1>1. PICK m \in Nat : m = Len(hit) /\ m <= Len(all)
  OBVIOUS
<1>2. tok.computed \in Nat /\ tok.computed = m * BlockSize
  BY <1>1, WholeBlocks
<1>3. tok.computed <= Len(all) * BlockSize
  <2>1. PICK n \in Nat, k \in Nat : n = tok.computed /\ k = Len(all)
    BY <1>2
  <2>2. DivCeil(n) \in Nat /\ DivCeil(n) <= m
    <3>1. n <= m * BlockSize
      BY <1>2, <2>1
    <3> QED BY <3>1, CeilCovers
  <2>3. DivCeil(n) <= k
    BY <1>1, <2>1, <2>2
  <2>4. n <= k * BlockSize
    BY <2>3, CeilCovers
  <2> QED BY <2>1, <2>4
<1>4. ASSUME NEW t \in 0..(tok.computed - 1), t < Len(tok.chain) * BlockSize
      PROVE  kv[all[t \div BlockSize + 1]][t % BlockSize] = tok.chain[t \div BlockSize + 1]
  <2>1. t \in Nat /\ t < m * BlockSize
    BY <1>2
  <2>2. PICK d \in Nat, o \in Slot : d = t \div BlockSize /\ o = t % BlockSize /\ d < m
    BY <2>1, TokenPosition, BlockOfToken
  <2>3. d + 1 \in 1..Len(hit)
    BY <1>1, <2>2
  <2>4. PICK b \in Block, h \in Hash : b = hit[d + 1] /\ h = c[d + 1] /\ h \in pool.block_hashes[b]
    BY <2>3
  <2>5. kv[b][o] = h
    BY <2>4, KeyedSlots
  <2>6. all[d + 1] = b
    BY <2>3, <2>4
  <2> QED BY <2>2, <2>4, <2>5, <2>6
<1> QED BY <1>3, <1>4 DEF OwnIn

\* A request enters with its hit, the blocks bs and a reservation of m blocks.
LEMMA AdmitKeeps ==
  ASSUME ManagerInv, NEW r \in Req, r \notin Live, lookup.req = {r},
         NEW p, Adopted(p, lookup.hit),
         NEW bs, Allocated(p, pool', bs), PoolInv(pool'), LeasesRevoked(p, pool'),
         NEW m \in Nat, Len(bs) + m + NumEvictable <= NumUnreserved,
         Admitted(r, lookup.hit \o bs, m), UNCHANGED <<kv, leases>>
  PROVE  Kept
<1>1. PICK hit \in Seq(Block), c \in Chains : hit = lookup.hit /\ c = lookup.chain
  BY HitFacts
<1>2. IsInjective(hit) /\ c \in Seq(Hash) /\ Len(hit) <= Len(c)
  BY <1>1, HitFacts
<1>3. \A i \in 1..Len(hit) : c[i] \in pool.block_hashes[hit[i]] /\ c[i] \in Hash
  BY <1>1, HitFacts
<1>4. Typed /\ PoolInv(pool) /\ pool \in PoolRecord /\ Indexed(pool)
  BY PoolInvIs DEF ManagerInv, Shape
<1>5. /\ bs \in Seq(Block) /\ IsInjective(bs) /\ ToSet(bs) \subseteq Idle(p) /\ Len(bs) \in Nat
      /\ \A b \in Block : /\ pool'.ref_cnt[b] = IF b \in ToSet(bs) THEN 1 ELSE p.ref_cnt[b]
                          /\ pool'.block_hashes[b] = IF b \in ToSet(bs) THEN {} ELSE p.block_hashes[b]
  BY DEF Allocated
<1>6. /\ p.block_hashes = pool.block_hashes /\ p.entries = pool.entries /\ p.revoked = pool.revoked
      /\ \A b \in Block : p.ref_cnt[b] = IF b \in ToSet(hit) THEN pool.ref_cnt[b] + 1 ELSE pool.ref_cnt[b]
  BY <1>1 DEF Adopted, SameCaches, SameIndexes
<1>7. \A b \in Block : pool.ref_cnt[b] \in Nat
  BY <1>4 DEF PoolRecord
<1>8. PICK H, E : /\ H = ToSet(hit) /\ H = Ledger!Elements(hit) /\ E = ToSet(bs) /\ E = Ledger!Elements(bs)
  BY <1>5, ElementsAre
<1>9. E \cap H = {} /\ E \subseteq Idle(pool)
  <2>1. ASSUME NEW b \in E PROVE b \notin H /\ b \in Idle(pool)
    <3>1. b \in Block /\ p.ref_cnt[b] = 0
      BY <1>5, <1>8 DEF Idle
    <3>2. b \notin H
      BY <1>6, <1>7, <1>8, <3>1
    <3>3. pool.ref_cnt[b] = 0
      BY <1>6, <1>8, <3>1, <3>2
    <3> QED BY <3>1, <3>2, <3>3 DEF Idle
  <2> QED BY <2>1
<1>10. PICK all \in Seq(Block) : all = hit \o bs /\ Len(all) = Len(hit) + Len(bs) /\ \A i \in 1..Len(hit) : all[i] = hit[i]
  <2>1. /\ hit \o bs \in Seq(Block) /\ Len(hit \o bs) = Len(hit) + Len(bs)
        /\ \A i \in 1..Len(hit) : (hit \o bs)[i] = hit[i]
    BY <1>5, ConcatPositions
  <2> QED BY <2>1
<1>11. PICK v : /\ v = [block_ids |-> all, num_cached_blocks |-> Len(hit), reserved_blocks |-> m]
                /\ reqs' = With(reqs, r, v)
  BY <1>1, <1>10 DEF Admitted
<1>12. PICK w : /\ w = [chain |-> c, computed |-> Len(hit) * BlockSize] /\ seqs' = With(seqs, r, w)
  BY <1>1 DEF Admitted
<1>13. /\ v \in RequestRecord /\ v.block_ids = all /\ v.num_cached_blocks = Len(hit) /\ v.reserved_blocks = m
  <2>1. Len(hit) \in Nat
    OBVIOUS
  <2> QED BY <1>11, <2>1 DEF RequestRecord
<1>14. /\ w \in TokensRecord /\ w.chain = c /\ w.computed = Len(hit) * BlockSize
       /\ w.computed \div BlockSize = Len(hit)
  <2>1. PICK n \in Nat : n = Len(hit)
    OBVIOUS
  <2>2. n * BlockSize \in Nat /\ (n * BlockSize) \div BlockSize = n
    BY WholeBlocks
  <2>3. w = [chain |-> c, computed |-> n * BlockSize]
    BY <1>12, <2>1
  <2> QED BY <2>1, <2>2, <2>3 DEF TokensRecord
<1>15. /\ Live' = Live \cup {r} /\ BlocksOf' = [BlocksOf EXCEPT ![r] = all]
       /\ CachedOf' = [CachedOf EXCEPT ![r] = Len(hit)] /\ ReservedOf' = [ReservedOf EXCEPT ![r] = m]
       /\ reqs'[r] = v /\ \A x \in Live \ {r} : reqs'[x] = reqs[x]
  <2>1. reqs' = With(reqs, r, v)
    BY <1>11
  <2>2. /\ Live' = Live \cup {r} /\ BlocksOf' = [BlocksOf EXCEPT ![r] = v.block_ids]
        /\ CachedOf' = [CachedOf EXCEPT ![r] = v.num_cached_blocks]
        /\ ReservedOf' = [ReservedOf EXCEPT ![r] = v.reserved_blocks]
        /\ reqs'[r] = v /\ \A x \in Live \ {r} : reqs'[x] = reqs[x]
    BY <2>1, ReqsWith
  <2> QED BY <1>13, <2>2
<1>16. /\ HashesOf' = [HashesOf EXCEPT ![r] = c] /\ DoneOf' = [DoneOf EXCEPT ![r] = Len(hit)]
       /\ seqs'[r] = w /\ \A x \in DOMAIN seqs \ {r} : seqs'[x] = seqs[x]
  <2>1. seqs' = With(seqs, r, w)
    BY <1>12
  <2>2. /\ HashesOf' = [HashesOf EXCEPT ![r] = w.chain]
        /\ DoneOf' = [DoneOf EXCEPT ![r] = w.computed \div BlockSize]
        /\ seqs'[r] = w /\ \A x \in DOMAIN seqs \ {r} : seqs'[x] = seqs[x]
    BY <2>1, SeqsWith
  <2> QED BY <1>14, <2>2
<1>17. Contents' = Contents
  BY SameRequests
<1>18. Keys' = [b \in Block |-> IF b \in E THEN NoHash ELSE Keys[b]]
  <2>1. \A b \in Block : pool'.block_hashes[b] = IF b \in E THEN {} ELSE pool.block_hashes[b]
    BY <1>5, <1>6, <1>8
  <2> QED BY <2>1, KeysWithout
<1>19. pool'.ref_cnt = [b \in Block |-> IF b \in H \cup E THEN pool.ref_cnt[b] + 1 ELSE pool.ref_cnt[b]]
  <2>1. pool' \in PoolRecord
    BY PoolInvIs
  <2>2. pool'.ref_cnt = [b \in Block |-> pool'.ref_cnt[b]]
    BY <2>1 DEF PoolRecord
  <2>3. ASSUME NEW b \in Block
        PROVE  pool'.ref_cnt[b] = IF b \in H \cup E THEN pool.ref_cnt[b] + 1 ELSE pool.ref_cnt[b]
    <3>1. CASE b \in E
      <4>1. pool.ref_cnt[b] = 0
        BY <1>9, <3>1 DEF Idle
      <4> QED BY <1>5, <1>8, <3>1, <4>1
    <3>2. CASE b \notin E
      BY <1>5, <1>6, <1>8, <3>2
    <3> QED BY <3>1, <3>2
  <2> QED BY <2>2, <2>3
<1>20. bs \in Ledger!FreshBlocks
  <2>1. bs \in Ledger!BlockSeqs
    BY <1>5, RowOfBlocks
  <2>2. Ledger!Distinct(bs)
    BY <1>5, ElementsAre
  <2>3. E \subseteq Ledger!FreeBlocks
    BY <1>9, CapacityFacts
  <2> QED BY <1>8, <2>1, <2>2, <2>3 DEF Ledger!FreshBlocks
<1>21. hit \in Ledger!CachedPrefixes(c)
  <2>1. hit \in Ledger!BlockSeqs
    BY <1>2, RowOfBlocks
  <2>2. ASSUME NEW i \in 1..Len(hit) PROVE Keys[hit[i]] = c[i]
    <3>1. PICK b \in Block, h \in Hash : b = hit[i] /\ h = c[i] /\ h \in pool.block_hashes[b]
      BY <1>3
    <3>2. Keys[b] = h
      BY <1>4, <3>1, KeyFacts
    <3> QED BY <3>1, <3>2
  <2> QED BY <1>2, <2>1, <2>2 DEF Ledger!CachedPrefixes
<1>22. /\ Len(bs) + m + Ledger!Cardinality(Ledger!FreeBlocks \cap H) <= Ledger!Unreserved
       /\ m \in 0..Ledger!Cardinality(Block)
  <2>1. /\ NumEvictable = Cardinality(Idle(pool) \cap H) /\ NumEvictable \in Nat
    BY <1>1, <1>2, <1>8, EvictableOfHit
  <2>2. /\ total_reserved \in Nat /\ NumFree(pool) \in Nat /\ NumFree(pool) <= NumBlocks
        /\ Ledger!FreeBlocks = Idle(pool) /\ NumUnreserved = Ledger!Unreserved
    BY CapacityFacts
  <2>3. Ledger!Cardinality(Ledger!FreeBlocks \cap H) = NumEvictable
    BY <2>1, <2>2, SameCardinality
  <2>4. Len(bs) + m + NumEvictable <= NumFree(pool) - total_reserved
    BY DEF NumUnreserved
  <2>5. m <= NumBlocks
    BY <1>5, <2>1, <2>2, <2>4, PoolAssumption
  <2>6. Ledger!Cardinality(Block) = NumBlocks
    BY SameCardinality, BlocksFinite
  <2> QED BY <2>2, <2>3, <2>5, <2>6, PoolAssumption
<1>23. Ledger!AdmitWith(r, hit, bs, m)
  <2>1. total_reserved' = total_reserved + m
    BY DEF Admitted
  <2> QED BY <1>8, <1>9, <1>10, <1>15, <1>16, <1>18, <1>19, <1>22, <2>1 DEF Ledger!AdmitWith
<1>24. Ledger!Admit(r, c)
  BY <1>15, <1>16, <1>17, <1>20, <1>21, <1>22, <1>23 DEF Ledger!Admit
<1>25. [Ledger!Next]_Ledger!vars
  BY <1>24 DEF Ledger!Next
<1>26. Typed'
  <2>1. Live' \subseteq Req /\ leases' \subseteq Lease /\ kv' \in [Block -> [Slot -> Hash \cup {Junk}]]
    BY <1>4, <1>15 DEF Typed
  <2>2. DOMAIN seqs = Live /\ DOMAIN reqs = Live
    BY <1>4 DEF Typed, Live
  <2>3. reqs' \in [Live' -> RequestRecord]
    BY <1>4, <1>11, <1>13, <1>15, <2>2 DEF Typed, With
  <2>4. seqs' \in [Live' -> TokensRecord]
    BY <1>4, <1>12, <1>14, <1>15, <2>2 DEF Typed, With
  <2> QED BY <2>1, <2>3, <2>4 DEF Typed
<1>27. LookupKnown'
  BY DEF LookupKnown, NoLookup, Admitted
<1>28. OwnTokens'
  <2>1. OwnIn(kv, all, w)
    <3>1. Len(hit) <= Len(all)
      BY <1>5, <1>10
    <3> QED BY <1>2, <1>3, <1>10, <1>14, <3>1, AdoptedOwn
  <2>2. \A x \in Live' \ {r} : x \in Live /\ reqs'[x] = reqs[x] /\ seqs'[x] = seqs[x]
    BY <1>4, <1>15, <1>16 DEF Typed
  <2>3. OwnIn(kv, reqs'[r].block_ids, seqs'[r])
    BY <1>13, <1>15, <1>16, <2>1
  <2> QED BY <2>2, <2>3, OthersOwn
<1>29. LeasesRevoked(pool, pool')
  BY <1>6 DEF LeasesRevoked
<1>30. RevokesInOrder
  BY <1>4, <1>29, RevokedInOrder
<1>31. \A e \in ToSet(pool'.entries) : e.id \in leases'
  BY <1>4, <1>29, RevokedEntries DEF ManagerInv
<1>32. ManagerInv'
  BY <1>25, <1>26, <1>27, <1>28, <1>31, InvariantKept
<1> QED BY <1>25, <1>30, <1>32 DEF Kept

\* Nothing was allocated.
LEMMA NoneAllocated ==
  ASSUME NEW p, PoolInv(p)
  PROVE  Allocated(p, p, << >>) /\ LeasesRevoked(p, p)
<1>1. p \in PoolRecord
  BY PoolInvIs
<1>2. << >> \in Seq(Block) /\ IsInjective(<< >>) /\ ToSet(<< >>) = {}
  BY EmptyQueue
<1>3. PICK e : e = << >> /\ e \in Seq(Block) /\ IsInjective(e) /\ ToSet(e) = {}
  BY <1>2
<1>4. Allocated(p, p, e)
  BY <1>3 DEF Allocated
<1>5. LeasesRevoked(p, p)
  BY <1>1, NoLeaseRevoked
<1> QED BY <1>3, <1>4, <1>5

\* The blocks of a prompt that a hit does not cover.
LEMMA Uncovered ==
  ASSUME ManagerInv, NEW r, lookup.req = {r}
  PROVE  DivCeil(lookup.tokens) - Len(lookup.hit) \in Nat
<1>1. PICK hit \in Seq(Block), n \in Nat : hit = lookup.hit /\ n = lookup.tokens /\ Len(hit) * BlockSize <= n
  BY HitFacts
<1>2. PICK k \in Nat : k = Len(hit)
  OBVIOUS
<1>3. PICK d \in Nat : d = DivCeil(n) /\ n <= d * BlockSize
  BY CeilCovers
<1>4. k * BlockSize \in Nat /\ d * BlockSize \in Nat
  BY WholeBlocks
<1>5. k * BlockSize <= d * BlockSize
  BY <1>1, <1>2, <1>3, <1>4
<1>6. PICK x \in Nat : x = d * BlockSize /\ x \div BlockSize = d
  BY WholeBlocks
<1>7. k * BlockSize <= x
  BY <1>5, <1>6
<1>8. k <= d
  BY <1>6, <1>7, BlockOfToken
<1> QED BY <1>1, <1>2, <1>3, <1>8

\* reserve_prompt adopts the hit and promises the rest of the prompt.
LEMMA ReservePromptKeeps ==
  ASSUME ManagerInv, NEW r \in Req, ReservePrompt(r)
  PROVE  Kept /\ Adopted(pool', lookup.hit) /\ IsInjective(lookup.hit) /\ lookup.hit \in Seq(Block)
<1> DEFINE reserve == DivCeil(lookup.tokens) - Len(lookup.hit)
<1>1. /\ lookup.req = {r} /\ r \notin Live /\ reserve + NumEvictable <= NumUnreserved
      /\ pool' \in (IF lookup.hit = <<>> THEN {pool} ELSE Touch(pool, lookup.hit))
      /\ Admitted(r, lookup.hit, reserve) /\ UNCHANGED <<kv, leases>>
  BY DEF ReservePrompt
<1>2. PICK hit \in Seq(Block) : hit = lookup.hit /\ IsInjective(hit)
  BY <1>1, HitFacts
<1>3. Adopted(pool', hit)
  <2>1. PICK p : p = pool'
    OBVIOUS
  <2>2. p \in (IF hit = <<>> THEN {pool} ELSE Touch(pool, hit))
    BY <1>1, <1>2, <2>1
  <2> QED BY <1>2, <2>1, <2>2, AdoptHit
<1>4. PoolInv(pool')
  BY <1>3 DEF Adopted
<1>5. Allocated(pool', pool', << >>) /\ LeasesRevoked(pool', pool')
  BY <1>4, NoneAllocated
<1>6. PICK m \in Nat : m = reserve
  BY <1>1, Uncovered
<1>7. PICK bs : bs = << >> /\ Len(bs) = 0 /\ hit \o bs = hit
  OBVIOUS
<1>8. Admitted(r, lookup.hit \o bs, m)
  BY <1>1, <1>2, <1>6, <1>7
<1>9. Len(bs) + m + NumEvictable <= NumUnreserved
  <2>1. Len(bs) + m = m
    BY <1>7
  <2> QED BY <1>1, <1>6, <2>1
<1>10. Allocated(pool', pool', bs) /\ Adopted(pool', lookup.hit)
  BY <1>2, <1>3, <1>5, <1>7
<1>11. Kept
  BY <1>1, <1>4, <1>5, <1>8, <1>9, <1>10, AdmitKeeps
<1> QED BY <1>2, <1>10, <1>11

\* allocate_slots never runs out of blocks after its capacity check.
LEMMA AllocateNewKeeps ==
  ASSUME DebugAssertions \/ Lease = {}, ManagerInv, NEW r \in Req, AllocateNewRequest(r)
  PROVE  /\ Kept /\ IsInjective(lookup.hit) /\ lookup.hit \in Seq(Block)
         /\ \E p : /\ Adopted(p, lookup.hit)
                   /\ \/ pool' = p
                      \/ \E n \in Nat : n <= NumFree(p) /\ \E got \in GetNewBlocks(p, n) : pool' = got.pool
         /\ \E bs \in Seq(Block) : /\ Len(bs) = DivCeil(lookup.tokens) - Len(lookup.hit)
                                   /\ Admitted(r, lookup.hit \o bs, 0)
<1> DEFINE fresh == DivCeil(lookup.tokens) - Len(lookup.hit)
<1>1. /\ lookup.req = {r} /\ r \notin Live /\ fresh + NumEvictable <= NumUnreserved
      /\ UNCHANGED <<kv, leases>>
  BY DEF AllocateNewRequest
<1>2. PICK p \in (IF lookup.hit = <<>> THEN {pool} ELSE Touch(pool, lookup.hit)) :
      \E got \in (IF fresh > 0 THEN GetNewBlocks(p, fresh) ELSE {[pool |-> p, some |-> TRUE, blocks |-> <<>>]}) :
         got.some => pool' = got.pool /\ Admitted(r, lookup.hit \o got.blocks, 0)
  BY DEF AllocateNewRequest
<1>3. PICK got \in (IF fresh > 0 THEN GetNewBlocks(p, fresh) ELSE {[pool |-> p, some |-> TRUE, blocks |-> <<>>]}) :
         got.some => pool' = got.pool /\ Admitted(r, lookup.hit \o got.blocks, 0)
  BY <1>2
<1>4. PICK hit \in Seq(Block) : hit = lookup.hit /\ IsInjective(hit)
  BY <1>1, HitFacts
<1>5. Adopted(p, hit)
  <2>1. p \in (IF hit = <<>> THEN {pool} ELSE Touch(pool, hit))
    BY <1>2, <1>4
  <2> QED BY <1>4, <2>1, AdoptHit
<1>6. PICK n \in Nat : n = fresh
  BY <1>1, Uncovered
<1>7. PoolInv(p)
  BY <1>5 DEF Adopted
<1>8. n <= NumFree(p)
  <2>1. NumEvictable \in Nat /\ NumFree(p) = NumFree(pool) - NumEvictable
    BY <1>4, <1>5, EvictableOfHit
  <2>2. total_reserved \in Nat /\ NumFree(pool) \in Nat
    BY CapacityFacts
  <2>3. n + NumEvictable <= NumFree(pool) - total_reserved
    BY <1>1, <1>6 DEF NumUnreserved
  <2> QED BY <2>1, <2>2, <2>3
<1>9. PICK bs, q : bs = got.blocks /\ q = got.pool
  OBVIOUS
<1>10. /\ got.some /\ PoolInv(q) /\ Len(bs) = n /\ Allocated(p, q, bs) /\ LeasesRevoked(p, q)
       /\ q = p \/ got \in GetNewBlocks(p, n)
  <2>1. CASE n > 0
    <3>1. got \in GetNewBlocks(p, n)
      BY <1>3, <1>6, <2>1
    <3>2. /\ got.some /\ PoolInv(got.pool) /\ Len(got.blocks) = n
          /\ Allocated(p, got.pool, got.blocks)
          /\ LeasesRevoked(p, got.pool)
      BY <1>7, <1>8, <3>1, GetNewBlocksKeeps
    <3> QED BY <1>9, <3>1, <3>2
  <2>2. CASE ~(n > 0)
    <3>1. PICK e : e = << >> /\ Len(e) = 0
      OBVIOUS
    <3>2. got = [pool |-> p, some |-> TRUE, blocks |-> e]
      BY <1>3, <1>6, <2>2, <3>1
    <3>3. got.some /\ q = p /\ bs = e
      BY <1>9, <3>2
    <3>4. Allocated(p, p, e) /\ LeasesRevoked(p, p)
      BY <1>7, <3>1, NoneAllocated
    <3>5. n = 0
      BY <2>2
    <3> QED BY <1>7, <3>1, <3>3, <3>4, <3>5
  <2> QED BY <2>1, <2>2
<1>11. pool' = q /\ Admitted(r, lookup.hit \o bs, 0)
  BY <1>3, <1>9, <1>10
<1>12. PICK m \in Nat : m = 0
  OBVIOUS
<1>13. Len(bs) + m + NumEvictable <= NumUnreserved
  <2>1. Len(bs) + m = n
    BY <1>10, <1>12
  <2> QED BY <1>1, <1>6, <2>1
<1>14. /\ Adopted(p, lookup.hit) /\ Allocated(p, pool', bs) /\ PoolInv(pool') /\ LeasesRevoked(p, pool')
       /\ Admitted(r, lookup.hit \o bs, m)
  BY <1>4, <1>5, <1>10, <1>11, <1>12
<1>15. Kept
  BY <1>1, <1>13, <1>14, AdmitKeeps
<1>16. \/ pool' = p
       \/ \E k \in Nat : k <= NumFree(p) /\ \E g \in GetNewBlocks(p, k) : pool' = g.pool
  BY <1>8, <1>9, <1>10, <1>11
<1>17. bs \in Seq(Block) /\ Len(bs) = DivCeil(lookup.tokens) - Len(lookup.hit)
  BY <1>6, <1>10 DEF Allocated
<1> QED BY <1>4, <1>11, <1>14, <1>15, <1>16, <1>17

\* reset_prefix_cache leaves nothing cached.
LEMMA ResetPrefixKeeps ==
  ASSUME DebugAssertions \/ Lease = {}, ManagerInv, ResetPrefixCache
  PROVE  Kept /\ \A b \in Block : pool'.block_hashes[b] = {}
<1>1. /\ Live = {} /\ pool' \in ResetPool(pool) /\ total_reserved' = 0 /\ lookup = NoLookup
      /\ UNCHANGED <<reqs, seqs, lookup, kv, leases>>
  BY DEF ResetPrefixCache
<1>2. Typed /\ PoolInv(pool) /\ pool \in PoolRecord
  BY PoolInvIs DEF ManagerInv
<1>3. /\ PoolInv(pool') /\ pool'.ref_cnt = pool.ref_cnt /\ pool'.entries = << >>
      /\ pool'.revoked = (pool.revoked \/ pool.entries # << >>)
      /\ \A b \in Block : pool'.block_hashes[b] = {}
  <2>1. PICK p, q : p = pool /\ q = pool' /\ PoolInv(p) /\ q \in ResetPool(p)
    BY <1>1, <1>2
  <2>2. /\ PoolInv(q) /\ q.ref_cnt = p.ref_cnt /\ q.entries = << >>
        /\ q.revoked = (p.revoked \/ p.entries # << >>)
        /\ \A b \in Block : q.block_hashes[b] = {}
    BY <2>1, ResetKeeps
  <2> QED BY <2>1, <2>2
<1>4. total_reserved = 0
  <2>1. \A r \in Req : ReservedOf[r] = 0
    BY <1>1, <1>2, Mapped
  <2>2. Ledger!ReservedSlots = {}
    BY <2>1 DEF Ledger!ReservedSlots
  <2>3. total_reserved = Ledger!Cardinality(Ledger!ReservedSlots)
    BY DEF ManagerInv, Ledger!LedgerInv, Ledger!ReservationsExact
  <2>4. Ledger!Cardinality({}) = 0
    BY SameCardinality, FS_EmptySet
  <2> QED BY <2>2, <2>3, <2>4
<1>5. Keys' = [b \in Block |-> NoHash]
  BY <1>3 DEF Keys, KeyOf
<1>6. Ledger!Reset
  BY <1>1, <1>3, <1>4, <1>5, SameRequests DEF Ledger!Reset
<1>7. [Ledger!Next]_Ledger!vars
  BY <1>6 DEF Ledger!Next
<1>8. Typed'
  BY <1>1, <1>2 DEF Typed, Live
<1>9. LookupKnown'
  BY <1>1 DEF LookupKnown, NoLookup
<1>10. OwnTokens'
  BY <1>1 DEF ManagerInv, OwnTokens, SlotOf, Live
<1>11. \A e \in ToSet(pool'.entries) : e.id \in leases'
  BY <1>3, EmptyQueue
<1>12. ManagerInv'
  BY <1>3, <1>7, <1>8, <1>9, <1>10, <1>11, InvariantKept
<1>13. RevokesInOrder
  <2>1. PICK es \in Seq(LeaseEntry) : es = pool.entries
    BY <1>2 DEF PoolRecord
  <2>2. PICK k \in 0..Len(es) : k = Len(es)
    OBVIOUS
  <2>3. IsSuffix(SubSeq(es, k + 1, Len(es)), es)
    BY SuffixOfQueue
  <2>4. SubSeq(es, k + 1, Len(es)) = << >>
    BY <2>2
  <2>5. IsSuffix(pool'.entries, pool.entries)
    BY <1>3, <2>1, <2>3, <2>4
  <2>6. Len(pool'.entries) < Len(pool.entries) => pool.entries # << >>
    BY <1>3, <2>1
  <2> QED BY <1>3, <2>5, <2>6 DEF RevokesInOrder
<1> QED BY <1>3, <1>7, <1>12, <1>13 DEF Kept

-----------------------------------------------------------------------------
(* The forward pass. *)

\* The slots that a forward pass writes, and the rest of the memory.
Writes(ids, tok, n, w) ==
    /\ kv' \in [Block -> [Slot -> Hash \cup {Junk}]]
    /\ \A t \in tok.computed..(w - 1) : t < n /\ t < Len(tok.chain) * BlockSize =>
          kv'[ids[t \div BlockSize + 1]][t % BlockSize] = tok.chain[t \div BlockSize + 1]
    /\ \A b \in Block, o \in Slot :
          (\A t \in tok.computed..(w - 1) : ~(ids[t \div BlockSize + 1] = b /\ t % BlockSize = o))
             => kv'[b][o] = kv[b][o]

\* A token below k * BlockSize is in one of the first k blocks.
LEMMA TokenInside ==
  ASSUME NEW k \in Nat, NEW t \in Nat, t < k * BlockSize
  PROVE  t \div BlockSize \in Nat /\ t \div BlockSize + 1 \in 1..k /\ t % BlockSize \in Slot
<1>1. PICK d \in Nat : d = t \div BlockSize /\ d < k
  BY TokenPosition, BlockOfToken
<1>2. d + 1 \in 1..k
  BY <1>1
<1> QED BY <1>1, <1>2, TokenPosition

\* The slots that a forward pass writes, and what it writes there.
LEMMA ForwardWrites ==
  ASSUME ManagerInv, NEW r \in Req, NEW n \in Nat, NEW w \in Nat, Forward(r, n, w)
  PROVE  Writes(reqs[r].block_ids, seqs[r], n, w)
<1> DEFINE written == seqs[r].computed..(w - 1)
           Value(t) == IF t < LesserOf(n, Len(seqs[r].chain) * BlockSize)
                         THEN seqs[r].chain[t \div BlockSize + 1] ELSE Junk
           At(b, o) == {t \in written : SlotOf(r, t) = [block |-> b, offset |-> o]}
<1>1. /\ r \in Live /\ w <= Len(reqs[r].block_ids) * BlockSize
      /\ kv' = [b \in Block |-> [o \in Slot |->
                  IF At(b, o) = {} THEN kv[b][o] ELSE Value(CHOOSE t \in At(b, o) : TRUE)]]
  BY DEF Forward
<1>2. Typed /\ kv \in [Block -> [Slot -> Hash \cup {Junk}]]
  BY DEF ManagerInv, Typed
<1>3. PICK ids, cached, c, done :
         /\ ids = reqs[r].block_ids /\ cached = reqs[r].num_cached_blocks /\ c = seqs[r].chain
         /\ done = seqs[r].computed \div BlockSize
         /\ RequestFacts(r, ids, cached, c, done)
  BY <1>1, HeldFacts
<1>4. ids \in Seq(Block) /\ IsInjective(ids) /\ c \in Seq(Hash)
  BY <1>3 DEF RequestFacts
<1>5. PICK k \in Nat, l \in Nat, m \in Nat : k = Len(ids) /\ l = Len(c) /\ m = seqs[r].computed
  BY <1>1, <1>2, <1>4, Mapped DEF TokensRecord
<1>6. /\ k * BlockSize \in Nat /\ l * BlockSize \in Nat /\ w <= k * BlockSize
  BY <1>1, <1>3, <1>5, WholeBlocks
<1>7. ASSUME NEW t \in written
      PROVE  /\ t \in Nat /\ t \div BlockSize \in Nat /\ t \div BlockSize + 1 \in 1..k /\ t % BlockSize \in Slot
             /\ ids[t \div BlockSize + 1] \in Block
  <2>1. t \in Nat /\ t < k * BlockSize
    BY <1>5, <1>6
  <2>2. t \div BlockSize \in Nat /\ t \div BlockSize + 1 \in 1..k /\ t % BlockSize \in Slot
    BY <2>1, TokenInside
  <2> QED BY <1>4, <1>5, <2>1, <2>2
<1>8. \A t : Value(t) = IF t < LesserOf(n, l * BlockSize) THEN c[t \div BlockSize + 1] ELSE Junk
  BY <1>3, <1>5
<1>9. \A b, o : \A t : t \in At(b, o) <=> t \in written /\ ids[t \div BlockSize + 1] = b /\ t % BlockSize = o
  <2> SUFFICES ASSUME NEW b, NEW o, NEW t
               PROVE  t \in At(b, o) <=> t \in written /\ ids[t \div BlockSize + 1] = b /\ t % BlockSize = o
    BY Zenon
  <2>1. SlotOf(r, t) = [block |-> ids[t \div BlockSize + 1], offset |-> t % BlockSize]
    BY <1>3 DEF SlotOf
  <2>2. PICK x, y : x = ids[t \div BlockSize + 1] /\ y = t % BlockSize
    OBVIOUS
  <2>3. SlotOf(r, t) = [block |-> x, offset |-> y]
    BY <2>1, <2>2
  <2>4. SlotOf(r, t) = [block |-> b, offset |-> o] <=> x = b /\ y = o
    BY <2>3
  <2> QED BY <2>2, <2>4
<1>10. kv' = [b \in Block |-> [o \in Slot |->
                  IF At(b, o) = {} THEN kv[b][o] ELSE Value(CHOOSE t \in At(b, o) : TRUE)]]
  BY <1>1
<1> HIDE DEF At, Value
<1>11. \A b \in Block, o \in Slot : kv'[b][o] = IF At(b, o) = {} THEN kv[b][o] ELSE Value(CHOOSE t \in At(b, o) : TRUE)
  BY <1>10
<1>12. ASSUME NEW t \in written PROVE Value(t) \in Hash \cup {Junk}
  <2>1. CASE t < LesserOf(n, l * BlockSize)
    <3>1. t \in Nat /\ t < l * BlockSize
      BY <1>6, <1>7, <2>1 DEF LesserOf
    <3>2. t \div BlockSize + 1 \in 1..l
      BY <3>1, TokenInside
    <3>3. c[t \div BlockSize + 1] \in Hash
      BY <1>4, <1>5, <3>2
    <3> QED BY <1>8, <2>1, <3>3
  <2>2. CASE ~(t < LesserOf(n, l * BlockSize))
    BY <1>8, <2>2
  <2> QED BY <2>1, <2>2
<1>13. kv' \in [Block -> [Slot -> Hash \cup {Junk}]]
  <2>1. ASSUME NEW b \in Block, NEW o \in Slot
        PROVE  (IF At(b, o) = {} THEN kv[b][o] ELSE Value(CHOOSE t \in At(b, o) : TRUE)) \in Hash \cup {Junk}
    <3>1. CASE At(b, o) = {}
      BY <1>2, <3>1
    <3>2. CASE At(b, o) # {}
      <4>1. (CHOOSE t \in At(b, o) : TRUE) \in At(b, o)
        BY <3>2
      <4>2. (CHOOSE t \in At(b, o) : TRUE) \in written
        BY <1>9, <4>1
      <4> QED BY <1>12, <3>2, <4>2
    <3> QED BY <3>1, <3>2
  <2> QED BY <1>10, <2>1
<1>14. ASSUME NEW t \in written, t < n, t < l * BlockSize
       PROVE  kv'[ids[t \div BlockSize + 1]][t % BlockSize] = c[t \div BlockSize + 1]
  <2>1. PICK b \in Block, o \in Slot : b = ids[t \div BlockSize + 1] /\ o = t % BlockSize
    BY <1>7
  <2>2. t \in At(b, o)
    BY <1>9, <2>1
  <2>3. PICK u \in At(b, o) : u = CHOOSE x \in At(b, o) : TRUE
    BY <2>2
  <2>4. u \in written /\ ids[u \div BlockSize + 1] = b /\ u % BlockSize = o
    BY <1>9
  <2>5. PICK i \in 1..k, j \in 1..k : i = t \div BlockSize + 1 /\ j = u \div BlockSize + 1
    BY <1>7, <2>4
  <2>6. ids[i] = ids[j]
    BY <2>1, <2>4, <2>5
  <2>7. i = j
    BY <1>4, <1>5, <2>6, InjectiveByPositions
  <2>8. t \div BlockSize = u \div BlockSize
    BY <1>7, <2>4, <2>5, <2>7
  <2>9. u = t
    BY <1>7, <2>1, <2>4, <2>8, OneToken
  <2>10. kv'[b][o] = Value(t)
    BY <1>11, <2>2, <2>3, <2>9
  <2>11. t < LesserOf(n, l * BlockSize)
    BY <1>14 DEF LesserOf
  <2> QED BY <1>8, <2>1, <2>10, <2>11
<1>15. ASSUME NEW b \in Block, NEW o \in Slot,
              \A t \in written : ~(ids[t \div BlockSize + 1] = b /\ t % BlockSize = o)
       PROVE  kv'[b][o] = kv[b][o]
  <2>1. At(b, o) = {}
    BY <1>9, <1>15
  <2> QED BY <1>11, <2>1
<1>16. Writes(ids, seqs[r], n, w)
  BY <1>3, <1>5, <1>13, <1>14, <1>15 DEF Writes
<1> QED BY <1>3, <1>16

\* A block all of whose slots hold h, and a block that was not written.
LEMMA WholeContent ==
  ASSUME NEW b \in Block
  PROVE  /\ \A h \in Hash : (\A o \in Slot : kv'[b][o] = h) => Contents'[b] = h
         /\ (\A o \in Slot : kv'[b][o] = kv[b][o]) => Contents'[b] = Contents[b]
<1>1. 0 \in Slot
  BY ManagerAssumption DEF Slot
<1>2. Contents'[b] = BlockContent(b)' /\ Contents[b] = BlockContent(b)
  BY DEF Contents
<1>3. ASSUME NEW h \in Hash, \A o \in Slot : kv'[b][o] = h PROVE BlockContent(b)' = h
  BY <1>1, <1>3 DEF BlockContent
<1>4. ASSUME \A o \in Slot : kv'[b][o] = kv[b][o] PROVE BlockContent(b)' = BlockContent(b)
  <2>1. kv'[b][0] = kv[b][0]
    BY <1>1, <1>4
  <2>2. (\E h \in Hash : \A o \in Slot : kv'[b][o] = h) <=> (\E h \in Hash : \A o \in Slot : kv[b][o] = h)
    BY <1>4
  <2> QED BY <2>1, <2>2 DEF BlockContent
<1> QED BY <1>2, <1>3, <1>4

\* A forward pass writes into no block that carries a hash.
LEMMA ForwardKeeps ==
  ASSUME ManagerInv, NEW r \in Req, NEW n \in Nat, NEW w \in Nat, Forward(r, n, w)
  PROVE  Kept /\ pool' = pool
<1>1. /\ r \in Live /\ lookup = NoLookup
      /\ seqs[r].computed <= n /\ n <= w /\ n < (Len(seqs[r].chain) + 1) * BlockSize
      /\ w <= Len(reqs[r].block_ids) * BlockSize
      /\ seqs' = [seqs EXCEPT ![r].computed = n]
      /\ UNCHANGED <<pool, reqs, total_reserved, lookup, leases>>
  BY DEF Forward
<1>2. Typed /\ PoolInv(pool)
  BY DEF ManagerInv
<1>3. PICK ids, cached, c, done, tok :
         /\ ids = reqs[r].block_ids /\ cached = reqs[r].num_cached_blocks /\ tok = seqs[r] /\ c = tok.chain
         /\ done = tok.computed \div BlockSize
         /\ RequestFacts(r, ids, cached, c, done)
  BY <1>1, HeldFacts
<1>4. /\ ids \in Seq(Block) /\ IsInjective(ids) /\ c \in Seq(Hash) /\ cached \in Nat /\ done \in Nat /\ cached <= done
      /\ Len(ids) <= NumBlocks
  BY <1>3 DEF RequestFacts
<1>5. tok \in TokensRecord /\ tok.computed \in Nat
  BY <1>1, <1>2, <1>3, Mapped DEF TokensRecord
<1>6. PICK k \in Nat, l \in Nat, m \in Nat : k = Len(ids) /\ l = Len(c) /\ m = tok.computed
  BY <1>4, <1>5
<1>7. /\ m <= n /\ n <= w /\ n < (l + 1) * BlockSize /\ w <= k * BlockSize /\ done = m \div BlockSize
  BY <1>1, <1>3, <1>6
<1>8. PICK N \in Nat, W \in Nat : N = n \div BlockSize /\ W = DivCeil(w)
  BY TokenPosition, CeilCovers
<1>9. done <= N /\ N <= k /\ N <= l /\ N <= W /\ W <= k
  <2>1. k * BlockSize \in Nat /\ N * BlockSize \in Nat /\ W * BlockSize \in Nat
    BY WholeBlocks
  <2>2. done * BlockSize <= m /\ N * BlockSize <= n /\ done * BlockSize \in Nat
    BY <1>4, <1>7, <1>8, TokenPosition, WholeBlocks
  <2>3. done <= N
    <3>1. done * BlockSize <= n
      BY <1>7, <2>2
    <3> QED BY <1>4, <1>8, <3>1, BlockOfToken
  <2>4. W <= k
    BY <1>7, <1>8, CeilCovers
  <2>5. N <= W
    <3>1. w <= W * BlockSize
      BY <1>8, CeilCovers
    <3>2. PICK x \in Nat : x = W * BlockSize /\ x \div BlockSize = W
      BY WholeBlocks
    <3>3. N * BlockSize <= x
      BY <1>7, <2>1, <2>2, <3>1, <3>2
    <3> QED BY <3>2, <3>3, BlockOfToken
  <2>6. N <= l
    <3>1. l + 1 \in Nat
      OBVIOUS
    <3>2. N < l + 1
      BY <1>7, <1>8, <3>1, BlockOfToken
    <3> QED BY <3>2
  <2> QED BY <2>3, <2>4, <2>5, <2>6
<1>10. Writes(ids, tok, n, w)
  BY <1>3, ForwardWrites
<1>11. /\ kv' \in [Block -> [Slot -> Hash \cup {Junk}]]
       /\ \A t \in m..(w - 1) : t < n /\ t < l * BlockSize =>
             kv'[ids[t \div BlockSize + 1]][t % BlockSize] = c[t \div BlockSize + 1]
       /\ \A b \in Block, o \in Slot :
             (\A t \in m..(w - 1) : ~(ids[t \div BlockSize + 1] = b /\ t % BlockSize = o)) => kv'[b][o] = kv[b][o]
  BY <1>3, <1>6, <1>10 DEF Writes
<1>12. /\ m <= k * BlockSize
       /\ \A t \in 0..(m - 1) : t < l * BlockSize =>
             kv[ids[t \div BlockSize + 1]][t % BlockSize] = c[t \div BlockSize + 1]
  <2>1. OwnIn(kv, ids, tok)
    BY <1>1, <1>3, OwnTokensIs DEF ManagerInv
  <2> QED BY <1>3, <1>6, <2>1 DEF OwnIn
\* The tokens that are computed by now are where they belong.
<1>13. ASSUME NEW t \in 0..(n - 1), t < l * BlockSize
       PROVE  kv'[ids[t \div BlockSize + 1]][t % BlockSize] = c[t \div BlockSize + 1]
  <2>1. CASE t >= m
    <3>1. t \in m..(w - 1) /\ t < n
      BY <1>7, <2>1
    <3> QED BY <1>11, <1>13, <3>1
  <2>2. CASE t < m
    <3>1. t \in Nat /\ t < k * BlockSize /\ k * BlockSize \in Nat
      BY <1>12, <2>2, WholeBlocks
    <3>2. PICK i \in 1..k, o \in Slot : i = t \div BlockSize + 1 /\ o = t % BlockSize
      BY <3>1, TokenInside
    <3>3. PICK b \in Block : b = ids[i]
      BY <1>4, <1>6, <3>2
    <3>4. ASSUME NEW u \in m..(w - 1), ids[u \div BlockSize + 1] = b, u % BlockSize = o PROVE FALSE
      <4>1. u \in Nat /\ u < k * BlockSize
        BY <1>7, <3>1
      <4>2. PICK j \in 1..k : j = u \div BlockSize + 1
        BY <4>1, TokenInside
      <4>3. i = j
        BY <1>4, <1>6, <3>3, <3>4, <4>2, InjectiveByPositions
      <4>4. PICK x \in Nat, y \in Nat : x = t \div BlockSize /\ y = u \div BlockSize
        BY <3>1, <4>1, TokenPosition
      <4>5. x = y
        BY <3>2, <4>2, <4>3, <4>4
      <4>6. t = u
        BY <3>1, <3>2, <3>4, <4>1, <4>4, <4>5, OneToken
      <4> QED BY <2>2, <4>6
    <3>5. kv'[b][o] = kv[b][o]
      BY <1>11, <3>4
    <3>6. kv[ids[t \div BlockSize + 1]][t % BlockSize] = c[t \div BlockSize + 1]
      BY <1>12, <1>13, <2>2
    <3> QED BY <3>2, <3>3, <3>5, <3>6
  <2> QED BY <2>1, <2>2
\* What is written lies behind the completely computed blocks.
<1>14. ASSUME NEW t \in m..(w - 1)
       PROVE  /\ t \in Nat /\ t \div BlockSize + 1 \in (done + 1)..W /\ t \div BlockSize + 1 \in (cached + 1)..k
  <2>1. t \in Nat /\ m <= t /\ t < w
    BY <1>6
  <2>2. PICK d \in Nat : d = t \div BlockSize
    BY <2>1, TokenPosition
  <2>3. done <= d
    <3>1. done * BlockSize <= m /\ done * BlockSize \in Nat
      BY <1>4, <1>7, TokenPosition, WholeBlocks
    <3>2. done * BlockSize <= t
      BY <2>1, <3>1
    <3> QED BY <1>4, <2>1, <2>2, <3>2, BlockOfToken
  <2>4. d < W
    <3>1. w <= W * BlockSize /\ W * BlockSize \in Nat
      BY <1>8, CeilCovers, WholeBlocks
    <3>2. t < W * BlockSize
      BY <2>1, <3>1
    <3> QED BY <2>1, <2>2, <3>2, BlockOfToken
  <2> QED BY <1>4, <1>9, <2>1, <2>2, <2>3, <2>4
<1>15. \A i \in (done + 1)..N : Contents'[ids[i]] = c[i]
  <2> SUFFICES ASSUME NEW i \in (done + 1)..N PROVE Contents'[ids[i]] = c[i]
    OBVIOUS
  <2>1. i \in 1..k /\ i \in 1..l /\ i - 1 \in Nat /\ i \in Nat
    BY <1>4, <1>9
  <2>2. PICK b \in Block, h \in Hash : b = ids[i] /\ h = c[i]
    BY <1>4, <1>6, <2>1
  <2>3. ASSUME NEW o \in Slot PROVE kv'[b][o] = h
    <3>1. PICK j \in Nat : j = i - 1
      BY <2>1
    <3>2. PICK t \in Nat : t = j * BlockSize + o /\ t \div BlockSize = j /\ t % BlockSize = o /\ t < (j + 1) * BlockSize
      BY TokenOfSlot
    <3>3. t < n /\ t < l * BlockSize
      <4>1. j < N /\ j < l
        BY <1>4, <1>9, <2>1, <3>1
      <4>2. t < l * BlockSize /\ t < N * BlockSize
        BY <3>2, <4>1, BlockOfToken
      <4>3. N * BlockSize <= n /\ N * BlockSize \in Nat
        BY <1>8, TokenPosition, WholeBlocks
      <4> QED BY <4>2, <4>3
    <3>4. t \in 0..(n - 1)
      BY <3>3
    <3>5. kv'[ids[t \div BlockSize + 1]][t % BlockSize] = c[t \div BlockSize + 1]
      BY <1>13, <3>3, <3>4
    <3>6. t \div BlockSize + 1 = i
      BY <2>1, <3>1, <3>2
    <3> QED BY <2>2, <3>2, <3>5, <3>6
  <2> QED BY <2>2, <2>3, WholeContent
<1>16. ASSUME NEW b \in Block, b \notin {ids[i] : i \in (done + 1)..W} PROVE Contents'[b] = Contents[b]
  <2>1. ASSUME NEW o \in Slot PROVE kv'[b][o] = kv[b][o]
    <3>1. ASSUME NEW t \in m..(w - 1) PROVE ids[t \div BlockSize + 1] # b
      <4>1. PICK i \in (done + 1)..W : i = t \div BlockSize + 1
        BY <1>14
      <4> QED BY <1>16, <4>1
    <3> QED BY <1>11, <3>1
  <2> QED BY <2>1, WholeContent
<1>17. Contents' \in [Block -> Hash \cup {Junk}]
  <2>1. ASSUME NEW b \in Block PROVE BlockContent(b)' \in Hash \cup {Junk}
    <3>1. 0 \in Slot
      BY ManagerAssumption DEF Slot
    <3>2. kv'[b][0] \in Hash \cup {Junk}
      BY <1>11, <3>1
    <3> QED BY <3>2 DEF BlockContent
  <2> QED BY <2>1 DEF Contents
<1>18. PICK v \in TokensRecord : v.chain = c /\ v.computed = n /\ seqs' = [seqs EXCEPT ![r] = v]
  <2>1. PICK v : v = [tok EXCEPT !.computed = n]
    OBVIOUS
  <2>2. v \in TokensRecord /\ v.chain = tok.chain /\ v.computed = n
    BY <1>5, <2>1 DEF TokensRecord
  <2>3. seqs' = [seqs EXCEPT ![r] = v]
    BY <1>1, <1>3, <2>1
  <2> QED BY <1>3, <2>2, <2>3
<1>19. /\ seqs' \in [Live -> TokensRecord] /\ seqs' = With(seqs, r, v)
  <2>1. seqs \in [Live -> TokensRecord] /\ DOMAIN seqs = Live
    BY <1>2 DEF Typed
  <2>2. seqs' = [seqs EXCEPT ![r] = v] /\ v \in TokensRecord /\ r \in Live
    BY <1>1, <1>18
  <2>3. seqs' = [x \in Live |-> IF x = r THEN v ELSE seqs[x]]
    BY <2>1, <2>2
  <2>4. DOMAIN seqs \cup {r} = Live
    BY <2>1, <2>2
  <2>5. seqs' = With(seqs, r, v)
    BY <2>3, <2>4 DEF With
  <2>6. seqs' \in [Live -> TokensRecord]
    BY <2>1, <2>2, <2>3
  <2> QED BY <2>5, <2>6
<1>20. /\ HashesOf' = [HashesOf EXCEPT ![r] = c] /\ DoneOf' = [DoneOf EXCEPT ![r] = N]
       /\ seqs'[r] = v /\ \A x \in DOMAIN seqs \ {r} : seqs'[x] = seqs[x]
  <2>1. seqs' = With(seqs, r, v)
    BY <1>19
  <2>2. /\ HashesOf' = [HashesOf EXCEPT ![r] = v.chain]
        /\ DoneOf' = [DoneOf EXCEPT ![r] = v.computed \div BlockSize]
        /\ seqs'[r] = v /\ \A x \in DOMAIN seqs \ {r} : seqs'[x] = seqs[x]
    BY <2>1, SeqsWith
  <2> QED BY <1>8, <1>18, <2>2
<1>21. BlocksOf[r] = ids /\ HashesOf[r] = c /\ DoneOf[r] = done /\ HashesOf' = HashesOf
  <2>1. BlocksOf[r] = ids /\ HashesOf[r] = c /\ DoneOf[r] = done
    BY <1>1, <1>2, <1>3, Mapped
  <2>2. HashesOf \in [Req -> Seq(Hash)]
    BY DEF ManagerInv, Ledger!LedgerInv, Ledger!TypeOK
  <2> QED BY <1>20, <2>1, <2>2
<1>22. UNCHANGED <<Live, BlocksOf, CachedOf, ReservedOf, total_reserved, pool.ref_cnt, Keys>>
  <2>1. Keys' = Keys
    BY <1>1 DEF Keys, KeyOf
  <2> QED BY <1>1, <2>1, SameRequests
<1>23. Ledger!Compute(r, N, W)
  <2>1. N \in done..Ledger!LesserOf(Len(ids), Len(c)) /\ W \in N..Len(ids)
    BY <1>4, <1>6, <1>9 DEF Ledger!LesserOf
  <2> QED BY <1>1, <1>15, <1>16, <1>17, <1>20, <1>21, <1>22, <2>1 DEF Ledger!Compute
<1>24. [Ledger!Next]_Ledger!vars
  <2>1. N \in 0..Ledger!Cardinality(Block) /\ W \in 0..Ledger!Cardinality(Block)
    BY <1>4, <1>6, <1>9, BlocksFinite, SameCardinality, PoolAssumption
  <2> QED BY <1>23, <2>1 DEF Ledger!Next
<1>25. Typed'
  BY <1>1, <1>2, <1>11, <1>19, <1>22 DEF Typed
<1>26. LookupKnown'
  BY <1>1 DEF LookupKnown, NoLookup
<1>27. OwnTokens'
  <2>1. ASSUME NEW x \in Live', x # r PROVE OwnIn(kv', reqs'[x].block_ids, seqs'[x])
    <3>1. x \in Live /\ reqs'[x] = reqs[x] /\ seqs'[x] = seqs[x]
      BY <1>1, <1>2, <1>20, <1>22, <2>1 DEF Typed
    <3>2. PICK xs, xt : xs = reqs[x].block_ids /\ xt = seqs[x]
      OBVIOUS
    <3>3. OwnIn(kv, xs, xt)
      BY <3>1, <3>2, OwnTokensIs DEF ManagerInv
    <3>4. xs \in Seq(Block) /\ xt.computed \in Nat /\ Len(xs) \in Nat
      <4>1. reqs[x] \in RequestRecord /\ seqs[x] \in TokensRecord
        BY <1>2, <3>1, Mapped
      <4> QED BY <3>2, <4>1 DEF RequestRecord, TokensRecord
    <3>5. PICK a \in Nat, e \in Nat : a = Len(xs) /\ e = xt.computed /\ e <= a * BlockSize /\ a * BlockSize \in Nat
      BY <3>3, <3>4, WholeBlocks DEF OwnIn
    <3>6. ASSUME NEW t \in 0..(e - 1) PROVE kv'[xs[t \div BlockSize + 1]][t % BlockSize] = kv[xs[t \div BlockSize + 1]][t % BlockSize]
      <4>1. t \in Nat /\ t < a * BlockSize
        BY <3>5
      <4>2. PICK j \in 1..a, o \in Slot : j = t \div BlockSize + 1 /\ o = t % BlockSize
        BY <4>1, TokenInside
      <4>3. PICK b \in Block : b = xs[j]
        BY <3>4, <3>5, <4>2
      <4>4. ASSUME NEW u \in m..(w - 1), ids[u \div BlockSize + 1] = b PROVE FALSE
        <5>1. PICK i \in (cached + 1)..Len(ids) : i = u \div BlockSize + 1
          BY <1>6, <1>14
        <5>2. reqs[x].block_ids[j] = ids[i] /\ j \in 1..Len(reqs[x].block_ids)
          BY <3>2, <3>5, <4>3, <4>4, <5>1
        <5>3. x = r
          BY <1>3, <3>1, <5>2 DEF RequestFacts
        <5> QED BY <2>1, <5>3
      <4>5. kv'[b][o] = kv[b][o]
        BY <1>11, <4>4
      <4> QED BY <4>2, <4>3, <4>5
    <3>7. OwnIn(kv', xs, xt)
      BY <3>3, <3>5, <3>6 DEF OwnIn
    <3> QED BY <3>1, <3>2, <3>7
  <2>2. OwnIn(kv', reqs'[r].block_ids, seqs'[r])
    <3>1. n <= k * BlockSize
      <4>1. k * BlockSize \in Nat
        BY WholeBlocks
      <4> QED BY <1>7, <4>1
    <3>2. OwnIn(kv', ids, v)
      BY <1>6, <1>13, <1>18, <3>1 DEF OwnIn
    <3> QED BY <1>1, <1>3, <1>20, <3>2
  <2> QED BY <2>1, <2>2, OwnTokensIs
<1>28. \A e \in ToSet(pool'.entries) : e.id \in leases'
  BY <1>1 DEF ManagerInv
<1>29. ManagerInv'
  BY <1>1, <1>2, <1>24, <1>25, <1>26, <1>27, <1>28, InvariantKept
<1>30. RevokesInOrder
  <2>1. Len(pool.entries) \in Nat
    BY <1>2, PoolInvIs DEF PoolRecord
  <2> QED BY <1>1, <2>1 DEF RevokesInOrder
<1> QED BY <1>1, <1>24, <1>29, <1>30 DEF Kept

-----------------------------------------------------------------------------
(* The invariant holds from the start and is kept by every step. *)

\* The invariant holds at the start, which is a start of the ledger.
LEMMA StartKeeps ==
  ASSUME Init
  PROVE  ManagerInv /\ Ledger!Init
<1>1. /\ pool = EmptyPool /\ reqs = << >> /\ total_reserved = 0 /\ seqs = << >> /\ lookup = NoLookup
      /\ kv = [b \in Block |-> [o \in Slot |-> Junk]] /\ leases = {}
  BY DEF Init
<1>2. PoolInv(pool)
  BY <1>1, EmptyPoolKeeps
<1>3. Live = {}
  BY <1>1 DEF Live
<1>4. /\ pool.ref_cnt = [b \in Block |-> 0] /\ pool.block_hashes = [b \in Block |-> {}] /\ pool.entries = << >>
  BY <1>1 DEF EmptyPool
<1>5. Typed
  <2>1. reqs \in [{} -> RequestRecord] /\ seqs \in [{} -> TokensRecord]
    BY <1>1
  <2>2. kv \in [Block -> [Slot -> Hash \cup {Junk}]]
    BY <1>1
  <2> QED BY <1>1, <1>3, <2>1, <2>2 DEF Typed
<1>6. Ledger!Init
  <2>1. \A r \in Req : /\ BlocksOf[r] = << >> /\ CachedOf[r] = 0 /\ ReservedOf[r] = 0
                       /\ HashesOf[r] = << >> /\ DoneOf[r] = 0
    BY <1>3, <1>5, Mapped
  <2>2. BlocksOf = [r \in Req |-> << >>]
    BY <2>1 DEF BlocksOf
  <2>3. CachedOf = [r \in Req |-> 0]
    BY <2>1 DEF CachedOf
  <2>4. ReservedOf = [r \in Req |-> 0]
    BY <2>1 DEF ReservedOf
  <2>5. HashesOf = [r \in Req |-> << >>]
    BY <2>1 DEF HashesOf
  <2>6. DoneOf = [r \in Req |-> 0]
    BY <2>1 DEF DoneOf
  <2>7. Keys = [b \in Block |-> NoHash]
    BY <1>4 DEF Keys, KeyOf
  <2>8. Contents = [b \in Block |-> Junk]
    <3>1. ASSUME NEW b \in Block PROVE BlockContent(b) = Junk
      <4>1. 0 \in Slot
        BY ManagerAssumption DEF Slot
      <4>2. kv[b][0] = Junk
        BY <1>1, <4>1
      <4> QED BY <4>2 DEF BlockContent
    <3> QED BY <3>1 DEF Contents
  <2> QED BY <1>1, <1>3, <1>4, <2>2, <2>3, <2>4, <2>5, <2>6, <2>7, <2>8 DEF Ledger!Init
<1>7. Ledger!LedgerInv
  <2>1. LP!Init
    BY <1>6 DEF Ledger!Init, LP!Init
  <2>2. LP!LedgerInv
    BY <2>1, LedgerConstants, LP!InitInv
  <2> QED BY <2>2, SameInvariant
<1>8. \A e \in ToSet(pool.entries) : e.id \in leases
  BY <1>4, EmptyQueue
<1>9. LookupKnown
  BY <1>1 DEF LookupKnown
<1>10. OwnTokens
  BY <1>3 DEF OwnTokens
<1> QED BY <1>2, <1>5, <1>6, <1>7, <1>8, <1>9, <1>10 DEF ManagerInv

\* Every step keeps the invariant and is a step of the ledger.
LEMMA StepKeeps ==
  ASSUME DebugAssertions \/ Lease = {}, ManagerInv, [Next]_vars
  PROVE  Kept
<1>1. CASE UNCHANGED vars
  <2>1. LookupKnown'
    BY <1>1 DEF vars, ManagerInv, LookupKnown
  <2> QED BY <1>1, <2>1, LookupOnly DEF vars
<1>2. CASE ResetPrefixCache
  BY <1>2, ResetPrefixKeeps
<1>3. ASSUME NEW r \in Req, NEW c \in Chains, NEW n \in 1..MaxTokens, GetComputedBlocks(r, c, n) PROVE Kept
  <2>1. n \in Nat \ {0}
    BY ManagerAssumption
  <2> QED BY <1>3, <2>1, GetComputedBlocksKeeps
<1>4. CASE AbandonLookup
  BY <1>4, AbandonLookupKeeps
<1>5. ASSUME NEW r \in Req, ReservePrompt(r) \/ AllocateNewRequest(r) PROVE Kept
  BY <1>5, ReservePromptKeeps, AllocateNewKeeps
<1>6. ASSUME NEW r \in Req, Free(r) \/ CacheBlocks(r) PROVE Kept
  BY <1>6, FreeKeeps, CacheBlocksKeeps
<1>7. ASSUME NEW r \in Req, NEW n \in 1..MaxTokens, AllocateMore(r, n) \/ TrimRequest(r, n) PROVE Kept
  <2>1. n \in Nat
    BY ManagerAssumption
  <2> QED BY <1>7, <2>1, GrowKeeps, TrimKeeps
<1>8. ASSUME NEW r \in Req, NEW n \in 0..MaxTokens, NEW w \in 0..MaxTokens, Forward(r, n, w) PROVE Kept
  <2>1. n \in Nat /\ w \in Nat
    BY ManagerAssumption
  <2> QED BY <1>8, <2>1, ForwardKeeps
<1>9. ASSUME NEW l \in Lease, NEW c \in Chains, NEW k \in 1..Len(c), RetainPrefix(l, c, k) PROVE Kept
  BY <1>9, RetainPrefixKeeps
<1>10. ASSUME NEW l \in Lease, TouchPrefix(l) \/ DropPrefix(l) PROVE Kept
  BY <1>10, TouchPrefixKeeps, DropPrefixKeeps
<1>11. CASE TakePendingRevocation
  BY <1>11, TakePendingKeeps
<1> QED BY <1>1, <1>2, <1>3, <1>4, <1>5, <1>6, <1>7, <1>8, <1>9, <1>10, <1>11 DEF Next, Serve

\* What the invariant says of the pool.
LEMMA PoolIsConsistent ==
  ASSUME ManagerInv
  PROVE  PoolConsistent
<1>1. /\ PoolInv(pool) /\ pool \in PoolRecord /\ Shape(pool) /\ LeasesCounted(pool) /\ PinsKnown(pool)
      /\ (~pool.dirty => CaughtUp(pool)) /\ FreeListExact(pool) /\ IndexesAgree(pool)
  BY PoolInvIs DEF ManagerInv, PoolInv
<1>2. RetentionExact(pool)
  BY <1>1 DEF RetentionExact, PinsKnown, CaughtUp
<1>3. pool.retention_count \in [Block -> Nat]
  BY <1>1 DEF Shape, Bit
<1>4. pool.hash_ref \in [Hash -> Nat]
  <2>1. ASSUME NEW h \in Hash PROVE pool.hash_ref[h] \in Nat
    <3>1. PICK es \in Seq(LeaseEntry) : es = pool.entries /\ IsInjective(es)
      BY <1>1 DEF PoolRecord, LeasesCounted
    <3>2. PICK A : A = ToSet(es) /\ IsFiniteSet(A)
      BY <3>1, LenIsCardinality
    <3>3. PICK B \in SUBSET A : B = {e \in A : h \in ToSet(e.hashes)}
      BY Zenon
    <3>4. Cardinality(B) \in Nat
      BY <3>2, CardMinus
    <3> QED BY <1>1, <3>1, <3>2, <3>3, <3>4 DEF LeasesCounted
  <2>2. pool.hash_ref \in [Hash -> Int]
    BY <1>1 DEF PoolRecord
  <2> QED BY <2>1, <2>2
<1>5. total_reserved \in Nat
  BY CapacityFacts
<1>6. Live \subseteq Req /\ DOMAIN seqs = Live /\ kv \in [Block -> [Slot -> Hash \cup {Junk}]] /\ leases \subseteq Lease
  BY DEF ManagerInv, Typed
<1>7. TypeOK
  BY <1>1, <1>3, <1>4, <1>5, <1>6 DEF TypeOK, PoolRecord
<1> QED BY <1>1, <1>2, <1>7 DEF PoolConsistent

\* What is reserved can be allocated.
LEMMA PromisesHold ==
  ASSUME DebugAssertions \/ Lease = {}, ManagerInv
  PROVE  ReservationsHonoured
<1> SUFFICES ASSUME NEW r \in Live, NEW got \in GetNewBlocks(pool, reqs[r].reserved_blocks) PROVE got.some
  BY DEF ReservationsHonoured
<1>1. PICK n \in Nat : n = reqs[r].reserved_blocks /\ n <= total_reserved
  BY HeldFacts DEF RequestFacts
<1>2. total_reserved \in Nat /\ NumFree(pool) \in Nat /\ total_reserved <= NumFree(pool)
  BY CapacityFacts, PromisesFit
<1>3. n <= NumFree(pool) /\ got \in GetNewBlocks(pool, n) /\ PoolInv(pool)
  BY <1>1, <1>2 DEF ManagerInv
<1> QED BY <1>3, GetNewBlocksKeeps

\* When no request is left, every block can be had.
LEMMA NothingHeld ==
  ASSUME ManagerInv, Live = {}
  PROVE  total_reserved = 0 /\ NumFree(pool) = NumBlocks
<1>1. Typed /\ PoolInv(pool) /\ Ledger!RefCountsExact /\ Ledger!ReservationsExact
  BY DEF ManagerInv, Ledger!LedgerInv
<1>2. total_reserved = 0
  <2>1. Ledger!ReservedSlots = {}
    <3>1. \A r \in Req : ReservedOf[r] = 0
      BY <1>1, Mapped
    <3> QED BY <3>1 DEF Ledger!ReservedSlots
  <2>2. Ledger!Cardinality(Ledger!ReservedSlots) = 0
    BY <2>1, SameCardinality, FS_EmptySet
  <2> QED BY <1>1, <2>2 DEF Ledger!ReservationsExact
<1>3. Idle(pool) = Block
  <2>1. ASSUME NEW b \in Block PROVE pool.ref_cnt[b] = 0
    <3>1. Ledger!Holders(b) = {}
      BY DEF Ledger!Holders
    <3> QED BY <1>1, <3>1, SameCardinality, FS_EmptySet DEF Ledger!RefCountsExact
  <2> QED BY <2>1 DEF Idle
<1>4. NumFree(pool) = Cardinality(Idle(pool))
  BY <1>1, PoolInvIs, FreeIsIdle
<1> QED BY <1>2, <1>3, <1>4, BlocksFinite

-----------------------------------------------------------------------------

\* The inductive invariant of the manager, of which the theorems below are
\* consequences.  Its proof needs debug assertions or a process without
\* leases: the removal of a revoked lease's bookkeeping stands inside a
\* debug_assert in block_pool.rs, so a release build skips it.
THEOREM ManagerInvariant ==
  ASSUME DebugAssertions \/ Lease = {}
  PROVE  Spec => []ManagerInv
<1>1. Init => ManagerInv
  BY StartKeeps
<1>2. ManagerInv /\ [Next]_vars => ManagerInv'
  BY StepKeeps DEF Kept
<1> QED BY <1>1, <1>2, PTL DEF Spec

\* No assertion, expect or checked subtraction of block_pool.rs and
\* kv_cache_manager.rs fails, whatever the order of the calls.
THEOREM NeverPanics ==
  ASSUME DebugAssertions \/ Lease = {}
  PROVE  Spec => []NoPanic
<1>1. ManagerInv => NoPanic
  BY PromisesFit DEF ManagerInv, PoolInv, NoPanic
<1> QED BY <1>1, ManagerInvariant, PTL

\* The free queue, ref_cnt, the hash map, the pins and their counters agree
\* with each other after every operation of the manager and of the leases.
THEOREM PoolAlwaysConsistent ==
  ASSUME DebugAssertions \/ Lease = {}
  PROVE  Spec => []PoolConsistent
<1>1. ManagerInv => PoolConsistent
  BY PoolIsConsistent
<1> QED BY <1>1, ManagerInvariant, PTL

\* get_new_blocks succeeds for what reserve_prompt set aside, at any time:
\* "reserved prompt chunk must fit in the KV cache".
THEOREM ReservationsAlwaysHonoured ==
  ASSUME DebugAssertions \/ Lease = {}
  PROVE  Spec => []ReservationsHonoured
<1>1. ManagerInv => ReservationsHonoured
  BY PromisesHold
<1> QED BY <1>1, ManagerInvariant, PTL

\* Pressure and reset revoke leases from the least recently used one on, and
\* raise the flag that the prefix cacher's monitor reads.
THEOREM RevokesInLeaseOrder ==
  ASSUME DebugAssertions \/ Lease = {}
  PROVE  Spec => RevokesOldestFirst
<1>1. ManagerInv /\ [Next]_vars => [RevokesInOrder]_vars
  BY StepKeeps DEF Kept
<1>2. RevokesOldestFirst <=> [][RevokesInOrder]_vars
  BY DEF RevokesOldestFirst, RevokesInOrder
<1> QED BY <1>1, <1>2, ManagerInvariant, PTL DEF Spec

\* The manager over the pool implements the ledger: every operation is one of
\* the ledger's or invisible to it.
THEOREM ManagerKeepsLedger ==
  ASSUME DebugAssertions \/ Lease = {}
  PROVE  Spec => LedgerSpec
<1>1. Init => Ledger!Init
  BY StartKeeps
<1>2. ManagerInv /\ [Next]_vars => [Ledger!Next]_Ledger!vars
  BY StepKeeps DEF Kept
<1> QED BY <1>1, <1>2, ManagerInvariant, PTL DEF Spec, LedgerSpec, Ledger!Spec

-----------------------------------------------------------------------------
(* Eviction order, in a pool without leases. *)

\* Without leases every idle block is in the free queue.
LEMMA IdleAreQueued ==
  ASSUME NEW p, PoolInv(p), Lease = {}
  PROVE  p \in PoolRecord /\ Indexed(p) /\ p.queue \in Seq(Block) /\ IsInjective(p.queue) /\ ToSet(p.queue) = Idle(p)
<1>1. Pinned(p) = {}
  BY NoLeaseNoPin, NothingPinned
<1>2. p \in PoolRecord /\ Shape(p)
  BY PoolInvIs
<1> QED BY <1>1, <1>2 DEF Shape, PoolRecord

\* A block of a request that carries a hash of a chain stands where the chain
\* has the hash, and the block in front of it carries the hash in front.
LEMMA HeldInChain ==
  ASSUME ManagerInv, NEW r \in Live, NEW j \in 1..Len(reqs[r].block_ids),
         NEW c \in Chains, NEW i \in 2..Len(c), NEW b, b = reqs[r].block_ids[j], c[i] \in pool.block_hashes[b]
  PROVE  /\ j = i /\ i - 1 \in 1..Len(reqs[r].block_ids)
         /\ \E a \in Block : /\ a = reqs[r].block_ids[i - 1] /\ pool.ref_cnt[a] > 0
                             /\ c[i - 1] \in pool.block_hashes[a]
<1>1. PICK ids, cached, d, done :
         /\ ids = reqs[r].block_ids /\ cached = reqs[r].num_cached_blocks /\ d = seqs[r].chain
         /\ done = seqs[r].computed \div BlockSize
         /\ RequestFacts(r, ids, cached, d, done)
  BY HeldFacts
<1>2. /\ ids \in Seq(Block) /\ d \in Chains /\ d \in Seq(Hash) /\ cached \in Nat /\ done \in Nat
      /\ cached <= done /\ done <= Len(ids) /\ done <= Len(d)
      /\ \A b1 \in ToSet(ids) : pool.ref_cnt[b1] > 0
      /\ \A x \in 1..cached : d[x] \in pool.block_hashes[ids[x]]
      /\ \A x \in (cached + 1)..Len(ids) : pool.block_hashes[ids[x]] = {}
  BY <1>1 DEF RequestFacts
<1>3. j \in 1..cached /\ b \in Block
  <2>1. j \in 1..Len(ids) /\ b = ids[j] /\ pool.block_hashes[b] # {}
    BY <1>1
  <2>2. j \notin (cached + 1)..Len(ids)
    BY <1>2, <2>1
  <2>3. cached \in Nat /\ ids \in Seq(Block)
    BY <1>2
  <2> QED BY <2>1, <2>2, <2>3
<1>4. d[j] \in pool.block_hashes[b]
  BY <1>1, <1>2, <1>3
<1>5. pool \in PoolRecord /\ Indexed(pool)
  BY PoolInvIs DEF ManagerInv, Shape
<1>6. c[i] = d[j]
  BY <1>3, <1>4, <1>5 DEF Indexed
<1>7. i \in 1..Len(c) /\ j \in 1..Len(d) /\ c \in Seq(Hash)
  BY <1>2, <1>3, ManagerAssumption
<1>8. i = j /\ \A x \in 1..i : c[x] = d[x]
  BY <1>2, <1>6, <1>7, HashAssumption
<1>9. i - 1 \in 1..cached /\ i - 1 \in 1..i /\ i - 1 \in 1..Len(ids)
  BY <1>2, <1>3, <1>7, <1>8
<1>10. PICK a \in Block : a = ids[i - 1]
  BY <1>2, <1>9
<1>11. a \in ToSet(ids)
  BY <1>2, <1>9, <1>10, MembersHavePositions
<1>12. c[i - 1] \in pool.block_hashes[a]
  BY <1>2, <1>8, <1>9, <1>10
<1> QED BY <1>1, <1>2, <1>8, <1>9, <1>10, <1>11, <1>12

\* A block in use is held.
LEMMA InUseIsHeld ==
  ASSUME ManagerInv, NEW b \in Block, pool.ref_cnt[b] # 0
  PROVE  \E r \in Live : \E j \in 1..Len(reqs[r].block_ids) : b = reqs[r].block_ids[j]
<1>1. pool.ref_cnt[b] = Cardinality(Ledger!Holders(b))
  BY SameCardinality DEF ManagerInv, Ledger!LedgerInv, Ledger!RefCountsExact
<1>2. Ledger!Holders(b) # {}
  BY <1>1, FS_EmptySet
<1>3. PICK r \in Live : b \in Ledger!Elements(BlocksOf[r])
  BY <1>2 DEF Ledger!Holders
<1>4. BlocksOf[r] = reqs[r].block_ids
  BY Mapped DEF ManagerInv
<1> QED BY <1>3, <1>4 DEF Ledger!Elements

\* Blocks in use are held with what is in front of them, idle ones by the order.
LEMMA OrderMeansNoOrphans ==
  ASSUME ManagerInv, TailEvictedFirst
  PROVE  NoOrphanedBlocks
<1> SUFFICES ASSUME NEW c \in Chains, NEW i \in 2..Len(c), NEW b \in pool.cache[c[i]]
             PROVE  pool.cache[c[i - 1]] # {}
  BY DEF NoOrphanedBlocks
<1>1. pool \in PoolRecord /\ Indexed(pool)
  BY PoolInvIs DEF ManagerInv, Shape
<1>2. c \in Seq(Hash) /\ c[i] \in Hash /\ c[i - 1] \in Hash
  BY ManagerAssumption
<1>3. b \in Block /\ c[i] \in pool.block_hashes[b]
  BY <1>1, <1>2 DEF PoolRecord, Indexed
<1>4. CASE pool.ref_cnt[b] = 0
  BY <1>4 DEF TailEvictedFirst, EvictionOrder
<1>5. CASE pool.ref_cnt[b] # 0
  <2>1. PICK r \in Live : \E j \in 1..Len(reqs[r].block_ids) : b = reqs[r].block_ids[j]
    BY <1>3, <1>5, InUseIsHeld
  <2>2. PICK j \in 1..Len(reqs[r].block_ids) : b = reqs[r].block_ids[j]
    BY <2>1
  <2>3. PICK a \in Block : c[i - 1] \in pool.block_hashes[a]
    BY <1>3, <2>2, HeldInChain
  <2> QED BY <1>1, <1>2, <2>3 DEF Indexed
<1> QED BY <1>4, <1>5

\* Blocks leave the free queue, and no block loses its key.
LEMMA OrderShrinks ==
  ASSUME NEW p, NEW q, EvictionOrder(p), PoolInv(p), PoolInv(q),
         \A b \in Block : q.ref_cnt[b] = 0 => p.ref_cnt[b] = 0,
         \A b \in Block : p.block_hashes[b] \subseteq q.block_hashes[b],
         \A b \in Block : q.ref_cnt[b] = 0 => q.block_hashes[b] = p.block_hashes[b],
         \A a, b : Ahead(q.queue, a, b) => Ahead(p.queue, a, b)
  PROVE  EvictionOrder(q)
<1>1. p \in PoolRecord /\ Indexed(p) /\ q \in PoolRecord /\ Indexed(q)
  BY PoolInvIs DEF Shape
<1> SUFFICES ASSUME NEW c \in Chains, NEW i \in 2..Len(c), NEW b \in q.cache[c[i]], q.ref_cnt[b] = 0
             PROVE  \E a \in q.cache[c[i - 1]] : ~Ahead(q.queue, a, b)
  BY DEF EvictionOrder
<1>2. c \in Seq(Hash) /\ c[i] \in Hash /\ c[i - 1] \in Hash
  BY ManagerAssumption
<1>3. b \in Block /\ c[i] \in q.block_hashes[b]
  BY <1>1, <1>2 DEF PoolRecord, Indexed
<1>4. c[i] \in p.block_hashes[b] /\ p.ref_cnt[b] = 0
  BY <1>3
<1>5. b \in p.cache[c[i]]
  BY <1>1, <1>2, <1>3, <1>4 DEF Indexed
<1>6. PICK a \in p.cache[c[i - 1]] : ~Ahead(p.queue, a, b)
  BY <1>4, <1>5 DEF EvictionOrder
<1>7. a \in Block
  BY <1>1, <1>2, <1>6 DEF PoolRecord
<1>8. c[i - 1] \in p.block_hashes[a]
  BY <1>1, <1>2, <1>6, <1>7 DEF Indexed
<1>9. a \in q.cache[c[i - 1]]
  BY <1>1, <1>2, <1>7, <1>8 DEF Indexed
<1> QED BY <1>6, <1>9

\* Allocation takes the front of the free queue.
LEMMA OrderAllocates ==
  ASSUME Lease = {}, NEW p, PoolInv(p), EvictionOrder(p), NEW n \in Nat, n <= NumFree(p),
         NEW got \in GetNewBlocks(p, n)
  PROVE  EvictionOrder(got.pool)
<1>1. /\ p \in PoolRecord /\ Indexed(p) /\ p.queue \in Seq(Block) /\ IsInjective(p.queue) /\ ToSet(p.queue) = Idle(p)
  BY IdleAreQueued
<1>2. Len(p.queue) = NumFree(p)
  BY NoLeaseNoPin, NothingPinned
<1>3. PICK Q \in Seq(Block) : Q = p.queue
  BY <1>1
<1>4. PICK m \in 0..Len(Q) : m = n
  BY <1>2, <1>3
<1>5. got = AllocateFreeBlocks(p, m)
  <2>1. ~(m > NumFree(p))
    BY <1>2, <1>3, <1>4
  <2> QED BY <1>4, <2>1 DEF GetNewBlocks
<1>6. PICK q, bs : q = got.pool /\ bs = got.blocks
  OBVIOUS
<1>7. /\ PoolInv(q) /\ Allocated(p, q, bs) /\ bs = SubSeq(Q, 1, m) /\ q.queue = SubSeq(Q, m + 1, Len(Q))
  BY <1>3, <1>5, <1>6, AllocateFreeKeeps
<1>8. q \in PoolRecord /\ Indexed(q)
  BY <1>7, PoolInvIs DEF Shape
<1>9. /\ ToSet(bs) \subseteq Idle(p)
      /\ \A b \in Block :
          /\ q.ref_cnt[b] = IF b \in ToSet(bs) THEN 1 ELSE p.ref_cnt[b]
          /\ q.block_hashes[b] = IF b \in ToSet(bs) THEN {} ELSE p.block_hashes[b]
  BY <1>7 DEF Allocated
<1>10. m + 1 \in 1..(Len(Q) + 1) /\ Len(Q) \in 0..Len(Q)
  <2>1. PICK l \in Nat : l = Len(Q)
    OBVIOUS
  <2> QED BY <2>1
<1>11. ASSUME NEW c \in Chains, NEW i \in 2..Len(c), NEW b \in q.cache[c[i]], q.ref_cnt[b] = 0
       PROVE  \E a \in q.cache[c[i - 1]] : ~Ahead(q.queue, a, b)
  <2>1. c \in Seq(Hash) /\ c[i] \in Hash /\ c[i - 1] \in Hash
    BY ManagerAssumption
  <2>2. b \in Block /\ c[i] \in q.block_hashes[b]
    BY <1>8, <2>1 DEF PoolRecord, Indexed
  <2>3. b \notin ToSet(bs) /\ p.ref_cnt[b] = 0 /\ c[i] \in p.block_hashes[b]
    BY <1>9, <1>11, <2>2
  <2>4. b \in p.cache[c[i]]
    BY <1>1, <2>1, <2>2, <2>3 DEF Indexed
  <2>5. PICK a \in p.cache[c[i - 1]] : ~Ahead(p.queue, a, b)
    BY <2>3, <2>4 DEF EvictionOrder
  <2>6. a \in Block /\ c[i - 1] \in p.block_hashes[a]
    BY <1>1, <2>1, <2>5 DEF PoolRecord, Indexed
  <2>7. PICK L, R : L = SubSeq(Q, 1, m) /\ R = SubSeq(Q, m + 1, Len(Q))
    OBVIOUS
  <2>8. b \in ToSet(R)
    <3>1. b \in ToSet(Q)
      BY <1>1, <1>3, <2>2, <2>3 DEF Idle
    <3>2. PICK x \in 1..Len(Q) : Q[x] = b
      BY <3>1, MembersHavePositions
    <3>3. \A y : y \in ToSet(SubSeq(Q, 1, m)) <=> \E z \in 1..m : Q[z] = y
      BY SubSeqKeeps
    <3>4. PICK s \in 1..(Len(Q) + 1), e \in 0..Len(Q) : s = m + 1 /\ e = Len(Q)
      BY <1>10, Zenon
    <3>5. \A y : y \in ToSet(SubSeq(Q, s, e)) <=> \E z \in s..e : Q[z] = y
      BY SubSeqKeeps
    <3>6. x \notin 1..m
      BY <1>7, <2>3, <3>2, <3>3
    <3>7. x \in s..e
      BY <3>4, <3>6
    <3>8. R = SubSeq(Q, s, e)
      BY <2>7, <3>4
    <3> QED BY <3>2, <3>5, <3>7, <3>8
  <2>9. a \notin ToSet(bs)
    <3>1. ASSUME a \in ToSet(L) PROVE FALSE
      <4>1. Ahead(Q, a, b)
        BY <2>7, <2>8, <3>1, AheadInHalves
      <4> QED BY <1>3, <2>5, <4>1
    <3> QED BY <1>7, <2>7, <3>1
  <2>10. a \in q.cache[c[i - 1]]
    BY <1>8, <1>9, <2>1, <2>6, <2>9 DEF Indexed
  <2>11. ASSUME Ahead(R, a, b) PROVE FALSE
    <3>1. PICK s \in 1..(Len(Q) + 1), e \in 0..Len(Q) : s = m + 1 /\ e = Len(Q)
      BY <1>10, Zenon
    <3>2. Ahead(SubSeq(Q, s, e), a, b)
      BY <2>7, <2>11, <3>1
    <3>3. Ahead(Q, a, b)
      BY <3>2, AheadInPiece
    <3> QED BY <1>3, <2>5, <3>3
  <2> QED BY <1>7, <2>7, <2>10, <2>11
<1>12. EvictionOrder(q)
  BY <1>11 DEF EvictionOrder
<1> QED BY <1>6, <1>12

\* Blocks are released behind the free queue: what was idle keeps its place,
\* and among the released ones the order is that of the release.
LEMMA OrderReleases ==
  ASSUME Lease = {}, NEW p, PoolInv(p), EvictionOrder(p), NEW q, PoolInv(q), SameCaches(p, q),
         NEW bs \in Seq(Block), \A b \in ToSet(bs) : p.ref_cnt[b] > 0,
         \A b \in Block : q.ref_cnt[b] = IF b \in ToSet(bs) THEN p.ref_cnt[b] - 1 ELSE p.ref_cnt[b],
         NEW S, q.queue = p.queue \o Keep(Keep(bs, ToSet(bs)), S),
         \A c \in Chains : \A i \in 2..Len(c) : \A b \in p.cache[c[i]] : b \in ToSet(bs) =>
            \E a \in p.cache[c[i - 1]] : p.ref_cnt[a] > 0 /\ ~Ahead(bs, a, b)
  PROVE  EvictionOrder(q)
<1>1. /\ p \in PoolRecord /\ p.queue \in Seq(Block) /\ ToSet(p.queue) = Idle(p)
  BY IdleAreQueued
<1>2. q.cache = p.cache
  BY DEF SameCaches, SameIndexes
<1>3. PICK old, back : old \in Seq(Block) /\ old = p.queue /\ back = Keep(Keep(bs, ToSet(bs)), S)
  BY <1>1
<1>4. PICK k : k = Keep(bs, ToSet(bs)) /\ k \in Seq(Block) /\ ToSet(k) \subseteq ToSet(bs)
  BY KeepProperties
<1>5. back = Keep(k, S)
  BY <1>3, <1>4
<1>6. back \in Seq(Block) /\ ToSet(back) \subseteq ToSet(k)
  BY <1>4, <1>5, KeepProperties
<1>7. \A a, b : Ahead(back, a, b) => Ahead(bs, a, b)
  <2> SUFFICES ASSUME NEW a, NEW b, Ahead(back, a, b) PROVE Ahead(bs, a, b)
    OBVIOUS
  <2>1. Ahead(k, a, b)
    BY <1>4, <1>5, AheadInKeep
  <2> QED BY <1>4, <2>1, AheadInKeep
<1>8. \A a, b : Ahead(q.queue, a, b) =>
         Ahead(old, a, b) \/ Ahead(back, a, b) \/ (a \in ToSet(old) /\ b \in ToSet(back))
  <2>1. q.queue = old \o back
    BY <1>3
  <2> QED BY <1>3, <1>6, <2>1, AheadInConcat
<1> SUFFICES ASSUME NEW c \in Chains, NEW i \in 2..Len(c), NEW b \in q.cache[c[i]], q.ref_cnt[b] = 0
             PROVE  \E a \in q.cache[c[i - 1]] : ~Ahead(q.queue, a, b)
  BY DEF EvictionOrder
<1>9. c \in Seq(Hash) /\ c[i] \in Hash /\ c[i - 1] \in Hash
  BY ManagerAssumption
<1>10. b \in p.cache[c[i]] /\ b \in Block
  BY <1>1, <1>2, <1>9 DEF PoolRecord
<1>11. CASE b \notin ToSet(bs)
  <2>1. p.ref_cnt[b] = 0
    BY <1>10, <1>11
  <2>2. PICK a \in p.cache[c[i - 1]] : ~Ahead(p.queue, a, b)
    BY <1>10, <2>1 DEF EvictionOrder
  <2>3. b \notin ToSet(back)
    BY <1>4, <1>6, <1>11
  <2>4. ~Ahead(back, a, b)
    BY <1>6, <2>3, AheadMembers
  <2> QED BY <1>2, <1>3, <1>8, <2>2, <2>3, <2>4
<1>12. CASE b \in ToSet(bs)
  <2>1. PICK a \in p.cache[c[i - 1]] : p.ref_cnt[a] > 0 /\ ~Ahead(bs, a, b)
    BY <1>10, <1>12
  <2>2. a \notin ToSet(old)
    BY <1>1, <1>3, <2>1 DEF Idle
  <2>3. ~Ahead(old, a, b)
    <3>1. old \in Seq(Block)
      BY <1>3
    <3> QED BY <2>2, <3>1, AheadMembers
  <2> QED BY <1>2, <1>7, <1>8, <2>1, <2>2, <2>3
<1> QED BY <1>11, <1>12

\* Freeing blocks keeps the order when the block in front of each is freed
\* no earlier.
LEMMA OrderFrees ==
  ASSUME Lease = {}, NEW p, PoolInv(p), EvictionOrder(p), NEW bs \in Seq(Block), IsInjective(bs),
         \A b \in ToSet(bs) : p.ref_cnt[b] > 0, NEW q \in FreeBlocks(p, bs),
         \A c \in Chains : \A i \in 2..Len(c) : \A b \in p.cache[c[i]] : b \in ToSet(bs) =>
            \E a \in p.cache[c[i - 1]] : p.ref_cnt[a] > 0 /\ ~Ahead(bs, a, b)
  PROVE  EvictionOrder(q)
<1>1. /\ PoolInv(q) /\ SameCaches(p, q)
      /\ \A b \in Block : q.ref_cnt[b] = IF b \in ToSet(bs) THEN p.ref_cnt[b] - 1 ELSE p.ref_cnt[b]
      /\ Lease = {} => \E S \in SUBSET Block : q.queue = p.queue \o Keep(Keep(bs, ToSet(bs)), S)
  BY FreeBlocksKeeps
<1>2. PICK S : q.queue = p.queue \o Keep(Keep(bs, ToSet(bs)), S)
  BY <1>1
<1> QED BY <1>1, <1>2, OrderReleases

\* free releases a request back to front.
LEMMA FreeOrders ==
  ASSUME Lease = {}, ManagerInv, TailEvictedFirst, NEW r \in Req, Free(r)
  PROVE  TailEvictedFirst'
<1>1. r \in Live /\ pool' \in FreeBlocks(pool, Reverse(reqs[r].block_ids))
  BY DEF Free, ReleaseOrder
<1>2. PoolInv(pool) /\ EvictionOrder(pool) /\ pool \in PoolRecord /\ Indexed(pool)
  BY PoolInvIs DEF ManagerInv, TailEvictedFirst, Shape
<1>3. PICK ids \in Seq(Block) : ids = reqs[r].block_ids /\ IsInjective(ids) /\ \A b \in ToSet(ids) : pool.ref_cnt[b] > 0
  BY <1>1, HeldFacts DEF RequestFacts
<1>4. PICK bs \in Seq(Block) : bs = Reverse(ids) /\ IsInjective(bs) /\ ToSet(bs) = ToSet(ids)
  BY <1>3, ReverseKeeps
<1>5. PICK p, q : p = pool /\ q = pool'
  OBVIOUS
<1>6. PoolInv(p) /\ EvictionOrder(p)
  BY <1>2, <1>5
<1>7. ASSUME NEW c \in Chains, NEW i \in 2..Len(c), NEW b \in p.cache[c[i]], b \in ToSet(bs)
      PROVE  \E a \in p.cache[c[i - 1]] : p.ref_cnt[a] > 0 /\ ~Ahead(bs, a, b)
  <2>1. c \in Seq(Hash) /\ c[i] \in Hash /\ c[i - 1] \in Hash
    BY ManagerAssumption
  <2>2. b \in Block /\ c[i] \in pool.block_hashes[b]
    BY <1>2, <1>5, <1>7, <2>1 DEF PoolRecord, Indexed
  <2>3. PICK j \in 1..Len(ids) : ids[j] = b
    BY <1>4, <1>7, MembersHavePositions
  <2>4. /\ j = i /\ i - 1 \in 1..Len(ids)
        /\ \E a \in Block : a = ids[i - 1] /\ pool.ref_cnt[a] > 0 /\ c[i - 1] \in pool.block_hashes[a]
    BY <1>1, <1>3, <2>2, <2>3, HeldInChain
  <2>5. PICK a \in Block : a = ids[i - 1] /\ pool.ref_cnt[a] > 0 /\ c[i - 1] \in pool.block_hashes[a]
    BY <2>4
  <2>6. a \in p.cache[c[i - 1]] /\ p.ref_cnt[a] > 0
    BY <1>2, <1>5, <2>1, <2>5 DEF Indexed
  <2>7. Ahead(ids, a, b)
    <3>1. PICK x \in 1..Len(ids), y \in 1..Len(ids) : x = i - 1 /\ y = j /\ x < y
      BY <2>4
    <3> QED BY <2>3, <2>5, <3>1 DEF Ahead
  <2>8. ~Ahead(ids, b, a)
    BY <1>3, <2>7, AheadAsymmetric
  <2>9. ~Ahead(bs, a, b)
    BY <1>4, <2>8, AheadInReverse
  <2> QED BY <2>6, <2>9
<1>8. q \in FreeBlocks(p, bs)
  BY <1>1, <1>3, <1>4, <1>5
<1>9. IsInjective(bs) /\ \A b \in ToSet(bs) : p.ref_cnt[b] > 0
  BY <1>3, <1>4, <1>5
<1>10. EvictionOrder(q)
  BY <1>6, <1>7, <1>8, <1>9, OrderFrees
<1> QED BY <1>5, <1>10 DEF TailEvictedFirst, EvictionOrder

\* trim_request_to_num_tokens releases blocks that carry no hash.
LEMMA TrimOrders ==
  ASSUME Lease = {}, ManagerInv, TailEvictedFirst, NEW r \in Req, NEW n \in Nat, TrimRequest(r, n)
  PROVE  TailEvictedFirst'
<1>1. /\ r \in Live /\ n >= seqs[r].computed /\ DivCeil(n) < Len(reqs[r].block_ids)
      /\ pool' \in FreeBlocks(pool, Reverse(SubSeq(reqs[r].block_ids, DivCeil(n) + 1, Len(reqs[r].block_ids))))
  BY DEF TrimRequest, ReleaseOrder
<1>2. Typed /\ PoolInv(pool) /\ EvictionOrder(pool) /\ pool \in PoolRecord /\ Indexed(pool)
  BY PoolInvIs DEF ManagerInv, TailEvictedFirst, Shape
<1>3. PICK ids, cached, c, done :
         /\ ids = reqs[r].block_ids /\ cached = reqs[r].num_cached_blocks /\ c = seqs[r].chain
         /\ done = seqs[r].computed \div BlockSize
         /\ RequestFacts(r, ids, cached, c, done)
  BY <1>1, HeldFacts
<1>4. /\ ids \in Seq(Block) /\ IsInjective(ids) /\ \A b \in ToSet(ids) : pool.ref_cnt[b] > 0
      /\ cached \in Nat /\ done \in Nat /\ cached <= done
      /\ \A i \in (cached + 1)..Len(ids) : pool.block_hashes[ids[i]] = {}
  BY <1>3 DEF RequestFacts
<1>5. PICK k \in Nat : k = DivCeil(n) /\ k < Len(ids) /\ n <= k * BlockSize
  BY <1>1, <1>3, CeilCovers
<1>6. cached <= k
  <2>1. seqs[r].computed \in Nat
    BY <1>1, <1>2, Mapped DEF TokensRecord
  <2>2. done * BlockSize <= seqs[r].computed /\ done * BlockSize \in Nat /\ k * BlockSize \in Nat
    BY <1>3, <1>4, <2>1, TokenPosition, WholeBlocks
  <2>3. PICK x \in Nat : x = k * BlockSize /\ x \div BlockSize = k
    BY WholeBlocks
  <2>4. done * BlockSize <= x
    BY <1>1, <1>5, <2>1, <2>2, <2>3
  <2>5. done <= k
    BY <1>4, <2>3, <2>4, BlockOfToken
  <2> QED BY <1>4, <2>5
<1>7. PICK s \in 1..(Len(ids) + 1), e \in 0..Len(ids) : s = k + 1 /\ e = Len(ids)
  BY <1>4, <1>5
<1>8. PICK out \in Seq(Block) : out = SubSeq(ids, s, e) /\ IsInjective(out)
                                /\ \A x : x \in ToSet(out) <=> \E i \in s..e : ids[i] = x
  <2>1. /\ SubSeq(ids, s, e) \in Seq(Block) /\ IsInjective(SubSeq(ids, s, e))
        /\ \A x : x \in ToSet(SubSeq(ids, s, e)) <=> \E i \in s..e : ids[i] = x
    BY <1>4, SubSeqKeeps
  <2> QED BY <2>1
<1>9. PICK bs \in Seq(Block) : bs = Reverse(out) /\ IsInjective(bs) /\ ToSet(bs) = ToSet(out)
  BY <1>8, ReverseKeeps
<1>10. \A b \in ToSet(bs) : b \in Block /\ pool.ref_cnt[b] > 0 /\ pool.block_hashes[b] = {}
  <2> SUFFICES ASSUME NEW b \in ToSet(bs) PROVE b \in Block /\ pool.ref_cnt[b] > 0 /\ pool.block_hashes[b] = {}
    OBVIOUS
  <2>1. PICK i \in s..e : ids[i] = b
    BY <1>8, <1>9
  <2>2. i \in (cached + 1)..Len(ids) /\ i \in 1..Len(ids)
    BY <1>4, <1>5, <1>6, <1>7
  <2>3. b \in ToSet(ids) /\ b \in Block
    BY <1>4, <2>1, <2>2, MembersHavePositions
  <2> QED BY <1>4, <2>1, <2>2, <2>3
<1>11. pool' \in FreeBlocks(pool, bs)
  <2>1. DivCeil(n) + 1 = s /\ Len(reqs[r].block_ids) = e /\ reqs[r].block_ids = ids
    BY <1>3, <1>5, <1>7
  <2>2. out = SubSeq(ids, s, e)
    BY <1>8
  <2>3. bs = Reverse(out)
    BY <1>9
  <2> QED BY <1>1, <2>1, <2>2, <2>3, Zenon
<1>12. PICK p, q : p = pool /\ q = pool'
  OBVIOUS
<1>13. /\ PoolInv(p) /\ EvictionOrder(p) /\ IsInjective(bs) /\ \A b \in ToSet(bs) : p.ref_cnt[b] > 0
  BY <1>2, <1>9, <1>10, <1>12
<1>14. ASSUME NEW d \in Chains, NEW i \in 2..Len(d), NEW b \in p.cache[d[i]], b \in ToSet(bs) PROVE FALSE
  <2>1. d \in Seq(Hash) /\ d[i] \in Hash
    BY ManagerAssumption
  <2>2. d[i] \in pool.block_hashes[b]
    BY <1>2, <1>10, <1>12, <1>14, <2>1 DEF Indexed
  <2> QED BY <1>10, <1>14, <2>2
<1>15. q \in FreeBlocks(p, bs)
  BY <1>11, <1>12
<1>16. EvictionOrder(q)
  BY <1>13, <1>14, <1>15, OrderFrees
<1> QED BY <1>12, <1>16 DEF TailEvictedFirst, EvictionOrder

\* The order is one of the free queue, the references and the hash map.
LEMMA OrderUntouched ==
  ASSUME TailEvictedFirst, pool'.cache = pool.cache, pool'.ref_cnt = pool.ref_cnt, pool'.queue = pool.queue
  PROVE  TailEvictedFirst'
BY DEF TailEvictedFirst, EvictionOrder

\* Adopting a hit takes its blocks out of the free queue.
LEMMA OrderAdopts ==
  ASSUME Lease = {}, ManagerInv, TailEvictedFirst, NEW hit, NEW p, Adopted(p, hit)
  PROVE  EvictionOrder(p)
<1>1. PoolInv(pool) /\ EvictionOrder(pool) /\ pool \in PoolRecord
  BY PoolInvIs DEF ManagerInv, TailEvictedFirst
<1>2. PICK o : o = pool
  OBVIOUS
<1>3. /\ PoolInv(p) /\ p.block_hashes = o.block_hashes
      /\ \A a, b : Ahead(p.queue, a, b) => Ahead(o.queue, a, b)
  BY <1>2 DEF Adopted, SameCaches, SameIndexes
<1>4. \A b \in Block : p.ref_cnt[b] = 0 => o.ref_cnt[b] = 0
  <2>1. \A b \in Block : o.ref_cnt[b] \in Nat
    BY <1>1, <1>2 DEF PoolRecord
  <2>2. \A b \in Block : p.ref_cnt[b] = IF b \in ToSet(hit) THEN o.ref_cnt[b] + 1 ELSE o.ref_cnt[b]
    BY <1>2 DEF Adopted
  <2> QED BY <2>1, <2>2
<1>5. PoolInv(o) /\ EvictionOrder(o)
  BY <1>1, <1>2
<1> QED BY <1>3, <1>4, <1>5, OrderShrinks

\* cache_blocks.
LEMMA CacheBlocksOrders ==
  ASSUME Lease = {}, ManagerInv, TailEvictedFirst, NEW r \in Req, CacheBlocks(r)
  PROVE  TailEvictedFirst'
<1>1. /\ ManagerInv' /\ KeysGained(pool, pool')
      /\ \A a, b : Ahead(pool'.queue, a, b) => Ahead(pool.queue, a, b)
  BY CacheBlocksKeeps DEF Kept
<1>2. PICK p, q : p = pool /\ q = pool'
  OBVIOUS
<1>3. PoolInv(p) /\ EvictionOrder(p) /\ PoolInv(q)
  <2>1. PoolInv(pool')
    BY <1>1 DEF ManagerInv
  <2>2. PoolInv(pool) /\ EvictionOrder(pool)
    BY DEF ManagerInv, TailEvictedFirst
  <2> QED BY <1>2, <2>1, <2>2
<1>4. /\ \A b \in Block : q.ref_cnt[b] = 0 => p.ref_cnt[b] = 0
      /\ \A b \in Block : p.block_hashes[b] \subseteq q.block_hashes[b]
      /\ \A b \in Block : q.ref_cnt[b] = 0 => q.block_hashes[b] = p.block_hashes[b]
  BY <1>1, <1>2 DEF KeysGained
<1>5. \A a, b : Ahead(q.queue, a, b) => Ahead(p.queue, a, b)
  BY <1>1, <1>2
<1>6. EvictionOrder(q)
  BY <1>3, <1>4, <1>5, OrderShrinks
<1> QED BY <1>2, <1>6 DEF TailEvictedFirst, EvictionOrder

\* reserve_prompt.
LEMMA ReserveOrders ==
  ASSUME Lease = {}, ManagerInv, TailEvictedFirst, NEW r \in Req, ReservePrompt(r)
  PROVE  TailEvictedFirst'
<1>1. Adopted(pool', lookup.hit)
  BY ReservePromptKeeps
<1>2. PICK q : q = pool'
  OBVIOUS
<1>3. EvictionOrder(q)
  BY <1>1, <1>2, OrderAdopts
<1> QED BY <1>2, <1>3 DEF TailEvictedFirst, EvictionOrder

\* allocate_slots of a new request.
LEMMA AllocateNewOrders ==
  ASSUME Lease = {}, ManagerInv, TailEvictedFirst, NEW r \in Req, AllocateNewRequest(r)
  PROVE  TailEvictedFirst'
<1>1. PICK p : /\ Adopted(p, lookup.hit)
               /\ \/ pool' = p
                  \/ \E n \in Nat : n <= NumFree(p) /\ \E got \in GetNewBlocks(p, n) : pool' = got.pool
  BY AllocateNewKeeps
<1>2. PoolInv(p) /\ EvictionOrder(p)
  BY <1>1, OrderAdopts DEF Adopted
<1>3. PICK q : q = pool'
  OBVIOUS
<1>4. EvictionOrder(q)
  <2>1. CASE pool' = p
    BY <1>2, <1>3, <2>1
  <2>2. CASE \E n \in Nat : n <= NumFree(p) /\ \E got \in GetNewBlocks(p, n) : pool' = got.pool
    <3>1. PICK n \in Nat : n <= NumFree(p) /\ \E got \in GetNewBlocks(p, n) : pool' = got.pool
      BY <2>2
    <3>2. PICK got \in GetNewBlocks(p, n) : pool' = got.pool
      BY <3>1
    <3>3. EvictionOrder(got.pool)
      BY <1>2, <3>1, OrderAllocates
    <3> QED BY <1>3, <3>2, <3>3
  <2> QED BY <1>1, <2>1, <2>2
<1> QED BY <1>3, <1>4 DEF TailEvictedFirst, EvictionOrder

\* allocate_slots of a running request.
LEMMA GrowOrders ==
  ASSUME Lease = {}, ManagerInv, TailEvictedFirst, NEW r \in Req, NEW n \in Nat, AllocateMore(r, n)
  PROVE  TailEvictedFirst'
<1>1. PICK f \in Nat : f <= NumFree(pool) /\ \E got \in GetNewBlocks(pool, f) : pool' = got.pool
  BY GrowKeeps
<1>2. PICK got \in GetNewBlocks(pool, f) : pool' = got.pool
  BY <1>1
<1>3. PICK p, q : p = pool /\ q = pool'
  OBVIOUS
<1>4. PoolInv(p) /\ EvictionOrder(p) /\ f <= NumFree(p) /\ got \in GetNewBlocks(p, f)
  BY <1>1, <1>2, <1>3 DEF ManagerInv, TailEvictedFirst
<1>5. EvictionOrder(got.pool)
  BY <1>4, OrderAllocates
<1>6. EvictionOrder(q)
  BY <1>2, <1>3, <1>5
<1> QED BY <1>3, <1>6 DEF TailEvictedFirst, EvictionOrder

\* reset_prefix_cache.
LEMMA ResetOrders ==
  ASSUME Lease = {}, ManagerInv, ResetPrefixCache
  PROVE  TailEvictedFirst'
<1>1. ManagerInv' /\ \A b \in Block : pool'.block_hashes[b] = {}
  BY ResetPrefixKeeps DEF Kept
<1>2. PICK q : q = pool'
  OBVIOUS
<1>3. PoolInv(q) /\ q \in PoolRecord /\ Indexed(q)
  BY <1>1, <1>2, PoolInvIs DEF ManagerInv, Shape
<1>4. \A h \in Hash : q.cache[h] = {}
  BY <1>1, <1>2, <1>3 DEF PoolRecord, Indexed
<1>5. EvictionOrder(q)
  <2> SUFFICES ASSUME NEW c \in Chains, NEW i \in 2..Len(c), NEW b \in q.cache[c[i]] PROVE FALSE
    BY DEF EvictionOrder
  <2>1. c \in Seq(Hash) /\ c[i] \in Hash
    BY ManagerAssumption
  <2> QED BY <1>4, <2>1
<1> QED BY <1>2, <1>5 DEF TailEvictedFirst, EvictionOrder

\* Nothing is cached at the start.
LEMMA StartOrders ==
  ASSUME Init
  PROVE  TailEvictedFirst
<1> SUFFICES ASSUME NEW c \in Chains, NEW i \in 2..Len(c), NEW b \in pool.cache[c[i]] PROVE FALSE
  BY DEF TailEvictedFirst, EvictionOrder
<1>1. c \in Seq(Hash) /\ c[i] \in Hash
  BY ManagerAssumption
<1>2. pool.cache = [h \in Hash |-> {}]
  BY DEF Init, EmptyPool
<1> QED BY <1>1, <1>2

\* Every step keeps the order.
LEMMA StepOrders ==
  ASSUME Lease = {}, ManagerInv, TailEvictedFirst, [Next]_vars
  PROVE  TailEvictedFirst'
<1>1. CASE UNCHANGED vars
  BY <1>1, OrderUntouched DEF vars
<1>2. CASE ResetPrefixCache
  BY <1>2, ResetOrders
<1>3. ASSUME NEW r \in Req, NEW c \in Chains, NEW n \in 1..MaxTokens, GetComputedBlocks(r, c, n)
      PROVE  TailEvictedFirst'
  BY <1>3, OrderUntouched DEF GetComputedBlocks
<1>4. CASE AbandonLookup
  BY <1>4, OrderUntouched DEF AbandonLookup
<1>5. ASSUME NEW r \in Req, ReservePrompt(r) \/ AllocateNewRequest(r) PROVE TailEvictedFirst'
  BY <1>5, ReserveOrders, AllocateNewOrders
<1>6. ASSUME NEW r \in Req, Free(r) \/ CacheBlocks(r) PROVE TailEvictedFirst'
  BY <1>6, FreeOrders, CacheBlocksOrders
<1>7. ASSUME NEW r \in Req, NEW n \in 1..MaxTokens, AllocateMore(r, n) \/ TrimRequest(r, n) PROVE TailEvictedFirst'
  <2>1. n \in Nat
    BY ManagerAssumption
  <2> QED BY <1>7, <2>1, GrowOrders, TrimOrders
<1>8. ASSUME NEW r \in Req, NEW n \in 0..MaxTokens, NEW w \in 0..MaxTokens, Forward(r, n, w) PROVE TailEvictedFirst'
  BY <1>8, OrderUntouched DEF Forward
<1>9. CASE TakePendingRevocation
  <2>1. pool \in PoolRecord
    BY PoolInvIs DEF ManagerInv
  <2>2. pool' = [pool EXCEPT !.revoked = FALSE]
    BY <1>9 DEF TakePendingRevocation
  <2>3. pool'.cache = pool.cache /\ pool'.ref_cnt = pool.ref_cnt /\ pool'.queue = pool.queue
    BY <2>1, <2>2 DEF PoolRecord
  <2> QED BY <2>3, OrderUntouched
<1> QED BY <1>1, <1>2, <1>3, <1>4, <1>5, <1>6, <1>7, <1>8, <1>9 DEF Next, Serve

\* Without leases, allocation takes no block off the free queue before a block
\* that follows it in a cached prefix.
THEOREM EvictsTailFirst ==
  ASSUME Lease = {}
  PROVE  Spec => []TailEvictedFirst
<1>1. Init => TailEvictedFirst
  BY StartOrders
<1>2. ManagerInv /\ TailEvictedFirst /\ [Next]_vars => TailEvictedFirst'
  BY StepOrders
<1>3. Spec => []ManagerInv
  BY ManagerInvariant
<1> QED BY <1>1, <1>2, <1>3, PTL DEF Spec

\* Without leases, whatever is cached can be found by a lookup from the start
\* of its chain: eviction never cuts a prefix in the middle.
THEOREM NeverOrphans ==
  ASSUME Lease = {}
  PROVE  Spec => []NoOrphanedBlocks
<1>1. ManagerInv /\ TailEvictedFirst => NoOrphanedBlocks
  BY OrderMeansNoOrphans
<1>2. Spec => []ManagerInv
  BY ManagerInvariant
<1>3. Spec => []TailEvictedFirst
  BY EvictsTailFirst
<1> QED BY <1>1, <1>2, <1>3, PTL

=============================================================================
