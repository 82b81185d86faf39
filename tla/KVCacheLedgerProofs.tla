------------------------- MODULE KVCacheLedgerProofs -------------------------
(***************************************************************************)
(* Proofs about KVCacheLedger, for every set of blocks, requests, hashes   *)
(* and chains.                                                             *)
(***************************************************************************)
EXTENDS KVCacheLedger, FiniteSetTheorems, SequenceTheorems, TLAPS

-----------------------------------------------------------------------------
(* Sequences of blocks. *)

\* The finite block sequences that actions choose from are sequences.
LEMMA BlockSeqsAreSeqs == BlockSeqs \subseteq Seq(Block)
<1>1. ASSUME NEW k \in 0..Cardinality(Block) PROVE [1..k -> Block] \subseteq Seq(Block)
  <2>1. Cardinality(Block) \in Nat
    BY LedgerAssumption, FS_CardinalityType
  <2>2. k \in Nat
    BY <2>1
  <2> QED
    BY <2>2
<1> QED
  BY <1>1 DEF BlockSeqs

\* The elements of a concatenation, position by position.
LEMMA ConcatIndex ==
  ASSUME NEW s \in Seq(Block), NEW t \in Seq(Block)
  PROVE  /\ s \o t \in Seq(Block)
         /\ Len(s \o t) = Len(s) + Len(t)
         /\ \A i \in 1..Len(s) : (s \o t)[i] = s[i]
         /\ \A i \in (Len(s) + 1)..(Len(s) + Len(t)) :
               i - Len(s) \in 1..Len(t) /\ (s \o t)[i] = t[i - Len(s)]
         /\ Elements(s \o t) = Elements(s) \cup Elements(t)
<1>1. /\ s \o t \in Seq(Block)
      /\ Len(s \o t) = Len(s) + Len(t)
      /\ \A i \in 1..(Len(s) + Len(t)) :
            (s \o t)[i] = IF i <= Len(s) THEN s[i] ELSE t[i - Len(s)]
  BY ConcatProperties
<1>2. Len(s) \in Nat /\ Len(t) \in Nat
  OBVIOUS
<1>3. /\ \A i \in 1..Len(s) : (s \o t)[i] = s[i]
      /\ \A i \in (Len(s) + 1)..(Len(s) + Len(t)) :
            i - Len(s) \in 1..Len(t) /\ (s \o t)[i] = t[i - Len(s)]
  BY <1>1, <1>2
<1>4. Elements(s \o t) \subseteq Elements(s) \cup Elements(t)
  <2>1. ASSUME NEW i \in 1..(Len(s) + Len(t)) PROVE (s \o t)[i] \in Elements(s) \cup Elements(t)
    <3>1. CASE i \in 1..Len(s)
      BY <3>1, <1>3 DEF Elements
    <3>2. CASE i \in (Len(s) + 1)..(Len(s) + Len(t))
      BY <3>2, <1>3 DEF Elements
    <3> QED
      BY <2>1, <1>2, <3>1, <3>2
  <2> QED
    BY <2>1, <1>1 DEF Elements
<1>5. Elements(s) \subseteq Elements(s \o t)
  BY <1>1, <1>2, <1>3 DEF Elements
<1>6. Elements(t) \subseteq Elements(s \o t)
  <2>1. ASSUME NEW j \in 1..Len(t) PROVE t[j] \in Elements(s \o t)
    <3>1. Len(s) + j \in (Len(s) + 1)..(Len(s) + Len(t))
      BY <1>2
    <3>2. (s \o t)[Len(s) + j] = t[j] /\ Len(s) + j \in 1..Len(s \o t)
      BY <1>1, <1>2, <3>1
    <3> QED
      BY <3>2 DEF Elements
  <2> QED
    BY <2>1 DEF Elements
<1> QED
  BY <1>1, <1>3, <1>4, <1>5, <1>6

\* A sequence has no more elements than positions.
LEMMA ElementsBound ==
  ASSUME NEW s \in Seq(Block)
  PROVE  IsFiniteSet(Elements(s)) /\ Cardinality(Elements(s)) <= Len(s)
<1> DEFINE f == [i \in 1..Len(s) |-> s[i]]
<1>1. f \in Surjection(1..Len(s), Elements(s))
  BY DEF Surjection, Elements
<1>2. Len(s) \in Nat
  OBVIOUS
<1>3. IsFiniteSet(1..Len(s)) /\ Cardinality(1..Len(s)) = Len(s)
  BY <1>2, FS_Interval
<1> QED
  BY <1>1, <1>3, FS_Surjection

\* The union of two finite sets is no larger than both together.
LEMMA UnionBound ==
  ASSUME NEW S, NEW T, IsFiniteSet(S), IsFiniteSet(T)
  PROVE  /\ IsFiniteSet(S \cup T) /\ Cardinality(S \cup T) \in Nat
         /\ Cardinality(S \cup T) <= Cardinality(S) + Cardinality(T)
<1>1. /\ IsFiniteSet(S \cup T)
      /\ Cardinality(S \cup T) = Cardinality(S) + Cardinality(T) - Cardinality(S \cap T)
  BY FS_Union
<1>2. S \cap T \in SUBSET S
  OBVIOUS
<1>3. IsFiniteSet(S \cap T)
  BY <1>2, FS_Subset
<1>4. /\ Cardinality(S) \in Nat /\ Cardinality(T) \in Nat
      /\ Cardinality(S \cap T) \in Nat /\ Cardinality(S \cup T) \in Nat
  BY <1>1, <1>3, FS_CardinalityType
<1> QED
  BY <1>1, <1>4

-----------------------------------------------------------------------------
(* Counting reservations. *)

\* The slots of one request are as many as its reservation.
LEMMA SlotsOfRequest ==
  ASSUME NEW r \in Req, NEW n \in Nat
  PROVE  IsFiniteSet({r} \X (1..n)) /\ Cardinality({r} \X (1..n)) = n
<1> DEFINE f == [i \in 1..n |-> <<r, i>>]
<1>1. f \in Bijection(1..n, {r} \X (1..n))
  <2>1. f \in [1..n -> {r} \X (1..n)]
    OBVIOUS
  <2>2. \A i, j \in 1..n : f[i] = f[j] => i = j
    OBVIOUS
  <2>3. \A p \in {r} \X (1..n) : \E i \in 1..n : f[i] = p
    OBVIOUS
  <2> QED
    BY <2>1, <2>2, <2>3 DEF Bijection, Injection, Surjection, IsInjective
<1>2. IsFiniteSet(1..n) /\ Cardinality(1..n) = n
  BY FS_Interval
<1> QED
  BY <1>1, <1>2, FS_Bijection DEF ExistsBijection

\* Changing one reservation changes the number of slots by the difference.
LEMMA ReservedSlotsUpdate ==
  ASSUME TypeOK, IsFiniteSet(ReservedSlots), NEW r \in Req, NEW n \in Nat,
         reserved' = [reserved EXCEPT ![r] = n]
  PROVE  /\ IsFiniteSet(ReservedSlots')
         /\ Cardinality(ReservedSlots') = Cardinality(ReservedSlots) - reserved[r] + n
<1> DEFINE rest == UNION {{q} \X (1..reserved[q]) : q \in Req \ {r}}
           old  == {r} \X (1..reserved[r])
           new  == {r} \X (1..n)
<1>1. reserved[r] \in Nat
  BY DEF TypeOK
<1>2. ReservedSlots = rest \cup old /\ ReservedSlots' = rest \cup new
  BY DEF ReservedSlots, TypeOK
<1>3. rest \cap old = {} /\ rest \cap new = {}
  OBVIOUS
<1>4. IsFiniteSet(rest)
  BY <1>2, FS_Subset
<1>5. IsFiniteSet(old) /\ Cardinality(old) = reserved[r] /\ IsFiniteSet(new) /\ Cardinality(new) = n
  BY <1>1, SlotsOfRequest
<1> HIDE DEF rest, old, new
<1>6. Cardinality(rest) \in Nat
  BY <1>4, FS_CardinalityType
<1>7. Cardinality(rest \cap old) = 0 /\ Cardinality(rest \cap new) = 0
  BY <1>3, FS_EmptySet
<1>8. Cardinality(rest \cup old) = Cardinality(rest) + Cardinality(old) - Cardinality(rest \cap old)
  BY <1>4, <1>5, FS_Union
<1>9. /\ Cardinality(rest \cup new) = Cardinality(rest) + Cardinality(new) - Cardinality(rest \cap new)
      /\ IsFiniteSet(rest \cup new)
  BY <1>4, <1>5, FS_Union
<1>10. Cardinality(ReservedSlots) = Cardinality(rest) + reserved[r]
  BY <1>1, <1>2, <1>5, <1>6, <1>7, <1>8
<1>11. Cardinality(ReservedSlots') = Cardinality(rest) + n
  BY <1>2, <1>5, <1>6, <1>7, <1>9
<1>12. IsFiniteSet(ReservedSlots')
  BY <1>2, <1>9
<1> QED
  BY <1>1, <1>6, <1>10, <1>11, <1>12

\* A reservation is never larger than the total.
LEMMA ReservedWithinTotal ==
  ASSUME TypeOK, IsFiniteSet(ReservedSlots), ReservationsExact, NEW r \in Req
  PROVE  reserved[r] <= total
<1>1. {r} \X (1..reserved[r]) \in SUBSET ReservedSlots
  BY DEF ReservedSlots
<1>2. reserved[r] \in Nat /\ Cardinality({r} \X (1..reserved[r])) = reserved[r]
  BY SlotsOfRequest DEF TypeOK
<1> QED
  BY <1>1, <1>2, FS_Subset DEF ReservationsExact

-----------------------------------------------------------------------------
(* Holders of blocks. *)

LEMMA HoldersFinite ==
  ASSUME TypeOK, NEW b
  PROVE  IsFiniteSet(Holders(b)) /\ Cardinality(Holders(b)) \in Nat
<1>1. Holders(b) \in SUBSET Req
  BY DEF Holders, TypeOK
<1>2. IsFiniteSet(Holders(b))
  BY <1>1, LedgerAssumption, FS_Subset
<1> QED
  BY <1>2, FS_CardinalityType

\* A block that a request holds is a block and has a reference.
LEMMA HeldBlocks ==
  ASSUME LedgerInv, NEW r \in live, NEW i \in 1..Len(blocks[r])
  PROVE  blocks[r][i] \in Block /\ ref[blocks[r][i]] \in Nat \ {0}
<1> DEFINE b == blocks[r][i]
<1>1. r \in Req /\ blocks[r] \in Seq(Block)
  BY DEF LedgerInv, TypeOK
<1>2. b \in Block
  BY <1>1
<1>3. Holders(b) # {}
  BY DEF Holders, Elements
<1>4. IsFiniteSet(Holders(b)) /\ Cardinality(Holders(b)) \in Nat
  BY HoldersFinite DEF LedgerInv
<1>5. Cardinality(Holders(b)) # 0
  BY <1>3, <1>4, FS_EmptySet
<1>6. ref[b] = Cardinality(Holders(b))
  BY <1>2 DEF LedgerInv, RefCountsExact
<1> QED
  BY <1>2, <1>4, <1>5, <1>6

\* A block without a reference is in no request.
LEMMA FreeBlocksUnheld ==
  ASSUME LedgerInv, NEW b \in FreeBlocks, NEW r \in live
  PROVE  b \notin Elements(blocks[r])
<1> SUFFICES ASSUME NEW i \in 1..Len(blocks[r]), b = blocks[r][i] PROVE FALSE
  BY DEF Elements
<1> QED
  BY HeldBlocks DEF FreeBlocks

\* No request holds a block twice.
LEMMA BlocksDistinct ==
  ASSUME LedgerInv, NEW r \in live
  PROVE  Distinct(blocks[r])
<1> SUFFICES ASSUME NEW i \in 1..Len(blocks[r]), NEW j \in 1..Len(blocks[r]),
                    blocks[r][i] = blocks[r][j]
             PROVE  i = j
  BY DEF Distinct
<1>1. r \in Req /\ cached[r] \in Nat /\ Len(blocks[r]) \in Nat /\ chain[r] \in Chains
  BY DEF LedgerInv, TypeOK, ProgressOrdered
<1>2. CASE i > cached[r] \/ j > cached[r]
  BY <1>1, <1>2 DEF LedgerInv, TailPrivate
<1>3. CASE i <= cached[r] /\ j <= cached[r]
  <2>1. i \in 1..cached[r] /\ j \in 1..cached[r]
    BY <1>1, <1>3
  <2>2. chain[r][i] = chain[r][j]
    BY <2>1 DEF LedgerInv, PublishedKeys
  <2>3. i \in 1..Len(chain[r]) /\ j \in 1..Len(chain[r])
    <3>1. Len(chain[r]) \in Nat /\ done[r] \in Nat
      BY <1>1 DEF LedgerInv, TypeOK
    <3>2. cached[r] <= done[r] /\ done[r] <= Len(chain[r])
      BY DEF LedgerInv, ProgressOrdered
    <3> QED
      BY <1>1, <2>1, <3>1, <3>2
  <2> QED
    BY <1>1, <2>2, <2>3, ChainAssumption
<1> QED
  BY <1>1, <1>2, <1>3

\* Every block is either in use or free.
LEMMA ActiveOrFree ==
  ASSUME TypeOK
  PROVE  /\ IsFiniteSet(ActiveBlocks) /\ Cardinality(ActiveBlocks) \in Nat
         /\ IsFiniteSet(FreeBlocks) /\ Cardinality(FreeBlocks) \in Nat
         /\ Cardinality(Block) \in Nat
         /\ Cardinality(ActiveBlocks) + Cardinality(FreeBlocks) = Cardinality(Block)
<1>1. /\ ActiveBlocks \in SUBSET Block
      /\ FreeBlocks \in SUBSET Block
      /\ ActiveBlocks \cup FreeBlocks = Block
      /\ ActiveBlocks \cap FreeBlocks = {}
  BY DEF ActiveBlocks, FreeBlocks
<1>2. IsFiniteSet(ActiveBlocks) /\ IsFiniteSet(FreeBlocks)
  BY <1>1, LedgerAssumption, FS_Subset
<1>3. /\ Cardinality(ActiveBlocks) \in Nat
      /\ Cardinality(FreeBlocks) \in Nat
      /\ Cardinality(Block) \in Nat
  BY <1>2, LedgerAssumption, FS_CardinalityType
<1>4. Cardinality(ActiveBlocks \cap FreeBlocks) = 0
  BY <1>1, FS_EmptySet
<1>5. Cardinality(ActiveBlocks \cup FreeBlocks)
        = Cardinality(ActiveBlocks) + Cardinality(FreeBlocks) - Cardinality(ActiveBlocks \cap FreeBlocks)
  BY <1>2, FS_Union
<1> QED
  BY <1>1, <1>2, <1>3, <1>4, <1>5

-----------------------------------------------------------------------------
(* Initial states. *)

LEMMA InitInv == Init => LedgerInv
<1> SUFFICES ASSUME Init PROVE LedgerInv
  OBVIOUS
<1>1. TypeOK
  BY DEF Init, TypeOK
<1>2. DeadRequestsEmpty /\ ProgressOrdered /\ PublishedKeys /\ TailPrivate /\ PrefixHitsSound /\ HeldPrefixIntact
  BY DEF Init, DeadRequestsEmpty, ProgressOrdered, PublishedKeys, TailPrivate, PrefixHitsSound, HeldPrefixIntact
<1>3. RefCountsExact
  <2>1. \A b : Holders(b) = {}
    BY DEF Init, Holders
  <2> QED
    BY <2>1, FS_EmptySet DEF Init, RefCountsExact
<1>4. ReservedSlots = {}
  BY DEF Init, ReservedSlots
<1>5. IsFiniteSet(ReservedSlots) /\ ReservationsExact
  BY <1>4, FS_EmptySet DEF Init, ReservationsExact
<1>6. ReservationsCovered
  <2>1. ActiveBlocks = {}
    BY DEF Init, ActiveBlocks
  <2>2. Cardinality(ActiveBlocks) = 0
    BY <2>1, FS_EmptySet
  <2>3. Cardinality(Block) \in Nat
    BY LedgerAssumption, FS_CardinalityType
  <2> QED
    BY <2>2, <2>3 DEF Init, ReservationsCovered
<1> QED
  BY <1>1, <1>2, <1>3, <1>5, <1>6 DEF LedgerInv

-----------------------------------------------------------------------------
(* Every action preserves the invariant. *)

LEMMA AdmitInv ==
  ASSUME LedgerInv, NEW r \in Req, NEW c \in Chains, Admit(r, c)
  PROVE  LedgerInv'
<1>0. PICK hit \in CachedPrefixes(c), fresh \in FreshBlocks, n \in 0..Cardinality(Block) :
          AdmitWith(r, hit, fresh, n)
  BY DEF Admit
<1>1. /\ hit \in Seq(Block) /\ Len(hit) \in Nat /\ Len(hit) <= Len(c)
      /\ \A i \in 1..Len(hit) : key[hit[i]] = c[i]
  BY BlockSeqsAreSeqs DEF CachedPrefixes
<1>2. /\ fresh \in Seq(Block) /\ Len(fresh) \in Nat
      /\ Distinct(fresh) /\ Elements(fresh) \subseteq FreeBlocks
  BY BlockSeqsAreSeqs DEF FreshBlocks
<1>3. Cardinality(Block) \in Nat /\ n \in Nat /\ c \in Seq(Hash) /\ Len(c) \in Nat
  BY LedgerAssumption, FS_CardinalityType
<1>4. TypeOK /\ r \notin live /\ blocks[r] = <<>> /\ reserved[r] = 0
  BY DEF Admit, LedgerInv, DeadRequestsEmpty
<1>5. /\ hit \o fresh \in Seq(Block)
      /\ Len(hit \o fresh) = Len(hit) + Len(fresh)
      /\ \A i \in 1..Len(hit) : (hit \o fresh)[i] = hit[i]
      /\ \A i \in (Len(hit) + 1)..(Len(hit) + Len(fresh)) :
            i - Len(hit) \in 1..Len(fresh) /\ (hit \o fresh)[i] = fresh[i - Len(hit)]
      /\ Elements(hit \o fresh) = Elements(hit) \cup Elements(fresh)
  BY <1>1, <1>2, ConcatIndex
<1>6. /\ live' = live \cup {r}
      /\ chain' = [chain EXCEPT ![r] = c]
      /\ content' = content
  BY DEF Admit
<1>7. /\ blocks' = [blocks EXCEPT ![r] = hit \o fresh]
      /\ cached' = [cached EXCEPT ![r] = Len(hit)]
      /\ done' = [done EXCEPT ![r] = Len(hit)]
      /\ reserved' = [reserved EXCEPT ![r] = n]
      /\ total' = total + n
  BY <1>0 DEF AdmitWith
<1>8. /\ ref' = [b \in Block |-> IF b \in Elements(hit) \cup Elements(fresh)
                                   THEN ref[b] + 1 ELSE ref[b]]
      /\ key' = [b \in Block |-> IF b \in Elements(fresh) THEN NoHash ELSE key[b]]
      /\ Elements(fresh) \cap Elements(hit) = {}
      /\ Len(fresh) + n + Cardinality(FreeBlocks \cap Elements(hit)) <= Unreserved
  BY <1>0 DEF AdmitWith
<1>9. /\ blocks'[r] = hit \o fresh /\ cached'[r] = Len(hit) /\ done'[r] = Len(hit) /\ chain'[r] = c
      /\ \A q \in live : /\ q \in Req /\ q # r /\ blocks'[q] = blocks[q] /\ cached'[q] = cached[q]
                         /\ done'[q] = done[q] /\ chain'[q] = chain[q]
  BY <1>4, <1>6, <1>7 DEF TypeOK
<1>10. TypeOK'
  <2>1. (live \subseteq Req /\ chain \in [Req -> Seq(Hash)] /\ content \in [Block -> Hash \cup {Junk}])'
    BY <1>3, <1>4, <1>6 DEF TypeOK
  <2>2. (blocks \in [Req -> Seq(Block)] /\ cached \in [Req -> Nat] /\ done \in [Req -> Nat])'
    BY <1>1, <1>4, <1>5, <1>7 DEF TypeOK
  <2>3. (reserved \in [Req -> Nat] /\ total \in Int)'
    BY <1>3, <1>4, <1>7 DEF TypeOK
  <2>4. (ref \in [Block -> Nat] /\ key \in [Block -> Hash \cup {NoHash}])'
    BY <1>4, <1>8 DEF TypeOK
  <2> QED
    BY <2>1, <2>2, <2>3, <2>4 DEF TypeOK
<1>11. DeadRequestsEmpty'
  BY <1>4, <1>6, <1>7 DEF LedgerInv, DeadRequestsEmpty, TypeOK
<1>12. ProgressOrdered'
  <2> SUFFICES ASSUME NEW q \in live'
               PROVE  /\ chain'[q] \in Chains /\ cached'[q] <= done'[q]
                      /\ done'[q] <= Len(blocks'[q]) /\ done'[q] <= Len(chain'[q])
    BY DEF ProgressOrdered
  <2>1. CASE q = r
    BY <2>1, <1>1, <1>2, <1>3, <1>5, <1>9
  <2>2. CASE q \in live
    BY <2>2, <1>9 DEF LedgerInv, ProgressOrdered
  <2> QED
    BY <2>1, <2>2, <1>6
\* Keys change only on blocks that nobody held.
<1>13. \A q \in live : \A i \in 1..Len(blocks[q]) : key'[blocks[q][i]] = key[blocks[q][i]]
  <2> SUFFICES ASSUME NEW q \in live, NEW i \in 1..Len(blocks[q])
               PROVE  key'[blocks[q][i]] = key[blocks[q][i]]
    OBVIOUS
  <2>1. blocks[q][i] \in Block /\ blocks[q][i] \in Elements(blocks[q])
    BY HeldBlocks DEF Elements
  <2>2. blocks[q][i] \notin Elements(fresh)
    BY <2>1, <1>2, FreeBlocksUnheld
  <2> QED
    BY <2>1, <2>2, <1>8
<1>14. PublishedKeys'
  <2> SUFFICES ASSUME NEW q \in live', NEW i \in 1..cached'[q]
               PROVE  key'[blocks'[q][i]] = chain'[q][i]
    BY DEF PublishedKeys
  <2>1. CASE q = r
    <3>1. i \in 1..Len(hit) /\ hit[i] \in Block /\ hit[i] \in Elements(hit)
      BY <2>1, <1>1, <1>9 DEF Elements
    <3>2. key'[hit[i]] = c[i]
      BY <3>1, <1>1, <1>8
    <3> QED
      BY <2>1, <3>1, <3>2, <1>5, <1>9
  <2>2. CASE q \in live
    <3>1. i \in 1..cached[q] /\ cached[q] \in Nat /\ Len(blocks[q]) \in Nat /\ done[q] \in Nat
      BY <2>2, <1>9 DEF LedgerInv, TypeOK
    <3>2. cached[q] <= Len(blocks[q])
      BY <2>2, <3>1 DEF LedgerInv, ProgressOrdered
    <3>3. i \in 1..Len(blocks[q])
      BY <3>1, <3>2
    <3>4. key[blocks[q][i]] = chain[q][i]
      BY <2>2, <3>1 DEF LedgerInv, PublishedKeys
    <3> QED
      BY <2>2, <3>3, <3>4, <1>9, <1>13
  <2> QED
    BY <2>1, <2>2, <1>6
<1>15. TailPrivate'
  <2> SUFFICES ASSUME NEW q \in live', NEW i \in (cached'[q] + 1)..Len(blocks'[q])
               PROVE  /\ key'[blocks'[q][i]] = NoHash
                      /\ \A p \in live' : \A j \in 1..Len(blocks'[p]) :
                            blocks'[p][j] = blocks'[q][i] => p = q /\ j = i
    BY DEF TailPrivate
  <2>1. CASE q = r
    <3>1. i \in (Len(hit) + 1)..(Len(hit) + Len(fresh))
      BY <2>1, <1>5, <1>9
    <3>2. i - Len(hit) \in 1..Len(fresh) /\ blocks'[q][i] = fresh[i - Len(hit)]
      BY <2>1, <3>1, <1>5, <1>9
    <3>3. blocks'[q][i] \in Elements(fresh) /\ blocks'[q][i] \in Block
      BY <3>2, <1>2 DEF Elements
    <3>4. key'[blocks'[q][i]] = NoHash
      BY <3>3, <1>8
    <3>5. ASSUME NEW p \in live', NEW j \in 1..Len(blocks'[p]), blocks'[p][j] = blocks'[q][i]
          PROVE  p = q /\ j = i
      <4>1. CASE p \in live
        <5>1. blocks'[p][j] \in Elements(blocks[p])
          BY <4>1, <1>9 DEF Elements
        <5> QED
          BY <4>1, <5>1, <3>3, <3>5, <1>2, FreeBlocksUnheld
      <4>2. CASE p = r
        <5>1. CASE j \in 1..Len(hit)
          <6>1. blocks'[p][j] \in Elements(hit)
            BY <4>2, <5>1, <1>5, <1>9 DEF Elements
          <6> QED
            BY <6>1, <3>3, <3>5, <1>8
        <5>2. CASE j \in (Len(hit) + 1)..(Len(hit) + Len(fresh))
          <6>1. j - Len(hit) \in 1..Len(fresh) /\ blocks'[p][j] = fresh[j - Len(hit)]
            BY <4>2, <5>2, <1>5, <1>9
          <6>2. j - Len(hit) = i - Len(hit)
            BY <6>1, <3>2, <3>5, <1>2 DEF Distinct
          <6> QED
            BY <6>2, <4>2, <2>1, <3>1, <5>2, <1>1, <1>2
        <5> QED
          BY <5>1, <5>2, <4>2, <1>1, <1>2, <1>5, <1>9
      <4> QED
        BY <4>1, <4>2, <1>6
    <3> QED
      BY <3>4, <3>5
  <2>2. CASE q \in live
    <3>0. q \in Req /\ cached[q] \in Nat /\ Len(blocks[q]) \in Nat
      BY <2>2, <1>4 DEF TypeOK
    <3>1. i \in (cached[q] + 1)..Len(blocks[q]) /\ blocks'[q][i] = blocks[q][i]
      BY <2>2, <1>9
    <3>2. i \in 1..Len(blocks[q])
      BY <3>0, <3>1
    <3>3. key[blocks[q][i]] = NoHash
      BY <2>2, <3>1 DEF LedgerInv, TailPrivate
    <3>4. key'[blocks'[q][i]] = NoHash
      BY <2>2, <3>1, <3>2, <3>3, <1>13
    <3>5. ASSUME NEW p \in live', NEW j \in 1..Len(blocks'[p]), blocks'[p][j] = blocks'[q][i]
          PROVE  p = q /\ j = i
      <4>1. CASE p \in live
        <5>1. j \in 1..Len(blocks[p]) /\ blocks[p][j] = blocks[q][i]
          BY <4>1, <3>1, <3>5, <1>9
        <5> QED
          BY <4>1, <5>1, <2>2, <3>1 DEF LedgerInv, TailPrivate
      <4>2. CASE p = r
        <5>1. blocks'[p][j] \in Elements(hit) \cup Elements(fresh)
          BY <4>2, <1>5, <1>9 DEF Elements
        <5>2. blocks[q][i] \in Elements(blocks[q])
          BY <3>2 DEF Elements
        <5>3. blocks[q][i] \notin Elements(fresh)
          BY <2>2, <5>2, <1>2, FreeBlocksUnheld
        <5>4. blocks[q][i] \in Elements(hit)
          BY <5>1, <5>3, <3>1, <3>5
        <5>5. PICK k \in 1..Len(hit) : blocks[q][i] = hit[k]
          BY <5>4 DEF Elements
        <5>6. key[blocks[q][i]] = c[k] /\ c[k] \in Hash
          BY <5>5, <1>1, <1>3
        <5> QED
          BY <5>6, <3>3, LedgerAssumption
      <4> QED
        BY <4>1, <4>2, <1>6
    <3> QED
      BY <3>4, <3>5
  <2> QED
    BY <2>1, <2>2, <1>6
<1>16. RefCountsExact'
  <2> SUFFICES ASSUME NEW b \in Block PROVE ref'[b] = Cardinality(Holders(b)')
    BY DEF RefCountsExact
  <2>1. Holders(b)' = IF b \in Elements(hit) \cup Elements(fresh) THEN Holders(b) \cup {r} ELSE Holders(b)
    BY <1>5, <1>6, <1>9 DEF Holders
  <2>2. r \notin Holders(b) /\ IsFiniteSet(Holders(b)) /\ ref[b] = Cardinality(Holders(b))
    BY <1>4, HoldersFinite DEF Holders, LedgerInv, RefCountsExact
  <2>3. Cardinality(Holders(b) \cup {r}) = Cardinality(Holders(b)) + 1
    BY <2>2, FS_AddElement
  <2> QED
    BY <2>1, <2>2, <2>3, <1>8
<1>17. PrefixHitsSound'
  BY <1>6, <1>8 DEF LedgerInv, PrefixHitsSound
<1>18. HeldPrefixIntact'
  <2> SUFFICES ASSUME NEW q \in live', NEW i \in 1..done'[q]
               PROVE  content'[blocks'[q][i]] = chain'[q][i]
    BY DEF HeldPrefixIntact
  <2>1. CASE q = r
    <3>1. i \in 1..Len(hit) /\ hit[i] \in Block
      BY <2>1, <1>1, <1>9
    <3>2. key[hit[i]] = c[i] /\ c[i] \in Hash
      BY <3>1, <1>1, <1>3
    <3>3. content[hit[i]] = c[i]
      BY <3>1, <3>2, LedgerAssumption DEF LedgerInv, PrefixHitsSound
    <3> QED
      BY <2>1, <3>1, <3>3, <1>5, <1>6, <1>9
  <2>2. CASE q \in live
    BY <2>2, <1>6, <1>9 DEF LedgerInv, HeldPrefixIntact
  <2> QED
    BY <2>1, <2>2, <1>6
<1>19. IsFiniteSet(ReservedSlots)' /\ ReservationsExact'
  <2>1. /\ IsFiniteSet(ReservedSlots')
        /\ Cardinality(ReservedSlots') = Cardinality(ReservedSlots) - reserved[r] + n
    BY <1>3, <1>4, <1>7, ReservedSlotsUpdate DEF LedgerInv
  <2>2. total = Cardinality(ReservedSlots) /\ total \in Int
    BY DEF LedgerInv, ReservationsExact, TypeOK
  <2> QED
    BY <2>1, <2>2, <1>3, <1>4, <1>7 DEF ReservationsExact
<1>20. ReservationsCovered'
  <2> DEFINE H == FreeBlocks \cap Elements(hit)
             F == Elements(fresh)
  <2>1. ActiveBlocks' = (ActiveBlocks \cup H) \cup F
    <3>1. \A b \in Block : ref'[b] # 0 <=> ref[b] # 0 \/ b \in Elements(hit) \/ b \in F
      BY <1>4, <1>8 DEF TypeOK
    <3>2. Elements(hit) \subseteq Block /\ F \subseteq Block
      BY <1>1, <1>2 DEF Elements
    <3> QED
      BY <3>1, <3>2 DEF ActiveBlocks, FreeBlocks
  <2>2. /\ IsFiniteSet(ActiveBlocks) /\ Cardinality(ActiveBlocks) \in Nat
        /\ IsFiniteSet(FreeBlocks) /\ Cardinality(FreeBlocks) \in Nat
        /\ Cardinality(ActiveBlocks) + Cardinality(FreeBlocks) = Cardinality(Block)
    BY <1>4, ActiveOrFree
  <2>3. IsFiniteSet(H) /\ Cardinality(H) \in Nat
    BY <2>2, FS_Subset, FS_CardinalityType
  <2>4. IsFiniteSet(F) /\ Cardinality(F) <= Len(fresh) /\ Cardinality(F) \in Nat
    BY <1>2, ElementsBound, FS_CardinalityType
  <2> HIDE DEF H, F
  <2>5. Cardinality(ActiveBlocks \cup H) <= Cardinality(ActiveBlocks) + Cardinality(H)
        /\ IsFiniteSet(ActiveBlocks \cup H) /\ Cardinality(ActiveBlocks \cup H) \in Nat
    BY <2>2, <2>3, UnionBound
  <2>6. Cardinality((ActiveBlocks \cup H) \cup F) <= Cardinality(ActiveBlocks \cup H) + Cardinality(F)
        /\ Cardinality((ActiveBlocks \cup H) \cup F) \in Nat
    BY <2>4, <2>5, UnionBound
  <2>7. Len(fresh) + n + Cardinality(H) <= Cardinality(FreeBlocks) - total /\ total \in Int
    BY <1>4, <1>8 DEF Unreserved, TypeOK, H
  <2>8. Cardinality(ActiveBlocks') \in Nat
        /\ Cardinality(ActiveBlocks') <= Cardinality(ActiveBlocks) + Cardinality(H) + Len(fresh)
    BY <1>2, <2>1, <2>2, <2>3, <2>4, <2>5, <2>6
  <2> QED
    BY <1>2, <1>3, <1>7, <2>2, <2>3, <2>7, <2>8 DEF ReservationsCovered
<1> QED
  BY <1>10, <1>11, <1>12, <1>14, <1>15, <1>16, <1>17, <1>18, <1>19, <1>20 DEF LedgerInv

LEMMA GrowInv ==
  ASSUME LedgerInv, NEW r \in Req, Grow(r)
  PROVE  LedgerInv'
<1>0. PICK fresh \in FreshBlocks : GrowBy(r, fresh)
  BY DEF Grow
<1> DEFINE taken == LesserOf(Len(fresh), reserved[r])
<1>1. /\ fresh \in Seq(Block) /\ Len(fresh) \in Nat
      /\ Distinct(fresh) /\ Elements(fresh) \subseteq FreeBlocks
  BY BlockSeqsAreSeqs DEF FreshBlocks
<1>2. TypeOK /\ r \in live /\ blocks[r] \in Seq(Block) /\ Len(blocks[r]) \in Nat
      /\ cached[r] \in Nat /\ done[r] \in Nat /\ reserved[r] \in Nat /\ total \in Int
  BY DEF Grow, LedgerInv, TypeOK
<1>3. taken \in Nat /\ taken <= reserved[r] /\ taken <= Len(fresh)
  BY <1>1, <1>2 DEF LesserOf
<1>4. /\ live' = live /\ cached' = cached /\ chain' = chain /\ done' = done /\ content' = content
  BY DEF Grow
<1>5. /\ blocks' = [blocks EXCEPT ![r] = blocks[r] \o fresh]
      /\ reserved' = [reserved EXCEPT ![r] = reserved[r] - taken]
      /\ total' = total - taken
      /\ ref' = [b \in Block |-> IF b \in Elements(fresh) THEN 1 ELSE ref[b]]
      /\ key' = [b \in Block |-> IF b \in Elements(fresh) THEN NoHash ELSE key[b]]
      /\ Len(fresh) - taken <= Unreserved
  BY <1>0 DEF GrowBy
<1> HIDE DEF taken
<1>6. /\ blocks[r] \o fresh \in Seq(Block)
      /\ Len(blocks[r] \o fresh) = Len(blocks[r]) + Len(fresh)
      /\ \A i \in 1..Len(blocks[r]) : (blocks[r] \o fresh)[i] = blocks[r][i]
      /\ \A i \in (Len(blocks[r]) + 1)..(Len(blocks[r]) + Len(fresh)) :
            /\ i - Len(blocks[r]) \in 1..Len(fresh)
            /\ (blocks[r] \o fresh)[i] = fresh[i - Len(blocks[r])]
      /\ Elements(blocks[r] \o fresh) = Elements(blocks[r]) \cup Elements(fresh)
  BY <1>1, <1>2, ConcatIndex
<1>7. /\ blocks'[r] = blocks[r] \o fresh
      /\ \A q \in live : q \in Req /\ (q # r => blocks'[q] = blocks[q])
  BY <1>2, <1>5 DEF TypeOK
\* What a request held it still holds, in the same place.
<1>8. \A q \in live : /\ Len(blocks[q]) \in Nat /\ Len(blocks'[q]) \in Nat
                      /\ Len(blocks[q]) <= Len(blocks'[q])
                      /\ \A i \in 1..Len(blocks[q]) : blocks'[q][i] = blocks[q][i]
  <2> SUFFICES ASSUME NEW q \in live
               PROVE  /\ Len(blocks[q]) \in Nat /\ Len(blocks'[q]) \in Nat
                      /\ Len(blocks[q]) <= Len(blocks'[q])
                      /\ \A i \in 1..Len(blocks[q]) : blocks'[q][i] = blocks[q][i]
    OBVIOUS
  <2>1. Len(blocks[q]) \in Nat
    BY <1>2, <1>7 DEF TypeOK
  <2>2. CASE q = r
    BY <2>2, <1>1, <1>2, <1>6, <1>7
  <2>3. CASE q # r
    BY <2>1, <2>3, <1>7
  <2> QED
    BY <2>2, <2>3
\* A position is an old one or holds a fresh block of r.
<1>9. ASSUME NEW q \in live, NEW i \in 1..Len(blocks'[q]), i \notin 1..Len(blocks[q])
      PROVE  /\ q = r /\ i - Len(blocks[r]) \in 1..Len(fresh)
             /\ blocks'[q][i] = fresh[i - Len(blocks[r])]
             /\ blocks'[q][i] \in Elements(fresh) /\ blocks'[q][i] \in Block
  <2>1. q = r
    BY <1>7, <1>9
  <2>2. i \in (Len(blocks[r]) + 1)..(Len(blocks[r]) + Len(fresh))
    BY <2>1, <1>1, <1>2, <1>6, <1>7, <1>9
  <2>3. i - Len(blocks[r]) \in 1..Len(fresh) /\ blocks'[q][i] = fresh[i - Len(blocks[r])]
    BY <2>1, <2>2, <1>6, <1>7
  <2> QED
    BY <2>1, <2>3, <1>1 DEF Elements
<1>10. \A q \in live : \A i \in 1..Len(blocks[q]) :
          blocks[q][i] \in Block /\ blocks[q][i] \notin Elements(fresh)
  <2> SUFFICES ASSUME NEW q \in live, NEW i \in 1..Len(blocks[q])
               PROVE  blocks[q][i] \in Block /\ blocks[q][i] \notin Elements(fresh)
    OBVIOUS
  <2>1. blocks[q][i] \in Block /\ blocks[q][i] \in Elements(blocks[q])
    BY HeldBlocks DEF Elements
  <2> QED
    BY <2>1, <1>1, FreeBlocksUnheld
<1>11. TypeOK'
  <2>1. (blocks \in [Req -> Seq(Block)])'
    BY <1>2, <1>5, <1>6 DEF TypeOK
  <2>2. (reserved \in [Req -> Nat] /\ total \in Int)'
    BY <1>2, <1>3, <1>5 DEF TypeOK
  <2>3. (ref \in [Block -> Nat] /\ key \in [Block -> Hash \cup {NoHash}])'
    BY <1>2, <1>5 DEF TypeOK
  <2> QED
    BY <2>1, <2>2, <2>3, <1>2, <1>4 DEF TypeOK
<1>12. DeadRequestsEmpty'
  BY <1>2, <1>4, <1>5 DEF LedgerInv, DeadRequestsEmpty, TypeOK
<1>13. ProgressOrdered'
  <2> SUFFICES ASSUME NEW q \in live PROVE done[q] <= Len(blocks'[q])
    BY <1>4 DEF ProgressOrdered, LedgerInv
  <2>1. done[q] \in Nat /\ done[q] <= Len(blocks[q])
    BY <1>2 DEF LedgerInv, ProgressOrdered, TypeOK
  <2> QED
    BY <2>1, <1>8
<1>14. PublishedKeys'
  <2> SUFFICES ASSUME NEW q \in live, NEW i \in 1..cached[q]
               PROVE  key'[blocks'[q][i]] = chain[q][i]
    BY <1>4 DEF PublishedKeys
  <2>1. cached[q] \in Nat /\ done[q] \in Nat /\ cached[q] <= done[q] /\ done[q] <= Len(blocks[q])
    BY <1>2 DEF LedgerInv, ProgressOrdered, TypeOK
  <2>2. i \in 1..Len(blocks[q])
    BY <2>1, <1>8
  <2> QED
    BY <2>2, <1>5, <1>8, <1>10 DEF LedgerInv, PublishedKeys
<1>15. TailPrivate'
  <2> SUFFICES ASSUME NEW q \in live, NEW i \in (cached[q] + 1)..Len(blocks'[q])
               PROVE  /\ key'[blocks'[q][i]] = NoHash
                      /\ \A p \in live : \A j \in 1..Len(blocks'[p]) :
                            blocks'[p][j] = blocks'[q][i] => p = q /\ j = i
    BY <1>4 DEF TailPrivate
  <2>1. cached[q] \in Nat /\ i \in 1..Len(blocks'[q])
    BY <1>2, <1>8 DEF TypeOK
  <2>2. CASE i \in 1..Len(blocks[q])
    <3>1. i \in (cached[q] + 1)..Len(blocks[q]) /\ blocks'[q][i] = blocks[q][i]
      BY <2>1, <2>2, <1>8
    <3>2. key'[blocks'[q][i]] = NoHash
      BY <2>2, <3>1, <1>5, <1>10 DEF LedgerInv, TailPrivate
    <3>3. ASSUME NEW p \in live, NEW j \in 1..Len(blocks'[p]), blocks'[p][j] = blocks'[q][i]
          PROVE  p = q /\ j = i
      <4>1. j \in 1..Len(blocks[p])
        BY <2>2, <3>1, <3>3, <1>9, <1>10
      <4>2. blocks[p][j] = blocks[q][i]
        BY <4>1, <3>1, <3>3, <1>8
      <4> QED
        BY <4>1, <4>2, <3>1 DEF LedgerInv, TailPrivate
    <3> QED
      BY <3>2, <3>3
  <2>3. CASE i \notin 1..Len(blocks[q])
    <3>1. /\ q = r /\ i - Len(blocks[r]) \in 1..Len(fresh)
          /\ blocks'[q][i] = fresh[i - Len(blocks[r])]
          /\ blocks'[q][i] \in Elements(fresh) /\ blocks'[q][i] \in Block
      BY <2>1, <2>3, <1>9
    <3>2. key'[blocks'[q][i]] = NoHash
      BY <3>1, <1>5
    <3>3. ASSUME NEW p \in live, NEW j \in 1..Len(blocks'[p]), blocks'[p][j] = blocks'[q][i]
          PROVE  p = q /\ j = i
      <4>1. j \notin 1..Len(blocks[p])
        <5> SUFFICES ASSUME j \in 1..Len(blocks[p]) PROVE FALSE
          OBVIOUS
        <5>1. blocks'[p][j] = blocks[p][j]
          BY <1>8
        <5>2. blocks[p][j] \notin Elements(fresh)
          BY <1>10
        <5> QED
          BY <5>1, <5>2, <3>1, <3>3
      <4>2. /\ p = r /\ j - Len(blocks[r]) \in 1..Len(fresh)
            /\ blocks'[p][j] = fresh[j - Len(blocks[r])]
        BY <4>1, <1>9
      <4>3. j - Len(blocks[r]) = i - Len(blocks[r])
        BY <3>1, <3>3, <4>2, <1>1 DEF Distinct
      <4> QED
        BY <4>2, <4>3, <3>1, <2>1, <1>2
    <3> QED
      BY <3>2, <3>3
  <2> QED
    BY <2>2, <2>3
<1>16. RefCountsExact'
  <2> SUFFICES ASSUME NEW b \in Block PROVE ref'[b] = Cardinality(Holders(b)')
    BY DEF RefCountsExact
  <2>1. ref[b] = Cardinality(Holders(b))
    BY DEF LedgerInv, RefCountsExact
  <2>2. CASE b \in Elements(fresh)
    <3>1. Holders(b)' = {r}
      <4>1. \A q \in live : b \notin Elements(blocks[q])
        BY <2>2, <1>1, FreeBlocksUnheld
      <4>2. \A q \in live : q # r => Elements(blocks'[q]) = Elements(blocks[q])
        BY <1>7
      <4>3. b \in Elements(blocks'[r])
        BY <2>2, <1>6, <1>7
      <4> QED
        BY <4>1, <4>2, <4>3, <1>2, <1>4 DEF Holders
    <3> QED
      BY <2>2, <3>1, <1>5, FS_Singleton
  <2>3. CASE b \notin Elements(fresh)
    <3>1. Holders(b)' = Holders(b)
      BY <2>3, <1>4, <1>6, <1>7 DEF Holders
    <3> QED
      BY <2>1, <2>3, <3>1, <1>5
  <2> QED
    BY <2>2, <2>3
<1>17. PrefixHitsSound'
  BY <1>4, <1>5 DEF LedgerInv, PrefixHitsSound
<1>18. HeldPrefixIntact'
  <2> SUFFICES ASSUME NEW q \in live, NEW i \in 1..done[q]
               PROVE  content[blocks'[q][i]] = chain[q][i]
    BY <1>4 DEF HeldPrefixIntact
  <2>1. done[q] \in Nat /\ done[q] <= Len(blocks[q])
    BY <1>2 DEF LedgerInv, ProgressOrdered, TypeOK
  <2>2. i \in 1..Len(blocks[q])
    BY <2>1, <1>8
  <2> QED
    BY <2>2, <1>8 DEF LedgerInv, HeldPrefixIntact
<1>19. IsFiniteSet(ReservedSlots)' /\ ReservationsExact'
  <2>1. reserved[r] - taken \in Nat
    BY <1>2, <1>3
  <2>2. /\ IsFiniteSet(ReservedSlots')
        /\ Cardinality(ReservedSlots') = Cardinality(ReservedSlots) - reserved[r] + (reserved[r] - taken)
    BY <1>2, <1>5, <2>1, ReservedSlotsUpdate DEF LedgerInv
  <2>3. total = Cardinality(ReservedSlots)
    BY DEF LedgerInv, ReservationsExact
  <2> QED
    BY <2>2, <2>3, <1>2, <1>3, <1>5 DEF ReservationsExact
<1>20. ReservationsCovered'
  <2> DEFINE F == Elements(fresh)
  <2>1. ActiveBlocks' = ActiveBlocks \cup F
    <3>1. F \subseteq Block
      BY <1>1 DEF Elements
    <3> QED
      BY <3>1, <1>5 DEF ActiveBlocks
  <2>2. /\ IsFiniteSet(ActiveBlocks) /\ Cardinality(ActiveBlocks) \in Nat
        /\ Cardinality(FreeBlocks) \in Nat /\ Cardinality(Block) \in Nat
        /\ Cardinality(ActiveBlocks) + Cardinality(FreeBlocks) = Cardinality(Block)
    BY <1>2, ActiveOrFree
  <2>3. IsFiniteSet(F) /\ Cardinality(F) <= Len(fresh) /\ Cardinality(F) \in Nat
    BY <1>1, ElementsBound, FS_CardinalityType
  <2> HIDE DEF F
  <2>4. /\ Cardinality(ActiveBlocks \cup F) <= Cardinality(ActiveBlocks) + Cardinality(F)
        /\ Cardinality(ActiveBlocks \cup F) \in Nat
    BY <2>2, <2>3, UnionBound
  <2>5. Cardinality(ActiveBlocks') \in Nat
        /\ Cardinality(ActiveBlocks') <= Cardinality(ActiveBlocks) + Len(fresh)
    BY <1>1, <2>1, <2>2, <2>3, <2>4
  <2>6. Len(fresh) - taken <= Cardinality(FreeBlocks) - total
    BY <1>5 DEF Unreserved
  <2> QED
    BY <1>1, <1>2, <1>3, <1>5, <2>2, <2>5, <2>6 DEF ReservationsCovered
<1> QED
  BY <1>11, <1>12, <1>13, <1>14, <1>15, <1>16, <1>17, <1>18, <1>19, <1>20 DEF LedgerInv

LEMMA TrimInv ==
  ASSUME LedgerInv, NEW r \in Req, NEW n \in Nat, Trim(r, n)
  PROVE  LedgerInv'
<1>0. PICK old : old = blocks[r]
  OBVIOUS
<1> DEFINE gone    == (n + 1)..Len(old)
           removed == {old[i] : i \in gone}
           back    == IF reserved[r] # 0 THEN Len(old) - n ELSE 0
<1>1. TypeOK /\ r \in live /\ old \in Seq(Block) /\ Len(old) \in Nat
      /\ cached[r] \in Nat /\ done[r] \in Nat /\ reserved[r] \in Nat /\ total \in Int
  BY <1>0 DEF Trim, LedgerInv, TypeOK
<1>2. done[r] <= n /\ n < Len(old) /\ cached[r] <= done[r]
  BY <1>0, <1>1 DEF Trim, LedgerInv, ProgressOrdered
<1>3. back \in Nat /\ back <= Len(old) - n
  BY <1>1, <1>2
<1>same. /\ live' = live /\ cached' = cached /\ key' = key /\ chain' = chain /\ done' = done
         /\ content' = content
  BY DEF Trim
<1>4. /\ blocks' = [blocks EXCEPT ![r] = SubSeq(old, 1, n)]
      /\ reserved' = [reserved EXCEPT ![r] = reserved[r] + back]
      /\ total' = total + back
      /\ ref' = [b \in Block |-> IF b \in removed THEN ref[b] - 1 ELSE ref[b]]
  BY <1>0 DEF Trim
<1>5. /\ SubSeq(old, 1, n) \in Seq(Block) /\ Len(SubSeq(old, 1, n)) = n
      /\ \A i \in 1..n : SubSeq(old, 1, n)[i] = old[i]
  BY <1>1, <1>2
<1>6. /\ blocks'[r] = SubSeq(old, 1, n)
      /\ \A q \in live : q \in Req /\ (q # r => blocks'[q] = blocks[q])
  BY <1>1, <1>4 DEF TypeOK
<1>7. gone \subseteq (cached[r] + 1)..Len(old) /\ gone \subseteq 1..Len(old)
  BY <1>1, <1>2
<1> HIDE DEF back
\* Only r held what it gives up, and only there.
<1>8. \A i \in gone : \A q \in live : \A j \in 1..Len(blocks[q]) :
         blocks[q][j] = old[i] => q = r /\ j = i
  BY <1>0, <1>1, <1>7 DEF LedgerInv, TailPrivate
<1>9. \A q \in live : /\ Len(blocks[q]) \in Nat /\ Len(blocks'[q]) \in Nat
                      /\ Len(blocks'[q]) <= Len(blocks[q])
                      /\ done[q] <= Len(blocks'[q])
                      /\ \A i \in 1..Len(blocks'[q]) : blocks'[q][i] = blocks[q][i]
  <2> SUFFICES ASSUME NEW q \in live
               PROVE  /\ Len(blocks[q]) \in Nat /\ Len(blocks'[q]) \in Nat
                      /\ Len(blocks'[q]) <= Len(blocks[q])
                      /\ done[q] <= Len(blocks'[q])
                      /\ \A i \in 1..Len(blocks'[q]) : blocks'[q][i] = blocks[q][i]
    OBVIOUS
  <2>1. Len(blocks[q]) \in Nat /\ done[q] <= Len(blocks[q])
    BY <1>1, <1>6 DEF TypeOK, LedgerInv, ProgressOrdered
  <2>2. CASE q = r
    BY <2>2, <1>0, <1>1, <1>2, <1>5, <1>6
  <2>3. CASE q # r
    BY <2>1, <2>3, <1>6
  <2> QED
    BY <2>2, <2>3
<1>10. ASSUME NEW b \in removed
       PROVE  b \in Block /\ ref[b] = 1 /\ Holders(b) = {r} /\ Holders(b)' = {}
  <2>0. PICK i \in gone : b = old[i]
    OBVIOUS
  <2>1. i \in 1..Len(old) /\ b \in Block
    BY <1>1, <1>7, <2>0
  <2>2. Holders(b) = {r}
    BY <2>0, <2>1, <1>0, <1>1, <1>8 DEF Holders, Elements
  <2>3. Holders(b)' = {}
    <3> SUFFICES ASSUME NEW q \in live, NEW j \in 1..Len(blocks'[q]), blocks'[q][j] = b
                 PROVE  FALSE
      BY <1>same DEF Holders, Elements
    <3>1. j \in 1..Len(blocks[q]) /\ blocks[q][j] = old[i]
      BY <1>9, <2>0
    <3>2. q = r /\ j = i
      BY <3>1, <1>8
    <3>3. Len(blocks'[r]) = n /\ i > n
      BY <1>1, <1>5, <1>6
    <3> QED
      BY <3>2, <3>3
  <2>4. Cardinality(Holders(b)) = 1
    BY <2>2, FS_Singleton
  <2>5. ref[b] = 1
    BY <2>1, <2>4 DEF LedgerInv, RefCountsExact
  <2> QED
    BY <2>1, <2>2, <2>3, <2>5
<1>11. TypeOK'
  <2>1. (blocks \in [Req -> Seq(Block)])'
    BY <1>1, <1>4, <1>5 DEF TypeOK
  <2>2. (reserved \in [Req -> Nat] /\ total \in Int)'
    BY <1>1, <1>3, <1>4 DEF TypeOK
  <2>3. (ref \in [Block -> Nat])'
    BY <1>1, <1>4, <1>10 DEF TypeOK
  <2> QED
    BY <2>1, <2>2, <2>3, <1>1, <1>same DEF TypeOK
<1>12. DeadRequestsEmpty'
  BY <1>1, <1>4, <1>same DEF LedgerInv, DeadRequestsEmpty, TypeOK
<1>13. ProgressOrdered'
  BY <1>same, <1>9 DEF LedgerInv, ProgressOrdered
<1>14. PublishedKeys' /\ HeldPrefixIntact'
  <2>1. ASSUME NEW q \in live, NEW i \in 1..done[q] PROVE blocks'[q][i] = blocks[q][i]
    <3>1. done[q] \in Nat /\ i \in 1..Len(blocks'[q])
      BY <1>1, <1>6, <1>9 DEF TypeOK
    <3> QED
      BY <3>1, <1>9
  <2>2. \A q \in live : cached[q] \in Nat /\ done[q] \in Nat /\ cached[q] <= done[q]
    BY <1>1, <1>6 DEF TypeOK, LedgerInv, ProgressOrdered
  <2>3. PublishedKeys'
    <3> SUFFICES ASSUME NEW q \in live, NEW i \in 1..cached[q]
                 PROVE  key[blocks'[q][i]] = chain[q][i]
      BY <1>same DEF PublishedKeys
    <3>1. i \in 1..done[q]
      BY <2>2
    <3> QED
      BY <3>1, <2>1 DEF LedgerInv, PublishedKeys
  <2>4. HeldPrefixIntact'
    BY <1>same, <2>1 DEF LedgerInv, HeldPrefixIntact
  <2> QED
    BY <2>3, <2>4
<1>15. TailPrivate'
  <2> SUFFICES ASSUME NEW q \in live, NEW i \in (cached[q] + 1)..Len(blocks'[q])
               PROVE  /\ key[blocks'[q][i]] = NoHash
                      /\ \A p \in live : \A j \in 1..Len(blocks'[p]) :
                            blocks'[p][j] = blocks'[q][i] => p = q /\ j = i
    BY <1>same DEF TailPrivate
  <2>1. cached[q] \in Nat
    BY <1>1, <1>6 DEF TypeOK
  <2>2. i \in (cached[q] + 1)..Len(blocks[q]) /\ blocks'[q][i] = blocks[q][i]
    BY <2>1, <1>9
  <2>3. \A p \in live : \A j \in 1..Len(blocks'[p]) :
           j \in 1..Len(blocks[p]) /\ blocks'[p][j] = blocks[p][j]
    BY <1>9
  <2> QED
    BY <2>2, <2>3 DEF LedgerInv, TailPrivate
<1>16. RefCountsExact'
  <2> SUFFICES ASSUME NEW b \in Block PROVE ref'[b] = Cardinality(Holders(b)')
    BY DEF RefCountsExact
  <2>1. CASE b \in removed
    <3>1. Cardinality(Holders(b)') = 0
      BY <2>1, <1>10, FS_EmptySet
    <3> QED
      BY <2>1, <3>1, <1>4, <1>10
  <2>2. CASE b \notin removed
    <3>1. b \in Elements(blocks'[r]) <=> b \in Elements(old)
      <4>1. ASSUME NEW i \in 1..Len(old), b = old[i] PROVE i \in 1..n
        BY <4>1, <2>2, <1>1
      <4> QED
        BY <4>1, <1>1, <1>2, <1>5, <1>6 DEF Elements
    <3>2. Holders(b)' = Holders(b)
      BY <3>1, <1>0, <1>same, <1>6 DEF Holders
    <3> QED
      BY <2>2, <3>2, <1>4 DEF LedgerInv, RefCountsExact
  <2> QED
    BY <2>1, <2>2
<1>17. PrefixHitsSound'
  BY <1>same DEF LedgerInv, PrefixHitsSound
<1>18. IsFiniteSet(ReservedSlots)' /\ ReservationsExact'
  <2>1. reserved[r] + back \in Nat
    BY <1>1, <1>3
  <2>2. /\ IsFiniteSet(ReservedSlots')
        /\ Cardinality(ReservedSlots') = Cardinality(ReservedSlots) - reserved[r] + (reserved[r] + back)
    BY <1>1, <1>4, <2>1, ReservedSlotsUpdate DEF LedgerInv
  <2>3. total = Cardinality(ReservedSlots)
    BY DEF LedgerInv, ReservationsExact
  <2> QED
    BY <2>2, <2>3, <1>1, <1>3, <1>4 DEF ReservationsExact
<1>19. IsFiniteSet(removed) /\ Cardinality(removed) = Len(old) - n
  <2> DEFINE f == [i \in gone |-> old[i]]
  <2>1. IsFiniteSet(gone) /\ Cardinality(gone) = Len(old) - n
    <3>1. n + 1 \in Int /\ Len(old) \in Int /\ n + 1 <= Len(old)
      BY <1>1, <1>2
    <3>2. /\ IsFiniteSet((n + 1)..Len(old))
          /\ Cardinality((n + 1)..Len(old)) = IF n + 1 > Len(old) THEN 0 ELSE Len(old) - (n + 1) + 1
      BY <3>1, FS_Interval
    <3> QED
      BY <3>1, <3>2, <1>1
  <2>2. \A i, j \in gone : f[i] = f[j] => i = j
    BY <1>0, <1>1, <1>7, <1>8
  <2>3. f \in Bijection(gone, removed)
    BY <2>2 DEF Bijection, Injection, Surjection, IsInjective
  <2> QED
    BY <2>1, <2>3, FS_Bijection DEF ExistsBijection
<1>20. ReservationsCovered'
  <2>1. ActiveBlocks = ActiveBlocks' \cup removed /\ ActiveBlocks' \cap removed = {}
    BY <1>4, <1>10 DEF ActiveBlocks
  <2>2. IsFiniteSet(ActiveBlocks) /\ IsFiniteSet(ActiveBlocks')
        /\ Cardinality(ActiveBlocks) \in Nat /\ Cardinality(ActiveBlocks') \in Nat
        /\ Cardinality(Block) \in Nat
    <3>1. IsFiniteSet(ActiveBlocks) /\ Cardinality(ActiveBlocks) \in Nat /\ Cardinality(Block) \in Nat
      BY <1>1, ActiveOrFree
    <3>2. ActiveBlocks' \in SUBSET ActiveBlocks
      BY <2>1
    <3>3. IsFiniteSet(ActiveBlocks')
      BY <3>1, <3>2, FS_Subset
    <3> QED
      BY <3>1, <3>3, FS_CardinalityType
  <2> HIDE DEF removed
  <2>3. Cardinality(ActiveBlocks' \cap removed) = 0
    BY <2>1, FS_EmptySet
  <2>4. Cardinality(ActiveBlocks' \cup removed)
          = Cardinality(ActiveBlocks') + Cardinality(removed) - Cardinality(ActiveBlocks' \cap removed)
    BY <2>2, <1>19, FS_Union
  <2>5. Cardinality(ActiveBlocks) = Cardinality(ActiveBlocks') + (Len(old) - n)
    BY <2>1, <2>2, <2>3, <2>4, <1>1, <1>19
  <2>6. Cardinality(ActiveBlocks) + total <= Cardinality(Block)
    BY DEF LedgerInv, ReservationsCovered
  <2> QED
    BY <2>2, <2>5, <2>6, <1>1, <1>3, <1>4 DEF ReservationsCovered
<1> QED
  BY <1>11, <1>12, <1>13, <1>14, <1>15, <1>16, <1>17, <1>18, <1>20 DEF LedgerInv

LEMMA FreeInv ==
  ASSUME LedgerInv, NEW r \in Req, Free(r)
  PROVE  LedgerInv'
<1>1. TypeOK /\ r \in live /\ blocks[r] \in Seq(Block) /\ reserved[r] \in Nat /\ total \in Int
  BY DEF Free, LedgerInv, TypeOK
<1>2. /\ live' = live \ {r} /\ key' = key /\ content' = content
      /\ blocks' = [blocks EXCEPT ![r] = <<>>]
      /\ cached' = [cached EXCEPT ![r] = 0]
      /\ reserved' = [reserved EXCEPT ![r] = 0]
      /\ total' = total - reserved[r]
      /\ ref' = [b \in Block |-> IF b \in Elements(blocks[r]) THEN ref[b] - 1 ELSE ref[b]]
      /\ chain' = [chain EXCEPT ![r] = <<>>]
      /\ done' = [done EXCEPT ![r] = 0]
  BY DEF Free
<1>3. \A q \in live' : /\ q \in live /\ q # r /\ blocks'[q] = blocks[q] /\ cached'[q] = cached[q]
                       /\ done'[q] = done[q] /\ chain'[q] = chain[q]
  BY <1>1, <1>2 DEF TypeOK
<1>4. \A b \in Elements(blocks[r]) : b \in Block /\ ref[b] \in Nat \ {0}
  BY <1>1, HeldBlocks DEF Elements
<1>5. TypeOK'
  <2>1. (ref \in [Block -> Nat])'
    BY <1>1, <1>2, <1>4 DEF TypeOK
  <2> QED
    BY <2>1, <1>1, <1>2 DEF TypeOK
<1>6. DeadRequestsEmpty'
  BY <1>1, <1>2 DEF LedgerInv, DeadRequestsEmpty, TypeOK
<1>7. ProgressOrdered'
  BY <1>3 DEF LedgerInv, ProgressOrdered
<1>8. PublishedKeys'
  BY <1>2, <1>3 DEF LedgerInv, PublishedKeys
<1>9. TailPrivate'
  BY <1>2, <1>3 DEF LedgerInv, TailPrivate
<1>10. PrefixHitsSound' /\ HeldPrefixIntact'
  BY <1>2, <1>3 DEF LedgerInv, PrefixHitsSound, HeldPrefixIntact
<1>11. RefCountsExact'
  <2> SUFFICES ASSUME NEW b \in Block PROVE ref'[b] = Cardinality(Holders(b)')
    BY DEF RefCountsExact
  <2>1. Holders(b)' = Holders(b) \ {r}
    BY <1>2, <1>3 DEF Holders
  <2>2. IsFiniteSet(Holders(b)) /\ Cardinality(Holders(b)) \in Nat /\ ref[b] = Cardinality(Holders(b))
    BY <1>1, HoldersFinite DEF LedgerInv, RefCountsExact
  <2>3. Cardinality(Holders(b) \ {r})
          = IF r \in Holders(b) THEN Cardinality(Holders(b)) - 1 ELSE Cardinality(Holders(b))
    BY <2>2, FS_RemoveElement
  <2>4. r \in Holders(b) <=> b \in Elements(blocks[r])
    BY <1>1 DEF Holders
  <2> QED
    BY <2>1, <2>2, <2>3, <2>4, <1>2
<1>12. IsFiniteSet(ReservedSlots)' /\ ReservationsExact'
  <2>1. /\ IsFiniteSet(ReservedSlots')
        /\ Cardinality(ReservedSlots') = Cardinality(ReservedSlots) - reserved[r] + 0
    BY <1>1, <1>2, ReservedSlotsUpdate DEF LedgerInv
  <2>2. total = Cardinality(ReservedSlots)
    BY DEF LedgerInv, ReservationsExact
  <2> QED
    BY <2>1, <2>2, <1>1, <1>2 DEF ReservationsExact
<1>13. ReservationsCovered'
  <2>1. ActiveBlocks' \in SUBSET ActiveBlocks
    BY <1>2, <1>4 DEF ActiveBlocks
  <2>2. IsFiniteSet(ActiveBlocks) /\ Cardinality(ActiveBlocks) \in Nat /\ Cardinality(Block) \in Nat
    BY <1>1, ActiveOrFree
  <2>3. IsFiniteSet(ActiveBlocks') /\ Cardinality(ActiveBlocks') <= Cardinality(ActiveBlocks)
    BY <2>1, <2>2, FS_Subset
  <2>4. Cardinality(ActiveBlocks') \in Nat
    BY <2>3, FS_CardinalityType
  <2>5. Cardinality(ActiveBlocks) + total <= Cardinality(Block)
    BY DEF LedgerInv, ReservationsCovered
  <2> QED
    BY <2>2, <2>3, <2>4, <2>5, <1>1, <1>2 DEF ReservationsCovered
<1> QED
  BY <1>5, <1>6, <1>7, <1>8, <1>9, <1>10, <1>11, <1>12, <1>13 DEF LedgerInv

LEMMA PublishInv ==
  ASSUME LedgerInv, NEW r \in Req, NEW n \in Nat, Publish(r, n)
  PROVE  LedgerInv'
<1> DEFINE new == (cached[r] + 1)..n
<1>1. /\ TypeOK /\ r \in live /\ blocks[r] \in Seq(Block) /\ Len(blocks[r]) \in Nat
      /\ cached[r] \in Nat /\ done[r] \in Nat
  BY DEF Publish, LedgerInv, TypeOK
<1>2. /\ cached[r] < n /\ n <= done[r] /\ done[r] <= Len(blocks[r])
  BY <1>1 DEF Publish, LedgerInv, ProgressOrdered
<1>3. /\ live' = live /\ blocks' = blocks /\ reserved' = reserved /\ total' = total
      /\ ref' = ref /\ chain' = chain /\ done' = done /\ content' = content
  BY DEF Publish
<1>4. /\ cached' = [cached EXCEPT ![r] = n]
      /\ key' \in [Block -> Hash \cup {NoHash}]
      /\ \A i \in new : key'[blocks[r][i]] = chain[r][i]
      /\ \A b \in Block : (\A i \in new : b # blocks[r][i]) => key'[b] = key[b]
  BY DEF Publish
<1>5. \A q \in live : /\ q \in Req /\ cached[q] \in Nat /\ done[q] \in Nat
                      /\ blocks[q] \in Seq(Block) /\ Len(blocks[q]) \in Nat
                      /\ cached[q] <= done[q] /\ done[q] <= Len(blocks[q])
  BY <1>1 DEF LedgerInv, TypeOK, ProgressOrdered
<1>6. \A q \in live : cached'[q] = IF q = r THEN n ELSE cached[q]
  BY <1>1, <1>4, <1>5 DEF TypeOK
<1>7. new \subseteq (cached[r] + 1)..Len(blocks[r]) /\ new \subseteq 1..done[r]
  BY <1>1, <1>2
\* What is published is in no other place.
<1>8. \A i \in new : \A q \in live : \A j \in 1..Len(blocks[q]) :
         blocks[q][j] = blocks[r][i] => q = r /\ j = i
  BY <1>1, <1>7 DEF LedgerInv, TailPrivate
<1>9. ASSUME NEW q \in live, NEW j \in 1..Len(blocks[q]), q # r \/ j \notin new
      PROVE  key'[blocks[q][j]] = key[blocks[q][j]]
  <2>1. blocks[q][j] \in Block
    BY <1>5
  <2>2. \A i \in new : blocks[q][j] # blocks[r][i]
    BY <1>8, <1>9
  <2> QED
    BY <2>1, <2>2, <1>4
<1>10. TypeOK'
  BY <1>1, <1>3, <1>4 DEF TypeOK
<1>11. DeadRequestsEmpty' /\ HeldPrefixIntact'
  BY <1>3 DEF LedgerInv, DeadRequestsEmpty, HeldPrefixIntact
<1>12. ProgressOrdered'
  BY <1>2, <1>3, <1>6 DEF LedgerInv, ProgressOrdered
<1>13. PublishedKeys'
  <2> SUFFICES ASSUME NEW q \in live, NEW i \in 1..cached'[q]
               PROVE  key'[blocks[q][i]] = chain[q][i]
    BY <1>3 DEF PublishedKeys
  <2>1. CASE q = r /\ i \in new
    BY <2>1, <1>4
  <2>2. CASE q # r \/ i \notin new
    <3>1. i \in 1..cached[q] /\ i \in 1..Len(blocks[q])
      BY <2>2, <1>1, <1>5, <1>6
    <3>2. key'[blocks[q][i]] = key[blocks[q][i]]
      BY <2>2, <3>1, <1>9
    <3> QED
      BY <3>1, <3>2 DEF LedgerInv, PublishedKeys
  <2> QED
    BY <2>1, <2>2
<1>14. TailPrivate'
  <2> SUFFICES ASSUME NEW q \in live, NEW i \in (cached'[q] + 1)..Len(blocks[q])
               PROVE  /\ key'[blocks[q][i]] = NoHash
                      /\ \A p \in live : \A j \in 1..Len(blocks[p]) :
                            blocks[p][j] = blocks[q][i] => p = q /\ j = i
    BY <1>3 DEF TailPrivate
  <2>1. /\ i \in (cached[q] + 1)..Len(blocks[q]) /\ i \in 1..Len(blocks[q])
        /\ (q # r \/ i \notin new)
    BY <1>1, <1>2, <1>5, <1>6
  <2>2. key'[blocks[q][i]] = key[blocks[q][i]]
    BY <2>1, <1>9
  <2> QED
    BY <2>1, <2>2 DEF LedgerInv, TailPrivate
<1>15. RefCountsExact'
  <2>1. \A b : Holders(b)' = Holders(b)
    BY <1>3 DEF Holders
  <2> QED
    BY <2>1, <1>3 DEF LedgerInv, RefCountsExact
<1>16. PrefixHitsSound'
  <2> SUFFICES ASSUME NEW b \in Block, key'[b] # NoHash PROVE content[b] = key'[b]
    BY <1>3 DEF PrefixHitsSound
  <2>1. CASE \E i \in new : b = blocks[r][i]
    BY <2>1, <1>1, <1>4, <1>7 DEF LedgerInv, HeldPrefixIntact
  <2>2. CASE \A i \in new : b # blocks[r][i]
    BY <2>2, <1>4 DEF LedgerInv, PrefixHitsSound
  <2> QED
    BY <2>1, <2>2
<1>17. IsFiniteSet(ReservedSlots)' /\ ReservationsExact' /\ ReservationsCovered'
  BY <1>3 DEF LedgerInv, ReservationsExact, ReservationsCovered, ReservedSlots, ActiveBlocks
<1> QED
  BY <1>10, <1>11, <1>12, <1>13, <1>14, <1>15, <1>16, <1>17 DEF LedgerInv

\* What a forward pass writes is private to the request that computes.
LEMMA ComputeWritesPrivate ==
  ASSUME LedgerInv, NEW r \in Req, NEW n \in Nat, NEW w \in Nat, Compute(r, n, w),
         NEW i \in (done[r] + 1)..w
  PROVE  /\ i \in (cached[r] + 1)..Len(blocks[r])
         /\ key[blocks[r][i]] = NoHash
         /\ \A q \in live : \A j \in 1..Len(blocks[q]) :
               blocks[q][j] = blocks[r][i] => q = r /\ j = i
<1>1. /\ TypeOK /\ r \in live /\ Len(blocks[r]) \in Nat
      /\ cached[r] \in Nat /\ done[r] \in Nat
  BY DEF Compute, LedgerInv, TypeOK
<1>2. w <= Len(blocks[r]) /\ cached[r] <= done[r]
  BY <1>1 DEF Compute, LedgerInv, ProgressOrdered
<1>3. i \in (cached[r] + 1)..Len(blocks[r])
  BY <1>1, <1>2
<1> QED
  BY <1>1, <1>3 DEF LedgerInv, TailPrivate

LEMMA ComputeInv ==
  ASSUME LedgerInv, NEW r \in Req, NEW n \in Nat, NEW w \in Nat, Compute(r, n, w)
  PROVE  LedgerInv'
<1> DEFINE written == (done[r] + 1)..w
<1>1. /\ TypeOK /\ r \in live /\ blocks[r] \in Seq(Block) /\ Len(blocks[r]) \in Nat
      /\ Len(chain[r]) \in Nat /\ cached[r] \in Nat /\ done[r] \in Nat
  BY DEF Compute, LedgerInv, TypeOK
<1>2. done[r] <= n /\ n <= w /\ w <= Len(blocks[r]) /\ n <= Len(chain[r]) /\ cached[r] <= done[r]
  BY <1>1 DEF Compute, LesserOf, LedgerInv, ProgressOrdered
<1>3. /\ live' = live /\ blocks' = blocks /\ cached' = cached /\ reserved' = reserved
      /\ total' = total /\ ref' = ref /\ key' = key /\ chain' = chain
  BY DEF Compute
<1>4. /\ done' = [done EXCEPT ![r] = n]
      /\ content' \in [Block -> Hash \cup {Junk}]
      /\ \A i \in (done[r] + 1)..n : content'[blocks[r][i]] = chain[r][i]
      /\ \A b \in Block : (\A i \in written : b # blocks[r][i]) => content'[b] = content[b]
  BY DEF Compute
<1>5. \A q \in live : /\ q \in Req /\ done[q] \in Nat
                      /\ blocks[q] \in Seq(Block) /\ Len(blocks[q]) \in Nat
                      /\ done[q] <= Len(blocks[q])
  BY <1>1 DEF LedgerInv, TypeOK, ProgressOrdered
<1>6. \A q \in live : done'[q] = IF q = r THEN n ELSE done[q]
  BY <1>1, <1>4, <1>5 DEF TypeOK
<1>7. \A i \in written :
         /\ key[blocks[r][i]] = NoHash
         /\ \A q \in live : \A j \in 1..Len(blocks[q]) :
               blocks[q][j] = blocks[r][i] => q = r /\ j = i
  BY ComputeWritesPrivate
<1>8. TypeOK'
  BY <1>1, <1>3, <1>4 DEF TypeOK
<1>9. DeadRequestsEmpty' /\ PublishedKeys' /\ TailPrivate'
  BY <1>3 DEF LedgerInv, DeadRequestsEmpty, PublishedKeys, TailPrivate
<1>10. ProgressOrdered'
  <2>1. \A q \in live : cached[q] \in Nat /\ cached[q] <= done[q]
    BY <1>1, <1>5 DEF LedgerInv, TypeOK, ProgressOrdered
  <2> QED
    BY <2>1, <1>1, <1>2, <1>3, <1>6 DEF LedgerInv, ProgressOrdered
<1>11. HeldPrefixIntact'
  <2> SUFFICES ASSUME NEW q \in live, NEW j \in 1..done'[q]
               PROVE  content'[blocks[q][j]] = chain[q][j]
    BY <1>3 DEF HeldPrefixIntact
  <2>1. CASE q = r /\ j \in (done[r] + 1)..n
    BY <2>1, <1>4
  <2>2. CASE q # r \/ j \notin (done[r] + 1)..n
    <3>1. j \in 1..done[q] /\ j \in 1..Len(blocks[q])
      BY <2>2, <1>1, <1>5, <1>6
    <3>2. \A i \in written : blocks[q][j] # blocks[r][i]
      BY <3>1, <1>1, <1>7
    <3>3. content'[blocks[q][j]] = content[blocks[q][j]]
      BY <3>1, <3>2, <1>4, <1>5
    <3> QED
      BY <3>1, <3>3 DEF LedgerInv, HeldPrefixIntact
  <2> QED
    BY <2>1, <2>2
<1>12. PrefixHitsSound'
  BY <1>3, <1>4, <1>7 DEF LedgerInv, PrefixHitsSound
<1>13. RefCountsExact'
  <2>1. \A b : Holders(b)' = Holders(b)
    BY <1>3 DEF Holders
  <2> QED
    BY <2>1, <1>3 DEF LedgerInv, RefCountsExact
<1>14. IsFiniteSet(ReservedSlots)' /\ ReservationsExact' /\ ReservationsCovered'
  BY <1>3 DEF LedgerInv, ReservationsExact, ReservationsCovered, ReservedSlots, ActiveBlocks
<1> QED
  BY <1>8, <1>9, <1>10, <1>11, <1>12, <1>13, <1>14 DEF LedgerInv

LEMMA ResetInv ==
  ASSUME LedgerInv, Reset
  PROVE  LedgerInv'
<1>1. /\ live = {} /\ live' = live /\ blocks' = blocks /\ cached' = cached
      /\ reserved' = reserved /\ total' = total /\ ref' = ref /\ chain' = chain
      /\ done' = done /\ content' = content
      /\ key' = [b \in Block |-> NoHash]
  BY DEF Reset
<1>2. TypeOK'
  BY <1>1 DEF LedgerInv, TypeOK
<1>3. /\ DeadRequestsEmpty' /\ ProgressOrdered' /\ PublishedKeys' /\ TailPrivate'
      /\ PrefixHitsSound' /\ HeldPrefixIntact'
  BY <1>1 DEF LedgerInv, DeadRequestsEmpty, ProgressOrdered, PublishedKeys, TailPrivate,
              PrefixHitsSound, HeldPrefixIntact
<1>4. RefCountsExact'
  <2>1. \A b : Holders(b)' = Holders(b)
    BY <1>1 DEF Holders
  <2> QED
    BY <2>1, <1>1 DEF LedgerInv, RefCountsExact
<1>5. IsFiniteSet(ReservedSlots)' /\ ReservationsExact' /\ ReservationsCovered'
  BY <1>1 DEF LedgerInv, ReservationsExact, ReservationsCovered, ReservedSlots, ActiveBlocks
<1> QED
  BY <1>2, <1>3, <1>4, <1>5 DEF LedgerInv

LEMMA StutterInv ==
  ASSUME LedgerInv, UNCHANGED vars
  PROVE  LedgerInv'
<1>1. /\ live' = live /\ blocks' = blocks /\ cached' = cached
      /\ reserved' = reserved /\ total' = total /\ ref' = ref /\ chain' = chain
      /\ done' = done /\ content' = content /\ key' = key
  BY DEF vars
<1>2. TypeOK' /\ RefCountsExact'
  <2>1. \A b : Holders(b)' = Holders(b)
    BY <1>1 DEF Holders
  <2> QED
    BY <2>1, <1>1 DEF LedgerInv, TypeOK, RefCountsExact
<1>3. DeadRequestsEmpty' /\ ProgressOrdered' /\ PublishedKeys'
  BY <1>1 DEF LedgerInv, DeadRequestsEmpty, ProgressOrdered, PublishedKeys
<1>5. TailPrivate'
  BY <1>1 DEF LedgerInv, TailPrivate
<1>6. PrefixHitsSound' /\ HeldPrefixIntact'
  BY <1>1 DEF LedgerInv, PrefixHitsSound, HeldPrefixIntact
<1>4. IsFiniteSet(ReservedSlots)' /\ ReservationsExact' /\ ReservationsCovered'
  BY <1>1 DEF LedgerInv, ReservationsExact, ReservationsCovered, ReservedSlots, ActiveBlocks
<1> QED
  BY <1>2, <1>3, <1>4, <1>5, <1>6 DEF LedgerInv

\* Every step of the cache preserves the invariant.
LEMMA StepInv ==
  ASSUME LedgerInv, [Next]_vars
  PROVE  LedgerInv'
<1>0. \A n \in 0..Cardinality(Block) : n \in Nat
  <2>1. Cardinality(Block) \in Nat
    BY LedgerAssumption, FS_CardinalityType
  <2> QED
    BY <2>1
<1>1. CASE \E r \in Req, c \in Chains : Admit(r, c)
  BY <1>1, AdmitInv
<1>2. CASE \E r \in Req : Grow(r)
  BY <1>2, GrowInv
<1>3. CASE \E r \in Req, n \in 0..Cardinality(Block) : Trim(r, n)
  BY <1>3, <1>0, TrimInv
<1>4. CASE \E r \in Req : Free(r)
  BY <1>4, FreeInv
<1>5. CASE \E r \in Req, n \in 0..Cardinality(Block) : Publish(r, n)
  BY <1>5, <1>0, PublishInv
<1>6. CASE \E r \in Req, n, w \in 0..Cardinality(Block) : Compute(r, n, w)
  BY <1>6, <1>0, ComputeInv
<1>7. CASE Reset
  BY <1>7, ResetInv
<1>8. CASE UNCHANGED vars
  BY <1>8, StutterInv
<1> QED
  BY <1>1, <1>2, <1>3, <1>4, <1>5, <1>6, <1>7, <1>8 DEF Next

-----------------------------------------------------------------------------
(* The theorems. *)

\* The ledger keeps its inductive invariant in every reachable state.
THEOREM LedgerInvariant == Spec => []LedgerInv
<1>1. Init => LedgerInv
  BY InitInv
<1>2. LedgerInv /\ [Next]_vars => LedgerInv'
  BY StepInv
<1> QED
  BY <1>1, <1>2, PTL DEF Spec

\* Every variable of the KV cache keeps its type.
THEOREM TypeCorrect == Spec => []TypeOK
<1>1. LedgerInv => TypeOK
  BY DEF LedgerInv
<1> QED
  BY <1>1, LedgerInvariant, PTL

\* Allocation, sharing, trimming and freeing keep every reference count equal
\* to the number of requests that hold the block (KVCacheManager and touch,
\* free_blocks of BlockPool).
THEOREM RefCountsAlwaysExact == Spec => []RefCountsExact
<1>1. LedgerInv => RefCountsExact
  BY DEF LedgerInv
<1> QED
  BY <1>1, LedgerInvariant, PTL

\* get_computed_blocks only ever offers blocks whose KV is what the hash says.
THEOREM PrefixHitsAlwaysSound == Spec => []PrefixHitsSound
<1>1. LedgerInv => PrefixHitsSound
  BY DEF LedgerInv
<1> QED
  BY <1>1, LedgerInvariant, PTL

\* The computed prefix of a request is never overwritten while it is live.
THEOREM HeldPrefixAlwaysIntact == Spec => []HeldPrefixIntact
<1>1. LedgerInv => HeldPrefixIntact
  BY DEF LedgerInv
<1> QED
  BY <1>1, LedgerInvariant, PTL

\* total_reserved_blocks is the sum of the reservations (reserve_prompt,
\* allocate_slots, trim, free).
THEOREM ReservationsAlwaysExact == Spec => []ReservationsExact
<1>1. LedgerInv => ReservationsExact
  BY DEF LedgerInv
<1> QED
  BY <1>1, LedgerInvariant, PTL

\* A reservation that was granted can always be taken: the cache is never
\* overcommitted.
THEOREM ReservationsAlwaysCovered == Spec => []ReservationsCovered
<1>1. LedgerInv => ReservationsCovered
  BY DEF LedgerInv
<1> QED
  BY <1>1, LedgerInvariant, PTL

\* No step writes to a block that a second request holds or that the prefix
\* cache offers.
THEOREM SharedBlocksNeverWritten == Spec => SharedBlocksImmutable
<1> DEFINE Private == \A b \in Block : content'[b] # content[b] =>
                        /\ key[b] = NoHash
                        /\ Cardinality(Holders(b)) = 1
<1>1. LedgerInv /\ [Next]_vars => [Private]_vars
  <2> SUFFICES ASSUME LedgerInv, Next, NEW b \in Block, content'[b] # content[b]
               PROVE  key[b] = NoHash /\ Cardinality(Holders(b)) = 1
    OBVIOUS
  <2>1. PICK r \in Req, n \in 0..Cardinality(Block), w \in 0..Cardinality(Block) : Compute(r, n, w)
    BY DEF Next, Admit, Grow, Trim, Free, Publish, Reset
  <2>2. n \in Nat /\ w \in Nat
    <3>1. Cardinality(Block) \in Nat
      BY LedgerAssumption, FS_CardinalityType
    <3> QED
      BY <3>1
  <2>3. PICK i \in (done[r] + 1)..w : b = blocks[r][i]
    BY <2>1 DEF Compute
  <2>4. /\ i \in (cached[r] + 1)..Len(blocks[r])
        /\ key[blocks[r][i]] = NoHash
        /\ \A q \in live : \A j \in 1..Len(blocks[q]) :
              blocks[q][j] = blocks[r][i] => q = r /\ j = i
    BY <2>1, <2>2, ComputeWritesPrivate
  <2>5. r \in live /\ i \in 1..Len(blocks[r])
    BY <2>1, <2>4 DEF Compute, LedgerInv, TypeOK
  <2>6. Holders(b) = {r}
    BY <2>3, <2>4, <2>5 DEF Holders, Elements
  <2>7. Cardinality(Holders(b)) = 1
    BY <2>6, FS_Singleton
  <2> QED
    BY <2>3, <2>4, <2>7
<1> QED
  BY <1>1, LedgerInvariant, PTL DEF Spec, SharedBlocksImmutable

=============================================================================
