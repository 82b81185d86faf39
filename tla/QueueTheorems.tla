---------------------------- MODULE QueueTheorems ----------------------------
(***************************************************************************)
(* What filtering, sorting and joining queues keeps: no member is lost,    *)
(* none is doubled, and the order is the one that was asked for.           *)
(***************************************************************************)
EXTENDS Queues, SequencesExt, FiniteSetTheorems, SequenceTheorems, WellFoundedInduction, TLAPS

\* Every set of numbers up to n can be listed in increasing order: by
\* induction over n, as the absence of a least counterexample.
LEMMA OrderExists ==
  ASSUME NEW n \in Nat, NEW S \in SUBSET (1..n)
  PROVE  \E q \in [1..Cardinality(S) -> S] : Increasing(q)
<1> DEFINE Good(m) == \A T \in SUBSET (1..m) : \E q \in [1..Cardinality(T) -> T] : Increasing(q)
           Bad == {m \in Nat : ~Good(m)}
<1>1. SUFFICES ASSUME Bad # {} PROVE FALSE
  BY <1>1
<1>2. PICK m \in Bad : \A k \in Bad : <<k, m>> \notin OpToRel(<, Nat)
  BY <1>1, NatLessThanWellFounded, WFMin
<1>3. m \in Nat /\ ~Good(m)
  OBVIOUS
<1>4. \A k \in Nat : k < m => Good(k)
  BY <1>2, <1>3 DEF OpToRel
<1>5. PICK T \in SUBSET (1..m) : ~ \E q \in [1..Cardinality(T) -> T] : Increasing(q)
  BY <1>3
<1> HIDE DEF Good, Bad
<1>6. IsFiniteSet(T) /\ Cardinality(T) \in Nat
  <2>1. IsFiniteSet(1..m)
    BY <1>3, FS_Interval
  <2>2. IsFiniteSet(T)
    BY <2>1, FS_Subset
  <2> QED BY <2>2, FS_CardinalityType
<1>7. m \in T
  <2>1. SUFFICES ASSUME m \notin T PROVE FALSE
    OBVIOUS
  <2>2. CASE m = 0
    <3>1. T = {}
      BY <2>2
    <3>2. Cardinality(T) = 0
      BY <3>1, FS_EmptySet
    <3>3. << >> \in [1..Cardinality(T) -> T] /\ Increasing(<< >>)
      BY <3>1, <3>2 DEF Increasing
    <3> QED BY <3>3, <1>5
  <2>3. CASE m # 0
    <3>1. m - 1 \in Nat /\ m - 1 < m /\ T \in SUBSET (1..(m - 1))
      BY <2>1, <2>3, <1>3
    <3> QED BY <3>1, <1>4, <1>5 DEF Good
  <2> QED BY <2>2, <2>3
<1>8. m - 1 \in Nat /\ m - 1 < m /\ T \ {m} \in SUBSET (1..(m - 1))
  BY <1>3, <1>7
<1>9. PICK q \in [1..Cardinality(T \ {m}) -> T \ {m}] : Increasing(q)
  BY <1>4, <1>8 DEF Good
<1>10. Cardinality(T \ {m}) = Cardinality(T) - 1 /\ Cardinality(T) - 1 \in Nat
  <2>1. IsFiniteSet(T \ {m}) /\ Cardinality(T \ {m}) = Cardinality(T) - 1
    BY <1>6, <1>7, FS_RemoveElement
  <2>2. Cardinality(T \ {m}) \in Nat
    BY <2>1, FS_CardinalityType
  <2> QED BY <2>1, <2>2
<1>11. PICK c \in Nat : c = Cardinality(T)
  BY <1>6
<1>12. c - 1 \in Nat /\ q \in [1..(c - 1) -> T \ {m}]
  BY <1>9, <1>10, <1>11
<1> DEFINE r == [i \in 1..c |-> IF i = c THEN m ELSE q[i]]
<1>13. r \in [1..c -> T]
  <2> SUFFICES ASSUME NEW i \in 1..c PROVE r[i] \in T
    OBVIOUS
  <2>1. i = c \/ i \in 1..(c - 1)
    OBVIOUS
  <2> QED BY <1>7, <1>12, <2>1
<1>14. Increasing(r)
  <2>1. \A i \in 1..(c - 1) : q[i] \in 1..(m - 1)
    BY <1>8, <1>12
  <2> SUFFICES ASSUME NEW i \in 1..c, NEW j \in 1..c, i < j
               PROVE  r[i] < r[j]
    BY DEF Increasing
  <2>2. i \in 1..(c - 1) /\ r[i] = q[i]
    OBVIOUS
  <2>3. CASE j = c
    <3>1. q[i] \in 1..(m - 1)
      BY <2>1, <2>2
    <3> QED BY <3>1, <2>2, <2>3, <1>3
  <2>4. CASE j # c
    <3>1. j \in 1..(c - 1) /\ r[j] = q[j]
      BY <2>4
    <3> QED BY <3>1, <2>2, <1>9, <1>12 DEF Increasing
  <2> QED BY <2>3, <2>4
<1> QED BY <1>5, <1>11, <1>13, <1>14

\* The listing has every member of the set, once, in increasing order.
LEMMA InOrderProperties ==
  ASSUME NEW n \in Nat, NEW S \in SUBSET (1..n)
  PROVE  /\ InOrder(S) \in Seq(S)
         /\ Len(InOrder(S)) = Cardinality(S)
         /\ ToSet(InOrder(S)) = S
         /\ Increasing(InOrder(S))
         /\ IsInjective(InOrder(S))
<1> DEFINE q == InOrder(S)
<1>1. q \in [1..Cardinality(S) -> S] /\ Increasing(q)
  BY OrderExists DEF InOrder
<1>2. IsFiniteSet(S) /\ Cardinality(S) \in Nat
  <2>1. IsFiniteSet(1..n)
    BY FS_Interval
  <2>2. IsFiniteSet(S)
    BY <2>1, FS_Subset
  <2> QED BY <2>2, FS_CardinalityType
<1> HIDE DEF q
<1>3. PICK c \in Nat : c = Cardinality(S)
  BY <1>2
<1>4. q \in [1..c -> S] /\ q \in Seq(S) /\ Len(q) = c /\ DOMAIN q = 1..c
  BY <1>1, <1>3
<1>5. IsInjective(q)
  <2> SUFFICES ASSUME NEW i \in 1..c, NEW j \in 1..c, i # j
               PROVE  q[i] # q[j]
    BY <1>4 DEF IsInjective
  <2>1. i < j \/ j < i
    OBVIOUS
  <2>2. q[i] \in 1..n /\ q[j] \in 1..n
    BY <1>4
  <2>3. q[i] < q[j] \/ q[j] < q[i]
    BY <1>1, <1>4, <2>1 DEF Increasing
  <2> QED BY <2>2, <2>3
<1>6. q \in Injection(1..c, S)
  BY <1>4, <1>5 DEF Injection
<1>7. Cardinality(1..c) = Cardinality(S)
  BY <1>3, FS_Interval
<1>8. q \in Surjection(1..c, S)
  BY <1>2, <1>6, <1>7, FS_Injection
<1>9. ToSet(q) = S
  BY <1>4, <1>8 DEF Surjection, ToSet
<1> QED BY <1>1, <1>3, <1>4, <1>5, <1>9 DEF q

\* The bound variables of Keep stand for its arguments.
LEMMA KeepPicks ==
  ASSUME NEW q, NEW S
  PROVE  Keep(q, S) = Picked(q, InOrder(Positions(q, S)))
<1> DEFINE Kept(p, T) == {Picked(p, order) : order \in {InOrder(Positions(p, T))}}
<1>1. UNION {Kept(p, T) : p \in {q}, T \in {S}} = Kept(q, S)
  <2> HIDE DEF Kept
  <2> QED OBVIOUS
<1>2. Kept(q, S) = {Picked(q, InOrder(Positions(q, S)))}
  OBVIOUS
<1>3. Keep(q, S) = CHOOSE r \in UNION {Kept(p, T) : p \in {q}, T \in {S}} : TRUE
  BY DEF Keep
<1> HIDE DEF Kept
<1>4. Keep(q, S) = CHOOSE r \in Kept(q, S) : TRUE
  BY <1>1, <1>3
<1>5. Keep(q, S) \in Kept(q, S)
  BY <1>2, <1>4
<1> QED BY <1>2, <1>5

\* A filtered queue has the wanted members of the queue and no others, is no
\* longer, and doubles none.
LEMMA KeepProperties ==
  ASSUME NEW T, NEW q \in Seq(T), NEW S
  PROVE  /\ Keep(q, S) \in Seq(T)
         /\ Len(Keep(q, S)) <= Len(q)
         /\ ToSet(Keep(q, S)) = ToSet(q) \cap S
         /\ IsInjective(q) => IsInjective(Keep(q, S))
<1> DEFINE I == {i \in 1..Len(q) : q[i] \in S}
           order == InOrder(I)
           k == Keep(q, S)
<1>1. Len(q) \in Nat /\ I \in SUBSET (1..Len(q)) /\ q \in [1..Len(q) -> T]
  OBVIOUS
<1>2. /\ order \in Seq(I) /\ Len(order) = Cardinality(I)
      /\ ToSet(order) = I /\ IsInjective(order)
  BY <1>1, InOrderProperties
<1>3. k = [x \in 1..Len(order) |-> q[order[x]]]
  BY KeepPicks DEF Positions, Picked
<1>4. Cardinality(I) <= Len(q)
  <2>1. PICK c \in Nat : c = Len(q)
    OBVIOUS
  <2>2. IsFiniteSet(1..c) /\ Cardinality(1..c) = c
    BY FS_Interval
  <2> QED BY <1>1, <2>1, <2>2, FS_Subset
<1> HIDE DEF I, order, k
<1>5. PICK c \in Nat : c = Len(order)
  BY <1>2
<1>6. order \in [1..c -> I] /\ DOMAIN order = 1..c
  BY <1>2, <1>5
<1>7. k = [x \in 1..c |-> q[order[x]]]
  BY <1>3, <1>5
<1>8. \A x \in 1..c : order[x] \in 1..Len(q) /\ q[order[x]] \in T
  BY <1>1, <1>6
<1>9. k \in [1..c -> T] /\ k \in Seq(T) /\ Len(k) = c /\ DOMAIN k = 1..c
  BY <1>7, <1>8
<1>10. ToSet(k) = ToSet(q) \cap S
  <2>1. ASSUME NEW x \in 1..c PROVE k[x] \in ToSet(q) \cap S
    <3>1. k[x] = q[order[x]] /\ order[x] \in I
      BY <1>6, <1>7
    <3> QED BY <1>1, <3>1 DEF I, ToSet
  <2>2. ASSUME NEW y \in ToSet(q) \cap S PROVE y \in ToSet(k)
    <3>1. PICK i \in 1..Len(q) : q[i] = y
      BY <1>1 DEF ToSet
    <3>2. i \in I
      BY <3>1 DEF I
    <3>3. PICK x \in 1..c : order[x] = i
      BY <3>2, <1>2, <1>6 DEF ToSet
    <3> QED BY <1>7, <1>9, <3>1, <3>3 DEF ToSet
  <2> QED BY <1>9, <2>1, <2>2 DEF ToSet
<1>11. ASSUME IsInjective(q) PROVE IsInjective(k)
  <2> SUFFICES ASSUME NEW x \in 1..c, NEW y \in 1..c, k[x] = k[y]
               PROVE  x = y
    BY <1>9 DEF IsInjective
  <2>1. q[order[x]] = q[order[y]]
    BY <1>7
  <2>2. order[x] = order[y]
    BY <1>1, <1>8, <1>11, <2>1 DEF IsInjective
  <2> QED BY <1>2, <1>6, <2>2 DEF IsInjective
<1> QED BY <1>2, <1>4, <1>5, <1>9, <1>10, <1>11 DEF k

-----------------------------------------------------------------------------
(* Joining and cutting queues. *)

\* The members of a queue are what stands at its positions.
LEMMA MembersHavePositions ==
  ASSUME NEW T, NEW q \in Seq(T)
  PROVE  /\ ToSet(q) \subseteq T
         /\ \A x : x \in ToSet(q) <=> \E i \in 1..Len(q) : q[i] = x
         /\ \A i \in 1..Len(q) : q[i] \in ToSet(q)
BY DEF ToSet

\* A queue doubles nothing when no two positions hold the same.
LEMMA InjectiveByPositions ==
  ASSUME NEW T, NEW q \in Seq(T)
  PROVE  IsInjective(q) <=> \A i, j \in 1..Len(q) : q[i] = q[j] => i = j
BY DEF IsInjective

\* The positions of a joined queue are those of the first, then those of the
\* second.
LEMMA ConcatPositions ==
  ASSUME NEW T, NEW a \in Seq(T), NEW b \in Seq(T)
  PROVE  /\ a \o b \in Seq(T)
         /\ Len(a \o b) = Len(a) + Len(b)
         /\ \A i \in 1..Len(a) : (a \o b)[i] = a[i] /\ i \in 1..(Len(a) + Len(b))
         /\ \A i \in 1..Len(b) : (a \o b)[Len(a) + i] = b[i] /\ Len(a) + i \in 1..(Len(a) + Len(b))
         /\ \A i \in 1..(Len(a) + Len(b)) :
               i \in 1..Len(a) \/ \E j \in 1..Len(b) : i = Len(a) + j
<1>1. a \o b \in Seq(T) /\ Len(a \o b) = Len(a) + Len(b)
  BY ConcatProperties
<1>2. \A i \in 1..(Len(a) + Len(b)) :
        i \in 1..Len(a) \/ \E j \in 1..Len(b) : i = Len(a) + j
  <2> SUFFICES ASSUME NEW i \in 1..(Len(a) + Len(b)), i \notin 1..Len(a)
               PROVE  i - Len(a) \in 1..Len(b) /\ i = Len(a) + (i - Len(a))
    OBVIOUS
  <2> QED OBVIOUS
<1> QED BY <1>1, <1>2

\* A joined queue has the members of both.
LEMMA ConcatIsUnion ==
  ASSUME NEW T, NEW a \in Seq(T), NEW b \in Seq(T)
  PROVE  ToSet(a \o b) = ToSet(a) \cup ToSet(b)
<1>1. PICK m \in Nat, n \in Nat : m = Len(a) /\ n = Len(b)
  OBVIOUS
<1>2. PICK c \in Seq(T) : c = a \o b
  BY ConcatPositions
<1>3. /\ Len(c) = m + n
      /\ \A i \in 1..m : c[i] = a[i] /\ i \in 1..(m + n)
      /\ \A i \in 1..n : c[m + i] = b[i] /\ m + i \in 1..(m + n)
      /\ \A i \in 1..(m + n) : i \in 1..m \/ \E j \in 1..n : i = m + j
  BY <1>1, <1>2, ConcatPositions
<1>4. /\ \A x : x \in ToSet(a) <=> \E i \in 1..m : a[i] = x
      /\ \A x : x \in ToSet(b) <=> \E i \in 1..n : b[i] = x
      /\ \A x : x \in ToSet(c) <=> \E i \in 1..(m + n) : c[i] = x
  <2>1. \A x : x \in ToSet(a) <=> \E i \in 1..m : a[i] = x
    BY <1>1, MembersHavePositions
  <2>2. \A x : x \in ToSet(b) <=> \E i \in 1..n : b[i] = x
    BY <1>1, MembersHavePositions
  <2>3. \A x : x \in ToSet(c) <=> \E i \in 1..(m + n) : c[i] = x
    <3>1. \A x : x \in ToSet(c) <=> \E i \in 1..Len(c) : c[i] = x
      BY MembersHavePositions
    <3> QED BY <3>1, <1>3
  <2> QED BY <2>1, <2>2, <2>3
<1>5. ASSUME NEW x \in ToSet(c) PROVE x \in ToSet(a) \/ x \in ToSet(b)
  <2>1. PICK i \in 1..(m + n) : c[i] = x
    BY <1>4
  <2>2. CASE i \in 1..m
    <3>1. a[i] = x
      BY <1>3, <2>1, <2>2
    <3> QED BY <1>4, <2>2, <3>1
  <2>3. CASE i \notin 1..m
    <3>1. PICK j \in 1..n : i = m + j
      BY <1>3, <2>3
    <3>2. b[j] = x
      BY <1>3, <2>1, <3>1
    <3> QED BY <1>4, <3>2
  <2> QED BY <2>2, <2>3
<1>6. ASSUME NEW x \in ToSet(a) PROVE x \in ToSet(c)
  <2>1. PICK i \in 1..m : a[i] = x
    BY <1>4
  <2>2. c[i] = x /\ i \in 1..(m + n)
    BY <1>3, <2>1
  <2> QED BY <1>4, <2>2
<1>7. ASSUME NEW x \in ToSet(b) PROVE x \in ToSet(c)
  <2>1. PICK i \in 1..n : b[i] = x
    BY <1>4
  <2>2. c[m + i] = x /\ m + i \in 1..(m + n)
    BY <1>3, <2>1
  <2> QED BY <1>4, <2>2
<1> QED BY <1>2, <1>5, <1>6, <1>7

\* Two queues together double nothing when neither does and they have no
\* member in common.
LEMMA ConcatInjective ==
  ASSUME NEW T, NEW a \in Seq(T), NEW b \in Seq(T),
         IsInjective(a), IsInjective(b), ToSet(a) \cap ToSet(b) = {}
  PROVE  IsInjective(a \o b)
<1>1. PICK m \in Nat, n \in Nat : m = Len(a) /\ n = Len(b)
  OBVIOUS
<1>2. PICK c \in Seq(T) : c = a \o b
  BY ConcatPositions
<1>3. /\ Len(c) = m + n
      /\ \A i \in 1..m : c[i] = a[i]
      /\ \A i \in 1..n : c[m + i] = b[i]
      /\ \A i \in 1..(m + n) : i \in 1..m \/ \E j \in 1..n : i = m + j
  BY <1>1, <1>2, ConcatPositions
<1>4. \A x \in 1..m : \A y \in 1..n : a[x] # b[y]
  BY <1>1, MembersHavePositions
<1>5. /\ \A i, j \in 1..m : a[i] = a[j] => i = j
      /\ \A i, j \in 1..n : b[i] = b[j] => i = j
  BY <1>1, InjectiveByPositions
<1>6. \A i, j \in 1..(m + n) : c[i] = c[j] => i = j
  <2> SUFFICES ASSUME NEW i \in 1..(m + n), NEW j \in 1..(m + n), c[i] = c[j]
               PROVE  i = j
    OBVIOUS
  <2>1. CASE i \in 1..m /\ j \in 1..m
    BY <2>1, <1>3, <1>5
  <2>2. CASE i \in 1..m /\ j \notin 1..m
    <3>1. PICK y \in 1..n : j = m + y
      BY <2>2, <1>3
    <3>2. c[i] = a[i] /\ c[j] = b[y]
      BY <2>2, <3>1, <1>3
    <3> QED BY <2>2, <3>2, <1>4
  <2>3. CASE i \notin 1..m /\ j \in 1..m
    <3>1. PICK y \in 1..n : i = m + y
      BY <2>3, <1>3
    <3>2. c[j] = a[j] /\ c[i] = b[y]
      BY <2>3, <3>1, <1>3
    <3> QED BY <2>3, <3>2, <1>4
  <2>4. CASE i \notin 1..m /\ j \notin 1..m
    <3>1. PICK x \in 1..n, y \in 1..n : i = m + x /\ j = m + y
      BY <2>4, <1>3
    <3>2. c[i] = b[x] /\ c[j] = b[y]
      BY <3>1, <1>3
    <3> QED BY <3>1, <3>2, <1>5
  <2> QED BY <2>1, <2>2, <2>3, <2>4
<1> QED BY <1>2, <1>3, <1>6, InjectiveByPositions

\* A piece of a queue has no other members than the queue, and doubles none.
LEMMA SubSeqKeeps ==
  ASSUME NEW T, NEW q \in Seq(T), NEW m \in 1..(Len(q) + 1), NEW n \in 0..Len(q)
  PROVE  /\ SubSeq(q, m, n) \in Seq(T)
         /\ \A x : x \in ToSet(SubSeq(q, m, n)) <=> \E i \in m..n : q[i] = x
         /\ IsInjective(q) => IsInjective(SubSeq(q, m, n))
<1>0. m \in Nat /\ n \in Nat /\ Len(q) \in Nat /\ \A i \in m..n : i \in 1..Len(q)
  OBVIOUS
<1>1. PICK k \in Nat : k = IF m <= n THEN n - m + 1 ELSE 0
  <2>1. (IF m <= n THEN n - m + 1 ELSE 0) \in Nat
    BY <1>0
  <2> QED BY <2>1
<1>2. PICK p \in Seq(T) : p = SubSeq(q, m, n)
  <2>1. \A i \in m..n : q[i] \in T
    BY <1>0
  <2>2. SubSeq(q, m, n) \in Seq(T)
    BY SubSeqProperties
  <2> QED BY <2>2
<1>3. Len(p) = k
  BY <1>1, <1>2, SubSeqProperties
<1>4. \A i \in 1..k : p[i] = q[m + i - 1] /\ m + i - 1 \in m..n /\ m + i - 1 \in 1..Len(q)
  BY <1>1, <1>2
<1>5. \A j \in m..n : j - m + 1 \in 1..k /\ p[j - m + 1] = q[j]
  <2> SUFFICES ASSUME NEW j \in m..n
               PROVE  j - m + 1 \in 1..k /\ p[j - m + 1] = q[j]
    OBVIOUS
  <2>1. j - m + 1 \in 1..k /\ m + (j - m + 1) - 1 = j
    BY <1>1
  <2> QED BY <2>1, <1>4
<1>6. \A x : x \in ToSet(p) <=> \E i \in m..n : q[i] = x
  <2>1. \A x : x \in ToSet(p) <=> \E i \in 1..k : p[i] = x
    BY <1>3, MembersHavePositions
  <2>2. ASSUME NEW x \in ToSet(p) PROVE \E i \in m..n : q[i] = x
    <3>1. PICK i \in 1..k : p[i] = x
      BY <2>1
    <3>2. q[m + i - 1] = x /\ m + i - 1 \in m..n
      BY <3>1, <1>4
    <3> QED BY <3>2
  <2>3. ASSUME NEW x, NEW i \in m..n, q[i] = x PROVE x \in ToSet(p)
    <3>1. i - m + 1 \in 1..k /\ p[i - m + 1] = x
      BY <1>5, <2>3
    <3> QED BY <2>1, <3>1
  <2> QED BY <2>2, <2>3
<1>7. ASSUME IsInjective(q) PROVE IsInjective(p)
  <2> SUFFICES ASSUME NEW i \in 1..k, NEW j \in 1..k, p[i] = p[j] PROVE i = j
    BY <1>3, InjectiveByPositions
  <2>1. \A x, y \in 1..Len(q) : q[x] = q[y] => x = y
    BY <1>7, InjectiveByPositions
  <2>2. m + i - 1 = m + j - 1
    BY <1>4, <2>1
  <2> QED BY <2>2
<1> QED BY <1>2, <1>6, <1>7

\* Taking the front off a queue removes just that member.
LEMMA TailKeeps ==
  ASSUME NEW T, NEW q \in Seq(T), q # << >>, IsInjective(q)
  PROVE  /\ Head(q) \in ToSet(q)
         /\ Tail(q) \in Seq(T)
         /\ IsInjective(Tail(q))
         /\ ToSet(Tail(q)) = ToSet(q) \ {Head(q)}
<1>1. Len(q) \in Nat /\ Len(q) > 0 /\ Head(q) = q[1] /\ Tail(q) = SubSeq(q, 2, Len(q))
  OBVIOUS
<1>2. 2 \in 1..(Len(q) + 1) /\ Len(q) \in 0..Len(q) /\ 1 \in 1..Len(q)
  BY <1>1
<1>3. /\ Tail(q) \in Seq(T)
      /\ \A x : x \in ToSet(Tail(q)) <=> \E i \in 2..Len(q) : q[i] = x
      /\ IsInjective(Tail(q))
  <2>1. PICK n \in Nat : n = Len(q)
    BY <1>1
  <2>2. /\ SubSeq(q, 2, n) \in Seq(T)
        /\ \A x : x \in ToSet(SubSeq(q, 2, n)) <=> \E i \in 2..n : q[i] = x
        /\ IsInjective(SubSeq(q, 2, n))
    BY <1>2, <2>1, SubSeqKeeps
  <2> QED BY <1>1, <2>1, <2>2
<1>4. \A x : x \in ToSet(q) <=> \E i \in 1..Len(q) : q[i] = x
  BY MembersHavePositions
<1>5. \A i, j \in 1..Len(q) : q[i] = q[j] => i = j
  BY InjectiveByPositions
<1>6. \A i \in 1..Len(q) : i \in 2..Len(q) <=> i # 1
  BY <1>1
<1>7. \A i \in 2..Len(q) : i \in 1..Len(q) /\ i # 1
  BY <1>1
<1>8. \A x : x \in ToSet(Tail(q)) <=> x \in ToSet(q) /\ x # q[1]
  <2>1. ASSUME NEW x, x \in ToSet(Tail(q)) PROVE x \in ToSet(q) /\ x # q[1]
    <3>1. PICK i \in 2..Len(q) : q[i] = x
      BY <1>3, <2>1
    <3> QED BY <3>1, <1>2, <1>4, <1>5, <1>7
  <2>2. ASSUME NEW x, x \in ToSet(q), x # q[1] PROVE x \in ToSet(Tail(q))
    <3>1. PICK i \in 1..Len(q) : q[i] = x
      BY <1>4, <2>2
    <3> QED BY <3>1, <1>3, <1>6, <2>2
  <2> QED BY <2>1, <2>2
<1> QED BY <1>1, <1>2, <1>3, <1>4, <1>8

\* Taking the back off a queue removes just that member.
LEMMA FrontKeeps ==
  ASSUME NEW T, NEW q \in Seq(T), q # << >>, IsInjective(q)
  PROVE  /\ Last(q) \in ToSet(q)
         /\ Front(q) \in Seq(T)
         /\ IsInjective(Front(q))
         /\ ToSet(Front(q)) = ToSet(q) \ {Last(q)}
<1>1. PICK n \in Nat : n = Len(q) /\ n > 0
  OBVIOUS
<1>2. 1 \in 1..(n + 1) /\ n - 1 \in 0..n /\ n \in 1..n
  BY <1>1
<1>0. Last(q) = q[n] /\ Front(q) = SubSeq(q, 1, n - 1)
  BY <1>1 DEF Last, Front
<1>3. /\ Front(q) \in Seq(T)
      /\ \A x : x \in ToSet(Front(q)) <=> \E i \in 1..(n - 1) : q[i] = x
      /\ IsInjective(Front(q))
  BY <1>0, <1>1, <1>2, SubSeqKeeps
<1>4. \A x : x \in ToSet(q) <=> \E i \in 1..n : q[i] = x
  BY <1>1, MembersHavePositions
<1>5. \A i, j \in 1..n : q[i] = q[j] => i = j
  BY <1>1, InjectiveByPositions
<1>6. \A i \in 1..n : i \in 1..(n - 1) <=> i # n
  OBVIOUS
<1>7. \A i \in 1..(n - 1) : i \in 1..n /\ i # n
  OBVIOUS
<1>8. \A x : x \in ToSet(Front(q)) <=> x \in ToSet(q) /\ x # q[n]
  <2>1. ASSUME NEW x, x \in ToSet(Front(q)) PROVE x \in ToSet(q) /\ x # q[n]
    <3>1. PICK i \in 1..(n - 1) : q[i] = x
      BY <1>3, <2>1
    <3> QED BY <3>1, <1>2, <1>4, <1>5, <1>7
  <2>2. ASSUME NEW x, x \in ToSet(q), x # q[n] PROVE x \in ToSet(Front(q))
    <3>1. PICK i \in 1..n : q[i] = x
      BY <1>4, <2>2
    <3> QED BY <3>1, <1>3, <1>6, <2>2
  <2> QED BY <2>1, <2>2
<1> QED BY <1>0, <1>2, <1>3, <1>4, <1>8

\* A queue of one.
LEMMA SingletonQueue ==
  ASSUME NEW T, NEW x \in T
  PROVE  <<x>> \in Seq(T) /\ ToSet(<<x>>) = {x} /\ IsInjective(<<x>>)
BY DEF ToSet, IsInjective

\* The empty queue has no members.
LEMMA EmptyQueue ==
  \A T : << >> \in Seq(T) /\ ToSet(<< >>) = {} /\ IsInjective(<< >>)
BY DEF ToSet, IsInjective

\* Only the empty queue has no members.
LEMMA NonemptyQueue ==
  ASSUME NEW T, NEW q \in Seq(T)
  PROVE  q = << >> <=> ToSet(q) = {}
<1>1. \A x : x \in ToSet(q) <=> \E i \in 1..Len(q) : q[i] = x
  BY MembersHavePositions
<1>2. ASSUME q # << >> PROVE q[1] \in ToSet(q)
  BY <1>1, <1>2
<1> QED BY <1>2, EmptyQueue

\* push_back adds one member, and doubles nothing when it is new.
LEMMA AppendKeeps ==
  ASSUME NEW T, NEW q \in Seq(T), NEW x \in T
  PROVE  /\ Append(q, x) \in Seq(T)
         /\ ToSet(Append(q, x)) = ToSet(q) \cup {x}
         /\ IsInjective(q) /\ x \notin ToSet(q) => IsInjective(Append(q, x))
<1>1. Append(q, x) = q \o <<x>>
  BY AppendIsConcat
<1>2. <<x>> \in Seq(T) /\ ToSet(<<x>>) = {x} /\ IsInjective(<<x>>)
  BY SingletonQueue
<1>3. Append(q, x) \in Seq(T) /\ ToSet(q \o <<x>>) = ToSet(q) \cup {x}
  BY <1>2, ConcatIsUnion
<1>4. ASSUME IsInjective(q), x \notin ToSet(q) PROVE IsInjective(q \o <<x>>)
  BY <1>2, <1>4, ConcatInjective
<1> QED BY <1>1, <1>3, <1>4

\* push_front adds one member, and doubles nothing when it is new.
LEMMA PushKeeps ==
  ASSUME NEW T, NEW q \in Seq(T), NEW x \in T
  PROVE  /\ <<x>> \o q \in Seq(T)
         /\ ToSet(<<x>> \o q) = ToSet(q) \cup {x}
         /\ IsInjective(q) /\ x \notin ToSet(q) => IsInjective(<<x>> \o q)
<1>2. <<x>> \in Seq(T) /\ ToSet(<<x>>) = {x} /\ IsInjective(<<x>>)
  BY SingletonQueue
<1>3. <<x>> \o q \in Seq(T) /\ ToSet(<<x>> \o q) = ToSet(q) \cup {x}
  <2>1. PICK c : c = <<x>>
    OBVIOUS
  <2>2. ToSet(c \o q) = ToSet(c) \cup ToSet(q) /\ c \o q \in Seq(T)
    BY <1>2, <2>1, ConcatIsUnion, ConcatProperties
  <2> QED BY <1>2, <2>1, <2>2
<1>4. ASSUME IsInjective(q), x \notin ToSet(q) PROVE IsInjective(<<x>> \o q)
  BY <1>2, <1>4, ConcatInjective
<1> QED BY <1>3, <1>4

\* The two halves of a queue, swapped or not, have the members of the queue.
LEMMA HalvesKeep ==
  ASSUME NEW T, NEW q \in Seq(T), NEW k \in 1..(Len(q) + 1)
  PROVE  LET a == SubSeq(q, 1, k - 1)
             b == SubSeq(q, k, Len(q))
         IN  /\ a \in Seq(T) /\ b \in Seq(T)
             /\ ToSet(a) \cup ToSet(b) = ToSet(q)
             /\ IsInjective(q) =>
                   IsInjective(a) /\ IsInjective(b) /\ ToSet(a) \cap ToSet(b) = {}
<1> DEFINE a == SubSeq(q, 1, k - 1)
           b == SubSeq(q, k, Len(q))
<1>1. PICK n \in Nat : n = Len(q)
  OBVIOUS
<1>2. k \in 1..(n + 1) /\ k - 1 \in 0..n /\ 1 \in 1..(n + 1) /\ n \in 0..n
  BY <1>1
<1>3. /\ a \in Seq(T)
      /\ \A x : x \in ToSet(a) <=> \E i \in 1..(k - 1) : q[i] = x
      /\ IsInjective(q) => IsInjective(a)
  BY <1>1, <1>2, SubSeqKeeps
<1>4. /\ b \in Seq(T)
      /\ \A x : x \in ToSet(b) <=> \E i \in k..n : q[i] = x
      /\ IsInjective(q) => IsInjective(b)
  BY <1>1, <1>2, SubSeqKeeps
<1> HIDE DEF a, b
<1>5. \A x : x \in ToSet(q) <=> \E i \in 1..n : q[i] = x
  BY <1>1, MembersHavePositions
<1>6. \A i \in 1..n : i \in 1..(k - 1) \/ i \in k..n
  BY <1>2
<1>7. \A i \in 1..(k - 1) : i \in 1..n /\ i \notin k..n
  BY <1>2
<1>8. \A i \in k..n : i \in 1..n
  BY <1>2
<1>9. ToSet(a) \cup ToSet(b) = ToSet(q)
  BY <1>3, <1>4, <1>5, <1>6, <1>7, <1>8, Zenon
<1>10. ASSUME IsInjective(q) PROVE ToSet(a) \cap ToSet(b) = {}
  <2>1. \A i, j \in 1..n : q[i] = q[j] => i = j
    BY <1>1, <1>10, InjectiveByPositions
  <2>2. ASSUME NEW x \in ToSet(a), x \in ToSet(b) PROVE FALSE
    <3>1. PICK i \in 1..(k - 1) : q[i] = x
      BY <1>3
    <3>2. PICK j \in k..n : q[j] = x
      BY <1>4, <2>2
    <3>3. i = j
      BY <2>1, <3>1, <3>2, <1>7, <1>8
    <3> QED BY <3>3, <1>7
  <2> QED BY <2>2
<1> QED BY <1>3, <1>4, <1>9, <1>10 DEF a, b

\* So does an insertion behind the front.
LEMMA InsertSecondKeeps ==
  ASSUME NEW T, NEW q \in Seq(T), NEW x \in T, q # << >>
  PROVE  /\ InsertAt(q, 2, x) \in Seq(T)
         /\ InsertAt(q, 2, x) # << >>
         /\ ToSet(InsertAt(q, 2, x)) = ToSet(q) \cup {x}
         /\ IsInjective(q) /\ x \notin ToSet(q) => IsInjective(InsertAt(q, 2, x))
<1>1. PICK a, b : a = SubSeq(q, 1, 1) /\ b = SubSeq(q, 2, Len(q))
  OBVIOUS
<1>2. 2 \in 1..(Len(q) + 1) /\ 2 - 1 = 1
  OBVIOUS
<1>3. /\ a \in Seq(T) /\ b \in Seq(T)
      /\ ToSet(a) \cup ToSet(b) = ToSet(q)
      /\ IsInjective(q) => IsInjective(a) /\ IsInjective(b) /\ ToSet(a) \cap ToSet(b) = {}
  BY <1>1, <1>2, HalvesKeep
<1>4. PICK c : c = a \o <<x>>
  OBVIOUS
<1>5. /\ c \in Seq(T) /\ ToSet(c) = ToSet(a) \cup {x}
      /\ IsInjective(a) /\ x \notin ToSet(a) => IsInjective(c)
  <2>1. c = Append(a, x)
    BY <1>3, <1>4, AppendIsConcat
  <2> QED BY <1>3, <2>1, AppendKeeps
<1>6. InsertAt(q, 2, x) = c \o b
  BY <1>1, <1>4 DEF InsertAt
<1>7. c \o b \in Seq(T) /\ ToSet(c \o b) = ToSet(c) \cup ToSet(b)
  BY <1>3, <1>5, ConcatIsUnion, ConcatProperties
<1>8. ASSUME IsInjective(q), x \notin ToSet(q) PROVE IsInjective(c \o b)
  BY <1>3, <1>5, <1>8, ConcatInjective
<1>9. ToSet(c \o b) = ToSet(q) \cup {x}
  BY <1>3, <1>5, <1>7
<1>10. c \o b # << >>
  BY <1>7, <1>9, EmptyQueue
<1> QED BY <1>6, <1>7, <1>8, <1>9, <1>10

\* A reversed queue has the same members.
LEMMA ReverseKeeps ==
  ASSUME NEW T, NEW q \in Seq(T)
  PROVE  /\ Reverse(q) \in Seq(T)
         /\ ToSet(Reverse(q)) = ToSet(q)
         /\ IsInjective(q) => IsInjective(Reverse(q))
<1>1. PICK n \in Nat : n = Len(q)
  OBVIOUS
<1>2. PICK r : r = Reverse(q)
  OBVIOUS
<1>3. r = [i \in 1..n |-> q[(n - i) + 1]]
  BY <1>1, <1>2 DEF Reverse
<1>4. \A i \in 1..n : (n - i) + 1 \in 1..n /\ (n - ((n - i) + 1)) + 1 = i
  OBVIOUS
<1>5. \A i \in 1..n : r[i] = q[(n - i) + 1] /\ q[(n - i) + 1] \in T
  BY <1>1, <1>3, <1>4
<1>6. r \in [1..n -> T]
  BY <1>3, <1>5
<1>7. r \in Seq(T) /\ Len(r) = n
  BY <1>6
<1>8. /\ \A x : x \in ToSet(q) <=> \E i \in 1..n : q[i] = x
      /\ \A x : x \in ToSet(r) <=> \E i \in 1..n : r[i] = x
  <2>1. \A x : x \in ToSet(q) <=> \E i \in 1..n : q[i] = x
    BY <1>1, MembersHavePositions
  <2>2. \A x : x \in ToSet(r) <=> \E i \in 1..n : r[i] = x
    BY <1>7, MembersHavePositions
  <2> QED BY <2>1, <2>2
<1>9. ASSUME NEW x \in ToSet(r) PROVE x \in ToSet(q)
  <2>1. PICK i \in 1..n : r[i] = x
    BY <1>8
  <2>2. (n - i) + 1 \in 1..n /\ q[(n - i) + 1] = x
    BY <1>4, <1>5, <2>1
  <2> QED BY <1>8, <2>2
<1>10. ASSUME NEW x \in ToSet(q) PROVE x \in ToSet(r)
  <2>1. PICK i \in 1..n : q[i] = x
    BY <1>8
  <2>2. PICK j \in 1..n : j = (n - i) + 1 /\ (n - j) + 1 = i
    BY <1>4
  <2>3. r[j] = x
    BY <1>5, <2>1, <2>2
  <2> QED BY <1>8, <2>3
<1>11. ASSUME IsInjective(q) PROVE IsInjective(r)
  <2>1. \A i, j \in 1..n : q[i] = q[j] => i = j
    BY <1>1, <1>11, InjectiveByPositions
  <2>2. \A i, j \in 1..n : r[i] = r[j] => i = j
    <3> SUFFICES ASSUME NEW i \in 1..n, NEW j \in 1..n, r[i] = r[j] PROVE i = j
      OBVIOUS
    <3>1. (n - i) + 1 = (n - j) + 1
      BY <1>4, <1>5, <2>1
    <3> QED BY <3>1
  <2> QED BY <1>7, <2>2, InjectiveByPositions
<1> QED BY <1>2, <1>7, <1>9, <1>10, <1>11

\* A queue that doubles nothing is as long as it has members.
LEMMA LenIsCardinality ==
  ASSUME NEW T, NEW q \in Seq(T), IsInjective(q)
  PROVE  IsFiniteSet(ToSet(q)) /\ Cardinality(ToSet(q)) = Len(q)
<1>1. PICK n \in Nat : n = Len(q)
  OBVIOUS
<1>2. q \in [1..n -> ToSet(q)]
  BY <1>1, MembersHavePositions
<1>3. q \in Surjection(1..n, ToSet(q))
  <2>1. \A x \in ToSet(q) : \E i \in 1..n : q[i] = x
    BY <1>1, MembersHavePositions
  <2> QED BY <1>2, <2>1 DEF Surjection
<1>4. q \in Injection(1..n, ToSet(q))
  BY <1>2 DEF Injection
<1>5. IsFiniteSet(1..n) /\ Cardinality(1..n) = n
  BY FS_Interval
<1>6. IsFiniteSet(ToSet(q)) /\ (Cardinality(ToSet(q)) = Cardinality(1..n) <=> q \in Injection(1..n, ToSet(q)))
  BY <1>3, <1>5, FS_Surjection
<1> QED BY <1>1, <1>4, <1>5, <1>6

\* What is left without the last member.
LEMMA FrontElements ==
  ASSUME NEW T, NEW q \in Seq(T), q # << >>
  PROVE  /\ Front(q) \in Seq(T)
         /\ Len(Front(q)) = Len(q) - 1
         /\ \A i \in 1..(Len(q) - 1) : Front(q)[i] = q[i]
<1>1. PICK m \in Nat : m = Len(q) /\ m > 0
  OBVIOUS
<1>2. Front(q) = SubSeq(q, 1, m - 1)
  BY <1>1 DEF Front
<1>3. m - 1 \in Int /\ 1 \in Int /\ \A i \in 1..(m - 1) : q[i] \in T
  BY <1>1
<1>4. PICK f : f = SubSeq(q, 1, m - 1)
  OBVIOUS
<1>5. /\ f \in Seq(T)
      /\ Len(f) = IF 1 <= m - 1 THEN m - 1 - 1 + 1 ELSE 0
      /\ \A i \in 1..(m - 1 - 1 + 1) : f[i] = q[1 + i - 1]
  BY <1>3, <1>4, SubSeqProperties
<1>6. Len(f) = m - 1
  BY <1>1, <1>5
<1>7. \A i \in 1..(m - 1) : f[i] = q[i]
  BY <1>1, <1>5
<1> QED BY <1>1, <1>2, <1>4, <1>5, <1>6, <1>7

\* The ends of an increasing queue: the front is below the rest, nothing is
\* above the back, and without either it is still increasing.
LEMMA IncreasingEnds ==
  ASSUME NEW n \in Nat, NEW q \in Seq(1..n), q # << >>, Increasing(q)
  PROVE  /\ Increasing(Tail(q)) /\ \A x \in ToSet(Tail(q)) : Head(q) < x
         /\ Increasing(Front(q)) /\ \A x \in ToSet(q) : x <= Last(q)
<1>1. PICK m \in Nat : m = Len(q) /\ m > 0
  OBVIOUS
<1>2. \A i, j \in 1..m : i < j => q[i] < q[j]
  BY <1>1 DEF Increasing
<1>3. \A i \in 1..m : q[i] \in 1..n
  BY <1>1
<1>4. PICK t \in Seq(1..n) : t = Tail(q) /\ Len(t) = m - 1 /\ \A i \in 1..(m - 1) : t[i] = q[i + 1]
  <2>1. PICK t : t = Tail(q)
    OBVIOUS
  <2>2. /\ t \in Seq(1..n) /\ Len(t) = Len(q) - 1
        /\ \A i \in 1..Len(t) : t[i] = q[i + 1]
    BY <2>1, HeadTailProperties
  <2>3. Len(t) = m - 1 /\ \A i \in 1..(m - 1) : t[i] = q[i + 1]
    BY <1>1, <2>2
  <2> QED BY <2>1, <2>2, <2>3
<1>5. Increasing(t)
  <2> SUFFICES ASSUME NEW i \in 1..(m - 1), NEW j \in 1..(m - 1), i < j PROVE t[i] < t[j]
    BY <1>4 DEF Increasing
  <2>1. i + 1 \in 1..m /\ j + 1 \in 1..m /\ i + 1 < j + 1
    OBVIOUS
  <2> QED BY <1>2, <1>4, <2>1
<1>6. ASSUME NEW x \in ToSet(t) PROVE Head(q) < x
  <2>0. \E i \in 1..Len(t) : t[i] = x
    BY MembersHavePositions
  <2>1. PICK i \in 1..(m - 1) : t[i] = x
    BY <1>4, <2>0
  <2>2. 1 \in 1..m /\ i + 1 \in 1..m /\ 1 < i + 1
    BY <1>1
  <2> QED BY <1>1, <1>2, <1>4, <2>1, <2>2
<1>7. PICK f \in Seq(1..n) : f = Front(q) /\ Len(f) = m - 1 /\ \A i \in 1..(m - 1) : f[i] = q[i]
  <2>1. PICK f : f = Front(q)
    OBVIOUS
  <2>2. /\ f \in Seq(1..n) /\ Len(f) = Len(q) - 1
        /\ \A i \in 1..(Len(q) - 1) : f[i] = q[i]
    BY <2>1, FrontElements
  <2> QED BY <1>1, <2>1, <2>2
<1>8. Increasing(f)
  <2> SUFFICES ASSUME NEW i \in 1..(m - 1), NEW j \in 1..(m - 1), i < j PROVE f[i] < f[j]
    BY <1>7 DEF Increasing
  <2>1. i \in 1..m /\ j \in 1..m
    OBVIOUS
  <2> QED BY <1>2, <1>7, <2>1
<1>9. ASSUME NEW x \in ToSet(q) PROVE x <= Last(q)
  <2>1. PICK i \in 1..m : q[i] = x
    BY <1>1, MembersHavePositions
  <2>2. m \in 1..m /\ Last(q) = q[m] /\ (i < m \/ i = m)
    BY <1>1 DEF Last
  <2>3. q[i] \in 1..n /\ q[m] \in 1..n
    BY <1>3, <2>2
  <2> QED BY <1>2, <2>1, <2>2, <2>3
<1> QED BY <1>4, <1>5, <1>6, <1>7, <1>8, <1>9
-----------------------------------------------------------------------------
(* Which of two members comes first. *)

\* Who is ahead of another is a member, and so is the other.
LEMMA AheadMembers ==
  ASSUME NEW T, NEW q \in Seq(T), NEW a, NEW b, Ahead(q, a, b)
  PROVE  a \in ToSet(q) /\ b \in ToSet(q)
BY MembersHavePositions DEF Ahead

\* In a queue that doubles nothing no two are ahead of each other.
LEMMA AheadAsymmetric ==
  ASSUME NEW T, NEW q \in Seq(T), IsInjective(q), NEW a, NEW b, Ahead(q, a, b)
  PROVE  a # b /\ ~Ahead(q, b, a)
<1>1. PICK n \in Nat : n = Len(q)
  OBVIOUS
<1>2. \A i, j \in 1..n : q[i] = q[j] => i = j
  BY <1>1, InjectiveByPositions
<1>3. PICK i \in 1..n, j \in 1..n : i < j /\ q[i] = a /\ q[j] = b
  BY <1>1 DEF Ahead
<1>4. a # b
  BY <1>2, <1>3
<1>5. ASSUME Ahead(q, b, a) PROVE FALSE
  <2>1. PICK k \in 1..n, m \in 1..n : k < m /\ q[k] = b /\ q[m] = a
    BY <1>1, <1>5 DEF Ahead
  <2>2. m = i /\ k = j
    BY <1>2, <1>3, <2>1
  <2> QED BY <1>3, <2>1, <2>2
<1> QED BY <1>4, <1>5

\* Filtering a queue brings nobody ahead.
LEMMA AheadInKeep ==
  ASSUME NEW T, NEW q \in Seq(T), NEW S, NEW a, NEW b, Ahead(Keep(q, S), a, b)
  PROVE  Ahead(q, a, b)
<1>1. PICK n \in Nat : n = Len(q)
  OBVIOUS
<1>2. PICK I \in SUBSET (1..n) : I = Positions(q, S)
  BY <1>1 DEF Positions
<1>3. PICK order : order = InOrder(I)
  OBVIOUS
<1>4. order \in Seq(I) /\ Increasing(order)
  BY <1>2, <1>3, InOrderProperties
<1>5. PICK c \in Nat : c = Len(order)
  BY <1>4
<1>6. DOMAIN order = 1..c /\ \A x \in 1..c : order[x] \in 1..n
  BY <1>2, <1>4, <1>5
<1>7. Keep(q, S) = [x \in 1..c |-> q[order[x]]]
  BY <1>2, <1>3, <1>5, KeepPicks DEF Picked
<1>8. PICK k : k = Keep(q, S)
  OBVIOUS
<1>9. Len(k) = c /\ \A x \in 1..c : k[x] = q[order[x]]
  BY <1>7, <1>8
<1>10. PICK i \in 1..c, j \in 1..c : i < j /\ k[i] = a /\ k[j] = b
  BY <1>8, <1>9 DEF Ahead
<1>11. order[i] < order[j]
  BY <1>4, <1>6, <1>10 DEF Increasing
<1>12. order[i] \in 1..n /\ order[j] \in 1..n /\ q[order[i]] = a /\ q[order[j]] = b
  BY <1>6, <1>9, <1>10
<1> QED BY <1>1, <1>11, <1>12 DEF Ahead

\* Nor does taking a piece of it.
LEMMA AheadInPiece ==
  ASSUME NEW T, NEW q \in Seq(T), NEW m \in 1..(Len(q) + 1), NEW n \in 0..Len(q),
         NEW a, NEW b, Ahead(SubSeq(q, m, n), a, b)
  PROVE  Ahead(q, a, b)
<1>1. PICK l \in Nat : l = Len(q) /\ m \in 1..(l + 1) /\ n \in 0..l
  OBVIOUS
<1>2. PICK k \in Nat : k = IF m <= n THEN n - m + 1 ELSE 0
  <2>1. (IF m <= n THEN n - m + 1 ELSE 0) \in Nat
    BY <1>1
  <2> QED BY <2>1
<1>3. PICK p : p = SubSeq(q, m, n)
  OBVIOUS
<1>4. \A i \in m..n : q[i] \in T
  BY <1>1
<1>5. Len(p) = k /\ \A i \in 1..k : p[i] = q[m + i - 1] /\ m + i - 1 \in 1..l
  BY <1>1, <1>2, <1>3, <1>4, SubSeqProperties
<1>6. PICK i \in 1..k, j \in 1..k : i < j /\ p[i] = a /\ p[j] = b
  BY <1>3, <1>5 DEF Ahead
<1>7. m + i - 1 < m + j - 1 /\ m + i - 1 \in 1..l /\ m + j - 1 \in 1..l
  BY <1>1, <1>5, <1>6
<1>8. q[m + i - 1] = a /\ q[m + j - 1] = b
  BY <1>5, <1>6
<1> QED BY <1>1, <1>7, <1>8 DEF Ahead

\* The first part of a queue is ahead of the second.
LEMMA AheadInHalves ==
  ASSUME NEW T, NEW q \in Seq(T), NEW n \in 0..Len(q),
         NEW a \in ToSet(SubSeq(q, 1, n)), NEW b \in ToSet(SubSeq(q, n + 1, Len(q)))
  PROVE  Ahead(q, a, b)
<1>1. PICK l \in Nat : l = Len(q) /\ n \in 0..l
  OBVIOUS
<1>2. 1 \in 1..(l + 1) /\ n + 1 \in 1..(l + 1) /\ l \in 0..l
  BY <1>1
<1>3. PICK i \in 1..n : q[i] = a
  BY <1>1, <1>2, SubSeqKeeps
<1>4. PICK j \in (n + 1)..l : q[j] = b
  BY <1>1, <1>2, SubSeqKeeps
<1>5. i \in 1..l /\ j \in 1..l /\ i < j
  BY <1>1
<1> QED BY <1>1, <1>3, <1>4, <1>5 DEF Ahead

\* In joined queues one is ahead of another where it was before, or in the
\* first queue and the other in the second.
LEMMA AheadInConcat ==
  ASSUME NEW T, NEW x \in Seq(T), NEW y \in Seq(T), NEW a, NEW b, Ahead(x \o y, a, b)
  PROVE  Ahead(x, a, b) \/ Ahead(y, a, b) \/ (a \in ToSet(x) /\ b \in ToSet(y))
<1>0. PICK c : c = x \o y
  OBVIOUS
<1>1. PICK m \in Nat, n \in Nat : m = Len(x) /\ n = Len(y)
  OBVIOUS
<1>2. /\ Len(c) = m + n
      /\ \A i \in 1..m : c[i] = x[i]
      /\ \A i \in 1..n : c[m + i] = y[i]
      /\ \A i \in 1..(m + n) : i \in 1..m \/ \E k \in 1..n : i = m + k
  BY <1>0, <1>1, ConcatPositions
<1>3. PICK i \in 1..(m + n), j \in 1..(m + n) : i < j /\ c[i] = a /\ c[j] = b
  BY <1>0, <1>1, <1>2 DEF Ahead
<1>4. CASE i \in 1..m /\ j \in 1..m
  BY <1>1, <1>2, <1>3, <1>4 DEF Ahead
<1>5. ASSUME i \in 1..m, NEW k \in 1..n, j = m + k PROVE a \in ToSet(x) /\ b \in ToSet(y)
  <2>1. x[i] = a /\ y[k] = b
    BY <1>2, <1>3, <1>5
  <2> QED BY <1>1, <1>5, <2>1, MembersHavePositions
<1>6. ASSUME NEW h \in 1..n, i = m + h, NEW k \in 1..n, j = m + k PROVE Ahead(y, a, b)
  <2>1. y[h] = a /\ y[k] = b /\ h < k
    BY <1>2, <1>3, <1>6
  <2> QED BY <1>1, <2>1 DEF Ahead
<1>7. ASSUME NEW h \in 1..n, i = m + h, j \in 1..m PROVE FALSE
  BY <1>3, <1>7
<1>8. i \in 1..m \/ \E h \in 1..n : i = m + h
  BY <1>2
<1>9. j \in 1..m \/ \E k \in 1..n : j = m + k
  BY <1>2
<1> QED BY <1>4, <1>5, <1>6, <1>7, <1>8, <1>9

\* Who is pushed to the back is behind all others, whose order stays.
LEMMA AheadInAppend ==
  ASSUME NEW T, NEW q \in Seq(T), NEW x \in T, NEW a, NEW b
  PROVE  Ahead(Append(q, x), a, b) <=> (Ahead(q, a, b) \/ (a \in ToSet(q) /\ b = x))
<1>0. PICK c : c = Append(q, x)
  OBVIOUS
<1>1. PICK n \in Nat : n = Len(q)
  OBVIOUS
<1>2. Len(c) = n + 1 /\ (\A i \in 1..n : c[i] = q[i]) /\ c[n + 1] = x
  BY <1>0, <1>1, AppendProperties
<1>3. \A i \in 1..(n + 1) : i \in 1..n \/ i = n + 1
  OBVIOUS
<1>4. \A i \in 1..n : i \in 1..(n + 1) /\ i < n + 1
  OBVIOUS
<1>5. \A z : z \in ToSet(q) <=> \E i \in 1..n : q[i] = z
  BY <1>1, MembersHavePositions
<1>6. ASSUME Ahead(c, a, b) PROVE Ahead(q, a, b) \/ (a \in ToSet(q) /\ b = x)
  <2>1. PICK i \in 1..(n + 1), j \in 1..(n + 1) : i < j /\ c[i] = a /\ c[j] = b
    BY <1>2, <1>6 DEF Ahead
  <2>2. i \in 1..n /\ q[i] = a
    BY <1>2, <2>1
  <2>3. CASE j = n + 1
    BY <1>2, <1>5, <2>1, <2>2, <2>3
  <2>4. CASE j \in 1..n
    BY <1>1, <1>2, <2>1, <2>2, <2>4 DEF Ahead
  <2> QED BY <1>3, <2>3, <2>4
<1>7. ASSUME Ahead(q, a, b) PROVE Ahead(c, a, b)
  <2>1. PICK i \in 1..n, j \in 1..n : i < j /\ q[i] = a /\ q[j] = b
    BY <1>1, <1>7 DEF Ahead
  <2> QED BY <1>2, <1>4, <2>1 DEF Ahead
<1>8. ASSUME a \in ToSet(q), b = x PROVE Ahead(c, a, b)
  <2>1. PICK i \in 1..n : q[i] = a
    BY <1>5, <1>8
  <2>2. n + 1 \in 1..(n + 1) /\ i < n + 1 /\ i \in 1..(n + 1)
    BY <1>4
  <2> QED BY <1>2, <1>8, <2>1, <2>2 DEF Ahead
<1> QED BY <1>0, <1>6, <1>7, <1>8

\* The front of a queue is ahead of all others.
LEMMA AheadOfTail ==
  ASSUME NEW T, NEW q \in Seq(T), q # << >>
  PROVE  /\ \A b \in ToSet(Tail(q)) : Ahead(q, Head(q), b)
         /\ \A a, b : Ahead(Tail(q), a, b) => Ahead(q, a, b)
<1>0. PICK t : t = Tail(q)
  OBVIOUS
<1>1. PICK m \in Nat : m = Len(q) /\ m > 0
  OBVIOUS
<1>2. t \in Seq(T) /\ Len(t) = m - 1 /\ \A i \in 1..(m - 1) : t[i] = q[i + 1]
  <2>1. /\ t \in Seq(T) /\ Len(t) = Len(q) - 1
        /\ \A i \in 1..Len(t) : t[i] = q[i + 1]
    BY <1>0, HeadTailProperties
  <2> QED BY <1>1, <2>1
<1>3. Head(q) = q[1] /\ 1 \in 1..m /\ \A i \in 1..(m - 1) : i + 1 \in 1..m /\ 1 < i + 1
  BY <1>1
<1>4. ASSUME NEW b \in ToSet(t) PROVE Ahead(q, Head(q), b)
  <2>0. \E i \in 1..Len(t) : t[i] = b
    BY <1>2, MembersHavePositions
  <2>1. PICK i \in 1..(m - 1) : t[i] = b
    BY <1>2, <2>0
  <2>2. q[i + 1] = b /\ i + 1 \in 1..m /\ 1 < i + 1
    BY <1>2, <1>3, <2>1
  <2> QED BY <1>1, <1>3, <2>2 DEF Ahead
<1>5. ASSUME NEW a, NEW b, Ahead(t, a, b) PROVE Ahead(q, a, b)
  <2>1. PICK i \in 1..(m - 1), j \in 1..(m - 1) : i < j /\ t[i] = a /\ t[j] = b
    BY <1>2, <1>5 DEF Ahead
  <2>2. q[i + 1] = a /\ q[j + 1] = b /\ i + 1 \in 1..m /\ j + 1 \in 1..m /\ i + 1 < j + 1
    BY <1>2, <1>3, <2>1
  <2> QED BY <1>1, <2>2 DEF Ahead
<1> QED BY <1>0, <1>4, <1>5

\* Keeping the members in S doubles nothing when q has none of them twice.
LEMMA KeepInjective ==
  ASSUME NEW T, NEW q \in Seq(T), NEW S,
         \A i, j \in 1..Len(q) : q[i] \in S /\ q[i] = q[j] => i = j
  PROVE  IsInjective(Keep(q, S))
<1>1. PICK n \in Nat : n = Len(q)
  OBVIOUS
<1>2. PICK I \in SUBSET (1..n) : I = Positions(q, S)
  BY <1>1 DEF Positions
<1>3. PICK order : order = InOrder(I)
  OBVIOUS
<1>4. order \in Seq(I) /\ IsInjective(order)
  BY <1>2, <1>3, InOrderProperties
<1>5. \A k \in 1..Len(order) : order[k] \in I /\ q[order[k]] \in S
  BY <1>1, <1>2, <1>4 DEF Positions
<1>6. PICK r : r = Keep(q, S)
  OBVIOUS
<1>7. r = Picked(q, order)
  BY <1>2, <1>3, <1>6, KeepPicks
<1>8. r = [k \in 1..Len(order) |-> q[order[k]]]
  BY <1>7 DEF Picked
<1>9. \A i, j \in 1..Len(order) : order[i] = order[j] => i = j
  BY <1>4, InjectiveByPositions
<1>10. \A i, j \in 1..Len(order) : r[i] = r[j] => i = j
  BY <1>1, <1>2, <1>5, <1>8, <1>9
<1>11. DOMAIN r = 1..Len(order)
  BY <1>8
<1> QED BY <1>6, <1>10, <1>11 DEF IsInjective

\* Every set of numbers has a least one.
LEMMA LeastMember ==
  ASSUME NEW S \in SUBSET Nat, S # {}
  PROVE  \E m \in S : \A k \in S : m <= k
<1>1. PICK m \in S : \A k \in S : <<k, m>> \notin OpToRel(<, Nat)
  BY NatLessThanWellFounded, WFMin
<1>2. ASSUME NEW k \in S PROVE m <= k
  <2>1. ~(k < m)
    BY <1>1 DEF OpToRel
  <2> QED BY <2>1
<1> QED BY <1>2

\* An interval is put in order by counting.
LEMMA InOrderInterval ==
  ASSUME NEW n \in Nat, NEW m \in 1..(n + 1)
  PROVE  InOrder(m..n) = [k \in 1..(n - m + 1) |-> m + k - 1]
<1>1. PICK order : order = InOrder(m..n)
  OBVIOUS
<1>2. m..n \in SUBSET (1..n) /\ n - m + 1 \in Nat /\ m \in Int
  OBVIOUS
<1>3. Cardinality(m..n) = n - m + 1
  <2>1. Cardinality(m..n) = IF m > n THEN 0 ELSE n - m + 1
    BY <1>2, FS_Interval
  <2> QED BY <2>1
<1>4. order \in Seq(m..n) /\ Len(order) = n - m + 1 /\ ToSet(order) = m..n /\ Increasing(order)
  BY <1>1, <1>2, <1>3, InOrderProperties
<1>5. PICK c \in Nat : c = n - m + 1
  BY <1>2
<1>6. /\ DOMAIN order = 1..c /\ \A k \in 1..c : order[k] \in m..n
      /\ \A i, j \in 1..c : i < j => order[i] < order[j]
      /\ \A x \in m..n : \E j \in 1..c : order[j] = x
  <2>1. Len(order) = c /\ DOMAIN order = 1..c /\ \A k \in 1..c : order[k] \in m..n
    BY <1>4, <1>5
  <2>2. \A x : x \in ToSet(order) <=> \E j \in 1..Len(order) : order[j] = x
    BY <1>4, MembersHavePositions
  <2> QED BY <1>4, <2>1, <2>2 DEF Increasing
<1> DEFINE Bad == {k \in 1..c : order[k] # m + k - 1}
<1>7. Bad = {}
  <2>1. SUFFICES ASSUME Bad # {} PROVE FALSE
    OBVIOUS
  <2>2. Bad \in SUBSET Nat
    OBVIOUS
  <2>3. PICK k \in Bad : \A j \in Bad : k <= j
    BY <2>1, <2>2, LeastMember
  <2>4. k \in 1..c /\ order[k] \in m..n /\ order[k] # m + k - 1 /\ k \in Nat
    BY <1>6, <2>3
  <2>5. \A j \in 1..c : j < k => order[j] = m + j - 1
    BY <2>3, <2>4
  <2>6. order[k] > m + k - 1
    <3>1. CASE k = 1
      BY <2>4, <3>1
    <3>2. CASE k > 1
      <4>1. k - 1 \in 1..c /\ k - 1 < k
        BY <2>4, <3>2
      <4>2. order[k - 1] = m + (k - 1) - 1 /\ order[k - 1] < order[k]
        BY <1>6, <2>4, <2>5, <4>1
      <4> QED BY <2>4, <4>2
    <3> QED BY <2>4, <3>1, <3>2
  <2>7. m + k - 1 \in m..n
    BY <1>5, <2>4
  <2>8. PICK j \in 1..c : order[j] = m + k - 1
    BY <1>6, <2>7
  <2>9. CASE j < k
    BY <2>4, <2>5, <2>8, <2>9
  <2>10. CASE j = k
    BY <2>4, <2>8, <2>10
  <2>11. CASE j > k
    <3>1. order[k] < order[j]
      BY <1>6, <2>4, <2>11
    <3> QED BY <2>4, <2>6, <2>8, <3>1
  <2> QED BY <2>4, <2>9, <2>10, <2>11
<1>8. order = [k \in 1..c |-> order[k]]
  BY <1>4, <1>6
<1>9. \A k \in 1..c : order[k] = m + k - 1
  BY <1>7
<1> QED BY <1>1, <1>5, <1>8, <1>9

\* A queue without its head, which it has once.
LEMMA KeepAllButHead ==
  ASSUME NEW T, NEW q \in Seq(T), q # << >>, IsInjective(q)
  PROVE  Keep(q, ToSet(q) \ {Head(q)}) = Tail(q)
<1>1. PICK n \in Nat : n = Len(q) /\ n > 0
  OBVIOUS
<1>2. \A i, j \in 1..n : q[i] = q[j] => i = j
  BY <1>1, InjectiveByPositions
<1>3. Head(q) = q[1] /\ \A i \in 1..n : q[i] \in ToSet(q)
  BY <1>1, MembersHavePositions
<1>4. Positions(q, ToSet(q) \ {Head(q)}) = 2..n
  <2>1. \A i \in 1..n : q[i] \in ToSet(q) \ {Head(q)} <=> i # 1
    BY <1>1, <1>2, <1>3
  <2>2. Positions(q, ToSet(q) \ {Head(q)}) = {i \in 1..n : i # 1}
    BY <1>1, <2>1 DEF Positions
  <2>3. {i \in 1..n : i # 1} = 2..n
    BY <1>1
  <2> QED BY <2>2, <2>3
<1>5. InOrder(2..n) = [k \in 1..(n - 2 + 1) |-> 2 + k - 1]
  BY <1>1, InOrderInterval
<1>6. PICK order : order = [k \in 1..(n - 1) |-> k + 1]
  OBVIOUS
<1>7. InOrder(2..n) = order
  <2>1. n - 2 + 1 = n - 1
    OBVIOUS
  <2>2. \A k \in 1..(n - 1) : 2 + k - 1 = k + 1
    OBVIOUS
  <2> QED BY <1>5, <1>6, <2>1, <2>2
<1>8. Len(order) = n - 1 /\ \A k \in 1..(n - 1) : order[k] = k + 1
  BY <1>1, <1>6
<1>9. Keep(q, ToSet(q) \ {Head(q)}) = [k \in 1..Len(order) |-> q[order[k]]]
  BY <1>4, <1>7, KeepPicks DEF Picked
<1>10. Keep(q, ToSet(q) \ {Head(q)}) = [k \in 1..(n - 1) |-> q[k + 1]]
  <2>1. \A k \in 1..(n - 1) : q[order[k]] = q[k + 1]
    BY <1>8
  <2>2. 1..Len(order) = 1..(n - 1)
    BY <1>8
  <2>3. [k \in 1..Len(order) |-> q[order[k]]] = [k \in 1..(n - 1) |-> q[k + 1]]
    BY <2>1, <2>2
  <2> QED BY <1>9, <2>3
<1>11. Tail(q) = [k \in 1..(n - 1) |-> q[k + 1]]
  <2>1. PICK t : t = Tail(q)
    OBVIOUS
  <2>2. t \in Seq(T) /\ Len(t) = n - 1 /\ \A k \in 1..(n - 1) : t[k] = q[k + 1]
    BY <1>1, <2>1, HeadTailProperties
  <2>3. t = [k \in 1..(n - 1) |-> t[k]]
    BY <2>2
  <2> QED BY <2>1, <2>2, <2>3
<1> QED BY <1>10, <1>11

\* The k-th suffix of a queue is a suffix of it.
LEMMA SuffixOfQueue ==
  ASSUME NEW T, NEW q \in Seq(T), NEW k \in 0..Len(q)
  PROVE  LET s == SubSeq(q, k + 1, Len(q))
         IN  s \in Seq(T) /\ Len(s) = Len(q) - k /\ IsSuffix(s, q)
<1>1. PICK n \in Nat : n = Len(q) /\ k \in 0..n /\ n - k \in Nat
  OBVIOUS
<1>2. PICK s : s = SubSeq(q, k + 1, Len(q))
  OBVIOUS
<1>3. k + 1 \in 1..(n + 1) /\ n \in 0..n
  BY <1>1
<1>4. s \in Seq(T)
  BY <1>1, <1>2, <1>3, SubSeqKeeps
<1>5. Len(s) = n - k /\ \A i \in 1..(n - k) : s[i] = q[k + i]
  <2>1. s = [i \in 1..(n - k) |-> q[k + i]]
    <3>1. SubSeq(q, k + 1, n) = [i \in 1..(n - (k + 1) + 1) |-> q[i + (k + 1) - 1]]
      BY <1>1
    <3>2. n - (k + 1) + 1 = n - k /\ \A i \in 1..(n - k) : i + (k + 1) - 1 = k + i
      BY <1>1
    <3> QED BY <1>1, <1>2, <3>1, <3>2
  <2> QED BY <1>1, <2>1
<1>6. PICK a, b : a = Reverse(s) /\ b = Reverse(q)
  OBVIOUS
<1>7. a = [i \in 1..(n - k) |-> s[(n - k) - i + 1]] /\ b = [i \in 1..n |-> q[n - i + 1]]
  BY <1>1, <1>5, <1>6 DEF Reverse
<1>8. \A i \in 1..(n - k) : a[i] = b[i]
  <2>1. TAKE i \in 1..(n - k)
  <2>2. (n - k) - i + 1 \in 1..(n - k) /\ i \in 1..n /\ k + ((n - k) - i + 1) = n - i + 1
    BY <1>1
  <2> QED BY <1>5, <1>7, <2>2
<1>9. Len(a) = n - k /\ Len(b) = n
  BY <1>1, <1>7
<1>10. \A i \in 1..n : q[n - i + 1] \in T
  BY <1>1
<1>11. \A i \in 1..(n - k) : s[(n - k) - i + 1] \in T
  BY <1>4, <1>5, <1>1
<1>12. a \in Seq(T) /\ b \in Seq(T)
  BY <1>1, <1>7, <1>10, <1>11
<1>13. SubSeq(a, 1, n - k) = SubSeq(b, 1, n - k)
  <2>1. SubSeq(a, 1, n - k) = [i \in 1..((n - k) - 1 + 1) |-> a[i + 1 - 1]]
    BY <1>1
  <2>2. SubSeq(b, 1, n - k) = [i \in 1..((n - k) - 1 + 1) |-> b[i + 1 - 1]]
    BY <1>1
  <2>3. (n - k) - 1 + 1 = n - k /\ \A i \in 1..(n - k) : i + 1 - 1 = i
    BY <1>1
  <2> QED BY <1>8, <2>1, <2>2, <2>3
<1>14. IsPrefix(a, b)
  BY <1>1, <1>9, <1>13 DEF IsPrefix
<1> QED BY <1>1, <1>2, <1>4, <1>5, <1>6, <1>14 DEF IsSuffix

\* A sequence is one over the set of its members.
LEMMA SeqOfMembers ==
  ASSUME NEW T, NEW q \in Seq(T), NEW S, ToSet(q) \subseteq S
  PROVE  q \in Seq(S)
<1>1. PICK n \in Nat : n = Len(q)
  OBVIOUS
<1>2. \A i \in 1..n : q[i] \in S
  BY <1>1, MembersHavePositions
<1>3. q = [i \in 1..n |-> q[i]]
  BY <1>1
<1>4. [i \in 1..n |-> q[i]] \in Seq(S)
  BY <1>2
<1> QED BY <1>3, <1>4

\* One lease less.
LEMMA TailOfSuffix ==
  ASSUME NEW T, NEW q \in Seq(T), NEW k \in 1..Len(q)
  PROVE  /\ SubSeq(q, k, Len(q)) # << >>
         /\ Tail(SubSeq(q, k, Len(q))) = SubSeq(q, k + 1, Len(q))
<1>1. PICK n \in Nat : n = Len(q) /\ k \in 1..n
  OBVIOUS
<1>2. PICK s, t : s = SubSeq(q, k, n) /\ t = SubSeq(q, k + 1, n)
  OBVIOUS
<1>3. k - 1 \in 0..n /\ k \in 0..n /\ (k - 1) + 1 = k
  BY <1>1
<1>4. s \in Seq(T) /\ Len(s) = n - (k - 1) /\ t \in Seq(T) /\ Len(t) = n - k
  BY <1>1, <1>2, <1>3, SuffixOfQueue
<1>5. s # << >>
  BY <1>1, <1>4
<1>6. \A i \in 1..(n - (k - 1)) : s[i] = q[k + i - 1]
  BY <1>1, <1>2
<1>7. \A i \in 1..(n - k) : t[i] = q[(k + 1) + i - 1]
  BY <1>1, <1>2
<1>8. PICK u : u = Tail(s)
  OBVIOUS
<1>9. u \in Seq(T) /\ Len(u) = n - k /\ \A i \in 1..(n - k) : u[i] = s[i + 1]
  <2>1. u \in Seq(T) /\ Len(u) = Len(s) - 1 /\ \A i \in 1..Len(u) : u[i] = s[i + 1]
    BY <1>4, <1>5, <1>8, HeadTailProperties
  <2>2. Len(s) - 1 = n - k
    BY <1>1, <1>4
  <2> QED BY <2>1, <2>2
<1>10. \A i \in 1..(n - k) : u[i] = t[i]
  <2>1. TAKE i \in 1..(n - k)
  <2>2. i + 1 \in 1..(n - (k - 1)) /\ k + (i + 1) - 1 = (k + 1) + i - 1
    BY <1>1
  <2> QED BY <1>6, <1>7, <1>9, <2>2
<1>11. u = [i \in 1..(n - k) |-> u[i]] /\ t = [i \in 1..(n - k) |-> t[i]]
  BY <1>4, <1>9
<1>12. u = t
  BY <1>10, <1>11
<1> QED BY <1>1, <1>2, <1>5, <1>8, <1>12

\* Reversal turns the order around.
LEMMA AheadInReverse ==
  ASSUME NEW T, NEW q \in Seq(T), NEW a, NEW b, Ahead(Reverse(q), a, b)
  PROVE  Ahead(q, b, a)
<1>1. PICK n \in Nat : n = Len(q)
  OBVIOUS
<1>2. PICK r : r = Reverse(q)
  OBVIOUS
<1>3. r = [i \in 1..n |-> q[(n - i) + 1]]
  BY <1>1, <1>2 DEF Reverse
<1>4. Len(r) = n /\ \A i \in 1..n : r[i] = q[(n - i) + 1]
  BY <1>3
<1>5. PICK i \in 1..n, j \in 1..n : i < j /\ r[i] = a /\ r[j] = b
  BY <1>2, <1>4 DEF Ahead
<1>6. PICK x \in 1..n, y \in 1..n : x = (n - j) + 1 /\ y = (n - i) + 1 /\ x < y
  BY <1>5
<1>7. q[x] = b /\ q[y] = a
  BY <1>4, <1>5, <1>6
<1> QED BY <1>1, <1>6, <1>7 DEF Ahead

\* The rows of a set in any order have each member once.
LEMMA SetToSeqsProperties ==
  ASSUME NEW S, IsFiniteSet(S), NEW q \in SetToSeqs(S)
  PROVE  q \in Seq(S) /\ IsInjective(q) /\ ToSet(q) = S
<1>1. PICK n \in Nat : n = Cardinality(S)
  BY FS_CardinalityType
<1>2. q \in [1..n -> S] /\ \A i, j \in 1..n : i # j => q[i] # q[j]
  BY <1>1 DEF SetToSeqs
<1>3. q \in Seq(S) /\ Len(q) = n
  BY <1>2
<1>4. IsInjective(q)
  BY <1>2, <1>3, InjectiveByPositions
<1>5. q \in Injection(1..n, S)
  BY <1>2, <1>4 DEF Injection
<1>6. IsFiniteSet(1..n) /\ Cardinality(1..n) = n
  BY FS_Interval
<1>7. q \in Surjection(1..n, S)
  BY <1>1, <1>5, <1>6, FS_Injection
<1>8. \A x \in S : \E i \in 1..n : q[i] = x
  BY <1>7 DEF Surjection
<1>9. ToSet(q) \subseteq S /\ \A x : x \in ToSet(q) <=> \E i \in 1..n : q[i] = x
  BY <1>3, MembersHavePositions
<1> QED BY <1>3, <1>4, <1>8, <1>9

=============================================================================
