------------------------------- MODULE Queues -------------------------------
(***************************************************************************)
(* What the schedulers do to their queues with Rust's iterators: filter a  *)
(* queue and sort it.  Both are defined without recursion, from the set of *)
(* positions or ids that is put in order.                                  *)
(***************************************************************************)
EXTENDS Integers, Sequences, FiniteSets

Increasing(q) == \A i, j \in DOMAIN q : i < j => q[i] < q[j]

\* The numbers of a finite set, the least one first.
InOrder(S) == CHOOSE q \in [1..Cardinality(S) -> S] : Increasing(q)

Positions(q, S) == {i \in 1..Len(q) : q[i] \in S}

Picked(q, order) == [k \in 1..Len(order) |-> q[order[k]]]

\* The members of the queue q that are in S, in the order they have in q.
\* (The bound variables let TLC evaluate q, S and the order once.)
Keep(q, S) ==
    LET Kept(p, T) == {Picked(p, order) : order \in {InOrder(Positions(p, T))}}
    IN  CHOOSE r \in UNION {Kept(p, T) : p \in {q}, T \in {S}} : TRUE

\* Some a in the queue comes before some b.
Ahead(q, a, b) == \E i, j \in 1..Len(q) : i < j /\ q[i] = a /\ q[j] = b

=============================================================================
