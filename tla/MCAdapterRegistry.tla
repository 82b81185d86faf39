------------------------- MODULE MCAdapterRegistry -------------------------
(***************************************************************************)
(* A small adapter runtime for TLC: two adapters fit unless they are the   *)
(* two large ones.                                                         *)
(***************************************************************************)
EXTENDS AdapterRegistry, TLC

CONSTANTS g1, g2, g3, r1, r2, o1, o2, o3, t1, t2

BytesOf == [g \in Generation |-> IF g = g1 THEN 1 ELSE 2]

Interchangeable ==
    Permutations({r1, r2}) \cup Permutations({o1, o2, o3}) \cup Permutations({t1, t2})
        \cup Permutations({g2, g3})

=============================================================================
