--------------------------- MODULE MCDefaultEngine ---------------------------
(***************************************************************************)
(* A small default engine for TLC: room for two sequences, a request with  *)
(* a cached prefix, one for more choices than there is room for, and the   *)
(* controls that overtake them.                                            *)
(***************************************************************************)
EXTENDS DefaultEngine

CONSTANTS one, wide, stop, quit

ClassOf == [r \in Request |->
    IF r = stop THEN "bypass" ELSE IF r = quit THEN "shutdown" ELSE "workload"]
ChoicesOf == [r \in Request |-> IF r = wide THEN 3 ELSE 1]
PromptLenOf == [r \in Request |-> IF r = one THEN 5 ELSE 3]
HitOf == [r \in Request |-> IF r = one THEN {1} ELSE {}]

=============================================================================
