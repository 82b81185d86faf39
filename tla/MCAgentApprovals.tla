-------------------------- MODULE MCAgentApprovals --------------------------
(* Three tool calls for TLC, two of them in one session. *)
EXTENDS AgentApprovals

CONSTANTS c1, c2, c3

Sessions == [c \in Call |-> IF c = c3 THEN "s2" ELSE "s1"]
Posts == [c \in Call |-> IF c = c1 THEN 2 ELSE 1]

=============================================================================
