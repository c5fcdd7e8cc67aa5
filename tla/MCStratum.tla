----------------------------- MODULE MCStratum -----------------------------
(* One client sends requests, the other only mines; one of the blocks is
   mined with little difficulty. *)
EXTENDS Stratum

CONSTANTS c1, c2

MCMaxDiff == [b \in Blocks |-> IF b = 1 THEN 100 ELSE 8]

MCMaxRequests == [c \in Clients |-> IF c = c1 THEN 2 ELSE 0]
=============================================================================
