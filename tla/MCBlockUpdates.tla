--------------------------- MODULE MCBlockUpdates ---------------------------
(* A chain of four blocks and a branch off its second one, for TLC. *)
EXTENDS BlockUpdates

Tree == {"g", "a1", "a2", "a3", "b2", "b3"}
TreeParent == [b \in Tree |->
  CASE b = "g" -> NoBlock [] b = "a1" -> "g" [] b = "a2" -> "a1"
    [] b = "a3" -> "a2" [] b = "b2" -> "a1" [] b = "b3" -> "b2"]
TreeHeight == [b \in Tree |->
  CASE b = "g" -> 0 [] b = "a1" -> 1 [] b \in {"a2", "b2"} -> 2
    [] b \in {"a3", "b3"} -> 3]

=============================================================================
