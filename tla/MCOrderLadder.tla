--------------------------- MODULE MCOrderLadder ---------------------------
(* The order ladder on a small instance. *)
EXTENDS OrderLadder, TLC

Symmetry == Permutations(Ids)
=============================================================================
