----------------------------- MODULE MCExchange -----------------------------
(* The exchange on small instances. *)
EXTENDS Exchange, TLC

ClientSymmetry == Permutations(Clients)
Symmetry == Permutations(Clients) \cup Permutations(Sockets)
=============================================================================
