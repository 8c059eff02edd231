-------------------------- MODULE MCMatchingEngine --------------------------
(* The matching engine on a small instance: one request in flight. *)
EXTENDS MatchingEngine

CONSTANTS c1, c2

\* The first and the last order are one client's, the second is another's.
Alternating == <<{c1}, {c2}, {c1}>>
=============================================================================
