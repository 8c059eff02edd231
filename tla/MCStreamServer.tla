-------------------------- MODULE MCStreamServer --------------------------
(* Two connections of one client: a second login ends both. *)
EXTENDS StreamServer

TwoOfOne == <<1, 1>>
=============================================================================
