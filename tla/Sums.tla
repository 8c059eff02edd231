-------------------------------- MODULE Sums --------------------------------
(***************************************************************************)
(* Sums over finite sets, for the properties that say that something adds  *)
(* up.  The summand is a function, not an operator, so that a fact about a *)
(* sum can be stated once and cited.                                       *)
(***************************************************************************)
FSets == INSTANCE FiniteSetsExt

\* f[x], added up for all x in S.
Total(f, S) == FSets!MapThenSumSet(LAMBDA x : f[x], S)
=============================================================================
