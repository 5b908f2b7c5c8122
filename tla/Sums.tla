-------------------------------- MODULE Sums --------------------------------
(***************************************************************************)
(* The sum of a function over a finite set, for tables that are added up.  *)
(* Sums are taken of functions, not of operators, so that SumProofs can    *)
(* speak of all of them.                                                   *)
(***************************************************************************)
EXTENDS FiniteSetsExt

SumOver(f, S) == MapThenSumSet(LAMBDA x : f[x], S)
=============================================================================
