-------------------------------- MODULE Sums --------------------------------
(***************************************************************************)
(* The sum of the values that a function has on a finite set, for the      *)
(* loops that add up one array.                                            *)
(***************************************************************************)
EXTENDS Integers, FiniteSetsExt

SumOver(f, S) == MapThenSumSet(LAMBDA x : f[x], S)
=============================================================================
