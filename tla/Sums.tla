-------------------------------- MODULE Sums --------------------------------
(***************************************************************************)
(* The sum of the values of a function over a finite set.  The properties  *)
(* of Bench add up counters and reports with it.                           *)
(***************************************************************************)
EXTENDS FiniteSetsExt

SumOver(f, S) == MapThenSumSet(LAMBDA x : f[x], S)
=============================================================================
