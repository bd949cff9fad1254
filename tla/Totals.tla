-------------------------------- MODULE Totals ------------------------------
(* The sum of the values of a function over its whole domain. *)
EXTENDS Integers, FiniteSetsExt

Total(f) == MapThenSumSet(LAMBDA x : f[x], DOMAIN f)
=============================================================================
