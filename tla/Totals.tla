-------------------------------- MODULE Totals --------------------------------
(***************************************************************************)
(* Sums over finite sets: the units of some lines, the effects of some     *)
(* movements, what shipments leave to come.                                *)
(***************************************************************************)
EXTENDS Integers, FiniteSetsExt

\* The sum of f[x] over the x in S.
Total(f, S) == MapThenSumSet(LAMBDA x : f[x], S)
================================================================================
