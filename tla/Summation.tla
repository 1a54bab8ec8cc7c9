----------------------------- MODULE Summation -----------------------------
(***************************************************************************)
(* Sums of finite sequences of integers, as a recursive function rather    *)
(* than a fold, so that SummationProofs can reason about them by induction *)
(* over sets of naturals.                                                  *)
(***************************************************************************)
EXTENDS Integers, Sequences

(* RunningTotals(f)[i] is the sum of the first i elements of f. *)
RunningTotals(f) ==
  LET total[i \in 0..Len(f)] == IF i = 0 THEN 0 ELSE total[i - 1] + f[i]
  IN  total

(* The sum of the elements of f. *)
Total(f) == RunningTotals(f)[Len(f)]
=============================================================================
