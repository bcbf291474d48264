-------------------------------- MODULE Sums --------------------------------
(***************************************************************************)
(* The sum of a sequence of numbers, by a recursive function.  The laws of *)
(* sums are in NumberLaws.                                                 *)
(***************************************************************************)
EXTENDS Integers, Sequences

(* The sum of the first n elements, for every n. *)
Sums(s) ==
  LET sum[n \in 0 .. Len(s)] == IF n = 0 THEN 0 ELSE sum[n - 1] + s[n]
  IN  sum

SeqSum(s) == Sums(s)[Len(s)]
=============================================================================
