------------------------------- MODULE Totals -------------------------------
(***************************************************************************)
(* The sum of a sequence of numbers: the bytes of a file read in chunks,   *)
(* the tokens of a text.                                                   *)
(***************************************************************************)
EXTENDS Integers, Sequences

SumOf(w) == LET sum[n \in 0..Len(w)] == IF n = 0 THEN 0 ELSE sum[n - 1] + w[n]
            IN sum[Len(w)]
=============================================================================
