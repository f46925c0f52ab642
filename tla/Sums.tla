-------------------------------- MODULE Sums --------------------------------
(***************************************************************************)
(* The sum of the first n values of a function on 0 .. n - 1: what is      *)
(* added up over all workers or over the streams of one.                   *)
(***************************************************************************)
EXTENDS Naturals

SumBelow(f, n) == LET s[i \in 0 .. n] == IF i = 0 THEN 0 ELSE s[i - 1] + f[i - 1] IN s[n]
=============================================================================
