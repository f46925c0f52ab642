------------------------------- MODULE Slices -------------------------------
(***************************************************************************)
(* How bus_generator divides the streams of a run over its TX workers.     *)
(***************************************************************************)
EXTENDS Naturals

Least(a, b) == IF a <= b THEN a ELSE b

\* Faulty variant: the streams left over by the division are forgotten.
IedSliceFloor(num, workers, i) ==
  LET per == num \div workers
  IN  [lo |-> i * per, hi |-> i * per + per]

\* The half-open slice [lo, hi) of worker i; the remainder goes to the first
\* workers.
IedSlice(num, workers, i) ==
  LET per == num \div workers
      rem == num % workers
      lo  == i * per + Least(i, rem)
  IN  [lo |-> lo, hi |-> lo + per + (IF i < rem THEN 1 ELSE 0)]
=============================================================================
