-------------------------------- MODULE Doubling --------------------------------
(***************************************************************************)
(* What a backoff that doubles comes to in closed form: a reference the    *)
(* three network components, which double step by step, are held against.  *)
(***************************************************************************)
EXTENDS Integers

PowerOfTwo[n \in Nat] == IF n = 0 THEN 1 ELSE 2 * PowerOfTwo[n - 1]

\* The k-th wait, k >= 1: base, doubled k - 1 times, as far as the maximum goes.
\* A base beyond the maximum is never doubled.
DoubledWait(base, max, k) ==
  IF max <= base THEN base
  ELSE IF base * PowerOfTwo[k - 1] > max THEN max ELSE base * PowerOfTwo[k - 1]
=================================================================================
