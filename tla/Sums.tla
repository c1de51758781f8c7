-------------------------------- MODULE Sums --------------------------------
(***************************************************************************)
(* Sums over the columns of an append-only table.  A column is a function *)
(* from 1..n to integers.                                                   *)
(***************************************************************************)
EXTENDS Integers

Smaller(a, b) == IF a <= b THEN a ELSE b
Larger(a, b) == IF a >= b THEN a ELSE b
Magnitude(n) == IF n < 0 THEN -n ELSE n

\* The sum of the first n entries of column d.
SumUpTo(d, n) ==
    LET upTo[i \in 0..n] == IF i = 0 THEN 0 ELSE upTo[i - 1] + d[i]
    IN  upTo[n]
=============================================================================
