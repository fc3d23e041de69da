------------------------------- MODULE Totals -------------------------------
(***************************************************************************)
(* The total of a function into the naturals over its finite domain.       *)
(*                                                                         *)
(* A total is written as the number of units the function hands out, the   *)
(* pairs <<x, i>> with i \in 1 .. v[x].  This is the same number as a fold  *)
(* with +, and unlike a fold it can be reasoned about for every domain     *)
(* with the library's facts on cardinalities (see TotalsProofs).           *)
(***************************************************************************)
EXTENDS Integers, FiniteSets

Units(v) == UNION { {x} \X (1 .. v[x]) : x \in DOMAIN v }

Total(v) == Cardinality(Units(v))

\* a \div b rounded up; a may be negative, b is positive.
CeilDiv(a, b) == (a + b - 1) \div b
=============================================================================
