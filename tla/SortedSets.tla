----------------------------- MODULE SortedSets -----------------------------
(***************************************************************************)
(* The elements of a finite set of integers in increasing order.           *)
(***************************************************************************)
EXTENDS Integers, FiniteSets

\* The number of elements of S below d.
Below(S, d) == Cardinality({e \in S : e < d})

\* Element number n of S, from 1.
Nth(S, n) == CHOOSE k \in S : Below(S, k) = n - 1

\* The values of f at the elements of S, in the order of the elements.
Listed(f, S) == [n \in 1..Cardinality(S) |-> f[Nth(S, n)]]
=============================================================================
