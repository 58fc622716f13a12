------------------------------ MODULE Ordering ------------------------------
(***************************************************************************)
(* Sorting, as what it gives: what order the elements are in and which of  *)
(* them is the k-th (slice::sort_by and slice::sort of the standard        *)
(* library).                                                               *)
(***************************************************************************)
EXTENDS Naturals, Sequences, FiniteSets

\* The elements of a finite set in the order of a relation, a set of pairs, that
\* is strict and total on it: each stands after as many as come before it.
InOrder(S, before) ==
  [n \in 1 .. Cardinality(S) |->
     CHOOSE x \in S : Cardinality({y \in S : <<y, x>> \in before}) = n - 1]

\* The k-th of a sequence of numbers in ascending order.
Smallest(values, k) ==
  CHOOSE v \in {values[i] : i \in DOMAIN values} :
    /\ Cardinality({i \in DOMAIN values : values[i] < v}) < k
    /\ k <= Cardinality({i \in DOMAIN values : values[i] <= v})
=============================================================================
