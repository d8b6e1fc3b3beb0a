---- MODULE Ordering ----
(* How Python puts pairs in order: sorted() and list.sort() of a list of pairs, or of a list by  *)
(* a key, which keeps the places of those with equal keys.                                       *)
EXTENDS Naturals, FiniteSets

NotAfter(x, y) == x[1] < y[1] \/ (x[1] = y[1] /\ x[2] <= y[2])

(* The pairs of a finite set, the least one first. SetToSortSeq takes the order as an operator,  *)
(* which no theorem can be about; here a pair stands at the place that as many are not after it. *)
Sorted(S) == [k \in 1..Cardinality(S) |-> CHOOSE x \in S : Cardinality({y \in S : NotAfter(y, x)}) = k]
====
