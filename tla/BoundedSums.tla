----------------------------- MODULE BoundedSums -----------------------------
(***************************************************************************)
(* Sums of bounded natural numbers over a finite set, as a cardinality: the *)
(* sum of f over S is the number of points on or under the graph of f.  In  *)
(* this form sums obey the theorems about finite sets, without induction.   *)
(***************************************************************************)
EXTENDS Integers, FiniteSets

Under(f, S, bound) == {u \in S \X (1 .. bound) : u[2] <= f[u[1]]}

Total(f, S, bound) == Cardinality(Under(f, S, bound))

=============================================================================
