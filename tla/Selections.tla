----------------------------- MODULE Selections -----------------------------
(***************************************************************************)
(* What Python's [item for item in items if ...] does, for sequences: the  *)
(* items at some places, in their order.  SelectSeq with its test as a     *)
(* parameter has no definition that the provers know; here the test is     *)
(* the set of places.                                                      *)
(***************************************************************************)
EXTENDS Naturals, FiniteSets

\* How many numbers of K are i at most.
Rank(K, i) == Cardinality({ j \in K : j <= i })

\* The k-th number of K.
Nth(K, k) == CHOOSE i \in K : Rank(K, i) = k

\* The items of s at the places K.
Select(s, K) == [k \in 1..Cardinality(K) |-> s[Nth(K, k)]]

=============================================================================
