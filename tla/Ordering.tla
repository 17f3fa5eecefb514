------------------------------- MODULE Ordering -------------------------------
(* A set of numbers in order: the keys of a std::map as an iterator finds them, *)
(* the rows of a request that are queued.                                       *)
EXTENDS Integers, FiniteSets

Ascending(q) == \A i, j \in DOMAIN q : i < j => q[i] < q[j]

InOrder(A) == CHOOSE q \in [1..Cardinality(A) -> A] : Ascending(q)
==============================================================================
