------------------------------- MODULE Orders -------------------------------
(***************************************************************************)
(* Lists made of a set.  SetToSortSeq and SelectSeq would do, but tlapm    *)
(* knows nothing of operators that take an operator.                       *)
(***************************************************************************)
EXTENDS Integers, FiniteSets

\* The numbers of a set of positions, ascending.
Ascending(N) == [k \in 1..Cardinality(N) |-> CHOOSE i \in N : Cardinality(N \intersect (1..i)) = k]

\* The members of a set by their keys, the smallest first; no two have the same key.
InOrder(S, key) ==
  [k \in 1..Cardinality(S) |-> CHOOSE x \in S : Cardinality({y \in S : key[y] < key[x]}) = k - 1]
=============================================================================
