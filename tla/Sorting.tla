------------------------------- MODULE Sorting -------------------------------
(* The elements of a finite set as a sequence, in the order of their keys.   *)
EXTENDS Integers, FiniteSets

\* The elements of S from the least key to the greatest.
Sorted(S, key) == [n \in 1..Cardinality(S) |->
    CHOOSE x \in S : Cardinality({y \in S : key[y] < key[x]}) = n - 1]

=============================================================================
