---------------------------- MODULE MCElimination ----------------------------
(* Formulas for Elimination: every three or four clauses of a pool, and one  *)
(* without models that propagation does not refute.                          *)
EXTENDS Elimination

Pool == << {1, 2}, {-1, 3}, {-2, -3}, {1, -2, 3}, {-1, 2, -3}, {-1, -2, -3}, {-3} >>
Refutable == << {1, 2}, {1, -2}, {-1, 3}, {-1, -3} >>
MCFormulas ==
    {Refutable} \cup
    {[n \in 1..Cardinality(S) |-> Pool[Ascending(S)[n]]] :
        S \in {T \in SUBSET (1..Len(Pool)) : Cardinality(T) \in 3..4}}
MCCubes == { {}, {1}, {-3} }

=============================================================================
