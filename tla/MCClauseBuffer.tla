--------------------------- MODULE MCClauseBuffer ---------------------------
(***************************************************************************)
(* Instances of ClauseBuffer for TLC.                                      *)
(***************************************************************************)
EXTENDS ClauseBuffer, TLC

\* Where the run with several producers stops: once a producer is misled the
\* pointers may lead anywhere, and no property speaks of what follows.
NobodyMisled == ~misled

\* Nodes and clauses are interchangeable.
Symmetry == Permutations(Node) \cup Permutations(Clause)

=============================================================================
