-------------------------- MODULE MCLatinSquares ---------------------------
(* Small formulas of every encoding.                                        *)
EXTENDS LatinSquares

Id(n) == [i \in 1..(n * n) |-> i]
P(encoding, n, k, q) ==
    [encoding |-> encoding, n |-> n, k |-> k, q |-> q, bs |-> "NONE", cycle |-> -1, order |-> Id(n)]
MCProblems == {
    P("LATIN_ONEHOT", 2, 1, 4),
    P("LATIN_ONEHOT", 3, 1, 9),
    [P("LATIN_ONEHOT", 2, 2, 2) EXCEPT !.order = <<3, 1, 4, 2>>],
    P("LATIN_ONEHOT", 2, 2, 3),
    P("REDUCED_LATIN_ONEHOT", 3, 2, 9),
    P("REDUCED_LATIN_ONEHOT", 3, 2, 8),
    [P("REDUCED_LATIN_ONEHOT", 4, 1, 16) EXCEPT !.bs = "FIRST"],
    [P("REDUCED_LATIN_ONEHOT", 4, 1, 16) EXCEPT !.bs = "FIRST", !.cycle = 1],
    [P("REDUCED_LATIN_ONEHOT", 3, 2, 9) EXCEPT !.bs = "SECOND"],
    P("LATIN_LOG", 2, 2, 2),
    [P("REDUCED_LATIN_LOG", 3, 1, 9) EXCEPT !.bs = "FIRST"],
    P("ARRAY", 2, 1, 4),
    P("REDUCED_ARRAY", 2, 1, 4)
    }

\* The solver may say anything of few variables, and one value in each cell of many.
MCCandidates(e) ==
    IF IsLog(problem) \/ coreSize(e.core) <= 8 THEN SUBSET (1..coreSize(e.core))
    ELSE OneValueEach(e.cells)

=============================================================================
