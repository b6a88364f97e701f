--------------------------- MODULE MCLocalSearch ---------------------------
(* The local search on the formulas that the generator writes for small     *)
(* squares.                                                                 *)
EXTENDS LocalSearch, LatinEncoding

P(encoding, n, k, q) ==
    [encoding |-> encoding, n |-> n, k |-> k, q |-> q, bs |-> "NONE", cycle |-> -1,
     order |-> [i \in 1..(n * n) |-> i]]
OneSquare == P("LATIN_ONEHOT", 2, 1, 4)
TwoSquares == P("LATIN_ONEHOT", 2, 2, 4)
Reduced3 == P("REDUCED_LATIN_ONEHOT", 3, 2, 9)
One4 == P("REDUCED_LATIN_ONEHOT", 4, 1, 16)
Cycle4 == [P("REDUCED_LATIN_ONEHOT", 4, 1, 16) EXCEPT !.bs = "FIRST", !.cycle = 0]
Quasi2 == P("LATIN_ONEHOT", 2, 2, 3)

Run(problem, weighted, bagSizeEnd, threads) ==
    [problem |-> problem, weighted |-> weighted, bagSizeEnd |-> bagSizeEnd, threads |-> threads,
     free |-> 9, sorts |-> FALSE, firsts |-> {<<>>}]

MCInputs == {
    [Run(OneSquare, FALSE, 2, 2) EXCEPT !.firsts =
        {<<>>, <<1, 0, 1, 0, 1, 0, 0, 1>>, <<1, 0, 1, 0, 1, 0, 1, 0>>}],
    Run(TwoSquares, TRUE, 1, 1),
    Run(Reduced3, FALSE, 1, 1),
    [Run(One4, FALSE, 2, 1) EXCEPT !.free = 2],
    Run(Cycle4, FALSE, 2, 2),
    Run(Quasi2, FALSE, 1, 1),
    [Run(Quasi2, FALSE, 1, 1) EXCEPT !.sorts = TRUE] }

\* What the program reads of the formula that the generator writes.
MCRead(run) ==
    LET file(e, cells) ==
            [clauses |-> List(Len(e.clauses), LAMBDA i : e.clauses[i].lits),
             toCompute |-> {i \in DOMAIN e.clauses : e.clauses[i].isImportant},
             weights |-> IF run.weighted THEN e.weights ELSE List(Len(e.weights), LAMBDA i : 1),
             net |-> e.net, literalCount |-> e.next, metaVars |-> cells,
             n |-> run.problem.n, k |-> run.problem.k, firsts |-> run.firsts,
             threads |-> run.threads, bagSizeStart |-> 1, bagSizeEnd |-> run.bagSizeEnd,
             free |-> IF run.free < Len(cells) THEN run.free ELSE Len(cells), sorts |-> run.sorts]
    IN  Only({file(e, cells) : e \in {cnf(run.problem)}, cells \in {metaVars(run.problem)}})

=============================================================================
