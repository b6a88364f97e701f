------------------------------ MODULE MCSharing ------------------------------
(* The command lines and the bounds for the instances of Sharing. *)
EXTENDS Sharing

Line(solvers, wkr, shr, lbdLimit, shrLit, clauses) ==
    [solvers |-> solvers, wkr |-> wkr, shr |-> shr, limit |-> lbdLimit,
     shrLit |-> shrLit, clauses |-> clauses,
     ids |-> Len(solvers) + IF wkr = 1 THEN 0 ELSE 1]

\* Every way main starts sharers, with the strategies that can be combined.
Lines ==
    { Line(<<"glucose", "lingeling">>, 1, 1, 2, 1, 2),
      Line(<<"minisat", "minisat">>, 1, 2, 0, 2, 2),
      Line(<<"maple", "maple">>, 1, 3, 1, 1, 2),
      Line(<<"lingeling">>, 2, 3, 1, 3, 2),
      Line(<<"minisat", "lingeling">>, 3, 4, 1, 2, 1),
      Line(<<"glucose">>, 4, 1, 2, 1, 1),
      Line(<<"maple">>, 4, 3, 1, 2, 1) }

=============================================================================
