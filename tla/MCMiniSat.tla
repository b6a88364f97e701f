------------------------------ MODULE MCMiniSat ------------------------------
(* Problems for MiniSat: formulas, what other solvers may send, and cubes. *)
EXTENDS MiniSat

\* Units while loading, an import that is false already, contradicting cubes.
Small ==
    [formula |-> << <<1, 2>>, <<1, -2>>, <<-1, 3>>, <<-3, 4, 4>>, <<2, -2>>, <<-1, -3, 2>> >>,
     imports |-> { <<1>>, <<-2, 3>>, <<-1, 2>> },
     cubes |-> { <<>>, <<-4, 2>>, <<1, -1>> }]

\* Without models: learnt units, backjumps over a level, a chain of reasons.
Unsat ==
    [formula |-> << <<1, 2, 3>>, <<1, 2, -3>>, <<1, -2, 4>>, <<1, -2, -4>>,
                    <<-1, 3, 4>>, <<-1, 3, -4>>, <<-1, -3>> >>,
     imports |-> { <<2, 1>> },
     cubes |-> { <<-3>>, <<4>> }]

\* Learnt clauses of three literals, which may be dropped.
Long ==
    [formula |-> << <<-1, -2, -3, 4>>, <<-1, -2, -3, -4>>, <<1, 4>> >>,
     imports |-> { <<4, -2, -3>> },
     cubes |-> { <<1>> }]

\* Learnt clauses with implied literals, which are redundant or not.
Chain ==
    [formula |-> << <<-1, 2>>, <<-1, -3, 4>>, <<-2, -3, -4>>, <<-2, 3, 4>>, <<-2, 3, -4>> >>,
     imports |-> {},
     cubes |-> { <<1>>, <<2>> }]

\* Refuted while it is loaded: by propagation, and by a clause that is false.
LoadConflict ==
    [formula |-> << <<1, 2, 3>>, <<1, -2>>, <<-3>>, <<-1>>, <<3, 4>> >>,
     imports |-> {}, cubes |-> { <<4>> }]
LoadFalse ==
    [formula |-> << <<3>>, <<-3, 1>>, <<-1, 2>>, <<-2, -3>> >>,
     imports |-> {}, cubes |-> { <<4>> }]

MCProblems == {Small, Unsat, Long, Chain, LoadConflict, LoadFalse}

=============================================================================
