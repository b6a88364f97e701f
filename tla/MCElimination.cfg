SPECIFICATION FairSpec
CONSTANTS
    NVars = 3
    Formulas <- MCFormulas
    Cubes <- MCCubes
    grow = 0
    clause_lim = 2
    MaxSolves = 2
    MaxLearnts = 1
INVARIANTS
    AssertionsHold
    ReducedIsProjection
    AnswerIsRight
PROPERTIES
    SolveReturns
CHECK_DEADLOCK FALSE
