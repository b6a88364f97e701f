SPECIFICATION FairSpec
CONSTANTS
    NVars = 4
    Problems <- MCProblems
    MaxCRef = 12
    MaxSolves = 2
    MaxImports = 1
    MaxRestarts = 1
INVARIANTS
    SearchStateIsSound
    LearntIsImplied
    AnswerIsRight
PROPERTIES
    SearchReturns
CHECK_DEADLOCK FALSE
