\* Two or three solvers, one or two sharers, every sharing strategy.
SPECIFICATION FairSpec
CONSTANTS
    MaxClauses = 2
    Configs <- Lines
    MaxId = 3
    MaxSize = 2
    DatabaseLimit = 3
    NoClause = NoClause
INVARIANTS
    ReferencesAreCounted
    ClausesMayBeShared
    SelectionIsGreedy
PROPERTIES
    GivenUpSolversAreDeleted
CHECK_DEADLOCK FALSE
