\* Two threads, rounds of up to three moves, two bag sizes.
SPECIFICATION FairSpec
CONSTANTS
    N = 2
    MaxMoves = 3
    MaxScore = 2
    MaxBag = 2
INVARIANTS
    PoolIsSound
    AppliedMoveImproves
    NoMoveMissed

    
CHECK_DEADLOCK FALSE
