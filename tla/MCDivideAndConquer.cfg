\* Two slaves in copy mode 2, with or without a timeout; fair threads.
SPECIFICATION FairSpec
CONSTANTS
    N = 2
    Point = {p1, p2}
    CloneSolvers = TRUE
    ClearsInterrupt = FALSE
    Timeouts = TRUE
    PromptWorkers = TRUE
INVARIANTS
    CubesPartition
    ResultSound
    BookkeepingIsRight

    
CHECK_DEADLOCK FALSE
