\* Two slaves with solvers that respect a request to stop, and a satisfiable formula.
SPECIFICATION FairSpec
CONSTANTS
    N = 2
    Truth = "SAT"
    ClearsInterrupt = FALSE
    PromptWorkers = FALSE
    SpuriousWakeups = TRUE
INVARIANTS
    ThreadsAreSafe
    ExitResult
PROPERTIES
    OnlySleepersBlockMain
\* The program may hang in the destructors: see OnlySleepersBlockMain.
CHECK_DEADLOCK FALSE
