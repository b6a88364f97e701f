\* Two cpus, up to three sub-problems, reordered from the third on.
SPECIFICATION Spec
CONSTANTS
    MaxCpus = 2
    MaxNodes = 4
    MaxWorkers = 3
    Point = {p1}
    ClearsInterrupt = FALSE
CONSTRAINTS
    SignalIsPrompt
    EndsWithTwo
    SolversAreReached
INVARIANTS
    ModelsCovered
    JobsAreCounted
CHECK_DEADLOCK FALSE
