\* Two cpus, two sub-problems.
SPECIFICATION Spec
CONSTANTS
    MaxCpus = 2
    MaxNodes = 3
    MaxWorkers = 2
    Point = {p1}
    ClearsInterrupt = FALSE
INVARIANT JobsAreLeft
CHECK_DEADLOCK FALSE
