\* Encode, solve and decode small orders.
SPECIFICATION Spec
CONSTANTS
    Problems <- MCProblems
    Candidates <- MCCandidates
INVARIANTS
    DecodedIsRight
    NothingIsLost
    VariablesAreDefined
    SkippedClausesHold
    CounterIsExact
CHECK_DEADLOCK FALSE
