SPECIFICATION Spec
CONSTANTS
    Inputs <- MCInputs
    Read <- MCRead
    MaxRounds = 1
INVARIANTS
    StateAgrees
    UnseenClausesHold
    StuckIsLocalOptimum
    CombinationsAreComplete
PROPERTIES
    MovesRaiseTheWeight
CHECK_DEADLOCK FALSE
