\* Two producers and one consumer: an import buffer under -shr-strat 2 and 4.
SPECIFICATION Spec
CONSTANTS
    Producer = {p1, p2}
    Node = {n1, n2, n3, n4}
    Clause = {c1}
    NULL = NULL
SYMMETRY Symmetry
CONSTRAINT NobodyMisled
INVARIANTS
    ConsumerIsSafe
