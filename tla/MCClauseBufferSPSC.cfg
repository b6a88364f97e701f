\* One producer and one consumer: an export buffer, or an import buffer under
\* -shr-strat 1 and 3.  Three addresses: up to two clauses in the buffer, and
\* an address that is used again.
SPECIFICATION OneSideSpec
CONSTANTS
    Producer = {p1}
    Node = {n1, n2, n3}
    Clause = {c1, c2}
    NULL = NULL
INVARIANTS
    MemoryIsSound
    AccountsBalance
PROPERTIES
    ImplementsQueue
    CallsReturn
