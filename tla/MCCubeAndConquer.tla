--------------------------- MODULE MCCubeAndConquer ---------------------------
(* Bounds for the instances of CubeAndConquer. *)
EXTENDS CubeAndConquer

\* Bound: solve() gets to its signal before the master has divided a sub-problem.
SignalIsPrompt == mpc = "signal" => created <= 1

\* Bound: with three sub-problems or more, only what happens until the search is
\* about to end.
EndsWithTwo ==
    created > 2 => /\ ~strategyEnding
                   /\ res[0] = "UNKNOWN"
                   /\ \A w \in Slave : wpc[w] # "end"

\* Bound: then slave 0 has got to its solver, and no worker is on its way to it that was
\* not launched, or was interrupted again.
SolversAreReached ==
    created > 2 => /\ wpc[0] = "solving"
                   /\ \A w \in Slave : wpc[w] = "ready" => ~interrupt[w]

=============================================================================
