---------------------------- MODULE ClauseQueue ----------------------------
(***************************************************************************)
(* What a ClauseBuffer promises to the two sides of a clause exchange: a   *)
(* FIFO queue to which several producers add clauses and from which one    *)
(* consumer takes them.  An addClause takes effect at one instant between  *)
(* its call and its return; a getClause either takes the oldest clause or, *)
(* at an instant at which the queue is empty, answers that there is none.  *)
(***************************************************************************)
EXTENDS Sequences

CONSTANTS Producer,   \* the threads that call addClause
          Clause,     \* the pointers to ClauseExchange that are exchanged
          NULL        \* "nothing": no clause being added, no answer yet

VARIABLES queue,    \* the clauses waiting, oldest first
          adding,   \* adding[p]: the clause p is adding and that is not yet in the queue
          answer    \* what the getClause under way has found: NULL while it has not

vars == <<queue, adding, answer>>

Empty == [found |-> FALSE]
Found(c) == [found |-> TRUE, clause |-> c]

Init ==
    /\ queue = <<>>
    /\ adding = [p \in Producer |-> NULL]
    /\ answer = NULL

Add(p) ==
    /\ adding[p] = NULL
    /\ \E c \in Clause : adding' = [adding EXCEPT ![p] = c]
    /\ UNCHANGED <<queue, answer>>

Enqueue(p) ==
    /\ adding[p] # NULL
    /\ queue' = Append(queue, adding[p])
    /\ adding' = [adding EXCEPT ![p] = NULL]
    /\ UNCHANGED answer

Dequeue ==
    /\ answer = NULL
    /\ queue # <<>>
    /\ answer' = Found(Head(queue))
    /\ queue' = Tail(queue)
    /\ UNCHANGED adding

Refuse ==
    /\ answer = NULL
    /\ queue = <<>>
    /\ answer' = Empty
    /\ UNCHANGED <<queue, adding>>

Return ==
    /\ answer # NULL
    /\ answer' = NULL
    /\ UNCHANGED <<queue, adding>>

Next ==
    \/ \E p \in Producer : Add(p) \/ Enqueue(p)
    \/ Dequeue
    \/ Refuse
    \/ Return

Spec == Init /\ [][Next]_vars

=============================================================================
