---------------------------- MODULE HillClimbing ----------------------------
(***************************************************************************)
(* The parallel local search: HillClimbingSolver::solve and the            *)
(* thread_pool it runs on (localsearch/solver/HillClimbingSolver.cpp,      *)
(* localsearch/utils/thread_pool.hpp).                                     *)
(*                                                                         *)
(* A round looks for a move that raises the weight of the satisfied        *)
(* clauses.  The moves are numbered 0..n-1, cut into one batch per thread  *)
(* and pushed to the pool; the main thread waits on a condition variable,  *)
(* then applies the move that was found.  Which moves improve depends only *)
(* on the assignment, which the main thread alone changes.                 *)
(***************************************************************************)
EXTENDS Naturals, Sequences

CONSTANTS
    N,         \* thread_count
    MaxMoves,  \* bound: the most moves a round considers
    MaxScore,  \* bound: how often the score can rise before all clauses are satisfied
    MaxBag     \* bagSizeEnd - bagSizeStart + 1

ASSUME Bounds == N \in Nat \ {0} /\ MaxMoves \in Nat /\ MaxScore \in Nat /\ MaxBag \in Nat \ {0}

Thread == 1..N
Move == 0..(MaxMoves - 1)
None == MaxMoves

VARIABLES
    tasks,      \* the queue, of batches [start, end]
    tasksTotal, running,
    tpc,        \* where each worker of the pool is
    batch,      \* its task: the moves start..end-1 it still has to look at
    candidate,  \* the move for which check_flipped returned TRUE
    isSolutionFound, solution, newMetaValues,
    stopped,    \* SIGINT or SIGTERM was caught
    improving,  \* the moves that improve the assignment of this round
    n, prev, remains, thread,   \* the loop of solve that pushes the batches
    mpc, changed, bag,
    score       \* how often the score has risen

pool == <<tasks, tasksTotal, running>>
workers == <<tpc, batch, candidate>>
round == <<isSolutionFound, solution, newMetaValues>>
moves == <<improving, n, prev, remains, thread>>
climb == <<changed, bag, score>>
vars == <<pool, workers, round, stopped, moves, mpc, climb>>

TLocation == {"loop", "pop", "search", "found", "claim", "record", "finish", "test", "notify",
              "exit"}
MLocation == {"head", "count", "push", "check", "goToSleep", "sleeping", "resetQueue", "apply",
              "waitForTasks", "stopRunning", "join", "end"}

Goto(t, l) == tpc' = [tpc EXCEPT ![t] = l]

NoBatch == [start |-> 0, end |-> 0]

Init ==
    /\ tasks = <<>> /\ tasksTotal = 0 /\ running = TRUE
    /\ tpc = [t \in Thread |-> "loop"]
    /\ batch = [t \in Thread |-> NoBatch]
    /\ candidate = [t \in Thread |-> None]
    /\ isSolutionFound = FALSE /\ solution = None /\ newMetaValues = <<>>
    /\ stopped = FALSE
    /\ improving = {} /\ n = 0 /\ prev = 0 /\ remains = 0 /\ thread = 1
    /\ mpc = "head" /\ changed = TRUE /\ bag = 1
    /\ score \in 0..MaxScore

-----------------------------------------------------------------------------
(* thread_pool::worker *)

TestRunning(t) ==
    /\ tpc[t] = "loop"
    /\ Goto(t, IF running THEN "pop" ELSE "exit")
    /\ UNCHANGED <<pool, batch, candidate, round, stopped, moves, mpc, climb>>

PopNothing(t) ==
    /\ tpc[t] = "pop"
    /\ tasks = <<>>
    /\ Goto(t, "loop")
    /\ UNCHANGED <<pool, batch, candidate, round, stopped, moves, mpc, climb>>

\* Slip: the task is counted as done when it is popped.
BadPopTask(t) ==
    /\ tpc[t] = "pop"
    /\ tasks # <<>>
    /\ batch' = [batch EXCEPT ![t] = Head(tasks)]
    /\ tasks' = Tail(tasks)
    /\ tasksTotal' = tasksTotal - 1
    /\ Goto(t, "search")
    /\ UNCHANGED <<running, candidate, round, stopped, moves, mpc, climb>>

PopTask(t) ==
    /\ tpc[t] = "pop"
    /\ tasks # <<>>
    /\ batch' = [batch EXCEPT ![t] = Head(tasks)]
    /\ tasks' = Tail(tasks)
    /\ Goto(t, "search")
    /\ UNCHANGED <<tasksTotal, running, candidate, round, stopped, moves, mpc, climb>>


\* The task is over, and the locals of its frame gone.
Finish(t) ==
    /\ tpc[t] = "finish"
    /\ tasksTotal' = tasksTotal - 1
    /\ batch' = [batch EXCEPT ![t] = NoBatch]
    /\ candidate' = [candidate EXCEPT ![t] = None]
    /\ Goto(t, "test")
    /\ UNCHANGED <<tasks, running, round, stopped, moves, mpc, climb>>

TestTotal(t) ==
    /\ tpc[t] = "test"
    /\ Goto(t, IF tasksTotal = 0 THEN "notify" ELSE "loop")
    /\ UNCHANGED <<pool, batch, candidate, round, stopped, moves, mpc, climb>>

\* notify_all, without the mutex of the condition variable
NotifyAll(t) ==
    /\ tpc[t] = "notify"
    /\ mpc' = IF mpc = "sleeping" THEN "check" ELSE mpc
    /\ Goto(t, "loop")
    /\ UNCHANGED <<pool, batch, candidate, round, stopped, moves, climb>>

-----------------------------------------------------------------------------
(* The task: look for a move in the batch *)

BatchDone(t) ==
    /\ tpc[t] = "search"
    /\ batch[t].start = batch[t].end
    /\ Goto(t, "finish")
    /\ UNCHANGED <<pool, batch, candidate, round, stopped, moves, mpc, climb>>

MoveImproves(t) ==
    /\ tpc[t] = "search"
    /\ batch[t].start < batch[t].end
    /\ batch[t].start \in improving
    /\ candidate' = [candidate EXCEPT ![t] = batch[t].start]
    /\ Goto(t, "found")
    /\ UNCHANGED <<pool, batch, round, stopped, moves, mpc, climb>>

\* The search has been won by another task, or stopped.
GiveUp == isSolutionFound \/ stopped

\* No value of the move improves, or the search is stopped before they are all tried.
MoveFails(t) ==
    /\ tpc[t] = "search"
    /\ batch[t].start < batch[t].end
    /\ batch[t].start \notin improving \/ stopped
    /\ IF GiveUp THEN Goto(t, "finish") /\ UNCHANGED batch
       ELSE batch' = [batch EXCEPT ![t].start = @ + 1] /\ UNCHANGED tpc
    /\ UNCHANGED <<pool, candidate, round, stopped, moves, mpc, climb>>

TestFound(t) ==
    /\ tpc[t] = "found"
    /\ Goto(t, IF isSolutionFound THEN "finish" ELSE "claim")
    /\ UNCHANGED <<pool, batch, candidate, round, stopped, moves, mpc, climb>>

ClaimFound(t) ==
    /\ tpc[t] = "claim"
    /\ isSolutionFound' = TRUE
    /\ Goto(t, "record")
    /\ UNCHANGED <<pool, batch, candidate, solution, newMetaValues, stopped, moves, mpc, climb>>

\* Slip: only the first move is kept, yet the values of each are appended.
BadRecord(t) ==
    /\ tpc[t] = "record"
    /\ solution' = IF solution = None THEN candidate[t] ELSE solution
    /\ newMetaValues' = Append(newMetaValues, candidate[t])
    /\ Goto(t, "finish")
    /\ UNCHANGED <<pool, batch, candidate, isSolutionFound, stopped, moves, mpc, climb>>

\* Under solutionMutex.  The values of a second winner come after those of the first.
Record(t) ==
    /\ tpc[t] = "record"
    /\ solution' = candidate[t]
    /\ newMetaValues' = Append(newMetaValues, candidate[t])
    /\ Goto(t, "finish")
    /\ UNCHANGED <<pool, batch, candidate, isSolutionFound, stopped, moves, mpc, climb>>

Work(t) ==
    \/ TestRunning(t) \/ PopNothing(t) \/ PopTask(t) \/ Finish(t) \/ TestTotal(t) \/ NotifyAll(t)
    \/ BatchDone(t) \/ MoveImproves(t) \/ MoveFails(t) \/ TestFound(t) \/ ClaimFound(t) \/ Record(t)

-----------------------------------------------------------------------------
(* solve, one round *)

NoneFound == isSolutionFound' = FALSE

\* The loop goes on while something changes and some clause is not satisfied.
\* The predicates on moves may leave any number of them, none included.
StartRound ==
    /\ mpc = "head"
    /\ changed /\ score < MaxScore
    /\ changed' = FALSE
    /\ \E m \in 0..MaxMoves :
         /\ n' = m
         /\ improving' \in SUBSET (0..(m - 1))
         /\ remains' = m % N
    /\ NoneFound
    /\ mpc' = "count"
    /\ UNCHANGED <<pool, workers, solution, newMetaValues, stopped, prev, thread, bag, score>>

LeaveLoop ==
    /\ mpc = "head"
    /\ ~changed \/ score = MaxScore
    /\ mpc' = "waitForTasks"
    /\ UNCHANGED <<pool, workers, round, stopped, moves, climb>>

\* push_task counts the task, then queues it.
CountTask ==
    /\ mpc = "count"
    /\ tasksTotal' = tasksTotal + 1
    /\ mpc' = "push"
    /\ UNCHANGED <<tasks, running, workers, round, stopped, moves, climb>>

\* Slip: the remainder of the division is not given to anyone.
BadBatchEnd == prev + n \div N

\* The first n % N threads get one move more.
BatchEnd == prev + n \div N + (IF remains > 0 THEN 1 ELSE 0)

PushTask ==
    /\ mpc = "push"
    /\ tasks' = Append(tasks, [start |-> prev, end |-> BatchEnd])
    /\ prev' = BatchEnd
    /\ remains' = IF remains > 0 THEN remains - 1 ELSE 0
    /\ IF thread < N THEN mpc' = "count" /\ thread' = thread + 1
                     ELSE mpc' = "check" /\ thread' = 1
    /\ UNCHANGED <<tasksTotal, running, workers, round, stopped, improving, n, climb>>

\* wait_for_tasks_conditional: conditional_lock is held, but no worker takes it.
CheckTotal ==
    /\ mpc = "check"
    /\ mpc' = IF tasksTotal = 0 THEN "resetQueue" ELSE "goToSleep"
    /\ UNCHANGED <<pool, workers, round, stopped, moves, climb>>

GoToSleep ==
    /\ mpc = "goToSleep"
    /\ mpc' = "sleeping"
    /\ UNCHANGED <<pool, workers, round, stopped, moves, climb>>

SpuriousWakeup ==
    /\ mpc = "sleeping"
    /\ mpc' = "check"
    /\ UNCHANGED <<pool, workers, round, stopped, moves, climb>>

\* Despite its name it pops one task at most.
ResetQueue ==
    /\ mpc = "resetQueue"
    /\ IF tasks = <<>> THEN UNCHANGED <<tasks, tasksTotal>>
       ELSE tasks' = Tail(tasks) /\ tasksTotal' = tasksTotal - 1
    /\ mpc' = "apply"
    /\ UNCHANGED <<running, workers, round, stopped, moves, climb>>

\* apply_flipped, or a larger bag of meta-variables if no move was found.  The
\* locals of the round are gone.  (The score rises for formulas without a net: see
\* MovesRaiseTheWeight in LocalSearch.)
Apply ==
    /\ mpc = "apply"
    /\ score' = IF isSolutionFound THEN score + 1 ELSE score
    /\ bag' = IF ~isSolutionFound /\ bag < MaxBag THEN bag + 1 ELSE bag
    /\ changed' = ((isSolutionFound \/ bag < MaxBag) /\ ~stopped)
    /\ solution' = None /\ newMetaValues' = <<>> /\ improving' = {} /\ n' = 0 /\ prev' = 0
    /\ mpc' = "head"
    /\ UNCHANGED <<pool, workers, isSolutionFound, stopped, remains, thread>>

\* The handler of SIGINT and SIGTERM; a second signal exits the program.
Interrupt ==
    /\ ~stopped
    /\ stopped' = TRUE
    /\ UNCHANGED <<pool, workers, round, moves, mpc, climb>>

-----------------------------------------------------------------------------
(* ~thread_pool *)

WaitForTasks ==
    /\ mpc = "waitForTasks"
    /\ tasksTotal = 0
    /\ mpc' = "stopRunning"
    /\ UNCHANGED <<pool, workers, round, stopped, moves, climb>>

StopRunning ==
    /\ mpc = "stopRunning"
    /\ running' = FALSE
    /\ mpc' = "join"
    /\ UNCHANGED <<tasks, tasksTotal, workers, round, stopped, moves, climb>>

DestroyThreads ==
    /\ mpc = "join"
    /\ \A t \in Thread : tpc[t] = "exit"
    /\ mpc' = "end"
    /\ UNCHANGED <<pool, workers, round, stopped, moves, climb>>

Main ==
    \/ StartRound \/ LeaveLoop \/ CountTask \/ PushTask \/ CheckTotal \/ GoToSleep \/ ResetQueue
    \/ Apply \/ WaitForTasks \/ StopRunning \/ DestroyThreads

Next ==
    \/ Main
    \/ \E t \in Thread : Work(t)
    \/ SpuriousWakeup
    \/ Interrupt

Spec == Init /\ [][Next]_vars

\* Threads are scheduled; nothing is assumed of spurious wakeups and signals.
FairSpec == Spec /\ WF_vars(Main) /\ \A t \in Thread : WF_vars(Work(t))

-----------------------------------------------------------------------------
(* Properties *)

InTask == {"search", "found", "claim", "record", "finish"}

\* The range of every variable; the pool never counts more tasks than threads.
TypeOK ==
    /\ tasks \in Seq([start : 0..MaxMoves, end : 0..MaxMoves])
    /\ tasksTotal \in 0..N
    /\ tpc \in [Thread -> TLocation]
    /\ batch \in [Thread -> [start : 0..MaxMoves, end : 0..MaxMoves]]
    /\ candidate \in [Thread -> Move \cup {None}]
    /\ {isSolutionFound, running, stopped, changed} \subseteq BOOLEAN
    /\ solution \in Move \cup {None}
    /\ newMetaValues \in Seq(Move)
    /\ improving \subseteq Move
    /\ n \in 0..MaxMoves /\ prev \in 0..MaxMoves /\ remains \in 0..(N - 1)
    /\ thread \in Thread /\ mpc \in MLocation
    /\ bag \in 1..MaxBag /\ score \in 0..MaxScore

\* Tasks hold references to the locals of the round: when the main thread goes
\* on from its wait, no task is queued, about to be queued, or running.
RoundIsOver ==
    mpc \notin {"count", "push", "check", "goToSleep", "sleeping"} =>
        tasks = <<>> /\ \A t \in Thread : tpc[t] \notin InTask

\* The pool counts the tasks it was given, and the round outlives them.
PoolIsSound == TypeOK /\ RoundIsOver

\* A move that is applied was found in this round to improve the assignment it
\* is applied to, and its values are the last that were written to metaValues:
\* two tasks may both win, whoever was first and whoever was last.
AppliedMoveImproves ==
    mpc = "apply" /\ isSolutionFound =>
        /\ solution \in improving
        /\ newMetaValues # <<>>
        /\ solution = newMetaValues[Len(newMetaValues)]

\* The search gives up a bag size only if no move of it improves: no batch is
\* lost or left out, whatever the division of the moves among the threads.
NoMoveMissed == mpc = "apply" /\ ~isSolutionFound /\ ~stopped => improving = {}


=============================================================================
