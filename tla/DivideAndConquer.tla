-------------------------- MODULE DivideAndConquer --------------------------
(***************************************************************************)
(* painless with -wkr-strat 4 (working/DivideAndConquer.cpp): a search     *)
(* space divided on demand.  Idle slaves wait in overs; the master pairs   *)
(* the oldest of the workers with one of them and interrupts it; when that *)
(* worker joins with UNKNOWN it divides its cube with the idle slave.      *)
(*                                                                         *)
(* A cube is the set of assignments that satisfy its literals.  A step is  *)
(* an access to a shared atomic, or a critical section: every change of    *)
(* the lists is made under mutexListsWorkers.  Solvers are external.       *)
(***************************************************************************)
EXTENDS Integers, FiniteSets, SequencesExt

CONSTANTS
    N,                \* the number of slaves (parameter -c)
    Point,            \* the assignments
    CloneSolvers,     \* -copy-mode 2: one solver, cloned at each division
    ClearsInterrupt,  \* solve() starts with unsetSolverInterrupt() (glucose, maple)
    Timeouts,         \* the parameter -t is given
    PromptWorkers     \* a worker is past its gate within TIME_BEFORE_INTERRUPTING

ASSUME SlaveCount == N \in Nat \ {0}
ASSUME Options == {CloneSolvers, ClearsInterrupt, Timeouts, PromptWorkers} \subseteq BOOLEAN

Slave == 1..N

VARIABLES
    models,          \* the assignments that satisfy the formula
    globalEnding, strategyEnding, finalResult, waitJob,
    interrupt,       \* SequentialWorker::interrupt
    stop,            \* the interrupt flag of each solver
    hasSolver,       \* SequentialWorker::solver is not NULL
    overs, workers, workersSplitting, oversSplitting, cubes, nWorkers,
    wpc, res, widx,  \* worker threads: location, result, index in the loop of join
    master,          \* where the master thread is
    mpc, midx,       \* the main thread, and its index in setInterrupt
    crashed,         \* an uninitialised pointer, or NULL, has been followed
    astray           \* history variable: before the strategy ended, a slave or
                     \* the master came back from pthread_cond_wait and went to
                     \* work although nobody had called it

ending == <<models, globalEnding, strategyEnding, finalResult, waitJob>>
flags == <<interrupt, stop, hasSolver>>
lists == <<overs, workers, workersSplitting, oversSplitting, cubes, nWorkers>>
threads == <<wpc, res, widx>>
main == <<mpc, midx>>
failure == <<crashed, astray>>
vars == <<ending, flags, lists, threads, master, main, failure>>

WLocation == {"loop", "gate", "asleep", "ready", "solving", "report", "join", "end",
              "setInterrupt", "setStop", "ending", "result", "done"}
MasterLocation == {"start", "waitStart", "launch", "loop", "check", "waiting", "done"}
MainLocation == {"solve", "signal", "poll", "timeoutInterrupt", "timeoutStop", "joinMaster", "ended"}

WGoto(w, l) == wpc' = [wpc EXCEPT ![w] = l]

\* Every slave is asleep or about to be; the constructors have run.
Init ==
    /\ models \in SUBSET Point
    /\ globalEnding = FALSE /\ strategyEnding = FALSE
    /\ finalResult = "UNKNOWN"
    /\ waitJob = TRUE
    /\ interrupt = [w \in Slave |-> TRUE]
    /\ stop = [w \in Slave |-> FALSE]
    /\ hasSolver = [w \in Slave |-> w = 1 \/ ~CloneSolvers]
    /\ overs = <<>> /\ workers = <<>> /\ workersSplitting = <<>> /\ oversSplitting = <<>>
    /\ cubes = [w \in Slave |-> Point]
    /\ nWorkers = 0
    /\ wpc = [w \in Slave |-> "loop"]
    /\ res = [w \in Slave |-> "UNKNOWN"]
    /\ widx = [w \in Slave |-> 1]
    /\ master = "start"
    /\ mpc = "solve" /\ midx = 1
    /\ crashed = FALSE /\ astray = FALSE

\* SequentialWorker::solve on each slave of ws: unsetInterrupt, and the signal,
\* unless it has no solver.  When it interleaves with a setInterrupt the flags
\* end as they do when it comes just before, between its two assignments, or after.
Called(w, ws) == w \in ws /\ hasSolver'[w]

Restart(ws) ==
    /\ stop' = [w \in Slave |-> stop[w] /\ ~Called(w, ws)]
    /\ interrupt' = [w \in Slave |-> interrupt[w] /\ ~Called(w, ws)]

Woken(ws, pcs) ==
    [w \in Slave |-> IF Called(w, ws) /\ pcs[w] = "asleep" THEN "ready" ELSE pcs[w]]

AddOnceToTail(s, w) == IF Contains(s, w) THEN s ELSE Append(s, w)
AddOnceToHead(s, w) == IF Contains(s, w) THEN s ELSE Cons(w, s)

\* The slaves that have been called and have not joined yet.
Active == ToSet(workers) \cup ToSet(workersSplitting)

SignalMaster == master' = IF master = "waiting" THEN "check" ELSE master

-----------------------------------------------------------------------------
(* The master thread *)

MasterWaitsForStart ==
    /\ master = "start"
    /\ master' = IF waitJob THEN "waitStart" ELSE "launch"
    /\ UNCHANGED <<ending, flags, lists, threads, main, failure>>

\* pthread_cond_wait is under an if: the master may start before it is called,
\* perhaps before main has given it a slave.
MasterStartsUncalled ==
    /\ master = "waitStart"
    /\ \/ /\ master' = "launch"
          /\ astray' = (astray \/ waitJob)
          /\ UNCHANGED crashed
       \/ /\ waitJob
          /\ crashed' = TRUE
          /\ UNCHANGED <<master, astray>>
    /\ UNCHANGED <<ending, flags, lists, threads, main>>

\* Everyone has the cube of the master, and the first slave starts on it.  Unless
\* one went astray the worker threads are asleep or about to be, so nobody else
\* looks at the lists.
Launch ==
    /\ master = "launch"
    /\ UNCHANGED hasSolver
    /\ LET idle == overs \o [i \in 1..N |-> i] IN
         /\ overs' = Tail(idle)
         /\ workers' = Append(workers, Head(idle))
         /\ Restart({Head(idle)})
         /\ wpc' = Woken({Head(idle)}, wpc)
    /\ cubes' = [w \in Slave |-> Point]
    /\ nWorkers' = nWorkers + 1
    /\ master' = "loop"
    /\ UNCHANGED <<ending, workersSplitting, oversSplitting, res, widx, main, failure>>


MasterLoop ==
    /\ master = "loop"
    /\ master' = IF globalEnding \/ strategyEnding THEN "done" ELSE "check"
    /\ UNCHANGED <<ending, flags, lists, threads, main, failure>>

MasterWaits ==
    /\ master = "check"
    /\ overs = <<>> \/ workers = <<>>
    /\ master' = "waiting"
    /\ UNCHANGED <<ending, flags, lists, threads, main, failure>>

\* This wait is in a loop that tests the lists again.
MasterWakesUncalled ==
    /\ master = "waiting"
    /\ master' = "check"
    /\ UNCHANGED <<ending, flags, lists, threads, main, failure>>

\* Less than TIME_BEFORE_INTERRUPTING since the worker started: usleep, continue.
\* Before that, the test for workers that are all gone (never true here).
NotYet ==
    /\ master = "check"
    /\ overs # <<>> /\ workers # <<>>
    /\ master' = IF nWorkers = 0 THEN "done" ELSE "loop"
    /\ UNCHANGED <<ending, flags, lists, threads, main, failure>>

\* The time a worker has had, TIME_BEFORE_INTERRUPTING at least, is enough for
\* a thread that is not blocked to get to its solver.
HasStarted(w) == PromptWorkers => wpc[w] \notin {"loop", "gate", "ready"}

\* setInterrupt on the oldest worker, without waiting for it.  Its flags are
\* set in one step: they can only be unset under the lock the master holds.
InterruptWorker ==
    /\ master = "check"
    /\ overs # <<>> /\ workers # <<>>
    /\ nWorkers # 0
    /\ LET w == Head(workers) IN
         /\ HasStarted(w)
         /\ workersSplitting' = AddOnceToTail(workersSplitting, w)
         /\ interrupt' = [interrupt EXCEPT ![w] = TRUE]
         /\ stop' = [stop EXCEPT ![w] = @ \/ hasSolver[w]]
    /\ oversSplitting' = AddOnceToTail(oversSplitting, Head(overs))
    /\ overs' = Tail(overs)
    /\ workers' = Tail(workers)
    /\ master' = "loop"
    /\ UNCHANGED <<ending, hasSolver, cubes, nWorkers, threads, main, failure>>

Master ==
    \/ MasterWaitsForStart \/ Launch \/ MasterLoop \/ MasterWaits
    \/ NotYet \/ InterruptWorker

-----------------------------------------------------------------------------
(* mainWorker and SequentialWorker::join: see Portfolio *)

Loop(w) ==
    /\ wpc[w] = "loop"
    /\ WGoto(w, IF globalEnding THEN "done" ELSE "gate")
    /\ UNCHANGED <<ending, flags, lists, res, widx, master, main, failure>>

Gate(w) ==
    /\ wpc[w] = "gate"
    /\ WGoto(w, IF interrupt[w] THEN "asleep" ELSE "ready")
    /\ UNCHANGED <<ending, flags, lists, res, widx, master, main, failure>>

StartSolving(w) ==
    /\ wpc[w] = "ready"
    /\ WGoto(w, "solving")
    /\ stop' = [stop EXCEPT ![w] = @ /\ ~ClearsInterrupt]
    /\ UNCHANGED <<ending, interrupt, hasSolver, lists, res, widx, master, main, failure>>

\* pthread_cond_wait is under an if: a slave that nobody called solves the cube
\* it had last, interrupted or not.  In copy mode 2 it may have no solver.
SpuriousWakeup(w) ==
    /\ wpc[w] = "asleep"
    /\ IF hasSolver[w]
       THEN /\ WGoto(w, "solving")
            /\ stop' = [stop EXCEPT ![w] = @ /\ ~ClearsInterrupt]
            /\ astray' = (astray \/ (w \notin Active /\ ~strategyEnding))
            /\ UNCHANGED crashed
       ELSE /\ crashed' = TRUE
            /\ UNCHANGED <<wpc, stop, astray>>
    /\ UNCHANGED <<ending, interrupt, hasSolver, lists, res, widx, master, main>>

\* A sound solver: the truth about the formula under the cube.
SolverDecides(w) ==
    /\ wpc[w] = "solving"
    /\ res' = [res EXCEPT ![w] = IF cubes[w] \cap models = {} THEN "UNSAT" ELSE "SAT"]
    /\ WGoto(w, "report")
    /\ UNCHANGED <<ending, flags, lists, widx, master, main, failure>>

SolverStops(w) ==
    /\ wpc[w] = "solving"
    /\ stop[w]
    /\ res' = [res EXCEPT ![w] = "UNKNOWN"]
    /\ WGoto(w, "report")
    /\ UNCHANGED <<ending, flags, lists, widx, master, main, failure>>

Report(w) ==
    /\ wpc[w] = "report"
    /\ WGoto(w, IF globalEnding THEN "loop" ELSE IF res[w] = "SAT" THEN "end" ELSE "join")
    /\ UNCHANGED <<ending, flags, lists, res, widx, master, main, failure>>

-----------------------------------------------------------------------------
(* DivideAndConquer::join with UNKNOWN: the cube is divided *)

\* Slip: the literal is added to the cube of both, instead of its negation.
BadHalves(c) == {<<a, a>> : a \in SUBSET c}

\* The division variable may be any: the cube with it, and with its negation.
Halves(c) == {<<a, c \ a>> : a \in SUBSET c}

\* Slip: nWorkers++ is forgotten.
BadDivided == nWorkers

Divided == nWorkers + 1

\* The master is told that workers can be divided, if slaves are idle.
Offer == IF overs # <<>> THEN SignalMaster ELSE UNCHANGED master

Restarted(w, over) == {w, over}

\* In copy mode 2 over gets a copy of the worker's solver.
Cloned(over) == [hasSolver EXCEPT ![over] = @ \/ CloneSolvers]

Divide(w, over) ==
    /\ \E h \in Halves(cubes[w]) :
          cubes' = [cubes EXCEPT ![over] = h[2], ![w] = IF over = w THEN {} ELSE h[1]]
    /\ workersSplitting' = RemoveFirst(workersSplitting, w)
    /\ workers' = workers \o <<w, over>>
    /\ nWorkers' = Divided
    /\ hasSolver' = Cloned(over)
    /\ Restart(Restarted(w, over))
    /\ wpc' = [Woken({over}, wpc) EXCEPT ![w] = "loop"]
    /\ Offer
    /\ UNCHANGED <<ending, overs, res, widx, main>>

\* The head of oversSplitting.  When it is empty the code goes on with a pointer
\* it has not initialised: that of a slave if the stack still holds one from an
\* earlier call of the thread (see also Crash).
Partners(w) == IF oversSplitting # <<>> THEN {Head(oversSplitting)} ELSE Slave \ {w}

TakePartner == oversSplitting' = IF oversSplitting # <<>> THEN Tail(oversSplitting) ELSE <<>>

JoinUnknown(w) ==
    /\ wpc[w] = "join" /\ res[w] = "UNKNOWN"
    /\ TakePartner
    /\ \E over \in Partners(w) : Divide(w, over)
    /\ UNCHANGED failure

\* Or the pointer leads nowhere.
Crash(w) ==
    /\ wpc[w] = "join"
    /\ res[w] = "UNKNOWN" \/ Contains(workersSplitting, w)
    /\ oversSplitting = <<>>
    /\ crashed' = TRUE
    /\ UNCHANGED <<ending, flags, lists, threads, master, main, astray>>

-----------------------------------------------------------------------------
(* DivideAndConquer::join with UNSAT: the slave becomes idle *)

\* Slip: the partner is not idle again.
BadCancel(w) ==
    /\ workersSplitting' = RemoveFirst(workersSplitting, w)
    /\ TakePartner
    /\ overs' = AddOnceToTail(overs, w)

\* The worker was about to be divided: its partner is idle again, first in line.
Cancel(w) ==
    /\ workersSplitting' = RemoveFirst(workersSplitting, w)
    /\ TakePartner
    /\ \E over \in Partners(w) : overs' = AddOnceToTail(AddOnceToHead(overs, over), w)

TellOfIdle == IF workers' # <<>> THEN SignalMaster ELSE UNCHANGED master

\* In copy mode 2 a slave that becomes idle gives its solver up.
JoinUnsat(w) ==
    /\ wpc[w] = "join" /\ res[w] = "UNSAT"
    /\ IF Contains(workersSplitting, w)
       THEN Cancel(w) /\ UNCHANGED workers
       ELSE /\ workers' = RemoveFirst(workers, w)
            /\ overs' = AddOnceToTail(overs, w)
            /\ UNCHANGED <<workersSplitting, oversSplitting>>
    /\ TellOfIdle
    /\ interrupt' = [interrupt EXCEPT ![w] = TRUE]
    /\ stop' = [stop EXCEPT ![w] = @ \/ hasSolver[w]]
    /\ nWorkers' = nWorkers - 1
    /\ hasSolver' = [hasSolver EXCEPT ![w] = @ /\ ~(CloneSolvers /\ nWorkers' > 0)]
    /\ WGoto(w, IF nWorkers' > 0 THEN "loop" ELSE "end")
    /\ UNCHANGED <<ending, cubes, res, widx, main, failure>>

-----------------------------------------------------------------------------
(* The end of DivideAndConquer::join *)

\* The critical section is that of mutexFirstSolution, up to the end of setInterrupt.
EndStrategy(w) ==
    /\ wpc[w] = "end"
    /\ \A v \in Slave : wpc[v] \notin {"setInterrupt", "setStop"}
    /\ IF ~strategyEnding
       THEN strategyEnding' = TRUE /\ WGoto(w, "setInterrupt")
       ELSE UNCHANGED strategyEnding /\ WGoto(w, "loop")
    /\ UNCHANGED <<models, globalEnding, finalResult, waitJob, flags, lists, res, widx,
                   master, main, failure>>

InterruptSlave(w) ==
    /\ wpc[w] = "setInterrupt"
    /\ interrupt' = [interrupt EXCEPT ![widx[w]] = TRUE]
    /\ WGoto(w, "setStop")
    /\ UNCHANGED <<ending, stop, hasSolver, lists, res, widx, master, main, failure>>

StopSlave(w) ==
    /\ wpc[w] = "setStop"
    /\ stop' = [stop EXCEPT ![widx[w]] = @ \/ hasSolver[widx[w]]]
    /\ IF widx[w] < N
       THEN WGoto(w, "setInterrupt") /\ widx' = [widx EXCEPT ![w] = @ + 1]
       ELSE WGoto(w, "ending") /\ widx' = [widx EXCEPT ![w] = 1]
    /\ UNCHANGED <<ending, interrupt, hasSolver, lists, res, master, main, failure>>

EndSearch(w) ==
    /\ wpc[w] = "ending"
    /\ globalEnding' = TRUE
    /\ WGoto(w, "result")
    /\ UNCHANGED <<models, strategyEnding, finalResult, waitJob, flags, lists, res, widx,
                   master, main, failure>>

\* finalModel is assigned after finalResult, by the same thread.
SetResult(w) ==
    /\ wpc[w] = "result"
    /\ finalResult' = res[w]
    /\ WGoto(w, "loop")
    /\ UNCHANGED <<models, globalEnding, strategyEnding, waitJob, flags, lists, res, widx,
                   master, main, failure>>

Work(w) ==
    \/ Loop(w) \/ Gate(w) \/ StartSolving(w) \/ SolverStops(w) \/ Report(w)
    \/ JoinUnknown(w) \/ JoinUnsat(w) \/ EndStrategy(w)
    \/ InterruptSlave(w) \/ StopSlave(w) \/ EndSearch(w) \/ SetResult(w)

-----------------------------------------------------------------------------
(* The main thread: solve, setInterrupt on a timeout, and the destructor *)

SetJob ==
    /\ mpc = "solve"
    /\ waitJob' = FALSE
    /\ mpc' = "signal"
    /\ UNCHANGED <<models, globalEnding, strategyEnding, finalResult, flags, lists, threads,
                   master, midx, failure>>

SignalStart ==
    /\ mpc = "signal"
    /\ master' = IF master = "waitStart" THEN "launch" ELSE master
    /\ mpc' = "poll"
    /\ UNCHANGED <<ending, flags, lists, threads, midx, failure>>

Timeout ==
    /\ Timeouts
    /\ mpc = "poll"
    /\ globalEnding' = TRUE
    /\ mpc' = "timeoutInterrupt"
    /\ UNCHANGED <<models, strategyEnding, finalResult, waitJob, flags, lists, threads,
                   master, midx, failure>>

TimeoutInterrupt ==
    /\ mpc = "timeoutInterrupt"
    /\ interrupt' = [interrupt EXCEPT ![midx] = TRUE]
    /\ mpc' = "timeoutStop"
    /\ UNCHANGED <<ending, stop, hasSolver, lists, threads, master, midx, failure>>

TimeoutStop ==
    /\ mpc = "timeoutStop"
    /\ stop' = [stop EXCEPT ![midx] = @ \/ hasSolver[midx]]
    /\ IF midx < N THEN midx' = midx + 1 /\ mpc' = "timeoutInterrupt"
                   ELSE midx' = 1 /\ mpc' = "joinMaster"
    /\ UNCHANGED <<ending, interrupt, hasSolver, lists, threads, master, failure>>

PollEnds ==
    /\ mpc = "poll"
    /\ globalEnding
    /\ mpc' = "joinMaster"
    /\ UNCHANGED <<ending, flags, lists, threads, master, midx, failure>>

JoinMaster ==
    /\ mpc = "joinMaster"
    /\ master = "done"
    /\ mpc' = "ended"
    /\ UNCHANGED <<ending, flags, lists, threads, master, midx, failure>>

Main == SetJob \/ SignalStart \/ TimeoutInterrupt \/ TimeoutStop \/ PollEnds \/ JoinMaster

Next ==
    /\ ~crashed
    /\ \/ Master
       \/ MasterStartsUncalled \/ MasterWakesUncalled
       \/ \E w \in Slave : Work(w) \/ SolverDecides(w) \/ SpuriousWakeup(w) \/ Crash(w)
       \/ Main \/ Timeout

Spec == Init /\ [][Next]_vars

\* Threads that can run are scheduled and solvers end.  Divisions make cubes
\* easier: there comes a time when solvers decide them before TIME_BEFORE_INTERRUPTING
\* is over, so that the master interrupts nobody any more.  Nothing is assumed
\* of timeouts and spurious wakeups.
FairSpec ==
    /\ Spec
    /\ WF_vars(~crashed /\ Master)
    /\ WF_vars(~crashed /\ Main)
    /\ \A w \in Slave : WF_vars(~crashed /\ (Work(w) \/ SolverDecides(w)))
    /\ <>[][~InterruptWorker]_vars

-----------------------------------------------------------------------------
(* Properties *)

Distinct(s) == \A i, j \in DOMAIN s : s[i] = s[j] => i = j
Launched == master \notin {"start", "waitStart", "launch"}
InSearch == Launched /\ ~strategyEnding

\* The range of every variable.
TypeOK ==
    /\ models \in SUBSET Point
    /\ {globalEnding, strategyEnding, waitJob, crashed, astray} \subseteq BOOLEAN
    /\ finalResult \in {"UNKNOWN", "SAT", "UNSAT"}
    /\ {interrupt, stop, hasSolver} \subseteq [Slave -> BOOLEAN]
    /\ {overs, workers, workersSplitting, oversSplitting} \subseteq Seq(Slave)
    /\ cubes \in [Slave -> SUBSET Point]
    /\ nWorkers \in Int
    /\ wpc \in [Slave -> WLocation]
    /\ res \in [Slave -> {"UNKNOWN", "SAT", "UNSAT"}]
    /\ widx \in [Slave -> Slave]
    /\ master \in MasterLocation
    /\ mpc \in MainLocation /\ midx \in Slave

\* No part of the search space is lost: until the search ends every solution of
\* the formula lies in the cube of a slave that is at work.
ModelsCovered == InSearch => models \subseteq UNION {cubes[w] : w \in Active}

\* No two slaves work on the same assignment.
CubesDisjoint ==
    InSearch => \A v, w \in Active : v # w => cubes[v] \cap cubes[w] = {}

\* Divisions, cancellations and restarts keep the cubes a partition of what is
\* left of the search space, unless a spurious wakeup sent a thread to work.
CubesPartition == ~astray => ModelsCovered /\ CubesDisjoint

\* Every slave is in exactly one list, once, and the counter and the lists of
\* pending divisions agree.
ListsPartition ==
    InSearch =>
        LET all == overs \o workers \o workersSplitting \o oversSplitting IN
          /\ Distinct(all) /\ ToSet(all) = Slave
          /\ nWorkers = Len(workers) + Len(workersSplitting)
          /\ Len(workersSplitting) = Len(oversSplitting)

\* What the search answers is the truth, whatever is divided, cancelled or
\* interrupted, and whoever else finishes while it ends.  A slave astray may make
\* nWorkers reach 0 while others still work, and the answer a premature UNSAT; SAT
\* is right in any case.
ResultSound ==
    /\ finalResult = "SAT" => models # {}
    /\ finalResult = "UNSAT" /\ ~astray => models = {}

\* The master sleeps only while there is nothing to divide or nobody idle.
MasterNotForgotten ==
    InSearch /\ master = "waiting" => overs = <<>> \/ workers = <<>>

\* A thread that solves has a solver: in copy mode 2 idle slaves have none.
SolverPresent == \A w \in Slave : wpc[w] \in {"solving", "report"} => hasSolver[w]

\* "If res is UNKNOWN, this slave has been interrupted to split": true until the search ends.  (The
\* winner's setInterrupt stops slaves that nobody asked to split, see Crash.)
UnknownMeansSplitting ==
    \A w \in Slave :
        (wpc[w] = "join" /\ res[w] = "UNKNOWN" /\ ~strategyEnding /\ ~globalEnding)
            => Contains(workersSplitting, w)

\* What the master and the slaves tell each other through lists, counter, solvers and requests to
\* split stays consistent while divisions are asked for, cancelled and overtaken, whatever spurious
\* wakeups come, unless one sent to work a slave or a master that nobody had called.
BookkeepingIsRight ==
    /\ TypeOK
    /\ SolverPresent
    /\ ~astray => ListsPartition /\ MasterNotForgotten /\ UnknownMeansSplitting


=============================================================================
