---------------------------- MODULE CubeAndConquer ----------------------------
(***************************************************************************)
(* painless with -wkr-strat 2 (working/CubeAndConquer.cpp): a solver on    *)
(* the whole formula, slave 0, beside workers on sub-problems that the     *)
(* master thread divides every so often: it interrupts every worker,       *)
(* deletes those that are over, divides the first ones by adding a literal *)
(* to their solver and its negation to a copy, and launches as many        *)
(* workers as there are cpus left.  The others are launched when a         *)
(* worker joins with UNSAT.                                                *)
(*                                                                         *)
(* A sub-problem is the set of assignments that satisfy the literals added *)
(* to its solver.  Solvers are external.  A step is an access to a shared  *)
(* variable or one iteration of a loop.                                    *)
(***************************************************************************)
EXTENDS Integers, FiniteSets, SequencesExt

CONSTANTS
    MaxCpus,          \* maxCpus
    MaxNodes,         \* maxNodes (8 * maxCpus in the code, less in the instances)
    MaxWorkers,       \* bound: the copies of solvers that are made
    Point,            \* the assignments
    ClearsInterrupt   \* solve() starts with unsetSolverInterrupt() (glucose, maple)

ASSUME Bounds == MaxCpus \in Nat \ {0} /\ MaxNodes \in Nat /\ MaxWorkers \in Nat \ {0}
ASSUME Options == ClearsInterrupt \in BOOLEAN

Slave == 0..MaxWorkers

VARIABLES
    models,             \* the assignments that satisfy the formula
    globalEnding, strategyEnding, finalResult, waitJob,
    nJobs, next, over, workers,
    created,            \* slaves 0..created have been constructed
    deleted,            \* those deleted since
    interrupt, stop,    \* SequentialWorker::interrupt, and the flag of each solver
    formula,            \* the assignments that satisfy the clauses of each solver
    clausesToAdd,       \* those that satisfy the clauses it has not yet added
    wpc, res,           \* worker threads: location, and result while it is used
    master, midx, last, \* the master thread, the index and the end of its loops
    mpc, crashed        \* the main thread; memory has been misused

ending == <<models, globalEnding, strategyEnding, finalResult, waitJob>>
lists == <<nJobs, next, over, workers, created, deleted>>
flags == <<interrupt, stop>>
solvers == <<formula, clausesToAdd>>
threads == <<wpc, res>>
masters == <<master, midx, last>>
vars == <<ending, lists, flags, solvers, threads, masters, mpc, crashed>>

WLocation == {"loop", "asleep", "ready", "solving", "report", "left", "launchNext", "incNext",
              "end", "done"}
MasterLocation == {"loop", "start", "waitStart", "clone", "launchRoot", "head", "sleep",
                   "interrupt", "wait", "erase", "join", "targets", "divide", "launch", "done"}
MainLocation == {"solve", "signal", "poll"}

Least(a, b) == IF a < b THEN a ELSE b
WGoto(w, l) == wpc' = [wpc EXCEPT ![w] = l] /\ UNCHANGED res
Return(w) == wpc' = [wpc EXCEPT ![w] = "loop"] /\ res' = [res EXCEPT ![w] = "UNKNOWN"]
Exists == (0..created) \ deleted
SubProblem(w) == formula[w] \cap clausesToAdd[w]

\* next is not initialised: it may be in range for any size of workers, or out of it.
Init ==
    /\ models \in SUBSET Point
    /\ globalEnding = FALSE /\ strategyEnding = FALSE
    /\ finalResult = "UNKNOWN"
    /\ waitJob = TRUE
    /\ nJobs = 0 /\ next \in {0, MaxWorkers}
    /\ over = <<>> /\ workers = <<>>
    /\ created = 0 /\ deleted = {}
    /\ interrupt = [w \in Slave |-> TRUE]
    /\ stop = [w \in Slave |-> FALSE]
    /\ formula = [w \in Slave |-> Point]
    /\ clausesToAdd = [w \in Slave |-> Point]
    /\ wpc = [w \in Slave |-> "loop"]
    /\ res = [w \in Slave |-> "UNKNOWN"]
    /\ master = "loop" /\ midx = 1 /\ last = 0
    /\ mpc = "solve"
    /\ crashed = FALSE

\* SequentialWorker::solve (every worker has the same cube): unsetInterrupt,
\* and the signal.
Restart(w) ==
    /\ stop' = [stop EXCEPT ![w] = FALSE]
    /\ interrupt' = [interrupt EXCEPT ![w] = FALSE]

Woken(w, pcs) == [pcs EXCEPT ![w] = IF @ = "asleep" THEN "ready" ELSE @]

SetInterrupt(w) ==
    /\ interrupt' = [interrupt EXCEPT ![w] = TRUE]
    /\ stop' = [stop EXCEPT ![w] = TRUE]

-----------------------------------------------------------------------------
(* The master thread *)

MGoto(l) == master' = l /\ UNCHANGED <<midx, last>>

\* for (i = 0; i < n; i++), or what follows when the loop is empty
ForAll(n, body, after) == master' = (IF n > 0 THEN body ELSE after) /\ midx' = 1 /\ last' = n

\* The end of the body of such a loop.
NextOne(body, after) ==
    IF midx < last THEN master' = body /\ midx' = midx + 1 /\ UNCHANGED last
                   ELSE master' = after /\ midx' = 1 /\ last' = 0

MasterLoop ==
    /\ master = "loop"
    /\ MGoto(IF globalEnding THEN "done" ELSE "start")
    /\ UNCHANGED <<ending, lists, flags, solvers, threads, mpc, crashed>>

WaitForJob ==
    /\ master = "start"
    /\ MGoto(IF waitJob THEN "waitStart" ELSE "clone")
    /\ UNCHANGED <<ending, lists, flags, solvers, threads, mpc, crashed>>

\* pthread_cond_wait is under an if: the master may start uncalled.  Before the first
\* call of solve() nJobs and strategyEnding are not initialised, and there may be no
\* slave: what comes of it then is not followed.
MasterStartsUncalled ==
    /\ master = "waitStart"
    /\ IF mpc = "solve" THEN crashed' = TRUE /\ UNCHANGED masters
                         ELSE MGoto("clone") /\ UNCHANGED crashed
    /\ UNCHANGED <<ending, lists, flags, solvers, threads, mpc>>

\* The root of the sub-problems is a copy of slave 0, which is then launched.  (A
\* signal that comes late makes a second one.)
LaunchPortfolio ==
    /\ master = "clone"
    /\ created < MaxWorkers
    /\ created' = created + 1
    /\ workers' = Append(workers, created + 1)
    /\ formula' = [formula EXCEPT ![created + 1] = formula[0]]
    /\ Restart(0)
    /\ wpc' = Woken(0, wpc)
    /\ MGoto("launchRoot")
    /\ UNCHANGED <<ending, nJobs, next, over, deleted, clausesToAdd, res, mpc, crashed>>

LaunchRoot ==
    /\ master = "launchRoot"
    /\ Restart(created)
    /\ wpc' = Woken(created, wpc)
    /\ MGoto("head")
    /\ UNCHANGED <<ending, lists, solvers, res, mpc, crashed>>

NextRound ==
    /\ master = "head"
    /\ IF strategyEnding THEN waitJob' = TRUE /\ MGoto("loop")
                         ELSE UNCHANGED waitJob /\ MGoto("sleep")
    /\ UNCHANGED <<models, globalEnding, strategyEnding, finalResult, lists, flags, solvers,
                   threads, mpc, crashed>>

\* The end of the sleep.
BeginRound ==
    /\ master = "sleep"
    /\ IF strategyEnding
       THEN waitJob' = TRUE /\ MGoto("loop")
       ELSE /\ ForAll(Len(workers), "interrupt", "erase")
            /\ UNCHANGED waitJob
    /\ UNCHANGED <<models, globalEnding, strategyEnding, finalResult, lists, flags, solvers,
                   threads, mpc, crashed>>

InterruptWorker ==
    /\ master = "interrupt"
    /\ SetInterrupt(workers[midx])
    /\ MGoto("wait")
    /\ UNCHANGED <<ending, lists, solvers, threads, mpc, crashed>>

\* waitInterrupt: the worker is not in solve() at this instant.
WaitWorker ==
    /\ master = "wait"
    /\ wpc[workers[midx]] # "solving"
    /\ NextOne("interrupt", "erase")
    /\ UNCHANGED <<ending, lists, flags, solvers, threads, mpc, crashed>>

\* over[midx] is taken out of the lists (workers holds it once), and its destructor
\* begins: it resets globalEnding.  A worker that is in over twice is gone the
\* second time.
EraseOver ==
    /\ master = "erase"
    /\ midx <= Len(over)
    /\ IF over[midx] \in deleted
       THEN /\ crashed' = TRUE
            /\ UNCHANGED <<globalEnding, workers, flags, masters>>
       ELSE /\ workers' = RemoveFirst(workers, over[midx])
            /\ SetInterrupt(over[midx])
            /\ globalEnding' = FALSE
            /\ MGoto("join")
            /\ UNCHANGED crashed
    /\ UNCHANGED <<models, strategyEnding, finalResult, waitJob, nJobs, next, over, created,
                   deleted, solvers, threads, mpc>>

\* The rest of the destructor: waitInterrupt, and worker->join().
JoinOver ==
    /\ master = "join"
    /\ wpc[over[midx]] = "done"
    /\ deleted' = deleted \cup {over[midx]}
    /\ master' = "erase" /\ midx' = midx + 1 /\ UNCHANGED last
    /\ UNCHANGED <<ending, nJobs, next, over, workers, created, flags, solvers, threads,
                   mpc, crashed>>

\* over.clear(), and the workers to divide: the first ones, within the bound.
Targets == Least(MaxCpus - 1, Len(workers))

ChooseTargets ==
    /\ master = "erase"
    /\ midx > Len(over)
    /\ created + Targets <= MaxWorkers
    /\ over' = <<>>
    /\ ForAll(Targets, "divide", "launch")
    /\ UNCHANGED <<ending, nJobs, next, workers, created, deleted, flags, solvers, threads,
                   mpc, crashed>>

\* Slip: the same literal is added to both.
BadHalves == {<<a, a>> : a \in SUBSET Point}

\* Any literal, by the assignments that satisfy it, and its negation.
Halves == {<<a, Point \ a>> : a \in SUBSET Point}

\* When the literals have been added, sort() reorders the workers if they are many.
Reordered(ws) == IF midx = last /\ 2 * Len(ws) > MaxNodes THEN SetToSeqs(ToSet(ws)) ELSE {ws}

\* The copy has the clauses of the solver, but not those that solve() has yet to
\* add.  A solver that runs (its thread passed the gate before the interrupt and
\* got to solve() after waitInterrupt) may not survive being copied.
Divide ==
    /\ master = "divide"
    /\ LET w == workers[midx]
           clone == created + 1 IN
         /\ \E h \in Halves :
              clausesToAdd' = [clausesToAdd EXCEPT ![w] = @ \cap h[1], ![clone] = h[2]]
         /\ formula' = [formula EXCEPT ![clone] = formula[w]]
         /\ created' = clone
         /\ workers' \in Reordered(Append(workers, clone))
         /\ crashed' \in {FALSE, wpc[w] = "solving"}
    /\ nJobs' = nJobs + 1
    /\ IF midx < last THEN NextOne("divide", "launch")
       ELSE ForAll(Least(MaxCpus - 1, Len(workers')), "launch", "head")
    /\ UNCHANGED <<ending, next, over, deleted, flags, threads, mpc>>

Launch ==
    /\ master = "launch"
    /\ IF last > 0 THEN Restart(workers[midx]) /\ wpc' = Woken(workers[midx], wpc)
                   ELSE UNCHANGED <<flags, wpc>>
    /\ NextOne("launch", "head")
    /\ next' = IF midx >= last THEN last ELSE next
    /\ UNCHANGED <<ending, nJobs, over, workers, created, deleted, solvers, res, mpc, crashed>>

Master ==
    \/ MasterLoop \/ WaitForJob \/ MasterStartsUncalled \/ LaunchPortfolio \/ LaunchRoot
    \/ NextRound \/ BeginRound \/ InterruptWorker \/ WaitWorker
    \/ EraseOver \/ JoinOver \/ ChooseTargets \/ Divide \/ Launch

-----------------------------------------------------------------------------
(* mainWorker and SequentialWorker::join: see Portfolio *)

\* The test of globalEnding, then of interrupt under interruptLock.
Gate(w) ==
    /\ wpc[w] = "loop"
    /\ WGoto(w, IF globalEnding THEN "done" ELSE IF interrupt[w] THEN "asleep" ELSE "ready")
    /\ UNCHANGED <<ending, lists, flags, solvers, masters, mpc, crashed>>

\* pthread_cond_wait is under an if: a worker nobody launched solves its sub-problem.
SpuriousWakeup(w) ==
    /\ wpc[w] = "asleep"
    /\ WGoto(w, "ready")
    /\ UNCHANGED <<ending, lists, flags, solvers, masters, mpc, crashed>>

\* solve() begins with the clauses to add.
StartSolving(w) ==
    /\ wpc[w] = "ready"
    /\ WGoto(w, "solving")
    /\ stop' = [stop EXCEPT ![w] = @ /\ ~ClearsInterrupt]
    /\ formula' = [formula EXCEPT ![w] = SubProblem(w)]
    /\ clausesToAdd' = [clausesToAdd EXCEPT ![w] = Point]
    /\ UNCHANGED <<ending, lists, interrupt, masters, mpc, crashed>>

\* A sound solver: the truth about its formula, or UNKNOWN once it is told to stop.
SolverEnds(w) ==
    /\ wpc[w] = "solving"
    /\ \E r \in {IF formula[w] \cap models = {} THEN "UNSAT" ELSE "SAT"}
                \cup (IF stop[w] THEN {"UNKNOWN"} ELSE {}) : res' = [res EXCEPT ![w] = r]
    /\ wpc' = [wpc EXCEPT ![w] = "report"]
    /\ UNCHANGED <<ending, lists, flags, solvers, masters, mpc, crashed>>

-----------------------------------------------------------------------------
(* CubeAndConquer::join *)

\* The early returns.
Returns(w) == globalEnding \/ res[w] = "UNKNOWN" \/ strategyEnding

IsOver(w) == ~Returns(w) /\ res[w] = "UNSAT" /\ w # 0

Report(w) ==
    /\ wpc[w] = "report"
    /\ ~IsOver(w)
    /\ IF Returns(w) THEN Return(w) ELSE WGoto(w, "end")
    /\ UNCHANGED <<ending, lists, flags, solvers, masters, mpc, crashed>>

\* Slip: the job is not counted as done.
BadCount(w) ==
    /\ wpc[w] = "report"
    /\ IsOver(w)
    /\ WGoto(w, "left")
    /\ UNCHANGED <<ending, lists, flags, solvers, masters, mpc, crashed>>

\* nJobs--; the worker is not interrupted, and solves again when it returns.
Count(w) ==
    /\ wpc[w] = "report"
    /\ IsOver(w)
    /\ nJobs' = nJobs - 1
    /\ WGoto(w, "left")
    /\ UNCHANGED <<ending, next, over, workers, created, deleted, flags, solvers, masters, mpc, crashed>>

\* nJobs is read again, and next is read.
SomeLeft(w) ==
    /\ wpc[w] = "left"
    /\ IF nJobs > 0
       THEN /\ over' = Append(over, w)
            /\ IF next < Len(workers) THEN WGoto(w, "launchNext") ELSE Return(w)
       ELSE UNCHANGED over /\ WGoto(w, "end")
    /\ UNCHANGED <<ending, nJobs, next, workers, created, deleted, flags, solvers, masters, mpc, crashed>>

\* workers[next]->solve, beyond the end if another worker has come in between.
LaunchNext(w) ==
    /\ wpc[w] = "launchNext"
    /\ IF next < Len(workers)
       THEN /\ Restart(workers[next + 1])
            /\ wpc' = [Woken(workers[next + 1], wpc) EXCEPT ![w] = "incNext"]
            /\ UNCHANGED crashed
       ELSE crashed' = TRUE /\ UNCHANGED <<flags, wpc>>
    /\ UNCHANGED <<ending, lists, solvers, res, masters, mpc>>

IncNext(w) ==
    /\ wpc[w] = "incNext"
    /\ next' = next + 1
    /\ Return(w)
    /\ UNCHANGED <<ending, nJobs, over, workers, created, deleted, flags, solvers, masters, mpc, crashed>>

\* The end of join, in one step: Portfolio has the same one step by step.
EndStrategy(w) ==
    /\ wpc[w] = "end"
    /\ strategyEnding' = TRUE
    /\ interrupt' = [s \in Slave |-> interrupt[s] \/ s \in Exists]
    /\ stop' = [s \in Slave |-> stop[s] \/ s \in Exists]
    /\ globalEnding' = TRUE
    /\ finalResult' = res[w]
    /\ Return(w)
    /\ UNCHANGED <<models, waitJob, lists, solvers, masters, mpc, crashed>>

Work(w) ==
    /\ w <= created
    /\ \/ Gate(w) \/ SpuriousWakeup(w) \/ StartSolving(w) \/ SolverEnds(w)
       \/ Report(w) \/ Count(w) \/ SomeLeft(w) \/ LaunchNext(w) \/ IncNext(w)
       \/ EndStrategy(w)

-----------------------------------------------------------------------------
(* The main thread: solve *)

SetJob ==
    /\ mpc = "solve"
    /\ strategyEnding' = FALSE
    /\ nJobs' = 1
    /\ waitJob' = FALSE
    /\ mpc' = "signal"
    /\ UNCHANGED <<models, globalEnding, finalResult, next, over, workers, created, deleted,
                   flags, solvers, threads, masters, crashed>>

SignalStart ==
    /\ mpc = "signal"
    /\ master' = IF master = "waitStart" THEN "clone" ELSE master
    /\ mpc' = "poll"
    /\ UNCHANGED <<ending, lists, flags, solvers, threads, midx, last, crashed>>

Main == SetJob \/ SignalStart

Next ==
    /\ ~crashed
    /\ \/ Master
       \/ \E w \in Slave : Work(w)
       \/ Main

Spec == Init /\ [][Next]_vars

-----------------------------------------------------------------------------
(* Properties *)

\* The range of every variable.  nJobs can fall below zero: every worker that
\* joins before strategyEnding is set takes one from it.  The master's loops stay
\* within workers.
TypeOK ==
    /\ models \in SUBSET Point
    /\ {globalEnding, strategyEnding, waitJob, crashed} \subseteq BOOLEAN
    /\ finalResult \in {"UNKNOWN", "SAT", "UNSAT"}
    /\ nJobs \in (1 - MaxWorkers)..MaxWorkers /\ next \in Nat
    /\ over \in Seq(Slave) /\ workers \in Seq(Slave)
    /\ created \in Slave /\ deleted \subseteq Slave
    /\ {interrupt, stop} \subseteq [Slave -> BOOLEAN]
    /\ {formula, clausesToAdd} \subseteq [Slave -> SUBSET Point]
    /\ wpc \in [Slave -> WLocation]
    /\ res \in [Slave -> {"UNKNOWN", "SAT", "UNSAT"}]
    /\ master \in MasterLocation /\ midx \in Nat /\ last \in Nat
    /\ master \in {"interrupt", "wait", "divide"} => midx \in 1..last /\ last <= Len(workers)
    /\ mpc \in MainLocation

\* No part of the search space is lost, whatever is divided, reordered and
\* erased: every solution lies in the sub-problem of a worker that is not over.
ModelsCovered ==
    workers # <<>> => models \subseteq UNION {SubProblem(w) : w \in ToSet(workers) \ ToSet(over)}

\* Each job that nJobs counts has a worker that is not over, whatever joins and
\* divides meanwhile: once the workers have refuted all sub-problems, no job is
\* left and join ends the search.
EveryJobHasAWorker ==
    workers # <<>> => nJobs <= Cardinality(ToSet(workers) \ ToSet(over))

\* nJobs and over, which every join and every round of divisions touch, agree.
JobsAreCounted == TypeOK /\ EveryJobHasAWorker

\* "UNSAT sub-problem resolved, %d left" (CubeAndConquer.cpp, join): nJobs counts
\* the sub-problems left, so one is left while a sub-problem has a solution.
JobsAreLeft ==
    nJobs <= 0 /\ workers # <<>> => \A w \in ToSet(workers) : SubProblem(w) \cap models = {}

=============================================================================
