----------------------------- MODULE Portfolio -----------------------------
(***************************************************************************)
(* painless with -wkr-strat 1: a Portfolio of SequentialWorkers, each a    *)
(* thread that runs one solver on the whole formula, and the main thread   *)
(* that starts them, polls for the end of the search, and deletes them     *)
(* (working/SequentialWorker.cpp, working/Portfolio.cpp, painless.cpp).    *)
(*                                                                         *)
(* A step is an access to a shared atomic, or a critical section.  A       *)
(* solver is external: a sound procedure that ends with the truth about    *)
(* the formula, or with UNKNOWN once it has been interrupted.              *)
(***************************************************************************)
EXTENDS Naturals, FiniteSets

CONSTANTS
    N,                \* the number of slaves (parameter -c)
    Truth,            \* "SAT" or "UNSAT": what a sound solver may answer
    ClearsInterrupt,  \* TRUE: solve() starts with unsetSolverInterrupt()
                      \* (glucose, maple); FALSE: it does not (minisat, lingeling)
    PromptWorkers,    \* TRUE: during main's sleep(1) every worker gets as far as it can
    SpuriousWakeups   \* TRUE: pthread_cond_wait may return without a signal

ASSUME SlaveCount == N \in Nat \ {0}
ASSUME TruthIsVerdict == Truth \in {"SAT", "UNSAT"}
ASSUME Options == {ClearsInterrupt, PromptWorkers, SpuriousWakeups} \subseteq BOOLEAN

Worker == 1..N

VARIABLES
    globalEnding, strategyEnding, finalResult,
    modelSet,      \* finalModel has been assigned
    interrupt,     \* SequentialWorker::interrupt
    stop,          \* the interrupt flag inside each solver
    wpc,           \* where each worker thread is
    res,           \* its local res
    widx,          \* its position in Portfolio::setInterrupt
    mpc, midx,     \* where the main thread is, and on which slave
    timedOut,      \* the timeout has struck
    alive          \* the SequentialWorkers not yet deleted

shared == <<globalEnding, strategyEnding, finalResult, modelSet>>
flags == <<interrupt, stop>>
workers == <<wpc, res, widx>>
main == <<mpc, midx, timedOut, alive>>
vars == <<shared, flags, workers, main>>

WLocation == {"loop", "gate", "asleep", "ready", "solving", "report", "claim", "setInterrupt",
              "setStop", "end", "result", "model", "done"}
MLocation == {"start", "unsetStop", "unsetInterrupt", "signal", "poll", "timeoutInterrupt",
              "timeoutStop", "delete", "dtorInterrupt", "dtorStop", "dtorWait", "dtorJoin", "exit"}

WGoto(w, l) == wpc' = [wpc EXCEPT ![w] = l]
MGoto(l) == mpc' = l /\ UNCHANGED <<midx, timedOut, alive>>

\* The next slave of a loop over slaves, or what follows the loop.
NextSlave(again, after) ==
    IF midx < N THEN mpc' = again /\ midx' = midx + 1
                ELSE mpc' = after /\ midx' = 1

\* The constructors have run, so every thread may have started.  Portfolio's
\* leaves strategyEnding uninitialised.
Init ==
    /\ globalEnding = FALSE
    /\ strategyEnding \in BOOLEAN
    /\ finalResult = "UNKNOWN"
    /\ modelSet = FALSE
    /\ interrupt = [w \in Worker |-> TRUE]
    /\ stop = [w \in Worker |-> FALSE]
    /\ wpc = [w \in Worker |-> "loop"]
    /\ res = [w \in Worker |-> "UNKNOWN"]
    /\ widx = [w \in Worker |-> 1]
    /\ mpc = "start" /\ midx = 1
    /\ timedOut = FALSE
    /\ alive = Worker

-----------------------------------------------------------------------------
(* mainWorker *)

Loop(w) ==
    /\ wpc[w] = "loop"
    /\ WGoto(w, IF globalEnding THEN "done" ELSE "gate")
    /\ UNCHANGED <<shared, flags, res, widx, main>>

\* The critical section under interruptLock: no signal can come between the
\* test of interrupt and the wait.
Gate(w) ==
    /\ wpc[w] = "gate"
    /\ WGoto(w, IF interrupt[w] THEN "asleep" ELSE "ready")
    /\ UNCHANGED <<shared, flags, res, widx, main>>

\* pthread_cond_wait is under an if, not in a loop.
SpuriousWakeup(w) ==
    /\ SpuriousWakeups
    /\ wpc[w] = "asleep"
    /\ WGoto(w, "ready")
    /\ UNCHANGED <<shared, flags, res, widx, main>>

\* waitInterruptLock is held while "solving".
StartSolving(w) ==
    /\ wpc[w] = "ready"
    /\ WGoto(w, "solving")
    /\ stop' = IF ClearsInterrupt THEN [stop EXCEPT ![w] = FALSE] ELSE stop
    /\ UNCHANGED <<shared, interrupt, res, widx, main>>

SolverEnds(w) ==
    /\ wpc[w] = "solving"
    /\ \E r \in IF stop[w] THEN {Truth, "UNKNOWN"} ELSE {Truth} :
          res' = [res EXCEPT ![w] = r]
    /\ WGoto(w, "report")
    /\ UNCHANGED <<shared, flags, widx, main>>

-----------------------------------------------------------------------------
(* SequentialWorker::join, which calls Portfolio::join *)

\* The early returns of both; the tests and the claim below are not atomic.
Report(w) ==
    /\ wpc[w] = "report"
    /\ WGoto(w, IF globalEnding \/ res[w] = "UNKNOWN" \/ strategyEnding THEN "loop" ELSE "claim")
    /\ UNCHANGED <<shared, flags, res, widx, main>>

Claim(w) ==
    /\ wpc[w] = "claim"
    /\ strategyEnding' = TRUE
    /\ WGoto(w, "setInterrupt")
    /\ UNCHANGED <<globalEnding, finalResult, modelSet, flags, res, widx, main>>

\* setInterrupt on each slave, the caller's own worker included
InterruptSlave(w) ==
    /\ wpc[w] = "setInterrupt"
    /\ interrupt' = [interrupt EXCEPT ![widx[w]] = TRUE]
    /\ WGoto(w, "setStop")
    /\ UNCHANGED <<shared, stop, res, widx, main>>

StopSlave(w) ==
    /\ wpc[w] = "setStop"
    /\ stop' = [stop EXCEPT ![widx[w]] = TRUE]
    /\ IF widx[w] < N
       THEN WGoto(w, "setInterrupt") /\ widx' = [widx EXCEPT ![w] = @ + 1]
       ELSE WGoto(w, "end") /\ widx' = [widx EXCEPT ![w] = 1]
    /\ UNCHANGED <<shared, interrupt, res, main>>

EndSearch(w) ==
    /\ wpc[w] = "end"
    /\ globalEnding' = TRUE
    /\ WGoto(w, "result")
    /\ UNCHANGED <<strategyEnding, finalResult, modelSet, flags, res, widx, main>>

SetResult(w) ==
    /\ wpc[w] = "result"
    /\ finalResult' = res[w]
    /\ WGoto(w, IF res[w] = "SAT" THEN "model" ELSE "loop")
    /\ UNCHANGED <<globalEnding, strategyEnding, modelSet, flags, res, widx, main>>

SetModel(w) ==
    /\ wpc[w] = "model"
    /\ modelSet' = TRUE
    /\ WGoto(w, "loop")
    /\ UNCHANGED <<globalEnding, strategyEnding, finalResult, flags, res, widx, main>>

Work(w) ==
    \/ Loop(w) \/ Gate(w) \/ StartSolving(w) \/ SolverEnds(w) \/ Report(w) \/ Claim(w)
    \/ InterruptSlave(w) \/ StopSlave(w) \/ EndSearch(w) \/ SetResult(w) \/ SetModel(w)

-----------------------------------------------------------------------------
(* main: working->solve *)

StartPortfolio ==
    /\ mpc = "start"
    /\ strategyEnding' = FALSE
    /\ MGoto("unsetStop")
    /\ UNCHANGED <<globalEnding, finalResult, modelSet, flags, workers>>

UnsetStop ==
    /\ mpc = "unsetStop"
    /\ stop' = [stop EXCEPT ![midx] = FALSE]
    /\ MGoto("unsetInterrupt")
    /\ UNCHANGED <<shared, interrupt, workers>>

UnsetInterrupt ==
    /\ mpc = "unsetInterrupt"
    /\ interrupt' = [interrupt EXCEPT ![midx] = FALSE]
    /\ MGoto("signal")
    /\ UNCHANGED <<shared, stop, workers>>

\* Slip: no pthread_cond_signal.
BadSignal ==
    /\ mpc = "signal"
    /\ NextSlave("unsetStop", "poll")
    /\ UNCHANGED <<shared, flags, workers, timedOut, alive>>

Signal ==
    /\ mpc = "signal"
    /\ wpc' = [wpc EXCEPT ![midx] = IF @ = "asleep" THEN "ready" ELSE @]
    /\ NextSlave("unsetStop", "poll")
    /\ UNCHANGED <<shared, flags, res, widx, timedOut, alive>>

-----------------------------------------------------------------------------
(* main: wait until end or timeout *)

Timeout ==
    /\ mpc = "poll"
    /\ ~timedOut
    /\ globalEnding' = TRUE
    /\ timedOut' = TRUE
    /\ mpc' = "timeoutInterrupt"
    /\ UNCHANGED <<strategyEnding, finalResult, modelSet, flags, workers, midx, alive>>

TimeoutInterrupt ==
    /\ mpc = "timeoutInterrupt"
    /\ interrupt' = [interrupt EXCEPT ![midx] = TRUE]
    /\ MGoto("timeoutStop")
    /\ UNCHANGED <<shared, stop, workers>>

TimeoutStop ==
    /\ mpc = "timeoutStop"
    /\ stop' = [stop EXCEPT ![midx] = TRUE]
    /\ NextSlave("timeoutInterrupt", "poll")
    /\ UNCHANGED <<shared, interrupt, workers, timedOut, alive>>

Settled == \A w \in Worker : wpc[w] \in {"asleep", "done"}

PollEnds ==
    /\ mpc = "poll"
    /\ globalEnding
    /\ PromptWorkers => Settled
    /\ MGoto("delete")
    /\ UNCHANGED <<shared, flags, workers>>

-----------------------------------------------------------------------------
(* main: delete working, that is ~SequentialWorker on each slave *)

Delete ==
    /\ mpc = "delete"
    /\ globalEnding' = FALSE
    /\ MGoto("dtorInterrupt")
    /\ UNCHANGED <<strategyEnding, finalResult, modelSet, flags, workers>>

\* Slip: the destructor leaves it to an earlier setInterrupt.
BadDtorInterrupt ==
    /\ mpc = "dtorInterrupt"
    /\ MGoto("dtorStop")
    /\ UNCHANGED <<shared, flags, workers>>

DtorInterrupt ==
    /\ mpc = "dtorInterrupt"
    /\ interrupt' = [interrupt EXCEPT ![midx] = TRUE]
    /\ MGoto("dtorStop")
    /\ UNCHANGED <<shared, stop, workers>>

DtorStop ==
    /\ mpc = "dtorStop"
    /\ stop' = [stop EXCEPT ![midx] = TRUE]
    /\ MGoto("dtorWait")
    /\ UNCHANGED <<shared, interrupt, workers>>

\* waitInterrupt
DtorWait ==
    /\ mpc = "dtorWait"
    /\ wpc[midx] # "solving"
    /\ MGoto("dtorJoin")
    /\ UNCHANGED <<shared, flags, workers>>

\* Slip: worker->join() is forgotten.
BadJoinable == TRUE

Joinable == wpc[midx] = "done"

DtorJoin ==
    /\ mpc = "dtorJoin"
    /\ Joinable
    /\ alive' = alive \ {midx}
    /\ NextSlave("delete", "exit")
    /\ UNCHANGED <<shared, flags, workers, timedOut>>

Main ==
    \/ StartPortfolio \/ UnsetStop \/ UnsetInterrupt \/ Signal
    \/ TimeoutInterrupt \/ TimeoutStop \/ PollEnds
    \/ Delete \/ DtorInterrupt \/ DtorStop \/ DtorWait \/ DtorJoin

Next ==
    \/ \E w \in Worker : Work(w) \/ SpuriousWakeup(w)
    \/ Main
    \/ Timeout

Spec == Init /\ [][Next]_vars

\* The operating system schedules every thread that can run, and a solver that
\* runs ends some day.  A spurious wakeup may never come, and comes finitely often.
FairSpec ==
    /\ Spec
    /\ WF_vars(Main)
    /\ \A w \in Worker : WF_vars(Work(w))
    /\ <>[][\A w \in Worker : ~SpuriousWakeup(w)]_vars

-----------------------------------------------------------------------------
(* Properties *)

\* The range of every variable.
TypeOK ==
    /\ globalEnding \in BOOLEAN /\ strategyEnding \in BOOLEAN
    /\ finalResult \in {"UNKNOWN", Truth}
    /\ modelSet \in BOOLEAN
    /\ interrupt \in [Worker -> BOOLEAN] /\ stop \in [Worker -> BOOLEAN]
    /\ wpc \in [Worker -> WLocation]
    /\ res \in [Worker -> {"UNKNOWN", Truth}]
    /\ widx \in [Worker -> Worker]
    /\ mpc \in MLocation /\ midx \in Worker
    /\ timedOut \in BOOLEAN
    /\ alive \in SUBSET Worker

\* What main prints.  finalResult and finalModel are assigned after
\* globalEnding, which main polls: they are complete when main prints them only
\* because deleting the slaves waits for the winner's thread.
ExitResult ==
    mpc = "exit" => /\ finalResult = Truth \/ (timedOut /\ finalResult = "UNKNOWN")
                    /\ finalResult = "SAT" => modelSet

\* The start handshake loses no wakeup: a worker asleep without having been
\* interrupted is one that main is about to signal.
NoLostWakeup ==
    \A w \in Worker :
        wpc[w] = "asleep" /\ ~interrupt[w] => mpc = "signal" /\ midx = w

\* A slave is deleted when its thread has ended, so that no thread runs on a
\* SequentialWorker that is gone.
DeletedHaveEnded == \A w \in Worker \ alive : wpc[w] = "done"

\* From the start handshake to the destructors, no thread is left behind and none
\* outlives what it runs on.
ThreadsAreSafe == TypeOK /\ NoLostWakeup /\ DeletedHaveEnded

\* Whatever the workers do while main is still starting them, the search ends.  Deleting the
\* strategy then interrupts every slave, also one whose interrupt main had withdrawn while it was
\* starting: main gets to its exit, or joins a thread that has gone to sleep and that nobody will
\* wake (it saw the winner's setInterrupt before globalEnding was set).  It hangs nowhere else.
OnlySleepersBlockMain ==
    <>(mpc = "exit" \/ (mpc = "dtorJoin" /\ wpc[midx] = "asleep"))

=============================================================================
