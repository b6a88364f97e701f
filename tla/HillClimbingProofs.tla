------------------------- MODULE HillClimbingProofs -------------------------
(***************************************************************************)
(* Proofs about HillClimbing for every number of threads, of moves, of     *)
(* bag sizes and of rises of the score.                                    *)
(*                                                                         *)
(* The inductive invariant says what tasksTotal counts (the tasks queued,  *)
(* running, and the one that is counted and not yet queued), how much of   *)
(* the moves the batches pushed so far have used up, what the winners of a *)
(* round have left behind, and where each improving move still is.         *)
(***************************************************************************)
EXTENDS HillClimbing, Integers, FiniteSetTheorems, SequenceTheorems, TLAPS

Pushing == {"count", "push"}
Waiting == {"count", "push", "check", "goToSleep", "sleeping"}
InRound == Waiting \cup {"resetQueue", "apply"}

Busy == {t \in Thread : tpc[t] \in InTask}
Pending == IF mpc = "push" THEN 1 ELSE 0

\* tasksTotal counts the tasks, each from before it is queued until it is over.
CountInv ==
    /\ tasksTotal = Len(tasks) + Cardinality(Busy) + Pending
    /\ mpc \in Pushing => tasksTotal <= thread - 1 + Pending
    /\ mpc \notin Waiting => tasksTotal = 0

\* What the threads that have not had a batch yet will get is what is left.
BatchInv ==
    /\ mpc \in Pushing => /\ remains <= N - thread
                          /\ n - prev = (N - thread + 1) * (n \div N) + remains
    /\ mpc \in InRound \ Pushing => prev = n
    /\ mpc \notin Pushing => thread = 1
    /\ mpc \in InRound => score < MaxScore

\* The locals of the round exist during the round.
RoundInv ==
    /\ improving \subseteq 0..(n - 1)
    /\ mpc \notin InRound => prev = 0 /\ improving = {} /\ newMetaValues = <<>>

\* What the winners of the round leave behind.
FindInv ==
    /\ \A t \in Thread : tpc[t] \in {"found", "claim", "record"} => candidate[t] \in improving
    /\ newMetaValues # <<>> =>
          solution \in improving /\ solution = newMetaValues[Len(newMetaValues)]
    /\ mpc \in InRound /\ isSolutionFound =>
          newMetaValues # <<>> \/ \E t \in Thread : tpc[t] = "record"

\* A move of a batch.
In(m, b) == b.start <= m /\ m < b.end

\* A move that has been neither looked at nor given up.
Ahead(m) ==
    \/ isSolutionFound \/ stopped
    \/ prev <= m
    \/ \E k \in 1..Len(tasks) : In(m, tasks[k])
    \/ \E t \in Thread : tpc[t] \in {"search", "found", "claim"} /\ In(m, batch[t])

\* No improving move is behind.
AheadInv == \A m \in improving : Ahead(m)

IInv == TypeOK /\ CountInv /\ BatchInv /\ RoundInv /\ FindInv /\ AheadInv

-----------------------------------------------------------------------------
(* Threads, batches and arithmetic *)

\* The constants.
LEMMA Constants ==
    /\ N \in Nat /\ N >= 1 /\ MaxMoves \in Nat /\ MaxScore \in Nat /\ MaxBag \in Nat /\ MaxBag >= 1
    /\ 1 \in Thread /\ IsFiniteSet(Thread)
    /\ \A t \in Thread : t \in Nat /\ 1 <= t /\ t <= N /\ (t < N => t + 1 \in Thread)
    /\ Move \subseteq Nat /\ \A m \in Move : m < MaxMoves
  BY Bounds, FS_Interval DEF Thread, Move

\* The steps of a worker that neither begin nor end a task.
Light(t) ==
    \/ TestRunning(t) \/ PopNothing(t) \/ TestTotal(t) \/ NotifyAll(t) \/ BatchDone(t)
    \/ MoveImproves(t) \/ MoveFails(t) \/ TestFound(t) \/ ClaimFound(t) \/ Record(t)

\* What they leave alone.
LEMMA LightFacts ==
    ASSUME TypeOK, NEW t \in Thread, Light(t)
    PROVE  /\ UNCHANGED <<pool, stopped, moves, climb>>
           /\ mpc' = mpc \/ (mpc = "sleeping" /\ mpc' = "check")
           /\ \A u \in Thread : u # t =>
                 tpc'[u] = tpc[u] /\ batch'[u] = batch[u] /\ candidate'[u] = candidate[u]
           /\ tpc'[t] \in TLocation
           /\ tpc[t] \in InTask <=> tpc'[t] \in InTask
           /\ tpc' \in [Thread -> TLocation]
<1> USE DEF TypeOK, Goto, InTask, TLocation
<1>1. CASE TestRunning(t) \/ PopNothing(t) \/ TestTotal(t) \/ NotifyAll(t)
  BY <1>1 DEF TestRunning, PopNothing, TestTotal, NotifyAll
<1>2. CASE BatchDone(t) \/ MoveImproves(t) \/ TestFound(t)
  BY <1>2 DEF BatchDone, MoveImproves, TestFound
<1>3. CASE ClaimFound(t) \/ Record(t)
  BY <1>3 DEF ClaimFound, Record
<1>4. CASE MoveFails(t)
  <2>1. CASE GiveUp
    BY <1>4, <2>1 DEF MoveFails
  <2>2. CASE ~GiveUp
    BY <1>4, <2>2 DEF MoveFails
  <2> QED
    BY <2>1, <2>2
<1> QED
  BY <1>1, <1>2, <1>3, <1>4 DEF Light

\* The cases of a step.
LEMMA StepCases ==
    ASSUME Next
    PROVE  \/ \E t \in Thread : Light(t) \/ PopTask(t) \/ Finish(t)
           \/ StartRound \/ CountTask \/ PushTask \/ ResetQueue \/ Apply
           \/ LeaveLoop \/ CheckTotal \/ GoToSleep \/ WaitForTasks \/ StopRunning \/ DestroyThreads
           \/ SpuriousWakeup \/ Interrupt
  BY DEF Next, Main, Work, Light

\* The division of the moves, and what is left of them for the next batch.
LEMMA Shares ==
    ASSUME NEW m \in Nat
    PROVE  /\ m \div N \in Nat /\ m % N \in 0..(N - 1)
           /\ m = N * (m \div N) + (m % N)
<1>1. N \in Nat /\ N >= 1
  BY Constants
<1>2. m % N \in 0..(N - 1)
  BY <1>1
<1>3. m \div N \in Int /\ m = N * (m \div N) + (m % N)
  BY <1>1
<1>4. m \div N >= 0
  BY <1>1
<1> QED
  BY <1>2, <1>3, <1>4

\* What a batch takes from what is left.
LEMMA NextBatch ==
    ASSUME IInv, mpc \in Pushing
    PROVE  /\ BatchEnd \in prev..n
           /\ n - BatchEnd = (N - thread) * (n \div N) + (IF remains > 0 THEN remains - 1 ELSE 0)
           /\ thread = N => BatchEnd = n
           /\ thread < N => (IF remains > 0 THEN remains - 1 ELSE 0) <= N - (thread + 1)
<1>1. /\ n \in Nat /\ prev \in Nat /\ remains \in Nat /\ thread \in Nat /\ 1 <= thread /\ thread <= N
      /\ N \in Nat
  BY Constants DEF IInv, TypeOK
<1>2. remains <= N - thread /\ n - prev = (N - thread + 1) * (n \div N) + remains
  BY DEF IInv, BatchInv
<1>3. PICK q \in Nat : q = n \div N
  BY <1>1, Shares
<1>4. PICK k \in Nat : k = N - thread
  BY <1>1
<1>5. (k + 1) * q = k * q + q /\ k * q \in Nat
  BY <1>3, <1>4
<1>6. n - prev = k * q + q + remains
  <2>1. N - thread + 1 = k + 1
    BY <1>1, <1>4
  <2> QED
    BY <1>2, <1>3, <1>5, <2>1
<1>7. PICK kq \in Nat : kq = k * q
  BY <1>5
<1>8. /\ BatchEnd \in prev..n
      /\ n - BatchEnd = kq + (IF remains > 0 THEN remains - 1 ELSE 0)
  BY <1>1, <1>3, <1>6, <1>7 DEF BatchEnd
<1>9. thread = N => BatchEnd = n
  <2> SUFFICES ASSUME thread = N PROVE BatchEnd = n
    OBVIOUS
  <2>1. k = 0 /\ remains = 0
    BY <1>1, <1>2, <1>4
  <2>2. kq = 0
    BY <1>3, <1>7, <2>1
  <2> QED
    BY <1>1, <1>3, <1>6, <1>7, <2>1, <2>2 DEF BatchEnd
<1> QED
  BY <1>1, <1>2, <1>3, <1>4, <1>7, <1>8, <1>9

-----------------------------------------------------------------------------
(* Types *)

\* A task that is popped was a task; what is left is a queue of tasks.
LEMMA FirstTask ==
    ASSUME NEW T, NEW q \in Seq(T), q # <<>>
    PROVE  /\ Head(q) \in T /\ Tail(q) \in Seq(T) /\ Len(Tail(q)) = Len(q) - 1
           /\ Len(q) \in Nat /\ Len(q) >= 1
           /\ Head(q) = q[1]
           /\ \A k \in 1..(Len(q) - 1) : Tail(q)[k] = q[k + 1]
  BY HeadTailProperties

\* Every variable keeps its range.
LEMMA TypeStep == ASSUME IInv, Next PROVE TypeOK'
<1>0. TypeOK
  BY DEF IInv
<1>a. \A l \in TLocation, t \in Thread : Goto(t, l) => tpc' \in [Thread -> TLocation]
  BY <1>0 DEF Goto, TypeOK
<1>1. ASSUME NEW t \in Thread, Light(t) PROVE TypeOK'
  <2>1. /\ UNCHANGED <<tasks, tasksTotal, running, stopped, improving, n, prev, remains, thread,
                       changed, bag, score>>
        /\ mpc' = mpc \/ (mpc = "sleeping" /\ mpc' = "check")
        /\ tpc' \in [Thread -> TLocation]
    BY <1>0, <1>1, LightFacts DEF pool, moves, climb
  <2>2. mpc' \in MLocation
    BY <1>0, <2>1 DEF TypeOK, MLocation
  <2>3. batch' \in [Thread -> [start : 0..MaxMoves, end : 0..MaxMoves]]
    <3>1. CASE MoveFails(t)
      <4>1. CASE GiveUp
        BY <1>0, <3>1, <4>1 DEF MoveFails, TypeOK
      <4>2. CASE ~GiveUp
        <5>1. batch' = [batch EXCEPT ![t].start = @ + 1] /\ batch[t].start < batch[t].end
          BY <3>1, <4>2 DEF MoveFails
        <5>2. batch[t].start + 1 \in 0..MaxMoves
          <6>1. batch[t].start \in 0..MaxMoves /\ batch[t].end \in 0..MaxMoves /\ MaxMoves \in Nat
            BY <1>0, Constants DEF TypeOK
          <6> QED
            BY <5>1, <6>1
        <5> QED
          BY <1>0, <5>1, <5>2 DEF TypeOK
      <4> QED
        BY <4>1, <4>2
    <3>2. CASE ~MoveFails(t)
      BY <1>0, <1>1, <3>2 DEF Light, TypeOK, TestRunning, PopNothing, TestTotal, NotifyAll, BatchDone,
         MoveImproves, TestFound, ClaimFound, Record, workers
    <3> QED
      BY <3>1, <3>2
  <2>4. candidate' \in [Thread -> Move \cup {None}]
    <3>1. CASE MoveImproves(t)
      <4>1. batch[t].start \in Move
        BY <1>0, <3>1 DEF MoveImproves, TypeOK
      <4> QED
        BY <1>0, <3>1, <4>1 DEF MoveImproves, TypeOK
    <3>2. CASE ~MoveImproves(t)
      BY <1>0, <1>1, <3>2 DEF Light, TypeOK, TestRunning, PopNothing, TestTotal, NotifyAll, BatchDone,
         MoveFails, TestFound, ClaimFound, Record, workers
    <3> QED
      BY <3>1, <3>2
  <2>5. /\ isSolutionFound' \in BOOLEAN /\ solution' \in Move \cup {None}
        /\ newMetaValues' \in Seq(Move)
    <3>1. CASE Record(t)
      <4>1. candidate[t] \in Move
        BY <1>0, <3>1 DEF Record, IInv, FindInv, TypeOK
      <4>2. Append(newMetaValues, candidate[t]) \in Seq(Move)
        BY <1>0, <4>1, AppendProperties DEF TypeOK
      <4> QED
        BY <1>0, <3>1, <4>1, <4>2 DEF Record, TypeOK
    <3>2. CASE ClaimFound(t)
      BY <1>0, <3>2 DEF ClaimFound, TypeOK
    <3>3. CASE ~Record(t) /\ ~ClaimFound(t)
      BY <1>0, <1>1, <3>3 DEF Light, TypeOK, TestRunning, PopNothing, TestTotal, NotifyAll, BatchDone,
         MoveFails, TestFound, MoveImproves, round
    <3> QED
      BY <3>1, <3>2, <3>3
  <2> QED
    BY <1>0, <2>1, <2>2, <2>3, <2>4, <2>5 DEF TypeOK
<1>2. ASSUME NEW t \in Thread, PopTask(t) PROVE TypeOK'
  <2> DEFINE T == [start : 0..MaxMoves, end : 0..MaxMoves]
  <2>1. tasks \in Seq(T) /\ tasks # <<>>
    BY <1>0, <1>2 DEF PopTask, TypeOK
  <2> HIDE DEF T
  <2>2. Head(tasks) \in T /\ Tail(tasks) \in Seq(T)
    BY <2>1, FirstTask
  <2> USE DEF T
  <2>3. batch' \in [Thread -> T] /\ tasks' \in Seq(T)
    BY <1>0, <1>2, <2>2 DEF PopTask, TypeOK
  <2>4. tpc' \in [Thread -> TLocation]
    BY <1>a, <1>2 DEF PopTask, TLocation
  <2> QED
    BY <1>0, <1>2, <2>3, <2>4 DEF PopTask, TypeOK, round, moves, climb
<1>3. ASSUME NEW t \in Thread, Finish(t) PROVE TypeOK'
  <2>1. tasksTotal - 1 \in 0..N
    <3>1. t \in Busy /\ IsFiniteSet(Busy)
      BY <1>3, Constants, FS_Subset DEF Busy, Finish, InTask
    <3>2. Cardinality(Busy) \in Nat /\ Cardinality(Busy) # 0
      BY <3>1, FS_CardinalityType, FS_EmptySet
    <3>3. tasksTotal = Len(tasks) + Cardinality(Busy) + Pending /\ Pending \in {0, 1}
      BY DEF IInv, CountInv, Pending
    <3>4. Len(tasks) \in Nat
      BY <1>0 DEF TypeOK
    <3>5. tasksTotal \in 0..N /\ N \in Nat
      BY <1>0, Constants DEF TypeOK
    <3> QED
      BY <3>2, <3>3, <3>4, <3>5
  <2>2. tpc' \in [Thread -> TLocation]
    BY <1>a, <1>3 DEF Finish, TLocation
  <2>3. NoBatch \in [start : 0..MaxMoves, end : 0..MaxMoves]
    BY Constants DEF NoBatch
  <2>4. /\ batch' \in [Thread -> [start : 0..MaxMoves, end : 0..MaxMoves]]
        /\ candidate' \in [Thread -> Move \cup {None}]
    BY <1>0, <1>3, <2>3 DEF Finish, TypeOK
  <2> QED
    BY <1>0, <1>3, <2>1, <2>2, <2>4 DEF Finish, TypeOK, round, moves, climb
<1>4. CASE StartRound
  <2>1. PICK m \in 0..MaxMoves : /\ n' = m
                                 /\ improving' \in SUBSET (0..(m - 1))
                                 /\ remains' = m % N
    BY <1>4 DEF StartRound
  <2>2. remains' \in 0..(N - 1)
    BY <2>1, Shares
  <2>3. improving' \subseteq Move
    BY <2>1, Constants DEF Move
  <2> QED
    BY <1>0, <1>4, <2>1, <2>2, <2>3 DEF StartRound, TypeOK, NoneFound, pool, workers, MLocation
<1>5. CASE CountTask
  <2>1. tasksTotal + 1 \in 0..N
    <3>1. tasksTotal <= thread - 1
      <4>1. mpc \in Pushing /\ Pending = 0
        BY <1>5 DEF CountTask, Pushing, Pending
      <4>2. tasksTotal <= thread - 1 + 0
        BY <4>1 DEF IInv, CountInv
      <4>3. thread \in Nat
        BY <1>0, Constants DEF TypeOK
      <4> QED
        BY <4>2, <4>3
    <3>2. thread \in Nat /\ thread <= N /\ N \in Nat /\ tasksTotal \in Nat
      BY <1>0, Constants DEF TypeOK
    <3> QED
      BY <3>1, <3>2
  <2> QED
    BY <1>0, <1>5, <2>1 DEF CountTask, TypeOK, workers, round, moves, climb, MLocation
<1>6. CASE PushTask
  <2>1. BatchEnd \in 0..MaxMoves /\ prev \in 0..MaxMoves
    <3>1. mpc \in Pushing
      BY <1>6 DEF Pushing, PushTask
    <3>2. BatchEnd \in prev..n
      BY <3>1, NextBatch
    <3>3. prev \in Nat /\ n \in Nat /\ prev <= MaxMoves /\ n <= MaxMoves /\ MaxMoves \in Nat
      BY <1>0, Constants DEF TypeOK
    <3> QED
      BY <3>2, <3>3
  <2>2. [start |-> prev, end |-> BatchEnd] \in [start : 0..MaxMoves, end : 0..MaxMoves]
    BY <2>1
  <2>3. tasks' \in Seq([start : 0..MaxMoves, end : 0..MaxMoves])
    BY <1>0, <1>6, <2>2, AppendProperties DEF PushTask, TypeOK
  <2>4. remains' \in 0..(N - 1)
    <3>1. remains' = IF remains > 0 THEN remains - 1 ELSE 0
      BY <1>6 DEF PushTask
    <3>2. remains \in Nat /\ remains <= N - 1 /\ N \in Nat /\ N >= 1
      BY <1>0, Constants DEF TypeOK
    <3> QED
      BY <3>1, <3>2
  <2>5. thread' \in Thread /\ mpc' \in MLocation
    <3>1. IF thread < N THEN mpc' = "count" /\ thread' = thread + 1
                        ELSE mpc' = "check" /\ thread' = 1
      BY <1>6 DEF PushTask
    <3>2. thread \in Thread
      BY <1>0 DEF TypeOK
    <3> QED
      BY <3>1, <3>2, Constants DEF MLocation
  <2> QED
    BY <1>0, <1>6, <2>1, <2>3, <2>4, <2>5 DEF PushTask, TypeOK, workers, round, climb
<1>7. CASE ResetQueue
  <2>1. tasksTotal = 0 /\ Len(tasks) \in Nat /\ Cardinality(Busy) \in Nat
    BY <1>0, <1>7, Constants, FS_Subset, FS_CardinalityType DEF ResetQueue, IInv, CountInv, Waiting, Busy, TypeOK
  <2>2. Len(tasks) = 0
    BY <1>7, <2>1 DEF ResetQueue, IInv, CountInv, Pending
  <2>3. tasks = <<>>
    BY <1>0, <2>2, EmptySeq DEF TypeOK
  <2> QED
    BY <1>0, <1>7, <2>3 DEF ResetQueue, TypeOK, workers, round, moves, climb, MLocation
<1>8. CASE Apply
  <2>1. score' \in 0..MaxScore /\ bag' \in 1..MaxBag
    BY <1>0, <1>8, Constants DEF Apply, TypeOK, IInv, BatchInv, InRound, Waiting
  <2>2. changed' \in BOOLEAN
    BY <1>8 DEF Apply
  <2> QED
    BY <1>0, <1>8, <2>1, <2>2, Constants DEF Apply, TypeOK, pool, workers, MLocation
<1>9. CASE LeaveLoop \/ CheckTotal \/ GoToSleep \/ WaitForTasks \/ DestroyThreads
           \/ SpuriousWakeup
  BY <1>0, <1>9 DEF LeaveLoop, CheckTotal, GoToSleep, WaitForTasks, DestroyThreads,
     SpuriousWakeup, TypeOK, pool, workers, round, moves, climb, MLocation
<1>10. CASE StopRunning \/ Interrupt
  BY <1>0, <1>10 DEF StopRunning, Interrupt, TypeOK, pool, workers, round, moves, climb, MLocation
<1> QED
  BY <1>1, <1>2, <1>3, <1>4, <1>5, <1>6, <1>7, <1>8, <1>9, <1>10, StepCases

-----------------------------------------------------------------------------
(* What tasksTotal counts *)

\* The running tasks are finitely many.
LEMMA BusyFacts ==
    ASSUME TypeOK
    PROVE  IsFiniteSet(Busy) /\ Cardinality(Busy) \in Nat /\ Len(tasks) \in Nat /\ tasksTotal \in Nat
<1>1. IsFiniteSet(Busy)
  BY Constants, FS_Subset DEF Busy
<1>2. Cardinality(Busy) \in Nat
  BY <1>1, FS_CardinalityType
<1>3. Len(tasks) \in Nat /\ tasksTotal \in Nat
  BY Constants DEF TypeOK
<1> QED
  BY <1>1, <1>2, <1>3

\* Once tasksTotal is zero the round is over.
LEMMA NobodyLeft ==
    ASSUME TypeOK, CountInv, tasksTotal = 0
    PROVE  tasks = <<>> /\ Busy = {} /\ mpc # "push"
<1>1. Len(tasks) = 0 /\ Cardinality(Busy) = 0 /\ mpc # "push"
  <2>1. Pending \in {0, 1} /\ (mpc = "push" => Pending = 1)
    BY DEF Pending
  <2>2. 0 = Len(tasks) + Cardinality(Busy) + Pending
    BY DEF CountInv
  <2> QED
    BY <2>1, <2>2, BusyFacts
<1>2. tasks = <<>>
  BY <1>1, EmptySeq DEF TypeOK
<1>3. Busy = {}
  BY <1>1, BusyFacts, FS_EmptySet
<1> QED
  BY <1>1, <1>2, <1>3

\* The batches of the round use all moves up.
LEMMA CountStep == ASSUME IInv, Next PROVE CountInv' /\ BatchInv'
<1>0. TypeOK /\ CountInv /\ BatchInv
  BY DEF IInv
<1> USE DEF pool, workers, round, moves, climb
<1>1. ASSUME NEW t \in Thread, Light(t) PROVE CountInv' /\ BatchInv'
  <2>1. Busy' = Busy
    BY <1>0, <1>1, LightFacts DEF Busy
  <2>2. UNCHANGED <<tasks, tasksTotal, n, prev, remains, thread, score>>
    BY <1>0, <1>1, LightFacts
  <2>3. /\ mpc' = "push" <=> mpc = "push"
        /\ mpc' \in Pushing <=> mpc \in Pushing
        /\ mpc' \in Waiting <=> mpc \in Waiting
        /\ mpc' \in InRound <=> mpc \in InRound
    BY <1>0, <1>1, LightFacts DEF Pushing, Waiting, InRound
  <2>4. Pending' = Pending
    BY <2>3 DEF Pending
  <2> QED
    BY <1>0, <2>1, <2>2, <2>3, <2>4 DEF CountInv, BatchInv
<1>2. ASSUME NEW t \in Thread, PopTask(t) PROVE CountInv' /\ BatchInv'
  <2>1. Busy' = Busy \cup {t} /\ t \notin Busy
    BY <1>0, <1>2 DEF PopTask, Busy, Goto, InTask, TypeOK
  <2>2. Cardinality(Busy') = Cardinality(Busy) + 1
    BY <1>0, <2>1, BusyFacts, FS_AddElement
  <2>3. Len(tasks') = Len(tasks) - 1
    BY <1>0, <1>2, FirstTask DEF PopTask, TypeOK
  <2>4. UNCHANGED <<tasksTotal, n, prev, remains, thread, score, mpc>> /\ Pending' = Pending
    BY <1>2 DEF PopTask, Pending
  <2>5. tasksTotal = Len(tasks) - 1 + (Cardinality(Busy) + 1) + Pending
    BY <1>0, BusyFacts DEF CountInv, Pending
  <2> QED
    BY <1>0, <2>2, <2>3, <2>4, <2>5 DEF CountInv, BatchInv
<1>3. ASSUME NEW t \in Thread, Finish(t) PROVE CountInv' /\ BatchInv'
  <2>1. Busy' = Busy \ {t} /\ t \in Busy
    BY <1>0, <1>3 DEF Finish, Busy, Goto, InTask, TypeOK
  <2>2. Cardinality(Busy') = Cardinality(Busy) - 1
    BY <1>0, <2>1, BusyFacts, FS_RemoveElement
  <2>3. UNCHANGED <<tasks, n, prev, remains, thread, score, mpc>> /\ Pending' = Pending
        /\ tasksTotal' = tasksTotal - 1
    BY <1>3 DEF Finish, Pending
  <2>4. tasksTotal # 0
    BY <1>0, <2>1, NobodyLeft
  <2>5. tasksTotal - 1 = Len(tasks) + (Cardinality(Busy) - 1) + Pending
    BY <1>0, BusyFacts DEF CountInv, Pending
  <2>6. mpc \in Pushing => tasksTotal - 1 <= thread - 1 + Pending
    <3>1. thread \in Nat /\ Pending \in Nat
      BY <1>0, Constants DEF TypeOK, Pending
    <3> QED
      BY <1>0, <3>1, BusyFacts DEF CountInv
  <2> QED
    BY <1>0, <2>2, <2>3, <2>4, <2>5, <2>6 DEF CountInv, BatchInv
<1>4. CASE StartRound
  <2>1. PICK m \in 0..MaxMoves : n' = m /\ remains' = m % N
    BY <1>4 DEF StartRound
  <2>2. mpc = "head" /\ tasksTotal = 0 /\ prev = 0 /\ thread = 1 /\ mpc' = "count" /\ score < MaxScore
    BY <1>0, <1>4 DEF StartRound, CountInv, BatchInv, Waiting, Pushing, IInv, RoundInv, InRound
  <2>3. UNCHANGED <<tasks, tasksTotal, tpc, prev, thread, score>>
    BY <1>4 DEF StartRound
  <2>4. Pending' = Pending /\ Busy' = Busy
    BY <2>2, <2>3 DEF Pending, Busy
  <2>5. CountInv'
    BY <1>0, <2>2, <2>3, <2>4 DEF CountInv, Pending, Waiting, Pushing
  <2>6. remains' <= N - thread' /\ n' - prev' = (N - thread' + 1) * (n' \div N) + remains'
    <3>1. m \in Nat
      BY <2>1, Constants
    <3>2. m \div N \in Nat /\ m % N \in 0..(N - 1) /\ m = N * (m \div N) + (m % N) /\ N \in Nat
      BY <3>1, Shares, Constants
    <3>3. N - 1 + 1 = N
      BY <3>2
    <3> QED
      BY <2>1, <2>2, <2>3, <3>1, <3>2, <3>3
  <2> QED
    BY <2>2, <2>3, <2>5, <2>6 DEF BatchInv, Pushing
<1>5. CASE CountTask
  <2>1. mpc = "count" /\ mpc' = "push" /\ tasksTotal' = tasksTotal + 1
        /\ UNCHANGED <<tasks, tpc, n, prev, remains, thread, score>>
    BY <1>5 DEF CountTask
  <2>2. Busy' = Busy /\ Pending = 0 /\ Pending' = 1
    BY <2>1 DEF Busy, Pending
  <2>3. /\ tasksTotal + 1 = Len(tasks) + Cardinality(Busy) + 1
        /\ tasksTotal + 1 <= thread - 1 + 1
    <3>1. thread \in Nat
      BY <1>0, Constants DEF TypeOK
    <3> QED
      BY <1>0, <2>1, <2>2, <3>1, BusyFacts DEF CountInv, Pushing
  <2> QED
    BY <1>0, <2>1, <2>2, <2>3 DEF CountInv, BatchInv, Pushing, Waiting, InRound
<1>6. CASE PushTask
  <2>1. /\ mpc = "push" /\ tasks' = Append(tasks, [start |-> prev, end |-> BatchEnd])
        /\ prev' = BatchEnd /\ remains' = IF remains > 0 THEN remains - 1 ELSE 0
        /\ thread < N => mpc' = "count" /\ thread' = thread + 1
        /\ ~(thread < N) => mpc' = "check" /\ thread' = 1
        /\ UNCHANGED <<tasksTotal, tpc, n, score>>
    BY <1>6 DEF PushTask
  <2>2. Busy' = Busy /\ Pending = 1 /\ Pending' = 0
    BY <2>1 DEF Busy, Pending
  <2>3. Len(tasks') = Len(tasks) + 1
    BY <1>0, <2>1, AppendProperties DEF TypeOK
  <2>4. thread \in Nat /\ thread <= N /\ N \in Nat
    BY <1>0, Constants DEF TypeOK
  <2>5. tasksTotal' = Len(tasks') + Cardinality(Busy') + 0
    BY <1>0, <2>1, <2>2, <2>3, BusyFacts DEF CountInv
  <2>6. tasksTotal <= thread
    BY <1>0, <2>1, <2>2, <2>4, BusyFacts DEF CountInv, Pushing
  <2>7. CountInv'
    BY <2>1, <2>2, <2>4, <2>5, <2>6 DEF CountInv, Pushing, Waiting
  <2>8. CASE thread < N
    <3>1. /\ n - BatchEnd = (N - thread) * (n \div N) + (IF remains > 0 THEN remains - 1 ELSE 0)
          /\ (IF remains > 0 THEN remains - 1 ELSE 0) <= N - (thread + 1)
      BY <2>1, <2>8, NextBatch DEF Pushing
    <3>2. N - (thread + 1) + 1 = N - thread
      BY <2>4
    <3>3. remains' <= N - thread' /\ n' - prev' = (N - thread' + 1) * (n' \div N) + remains'
      BY <2>1, <2>8, <3>1, <3>2
    <3>4. mpc' = "count" /\ score < MaxScore /\ UNCHANGED score
      BY <1>0, <2>1, <2>8 DEF BatchInv, InRound, Waiting
    <3> QED
      BY <2>7, <3>3, <3>4 DEF BatchInv, Pushing
  <2>9. CASE thread = N
    <3>1. BatchEnd = n
      BY <2>1, <2>9, NextBatch DEF Pushing
    <3>2. mpc' = "check" /\ thread' = 1 /\ prev' = n' /\ score < MaxScore /\ UNCHANGED score
      BY <1>0, <2>1, <2>4, <2>9, <3>1 DEF BatchInv, InRound, Waiting
    <3> QED
      BY <2>7, <3>2 DEF BatchInv, Pushing, InRound, Waiting
  <2> QED
    BY <2>4, <2>8, <2>9
<1>7. CASE ResetQueue
  <2>1. mpc = "resetQueue" /\ tasks = <<>> /\ tasksTotal = 0
    BY <1>0, <1>7, NobodyLeft DEF ResetQueue, CountInv, Waiting
  <2>2. UNCHANGED <<tasks, tasksTotal, tpc, n, prev, remains, thread, score>> /\ mpc' = "apply"
    BY <1>7, <2>1 DEF ResetQueue
  <2>3. Busy' = Busy /\ Pending' = Pending
    BY <2>1, <2>2 DEF Busy, Pending
  <2> QED
    BY <1>0, <2>1, <2>2, <2>3 DEF CountInv, BatchInv, Pushing, Waiting, InRound
<1>8. CASE Apply
  <2>1. mpc = "apply" /\ mpc' = "head" /\ UNCHANGED <<tasks, tasksTotal, tpc, thread>>
    BY <1>8 DEF Apply
  <2>2. Busy' = Busy /\ Pending' = Pending
    BY <2>1 DEF Busy, Pending
  <2> QED
    BY <1>0, <2>1, <2>2 DEF CountInv, BatchInv, Pushing, Waiting, InRound
<1>9. CASE LeaveLoop \/ CheckTotal \/ GoToSleep \/ WaitForTasks \/ StopRunning \/ DestroyThreads
           \/ SpuriousWakeup \/ Interrupt
  <2>1. UNCHANGED <<tasks, tasksTotal, tpc, n, prev, remains, thread, score>>
    BY <1>9 DEF LeaveLoop, CheckTotal, GoToSleep, WaitForTasks, StopRunning, DestroyThreads,
       SpuriousWakeup, Interrupt
  <2>2. /\ mpc' = "push" <=> mpc = "push"
        /\ mpc' \in Pushing <=> mpc \in Pushing
        /\ mpc' \in InRound <=> mpc \in InRound
        /\ mpc' \in Waiting \/ tasksTotal = 0
    <3>1. CASE Interrupt
      BY <1>0, <3>1 DEF Interrupt, CountInv
    <3>2. CASE ~Interrupt
      BY <1>0, <1>9, <3>2 DEF LeaveLoop, CheckTotal, GoToSleep, WaitForTasks, StopRunning, DestroyThreads,
         SpuriousWakeup, CountInv, Pushing, Waiting, InRound
    <3> QED
      BY <3>1, <3>2
  <2>3. Busy' = Busy /\ Pending' = Pending
    BY <2>1, <2>2 DEF Busy, Pending
  <2> QED
    BY <1>0, <2>1, <2>2, <2>3 DEF CountInv, BatchInv
<1> QED
  BY <1>1, <1>2, <1>3, <1>4, <1>5, <1>6, <1>7, <1>8, <1>9, StepCases

-----------------------------------------------------------------------------
(* The round and the moves that are found *)

\* When the main thread is not waiting, no task is queued or running.
LEMMA OutOfRound ==
    ASSUME IInv, mpc \notin Waiting
    PROVE  tasks = <<>> /\ \A t \in Thread : tpc[t] \notin InTask
<1>1. tasks = <<>> /\ Busy = {}
  BY NobodyLeft DEF IInv, CountInv
<1> QED
  BY <1>1 DEF Busy

\* A task that runs belongs to a round.
LEMMA TaskInRound ==
    ASSUME IInv, NEW t \in Thread, tpc[t] \in InTask PROVE mpc \in InRound
  BY OutOfRound DEF InRound

\* The locals of the round come and go with it, and hold what the winners found.
LEMMA FindStep == ASSUME IInv, Next PROVE RoundInv' /\ FindInv'
<1>0. TypeOK /\ RoundInv /\ FindInv
  BY DEF IInv
<1> USE DEF pool, workers, round, moves, climb
<1>1. ASSUME NEW t \in Thread, Light(t) PROVE RoundInv' /\ FindInv'
  <2>1. UNCHANGED <<improving, n, prev>> /\ (mpc' \in InRound <=> mpc \in InRound)
    BY <1>0, <1>1, LightFacts DEF Waiting, InRound
  <2>2. \A u \in Thread : u # t => tpc'[u] = tpc[u] /\ candidate'[u] = candidate[u]
    BY <1>0, <1>1, LightFacts
  <2>3. CASE Record(t)
    <3>1. /\ solution' = candidate[t] /\ candidate[t] \in improving
          /\ newMetaValues' = Append(newMetaValues, candidate[t])
          /\ tpc'[t] = "finish" /\ candidate' = candidate
          /\ mpc \in InRound
      BY <1>0, <2>3, TaskInRound DEF Record, FindInv, Goto, TypeOK, InTask
    <3>2. newMetaValues' # <<>> /\ newMetaValues'[Len(newMetaValues')] = candidate[t]
      <4>1. newMetaValues \in Seq(Move) /\ candidate[t] \in Move
        BY <1>0, <3>1 DEF TypeOK
      <4> QED
        BY <3>1, <4>1, AppendProperties
    <3> QED
      BY <1>0, <2>1, <2>2, <3>1, <3>2 DEF RoundInv, FindInv
  <2>4. CASE ClaimFound(t)
    <3>1. /\ tpc[t] = "claim" /\ tpc'[t] = "record" /\ candidate' = candidate
          /\ UNCHANGED <<solution, newMetaValues>>
      BY <1>0, <2>4 DEF ClaimFound, Goto, TypeOK
    <3> QED
      BY <1>0, <2>1, <2>2, <3>1 DEF RoundInv, FindInv
  <2>5. CASE MoveImproves(t)
    <3>1. /\ tpc[t] = "search" /\ tpc'[t] = "found" /\ candidate'[t] \in improving
          /\ UNCHANGED <<solution, newMetaValues, isSolutionFound>>
      BY <1>0, <2>5 DEF MoveImproves, Goto, TypeOK
    <3> QED
      BY <1>0, <2>1, <2>2, <3>1 DEF RoundInv, FindInv
  <2>6. CASE TestFound(t)
    <3>1. /\ tpc[t] = "found" /\ tpc'[t] \in {"finish", "claim"} /\ candidate' = candidate
          /\ UNCHANGED <<solution, newMetaValues, isSolutionFound>>
      BY <1>0, <2>6 DEF TestFound, Goto, TypeOK
    <3> QED
      BY <1>0, <2>1, <2>2, <3>1 DEF RoundInv, FindInv
  <2>7. CASE TestRunning(t) \/ PopNothing(t) \/ TestTotal(t) \/ NotifyAll(t) \/ BatchDone(t)
             \/ MoveFails(t)
    <3>1. /\ tpc[t] # "record" /\ tpc'[t] \notin {"found", "claim", "record"}
          /\ UNCHANGED <<candidate, solution, newMetaValues, isSolutionFound>>
      BY <1>0, <2>7 DEF TestRunning, PopNothing, TestTotal, NotifyAll, BatchDone, MoveFails, Goto, TypeOK
    <3> QED
      BY <1>0, <2>1, <2>2, <3>1 DEF RoundInv, FindInv
  <2> QED
    BY <1>1, <2>3, <2>4, <2>5, <2>6, <2>7 DEF Light
<1>2. ASSUME NEW t \in Thread, PopTask(t) \/ Finish(t) PROVE RoundInv' /\ FindInv'
  <2>1. /\ UNCHANGED <<improving, n, prev, mpc, solution, newMetaValues, isSolutionFound>>
        /\ \A u \in Thread : u # t => tpc'[u] = tpc[u] /\ candidate'[u] = candidate[u]
        /\ tpc[t] # "record" /\ tpc'[t] \in {"search", "test"}
    BY <1>0, <1>2 DEF PopTask, Finish, Goto, TypeOK
  <2> QED
    BY <1>0, <2>1 DEF RoundInv, FindInv
<1>3. CASE StartRound
  <2>1. mpc = "head" /\ mpc' = "count" /\ prev = 0 /\ newMetaValues = <<>>
    BY <1>0, <1>3 DEF StartRound, RoundInv, InRound, Waiting
  <2>2. \A t \in Thread : tpc[t] \notin InTask
    BY <2>1, OutOfRound DEF Waiting
  <2>3. UNCHANGED <<tpc, newMetaValues, prev>> /\ ~isSolutionFound' /\ improving' \subseteq 0..(n' - 1)
    BY <1>3 DEF StartRound, NoneFound
  <2>4. mpc' \in InRound
    BY <2>1 DEF InRound, Waiting
  <2> QED
    BY <2>1, <2>2, <2>3, <2>4 DEF RoundInv, FindInv, InTask
<1>4. CASE Apply
  <2>1. mpc = "apply" /\ mpc' = "head" /\ newMetaValues' = <<>> /\ improving' = {} /\ prev' = 0
        /\ tpc' = tpc
    BY <1>4 DEF Apply
  <2>2. \A t \in Thread : tpc[t] \notin InTask
    BY <2>1, OutOfRound DEF Waiting
  <2> QED
    BY <2>1, <2>2 DEF RoundInv, FindInv, InTask, InRound, Waiting
<1>5. CASE CountTask \/ PushTask \/ ResetQueue
  <2>1. UNCHANGED <<tpc, candidate, improving, n, solution, newMetaValues, isSolutionFound>>
    BY <1>5 DEF CountTask, PushTask, ResetQueue
  <2>2. mpc \in InRound /\ mpc' \in InRound
    BY <1>5 DEF CountTask, PushTask, ResetQueue, InRound, Waiting
  <2> QED
    BY <1>0, <2>1, <2>2 DEF RoundInv, FindInv
<1>6. CASE LeaveLoop \/ CheckTotal \/ GoToSleep \/ WaitForTasks \/ StopRunning \/ DestroyThreads
           \/ SpuriousWakeup \/ Interrupt
  <2>1. UNCHANGED <<tpc, candidate, improving, n, prev, solution, newMetaValues, isSolutionFound>>
    BY <1>6 DEF LeaveLoop, CheckTotal, GoToSleep, WaitForTasks, StopRunning, DestroyThreads,
       SpuriousWakeup, Interrupt
  <2>2. mpc' \in InRound <=> mpc \in InRound
    BY <1>6 DEF LeaveLoop, CheckTotal, GoToSleep, WaitForTasks, StopRunning, DestroyThreads,
       SpuriousWakeup, Interrupt, InRound, Waiting
  <2> QED
    BY <1>0, <2>1, <2>2 DEF RoundInv, FindInv
<1> QED
  BY <1>1, <1>2, <1>3, <1>4, <1>5, <1>6, StepCases

-----------------------------------------------------------------------------
(* No improving move is passed by *)

\* A move stays ahead, unless it is looked at and does not improve.
LEMMA AheadStep == ASSUME IInv, Next PROVE AheadInv'
<1>0. TypeOK /\ RoundInv /\ \A m \in improving : Ahead(m) /\ m \in Nat
  <2>1. TypeOK /\ RoundInv /\ \A m \in improving : Ahead(m)
    BY DEF IInv, AheadInv
  <2>2. \A m \in improving : m \in Nat
    BY <2>1, Constants DEF TypeOK
  <2> QED
    BY <2>1, <2>2
<1> USE DEF pool, workers, round, moves, climb
<1> DEFINE Seen == {"search", "found", "claim"}
<1>1. ASSUME NEW t \in Thread, Light(t) PROVE AheadInv'
  <2> SUFFICES ASSUME NEW m \in improving PROVE Ahead(m)'
    BY <1>0, <1>1, LightFacts DEF AheadInv
  <2>1. UNCHANGED <<tasks, stopped, prev>> /\ \A u \in Thread : u # t => tpc'[u] = tpc[u] /\ batch'[u] = batch[u]
    BY <1>0, <1>1, LightFacts
  <2>2. isSolutionFound => isSolutionFound'
    BY <1>1 DEF Light, TestRunning, PopNothing, TestTotal, NotifyAll, BatchDone,
       MoveImproves, MoveFails, TestFound, ClaimFound, Record
  <2>3. CASE tpc[t] \in Seen /\ In(m, batch[t])
    <3>1. CASE BatchDone(t)
      <4>1. batch[t].start \in Int /\ batch[t].end \in Int /\ batch[t].start = batch[t].end
        BY <1>0, <3>1, Constants DEF BatchDone, TypeOK
      <4> QED
        BY <1>0, <2>3, <4>1 DEF In
    <3>2. CASE MoveImproves(t) \/ (TestFound(t) /\ ~isSolutionFound)
      <4>1. tpc'[t] \in Seen /\ batch' = batch
        BY <1>0, <3>2 DEF MoveImproves, TestFound, Goto, TypeOK
      <4> QED
        BY <2>3, <4>1 DEF Ahead
    <3>3. CASE MoveFails(t) /\ ~GiveUp
      <4>1. /\ tpc' = tpc /\ batch' = [batch EXCEPT ![t].start = @ + 1]
            /\ batch[t].start \notin improving
        BY <3>3 DEF MoveFails, GiveUp
      <4>2. batch[t] \in [start : 0..MaxMoves, end : 0..MaxMoves]
        BY <1>0 DEF TypeOK
      <4>3. batch'[t].start = batch[t].start + 1 /\ batch'[t].end = batch[t].end
        BY <1>0, <4>1, <4>2 DEF TypeOK
      <4>4. m # batch[t].start /\ batch[t].start \in Nat /\ m \in Nat
        BY <1>0, <4>1, <4>2, Constants
      <4>5. In(m, batch'[t])
        BY <2>3, <4>3, <4>4 DEF In
      <4> QED
        BY <2>3, <4>1, <4>5 DEF Ahead
    <3>4. CASE ClaimFound(t) \/ (MoveFails(t) /\ GiveUp) \/ (TestFound(t) /\ isSolutionFound)
      BY <2>1, <2>2, <3>4 DEF Ahead, ClaimFound, GiveUp
    <3> QED
      BY <1>1, <2>3, <3>1, <3>2, <3>3, <3>4 DEF Light, TestRunning, PopNothing, TestTotal, NotifyAll, Record
  <2>4. CASE ~(tpc[t] \in Seen /\ In(m, batch[t]))
    BY <1>0, <2>1, <2>2, <2>4 DEF Ahead
  <2> QED
    BY <2>3, <2>4
<1>2. ASSUME NEW t \in Thread, PopTask(t) PROVE AheadInv'
  <2> SUFFICES ASSUME NEW m \in improving PROVE Ahead(m)'
    BY <1>2 DEF AheadInv, PopTask
  <2>1. /\ UNCHANGED <<isSolutionFound, stopped, prev>>
        /\ \A u \in Thread : u # t => tpc'[u] = tpc[u] /\ batch'[u] = batch[u]
        /\ tpc[t] = "pop" /\ tpc'[t] = "search" /\ batch'[t] = Head(tasks) /\ tasks' = Tail(tasks)
    BY <1>0, <1>2 DEF PopTask, Goto, TypeOK
  <2>2. /\ Len(tasks) \in Nat /\ Head(tasks) = tasks[1] /\ Len(tasks') = Len(tasks) - 1
        /\ \A k \in 1..(Len(tasks) - 1) : tasks'[k] = tasks[k + 1]
    BY <1>0, <1>2, <2>1, FirstTask DEF PopTask, TypeOK
  <2>3. ASSUME NEW k \in 1..Len(tasks), In(m, tasks[k]) PROVE Ahead(m)'
    <3>1. CASE k = 1
      BY <2>1, <2>2, <2>3, <3>1 DEF Ahead
    <3>2. CASE k # 1
      <4>1. k - 1 \in 1..(Len(tasks) - 1) /\ (k - 1) + 1 = k
        BY <2>2, <3>2
      <4>2. tasks'[k - 1] = tasks[k] /\ k - 1 \in 1..Len(tasks')
        BY <2>2, <4>1
      <4> QED
        BY <2>3, <4>2 DEF Ahead
    <3> QED
      BY <3>1, <3>2
  <2>4. ASSUME NEW u \in Thread, tpc[u] \in Seen, In(m, batch[u]) PROVE Ahead(m)'
    BY <2>1, <2>4 DEF Ahead
  <2> QED
    BY <1>0, <2>1, <2>3, <2>4 DEF Ahead
<1>3. ASSUME NEW t \in Thread, Finish(t) PROVE AheadInv'
  <2>1. /\ UNCHANGED <<improving, isSolutionFound, stopped, prev, tasks>>
        /\ \A u \in Thread : u # t => tpc'[u] = tpc[u] /\ batch'[u] = batch[u]
        /\ tpc[t] = "finish"
    BY <1>0, <1>3 DEF Finish, Goto, TypeOK
  <2> QED
    BY <1>0, <2>1 DEF AheadInv, Ahead
<1>4. CASE StartRound
  <2>1. prev' = 0
    BY <1>0, <1>4 DEF StartRound, RoundInv, InRound, Waiting
  <2>2. \A m \in improving' : m \in Nat
    <3>1. PICK k \in 0..MaxMoves : improving' \in SUBSET (0..(k - 1))
      BY <1>4 DEF StartRound
    <3>2. \A m \in 0..(k - 1) : m \in Nat
      BY Constants
    <3> QED
      BY <3>1, <3>2
  <2> QED
    BY <2>1, <2>2 DEF AheadInv, Ahead
<1>5. CASE PushTask
  <2> SUFFICES ASSUME NEW m \in improving PROVE Ahead(m)'
    BY <1>5 DEF AheadInv, PushTask
  <2>1. /\ UNCHANGED <<isSolutionFound, stopped, tpc, batch>> /\ prev' = BatchEnd
        /\ tasks' = Append(tasks, [start |-> prev, end |-> BatchEnd])
    BY <1>5 DEF PushTask
  <2>2. /\ Len(tasks) \in Nat /\ Len(tasks') = Len(tasks) + 1
        /\ \A k \in 1..Len(tasks) : tasks'[k] = tasks[k]
        /\ tasks'[Len(tasks) + 1] = [start |-> prev, end |-> BatchEnd]
    BY <1>0, <2>1, AppendProperties DEF TypeOK
  <2>3. CASE prev <= m
    <3>1. BatchEnd \in Nat /\ m \in Nat
      <4>1. mpc \in Pushing /\ prev \in Nat /\ n \in Nat
        BY <1>0, <1>5, Constants DEF PushTask, Pushing, TypeOK
      <4> QED
        BY <1>0, <4>1, NextBatch
    <3>2. BatchEnd <= m \/ In(m, [start |-> prev, end |-> BatchEnd])
      BY <2>3, <3>1 DEF In
    <3>3. Len(tasks) + 1 \in 1..Len(tasks')
      BY <2>2
    <3> QED
      BY <2>1, <2>2, <3>2, <3>3 DEF Ahead
  <2>4. ASSUME NEW k \in 1..Len(tasks), In(m, tasks[k]) PROVE Ahead(m)'
    <3>1. k \in 1..Len(tasks') /\ tasks'[k] = tasks[k]
      BY <2>2
    <3> QED
      BY <2>4, <3>1 DEF Ahead
  <2> QED
    BY <1>0, <2>1, <2>3, <2>4 DEF Ahead
<1>6. CASE ResetQueue
  <2>1. tasks = <<>>
    BY <1>6, OutOfRound DEF ResetQueue, Waiting
  <2>2. UNCHANGED <<improving, isSolutionFound, stopped, prev, tasks, tpc, batch>>
    BY <1>6, <2>1 DEF ResetQueue
  <2> QED
    BY <1>0, <2>2 DEF AheadInv, Ahead
<1>7. CASE Apply
  BY <1>7 DEF Apply, AheadInv
<1>8. CASE Interrupt
  BY <1>8 DEF Interrupt, AheadInv, Ahead
<1>9. CASE CountTask \/ LeaveLoop \/ CheckTotal \/ GoToSleep \/ WaitForTasks \/ StopRunning
           \/ DestroyThreads \/ SpuriousWakeup
  <2>1. UNCHANGED <<improving, isSolutionFound, stopped, prev, tasks, tpc, batch>>
    BY <1>9 DEF CountTask, LeaveLoop, CheckTotal, GoToSleep, WaitForTasks, StopRunning, DestroyThreads,
       SpuriousWakeup
  <2> QED
    BY <1>0, <2>1 DEF AheadInv, Ahead
<1> QED
  BY <1>1, <1>2, <1>3, <1>4, <1>5, <1>6, <1>7, <1>8, <1>9, StepCases

-----------------------------------------------------------------------------
(* The invariant and what follows from it *)

\* Before the first round.
LEMMA Initially == Init => IInv
<1> SUFFICES ASSUME Init PROVE IInv
  OBVIOUS
<1> USE DEF Init
<1>1. TypeOK
  <2>1. NoBatch \in [start : 0..MaxMoves, end : 0..MaxMoves]
    BY Constants DEF NoBatch
  <2>2. /\ tpc \in [Thread -> TLocation] /\ candidate \in [Thread -> Move \cup {None}]
        /\ batch \in [Thread -> [start : 0..MaxMoves, end : 0..MaxMoves]]
    BY <2>1 DEF TLocation
  <2>3. tasks \in Seq([start : 0..MaxMoves, end : 0..MaxMoves]) /\ newMetaValues \in Seq(Move)
    OBVIOUS
  <2>4. /\ tasksTotal \in 0..N /\ n \in 0..MaxMoves /\ prev \in 0..MaxMoves /\ remains \in 0..(N - 1)
        /\ thread \in Thread /\ bag \in 1..MaxBag /\ mpc \in MLocation
    BY Constants DEF MLocation
  <2> QED
    BY <2>2, <2>3, <2>4 DEF TypeOK
<1>2. CountInv
  <2>1. Busy = {}
    BY DEF Busy, InTask
  <2>2. Cardinality(Busy) = 0 /\ Len(tasks) = 0
    BY <2>1, FS_EmptySet
  <2> QED
    BY <2>2 DEF CountInv, Pending, Waiting, Pushing
<1>3. BatchInv /\ RoundInv /\ FindInv /\ AheadInv
  BY DEF BatchInv, RoundInv, FindInv, AheadInv, InRound, Waiting, Pushing
<1> QED
  BY <1>1, <1>2, <1>3 DEF IInv

\* Every step keeps it.
LEMMA Inductive == IInv /\ [Next]_vars => IInv'
<1> SUFFICES ASSUME IInv, [Next]_vars PROVE IInv'
  OBVIOUS
<1>1. CASE Next
  BY <1>1, TypeStep, CountStep, FindStep, AheadStep DEF IInv
<1>2. CASE UNCHANGED vars
  <2>1. /\ UNCHANGED <<tasks, tasksTotal, running, tpc, batch, candidate, isSolutionFound, solution>>
        /\ UNCHANGED <<newMetaValues, stopped, improving, n, prev, remains, thread>>
        /\ UNCHANGED <<mpc, changed, bag, score>>
    BY <1>2 DEF vars, pool, workers, round, moves, climb
  <2>2. TypeOK' /\ BatchInv' /\ RoundInv' /\ FindInv'
    BY <2>1 DEF IInv, TypeOK, BatchInv, RoundInv, FindInv
  <2>3. CountInv'
    BY <2>1 DEF IInv, CountInv, Busy, Pending
  <2>4. AheadInv'
    BY <2>1 DEF IInv, AheadInv, Ahead
  <2> QED
    BY <2>2, <2>3, <2>4 DEF IInv
<1> QED
  BY <1>1, <1>2

\* The inductive invariant of the parallel local search.
THEOREM ClimbInvariant == Spec => []IInv
  BY Initially, Inductive, PTL DEF Spec

\* tasksTotal never exceeds the threads nor falls below zero, and when the main
\* thread goes on from its wait no task is queued or running: none of them can
\* follow a reference to the locals of a round that is over.
THEOREM PoolSound == Spec => []PoolIsSound
<1>1. IInv => PoolIsSound
  BY OutOfRound DEF PoolIsSound, RoundIsOver, Waiting, IInv
<1> QED
  BY <1>1, ClimbInvariant, PTL

\* The move that is applied was found in the same round to improve the assignment,
\* and its values are the last ones written, however many tasks have won.
THEOREM AppliedImproves == Spec => []AppliedMoveImproves
<1>1. IInv => AppliedMoveImproves
  <2> SUFFICES ASSUME IInv, mpc = "apply", isSolutionFound
               PROVE  /\ solution \in improving
                      /\ newMetaValues # <<>>
                      /\ solution = newMetaValues[Len(newMetaValues)]
    BY DEF AppliedMoveImproves
  <2>1. \A t \in Thread : tpc[t] # "record"
    BY OutOfRound DEF Waiting, InTask
  <2>2. mpc \in InRound
    BY DEF InRound
  <2> QED
    BY <2>1, <2>2 DEF IInv, FindInv
<1> QED
  BY <1>1, ClimbInvariant, PTL

\* However many moves and threads there are, the batches leave no move out: when
\* no task has won and nobody has interrupted the search, no move improves.
THEOREM NoneMissed == Spec => []NoMoveMissed
<1>1. IInv => NoMoveMissed
  <2> SUFFICES ASSUME IInv, mpc = "apply", ~isSolutionFound, ~stopped, NEW m \in improving
               PROVE  FALSE
    BY DEF NoMoveMissed
  <2>1. tasks = <<>> /\ \A t \in Thread : tpc[t] \notin InTask
    BY OutOfRound DEF Waiting
  <2>2. prev <= m
    <3>1. ~\E k \in 1..Len(tasks) : In(m, tasks[k])
      BY <2>1
    <3> QED
      BY <2>1, <3>1 DEF IInv, AheadInv, Ahead, InTask
  <2>3. prev = n /\ n \in Nat
    BY Constants DEF IInv, BatchInv, InRound, Pushing, TypeOK
  <2>4. m \in 0..(n - 1)
    BY DEF IInv, RoundInv
  <2> QED
    BY <2>2, <2>3, <2>4
<1> QED
  BY <1>1, ClimbInvariant, PTL

=============================================================================
