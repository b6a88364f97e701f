--------------------------- MODULE StrategyProofs ---------------------------
(***************************************************************************)
(* Proofs about two strategies of the workers for every number of slaves.  *)
(*                                                                         *)
(* DivideAndConquer, for every set of assignments and every choice of the  *)
(* options.  Types, who has a solver and what a SAT means hold always.     *)
(* The rest is an invariant until a spurious wakeup sends a thread astray: *)
(* from the launch to the end of the strategy the lists hold every slave   *)
(* once, a slave that is not in a list of workers is asleep or on its way, *)
(* only slaves asked to split have the interrupt flag set, and the cubes   *)
(* are a partition of what is left.                                        *)
(*                                                                         *)
(* Portfolio, at the end, for every kind of solver, with or without        *)
(* timeouts and spurious wakeups: the handshake that starts a worker loses *)
(* no wakeup, a slave is deleted after its thread, and the result is       *)
(* complete when main prints it.                                           *)
(***************************************************************************)
EXTENDS DivideAndConquer, ListTheorems, FiniteSetTheorems, TLAPS

\* A slave that is past its gate, or will pass it.
AtWork(w) == wpc[w] \in {"ready", "solving", "report", "join"} \/ ~interrupt[w]

\* Until the launch nobody is at work and the lists are empty.
FreshInv ==
    ~Launched =>
        /\ ~strategyEnding
        /\ overs = <<>> /\ workers = <<>> /\ workersSplitting = <<>> /\ oversSplitting = <<>>
        /\ nWorkers = 0
        /\ hasSolver[1]
        /\ \A w \in Slave : interrupt[w] /\ wpc[w] \in {"loop", "gate", "asleep", "done"}

\* Whoever is at work has a solver.
SolverInv ==
    /\ \A w \in Slave : AtWork(w) => hasSolver[w]
    /\ ~CloneSolvers => \A w \in Slave : hasSolver[w]

\* Whoever found a model has one.
FoundInv ==
    /\ \A w \in Slave : res[w] = "SAT" => models # {}
    /\ finalResult = "SAT" => models # {}

\* The winner that found none was the last at work.
RefutedInv ==
    /\ \A w \in Slave :
         wpc[w] \in {"setInterrupt", "setStop", "ending", "result"} /\ res[w] = "UNSAT"
            => models = {}
    /\ finalResult = "UNSAT" => models = {}

\* A timeout ends the search before it interrupts anybody.
TimeoutInv == mpc \in {"timeoutInterrupt", "timeoutStop"} => globalEnding

Idle == ToSet(overs) \cup ToSet(oversSplitting)

\* The lists.
ListInv ==
    /\ NoRepeat(overs) /\ NoRepeat(workers)
    /\ NoRepeat(workersSplitting) /\ NoRepeat(oversSplitting)
    /\ ToSet(overs) \cap ToSet(oversSplitting) = {}
    /\ ToSet(workers) \cap ToSet(workersSplitting) = {}
    /\ Idle \cap Active = {}
    /\ Idle \cup Active = Slave
    /\ Len(workersSplitting) = Len(oversSplitting)
    /\ nWorkers = Len(workers) + Len(workersSplitting)

\* Where a slave is, by the list it is in.
PlaceInv(w) ==
    /\ wpc[w] \notin {"setInterrupt", "setStop", "ending", "result"}
    /\ w \notin Active => interrupt[w] /\ wpc[w] \in {"loop", "gate", "asleep", "done", "end"}
    /\ ~globalEnding /\ stop[w] => w \notin ToSet(workers)
    /\ wpc[w] = "report" /\ res[w] = "UNKNOWN" /\ ~globalEnding => w \in ToSet(workersSplitting)
    /\ wpc[w] = "join" /\ res[w] = "UNKNOWN" => w \in ToSet(workersSplitting)

\* What is known of its cube.
CubeInv(w) ==
    /\ wpc[w] = "join" => res[w] \in {"UNKNOWN", "UNSAT"}
    /\ wpc[w] \in {"report", "join"} /\ res[w] = "UNSAT" => cubes[w] \cap models = {}
    /\ wpc[w] = "end" => res[w] = "SAT" \/ models = {}

SearchInv ==
    InSearch =>
        /\ ListInv
        /\ \A w \in Slave : PlaceInv(w) /\ CubeInv(w)
        /\ ModelsCovered /\ CubesDisjoint

\* What holds whatever spurious wakeups do.
Always == TypeOK /\ SolverInv /\ FoundInv /\ TimeoutInv

\* What holds until one of them sends a thread astray.
Orderly == FreshInv /\ RefutedInv /\ SearchInv /\ MasterNotForgotten

IInv == Always /\ Orderly

-----------------------------------------------------------------------------
(* The slaves and their lists *)

\* The slaves are numbered from 1 on.
LEMMA SlaveFacts ==
    /\ N \in Nat /\ N >= 1
    /\ 1 \in Slave
    /\ IsFiniteSet(Slave)
    /\ \A i \in Slave : i < N => i + 1 \in Slave
  BY SlaveCount, FS_Interval DEF Slave

\* push_back, unless it is there.
LEMMA AddTailOf ==
    ASSUME NEW S, NEW s \in Seq(S), NEW w \in S
    PROVE  /\ AddOnceToTail(s, w) \in Seq(S)
           /\ ToSet(AddOnceToTail(s, w)) = ToSet(s) \cup {w}
           /\ NoRepeat(s) => NoRepeat(AddOnceToTail(s, w))
           /\ w \notin ToSet(s) => Len(AddOnceToTail(s, w)) = Len(s) + 1
<1>1. CASE Contains(s, w)
  BY <1>1, ToSetOf DEF AddOnceToTail
<1>2. CASE ~Contains(s, w)
  <2>1. AddOnceToTail(s, w) = s \o <<w>>
    BY <1>2 DEF AddOnceToTail
  <2>2. w \notin ToSet(s)
    BY <1>2, ToSetOf
  <2>3. <<w>> \in Seq(S) /\ Len(<<w>>) = 1 /\ ToSet(<<w>>) = {w} /\ NoRepeat(<<w>>)
    BY ShortLists
  <2>4. ToSet(s) \cap ToSet(<<w>>) = {}
    BY <2>2, <2>3
  <2>5. /\ s \o <<w>> \in Seq(S) /\ Len(s \o <<w>>) = Len(s) + Len(<<w>>)
        /\ ToSet(s \o <<w>>) = ToSet(s) \cup ToSet(<<w>>)
        /\ NoRepeat(s) => NoRepeat(s \o <<w>>)
    BY <2>3, <2>4, ConcatOf, ZenonT(60)
  <2> QED
    BY <2>1, <2>3, <2>5
<1> QED
  BY <1>1, <1>2

\* push_front, unless it is there.
LEMMA AddHeadOf ==
    ASSUME NEW S, NEW s \in Seq(S), NEW w \in S
    PROVE  /\ AddOnceToHead(s, w) \in Seq(S)
           /\ ToSet(AddOnceToHead(s, w)) = ToSet(s) \cup {w}
           /\ NoRepeat(s) => NoRepeat(AddOnceToHead(s, w))
<1>1. CASE Contains(s, w)
  BY <1>1, ToSetOf DEF AddOnceToHead
<1>2. CASE ~Contains(s, w)
  <2>1. AddOnceToHead(s, w) = <<w>> \o s
    BY <1>2 DEF AddOnceToHead, Cons
  <2>2. w \notin ToSet(s)
    BY <1>2, ToSetOf
  <2>3. <<w>> \in Seq(S) /\ ToSet(<<w>>) = {w} /\ NoRepeat(<<w>>)
    BY ShortLists
  <2>4. ToSet(<<w>>) \cap ToSet(s) = {}
    BY <2>2, <2>3
  <2>5. /\ <<w>> \o s \in Seq(S)
        /\ ToSet(<<w>> \o s) = ToSet(<<w>>) \cup ToSet(s)
    BY <2>3, ConcatOf, ZenonT(60)
  <2>6. NoRepeat(s) => NoRepeat(<<w>> \o s)
    BY <2>3, <2>4, ConcatOf, ZenonT(60)
  <2> QED
    BY <2>1, <2>3, <2>5, <2>6
<1> QED
  BY <1>1, <1>2

\* Whatever the pointer is, it is that of a slave or nobody's.
LEMMA PartnerTypes ==
    ASSUME oversSplitting \in Seq(Slave), NEW w \in Slave
    PROVE  /\ \A over \in Partners(w) : over \in Slave
           /\ TakePartner => oversSplitting' \in Seq(Slave)
<1>1. CASE oversSplitting = <<>>
  BY <1>1 DEF Partners, TakePartner
<1>2. CASE oversSplitting # <<>>
  <2>1. Head(oversSplitting) \in Slave /\ Tail(oversSplitting) \in Seq(Slave)
    BY <1>2, HeadTailProperties
  <2> QED
    BY <1>2, <2>1 DEF Partners, TakePartner
<1> QED
  BY <1>1, <1>2

-----------------------------------------------------------------------------
(* Types *)

\* The elements of a concatenation.
LEMMA ConcatAt ==
    ASSUME NEW S, NEW s \in Seq(S), NEW t \in Seq(S)
    PROVE  /\ s \o t \in Seq(S) /\ Len(s \o t) = Len(s) + Len(t)
           /\ Len(s) \in Nat /\ Len(t) \in Nat
           /\ \A i \in 1..(Len(s) + Len(t)) :
                (s \o t)[i] = IF i <= Len(s) THEN s[i] ELSE t[i - Len(s)]
  BY ConcatProperties

\* Whom the launch calls: a slave, and the first if no slave is in a list yet.
LEMMA LaunchLists ==
    ASSUME TypeOK, Launch
    PROVE  \E w \in Slave :
             /\ overs' \in Seq(Slave) /\ workers' = Append(workers, w)
             /\ Restart({w}) /\ wpc' = Woken({w}, wpc)
             /\ overs = <<>> => w = 1 /\ NoRepeat(overs') /\ ToSet(overs') = Slave \ {1}
<1> DEFINE all == [i \in 1..N |-> i]
           idle == overs \o all
<1>1. N \in Nat /\ N >= 1 /\ overs \in Seq(Slave)
  BY SlaveFacts DEF TypeOK
<1>2. all \in [1..N -> Slave]
  BY DEF Slave
<1>3. all \in Seq(Slave) /\ Len(all) = N /\ \A i \in 1..N : all[i] = i
  BY <1>1, <1>2, SeqDef
<1>4. NoRepeat(all)
  BY <1>3 DEF NoRepeat
<1>5. ToSet(all) = Slave
  <2> DEFINE M == 1..N
  <2>1. DOMAIN all = M /\ \A i \in M : all[i] = i
    OBVIOUS
  <2> HIDE DEF M, all
  <2>2. ToSet(all) = M
    BY <2>1 DEF ToSet
  <2> QED
    BY <2>2 DEF M, Slave
<1> HIDE DEF all
<1>6. /\ idle \in Seq(Slave) /\ Len(idle) = Len(overs) + N /\ Len(overs) \in Nat
      /\ \A i \in 1..(Len(overs) + N) :
           idle[i] = IF i <= Len(overs) THEN overs[i] ELSE all[i - Len(overs)]
  BY <1>1, <1>3, ConcatAt
<1>7. /\ overs' = Tail(idle) /\ workers' = Append(workers, Head(idle))
      /\ Restart({Head(idle)}) /\ wpc' = Woken({Head(idle)}, wpc)
  BY DEF Launch, all
<1> HIDE DEF idle
<1>8. idle # <<>>
  BY <1>1, <1>6
<1>9. Head(idle) \in Slave /\ Tail(idle) \in Seq(Slave)
  BY <1>6, <1>8, HeadTailProperties
<1>10. ASSUME overs = <<>>
       PROVE  Head(idle) = 1 /\ NoRepeat(Tail(idle)) /\ ToSet(Tail(idle)) = Slave \ {1}
  <2>1. Len(overs) = 0 /\ ToSet(overs) = {} /\ NoRepeat(overs)
    BY <1>10 DEF NoRepeat, ToSet
  <2>2. Head(idle) = 1
    <3>1. idle[1] = all[1] /\ all[1] = 1
      BY <1>1, <1>3, <1>6, <2>1
    <3> QED
      BY <1>6, <1>8, <3>1
  <2>3. NoRepeat(idle) /\ ToSet(idle) = Slave
    <3>1. ToSet(overs) \cap ToSet(all) = {}
      BY <2>1
    <3>2. NoRepeat(overs \o all)
      BY <1>1, <1>3, <1>4, <2>1, <3>1, ConcatOf, ZenonT(60)
    <3>3. ToSet(overs \o all) = ToSet(overs) \cup ToSet(all)
      BY <1>1, <1>3, ConcatOf, ZenonT(60)
    <3> QED
      BY <1>5, <2>1, <3>2, <3>3 DEF idle
  <2> QED
    BY <1>6, <1>8, <2>2, <2>3, TailOf
<1> QED
  BY <1>7, <1>9, <1>10

\* The master, the main thread and the crash.
LEMMA MasterMainTypes ==
    ASSUME TypeOK,
           \/ Master \/ MasterStartsUncalled \/ MasterWakesUncalled \/ Main \/ Timeout
           \/ \E w \in Slave : Crash(w)
    PROVE  TypeOK'
<1> USE DEF TypeOK, failure, ending, flags, lists, threads, main, MasterLocation, MainLocation
<1>1. CASE \/ MasterWaitsForStart \/ MasterLoop \/ MasterWaits \/ NotYet
           \/ MasterStartsUncalled \/ MasterWakesUncalled
  BY <1>1 DEF MasterWaitsForStart, MasterLoop, MasterWaits, NotYet,
     MasterStartsUncalled, MasterWakesUncalled
<1>2. CASE Launch
  <2>1. PICK w \in Slave :
          /\ overs' \in Seq(Slave) /\ workers' = Append(workers, w)
          /\ Restart({w}) /\ wpc' = Woken({w}, wpc)
    BY <1>2, LaunchLists
  <2>2. stop' \in [Slave -> BOOLEAN] /\ interrupt' \in [Slave -> BOOLEAN]
    BY <2>1 DEF Restart
  <2>3. wpc' \in [Slave -> WLocation]
    BY <2>1 DEF Woken, WLocation
  <2>4. workers' \in Seq(Slave)
    BY <2>1, AppendOf
  <2>5. cubes' \in [Slave -> SUBSET Point] /\ nWorkers' \in Int /\ master' \in MasterLocation
    BY <1>2 DEF Launch
  <2> QED
    BY <1>2, <2>1, <2>2, <2>3, <2>4, <2>5 DEF Launch
<1>3. CASE InterruptWorker
  <2>1. /\ overs \in Seq(Slave) /\ workers \in Seq(Slave)
        /\ workersSplitting \in Seq(Slave) /\ oversSplitting \in Seq(Slave)
        /\ overs # <<>> /\ workers # <<>>
    BY <1>3 DEF InterruptWorker
  <2>2. /\ Head(workers) \in Slave /\ Head(overs) \in Slave
        /\ Tail(workers) \in Seq(Slave) /\ Tail(overs) \in Seq(Slave)
    BY <2>1, HeadTailProperties
  <2>3. /\ overs' \in Seq(Slave) /\ workers' \in Seq(Slave)
        /\ workersSplitting' \in Seq(Slave) /\ oversSplitting' \in Seq(Slave)
    BY <1>3, <2>1, <2>2, AddTailOf DEF InterruptWorker
  <2>4. interrupt' \in [Slave -> BOOLEAN]
    BY <1>3, <2>2 DEF InterruptWorker
  <2>5. stop' \in [Slave -> BOOLEAN]
    BY <1>3, <2>2 DEF InterruptWorker
  <2> QED
    BY <1>3, <2>3, <2>4, <2>5 DEF InterruptWorker
<1>4. CASE SetJob \/ SignalStart \/ PollEnds \/ JoinMaster \/ Timeout
  BY <1>4 DEF SetJob, SignalStart, PollEnds, JoinMaster, Timeout
<1>5. CASE TimeoutInterrupt
  BY <1>5 DEF TimeoutInterrupt
<1>6. CASE TimeoutStop
  <2>1. stop' \in [Slave -> BOOLEAN]
    BY <1>6 DEF TimeoutStop
  <2>2. midx' \in Slave /\ mpc' \in MainLocation
    BY <1>6, SlaveFacts DEF TimeoutStop
  <2> QED
    BY <1>6, <2>1, <2>2 DEF TimeoutStop
<1>7. CASE \E w \in Slave : Crash(w)
  BY <1>7 DEF Crash
<1> QED
  BY <1>1, <1>2, <1>3, <1>4, <1>5, <1>6, <1>7 DEF Master, Main

\* A worker thread.
LEMMA WorkerTypes ==
    ASSUME TypeOK, NEW w \in Slave, Work(w) \/ SolverDecides(w) \/ SpuriousWakeup(w) PROVE TypeOK'
<1> USE DEF TypeOK, failure, ending, flags, lists, threads, main
<1>0. \A l \in WLocation : WGoto(w, l) => wpc' \in [Slave -> WLocation]
  BY DEF WGoto
<1> USE DEF WLocation
<1>1. CASE Loop(w) \/ Gate(w) \/ Report(w) \/ SolverStops(w) \/ SolverDecides(w)
  <2>1. wpc' \in [Slave -> WLocation]
    <3>1. CASE Loop(w)
      BY <1>0, <3>1 DEF Loop
    <3>2. CASE Gate(w)
      BY <1>0, <3>2 DEF Gate
    <3>3. CASE Report(w)
      BY <1>0, <3>3 DEF Report
    <3>4. CASE SolverStops(w) \/ SolverDecides(w)
      BY <1>0, <3>4 DEF SolverStops, SolverDecides
    <3> QED
      BY <1>1, <3>1, <3>2, <3>3, <3>4
  <2>2. res' \in [Slave -> {"UNKNOWN", "SAT", "UNSAT"}]
    BY <1>1 DEF Loop, Gate, Report, SolverStops, SolverDecides
  <2> QED
    BY <1>1, <2>1, <2>2 DEF Loop, Gate, Report, SolverStops, SolverDecides
<1>2. CASE StartSolving(w)
  <2>1. stop' \in [Slave -> BOOLEAN]
    BY <1>2 DEF StartSolving
  <2>2. wpc' \in [Slave -> WLocation]
    BY <1>0, <1>2 DEF StartSolving
  <2> QED
    BY <1>2, <2>1, <2>2 DEF StartSolving
<1>7. CASE SpuriousWakeup(w)
  <2>1. stop' \in [Slave -> BOOLEAN]
    BY <1>7 DEF SpuriousWakeup
  <2>2. wpc' \in [Slave -> WLocation]
    BY <1>0, <1>7 DEF SpuriousWakeup
  <2>3. astray' \in BOOLEAN /\ crashed' \in BOOLEAN
    BY <1>7 DEF SpuriousWakeup
  <2> QED
    BY <1>7, <2>1, <2>2, <2>3 DEF SpuriousWakeup
<1>3. CASE EndStrategy(w) \/ EndSearch(w) \/ SetResult(w) \/ InterruptSlave(w)
  <2>1. strategyEnding' \in BOOLEAN /\ globalEnding' \in BOOLEAN
    BY <1>3 DEF EndStrategy, EndSearch, SetResult, InterruptSlave
  <2>2. wpc' \in [Slave -> WLocation]
    <3>1. CASE EndStrategy(w)
      BY <1>0, <3>1 DEF EndStrategy
    <3>2. CASE EndSearch(w) \/ SetResult(w) \/ InterruptSlave(w)
      BY <1>0, <3>2 DEF EndSearch, SetResult, InterruptSlave
    <3> QED
      BY <1>3, <3>1, <3>2
  <2>3. interrupt' \in [Slave -> BOOLEAN]
    BY <1>3 DEF EndStrategy, EndSearch, SetResult, InterruptSlave
  <2> QED
    BY <1>3, <2>1, <2>2, <2>3 DEF EndStrategy, EndSearch, SetResult, InterruptSlave
<1>4. CASE StopSlave(w)
  <2>1. stop' \in [Slave -> BOOLEAN]
    BY <1>4 DEF StopSlave
  <2>2. widx' \in [Slave -> Slave]
    BY <1>4, SlaveFacts DEF StopSlave
  <2>3. wpc' \in [Slave -> WLocation]
    BY <1>0, <1>4 DEF StopSlave
  <2> QED
    BY <1>4, <2>1, <2>2, <2>3 DEF StopSlave
<1>5. CASE JoinUnknown(w)
  <2>1. PICK over \in Partners(w) : Divide(w, over)
    BY <1>5 DEF JoinUnknown
  <2>2. over \in Slave
    BY <2>1, PartnerTypes
  <2>3. oversSplitting' \in Seq(Slave)
    BY <1>5, PartnerTypes DEF JoinUnknown
  <2>4. workersSplitting' \in Seq(Slave)
    BY <2>1, RemoveFirstType DEF Divide
  <2>5. workers' \in Seq(Slave)
    <3>1. <<w, over>> \in Seq(Slave)
      BY <2>2
    <3> QED
      BY <2>1, <3>1, ConcatProperties DEF Divide
  <2>6. cubes' \in [Slave -> SUBSET Point]
    <3>1. PICK h \in Halves(cubes[w]) :
            cubes' = [cubes EXCEPT ![over] = h[2], ![w] = IF over = w THEN {} ELSE h[1]]
      BY <2>1 DEF Divide
    <3>2. h[1] \in SUBSET Point /\ h[2] \in SUBSET Point
      BY <3>1 DEF Halves
    <3> QED
      BY <2>2, <3>1, <3>2
  <2>7. nWorkers' \in Int
    BY <2>1 DEF Divide, Divided
  <2>8. hasSolver' \in [Slave -> BOOLEAN]
    BY <2>1, <2>2, Options DEF Divide, Cloned
  <2>9. stop' \in [Slave -> BOOLEAN] /\ interrupt' \in [Slave -> BOOLEAN]
    BY <2>1 DEF Divide, Restart
  <2>10. wpc' \in [Slave -> WLocation]
    BY <2>1 DEF Divide, Woken
  <2>11. master' \in MasterLocation
    BY <2>1 DEF Divide, Offer, SignalMaster, MasterLocation
  <2>12. UNCHANGED <<ending, overs, res, widx, main, failure>>
    BY <1>5, <2>1 DEF JoinUnknown, Divide
  <2> QED
    BY <2>3, <2>4, <2>5, <2>6, <2>7, <2>8, <2>9, <2>10, <2>11, <2>12
<1>6. CASE JoinUnsat(w)
  <2>1. /\ overs' \in Seq(Slave) /\ workers' \in Seq(Slave)
        /\ workersSplitting' \in Seq(Slave) /\ oversSplitting' \in Seq(Slave)
    <3>1. CASE Contains(workersSplitting, w)
      <4>1. PICK over \in Partners(w) : overs' = AddOnceToTail(AddOnceToHead(overs, over), w)
        BY <1>6, <3>1 DEF JoinUnsat, Cancel
      <4>2. over \in Slave
        BY <4>1, PartnerTypes
      <4>3. AddOnceToHead(overs, over) \in Seq(Slave)
        BY <4>2, AddHeadOf
      <4>4. overs' \in Seq(Slave)
        BY <4>1, <4>3, AddTailOf
      <4>5. oversSplitting' \in Seq(Slave) /\ workers' \in Seq(Slave)
        BY <1>6, <3>1, PartnerTypes DEF JoinUnsat, Cancel
      <4>6. workersSplitting' \in Seq(Slave)
        BY <1>6, <3>1, RemoveFirstType DEF JoinUnsat, Cancel
      <4> QED
        BY <4>4, <4>5, <4>6
    <3>2. CASE ~Contains(workersSplitting, w)
      BY <1>6, <3>2, RemoveFirstType, AddTailOf DEF JoinUnsat
    <3> QED
      BY <3>1, <3>2
  <2>2. nWorkers' \in Int
    BY <1>6 DEF JoinUnsat
  <2>3. interrupt' \in [Slave -> BOOLEAN] /\ wpc' \in [Slave -> WLocation]
    BY <1>0, <1>6 DEF JoinUnsat
  <2>4. stop' \in [Slave -> BOOLEAN]
    BY <1>6 DEF JoinUnsat
  <2>5. hasSolver' \in [Slave -> BOOLEAN]
    BY <1>6, Options DEF JoinUnsat
  <2>6. master' \in MasterLocation
    BY <1>6 DEF JoinUnsat, TellOfIdle, SignalMaster, MasterLocation
  <2>7. UNCHANGED <<ending, cubes, res, widx, main, failure>>
    BY <1>6 DEF JoinUnsat
  <2> QED
    BY <2>1, <2>2, <2>3, <2>4, <2>5, <2>6, <2>7
<1> QED
  BY <1>1, <1>2, <1>3, <1>4, <1>5, <1>6, <1>7 DEF Work

-----------------------------------------------------------------------------
(* Who is at work *)

\* The steps other than the launch, a division, and a slave becoming idle.
Light(w) ==
    \/ Loop(w) \/ Gate(w) \/ StartSolving(w) \/ SolverStops(w) \/ SolverDecides(w) \/ Report(w)
    \/ EndStrategy(w) \/ InterruptSlave(w) \/ StopSlave(w) \/ EndSearch(w) \/ SetResult(w)
    \/ Crash(w)

MasterLight ==
    \/ MasterWaitsForStart \/ MasterLoop \/ MasterWaits \/ NotYet
    \/ MasterStartsUncalled \/ MasterWakesUncalled

\* They put nobody to work.
LEMMA LightWork ==
    ASSUME TypeOK,
           \/ MasterLight \/ InterruptWorker \/ Main \/ Timeout
           \/ \E w \in Slave : Light(w)
    PROVE  /\ \A v \in Slave : AtWork(v)' => AtWork(v)
           /\ UNCHANGED hasSolver
<1> USE DEF AtWork, TypeOK, ending, flags, lists, threads, main
<1>1. CASE MasterLight \/ Main \/ Timeout
  BY <1>1 DEF MasterLight, MasterWaitsForStart, MasterLoop, MasterWaits, NotYet,
     MasterStartsUncalled, MasterWakesUncalled, Timeout,
     Main, SetJob, SignalStart, TimeoutInterrupt, TimeoutStop, PollEnds, JoinMaster
<1>2. CASE InterruptWorker
  BY <1>2 DEF InterruptWorker
<1>3. ASSUME NEW w \in Slave, Light(w)
      PROVE  (\A v \in Slave : AtWork(v)' => AtWork(v)) /\ UNCHANGED hasSolver
  BY <1>3 DEF Light, Loop, Gate, StartSolving, SolverStops, SolverDecides, Report,
     EndStrategy, InterruptSlave, StopSlave, EndSearch, SetResult, Crash, WGoto
<1> QED
  BY <1>1, <1>2, <1>3

\* A spurious wakeup puts one to work that has a solver.
LEMMA WakeupWork ==
    ASSUME TypeOK, NEW w \in Slave, SpuriousWakeup(w)
    PROVE  /\ \A v \in Slave : AtWork(v)' => AtWork(v) \/ hasSolver[v]
           /\ UNCHANGED hasSolver
  BY DEF SpuriousWakeup, WGoto, AtWork, TypeOK

\* solve() puts nobody to work that has no solver.
LEMMA LaunchWork ==
    ASSUME TypeOK, Launch
    PROVE  /\ \A v \in Slave : AtWork(v)' => AtWork(v) \/ hasSolver'[v]
           /\ UNCHANGED hasSolver
<1>1. PICK w \in Slave : Restart({w}) /\ wpc' = Woken({w}, wpc)
  BY LaunchLists
<1>2. \A v \in Slave : interrupt'[v] = (interrupt[v] /\ ~Called(v, {w}))
  BY <1>1 DEF Restart
<1>3. \A v \in Slave : wpc'[v] = wpc[v] \/ Called(v, {w})
  BY <1>1 DEF Woken
<1> QED
  BY <1>2, <1>3 DEF AtWork, Called, Launch

\* A division gives the partner a solver.
LEMMA DivideWork ==
    ASSUME TypeOK, NEW w \in Slave, NEW over \in Slave, wpc[w] = "join", Divide(w, over)
    PROVE  /\ \A v \in Slave : AtWork(v)' => AtWork(v) \/ hasSolver'[v]
           /\ \A v \in Slave : hasSolver[v] => hasSolver'[v]
           /\ CloneSolvers => hasSolver'[over]
<1> USE DEF TypeOK
<1>1. AtWork(w)
  BY DEF AtWork
<1>2. \A v \in Slave : interrupt'[v] = (interrupt[v] /\ ~Called(v, {w, over}))
  BY DEF Divide, Restart, Restarted
<1>3. \A v \in Slave : v # w => wpc'[v] = wpc[v] \/ Called(v, {over})
  BY DEF Divide, Woken
<1>4. \A v \in Slave : AtWork(v)' => AtWork(v) \/ hasSolver'[v]
  BY <1>1, <1>2, <1>3 DEF AtWork, Called
<1>5. /\ \A v \in Slave : hasSolver[v] => hasSolver'[v]
      /\ CloneSolvers => hasSolver'[over]
  BY DEF Divide, Cloned
<1> QED
  BY <1>4, <1>5

\* A slave that becomes idle is not at work any more.
LEMMA JoinUnsatWork ==
    ASSUME TypeOK, NEW w \in Slave, JoinUnsat(w)
    PROVE  /\ \A v \in Slave : AtWork(v)' => AtWork(v) /\ v # w
           /\ \A v \in Slave : v # w \/ ~CloneSolvers => hasSolver'[v] = hasSolver[v]
<1> USE DEF TypeOK
<1>1. \A v \in Slave : v # w => interrupt'[v] = interrupt[v] /\ wpc'[v] = wpc[v]
  BY DEF JoinUnsat, WGoto
<1>2. interrupt'[w] /\ wpc'[w] \in {"loop", "end"}
  BY DEF JoinUnsat, WGoto
<1>3. \A v \in Slave : v # w \/ ~CloneSolvers => hasSolver'[v] = hasSolver[v]
  BY DEF JoinUnsat
<1> QED
  BY <1>1, <1>2, <1>3 DEF AtWork

\* The cases of a step.
LEMMA StepCases ==
    ASSUME Next
    PROVE  \/ MasterLight \/ InterruptWorker \/ Main \/ Timeout
           \/ \E w \in Slave : Light(w)
           \/ Launch
           \/ \E w \in Slave : SpuriousWakeup(w) \/ JoinUnknown(w) \/ JoinUnsat(w)
  BY DEF Next, Master, Work, Light, MasterLight

\* Whoever is at work keeps its solver, whoever is put to work has one.
LEMMA SolverStep == ASSUME TypeOK, SolverInv, Next PROVE SolverInv'
<1> USE DEF SolverInv
<1>0. oversSplitting \in Seq(Slave)
  BY DEF TypeOK
<1>1. CASE \/ MasterLight \/ InterruptWorker \/ Main \/ Timeout
           \/ \E w \in Slave : Light(w)
  BY <1>1, LightWork
<1>2. CASE Launch
  BY <1>2, LaunchWork
<1>3. ASSUME NEW w \in Slave, JoinUnknown(w) PROVE SolverInv'
  <2>1. PICK over \in Slave : Divide(w, over) /\ wpc[w] = "join"
    BY <1>0, <1>3, PartnerTypes DEF JoinUnknown
  <2> QED
    BY <2>1, DivideWork
<1>4. ASSUME NEW w \in Slave, JoinUnsat(w) PROVE SolverInv'
  BY <1>4, JoinUnsatWork
<1>5. ASSUME NEW w \in Slave, SpuriousWakeup(w) PROVE SolverInv'
  BY <1>5, WakeupWork
<1> QED
  BY <1>1, <1>2, <1>3, <1>4, <1>5, StepCases

-----------------------------------------------------------------------------
(* Before the launch, timeouts, and results *)

\* Nothing but the launch puts a slave into a list or wakes it.
LEMMA FreshStep == ASSUME IInv, Next, ~astray' PROVE FreshInv'
<1> SUFFICES ASSUME ~Launched' PROVE FreshInv'
  BY DEF FreshInv
<1> USE DEF IInv, Always, Orderly, TypeOK, ending, flags, lists, threads, main, failure
<1>1. ~Launched /\ FreshInv
  <2>1. Launched => Launched'
    BY StepCases, ZenonT(60) DEF Launched, MasterLight, MasterWaitsForStart, MasterLoop, MasterWaits, NotYet, MasterStartsUncalled, MasterWakesUncalled,
       InterruptWorker, Main, SetJob, SignalStart, TimeoutInterrupt, TimeoutStop, PollEnds, JoinMaster,
       Timeout, Light, Loop, Gate, StartSolving, SolverStops, SolverDecides, Report, EndStrategy,
       InterruptSlave, StopSlave, EndSearch, SetResult, Crash, Launch, SpuriousWakeup, JoinUnknown, Divide,
       Offer, SignalMaster, JoinUnsat, TellOfIdle
  <2> QED
    BY <2>1
<1>2. CASE MasterLight \/ InterruptWorker \/ Main \/ Timeout
  BY <1>1, <1>2 DEF FreshInv, Launched, MasterLight, MasterWaitsForStart, MasterLoop, MasterWaits, NotYet, MasterStartsUncalled, MasterWakesUncalled,
     InterruptWorker, Main, SetJob, SignalStart, TimeoutInterrupt, TimeoutStop, PollEnds, JoinMaster, Timeout
<1>3. ASSUME NEW w \in Slave, Light(w) PROVE FreshInv'
  BY <1>1, <1>3 DEF FreshInv, Light, WGoto, Loop, Gate, StartSolving, SolverStops,
     SolverDecides, Report, EndStrategy, InterruptSlave, StopSlave, EndSearch, SetResult, Crash
<1>4. ~Launch
  BY DEF Launch, Launched
<1>5. ASSUME NEW w \in Slave PROVE ~JoinUnknown(w) /\ ~JoinUnsat(w)
  BY <1>1 DEF FreshInv, JoinUnknown, JoinUnsat
<1>6. ASSUME NEW w \in Slave, SpuriousWakeup(w) PROVE FreshInv'
  <2>1. ~strategyEnding /\ w \notin Active
    BY <1>1 DEF FreshInv, Active, ToSet
  <2>2. UNCHANGED <<wpc, stop, astray>>
    BY <1>6, <2>1 DEF SpuriousWakeup
  <2> QED
    BY <1>1, <1>6, <2>2 DEF FreshInv, Launched, SpuriousWakeup
<1> QED
  BY <1>2, <1>3, <1>4, <1>5, <1>6, StepCases

\* globalEnding stays set, and a timeout sets it first.
LEMMA TimeoutStep == ASSUME TypeOK, TimeoutInv, Next PROVE TimeoutInv' /\ (globalEnding => globalEnding')
<1> USE DEF TypeOK, TimeoutInv, ending, flags, lists, threads, main, failure
<1>1. CASE MasterLight \/ InterruptWorker \/ Launch
  BY <1>1 DEF MasterLight, MasterWaitsForStart, MasterLoop, MasterWaits, NotYet,
     MasterStartsUncalled, MasterWakesUncalled, InterruptWorker, Launch
<1>2. CASE Main \/ Timeout
  BY <1>2 DEF Main, SetJob, SignalStart, TimeoutInterrupt, TimeoutStop, PollEnds, JoinMaster, Timeout
<1>3. ASSUME NEW w \in Slave, Light(w) PROVE TimeoutInv' /\ (globalEnding => globalEnding')
  BY <1>3 DEF Light, Loop, Gate, StartSolving, SolverStops, SolverDecides, Report, EndStrategy,
     InterruptSlave, StopSlave, EndSearch, SetResult, Crash
<1>4. ASSUME NEW w \in Slave, SpuriousWakeup(w) \/ JoinUnknown(w) \/ JoinUnsat(w)
      PROVE  TimeoutInv' /\ (globalEnding => globalEnding')
  BY <1>4 DEF SpuriousWakeup, JoinUnknown, Divide, JoinUnsat
<1> QED
  BY <1>1, <1>2, <1>3, <1>4, StepCases

\* Where threads are after a step that reports nothing.
LEMMA Quiet ==
    ASSUME TypeOK, Next, \A w \in Slave : ~SolverDecides(w) /\ ~SolverStops(w) /\ ~SetResult(w)
    PROVE  UNCHANGED <<models, finalResult, res>>
<1> USE DEF ending, threads, main
<1>1. CASE MasterLight \/ InterruptWorker \/ Launch
  BY <1>1 DEF MasterLight, MasterWaitsForStart, MasterLoop, MasterWaits, NotYet,
     MasterStartsUncalled, MasterWakesUncalled, InterruptWorker, Launch
<1>2. CASE Main \/ Timeout
  BY <1>2 DEF Main, SetJob, SignalStart, TimeoutInterrupt, TimeoutStop, PollEnds, JoinMaster, Timeout
<1>3. ASSUME NEW w \in Slave, Light(w) PROVE UNCHANGED <<models, finalResult, res>>
  BY <1>3 DEF Light, Loop, Gate, StartSolving, Report, EndStrategy,
     InterruptSlave, StopSlave, EndSearch, Crash
<1>4. ASSUME NEW w \in Slave, SpuriousWakeup(w) \/ JoinUnknown(w) \/ JoinUnsat(w)
      PROVE  UNCHANGED <<models, finalResult, res>>
  BY <1>4 DEF SpuriousWakeup, JoinUnknown, Divide, JoinUnsat
<1> QED
  BY <1>1, <1>2, <1>3, <1>4, StepCases

\* SAT is only found in a cube that has a model.
LEMMA FoundStep == ASSUME TypeOK, FoundInv, Next PROVE FoundInv' /\ models' = models
<1> USE DEF TypeOK, FoundInv, ending
<1>1. ASSUME NEW w \in Slave, SolverDecides(w) PROVE FoundInv' /\ models' = models
  <2>1. /\ res' = [res EXCEPT ![w] = IF cubes[w] \cap models = {} THEN "UNSAT" ELSE "SAT"]
        /\ models' = models /\ finalResult' = finalResult
    BY <1>1 DEF SolverDecides
  <2>2. \A v \in Slave : v # w => res'[v] = res[v]
    BY <2>1
  <2>3. res'[w] = "SAT" => models # {}
    BY <2>1
  <2> QED
    BY <2>1, <2>2, <2>3
<1>2. ASSUME NEW w \in Slave, SolverStops(w) \/ SetResult(w) PROVE FoundInv' /\ models' = models
  BY <1>2 DEF SolverStops, SetResult
<1>3. CASE UNCHANGED <<models, finalResult, res>>
  BY <1>3
<1> QED
  BY <1>1, <1>2, <1>3, Quiet

\* Whoever ends the strategy has found a model or was the last one at work.
LEMMA RefutedStep == ASSUME IInv, Next PROVE RefutedInv'
<1> USE DEF TypeOK, RefutedInv, ending
<1>0. TypeOK /\ RefutedInv
  BY DEF IInv, Always, Orderly
<1>1. ASSUME NEW w \in Slave, SolverDecides(w) \/ SolverStops(w) PROVE RefutedInv'
  <2>1. /\ wpc'[w] = "report" /\ UNCHANGED <<models, finalResult>>
        /\ \A v \in Slave : v # w => wpc'[v] = wpc[v] /\ res'[v] = res[v]
    BY <1>0, <1>1 DEF SolverDecides, SolverStops, WGoto
  <2> QED
    BY <1>0, <2>1
<1>2. ASSUME NEW w \in Slave, SetResult(w) PROVE RefutedInv'
  BY <1>0, <1>2 DEF SetResult, WGoto
<1>3. ASSUME NEW w \in Slave, EndStrategy(w), ~strategyEnding PROVE RefutedInv'
  <2>1. res[w] = "SAT" \/ models = {}
    BY <1>3 DEF IInv, Orderly, FreshInv, SearchInv, InSearch, CubeInv, EndStrategy
  <2> QED
    BY <1>0, <1>3, <2>1 DEF EndStrategy, WGoto
<1>4. CASE /\ UNCHANGED <<models, finalResult, res>>
           /\ \A v \in Slave :
                wpc'[v] \in {"setInterrupt", "setStop", "ending", "result"}
                  => wpc[v] \in {"setInterrupt", "setStop", "ending", "result"}
  BY <1>0, <1>4
<1>5. ASSUME \A w \in Slave : ~SolverDecides(w) /\ ~SolverStops(w) /\ ~SetResult(w)
                             /\ ~(EndStrategy(w) /\ ~strategyEnding)
      PROVE  \A v \in Slave :
                wpc'[v] \in {"setInterrupt", "setStop", "ending", "result"}
                  => wpc[v] \in {"setInterrupt", "setStop", "ending", "result"}
  <2> USE DEF threads, main
  <2>1. CASE MasterLight \/ InterruptWorker
    BY <2>1 DEF MasterLight, MasterWaitsForStart, MasterLoop, MasterWaits, NotYet,
       MasterStartsUncalled, MasterWakesUncalled, InterruptWorker
  <2>2. CASE Main \/ Timeout
    BY <2>2 DEF Main, SetJob, SignalStart, TimeoutInterrupt, TimeoutStop, PollEnds, JoinMaster, Timeout
  <2>3. CASE Launch
    <3>1. PICK w \in Slave : wpc' = Woken({w}, wpc)
      BY <1>0, <2>3, LaunchLists
    <3> QED
      BY <1>0, <3>1 DEF Woken
  <2>4. ASSUME NEW w \in Slave, Light(w)
        PROVE  \A v \in Slave :
                 wpc'[v] \in {"setInterrupt", "setStop", "ending", "result"}
                   => wpc[v] \in {"setInterrupt", "setStop", "ending", "result"}
    BY <1>0, <1>5, <2>4 DEF Light, Loop, Gate, StartSolving, Report, EndStrategy,
       InterruptSlave, StopSlave, EndSearch, Crash, WGoto
  <2>5. ASSUME NEW w \in Slave, JoinUnknown(w)
        PROVE  \A v \in Slave : wpc'[v] \in {wpc[v], "ready", "loop"}
    BY <1>0, <2>5 DEF JoinUnknown, Divide, Woken
  <2>6. ASSUME NEW w \in Slave, JoinUnsat(w)
        PROVE  \A v \in Slave : wpc'[v] \in {wpc[v], "end", "loop"}
    BY <1>0, <2>6 DEF JoinUnsat, WGoto
  <2>7. ASSUME NEW w \in Slave, SpuriousWakeup(w)
        PROVE  \A v \in Slave : wpc'[v] \in {wpc[v], "solving"}
    BY <1>0, <2>7 DEF SpuriousWakeup, WGoto
  <2> QED
    BY <2>1, <2>2, <2>3, <2>4, <2>5, <2>6, <2>7, StepCases
<1> QED
  BY <1>0, <1>1, <1>2, <1>3, <1>4, <1>5, Quiet

-----------------------------------------------------------------------------
(* The search: steps that leave the lists alone *)

\* The search goes on until the strategy ends: only the launch starts it.
LEMMA StillInSearch ==
    ASSUME Next, InSearch', ~Launch PROVE InSearch
<1> USE DEF InSearch, Launched, ending, lists, flags, threads, main, failure
<1>1. CASE MasterLight \/ InterruptWorker
  BY <1>1 DEF MasterLight, MasterWaitsForStart, MasterLoop, MasterWaits, NotYet, MasterStartsUncalled, MasterWakesUncalled, InterruptWorker
<1>2. CASE Main \/ Timeout
  BY <1>2 DEF Main, SetJob, SignalStart, TimeoutInterrupt, TimeoutStop, PollEnds, JoinMaster, Timeout
<1>3. ASSUME NEW w \in Slave, Light(w) PROVE InSearch
  BY <1>3 DEF Light, Loop, Gate, StartSolving, SolverStops, SolverDecides, Report, EndStrategy,
     InterruptSlave, StopSlave, EndSearch, SetResult, Crash
<1>4. ASSUME NEW w \in Slave, JoinUnknown(w) \/ JoinUnsat(w) PROVE InSearch
  <2>1. (SignalMaster \/ UNCHANGED master) /\ UNCHANGED strategyEnding
    <3>1. CASE JoinUnknown(w)
      <4>1. PICK over : Divide(w, over)
        BY <3>1 DEF JoinUnknown
      <4> QED
        BY <4>1 DEF Divide, Offer
    <3>2. CASE JoinUnsat(w)
      BY <3>2 DEF JoinUnsat, TellOfIdle
    <3> QED
      BY <1>4, <3>1, <3>2
  <2> QED
    BY <2>1 DEF SignalMaster
<1>5. ASSUME NEW w \in Slave, SpuriousWakeup(w) PROVE InSearch
  BY <1>5 DEF SpuriousWakeup
<1> QED
  BY <1>1, <1>2, <1>3, <1>4, <1>5, StepCases

\* Where the lists and the cubes stay the same, so does all that is said of them.
LEMMA SameLists ==
    ASSUME SearchInv, InSearch, UNCHANGED <<lists, models>>
    PROVE  ListInv' /\ ModelsCovered' /\ CubesDisjoint' /\ Active' = Active
  BY DEF SearchInv, ListInv, Idle, Active, ModelsCovered, CubesDisjoint, InSearch, lists

\* The worker threads, up to their join.
LEMMA LightSearch ==
    ASSUME IInv, InSearch, InSearch', NEW w \in Slave, Light(w)
    PROVE  SearchInv'
<1> USE DEF ending, flags, lists, threads, main, failure
<1>1. ListInv /\ \A v \in Slave : PlaceInv(v) /\ CubeInv(v)
  BY DEF IInv, Orderly, SearchInv
<1>2. UNCHANGED <<lists, models>>
  BY DEF Light, Loop, Gate, StartSolving, SolverStops, SolverDecides, Report, EndStrategy,
     InterruptSlave, StopSlave, EndSearch, SetResult, Crash
<1>3. ListInv' /\ ModelsCovered' /\ CubesDisjoint' /\ Active' = Active
  BY <1>2, SameLists DEF IInv, Orderly
<1>4. ~InterruptSlave(w) /\ ~StopSlave(w) /\ ~EndSearch(w) /\ ~SetResult(w) /\ ~EndStrategy(w)
  BY <1>1 DEF PlaceInv, InterruptSlave, StopSlave, EndSearch, SetResult, EndStrategy, InSearch
<1>5. ASSUME NEW v \in Slave PROVE PlaceInv(v)' /\ CubeInv(v)'
  <2>0. /\ PlaceInv(v) /\ CubeInv(v)
        /\ ToSet(workers)' = ToSet(workers) /\ ToSet(workersSplitting)' = ToSet(workersSplitting)
        /\ Active' = Active /\ cubes' = cubes /\ models' = models
    BY <1>1, <1>2, <1>3
  <2> USE DEF IInv, Always, TypeOK, PlaceInv, CubeInv, WGoto
  <2>1. CASE Loop(w) \/ Gate(w)
    BY <2>0, <2>1 DEF Loop, Gate
  <2>2. CASE StartSolving(w)
    BY <2>0, <2>2 DEF StartSolving
  <2>3. CASE SolverStops(w)
    <3>1. ~globalEnding => w \in ToSet(workersSplitting)
      BY <1>1, <2>3 DEF SolverStops, ListInv, Active
    <3> QED
      BY <2>0, <2>3, <3>1 DEF SolverStops
  <2>4. CASE SolverDecides(w)
    <3>1. v # w => wpc'[v] = wpc[v] /\ res'[v] = res[v]
      BY <2>4 DEF SolverDecides
    <3>2. /\ wpc'[w] = "report" /\ wpc[w] = "solving"
          /\ res'[w] = IF cubes[w] \cap models = {} THEN "UNSAT" ELSE "SAT"
      BY <2>4 DEF SolverDecides
    <3>3. UNCHANGED <<interrupt, stop, globalEnding>>
      BY <2>4 DEF SolverDecides
    <3> QED
      BY <2>0, <3>1, <3>2, <3>3
  <2>5. CASE Report(w)
    BY <2>0, <2>5 DEF Report
  <2>6. CASE Crash(w)
    BY <2>0, <2>6 DEF Crash
  <2> QED
    BY <1>4, <2>1, <2>2, <2>3, <2>4, <2>5, <2>6 DEF Light
<1> QED
  BY <1>3, <1>5 DEF SearchInv

\* The master between two divisions, and the main thread.
LEMMA MainSearch ==
    ASSUME IInv, InSearch, InSearch', MasterLight \/ Main \/ Timeout
    PROVE  SearchInv'
<1> USE DEF ending, flags, lists, threads, main, failure
<1>1. ListInv /\ \A v \in Slave : PlaceInv(v) /\ CubeInv(v)
  BY DEF IInv, Orderly, SearchInv
<1>2. UNCHANGED <<lists, models, threads>>
  BY DEF MasterLight, MasterWaitsForStart, MasterLoop, MasterWaits, NotYet, MasterStartsUncalled, MasterWakesUncalled, Timeout,
     Main, SetJob, SignalStart, TimeoutInterrupt, TimeoutStop, PollEnds, JoinMaster
<1>3. ListInv' /\ ModelsCovered' /\ CubesDisjoint' /\ Active' = Active
  BY <1>2, SameLists DEF IInv, Orderly
<1>4. /\ \A v \in Slave : interrupt[v] => interrupt'[v]
      /\ globalEnding => globalEnding'
      /\ ~globalEnding' => stop' = stop
  BY DEF IInv, Always, TypeOK, TimeoutInv, MasterLight, MasterWaitsForStart, MasterLoop, MasterWaits, NotYet, MasterStartsUncalled, MasterWakesUncalled,
     Timeout, Main, SetJob, SignalStart, TimeoutInterrupt, TimeoutStop, PollEnds, JoinMaster
<1>5. ASSUME NEW v \in Slave PROVE PlaceInv(v)' /\ CubeInv(v)'
  BY <1>1, <1>2, <1>3, <1>4 DEF PlaceInv, CubeInv
<1> QED
  BY <1>3, <1>5 DEF SearchInv

-----------------------------------------------------------------------------
(* The search: steps that change the lists *)

\* The launch starts the search with one worker, whose cube is everything.
LEMMA LaunchSearch ==
    ASSUME IInv, Launch PROVE SearchInv'
<1> USE DEF ending, flags, lists, threads, main, failure
<1>1. /\ workersSplitting = <<>> /\ oversSplitting = <<>> /\ nWorkers = 0
      /\ overs = <<>> /\ workers = <<>> /\ hasSolver[1]
      /\ \A v \in Slave : interrupt[v] /\ wpc[v] \in {"loop", "gate", "asleep", "done"}
  BY DEF IInv, Orderly, FreshInv, Launched, Launch
<1>2. /\ NoRepeat(overs)' /\ ToSet(overs)' = Slave \ {1}
      /\ workers' = Append(<<>>, 1)
      /\ Restart({1}) /\ wpc' = Woken({1}, wpc)
  BY <1>1, LaunchLists DEF IInv, Always
<1>3. /\ workers' = <<1>> /\ NoRepeat(workers)' /\ ToSet(workers)' = {1} /\ Len(workers)' = 1
  <2>1. workers' = <<1>>
    BY <1>2
  <2> QED
    BY <2>1, SlaveFacts, ShortLists
<1>4. /\ workersSplitting' = <<>> /\ oversSplitting' = <<>>
      /\ NoRepeat(workersSplitting)' /\ NoRepeat(oversSplitting)'
      /\ ToSet(workersSplitting)' = {} /\ ToSet(oversSplitting)' = {}
      /\ Len(workersSplitting)' = 0 /\ Len(oversSplitting)' = 0
  <2>1. workersSplitting' = <<>> /\ oversSplitting' = <<>>
    BY <1>1 DEF Launch
  <2>2. NoRepeat(<<>>) /\ ToSet(<<>>) = {} /\ Len(<<>>) = 0
    BY DEF NoRepeat, ToSet
  <2> QED
    BY <2>1, <2>2
<1>5. 1 \in Slave
  BY SlaveFacts
<1>6. Active' = {1} /\ Idle' = Slave \ {1}
  BY <1>2, <1>3, <1>4 DEF Active, Idle
<1>7. ListInv'
  BY <1>1, <1>2, <1>3, <1>4, <1>5, <1>6 DEF ListInv, Launch
<1>8. ModelsCovered' /\ CubesDisjoint'
  <2>1. cubes'[1] = Point /\ models' \subseteq Point
    BY SlaveFacts DEF Launch, IInv, Always, TypeOK
  <2> QED
    BY <1>6, <2>1 DEF ModelsCovered, CubesDisjoint
<1>9. ASSUME NEW v \in Slave PROVE PlaceInv(v)' /\ CubeInv(v)'
  <2>1. /\ v # 1 => interrupt'[v] /\ wpc'[v] = wpc[v]
        /\ v = 1 => ~stop'[v] /\ wpc'[v] \in {wpc[v], "ready"}
    <3>1. hasSolver' = hasSolver /\ Called(1, {1}) /\ (v # 1 => ~Called(v, {1}))
      BY <1>1 DEF Launch, Called
    <3>2. /\ stop'[v] = (stop[v] /\ ~Called(v, {1})) /\ interrupt'[v] = (interrupt[v] /\ ~Called(v, {1}))
          /\ wpc'[v] = IF Called(v, {1}) /\ wpc[v] = "asleep" THEN "ready" ELSE wpc[v]
      BY <1>2 DEF Restart, Woken
    <3> QED
      BY <1>1, <3>1, <3>2
  <2> QED
    BY <1>1, <1>3, <1>6, <2>1 DEF PlaceInv, CubeInv
<1> QED
  BY <1>7, <1>8, <1>9 DEF SearchInv

\* Pairing the oldest worker with an idle slave moves both to the lists of
\* pending divisions.
LEMMA InterruptSearch ==
    ASSUME IInv, InSearch, InterruptWorker PROVE SearchInv'
<1> USE DEF ending, flags, lists, threads, main, failure
<1>0. ListInv /\ ModelsCovered /\ CubesDisjoint /\ \A v \in Slave : PlaceInv(v) /\ CubeInv(v)
  BY DEF IInv, Orderly, SearchInv
<1>1. /\ overs \in Seq(Slave) /\ workers \in Seq(Slave)
      /\ workersSplitting \in Seq(Slave) /\ oversSplitting \in Seq(Slave)
      /\ Len(workersSplitting) \in Nat /\ Len(oversSplitting) \in Nat /\ Len(workers) \in Nat
  BY DEF IInv, Always, TypeOK
<1>2. PICK w, over : w = Head(workers) /\ over = Head(overs)
  OBVIOUS
<1>3. /\ w \in ToSet(workers) /\ w \in Slave
      /\ NoRepeat(workers)' /\ ToSet(workers)' = ToSet(workers) \ {w}
      /\ Len(workers)' = Len(workers) - 1
  BY <1>0, <1>1, <1>2, TailOf DEF InterruptWorker, ListInv
<1>4. /\ over \in ToSet(overs) /\ over \in Slave
      /\ NoRepeat(overs)' /\ ToSet(overs)' = ToSet(overs) \ {over}
  BY <1>0, <1>1, <1>2, TailOf DEF InterruptWorker, ListInv
<1>5. /\ NoRepeat(workersSplitting)'
      /\ ToSet(workersSplitting)' = ToSet(workersSplitting) \cup {w}
      /\ Len(workersSplitting)' = Len(workersSplitting) + 1
  <2>1. /\ workersSplitting' = AddOnceToTail(workersSplitting, w)
        /\ w \notin ToSet(workersSplitting) /\ NoRepeat(workersSplitting)
    BY <1>0, <1>2, <1>3 DEF InterruptWorker, ListInv
  <2>2. workersSplitting \in Seq(Slave) /\ w \in Slave
    BY <1>1, <1>3
  <2>3. NoRepeat(AddOnceToTail(workersSplitting, w))
    BY <2>1, <2>2, AddTailOf
  <2>4. ToSet(AddOnceToTail(workersSplitting, w)) = ToSet(workersSplitting) \cup {w}
    BY <2>2, AddTailOf
  <2>5. Len(AddOnceToTail(workersSplitting, w)) = Len(workersSplitting) + 1
    BY <2>1, <2>2, AddTailOf
  <2> QED
    BY <2>1, <2>3, <2>4, <2>5
<1>6. /\ NoRepeat(oversSplitting)'
      /\ ToSet(oversSplitting)' = ToSet(oversSplitting) \cup {over}
      /\ Len(oversSplitting)' = Len(oversSplitting) + 1
  <2>1. /\ oversSplitting' = AddOnceToTail(oversSplitting, over)
        /\ over \notin ToSet(oversSplitting) /\ NoRepeat(oversSplitting)
    BY <1>0, <1>2, <1>4 DEF InterruptWorker, ListInv
  <2>2. oversSplitting \in Seq(Slave) /\ over \in Slave
    BY <1>1, <1>4
  <2>3. NoRepeat(AddOnceToTail(oversSplitting, over))
    BY <2>1, <2>2, AddTailOf
  <2>4. ToSet(AddOnceToTail(oversSplitting, over)) = ToSet(oversSplitting) \cup {over}
    BY <2>2, AddTailOf
  <2>5. Len(AddOnceToTail(oversSplitting, over)) = Len(oversSplitting) + 1
    BY <2>1, <2>2, AddTailOf
  <2> QED
    BY <2>1, <2>3, <2>4, <2>5
<1>7. Active' = Active /\ Idle' = Idle
  BY <1>3, <1>4, <1>5, <1>6 DEF Active, Idle
<1>8. ListInv'
  <2>1. nWorkers' = Len(workers)' + Len(workersSplitting)'
    <3>1. nWorkers' = nWorkers /\ nWorkers = Len(workers) + Len(workersSplitting)
      BY <1>0 DEF ListInv, InterruptWorker
    <3> QED
      BY <1>1, <1>3, <1>5, <3>1
  <2>2. /\ ToSet(overs)' \cap ToSet(oversSplitting)' = {}
        /\ ToSet(workers)' \cap ToSet(workersSplitting)' = {}
    BY <1>0, <1>3, <1>4, <1>5, <1>6 DEF ListInv
  <2> QED
    BY <1>0, <1>3, <1>4, <1>5, <1>6, <1>7, <2>1, <2>2 DEF ListInv
<1>9. ModelsCovered' /\ CubesDisjoint'
  <2>1. InSearch /\ UNCHANGED <<cubes, models>>
    BY DEF InterruptWorker
  <2> QED
    BY <1>0, <1>7, <2>1 DEF ModelsCovered, CubesDisjoint
<1>10. ASSUME NEW v \in Slave PROVE PlaceInv(v)' /\ CubeInv(v)'
  <2>1. /\ interrupt[v] => interrupt'[v]
        /\ stop'[v] => stop[v] \/ v = w
        /\ UNCHANGED <<wpc, res, cubes, models, globalEnding>>
    BY <1>2, <1>3 DEF InterruptWorker, IInv, Always, TypeOK
  <2> QED
    BY <1>0, <1>3, <1>5, <1>7, <2>1 DEF PlaceInv, CubeInv
<1> QED
  BY <1>8, <1>9, <1>10 DEF SearchInv

\* The partner of a worker that is to be divided is idle.
LEMMA PartnerIsIdle ==
    ASSUME IInv, InSearch, NEW w \in ToSet(workersSplitting)
    PROVE  /\ oversSplitting # <<>>
           /\ Partners(w) = {Head(oversSplitting)}
           /\ Head(oversSplitting) \in ToSet(oversSplitting) /\ Head(oversSplitting) \in Slave
           /\ w \in Slave /\ w # Head(oversSplitting)
           /\ NoRepeat(Tail(oversSplitting))
           /\ ToSet(Tail(oversSplitting)) = ToSet(oversSplitting) \ {Head(oversSplitting)}
           /\ Len(Tail(oversSplitting)) = Len(oversSplitting) - 1
<1>0. ListInv /\ workersSplitting \in Seq(Slave) /\ oversSplitting \in Seq(Slave)
  BY DEF IInv, Always, Orderly, SearchInv, TypeOK
<1>1. workersSplitting # <<>> /\ w \in Slave
  BY <1>0, ToSetOf
<1>2. oversSplitting # <<>>
  BY <1>0, <1>1, EmptySeq DEF ListInv
<1>3. /\ Head(oversSplitting) \in ToSet(oversSplitting) /\ Head(oversSplitting) \in Slave
      /\ NoRepeat(Tail(oversSplitting))
      /\ ToSet(Tail(oversSplitting)) = ToSet(oversSplitting) \ {Head(oversSplitting)}
      /\ Len(Tail(oversSplitting)) = Len(oversSplitting) - 1
  BY <1>0, <1>2, TailOf DEF ListInv
<1>4. w # Head(oversSplitting)
  BY <1>0, <1>3 DEF ListInv, Idle, Active
<1> QED
  BY <1>1, <1>2, <1>3, <1>4 DEF Partners

\* The two halves replace the cube of the divided worker.
LEMMA HalvesOf ==
    ASSUME NEW c, NEW h \in Halves(c)
    PROVE  h[1] \cup h[2] = c /\ h[1] \cap h[2] = {}
  BY DEF Halves

\* A division takes a worker and its partner out of the lists of pending
\* divisions: both go on as workers, each on a half of the cube.
LEMMA DivideSearch ==
    ASSUME IInv, InSearch, NEW w \in Slave, JoinUnknown(w) PROVE SearchInv'
<1> USE DEF ending, flags, lists, threads, main, failure
<1>0. ListInv /\ ModelsCovered /\ CubesDisjoint /\ \A v \in Slave : PlaceInv(v) /\ CubeInv(v)
  BY DEF IInv, Orderly, SearchInv
<1>1. /\ overs \in Seq(Slave) /\ workers \in Seq(Slave)
      /\ workersSplitting \in Seq(Slave) /\ oversSplitting \in Seq(Slave)
      /\ Len(workersSplitting) \in Nat /\ Len(oversSplitting) \in Nat /\ Len(workers) \in Nat
  BY DEF IInv, Always, TypeOK
<1>2. w \in ToSet(workersSplitting)
  BY <1>0 DEF PlaceInv, JoinUnknown
<1>3. PICK over \in Partners(w) : Divide(w, over)
  BY DEF JoinUnknown
<1>4. over = Head(oversSplitting)
  BY <1>2, <1>3, PartnerIsIdle
<1>5. /\ over \in ToSet(oversSplitting) /\ over \in Slave /\ over # w
      /\ NoRepeat(oversSplitting)'
      /\ ToSet(oversSplitting)' = ToSet(oversSplitting) \ {over}
      /\ Len(oversSplitting)' = Len(oversSplitting) - 1
  <2>1. oversSplitting' = Tail(oversSplitting)
    BY <1>2, PartnerIsIdle DEF JoinUnknown, TakePartner
  <2> QED
    BY <1>2, <1>4, <2>1, PartnerIsIdle
<1>6. /\ NoRepeat(workersSplitting)'
      /\ ToSet(workersSplitting)' = ToSet(workersSplitting) \ {w}
      /\ Len(workersSplitting)' = Len(workersSplitting) - 1
  BY <1>0, <1>1, <1>2, <1>3, RemoveFirstOf DEF ListInv, Divide
<1>7. /\ NoRepeat(workers)'
      /\ ToSet(workers)' = ToSet(workers) \cup {w, over}
      /\ Len(workers)' = Len(workers) + 2
  <2>1. workers' = workers \o <<w, over>>
    BY <1>3 DEF Divide
  <2>2. /\ <<w, over>> \in Seq(Slave) /\ Len(<<w, over>>) = 2 /\ ToSet(<<w, over>>) = {w, over}
        /\ NoRepeat(<<w, over>>)
    BY <1>5, ShortLists, ZenonT(60)
  <2>3. ToSet(workers) \cap {w, over} = {}
    BY <1>0, <1>2, <1>5 DEF ListInv, Idle, Active
  <2>4. ToSet(workers) \cap ToSet(<<w, over>>) = {} /\ NoRepeat(workers)
    BY <1>0, <2>2, <2>3 DEF ListInv
  <2>5. PICK t \in Seq(Slave) : t = <<w, over>>
    BY <2>2
  <2>6. /\ Len(workers \o t) = Len(workers) + Len(t)
        /\ ToSet(workers \o t) = ToSet(workers) \cup ToSet(t)
    BY <1>1, ConcatOf, ZenonT(60)
  <2>7. NoRepeat(t) /\ ToSet(workers) \cap ToSet(t) = {}
    BY <2>2, <2>4, <2>5
  <2>8. NoRepeat(workers \o t)
    BY <1>1, <2>4, <2>7, ConcatOf, ZenonT(60)
  <2> QED
    BY <2>1, <2>2, <2>5, <2>6, <2>8
<1>8. UNCHANGED <<overs, models, res, globalEnding>> /\ nWorkers' = nWorkers + 1
  BY <1>3 DEF Divide, Divided
<1>9. Active' = Active \cup {over} /\ Idle' = Idle \ {over} /\ w \in Active /\ over \notin Active
  BY <1>0, <1>2, <1>5, <1>6, <1>7, <1>8 DEF Active, Idle, ListInv
<1>10. ListInv'
  <2>1. /\ nWorkers' = Len(workers)' + Len(workersSplitting)'
        /\ Len(workersSplitting)' = Len(oversSplitting)'
    BY <1>0, <1>1, <1>5, <1>6, <1>7, <1>8 DEF ListInv
  <2>2. /\ ToSet(overs)' \cap ToSet(oversSplitting)' = {}
        /\ ToSet(workers)' \cap ToSet(workersSplitting)' = {}
    BY <1>0, <1>5, <1>6, <1>7, <1>8 DEF ListInv, Idle, Active
  <2>3. Idle' \cap Active' = {} /\ Idle' \cup Active' = Slave
    BY <1>0, <1>5, <1>9 DEF ListInv
  <2> QED
    BY <1>0, <1>5, <1>6, <1>7, <1>8, <2>1, <2>2, <2>3 DEF ListInv
<1>11. PICK h \in Halves(cubes[w]) : cubes' = [cubes EXCEPT ![over] = h[2], ![w] = h[1]]
  BY <1>3, <1>5 DEF Divide
<1>12. /\ cubes'[w] \cup cubes'[over] = cubes[w] /\ cubes'[w] \cap cubes'[over] = {}
       /\ \A v \in Slave : v \notin {w, over} => cubes'[v] = cubes[v]
  <2>1. /\ cubes'[w] = h[1] /\ cubes'[over] = h[2]
        /\ \A v \in Slave : v \notin {w, over} => cubes'[v] = cubes[v]
    BY <1>5, <1>11 DEF IInv, Always, TypeOK
  <2>2. h[1] \cup h[2] = cubes[w] /\ h[1] \cap h[2] = {}
    BY <1>11, HalvesOf
  <2> QED
    BY <2>1, <2>2
<1>13. ModelsCovered' /\ CubesDisjoint'
  <2>0. Active \subseteq Slave
    BY <1>0 DEF ListInv
  <2>1. /\ models \subseteq UNION {cubes[v] : v \in Active}
        /\ \A u, v \in Active : u # v => cubes[u] \cap cubes[v] = {}
    BY <1>0 DEF ModelsCovered, CubesDisjoint
  <2>2. models' \subseteq UNION {cubes'[v] : v \in Active'}
    <3> SUFFICES ASSUME NEW m \in models PROVE \E v \in Active' : m \in cubes'[v]
      BY <1>8
    <3>1. PICK v \in Active : m \in cubes[v]
      BY <2>1
    <3>2. CASE v = w
      BY <1>9, <1>12, <3>1, <3>2
    <3>3. CASE v # w
      BY <1>9, <1>12, <2>0, <3>1, <3>3
    <3> QED
      BY <3>2, <3>3
  <2>3. ASSUME NEW u \in Active', NEW v \in Active', u # v PROVE cubes'[u] \cap cubes'[v] = {}
    <3>1. \A x \in Active : x # w => cubes'[x] = cubes[x] /\ cubes[x] \cap cubes[w] = {}
      BY <1>9, <1>12, <2>0, <2>1
    <3>2. /\ cubes'[w] \subseteq cubes[w] /\ cubes'[over] \subseteq cubes[w]
          /\ cubes'[w] \cap cubes'[over] = {}
      BY <1>12
    <3>3. CASE u \in {w, over} /\ v \in {w, over}
      BY <2>3, <3>2, <3>3
    <3>4. CASE u \notin {w, over} /\ v \notin {w, over}
      BY <1>9, <2>1, <2>3, <3>1, <3>4
    <3>5. CASE u \in {w, over} /\ v \notin {w, over}
      <4>1. cubes'[u] \subseteq cubes[w] /\ cubes'[v] \cap cubes[w] = {}
        BY <1>9, <3>1, <3>2, <3>5
      <4> QED
        BY <4>1
    <3>6. CASE v \in {w, over} /\ u \notin {w, over}
      <4>1. cubes'[v] \subseteq cubes[w] /\ cubes'[u] \cap cubes[w] = {}
        BY <1>9, <3>1, <3>2, <3>6
      <4> QED
        BY <4>1
    <3> QED
      BY <3>3, <3>4, <3>5, <3>6
  <2> QED
    BY <2>2, <2>3 DEF ModelsCovered, CubesDisjoint
<1>14. ASSUME NEW v \in Slave PROVE PlaceInv(v)' /\ CubeInv(v)'
  <2>1. wpc \in [Slave -> WLocation] /\ over \notin Active
    BY <1>9 DEF IInv, Always, TypeOK
  <2>6. hasSolver'[w] /\ hasSolver'[over]
    <3>1. SolverInv /\ TypeOK /\ AtWork(w) /\ wpc[w] = "join"
      BY DEF IInv, Always, AtWork, JoinUnknown
    <3> QED
      BY <1>3, <1>5, <3>1, DivideWork DEF SolverInv
  <2>2. interrupt[over] /\ wpc[over] \in {"loop", "gate", "asleep", "done", "end"}
    BY <1>0, <1>5, <2>1 DEF PlaceInv
  <2>3. CASE v = w
    <3>1. wpc'[w] = "loop" /\ ~stop'[w] /\ w \in Active'
      BY <1>3, <1>9, <2>1, <2>6 DEF Divide, Restart, Restarted, Woken, Called
    <3> QED
      BY <2>3, <3>1 DEF PlaceInv, CubeInv
  <2>4. CASE v = over
    <3>1. wpc'[over] \in {wpc[over], "ready"} /\ ~stop'[over] /\ over \in Active'
      BY <1>3, <1>5, <1>9, <2>1, <2>6 DEF Divide, Restart, Restarted, Woken, Called
    <3>2. wpc'[over] = "end" => res[over] = "SAT" \/ models = {}
      BY <1>0, <1>5, <3>1 DEF CubeInv
    <3> QED
      BY <1>8, <2>2, <2>4, <3>1, <3>2 DEF PlaceInv, CubeInv
  <2>5. CASE v \notin {w, over}
    <3>1. wpc'[v] = wpc[v] /\ stop'[v] = (stop[v] /\ TRUE) /\ interrupt'[v] = (interrupt[v] /\ TRUE)
      BY <1>3, <2>1, <2>5 DEF Divide, Restart, Restarted, Woken, Called
    <3>2. /\ v \in Active' <=> v \in Active
          /\ v \in ToSet(workers)' <=> v \in ToSet(workers)
          /\ v \in ToSet(workersSplitting)' <=> v \in ToSet(workersSplitting)
      BY <1>6, <1>7, <1>9, <2>5
    <3> QED
      BY <1>0, <1>8, <1>12, <2>5, <3>1, <3>2 DEF PlaceInv, CubeInv
  <2> QED
    BY <2>3, <2>4, <2>5
<1> QED
  BY <1>10, <1>13, <1>14 DEF SearchInv

\* The lists when a worker becomes idle.  If it was to be divided, so does its
\* partner, and the division is cancelled.
LEMMA IdleLists ==
    ASSUME IInv, InSearch, NEW w \in Slave, JoinUnsat(w)
    PROVE  /\ ListInv'
           /\ Active' = Active \ {w}
           /\ ToSet(workers)' = ToSet(workers) \ {w}
           /\ ToSet(workersSplitting)' = ToSet(workersSplitting) \ {w}
<1>0. ListInv /\ \A v \in Slave : PlaceInv(v)
  BY DEF IInv, Orderly, SearchInv
<1>1. /\ overs \in Seq(Slave) /\ workers \in Seq(Slave)
      /\ workersSplitting \in Seq(Slave) /\ oversSplitting \in Seq(Slave)
      /\ Len(workersSplitting) \in Nat /\ Len(oversSplitting) \in Nat /\ Len(workers) \in Nat
  BY DEF IInv, Always, TypeOK
<1>2. /\ nWorkers' = nWorkers - 1
      /\ NoRepeat(workers) /\ NoRepeat(workersSplitting) /\ NoRepeat(overs) /\ NoRepeat(oversSplitting)
  BY <1>0 DEF JoinUnsat, ListInv
<1>3. w \in Active /\ w \notin Idle
  BY <1>0 DEF PlaceInv, JoinUnsat, ListInv
<1>4. CASE w \in ToSet(workersSplitting)
  <2>1. Cancel(w) /\ workers' = workers
    BY <1>1, <1>4, ToSetOf DEF JoinUnsat
  <2>2. PICK over \in Partners(w) : overs' = AddOnceToTail(AddOnceToHead(overs, over), w)
    BY <2>1 DEF Cancel
  <2>3. over = Head(oversSplitting)
    BY <1>4, <2>2, PartnerIsIdle
  <2>4. /\ over \in ToSet(oversSplitting) /\ over \in Slave /\ over # w
        /\ NoRepeat(oversSplitting)'
        /\ ToSet(oversSplitting)' = ToSet(oversSplitting) \ {over}
        /\ Len(oversSplitting)' = Len(oversSplitting) - 1
    <3>1. oversSplitting' = Tail(oversSplitting)
      BY <1>4, <2>1, PartnerIsIdle DEF Cancel, TakePartner
    <3> QED
      BY <1>4, <2>3, <3>1, PartnerIsIdle
  <2>5. /\ NoRepeat(workersSplitting)'
        /\ ToSet(workersSplitting)' = ToSet(workersSplitting) \ {w}
        /\ Len(workersSplitting)' = Len(workersSplitting) - 1
    <3>1. workersSplitting' = RemoveFirst(workersSplitting, w)
      BY <2>1 DEF Cancel
    <3> QED
      BY <1>1, <1>2, <1>4, <3>1, RemoveFirstOf
  <2>6. NoRepeat(overs)' /\ ToSet(overs)' = ToSet(overs) \cup {w, over}
    <3>1. PICK t : t = AddOnceToHead(overs, over)
      OBVIOUS
    <3>2. t \in Seq(Slave) /\ ToSet(t) = ToSet(overs) \cup {over}
      <4>1. over \in Slave /\ overs \in Seq(Slave)
        BY <1>1, <2>4
      <4>2. AddOnceToHead(overs, over) \in Seq(Slave)
        BY <4>1, AddHeadOf
      <4>3. ToSet(AddOnceToHead(overs, over)) = ToSet(overs) \cup {over}
        BY <4>1, AddHeadOf
      <4> QED
        BY <3>1, <4>2, <4>3
    <3>3. NoRepeat(t)
      BY <1>1, <1>2, <2>4, <3>1, AddHeadOf
    <3>4. NoRepeat(AddOnceToTail(t, w))
      BY <3>2, <3>3, AddTailOf
    <3>5. ToSet(AddOnceToTail(t, w)) = ToSet(t) \cup {w}
      <4>1. t \in Seq(Slave)
        BY <3>2
      <4> QED
        BY <4>1, AddTailOf
    <3>6. overs' = AddOnceToTail(t, w)
      BY <2>2, <3>1
    <3> QED
      BY <3>2, <3>4, <3>5, <3>6
  <2>7. ToSet(workers)' = ToSet(workers) /\ w \notin ToSet(workers)
    BY <1>0, <1>4, <2>1 DEF ListInv
  <2>8. Active' = Active \ {w} /\ Idle' = Idle \cup {w}
    BY <2>4, <2>5, <2>6, <2>7 DEF Active, Idle
  <2>9. /\ Len(workersSplitting)' = Len(oversSplitting)'
        /\ nWorkers' = Len(workers)' + Len(workersSplitting)'
    <3>1. nWorkers = Len(workers) + Len(workersSplitting) /\ Len(workersSplitting) = Len(oversSplitting)
      BY <1>0 DEF ListInv
    <3> QED
      BY <1>1, <1>2, <2>1, <2>4, <2>5, <3>1
  <2>10. /\ ToSet(overs)' \cap ToSet(oversSplitting)' = {}
         /\ ToSet(workers)' \cap ToSet(workersSplitting)' = {}
    <3>1. /\ ToSet(overs) \cap ToSet(oversSplitting) = {}
          /\ ToSet(workers) \cap ToSet(workersSplitting) = {}
          /\ w \notin ToSet(oversSplitting)
      BY <1>0, <1>3 DEF ListInv, Idle
    <3> QED
      BY <2>4, <2>5, <2>6, <2>7, <3>1
  <2>11. Idle' \cap Active' = {} /\ Idle' \cup Active' = Slave
    BY <1>0, <2>8 DEF ListInv
  <2> QED
    BY <1>2, <2>1, <2>4, <2>5, <2>6, <2>7, <2>8, <2>9, <2>10, <2>11 DEF ListInv
<1>5. CASE w \notin ToSet(workersSplitting)
  <2>1. /\ workers' = RemoveFirst(workers, w) /\ overs' = AddOnceToTail(overs, w)
        /\ UNCHANGED <<workersSplitting, oversSplitting>>
    BY <1>1, <1>5, ToSetOf DEF JoinUnsat
  <2>2. w \in ToSet(workers)
    BY <1>3, <1>5 DEF Active
  <2>3. /\ NoRepeat(workers)' /\ ToSet(workers)' = ToSet(workers) \ {w}
        /\ Len(workers)' = Len(workers) - 1
    BY <1>1, <1>2, <2>1, <2>2, RemoveFirstOf
  <2>4. NoRepeat(overs)' /\ ToSet(overs)' = ToSet(overs) \cup {w}
    <3>1. NoRepeat(AddOnceToTail(overs, w))
      BY <1>1, <1>2, AddTailOf
    <3>2. ToSet(AddOnceToTail(overs, w)) = ToSet(overs) \cup {w}
      BY <1>1, AddTailOf
    <3> QED
      BY <2>1, <3>1, <3>2
  <2>5. Active' = Active \ {w} /\ Idle' = Idle \cup {w}
    BY <1>5, <2>1, <2>3, <2>4 DEF Active, Idle
  <2>6. nWorkers' = Len(workers)' + Len(workersSplitting)'
    <3>1. nWorkers = Len(workers) + Len(workersSplitting)
      BY <1>0 DEF ListInv
    <3> QED
      BY <1>1, <1>2, <2>1, <2>3, <3>1
  <2>7. /\ ToSet(overs)' \cap ToSet(oversSplitting)' = {}
        /\ ToSet(workers)' \cap ToSet(workersSplitting)' = {}
    <3>1. /\ ToSet(overs) \cap ToSet(oversSplitting) = {}
          /\ ToSet(workers) \cap ToSet(workersSplitting) = {}
          /\ w \notin ToSet(oversSplitting)
      BY <1>0, <1>3 DEF ListInv, Idle
    <3> QED
      BY <2>1, <2>3, <2>4, <3>1
  <2>8. Idle' \cap Active' = {} /\ Idle' \cup Active' = Slave
    BY <1>0, <2>5 DEF ListInv
  <2>9. Len(workersSplitting)' = Len(oversSplitting)' /\ ToSet(workersSplitting)' = ToSet(workersSplitting) \ {w}
    BY <1>0, <1>5, <2>1 DEF ListInv
  <2> QED
    BY <1>2, <2>1, <2>3, <2>4, <2>5, <2>6, <2>7, <2>8, <2>9 DEF ListInv
<1> QED
  BY <1>4, <1>5

\* A slave leaves the search when there is no model in its cube; the last one to
\* leave knows that there is none at all.
LEMMA IdleSearch ==
    ASSUME IInv, InSearch, NEW w \in Slave, JoinUnsat(w), TypeOK' PROVE SearchInv'
<1> USE DEF ending, flags, lists, threads, main, failure
<1>0. ListInv /\ ModelsCovered /\ CubesDisjoint /\ \A v \in Slave : PlaceInv(v) /\ CubeInv(v)
  BY DEF IInv, Orderly, SearchInv
<1>1. /\ ListInv'
      /\ Active' = Active \ {w}
      /\ ToSet(workers)' = ToSet(workers) \ {w}
      /\ ToSet(workersSplitting)' = ToSet(workersSplitting) \ {w}
  BY IdleLists
<1>2. cubes[w] \cap models = {}
  BY <1>0 DEF CubeInv, JoinUnsat
<1>3. UNCHANGED <<cubes, models, res, globalEnding>>
  BY DEF JoinUnsat
<1>4. models' \subseteq UNION {cubes'[v] : v \in Active'}
  <2>1. models \subseteq UNION {cubes[v] : v \in Active}
    BY <1>0 DEF ModelsCovered
  <2> SUFFICES ASSUME NEW m \in models PROVE \E v \in Active' : m \in cubes[v]
    BY <1>3
  <2>2. PICK v \in Active : m \in cubes[v]
    BY <2>1
  <2>3. v # w
    BY <1>2, <2>2
  <2> QED
    BY <1>1, <2>2, <2>3
<1>5. ModelsCovered' /\ CubesDisjoint'
  <2>1. \A u, v \in Active : u # v => cubes[u] \cap cubes[v] = {}
    BY <1>0 DEF CubesDisjoint
  <2>2. \A u, v \in Active' : u # v => cubes'[u] \cap cubes'[v] = {}
    BY <1>1, <1>3, <2>1
  <2> QED
    BY <1>4, <2>2 DEF ModelsCovered, CubesDisjoint
<1>6. ~(nWorkers' > 0) => models = {}
  <2> SUFFICES ASSUME ~(nWorkers' > 0) PROVE models = {}
    OBVIOUS
  <2>1. /\ workers' \in Seq(Slave) /\ workersSplitting' \in Seq(Slave) /\ nWorkers' \in Int
        /\ nWorkers' = Len(workers)' + Len(workersSplitting)'
    BY <1>1 DEF TypeOK, ListInv
  <2>2. Len(workers') = 0 /\ Len(workersSplitting') = 0
    <3>1. Len(workers') \in Nat /\ Len(workersSplitting') \in Nat
      BY <2>1
    <3> QED
      BY <2>1, <3>1
  <2>3. workers' = <<>> /\ workersSplitting' = <<>>
    BY <2>1, <2>2, EmptySeq
  <2>4. Active' = {}
    BY <2>3 DEF Active, ToSet
  <2> QED
    BY <1>3, <1>4, <2>4
<1>7. ASSUME NEW v \in Slave PROVE PlaceInv(v)' /\ CubeInv(v)'
  <2>1. /\ wpc'[w] = IF nWorkers' > 0 THEN "loop" ELSE "end"
        /\ interrupt'[w]
        /\ v # w => wpc'[v] = wpc[v] /\ interrupt'[v] = interrupt[v] /\ stop'[v] = stop[v]
    BY DEF JoinUnsat, WGoto, IInv, Always, TypeOK
  <2>2. CASE v = w
    BY <1>1, <1>3, <1>6, <2>1, <2>2 DEF PlaceInv, CubeInv
  <2>3. CASE v # w
    BY <1>0, <1>1, <1>3, <2>1, <2>3 DEF PlaceInv, CubeInv
  <2> QED
    BY <2>2, <2>3
<1> QED
  BY <1>1, <1>5, <1>7 DEF SearchInv

\* Until one goes astray a spurious wakeup only lets a worker solve that was
\* interrupted on its way.
LEMMA WakeupSearch ==
    ASSUME IInv, InSearch, NEW w \in Slave, SpuriousWakeup(w), ~astray' PROVE SearchInv'
<1> USE DEF ending, flags, lists, threads, main
<1>1. ListInv /\ \A v \in Slave : PlaceInv(v) /\ CubeInv(v)
  BY DEF IInv, Orderly, SearchInv
<1>2. UNCHANGED <<lists, models, globalEnding, res, interrupt>>
  BY DEF SpuriousWakeup
<1>3. ListInv' /\ ModelsCovered' /\ CubesDisjoint' /\ Active' = Active
  BY <1>2, SameLists DEF IInv, Orderly
<1>4. \/ UNCHANGED <<wpc, stop>>
      \/ /\ w \in Active /\ wpc'[w] = "solving" /\ (stop'[w] => stop[w])
         /\ \A v \in Slave : v # w => wpc'[v] = wpc[v] /\ stop'[v] = stop[v]
  BY DEF SpuriousWakeup, WGoto, InSearch, IInv, Always, TypeOK
<1>5. ASSUME NEW v \in Slave PROVE PlaceInv(v)' /\ CubeInv(v)'
  <2>1. PlaceInv(v) /\ CubeInv(v)
    BY <1>1
  <2> QED
    BY <1>2, <1>3, <1>4, <2>1 DEF PlaceInv, CubeInv
<1> QED
  BY <1>3, <1>5 DEF SearchInv

\* Every step.
LEMMA SearchStep == ASSUME IInv, Next, TypeOK', ~astray' PROVE SearchInv'
<1> SUFFICES ASSUME InSearch' PROVE SearchInv'
  BY DEF SearchInv
<1>1. CASE Launch
  BY <1>1, LaunchSearch
<1>2. CASE ~Launch
  <2>1. InSearch
    BY <1>2, StillInSearch
  <2> QED
    BY <1>2, <2>1, StepCases, LightSearch, MainSearch, InterruptSearch, DivideSearch, IdleSearch,
       WakeupSearch
<1> QED
  BY <1>1, <1>2

\* Whoever makes a division possible tells the master.
LEMMA MasterStep == ASSUME IInv, Next PROVE MasterNotForgotten'
<1> SUFFICES ASSUME InSearch', master' = "waiting" PROVE (overs = <<>> \/ workers = <<>>)'
  BY DEF MasterNotForgotten
<1> USE DEF ending, flags, lists, threads, main, failure
<1>0. ~Launch
  BY DEF Launch
<1>1. master = "waiting" => overs = <<>> \/ workers = <<>>
  BY <1>0, StillInSearch DEF IInv, Orderly, MasterNotForgotten
<1>2. CASE MasterLight \/ InterruptWorker
  BY <1>1, <1>2 DEF MasterLight, MasterWaitsForStart, MasterLoop, MasterWaits, NotYet, MasterStartsUncalled, MasterWakesUncalled, InterruptWorker
<1>3. CASE Main \/ Timeout
  BY <1>1, <1>3 DEF Main, SetJob, SignalStart, TimeoutInterrupt, TimeoutStop, PollEnds, JoinMaster, Timeout
<1>4. ASSUME NEW w \in Slave, Light(w) PROVE (overs = <<>> \/ workers = <<>>)'
  BY <1>1, <1>4 DEF Light, Loop, Gate, StartSolving, SolverStops, SolverDecides, Report, EndStrategy,
     InterruptSlave, StopSlave, EndSearch, SetResult, Crash
<1>5. ASSUME NEW w \in Slave, JoinUnknown(w) PROVE (overs = <<>> \/ workers = <<>>)'
  <2>1. PICK over : Divide(w, over)
    BY <1>5 DEF JoinUnknown
  <2> QED
    BY <2>1 DEF Divide, Offer, SignalMaster
<1>6. ASSUME NEW w \in Slave, JoinUnsat(w) PROVE (overs = <<>> \/ workers = <<>>)'
  BY <1>6 DEF JoinUnsat, TellOfIdle, SignalMaster
<1>7. ASSUME NEW w \in Slave, SpuriousWakeup(w) PROVE (overs = <<>> \/ workers = <<>>)'
  BY <1>1, <1>7 DEF SpuriousWakeup
<1> QED
  BY <1>0, <1>2, <1>3, <1>4, <1>5, <1>6, <1>7, StepCases

-----------------------------------------------------------------------------
(* The invariant and what follows from it *)

\* Slaves asleep, empty lists: the invariant holds to begin with.
LEMMA Initially == Init => IInv /\ ~astray
<1> SUFFICES ASSUME Init PROVE IInv /\ ~astray
  OBVIOUS
<1> USE DEF Init
<1>1. TypeOK
  <2>1. /\ {interrupt, stop, hasSolver} \subseteq [Slave -> BOOLEAN]
        /\ cubes \in [Slave -> SUBSET Point]
    BY Options
  <2>2. /\ wpc \in [Slave -> WLocation] /\ widx \in [Slave -> Slave] /\ midx \in Slave
        /\ res \in [Slave -> {"UNKNOWN", "SAT", "UNSAT"}]
    BY SlaveFacts DEF WLocation
  <2>3. {overs, workers, workersSplitting, oversSplitting} \subseteq Seq(Slave)
    OBVIOUS
  <2>4. master \in MasterLocation /\ mpc \in MainLocation
    BY DEF MasterLocation, MainLocation
  <2>5. /\ models \in SUBSET Point /\ finalResult \in {"UNKNOWN", "SAT", "UNSAT"} /\ nWorkers \in Int
        /\ globalEnding = FALSE /\ strategyEnding = FALSE /\ waitJob = TRUE
        /\ crashed = FALSE /\ astray = FALSE
    OBVIOUS
  <2> HIDE DEF Init
  <2>6. {globalEnding, strategyEnding, waitJob, crashed, astray} \subseteq BOOLEAN
    BY <2>5, Zenon
  <2> QED
    BY <2>1, <2>2, <2>3, <2>4, <2>5, <2>6 DEF TypeOK
<1>2. FreshInv
  BY SlaveFacts DEF FreshInv
<1>3. \A w \in Slave : ~AtWork(w)
  BY DEF AtWork
<1>4. SolverInv
  BY <1>3, Options DEF SolverInv
<1>5. FoundInv /\ RefutedInv /\ TimeoutInv
  BY DEF FoundInv, RefutedInv, TimeoutInv
<1>6. SearchInv /\ MasterNotForgotten
  BY DEF SearchInv, MasterNotForgotten, InSearch, Launched
<1> QED
  BY <1>1, <1>2, <1>4, <1>5, <1>6 DEF IInv, Always, Orderly

\* What holds whatever wakeups come is kept by every step.
LEMMA AlwaysStep == Always /\ [Next]_vars => Always'
<1> SUFFICES ASSUME Always, [Next]_vars PROVE Always'
  OBVIOUS
<1>0. TypeOK /\ SolverInv /\ FoundInv /\ TimeoutInv
  BY DEF Always
<1>1. CASE Next
  <2>1. TypeOK'
    <3>1. \/ Master \/ MasterStartsUncalled \/ MasterWakesUncalled \/ Main \/ Timeout
          \/ \E w \in Slave : Work(w) \/ SolverDecides(w) \/ SpuriousWakeup(w) \/ Crash(w)
      BY <1>1 DEF Next
    <3> QED
      BY <1>0, <3>1, MasterMainTypes, WorkerTypes
  <2> QED
    BY <1>0, <1>1, <2>1, SolverStep, FoundStep, TimeoutStep DEF Always
<1>2. CASE UNCHANGED vars
  <2>1. /\ UNCHANGED <<models, globalEnding, strategyEnding, finalResult, waitJob, interrupt, stop>>
        /\ UNCHANGED <<hasSolver, overs, workers, workersSplitting, oversSplitting, cubes, nWorkers>>
        /\ UNCHANGED <<wpc, res, widx, master, mpc, midx, crashed, astray>>
    BY <1>2 DEF vars, ending, flags, lists, threads, main, failure
  <2>2. TypeOK'
    BY <1>0, <2>1 DEF TypeOK
  <2>3. SolverInv' /\ FoundInv' /\ TimeoutInv'
    BY <1>0, <2>1 DEF SolverInv, AtWork, FoundInv, TimeoutInv
  <2> QED
    BY <2>2, <2>3 DEF Always
<1> QED
  BY <1>1, <1>2

\* Who went astray stays so.
LEMMA AstrayStays == TypeOK /\ [Next]_vars /\ astray => astray'
<1> SUFFICES ASSUME TypeOK, [Next]_vars, astray PROVE astray'
  OBVIOUS
<1> USE DEF failure
<1>1. CASE MasterLight \/ InterruptWorker \/ Launch \/ Main \/ Timeout
  BY <1>1 DEF MasterLight, MasterWaitsForStart, MasterLoop, MasterWaits, NotYet,
     MasterStartsUncalled, MasterWakesUncalled, InterruptWorker, Launch, Main, SetJob, SignalStart,
     TimeoutInterrupt, TimeoutStop, PollEnds, JoinMaster, Timeout
<1>2. ASSUME NEW w \in Slave, Light(w) PROVE astray'
  BY <1>2 DEF Light, Loop, Gate, StartSolving, SolverStops, SolverDecides, Report, EndStrategy,
     InterruptSlave, StopSlave, EndSearch, SetResult, Crash
<1>3. ASSUME NEW w \in Slave, SpuriousWakeup(w) \/ JoinUnknown(w) \/ JoinUnsat(w) PROVE astray'
  BY <1>3 DEF SpuriousWakeup, JoinUnknown, JoinUnsat
<1>4. CASE UNCHANGED vars
  BY <1>4 DEF vars
<1> QED
  BY <1>1, <1>2, <1>3, <1>4, StepCases

\* Every step that sends nobody astray keeps the order of the search.
LEMMA OrderlyStep == IInv /\ [Next]_vars /\ Always' /\ ~astray' => Orderly'
<1> SUFFICES ASSUME IInv, [Next]_vars, Always', ~astray' PROVE Orderly'
  OBVIOUS
<1>0. IInv /\ TypeOK'
  BY DEF Always
<1>1. CASE Next
  BY <1>0, <1>1, FreshStep, RefutedStep, SearchStep, MasterStep DEF Orderly
<1>2. CASE UNCHANGED vars
  <2>1. /\ UNCHANGED <<models, globalEnding, strategyEnding, finalResult, waitJob, interrupt, stop>>
        /\ UNCHANGED <<hasSolver, overs, workers, workersSplitting, oversSplitting, cubes, nWorkers>>
        /\ UNCHANGED <<wpc, res, widx, master, mpc, midx, crashed, astray>>
    BY <1>2 DEF vars, ending, flags, lists, threads, main, failure
  <2>2. FreshInv'
    BY <2>1 DEF IInv, Orderly, FreshInv, Launched
  <2>3. RefutedInv' /\ MasterNotForgotten'
    BY <2>1 DEF IInv, Orderly, RefutedInv, MasterNotForgotten, InSearch, Launched
  <2>4. /\ ListInv = ListInv' /\ ModelsCovered = ModelsCovered' /\ CubesDisjoint = CubesDisjoint'
        /\ InSearch = InSearch'
    BY <2>1 DEF ListInv, Idle, Active, ModelsCovered, CubesDisjoint, InSearch, Launched
  <2>5. \A w \in Slave : PlaceInv(w) = PlaceInv(w)' /\ CubeInv(w) = CubeInv(w)'
    BY <2>1 DEF PlaceInv, CubeInv, Active
  <2>6. SearchInv'
    BY <2>4, <2>5 DEF IInv, Orderly, SearchInv
  <2> QED
    BY <2>2, <2>3, <2>6 DEF Orderly
<1> QED
  BY <1>1, <1>2

\* Both halves of the invariant: types, solvers and models found always; what the
\* lists, the counter, the flags and the cubes of the slaves have to do with each
\* other as long as no spurious wakeup has sent a thread to work.
THEOREM DivideInvariant == Spec => [](Always /\ (~astray => IInv))
<1> DEFINE DInv == Always /\ (~astray => IInv)
<1>1. Init => DInv
  BY Initially DEF IInv
<1>2. DInv /\ [Next]_vars => DInv'
  <2> SUFFICES ASSUME DInv, [Next]_vars PROVE DInv'
    OBVIOUS
  <2>1. Always'
    BY AlwaysStep
  <2>2. ASSUME ~astray' PROVE IInv'
    <3>1. IInv
      BY <2>2, AstrayStays DEF Always
    <3> QED
      BY <2>1, <2>2, <3>1, OrderlyStep DEF IInv
  <2> QED
    BY <2>1, <2>2
<1> QED
  BY <1>1, <1>2, PTL DEF Spec

\* However often cubes are divided, divisions cancelled and slaves restarted, the
\* cubes of the slaves at work hold every model and no assignment twice, until the
\* strategy ends or a spurious wakeup sends a thread to work.
THEOREM NothingLost == Spec => []CubesPartition
<1>1. (Always /\ (~astray => IInv)) => CubesPartition
  BY DEF IInv, Orderly, SearchInv, CubesPartition, ModelsCovered, CubesDisjoint
<1> QED
  BY <1>1, DivideInvariant, PTL

\* SAT is the truth about the formula whatever wakeups come, UNSAT unless one of
\* them sent a thread to work.
THEOREM AnswerIsTrue == Spec => []ResultSound
<1>1. (Always /\ (~astray => IInv)) => ResultSound
  BY DEF Always, FoundInv, IInv, Orderly, RefutedInv, ResultSound
<1> QED
  BY <1>1, DivideInvariant, PTL

\* Four lists that hold every slave once are one list that does.
LEMMA FourLists ==
    ASSUME NEW S, NEW a \in Seq(S), NEW b \in Seq(S), NEW c \in Seq(S), NEW d \in Seq(S),
           NoRepeat(a), NoRepeat(b), NoRepeat(c), NoRepeat(d),
           ToSet(a) \cap ToSet(d) = {}, ToSet(b) \cap ToSet(c) = {},
           (ToSet(a) \cup ToSet(d)) \cap (ToSet(b) \cup ToSet(c)) = {}
    PROVE  /\ Distinct(a \o b \o c \o d)
           /\ ToSet(a \o b \o c \o d) = ToSet(a) \cup ToSet(d) \cup ToSet(b) \cup ToSet(c)
<1>1. PICK u : u = a \o b
  OBVIOUS
<1>2. u \in Seq(S) /\ ToSet(u) = ToSet(a) \cup ToSet(b)
  <2>1. a \o b \in Seq(S)
    BY ConcatProperties
  <2>2. ToSet(a \o b) = ToSet(a) \cup ToSet(b)
    BY ConcatOf
  <2> QED
    BY <1>1, <2>1, <2>2
<1>3. ToSet(a) \cap ToSet(b) = {}
  OBVIOUS
<1>4. NoRepeat(u)
  BY <1>1, <1>3, ConcatOf, ZenonT(60)
<1>5. PICK v : v = u \o c
  OBVIOUS
<1>6. v \in Seq(S) /\ ToSet(v) = ToSet(u) \cup ToSet(c)
  <2>1. u \o c \in Seq(S)
    BY <1>2, ConcatProperties
  <2>2. ToSet(u \o c) = ToSet(u) \cup ToSet(c)
    BY <1>2, ConcatOf
  <2> QED
    BY <1>5, <2>1, <2>2
<1>7. ToSet(u) \cap ToSet(c) = {}
  BY <1>2
<1>8. NoRepeat(v)
  BY <1>2, <1>4, <1>5, <1>7, ConcatOf, ZenonT(60)
<1>9. PICK x : x = v \o d
  OBVIOUS
<1>10. x \in Seq(S) /\ ToSet(x) = ToSet(v) \cup ToSet(d)
  <2>1. v \o d \in Seq(S)
    BY <1>6, ConcatProperties
  <2>2. ToSet(v \o d) = ToSet(v) \cup ToSet(d)
    BY <1>6, ConcatOf
  <2> QED
    BY <1>9, <2>1, <2>2
<1>11. ToSet(v) \cap ToSet(d) = {}
  BY <1>2, <1>6
<1>12. NoRepeat(x)
  BY <1>6, <1>8, <1>9, <1>11, ConcatOf, ZenonT(60)
<1>13. Distinct(x)
  <2>1. DOMAIN x = 1..Len(x)
    BY <1>10
  <2> QED
    BY <1>12, <2>1 DEF Distinct, NoRepeat
<1>14. x = a \o b \o c \o d
  BY <1>1, <1>5, <1>9
<1> QED
  BY <1>2, <1>6, <1>10, <1>13, <1>14

\* Whoever solves has a solver, whatever wakeups come.  Until one of them sends a
\* thread to work that nobody called, lists, counter and requests to split stay
\* consistent: every slave is in one list once, nWorkers counts the workers, the
\* master is not left asleep beside a possible division, and a join with UNKNOWN
\* finds the worker among those to be divided.
THEOREM BookkeepingRight == Spec => []BookkeepingIsRight
<1>1. ASSUME Always PROVE TypeOK /\ SolverPresent
  BY <1>1 DEF Always, SolverPresent, SolverInv, AtWork
<1>2. ASSUME IInv PROVE ListsPartition /\ MasterNotForgotten /\ UnknownMeansSplitting
  <2>1. TypeOK /\ MasterNotForgotten
    BY <1>2 DEF IInv, Always, Orderly
  <2>2. ListsPartition
    <3> SUFFICES ASSUME InSearch PROVE ListsPartition
      BY DEF ListsPartition
    <3>1. /\ overs \in Seq(Slave) /\ workers \in Seq(Slave)
          /\ workersSplitting \in Seq(Slave) /\ oversSplitting \in Seq(Slave)
      BY <2>1 DEF TypeOK
    <3>2. ListInv
      BY <1>2 DEF IInv, Orderly, SearchInv
    <3>3. /\ Distinct(overs \o workers \o workersSplitting \o oversSplitting)
          /\ ToSet(overs \o workers \o workersSplitting \o oversSplitting)
               = ToSet(overs) \cup ToSet(oversSplitting) \cup ToSet(workers) \cup ToSet(workersSplitting)
      <4>1. /\ NoRepeat(overs) /\ NoRepeat(workers)
            /\ NoRepeat(workersSplitting) /\ NoRepeat(oversSplitting)
            /\ ToSet(overs) \cap ToSet(oversSplitting) = {}
            /\ ToSet(workers) \cap ToSet(workersSplitting) = {}
            /\ (ToSet(overs) \cup ToSet(oversSplitting))
                 \cap (ToSet(workers) \cup ToSet(workersSplitting)) = {}
        BY <3>2 DEF ListInv, Idle, Active
      <4> QED
        BY <3>1, <4>1, FourLists, SMTT(40)
    <3> QED
      BY <3>2, <3>3 DEF ListsPartition, ListInv, Idle, Active
  <2>3. UnknownMeansSplitting
    <3> SUFFICES ASSUME NEW w \in Slave, wpc[w] = "join", res[w] = "UNKNOWN", ~strategyEnding
                 PROVE  Contains(workersSplitting, w)
      BY DEF UnknownMeansSplitting
    <3>1. InSearch
      BY <1>2 DEF InSearch, IInv, Orderly, FreshInv
    <3>2. w \in ToSet(workersSplitting) /\ workersSplitting \in Seq(Slave)
      BY <1>2, <3>1 DEF IInv, Orderly, SearchInv, PlaceInv, Always, TypeOK
    <3> QED
      BY <3>2, ToSetOf
  <2> QED
    BY <2>1, <2>2, <2>3
<1>3. (Always /\ (~astray => IInv)) => BookkeepingIsRight
  BY <1>1, <1>2 DEF BookkeepingIsRight
<1> QED
  BY <1>3, DivideInvariant, PTL

-----------------------------------------------------------------------------
(* Portfolio: main and the slaves have the variables they have above, and   *)
(* some of their own.                                                       *)

CONSTANTS
    Satisfiable,       \* whether the formula is
    SpuriousWakeups

VARIABLES modelSet, timedOut, alive

Verdict == IF Satisfiable THEN "SAT" ELSE "UNSAT"
P == INSTANCE Portfolio WITH Truth <- Verdict

LEMMA VerdictIs == Verdict \in {"SAT", "UNSAT"}
  BY DEF Verdict

Deleting == {"delete", "dtorInterrupt", "dtorStop", "dtorWait", "dtorJoin"}

\* Slaves are deleted in order from the first, each one when its thread is done.
AliveInv ==
    /\ mpc \in Deleting => alive = midx..N
    /\ mpc = "exit" => alive = {}
    /\ mpc \notin Deleting \cup {"exit"} => alive = P!Worker
    /\ mpc \in {"start", "poll"} => midx = 1
    /\ P!DeletedHaveEnded

\* Only an answer is claimed; once the search has ended other than by timeout
\* the answer is stored, or its owner is about to store it.
AnswerInv ==
    /\ \A w \in P!Worker :
         wpc[w] \in {"claim", "setInterrupt", "setStop", "end", "result", "model"} =>
           res[w] = Verdict
    /\ globalEnding \/ mpc \in Deleting \cup {"exit"} =>
         timedOut \/ finalResult = Verdict \/ \E w \in P!Worker : wpc[w] = "result"
    /\ finalResult = "SAT" => modelSet \/ \E w \in P!Worker : wpc[w] = "model"

PortfolioInv == P!TypeOK /\ P!NoLostWakeup /\ AliveInv /\ AnswerInv

-----------------------------------------------------------------------------
\* The constructors establish the invariant.
LEMMA InitInv == P!Init => PortfolioInv
<1> SUFFICES ASSUME P!Init PROVE PortfolioInv
  OBVIOUS
<1>1. P!TypeOK
  <2>1. 1 \in P!Worker /\ "UNKNOWN" \in {"UNKNOWN", Verdict}
    BY SlaveCount DEF P!Worker
  <2>2. globalEnding \in BOOLEAN /\ strategyEnding \in BOOLEAN /\ modelSet \in BOOLEAN
        /\ timedOut \in BOOLEAN
    BY DEF P!Init
  <2>3. interrupt \in [P!Worker -> BOOLEAN] /\ stop \in [P!Worker -> BOOLEAN]
    BY DEF P!Init
  <2> QED
    BY <2>1, <2>2, <2>3 DEF P!Init, P!TypeOK, P!WLocation, P!MLocation
<1>2. P!NoLostWakeup /\ AliveInv /\ AnswerInv
  BY DEF P!Init, P!NoLostWakeup, AliveInv, P!DeletedHaveEnded, AnswerInv, Deleting
<1> QED
  BY <1>1, <1>2 DEF PortfolioInv

\* Portfolio::setInterrupt moves on to the next slave or ends.
LEMMA StopSlaveInv == ASSUME PortfolioInv, NEW w \in P!Worker, P!StopSlave(w) PROVE PortfolioInv'
<1>1. widx[w] \in P!Worker /\ (widx[w] < N => widx[w] + 1 \in P!Worker) /\ 1 \in P!Worker
  BY SlaveCount, SMTT(40) DEF PortfolioInv, P!TypeOK, P!Worker
<1>2. P!TypeOK'
  BY <1>1 DEF PortfolioInv, P!TypeOK, P!StopSlave, P!WGoto, P!WLocation, P!shared, P!main
<1>3. P!NoLostWakeup' /\ AliveInv' /\ AnswerInv'
  BY DEF PortfolioInv, P!TypeOK, P!NoLostWakeup, AliveInv, P!DeletedHaveEnded, AnswerInv,
     P!StopSlave, P!WGoto, P!shared, P!main
<1> QED
  BY <1>2, <1>3 DEF PortfolioInv

\* A loop of main over the slaves stays among them.
LEMMA NextSlaveType ==
  ASSUME midx \in P!Worker, NEW a \in P!MLocation, NEW b \in P!MLocation, P!NextSlave(a, b)
  PROVE  midx' \in P!Worker /\ mpc' \in P!MLocation
  BY SlaveCount DEF P!NextSlave, P!Worker

\* The loop of setInterrupt that main runs on a timeout.
LEMMA TimeoutStopInv == ASSUME PortfolioInv, P!TimeoutStop PROVE PortfolioInv'
<1>2. P!TypeOK'
  BY NextSlaveType DEF PortfolioInv, P!TypeOK, P!TimeoutStop, P!MLocation, P!shared, P!workers
<1>3. P!NoLostWakeup' /\ AliveInv' /\ AnswerInv'
  BY DEF PortfolioInv, P!TypeOK, P!NoLostWakeup, AliveInv, P!DeletedHaveEnded, AnswerInv,
     P!TimeoutStop, P!NextSlave, P!shared, P!workers, Deleting
<1> QED
  BY <1>2, <1>3 DEF PortfolioInv

\* unsetInterrupt wakes the worker it signals, if that worker sleeps.
LEMMA SignalInv == ASSUME PortfolioInv, P!Signal PROVE PortfolioInv'
<1>1. wpc' \in [P!Worker -> P!WLocation]
  BY DEF PortfolioInv, P!TypeOK, P!Signal, P!WLocation
<1>2. P!TypeOK'
  BY <1>1, NextSlaveType DEF PortfolioInv, P!TypeOK, P!Signal, P!MLocation, P!shared, P!flags
<1>3. P!NoLostWakeup' /\ AliveInv' /\ AnswerInv'
  BY DEF PortfolioInv, P!TypeOK, P!NoLostWakeup, AliveInv, P!DeletedHaveEnded, AnswerInv,
     P!Signal, P!NextSlave, P!shared, P!flags, Deleting
<1> QED
  BY <1>2, <1>3 DEF PortfolioInv

\* ~SequentialWorker removes the first of the slaves left.
LEMMA DtorJoinInv == ASSUME PortfolioInv, P!DtorJoin PROVE PortfolioInv'
<1>1. /\ UNCHANGED <<globalEnding, finalResult, modelSet, interrupt, wpc, res, timedOut>>
      /\ alive = midx..N /\ alive' = alive \ {midx} /\ midx \in 1..N
      /\ wpc[midx] = "done"
      /\ mpc = "dtorJoin"
  BY DEF P!DtorJoin, P!Joinable, PortfolioInv, AliveInv, P!TypeOK, P!Worker, Deleting,
     P!shared, P!flags, P!workers
<1>2. P!TypeOK'
  BY NextSlaveType DEF PortfolioInv, P!TypeOK, P!DtorJoin, P!MLocation, P!shared, P!flags, P!workers
<1>3. P!NoLostWakeup'
  BY <1>1 DEF PortfolioInv, P!NoLostWakeup
<1>4. AliveInv'
  <2>1. P!DeletedHaveEnded'
    BY <1>1 DEF PortfolioInv, AliveInv, P!DeletedHaveEnded
  <2>2. CASE midx < N
    <3>1. mpc' = "delete" /\ midx' = midx + 1
      BY <2>2 DEF P!DtorJoin, P!NextSlave
    <3>2. alive' = (midx + 1)..N
      BY <1>1, <2>2, SlaveCount
    <3> QED
      BY <2>1, <3>1, <3>2 DEF AliveInv, Deleting
  <2>3. CASE ~(midx < N)
    <3>1. mpc' = "exit"
      BY <2>3 DEF P!DtorJoin, P!NextSlave
    <3>2. alive' = {}
      BY <1>1, <2>3, SlaveCount
    <3> QED
      BY <2>1, <3>1, <3>2 DEF AliveInv, Deleting
  <2> QED
    BY <2>2, <2>3
<1>5. AnswerInv'
  BY <1>1 DEF PortfolioInv, AnswerInv, P!DtorJoin, P!NextSlave, Deleting
<1> QED
  BY <1>2, <1>3, <1>4, <1>5 DEF PortfolioInv

\* A step of a worker thread.
LEMMA WorkerStep ==
  ASSUME PortfolioInv, NEW w \in P!Worker, P!Work(w) \/ P!SpuriousWakeup(w)
  PROVE  PortfolioInv'
<1> USE SlaveCount, VerdictIs
<1> USE DEF PortfolioInv, P!TypeOK, P!NoLostWakeup, AliveInv, P!DeletedHaveEnded, AnswerInv,
   P!WLocation, P!WGoto, P!shared, P!flags, P!main, P!Worker
<1>1. CASE P!Loop(w)
  BY <1>1, ZenonT(60) DEF P!Loop
<1>2. CASE P!Gate(w)
  BY <1>2, ZenonT(60) DEF P!Gate
<1>3. CASE P!SpuriousWakeup(w)
  BY <1>3, ZenonT(60) DEF P!SpuriousWakeup
<1>4. CASE P!StartSolving(w)
  BY <1>4, ZenonT(60) DEF P!StartSolving
<1>5. CASE P!SolverEnds(w)
  BY <1>5, ZenonT(60) DEF P!SolverEnds
<1>6. CASE P!Report(w)
  BY <1>6, ZenonT(60) DEF P!Report
<1>7. CASE P!Claim(w)
  BY <1>7, ZenonT(60) DEF P!Claim
<1>8. CASE P!InterruptSlave(w)
  BY <1>8, ZenonT(60) DEF P!InterruptSlave
<1>9. CASE P!EndSearch(w)
  BY <1>9, ZenonT(60) DEF P!EndSearch
<1>10. CASE P!SetResult(w)
  BY <1>10, ZenonT(60) DEF P!SetResult
<1>11. CASE P!SetModel(w)
  BY <1>11 DEF P!SetModel
<1> QED
  BY StopSlaveInv, <1>1, <1>2, <1>3, <1>4, <1>5, <1>6, <1>7, <1>8, <1>9, <1>10, <1>11 DEF P!Work

\* A step of the main thread.
LEMMA MainStep == ASSUME PortfolioInv, P!Main \/ P!Timeout PROVE PortfolioInv'
<1> USE SlaveCount, VerdictIs
<1> USE DEF PortfolioInv, P!TypeOK, P!NoLostWakeup, AliveInv, P!DeletedHaveEnded, AnswerInv,
   Deleting, P!MLocation,
        P!MGoto, P!shared, P!flags, P!workers, P!Worker
<1>1. CASE P!StartPortfolio
  BY <1>1 DEF P!StartPortfolio
<1>2. CASE P!UnsetStop
  BY <1>2 DEF P!UnsetStop
<1>3. CASE P!UnsetInterrupt
  BY <1>3 DEF P!UnsetInterrupt
<1>4. CASE P!Timeout
  BY <1>4 DEF P!Timeout
<1>5. CASE P!TimeoutInterrupt
  BY <1>5 DEF P!TimeoutInterrupt
<1>6. CASE P!PollEnds
  BY <1>6 DEF P!PollEnds
<1>7. CASE P!Delete
  BY <1>7 DEF P!Delete
<1>8. CASE P!DtorInterrupt
  BY <1>8 DEF P!DtorInterrupt
<1>9. CASE P!DtorStop
  BY <1>9 DEF P!DtorStop
<1>10. CASE P!DtorWait
  BY <1>10 DEF P!DtorWait
<1> QED
  BY SignalInv, TimeoutStopInv, DtorJoinInv,
     <1>1, <1>2, <1>3, <1>4, <1>5, <1>6, <1>7, <1>8, <1>9, <1>10 DEF P!Main

\* PortfolioInv holds in every state of every Portfolio.
THEOREM PortfolioInvariant == P!Spec => []PortfolioInv
<1>1. ASSUME PortfolioInv, [P!Next]_(P!vars) PROVE PortfolioInv'
  <2>1. CASE UNCHANGED P!vars
    BY <1>1, <2>1 DEF P!vars, P!shared, P!flags, P!workers, P!main, PortfolioInv, P!TypeOK,
       P!NoLostWakeup, AliveInv, P!DeletedHaveEnded, AnswerInv
  <2> QED
    BY <1>1, <2>1, WorkerStep, MainStep DEF P!Next
<1> QED
  BY <1>1, InitInv, PTL DEF P!Spec

\* SequentialWorker::unsetInterrupt and the wait in mainWorker: a worker that
\* sleeps without having been interrupted is about to be signalled.
THEOREM WakeupsAreNotLost == P!Spec => []P!NoLostWakeup
<1>1. PortfolioInv => P!NoLostWakeup
  BY DEF PortfolioInv
<1> QED
  BY <1>1, PortfolioInvariant, PTL

\* ~SequentialWorker: no thread outlives the object it runs on.
THEOREM NoThreadOutlivesItsSlave == P!Spec => []P!DeletedHaveEnded
<1>1. PortfolioInv => P!DeletedHaveEnded
  BY DEF PortfolioInv, AliveInv
<1> QED
  BY <1>1, PortfolioInvariant, PTL

\* The three together, with the types, for every number of slaves.
THEOREM ThreadsSafe == P!Spec => []P!ThreadsAreSafe
<1>1. PortfolioInv => P!ThreadsAreSafe
  BY DEF PortfolioInv, AliveInv, P!ThreadsAreSafe
<1> QED
  BY <1>1, PortfolioInvariant, PTL

\* main prints the truth about the formula, with its model if there is one, or
\* UNKNOWN after a timeout.
THEOREM ResultIsComplete == P!Spec => []P!ExitResult
<1>1. ASSUME PortfolioInv PROVE P!ExitResult
  <2> SUFFICES ASSUME mpc = "exit" PROVE P!ExitResult
    BY DEF P!ExitResult
  <2>1. \A w \in P!Worker : wpc[w] = "done"
    BY <1>1 DEF PortfolioInv, AliveInv, P!DeletedHaveEnded
  <2> QED
    BY <1>1, <2>1 DEF PortfolioInv, P!TypeOK, AnswerInv, P!ExitResult
<1> QED
  BY <1>1, PortfolioInvariant, PTL

=============================================================================
