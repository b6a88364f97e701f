------------------------ MODULE CubeAndConquerProofs ------------------------
(***************************************************************************)
(* Proofs about CubeAndConquer for every number of cpus, nodes, copies and *)
(* every set of assignments, without the bounds of the instances TLC       *)
(* checks (a signal that comes late and makes a second root included).     *)
(*                                                                         *)
(* nJobs is decremented by a worker before the worker appends itself to    *)
(* over, and over is cleared after its workers were erased one by one      *)
(* while others still append to it.  The inductive invariant says what     *)
(* holds in between.                                                       *)
(***************************************************************************)
EXTENDS CubeAndConquer, ListTheorems, FiniteSetTheorems, TLAPS

\* The workers whose sub-problem nobody has refuted, as far as nJobs knows.
Live == {w \in ToSet(workers) \ ToSet(over) : wpc[w] # "left"}

\* The workers that have taken their job from nJobs and not returned.
Counted == {w \in Slave \ {0} : wpc[w] \in {"left", "end"} /\ res[w] = "UNSAT"}

\* Nothing is launched before the job is set.
StartInv ==
    mpc = "solve" => /\ created = 0 /\ nJobs = 0 /\ waitJob
                     /\ master \in {"loop", "start", "waitStart", "done"}

\* Only slaves that were made are in the lists, no worker twice; slave 0 solves the
\* formula itself.
MadeInv ==
    /\ NoRepeat(workers)
    /\ ToSet(workers) \subseteq 1..created /\ ToSet(over) \subseteq 1..created
    /\ \A w \in Slave : w > created => wpc[w] = "loop" /\ clausesToAdd[w] = Point
    /\ formula[0] = Point /\ clausesToAdd[0] = Point

\* The part of over that the master has been through is out of workers, and there
\* is room for the copies it has decided to make.
RoundInv ==
    /\ master \in {"erase", "join"} =>
          /\ midx >= 1 /\ midx <= Len(over) + 1
          /\ \A k \in 1..Len(over) : k < midx => over[k] \notin ToSet(workers)
    /\ master = "join" => midx <= Len(over) /\ over[midx] \notin ToSet(workers)
    /\ master = "divide" => created + (last - midx) + 1 <= MaxWorkers

\* Only a refuted sub-problem is taken from nJobs.
ResultInv ==
    \A w \in Slave :
        /\ wpc[w] \in {"report", "left"} /\ res[w] = "UNSAT" => formula[w] \cap models = {}
        /\ wpc[w] = "left" => res[w] = "UNSAT" /\ w # 0

\* nJobs against the workers that are left, from above and from below.
JobInv ==
    /\ created = 0 => nJobs <= 1
    /\ created > 0 => nJobs <= Cardinality(Live)
    /\ mpc # "solve" /\ ~strategyEnding => nJobs >= 1 - Cardinality(Counted)

IInv ==
    /\ TypeOK /\ StartInv /\ MadeInv /\ RoundInv /\ ResultInv /\ JobInv
    /\ ModelsCovered

-----------------------------------------------------------------------------
(* Slaves and lists *)

\* The slaves are numbered from 0 to MaxWorkers.
LEMMA SlaveFacts ==
    /\ MaxWorkers \in Nat /\ MaxWorkers >= 1 /\ 0 \in Slave
    /\ \A w \in Slave : w \in Nat /\ w <= MaxWorkers /\ (w < MaxWorkers => w + 1 \in Slave)
    /\ \A c \in Slave : \A w \in 1..c : w \in Slave /\ w # 0
    /\ IsFiniteSet(Slave) /\ IsFiniteSet(Slave \ {0}) /\ Cardinality(Slave \ {0}) = MaxWorkers
<1>1. MaxWorkers \in Nat /\ MaxWorkers >= 1
  BY Bounds
<1>2. IsFiniteSet(Slave)
  BY <1>1, FS_Interval DEF Slave
<1>3. Slave \ {0} = 1..MaxWorkers
  BY <1>1 DEF Slave
<1>4. IsFiniteSet(1..MaxWorkers) /\ Cardinality(1..MaxWorkers) = MaxWorkers
  BY <1>1, FS_Interval
<1>5. 0 \in Slave /\ \A w \in Slave : w \in Nat /\ w <= MaxWorkers /\ (w < MaxWorkers => w + 1 \in Slave)
  BY <1>1 DEF Slave
<1>6. \A c \in Slave : \A w \in 1..c : w \in Slave /\ w # 0
  BY <1>1 DEF Slave
<1> QED
  BY <1>1, <1>2, <1>3, <1>4, <1>5, <1>6

\* A set that is listed in any order.
LEMMA Permuted ==
    ASSUME NEW S, NEW T \in SUBSET S, IsFiniteSet(T), NEW f \in SetToSeqs(T)
    PROVE  f \in Seq(S) /\ ToSet(f) = T /\ NoRepeat(f)
<1>1. PICK k \in Nat : k = Cardinality(T)
  BY FS_CardinalityType
<1>2. f \in [1..k -> T] /\ \A a, b \in 1..k : a # b => f[a] # f[b]
  BY <1>1 DEF SetToSeqs
<1>3. f \in Injection(1..k, T)
  BY <1>2 DEF Injection, IsInjective
<1>4. Cardinality(1..k) = k
  BY FS_Interval
<1>5. f \in Surjection(1..k, T)
  BY <1>1, <1>3, <1>4, FS_Injection
<1>6. ToSet(f) = T
  BY <1>2, <1>5 DEF ToSet, Surjection
<1>7. f \in [1..k -> S]
  BY <1>2
<1>8. f \in Seq(S) /\ Len(f) = k
  BY <1>7, SeqDef
<1>9. NoRepeat(f)
  BY <1>2, <1>8 DEF NoRepeat
<1> QED
  BY <1>6, <1>8, <1>9

\* What TypeOK says of the lists.
LEMMA ListTypes ==
    ASSUME TypeOK, MadeInv
    PROVE  /\ workers \in Seq(Slave) /\ over \in Seq(Slave) /\ created \in Slave /\ created \in Nat
           /\ nJobs \in Int
           /\ IsFiniteSet(ToSet(workers)) /\ IsFiniteSet(Live) /\ Cardinality(Live) \in Nat
           /\ IsFiniteSet(Counted) /\ Cardinality(Counted) \in Nat
           /\ Live \subseteq Slave \ {0}
<1>1. /\ workers \in Seq(Slave) /\ over \in Seq(Slave) /\ created \in Slave /\ created \in Nat
      /\ nJobs \in Int
  BY SlaveFacts DEF TypeOK
<1>2. ToSet(workers) \subseteq Slave \ {0}
  BY <1>1, SlaveFacts DEF MadeInv
<1>3. Live \subseteq ToSet(workers) /\ Counted \subseteq Slave \ {0}
  BY DEF Live, Counted
<1>4. IsFiniteSet(ToSet(workers)) /\ IsFiniteSet(Live) /\ IsFiniteSet(Counted)
  BY <1>2, <1>3, SlaveFacts, FS_Subset
<1>5. Cardinality(Live) \in Nat /\ Cardinality(Counted) \in Nat
  BY <1>4, FS_CardinalityType
<1> QED
  BY <1>1, <1>2, <1>3, <1>4, <1>5

\* A slave that has just been made is not in the list yet.
LEMMA AddedLast ==
    ASSUME NEW s \in Seq(Slave), NEW c \in Nat, NoRepeat(s), ToSet(s) \subseteq 1..c, c + 1 \in Slave
    PROVE  NoRepeat(Append(s, c + 1))
<1>1. PICK t : t = Append(s, c + 1)
  OBVIOUS
<1>2. /\ Len(t) = Len(s) + 1 /\ Len(s) \in Nat
      /\ \A k \in 1..Len(s) : t[k] = s[k]
      /\ t[Len(s) + 1] = c + 1
  BY <1>1, AppendProperties
<1>3. \A k \in 1..Len(s) : t[k] # c + 1
  BY <1>2, PlaceOf
<1>4. ASSUME NEW i \in 1..Len(t), NEW j \in 1..Len(t), t[i] = t[j] PROVE i = j
  BY <1>2, <1>3, <1>4 DEF NoRepeat
<1> QED
  BY <1>1, <1>4 DEF NoRepeat

\* A division: the worker, its copy, and the list of workers after it.
LEMMA DivideLists ==
    ASSUME IInv, Divide
    PROVE  /\ created \in Slave /\ created + 1 \in Slave /\ created \in Nat /\ created > 0
           /\ workers[midx] \in 1..created /\ workers[midx] \in ToSet(workers)
           /\ workers[midx] \in Slave
           /\ workers' \in Seq(Slave)
           /\ ToSet(workers') = ToSet(workers) \cup {created + 1}
           /\ NoRepeat(workers')
           /\ Len(workers') >= 1
           /\ midx < last => Len(workers') = Len(workers) + 1
<1>1. /\ workers \in Seq(Slave) /\ created \in Slave /\ created \in Nat /\ MaxWorkers \in Nat
      /\ midx \in 1..last /\ last <= Len(workers) /\ last \in Nat /\ Len(workers) \in Nat
  BY SlaveFacts DEF IInv, TypeOK, Divide
<1>2. created < MaxWorkers
  BY <1>1 DEF IInv, RoundInv, Divide
<1>3. created + 1 \in Slave
  BY <1>1, <1>2, SlaveFacts
<1>4. workers[midx] \in ToSet(workers)
  <2>1. midx \in 1..Len(workers)
    BY <1>1
  <2> QED
    BY <1>1, <2>1, PlaceOf
<1>5. workers[midx] \in 1..created
  BY <1>4 DEF IInv, MadeInv
<1>6. PICK ws : ws = Append(workers, created + 1)
  OBVIOUS
<1>7. ws \in Seq(Slave) /\ Len(ws) = Len(workers) + 1 /\ ToSet(ws) = ToSet(workers) \cup {created + 1}
  BY <1>1, <1>3, <1>6, AppendOf
<1>11. NoRepeat(ws)
  BY <1>1, <1>3, <1>6, AddedLast DEF IInv, MadeInv
<1>8. workers' \in Reordered(ws)
  BY <1>6 DEF Divide
<1>9. CASE workers' = ws
  BY <1>1, <1>3, <1>4, <1>5, <1>7, <1>11, <1>9, SlaveFacts
<1>10. CASE workers' # ws
  <2>1. midx = last /\ workers' \in SetToSeqs(ToSet(ws))
    BY <1>8, <1>10 DEF Reordered
  <2>2. ToSet(ws) \in SUBSET Slave
    BY <1>7, ToSetOf
  <2>3. IsFiniteSet(ToSet(ws))
    BY <2>2, SlaveFacts, FS_Subset
  <2>4. workers' \in Seq(Slave) /\ ToSet(workers') = ToSet(ws) /\ NoRepeat(workers')
    BY <2>1, <2>2, <2>3, Permuted
  <2>5. ~(midx < last)
    BY <1>1, <2>1
  <2>6. Len(workers') >= 1
    BY <2>4, <1>7, ToSetOf, EmptySeq
  <2> QED
    BY <1>1, <1>3, <1>4, <1>5, <1>7, <2>4, <2>5, <2>6, SlaveFacts
<1> QED
  BY <1>9, <1>10

\* The root of the sub-problems is added.
LEMMA RootLists ==
    ASSUME IInv, LaunchPortfolio
    PROVE  /\ created \in Nat /\ created + 1 \in Slave /\ created + 1 # 0
           /\ workers' \in Seq(Slave)
           /\ ToSet(workers') = ToSet(workers) \cup {created + 1}
           /\ Len(workers') = Len(workers) + 1
           /\ NoRepeat(workers')
<1>1. workers \in Seq(Slave) /\ created \in Slave /\ created \in Nat /\ Len(workers) \in Nat
  BY SlaveFacts DEF IInv, TypeOK
<1>2. created + 1 \in Slave
  BY <1>1, SlaveFacts DEF LaunchPortfolio
<1>3. workers' = Append(workers, created + 1)
  BY DEF LaunchPortfolio
<1>4. NoRepeat(workers')
  BY <1>1, <1>2, <1>3, AddedLast DEF IInv, MadeInv
<1> QED
  BY <1>1, <1>2, <1>3, <1>4, AppendOf

-----------------------------------------------------------------------------
(* The steps that leave the lists and nJobs alone *)

MasterQuiet ==
    \/ MasterLoop \/ WaitForJob \/ MasterStartsUncalled \/ LaunchRoot \/ NextRound \/ BeginRound
    \/ InterruptWorker \/ WaitWorker \/ JoinOver \/ Launch

WorkQuiet(w) ==
    /\ w <= created
    /\ \/ Gate(w) \/ SpuriousWakeup(w) \/ StartSolving(w) \/ SolverEnds(w) \/ Report(w)
       \/ LaunchNext(w) \/ IncNext(w) \/ EndStrategy(w)

\* The cases of a step.
LEMMA StepCases ==
    ASSUME Next
    PROVE  \/ MasterQuiet \/ LaunchPortfolio \/ EraseOver \/ ChooseTargets \/ Divide
           \/ \E w \in Slave : WorkQuiet(w) \/ (w <= created /\ (Count(w) \/ SomeLeft(w)))
           \/ SetJob \/ SignalStart
  BY DEF Next, Master, Work, Main, MasterQuiet, WorkQuiet

Stays(v) == wpc'[v] = wpc[v] \/ (wpc[v] = "asleep" /\ wpc'[v] = "ready")

\* A signal wakes the slave it is sent to, if it is asleep.
LEMMA WokenFacts ==
    ASSUME NEW pcs \in [Slave -> WLocation], NEW x
    PROVE  /\ Woken(x, pcs) \in [Slave -> WLocation]
           /\ \A v \in Slave : Woken(x, pcs)[v] = pcs[v]
                                                         \/ (pcs[v] = "asleep" /\ Woken(x, pcs)[v] = "ready")
  BY DEF Woken, WLocation

\* The master.
LEMMA MasterFacts ==
    ASSUME TypeOK, MasterQuiet
    PROVE  /\ UNCHANGED <<models, globalEnding, strategyEnding, finalResult>>
           /\ UNCHANGED <<nJobs, over, workers, created, formula, clausesToAdd, res, mpc>>
           /\ wpc' \in [Slave -> WLocation]
           /\ \A v \in Slave : Stays(v)
<1> USE DEF ending, lists, flags, solvers, threads, masters, Stays
<1>1. CASE LaunchRoot
  BY <1>1, WokenFacts DEF LaunchRoot, TypeOK
<1>2. CASE Launch
  BY <1>2, WokenFacts, SMTT(40) DEF Launch, TypeOK
<1>3. CASE MasterLoop \/ WaitForJob \/ MasterStartsUncalled \/ NextRound \/ BeginRound
           \/ InterruptWorker \/ WaitWorker \/ JoinOver
  BY <1>3 DEF MasterLoop, WaitForJob, MasterStartsUncalled, NextRound, BeginRound, InterruptWorker,
     WaitWorker, JoinOver, TypeOK
<1> QED
  BY <1>1, <1>2, <1>3 DEF MasterQuiet

\* A worker thread, while it does not touch nJobs and over.
LEMMA WorkFacts ==
    ASSUME TypeOK, NEW w \in Slave, WorkQuiet(w)
    PROVE  /\ UNCHANGED <<models, waitJob, nJobs, over, workers, created, deleted>>
           /\ UNCHANGED <<master, midx, last, mpc>>
           /\ wpc' \in [Slave -> WLocation]
           /\ \A v \in Slave : v # w => Stays(v) /\ res'[v] = res[v]
           /\ \A v \in Slave : v # w => formula'[v] = formula[v] /\ clausesToAdd'[v] = clausesToAdd[v]
           /\ wpc'[w] # "left"
           /\ wpc[w] \in {"left", "end"} => strategyEnding'
           /\ strategyEnding => strategyEnding'
           /\ \/ formula'[w] = formula[w] /\ clausesToAdd'[w] = clausesToAdd[w]
              \/ formula'[w] = SubProblem(w) /\ clausesToAdd'[w] = Point /\ wpc'[w] = "solving"
           /\ wpc'[w] = "report" => /\ formula'[w] = formula[w]
                                    /\ res'[w] = "UNSAT" => formula[w] \cap models = {}
<1> USE DEF ending, lists, flags, solvers, threads, masters, Stays, TypeOK
<1>1. CASE Gate(w) \/ SpuriousWakeup(w) \/ Report(w)
  <2>1. \A l \in WLocation : WGoto(w, l) => wpc' \in [Slave -> WLocation]
    BY DEF WGoto
  <2>2. wpc' \in [Slave -> WLocation]
    BY <1>1, <2>1 DEF Gate, SpuriousWakeup, Report, Return, WGoto, WLocation
  <2> QED
    BY <1>1, <2>2 DEF Gate, SpuriousWakeup, Report, Return, WGoto
<1>2. CASE StartSolving(w)
  <2>1. wpc' \in [Slave -> WLocation]
    BY <1>2 DEF StartSolving, WGoto, WLocation
  <2> QED
    BY <1>2, <2>1 DEF StartSolving, WGoto
<1>3. CASE SolverEnds(w)
  <2>1. wpc' \in [Slave -> WLocation]
    BY <1>3 DEF SolverEnds, WLocation
  <2>2. PICK r : /\ res' = [res EXCEPT ![w] = r]
                 /\ r \in {IF formula[w] \cap models = {} THEN "UNSAT" ELSE "SAT"}
                          \cup (IF stop[w] THEN {"UNKNOWN"} ELSE {})
    BY <1>3 DEF SolverEnds
  <2>3. r = "UNSAT" => formula[w] \cap models = {}
    BY <2>2
  <2> QED
    BY <1>3, <2>1, <2>2, <2>3 DEF SolverEnds
<1>4. CASE LaunchNext(w)
  <2>1. CASE next < Len(workers)
    <3>1. PICK ready \in [Slave -> WLocation] :
            /\ wpc' = [ready EXCEPT ![w] = "incNext"]
            /\ \A v \in Slave : ready[v] = wpc[v] \/ (wpc[v] = "asleep" /\ ready[v] = "ready")
      BY <1>4, <2>1, WokenFacts DEF LaunchNext
    <3>2. wpc' \in [Slave -> WLocation]
      BY <3>1 DEF WLocation
    <3> QED
      BY <1>4, <2>1, <3>1, <3>2 DEF LaunchNext
  <2>2. CASE ~(next < Len(workers))
    BY <1>4, <2>2 DEF LaunchNext
  <2> QED
    BY <2>1, <2>2
<1>5. CASE IncNext(w) \/ EndStrategy(w)
  <2>1. wpc' \in [Slave -> WLocation]
    BY <1>5 DEF IncNext, EndStrategy, Return, WLocation
  <2> QED
    BY <1>5, <2>1 DEF IncNext, EndStrategy, Return
<1> QED
  BY <1>1, <1>2, <1>3, <1>4, <1>5 DEF WorkQuiet

-----------------------------------------------------------------------------
(* nJobs *)

\* More workers that live or have counted down leave nJobs within its bounds.
LEMMA MoreFits ==
    ASSUME IInv, nJobs' = nJobs, created' = created, mpc' # "solve" => mpc # "solve",
           Live \subseteq Live', Live' \subseteq Slave,
           ~strategyEnding' => ~strategyEnding /\ Counted \subseteq Counted',
           Counted' \subseteq Slave
    PROVE  JobInv'
<1>1. /\ IsFiniteSet(Live') /\ Cardinality(Live') \in Nat /\ Cardinality(Live) <= Cardinality(Live')
  BY SlaveFacts, FS_Subset, FS_CardinalityType
<1>2. /\ IsFiniteSet(Counted') /\ Cardinality(Counted') \in Nat
      /\ ~strategyEnding' => Cardinality(Counted) <= Cardinality(Counted')
  BY SlaveFacts, FS_Subset, FS_CardinalityType
<1>3. nJobs \in Int /\ Cardinality(Live) \in Nat /\ Cardinality(Counted) \in Nat /\ created \in Nat
  BY ListTypes DEF IInv
<1> QED
  BY <1>1, <1>2, <1>3 DEF IInv, JobInv

\* The quiet steps.
LEMMA QuietJobs ==
    ASSUME IInv, MasterQuiet \/ \E w \in Slave : WorkQuiet(w)
    PROVE  JobInv' /\ nJobs' = nJobs
<1>0. TypeOK
  BY DEF IInv
<1>1. CASE MasterQuiet
  <2>1. UNCHANGED <<nJobs, over, workers, created, res, mpc, strategyEnding>> /\ \A v \in Slave : Stays(v)
    BY <1>0, <1>1, MasterFacts
  <2>2. Live \subseteq Live' /\ Live' \subseteq Slave
    <3>1. Live' \subseteq ToSet(workers) /\ ToSet(workers) \subseteq Slave
      BY <1>0, <2>1, ToSetOf DEF Live, TypeOK
    <3> QED
      BY <2>1, <3>1 DEF Live, Stays
  <2>3. Counted \subseteq Counted' /\ Counted' \subseteq Slave
    BY <2>1 DEF Counted, Stays
  <2> QED
    BY <2>1, <2>2, <2>3, MoreFits
<1>2. ASSUME NEW w \in Slave, WorkQuiet(w) PROVE JobInv' /\ nJobs' = nJobs
  <2>1. /\ UNCHANGED <<nJobs, over, workers, created, mpc>>
        /\ \A v \in Slave : v # w => Stays(v) /\ res'[v] = res[v]
        /\ wpc'[w] # "left"
        /\ wpc[w] \in {"left", "end"} => strategyEnding'
        /\ strategyEnding => strategyEnding'
        /\ strategyEnding' \in BOOLEAN
    <3>1. strategyEnding' \in BOOLEAN
      BY <1>0, <1>2 DEF TypeOK, WorkQuiet, Gate, SpuriousWakeup, StartSolving, SolverEnds, Report,
         LaunchNext, IncNext,
         EndStrategy, ending
    <3> QED
      BY <1>0, <1>2, <3>1, WorkFacts
  <2>2. Live \subseteq Live' /\ Live' \subseteq Slave
    <3>1. Live' \subseteq ToSet(workers) /\ ToSet(workers) \subseteq Slave
      BY <1>0, <2>1, ToSetOf DEF Live, TypeOK
    <3> QED
      BY <2>1, <3>1 DEF Live, Stays
  <2>3. (~strategyEnding' => ~strategyEnding /\ Counted \subseteq Counted') /\ Counted' \subseteq Slave
    BY <2>1 DEF Counted, Stays
  <2> QED
    BY <2>1, <2>2, <2>3, MoreFits
<1> QED
  BY <1>1, <1>2

\* The root is one more worker; before it, nJobs is one at most.
LEMMA RootJobs ==
    ASSUME IInv, LaunchPortfolio
    PROVE  JobInv'
<1>1. /\ created \in Nat /\ created + 1 \in Slave /\ created' = created + 1
      /\ ToSet(workers') = ToSet(workers) \cup {created + 1}
      /\ UNCHANGED <<nJobs, over, res, mpc, strategyEnding>>
  BY RootLists DEF LaunchPortfolio, ending
<1>2. wpc' \in [Slave -> WLocation] /\ \A v \in Slave : Stays(v)
  BY WokenFacts, SMTT(40) DEF LaunchPortfolio, IInv, TypeOK, Stays
<1>3. wpc[created + 1] = "loop" /\ created + 1 \notin ToSet(over) /\ created + 1 \notin ToSet(workers)
  BY <1>1 DEF IInv, MadeInv
<1>4. Live' = Live \cup {created + 1}
  <2>1. ToSet(workers) \subseteq Slave
    BY ToSetOf DEF IInv, TypeOK
  <2> QED
    BY <1>1, <1>2, <1>3, <2>1 DEF Live, Stays
<1>5. created + 1 \notin Live
  BY <1>3 DEF Live
<1>6. Cardinality(Live') = Cardinality(Live) + 1
  BY <1>4, <1>5, ListTypes, FS_AddElement DEF IInv
<1>7. Counted' = Counted
  BY <1>1, <1>2 DEF Counted, Stays
<1>8. nJobs \in Int /\ Cardinality(Live) \in Nat
  BY ListTypes DEF IInv
<1>9. nJobs <= Cardinality(Live')
  <2>1. CASE created = 0
    BY <1>6, <1>8, <2>1 DEF IInv, JobInv
  <2>2. CASE created # 0
    BY <1>1, <1>6, <1>8, <2>2 DEF IInv, JobInv
  <2> QED
    BY <2>1, <2>2
<1>10. mpc' # "solve" /\ ~strategyEnding' => nJobs' >= 1 - Cardinality(Counted')
  BY <1>1, <1>7 DEF IInv, JobInv
<1> QED
  BY <1>1, <1>9, <1>10 DEF JobInv

\* The slaves that are over are not in workers by the time over is cleared.
LEMMA ErasedAll ==
    ASSUME IInv, ChooseTargets
    PROVE  ToSet(over) \cap ToSet(workers) = {}
<1>1. /\ over \in Seq(Slave) /\ midx \in Nat /\ Len(over) \in Nat /\ midx > Len(over)
      /\ \A k \in 1..Len(over) : k < midx => over[k] \notin ToSet(workers)
  BY DEF IInv, TypeOK, RoundInv, ChooseTargets
<1>2. \A k \in 1..Len(over) : over[k] \notin ToSet(workers)
  BY <1>1
<1> QED
  BY <1>1, <1>2, PlaceOf

\* Erasing: only what is over is taken out of workers.
LEMMA ErasedOne ==
    ASSUME IInv, EraseOver, over[midx] \notin deleted
    PROVE  /\ workers' \in Seq(Slave) /\ NoRepeat(workers')
           /\ midx \in 1..Len(over) /\ over[midx] \in ToSet(over) /\ over[midx] \in Slave
           /\ ToSet(workers') = ToSet(workers) \ {over[midx]}
           /\ UNCHANGED <<models, nJobs, over, created, formula, clausesToAdd, wpc, res, mpc, strategyEnding>>
<1>1. /\ workers \in Seq(Slave) /\ NoRepeat(workers) /\ over \in Seq(Slave)
      /\ midx \in Nat /\ midx >= 1 /\ midx <= Len(over) /\ Len(over) \in Nat
  BY DEF IInv, TypeOK, MadeInv, RoundInv, EraseOver
<1>2. midx \in 1..Len(over)
  BY <1>1
<1>3. over[midx] \in ToSet(over) /\ over[midx] \in Slave
  BY <1>1, <1>2, PlaceOf
<1>4. workers' = RemoveFirst(workers, over[midx])
  BY DEF EraseOver
<1>5. /\ workers' \in Seq(Slave) /\ NoRepeat(workers')
      /\ ToSet(workers') = ToSet(workers) \ {over[midx]}
  BY <1>1, <1>4, RemoveFirstOf, Zenon
<1> QED
  BY <1>2, <1>3, <1>5 DEF EraseOver, solvers, threads

\* Erasing, and clearing over, leave the workers that live.
LEMMA EraseJobs ==
    ASSUME IInv, EraseOver \/ ChooseTargets
    PROVE  JobInv'
<1>1. /\ UNCHANGED <<nJobs, created, wpc, res, mpc, strategyEnding>>
      /\ Live' = Live
  <2>1. CASE EraseOver /\ over[midx] \notin deleted
    BY <2>1, ErasedOne DEF Live
  <2>2. CASE EraseOver /\ over[midx] \in deleted
    <3>1. UNCHANGED <<nJobs, created, wpc, res, mpc, strategyEnding, workers, over>>
      BY <2>2 DEF EraseOver, threads
    <3> QED
      BY <3>1 DEF Live
  <2>3. CASE ChooseTargets
    <3>1. UNCHANGED <<nJobs, created, wpc, res, mpc, strategyEnding, workers>> /\ over' = <<>>
      BY <2>3 DEF ChooseTargets, threads, ending
    <3>2. ToSet(over') = {}
      BY <3>1 DEF ToSet
    <3> QED
      BY <2>3, <3>1, <3>2, ErasedAll DEF Live
  <2> QED
    BY <2>1, <2>2, <2>3
<1>2. Counted' = Counted
  BY <1>1 DEF Counted
<1> QED
  BY <1>1, <1>2 DEF IInv, JobInv

\* A division is one more job and one more worker.
LEMMA DivideJobs ==
    ASSUME IInv, Divide
    PROVE  JobInv' /\ nJobs' \in (1 - MaxWorkers)..MaxWorkers
<1>1. /\ created \in Nat /\ created + 1 \in Slave /\ created' = created + 1 /\ created > 0
      /\ ToSet(workers') = ToSet(workers) \cup {created + 1}
      /\ nJobs' = nJobs + 1
      /\ UNCHANGED <<over, wpc, res, mpc, strategyEnding>>
  BY DivideLists DEF Divide, ending, threads
<1>2. wpc[created + 1] = "loop" /\ created + 1 \notin ToSet(over) /\ created + 1 \notin ToSet(workers)
  BY <1>1 DEF IInv, MadeInv
<1>3. Live' = Live \cup {created + 1} /\ created + 1 \notin Live
  BY <1>1, <1>2 DEF Live
<1>4. /\ nJobs \in Int /\ Cardinality(Live) \in Nat /\ Cardinality(Counted) \in Nat
      /\ nJobs \in (1 - MaxWorkers)..MaxWorkers
      /\ Cardinality(Live') = Cardinality(Live) + 1
  BY <1>3, ListTypes, FS_AddElement DEF IInv, TypeOK
<1>5. Counted' = Counted
  BY <1>1 DEF Counted
<1>6. nJobs <= Cardinality(Live)
  BY <1>1 DEF IInv, JobInv
<1>7. JobInv'
  BY <1>1, <1>4, <1>5, <1>6 DEF IInv, JobInv
<1>8. Cardinality(Live') <= MaxWorkers
  <2>1. Live' \subseteq Slave \ {0}
    BY <1>1, <1>3, ListTypes DEF IInv
  <2> QED
    BY <2>1, SlaveFacts, FS_Subset
<1> QED
  BY <1>1, <1>4, <1>6, <1>7, <1>8, SlaveFacts

\* A worker takes its job from nJobs, and is not live any more.
LEMMA CountJobs ==
    ASSUME IInv, NEW w \in Slave, w <= created, Count(w)
    PROVE  JobInv' /\ nJobs' \in (1 - MaxWorkers)..MaxWorkers
<1>1. /\ nJobs' = nJobs - 1 /\ w # 0 /\ res[w] = "UNSAT" /\ wpc[w] = "report" /\ ~strategyEnding
      /\ wpc' = [wpc EXCEPT ![w] = "left"]
      /\ UNCHANGED <<over, workers, created, res, mpc, strategyEnding>>
  BY DEF Count, IsOver, Returns, WGoto, ending
<1>2. wpc \in [Slave -> WLocation] /\ created \in Nat /\ created > 0
  BY <1>1, ListTypes, SlaveFacts, SMTT(40) DEF IInv, TypeOK
<1>3. Live' = Live \ {w}
  <2>1. ToSet(workers) \subseteq Slave
    BY ToSetOf DEF IInv, TypeOK
  <2> QED
    BY <1>1, <1>2, <2>1 DEF Live
<1>4. Counted' = Counted \cup {w} /\ w \notin Counted /\ Counted' \subseteq Slave \ {0}
  BY <1>1, <1>2 DEF Counted
<1>5. /\ nJobs \in Int /\ Cardinality(Live) \in Nat /\ Cardinality(Counted) \in Nat
      /\ nJobs \in (1 - MaxWorkers)..MaxWorkers
      /\ IsFiniteSet(Live) /\ IsFiniteSet(Counted)
  BY ListTypes DEF IInv, TypeOK
<1>6. Cardinality(Live') >= Cardinality(Live) - 1
  <2>1. CASE w \in Live
    <3>1. Cardinality(Live \ {w}) = Cardinality(Live) - 1
      BY <1>5, <2>1, FS_RemoveElement
    <3> QED
      BY <1>3, <1>5, <3>1
  <2>2. CASE w \notin Live
    <3>1. Live' = Live
      BY <1>3, <2>2
    <3> QED
      BY <1>5, <3>1
  <2> QED
    BY <2>1, <2>2
<1>7. Cardinality(Counted') = Cardinality(Counted) + 1
  BY <1>4, <1>5, FS_AddElement
<1>8. Cardinality(Counted') <= MaxWorkers
  BY <1>4, SlaveFacts, FS_Subset
<1>9. mpc # "solve" /\ nJobs >= 1 - Cardinality(Counted) /\ nJobs <= Cardinality(Live)
  BY <1>1, <1>2 DEF IInv, JobInv, StartInv
<1>10. Cardinality(Live') \in Nat /\ Cardinality(Counted') \in Nat
  <2>1. IsFiniteSet(Live') /\ IsFiniteSet(Counted')
    BY <1>3, <1>4, <1>5, SlaveFacts, FS_Subset
  <2> QED
    BY <2>1, FS_CardinalityType
<1>11. JobInv'
  BY <1>1, <1>2, <1>5, <1>6, <1>7, <1>9, <1>10 DEF JobInv
<1> QED
  BY <1>1, <1>5, <1>7, <1>8, <1>9, <1>10, <1>11, SlaveFacts

\* What the second half of join does to over and to the thread.
LEMMA LeftFacts ==
    ASSUME IInv, NEW w \in Slave, w <= created, SomeLeft(w)
    PROVE  /\ w \in 1..created /\ wpc[w] = "left" /\ w # 0
           /\ UNCHANGED <<models, globalEnding, strategyEnding, waitJob, nJobs, workers, created>>
           /\ UNCHANGED <<formula, clausesToAdd, master, midx, last, mpc>>
           /\ wpc' \in [Slave -> WLocation] /\ wpc'[w] # "left" /\ wpc'[w] # "report"
           /\ \A v \in Slave : v # w => wpc'[v] = wpc[v] /\ res'[v] = res[v]
           /\ \/ /\ nJobs > 0 /\ over' \in Seq(Slave) /\ ToSet(over') = ToSet(over) \cup {w}
                 /\ Len(over') = Len(over) + 1
                 /\ \A k \in 1..Len(over) : over'[k] = over[k]
              \/ nJobs <= 0 /\ over' = over /\ wpc'[w] = "end" /\ res' = res
<1>1. /\ wpc[w] = "left" /\ w # 0 /\ over \in Seq(Slave) /\ nJobs \in Int /\ created \in Nat /\ w \in Nat
      /\ wpc \in [Slave -> WLocation] /\ res \in [Slave -> {"UNKNOWN", "SAT", "UNSAT"}]
  BY ListTypes, SlaveFacts DEF IInv, TypeOK, ResultInv, SomeLeft
<1>2. w \in 1..created
  BY <1>1
<1>3. /\ UNCHANGED <<models, globalEnding, strategyEnding, waitJob, nJobs, workers, created>>
      /\ UNCHANGED <<formula, clausesToAdd, master, midx, last, mpc>>
  BY DEF SomeLeft, ending, solvers, masters
<1>4. wpc' \in [Slave -> WLocation] /\ wpc'[w] # "left" /\ wpc'[w] # "report"
  BY <1>1 DEF SomeLeft, WGoto, Return, WLocation
<1>5. \A v \in Slave : v # w => wpc'[v] = wpc[v] /\ res'[v] = res[v]
  BY <1>1 DEF SomeLeft, WGoto, Return
<1>6. CASE nJobs > 0
  <2>1. over' = Append(over, w)
    BY <1>6 DEF SomeLeft
  <2>2. /\ over' \in Seq(Slave) /\ ToSet(over') = ToSet(over) \cup {w} /\ Len(over') = Len(over) + 1
        /\ \A k \in 1..Len(over) : over'[k] = over[k]
    BY <1>1, <2>1, AppendOf
  <2> QED
    BY <1>1, <1>2, <1>3, <1>4, <1>5, <1>6, <2>2
<1>7. CASE ~(nJobs > 0)
  <2>1. over' = over /\ res' = res /\ wpc' = [wpc EXCEPT ![w] = "end"]
    BY <1>7 DEF SomeLeft, WGoto
  <2>2. wpc'[w] = "end" /\ nJobs <= 0
    BY <1>1, <1>7, <2>1
  <2> QED
    BY <1>1, <1>2, <1>3, <1>4, <1>5, <2>1, <2>2
<1> QED
  BY <1>6, <1>7

\* The second half of join: the worker is put in over, or goes to the end.
LEMMA LeftJobs ==
    ASSUME IInv, NEW w \in Slave, w <= created, SomeLeft(w)
    PROVE  JobInv' /\ nJobs' = nJobs
<1>1. /\ w # 0 /\ wpc[w] = "left" /\ wpc'[w] # "left" /\ ToSet(workers) \subseteq Slave
      /\ \A v \in Slave : v # w => wpc'[v] = wpc[v] /\ res'[v] = res[v]
      /\ UNCHANGED <<nJobs, workers, created, strategyEnding, mpc>>
      /\ ToSet(over') \subseteq ToSet(over) \cup {w}
  BY LeftFacts, ToSetOf DEF IInv, TypeOK
<1>2. nJobs \in Int /\ Cardinality(Live) \in Nat /\ Cardinality(Counted) \in Nat /\ created \in Nat
  BY ListTypes DEF IInv
<1>3. /\ IsFiniteSet(Live') /\ Cardinality(Live') \in Nat /\ Cardinality(Live') >= Cardinality(Live)
  <2>1. Live' \subseteq Slave
    BY <1>1 DEF Live
  <2>2. CASE nJobs > 0
    <3>1. Live \subseteq Live'
      BY <1>1 DEF Live
    <3> QED
      BY <2>1, <3>1, SlaveFacts, FS_Subset, FS_CardinalityType
  <2>3. CASE nJobs <= 0
    <3>1. Live \subseteq Live'
      BY <1>1 DEF Live
    <3> QED
      BY <2>1, <3>1, SlaveFacts, FS_Subset, FS_CardinalityType
  <2> QED
    BY <1>2, <2>2, <2>3
<1>4. IsFiniteSet(Counted') /\ Cardinality(Counted') \in Nat
  <2>1. Counted' \subseteq Slave
    BY DEF Counted
  <2> QED
    BY <2>1, SlaveFacts, FS_Subset, FS_CardinalityType
<1>5. nJobs > 0 \/ Counted' = Counted
  <2>1. CASE nJobs <= 0
    <3>1. wpc'[w] = "end" /\ res' = res
      BY <1>2, <2>1, LeftFacts
    <3> QED
      BY <1>1, <3>1 DEF Counted
  <2> QED
    BY <1>2, <2>1
<1>6. mpc' # "solve" /\ ~strategyEnding' => nJobs' >= 1 - Cardinality(Counted')
  <2>1. CASE nJobs > 0
    BY <1>1, <1>2, <1>4, <2>1
  <2>2. CASE Counted' = Counted
    BY <1>1, <2>2 DEF IInv, JobInv
  <2> QED
    BY <1>5, <2>1, <2>2
<1> QED
  BY <1>1, <1>2, <1>3, <1>6 DEF IInv, JobInv

\* The main thread: the first job, before anything is launched.
LEMMA MainJobs ==
    ASSUME IInv, SetJob \/ SignalStart
    PROVE  JobInv' /\ nJobs' \in (1 - MaxWorkers)..MaxWorkers
<1>1. CASE SetJob
  <2>1. nJobs' = 1 /\ created' = created /\ created = 0
    BY <1>1 DEF SetJob, IInv, StartInv
  <2>2. Counted' = Counted /\ Cardinality(Counted) \in Nat
    <3>1. wpc' = wpc /\ res' = res
      BY <1>1 DEF SetJob, threads
    <3> QED
      BY <3>1, ListTypes DEF Counted, IInv
  <2> QED
    BY <2>1, <2>2, SlaveFacts DEF JobInv
<1>2. CASE SignalStart
  <2>1. UNCHANGED <<nJobs, created, workers, over, wpc, res, strategyEnding>> /\ mpc = "signal"
    BY <1>2 DEF SignalStart, ending, lists, threads
  <2>2. Live' = Live /\ Counted' = Counted
    BY <2>1 DEF Live, Counted
  <2> QED
    BY <2>1, <2>2 DEF IInv, JobInv, TypeOK
<1> QED
  BY <1>1, <1>2

\* All steps.
LEMMA JobStep ==
    ASSUME IInv, Next
    PROVE  JobInv' /\ nJobs' \in (1 - MaxWorkers)..MaxWorkers
<1>0. nJobs \in (1 - MaxWorkers)..MaxWorkers
  BY DEF IInv, TypeOK
<1>1. CASE MasterQuiet \/ \E w \in Slave : WorkQuiet(w)
  BY <1>0, <1>1, QuietJobs
<1>2. CASE LaunchPortfolio
  <2>1. nJobs' = nJobs
    BY <1>2 DEF LaunchPortfolio
  <2> QED
    BY <1>0, <1>2, <2>1, RootJobs
<1>3. CASE EraseOver \/ ChooseTargets
  <2>1. nJobs' = nJobs
    BY <1>3 DEF EraseOver, ChooseTargets
  <2> QED
    BY <1>0, <1>3, <2>1, EraseJobs
<1>4. CASE Divide
  BY <1>4, DivideJobs
<1>5. ASSUME NEW w \in Slave, w <= created, Count(w) \/ SomeLeft(w)
      PROVE  JobInv' /\ nJobs' \in (1 - MaxWorkers)..MaxWorkers
  BY <1>0, <1>5, CountJobs, LeftJobs
<1>6. CASE SetJob \/ SignalStart
  BY <1>6, MainJobs
<1> QED
  BY <1>1, <1>2, <1>3, <1>4, <1>5, <1>6, StepCases

-----------------------------------------------------------------------------
(* Types *)

\* The shared flags and the results.
LEMMA FlagTypes ==
    ASSUME TypeOK, Next
    PROVE  /\ models' \in SUBSET Point
           /\ {globalEnding, strategyEnding, waitJob, crashed}' \subseteq BOOLEAN
           /\ finalResult' \in {"UNKNOWN", "SAT", "UNSAT"}
           /\ res' \in [Slave -> {"UNKNOWN", "SAT", "UNSAT"}]
           /\ mpc' \in MainLocation
<1> USE DEF TypeOK, ending, threads, masters, MainLocation
<1>1. CASE MasterQuiet \/ LaunchPortfolio \/ EraseOver \/ ChooseTargets \/ Divide
  <2>1. CASE MasterQuiet
    <3>1. waitJob' \in BOOLEAN /\ crashed' \in BOOLEAN
      BY <2>1 DEF MasterQuiet, MasterLoop, WaitForJob, MasterStartsUncalled, LaunchRoot, NextRound,
         BeginRound, InterruptWorker,
         WaitWorker, JoinOver, Launch
    <3> QED
      BY <2>1, <3>1, MasterFacts
  <2>2. CASE LaunchPortfolio \/ EraseOver \/ ChooseTargets \/ Divide
    <3>1. crashed' \in BOOLEAN
      BY <2>2 DEF LaunchPortfolio, EraseOver, ChooseTargets, Divide
    <3> QED
      BY <2>2, <3>1 DEF LaunchPortfolio, EraseOver, ChooseTargets, Divide
  <2> QED
    BY <1>1, <2>1, <2>2
<1>2. ASSUME NEW w \in Slave, WorkQuiet(w) \/ Count(w) \/ SomeLeft(w)
      PROVE  /\ models' \in SUBSET Point
             /\ {globalEnding, strategyEnding, waitJob, crashed}' \subseteq BOOLEAN
             /\ finalResult' \in {"UNKNOWN", "SAT", "UNSAT"}
             /\ res' \in [Slave -> {"UNKNOWN", "SAT", "UNSAT"}]
             /\ mpc' \in MainLocation
  <2>1. {globalEnding, strategyEnding, waitJob, crashed}' \subseteq BOOLEAN
    BY <1>2 DEF WorkQuiet, Gate, SpuriousWakeup, StartSolving, SolverEnds, Report, LaunchNext,
       IncNext, EndStrategy, Count,
       SomeLeft
  <2>2. res' \in [Slave -> {"UNKNOWN", "SAT", "UNSAT"}]
    <3>1. CASE SolverEnds(w)
      BY <3>1 DEF SolverEnds
    <3> QED
      BY <1>2, <3>1 DEF WorkQuiet, Gate, SpuriousWakeup, StartSolving, Report, LaunchNext, IncNext,
         EndStrategy, Count,
         SomeLeft, WGoto, Return
  <2>3. /\ models' \in SUBSET Point /\ finalResult' \in {"UNKNOWN", "SAT", "UNSAT"}
        /\ mpc' \in MainLocation
    BY <1>2 DEF WorkQuiet, Gate, SpuriousWakeup, StartSolving, SolverEnds, Report, LaunchNext,
       IncNext, EndStrategy, Count,
       SomeLeft
  <2> QED
    BY <2>1, <2>2, <2>3
<1>3. CASE SetJob \/ SignalStart
  BY <1>3 DEF SetJob, SignalStart
<1> QED
  BY <1>1, <1>2, <1>3, StepCases

\* The lists.
LEMMA ListsTypes ==
    ASSUME IInv, Next
    PROVE  /\ over' \in Seq(Slave) /\ workers' \in Seq(Slave) /\ NoRepeat(workers')
           /\ created' \in Slave /\ deleted' \subseteq Slave /\ next' \in Nat
<1> USE DEF lists
<1>0. /\ over \in Seq(Slave) /\ workers \in Seq(Slave) /\ NoRepeat(workers)
      /\ created \in Slave /\ deleted \subseteq Slave /\ next \in Nat /\ last \in Nat
  BY DEF IInv, TypeOK, MadeInv
<1>1. CASE MasterQuiet
  <2>1. UNCHANGED <<over, workers, created>>
    BY <1>1, MasterFacts DEF IInv
  <2>2. next' \in Nat
    BY <1>0, <1>1 DEF MasterQuiet, MasterLoop, WaitForJob, MasterStartsUncalled, LaunchRoot,
       NextRound, BeginRound, InterruptWorker,
       WaitWorker, JoinOver, Launch
  <2>3. deleted' \subseteq Slave
    <3>1. CASE JoinOver
      <4>1. midx \in 1..Len(over)
        BY <3>1 DEF IInv, TypeOK, RoundInv, JoinOver
      <4> QED
        BY <1>0, <3>1, <4>1, PlaceOf DEF JoinOver
    <3> QED
      BY <1>0, <1>1, <3>1 DEF MasterQuiet, MasterLoop, WaitForJob, MasterStartsUncalled, LaunchRoot,
         NextRound, BeginRound,
         InterruptWorker, WaitWorker, Launch
  <2> QED
    BY <1>0, <2>1, <2>2, <2>3
<1>2. CASE LaunchPortfolio
  BY <1>0, <1>2, RootLists DEF LaunchPortfolio
<1>3. CASE EraseOver
  <2>1. CASE over[midx] \notin deleted
    BY <1>0, <1>3, <2>1, ErasedOne DEF EraseOver
  <2>2. CASE over[midx] \in deleted
    BY <1>0, <1>3, <2>2 DEF EraseOver
  <2> QED
    BY <2>1, <2>2
<1>4. CASE ChooseTargets
  <2>1. over' = <<>> /\ UNCHANGED <<workers, created, deleted, next>>
    BY <1>4 DEF ChooseTargets
  <2> QED
    BY <1>0, <2>1
<1>5. CASE Divide
  BY <1>0, <1>5, DivideLists DEF Divide
<1>6. ASSUME NEW w \in Slave, WorkQuiet(w) \/ Count(w)
      PROVE  UNCHANGED <<over, workers, created, deleted>> /\ next' \in Nat
  BY <1>0, <1>6 DEF WorkQuiet, Gate, SpuriousWakeup, StartSolving, SolverEnds, Report, LaunchNext,
     IncNext, EndStrategy, Count
<1>7. ASSUME NEW w \in Slave, w <= created, SomeLeft(w)
      PROVE  over' \in Seq(Slave) /\ UNCHANGED <<workers, created, deleted, next>>
  BY <1>0, <1>7, LeftFacts DEF SomeLeft
<1>8. CASE SetJob \/ SignalStart
  BY <1>0, <1>8 DEF SetJob, SignalStart
<1> QED
  BY <1>0, <1>1, <1>2, <1>3, <1>4, <1>5, <1>6, <1>7, <1>8, StepCases

\* A slave is interrupted, or restarted.
LEMMA InterruptTypes ==
    ASSUME TypeOK, Next
    PROVE  interrupt' \in [Slave -> BOOLEAN] /\ stop' \in [Slave -> BOOLEAN]
<1>0. interrupt \in [Slave -> BOOLEAN] /\ stop \in [Slave -> BOOLEAN]
  BY DEF TypeOK
<1>1. \A w : Restart(w) \/ SetInterrupt(w) => interrupt' \in [Slave -> BOOLEAN] /\ stop' \in [Slave -> BOOLEAN]
  BY <1>0 DEF Restart, SetInterrupt
<1>2. CASE Master
  <2>1. CASE LaunchPortfolio \/ LaunchRoot \/ InterruptWorker \/ EraseOver \/ Launch
    <3>1. (\E w : Restart(w) \/ SetInterrupt(w)) \/ (interrupt' = interrupt /\ stop' = stop)
      BY <2>1 DEF LaunchPortfolio, LaunchRoot, InterruptWorker, EraseOver, Launch, flags
    <3> QED
      BY <1>0, <1>1, <3>1
  <2>2. CASE MasterLoop \/ WaitForJob \/ MasterStartsUncalled \/ NextRound \/ BeginRound
             \/ WaitWorker \/ JoinOver \/ ChooseTargets \/ Divide
    <3>1. interrupt' = interrupt /\ stop' = stop
      BY <2>2 DEF MasterLoop, WaitForJob, MasterStartsUncalled, NextRound, BeginRound, WaitWorker,
         JoinOver, ChooseTargets, Divide,
         flags
    <3> QED
      BY <1>0, <3>1
  <2> QED
    BY <1>2, <2>1, <2>2 DEF Master
<1>3. ASSUME NEW w \in Slave, Work(w)
      PROVE  interrupt' \in [Slave -> BOOLEAN] /\ stop' \in [Slave -> BOOLEAN]
  <2>1. CASE Gate(w) \/ SpuriousWakeup(w) \/ SolverEnds(w) \/ Report(w) \/ Count(w)
             \/ SomeLeft(w) \/ IncNext(w)
    <3>1. interrupt' = interrupt /\ stop' = stop
      BY <2>1 DEF Gate, SpuriousWakeup, SolverEnds, Report, Count, SomeLeft, IncNext, flags
    <3> QED
      BY <1>0, <3>1
  <2>2. CASE StartSolving(w)
    <3>1. interrupt' = interrupt /\ stop' = [stop EXCEPT ![w] = stop[w] /\ ~ClearsInterrupt]
      BY <2>2 DEF StartSolving
    <3>2. (stop[w] /\ ~ClearsInterrupt) \in BOOLEAN
      OBVIOUS
    <3>3. PICK b \in BOOLEAN : stop' = [stop EXCEPT ![w] = b]
      BY <3>1, <3>2
    <3> QED
      BY <1>0, <3>1, <3>3
  <2>3. CASE LaunchNext(w)
    <3>1. Restart(workers[next + 1]) \/ (interrupt' = interrupt /\ stop' = stop)
      BY <2>3 DEF LaunchNext, flags
    <3> QED
      BY <1>0, <1>1, <3>1
  <2>4. CASE EndStrategy(w)
    <3>1. /\ interrupt' = [s \in Slave |-> interrupt[s] \/ s \in Exists]
          /\ stop' = [s \in Slave |-> stop[s] \/ s \in Exists]
      BY <2>4 DEF EndStrategy
    <3>2. /\ [s \in Slave |-> interrupt[s] \/ s \in Exists] \in [Slave -> BOOLEAN]
          /\ [s \in Slave |-> stop[s] \/ s \in Exists] \in [Slave -> BOOLEAN]
      OBVIOUS
    <3> QED
      BY <3>1, <3>2
  <2> QED
    BY <1>3, <2>1, <2>2, <2>3, <2>4 DEF Work
<1>4. CASE Main
  <2>1. interrupt' = interrupt /\ stop' = stop
    BY <1>4 DEF Main, SetJob, SignalStart, flags
  <2> QED
    BY <1>0, <2>1
<1> QED
  BY <1>2, <1>3, <1>4 DEF Next

\* What each solver has and has yet to add, when a sub-problem is divided.
LEMMA DivideFacts ==
    ASSUME IInv, Divide
    PROVE  \E a \in SUBSET Point :
             /\ clausesToAdd' \in [Slave -> SUBSET Point] /\ formula' \in [Slave -> SUBSET Point]
             /\ clausesToAdd'[workers[midx]] = clausesToAdd[workers[midx]] \cap a
             /\ clausesToAdd'[created + 1] = Point \ a
             /\ formula'[created + 1] = formula[workers[midx]]
             /\ \A v \in Slave : v # created + 1 => formula'[v] = formula[v]
             /\ \A v \in Slave \ {created + 1, workers[midx]} : clausesToAdd'[v] = clausesToAdd[v]
<1>1. PICK w : w = workers[midx]
  OBVIOUS
<1>2. PICK h \in Halves : clausesToAdd' = [clausesToAdd EXCEPT ![w] = @ \cap h[1], ![created + 1] = h[2]]
  BY <1>1 DEF Divide
<1>3. PICK a \in SUBSET Point : h = <<a, Point \ a>>
  BY <1>2 DEF Halves
<1>4. h[1] = a /\ h[2] = Point \ a
  BY <1>3
<1>5. /\ w \in Slave /\ created + 1 \in Slave /\ w # created + 1
      /\ clausesToAdd \in [Slave -> SUBSET Point] /\ formula \in [Slave -> SUBSET Point]
  <2>1. w \in 1..created /\ created \in Nat /\ w \in Slave /\ created + 1 \in Slave
    BY <1>1, DivideLists
  <2> QED
    BY <2>1 DEF IInv, TypeOK
<1>6. clausesToAdd' = [clausesToAdd EXCEPT ![w] = @ \cap a, ![created + 1] = Point \ a]
  BY <1>2, <1>4
<1>7. formula' = [formula EXCEPT ![created + 1] = formula[w]]
  BY <1>1 DEF Divide
<1>8. /\ clausesToAdd' \in [Slave -> SUBSET Point]
      /\ clausesToAdd'[w] = clausesToAdd[w] \cap a
      /\ clausesToAdd'[created + 1] = Point \ a
      /\ \A v \in Slave \ {created + 1, w} : clausesToAdd'[v] = clausesToAdd[v]
  BY <1>5, <1>6
<1>9. /\ formula' \in [Slave -> SUBSET Point]
      /\ formula'[created + 1] = formula[w]
      /\ \A v \in Slave : v # created + 1 => formula'[v] = formula[v]
  BY <1>5, <1>7
<1> QED
  BY <1>1, <1>8, <1>9

\* ... when the root is copied.
LEMMA RootFacts ==
    ASSUME IInv, LaunchPortfolio
    PROVE  /\ clausesToAdd' = clausesToAdd /\ formula' \in [Slave -> SUBSET Point]
           /\ formula'[created + 1] = formula[0]
           /\ \A v \in Slave : v # created + 1 => formula'[v] = formula[v]
<1>1. created + 1 \in Slave /\ 0 \in Slave /\ formula \in [Slave -> SUBSET Point]
  BY RootLists, SlaveFacts DEF IInv, TypeOK
<1>2. formula' = [formula EXCEPT ![created + 1] = formula[0]] /\ clausesToAdd' = clausesToAdd
  BY DEF LaunchPortfolio
<1> QED
  BY <1>1, <1>2

\* The solvers.
LEMMA SolverTypes ==
    ASSUME IInv, Next
    PROVE  formula' \in [Slave -> SUBSET Point] /\ clausesToAdd' \in [Slave -> SUBSET Point]
<1>0. formula \in [Slave -> SUBSET Point] /\ clausesToAdd \in [Slave -> SUBSET Point]
  BY DEF IInv, TypeOK
<1>1. CASE Divide
  BY <1>1, DivideFacts
<1>2. CASE LaunchPortfolio
  BY <1>0, <1>2, RootFacts
<1>3. ASSUME NEW w \in Slave, StartSolving(w)
      PROVE  formula' \in [Slave -> SUBSET Point] /\ clausesToAdd' \in [Slave -> SUBSET Point]
  <2>1. SubProblem(w) \in SUBSET Point
    BY <1>0 DEF SubProblem
  <2> QED
    BY <1>0, <1>3, <2>1 DEF StartSolving
<1>4. CASE MasterQuiet \/ EraseOver \/ ChooseTargets \/ SetJob \/ SignalStart
  <2>1. formula' = formula /\ clausesToAdd' = clausesToAdd
    <3>1. CASE MasterQuiet
      BY <3>1, MasterFacts DEF IInv
    <3> QED
      BY <1>4, <3>1 DEF EraseOver, ChooseTargets, SetJob, SignalStart, solvers
  <2> QED
    BY <1>0, <2>1
<1>5. ASSUME NEW w \in Slave, WorkQuiet(w) \/ Count(w) \/ SomeLeft(w)
      PROVE  formula' \in [Slave -> SUBSET Point] /\ clausesToAdd' \in [Slave -> SUBSET Point]
  <2>1. CASE ~StartSolving(w)
    <3>1. formula' = formula /\ clausesToAdd' = clausesToAdd
      BY <1>5, <2>1 DEF WorkQuiet, Gate, SpuriousWakeup, SolverEnds, Report, LaunchNext, IncNext,
         EndStrategy, Count, SomeLeft,
         solvers
    <3> QED
      BY <1>0, <3>1
  <2> QED
    BY <1>3, <2>1
<1> QED
  BY <1>1, <1>2, <1>4, <1>5, StepCases

\* Where the threads are.
LEMMA ThreadTypes ==
    ASSUME IInv, Next
    PROVE  wpc' \in [Slave -> WLocation]
<1>0. wpc \in [Slave -> WLocation] /\ TypeOK
  BY DEF IInv, TypeOK
<1>1. CASE MasterQuiet
  BY <1>0, <1>1, MasterFacts
<1>2. CASE LaunchPortfolio
  BY <1>0, <1>2, WokenFacts DEF LaunchPortfolio
<1>3. CASE EraseOver \/ ChooseTargets \/ Divide \/ SetJob \/ SignalStart
  <2>1. wpc' = wpc
    BY <1>3 DEF EraseOver, ChooseTargets, Divide, SetJob, SignalStart, threads
  <2> QED
    BY <1>0, <2>1
<1>4. ASSUME NEW w \in Slave, WorkQuiet(w) PROVE wpc' \in [Slave -> WLocation]
  BY <1>0, <1>4, WorkFacts
<1>5. ASSUME NEW w \in Slave, Count(w) PROVE wpc' \in [Slave -> WLocation]
  BY <1>0, <1>5 DEF Count, WGoto, WLocation
<1>6. ASSUME NEW w \in Slave, w <= created, SomeLeft(w) PROVE wpc' \in [Slave -> WLocation]
  BY <1>6, LeftFacts
<1> QED
  BY <1>1, <1>2, <1>3, <1>4, <1>5, <1>6, StepCases

-----------------------------------------------------------------------------
(* The loops of the master *)

\* The master's locations, its index, and the room for the copies.
LoopInv ==
    /\ master \in MasterLocation /\ midx \in Nat /\ last \in Nat
    /\ master \in {"interrupt", "wait", "divide"} => midx \in 1..last /\ last <= Len(workers)
    /\ master \in {"erase", "join"} => midx >= 1 /\ midx <= Len(over) + 1
    /\ master = "join" => midx <= Len(over)
    /\ master = "divide" => created + (last - midx) + 1 <= MaxWorkers

\* Its own steps.
LEMMA LoopMaster ==
    ASSUME IInv, MasterQuiet \/ LaunchPortfolio \/ EraseOver \/ ChooseTargets \/ Divide
    PROVE  LoopInv'
<1>0. LoopInv /\ Len(workers) \in Nat /\ Len(over) \in Nat /\ TypeOK /\ MaxCpus \in Nat /\ MaxCpus >= 1
      /\ created \in Nat /\ MaxWorkers \in Nat
  BY ListTypes, Bounds DEF LoopInv, IInv, TypeOK, RoundInv
<1> USE DEF LoopInv, MasterLocation
<1>1. CASE MasterQuiet
  <2>1. workers' = workers /\ over' = over /\ created' = created
    BY <1>0, <1>1, MasterFacts
  <2>2. CASE MasterLoop \/ WaitForJob \/ MasterStartsUncalled \/ LaunchRoot \/ NextRound
    BY <1>0, <2>1, <2>2 DEF MasterLoop, WaitForJob, MasterStartsUncalled, LaunchRoot, NextRound, MGoto,
       masters
  <2>3. CASE BeginRound
    BY <1>0, <2>1, <2>3 DEF BeginRound, MGoto, ForAll
  <2>4. CASE InterruptWorker
    BY <1>0, <2>1, <2>4 DEF InterruptWorker, MGoto
  <2>5. CASE WaitWorker \/ Launch
    BY <1>0, <2>1, <2>5 DEF WaitWorker, Launch, NextOne
  <2>6. CASE JoinOver
    BY <1>0, <2>1, <2>6 DEF JoinOver
  <2> QED
    BY <1>1, <2>2, <2>3, <2>4, <2>5, <2>6 DEF MasterQuiet
<1>2. CASE LaunchPortfolio
  BY <1>0, <1>2 DEF LaunchPortfolio, MGoto
<1>3. CASE EraseOver
  BY <1>0, <1>3 DEF EraseOver, MGoto, masters
<1>4. CASE ChooseTargets
  <2>1. Targets \in Nat /\ Targets <= Len(workers)
    BY <1>0 DEF Targets, Least
  <2>2. workers' = workers /\ created' = created
    BY <1>4 DEF ChooseTargets
  <2>3. last' = Targets /\ midx' = 1 /\ master' \in {"divide", "launch"} /\ (master' = "divide" => Targets > 0)
    BY <1>4, <2>1 DEF ChooseTargets, ForAll
  <2>4. created + Targets <= MaxWorkers
    BY <1>4 DEF ChooseTargets
  <2> QED
    BY <1>0, <2>1, <2>2, <2>3, <2>4
<1>5. CASE Divide
  <2>1. /\ created' = created + 1 /\ workers' \in Seq(Slave) /\ Len(workers') \in Nat
        /\ midx < last => Len(workers') = Len(workers) + 1
        /\ midx \in 1..last /\ last <= Len(workers) /\ created + (last - midx) + 1 <= MaxWorkers
    <3>1. master = "divide" /\ created' = created + 1
      BY <1>5 DEF Divide
    <3>2. workers' \in Seq(Slave) /\ (midx < last => Len(workers') = Len(workers) + 1)
      BY <1>5, DivideLists
    <3> QED
      BY <1>0, <3>1, <3>2
  <2>2. CASE midx < last
    <3>1. master' = "divide" /\ midx' = midx + 1 /\ last' = last
      BY <1>5, <2>2 DEF Divide, NextOne
    <3> QED
      BY <1>0, <2>1, <2>2, <3>1
  <2>3. CASE ~(midx < last)
    <3>1. Least(MaxCpus - 1, Len(workers')) \in Nat
      BY <1>0, <2>1 DEF Least
    <3>2. /\ last' = Least(MaxCpus - 1, Len(workers')) /\ midx' = 1 /\ master' \in {"launch", "head"}
      BY <1>5, <2>3 DEF Divide, ForAll
    <3> QED
      BY <3>1, <3>2
  <2> QED
    BY <2>2, <2>3
<1> QED
  BY <1>0, <1>1, <1>2, <1>3, <1>4, <1>5

\* All steps.
LEMMA LoopStep ==
    ASSUME IInv, Next
    PROVE  LoopInv'
<1>0. LoopInv /\ over \in Seq(Slave) /\ midx \in Nat /\ TypeOK
  BY DEF LoopInv, IInv, TypeOK, RoundInv
<1>1. CASE MasterQuiet \/ LaunchPortfolio \/ EraseOver \/ ChooseTargets \/ Divide
  BY <1>1, LoopMaster
<1>2. ASSUME NEW w \in Slave, WorkQuiet(w) \/ (w <= created /\ (Count(w) \/ SomeLeft(w)))
      PROVE  LoopInv'
  <2>1. CASE WorkQuiet(w)
    <3>1. UNCHANGED <<workers, over, created, master, midx, last>>
      BY <1>0, <2>1, WorkFacts
    <3> QED
      BY <1>0, <3>1 DEF LoopInv
  <2>2. CASE Count(w)
    <3>1. UNCHANGED <<workers, over, created, master, midx, last>>
      BY <2>2 DEF Count, masters
    <3> QED
      BY <1>0, <3>1 DEF LoopInv
  <2>3. CASE w <= created /\ SomeLeft(w)
    <3>1. UNCHANGED <<workers, created, master, midx, last>>
          /\ (over' = over \/ Len(over') = Len(over) + 1) /\ Len(over) \in Nat
      BY <1>0, <2>3, LeftFacts
    <3> QED
      BY <1>0, <3>1 DEF LoopInv
  <2> QED
    BY <1>2, <2>1, <2>2, <2>3
<1>3. CASE SetJob \/ SignalStart
  <2>1. UNCHANGED <<workers, over, created, midx, last>> /\ (master' = master \/ master' = "clone")
    BY <1>3 DEF SetJob, SignalStart, lists, masters
  <2> QED
    BY <1>0, <2>1 DEF LoopInv, MasterLocation
<1> QED
  BY <1>1, <1>2, <1>3, StepCases

\* The type invariant.
LEMMA TypeStep ==
    ASSUME IInv, Next
    PROVE  TypeOK'
<1>1. TypeOK /\ LoopInv'
  BY LoopStep DEF IInv
<1> QED
  BY <1>1, FlagTypes, JobStep, ListsTypes, InterruptTypes, SolverTypes, ThreadTypes DEF TypeOK, LoopInv

-----------------------------------------------------------------------------
(* What has been made, launched and erased *)

\* Before the job is set, there is slave 0 alone, and it waits.
LEMMA StartStep ==
    ASSUME IInv, Next
    PROVE  StartInv'
<1> SUFFICES ASSUME mpc' = "solve"
             PROVE  /\ created' = 0 /\ nJobs' = 0 /\ waitJob'
                    /\ master' \in {"loop", "start", "waitStart", "done"}
  BY DEF StartInv
<1>1. ~SetJob /\ ~SignalStart
  BY DEF SetJob, SignalStart
<1>2. mpc = "solve"
  <2>1. CASE Master
    BY <2>1 DEF Master, MasterLoop, WaitForJob, MasterStartsUncalled, LaunchPortfolio, LaunchRoot,
       NextRound, BeginRound,
       InterruptWorker, WaitWorker, EraseOver, JoinOver, ChooseTargets, Divide, Launch
  <2>2. ASSUME NEW w \in Slave, Work(w) PROVE mpc' = mpc
    BY <2>2 DEF Work, Gate, SpuriousWakeup, StartSolving, SolverEnds, Report, Count, SomeLeft,
       LaunchNext, IncNext,
       EndStrategy
  <2> QED
    BY <1>1, <2>1, <2>2 DEF Next, Main
<1>3. created = 0 /\ nJobs = 0 /\ waitJob /\ master \in {"loop", "start", "waitStart", "done"}
  BY <1>2 DEF IInv, StartInv
<1>4. CASE MasterLoop \/ WaitForJob \/ MasterStartsUncalled
  BY <1>3, <1>4 DEF MasterLoop, WaitForJob, MasterStartsUncalled, MGoto, ending, lists, masters
<1>5. ~(LaunchPortfolio \/ LaunchRoot \/ NextRound \/ BeginRound \/ InterruptWorker \/ WaitWorker
        \/ EraseOver \/ JoinOver \/ ChooseTargets \/ Divide \/ Launch)
  BY <1>3 DEF LaunchPortfolio, LaunchRoot, NextRound, BeginRound, InterruptWorker, WaitWorker,
     EraseOver,
     JoinOver, ChooseTargets, Divide, Launch
<1>6. ASSUME NEW w \in Slave, Work(w)
      PROVE  UNCHANGED <<created, nJobs, waitJob, master>>
  <2>1. w = 0
    BY <1>3, <1>6, SlaveFacts DEF Work, Slave
  <2>2. ~Count(w)
    BY <2>1 DEF Count, IsOver
  <2> QED
    BY <1>6, <2>2 DEF Work, Gate, SpuriousWakeup, StartSolving, SolverEnds, Report, SomeLeft,
       LaunchNext, IncNext,
       EndStrategy, ending, lists, masters
<1> QED
  BY <1>1, <1>3, <1>4, <1>5, <1>6 DEF Next, Master, Main

\* A step of a slave leaves what the others, and slave 0, have been made from.
LEMMA MadeWork ==
    ASSUME IInv, NEW w \in Slave, WorkQuiet(w) \/ (w <= created /\ (Count(w) \/ SomeLeft(w)))
    PROVE  MadeInv'
<1>0. TypeOK /\ MadeInv /\ created \in Nat /\ w \in Nat /\ w <= created /\ 0 \in Slave
  BY ListTypes, SlaveFacts DEF IInv, WorkQuiet
<1>1. UNCHANGED <<workers, created>> /\ ToSet(over') \subseteq ToSet(over) \cup {w} /\ (w = 0 => over' = over)
  <2>1. CASE WorkQuiet(w)
    BY <1>0, <2>1, WorkFacts
  <2>2. CASE Count(w)
    BY <2>2 DEF Count
  <2>3. CASE SomeLeft(w)
    BY <1>0, <2>3, LeftFacts
  <2> QED
    BY <2>1, <2>2, <2>3
<1>2. \A v \in Slave : v > created => wpc'[v] = "loop" /\ clausesToAdd'[v] = Point
  <2>1. CASE WorkQuiet(w)
    BY <1>0, <2>1, WorkFacts DEF MadeInv, Stays
  <2>2. CASE Count(w)
    BY <1>0, <2>2 DEF Count, WGoto, solvers, MadeInv, TypeOK
  <2>3. CASE SomeLeft(w)
    BY <1>0, <2>3, LeftFacts DEF MadeInv
  <2> QED
    BY <1>0, <2>1, <2>2, <2>3
<1>3. formula'[0] = Point /\ clausesToAdd'[0] = Point
  <2>1. CASE WorkQuiet(w)
    <3>1. CASE w = 0
      <4>1. SubProblem(w) = Point
        BY <1>0, <3>1 DEF SubProblem, MadeInv
      <4> QED
        BY <1>0, <2>1, <3>1, <4>1, WorkFacts DEF MadeInv
    <3>2. CASE w # 0
      BY <1>0, <2>1, <3>2, WorkFacts DEF MadeInv
    <3> QED
      BY <3>1, <3>2
  <2>2. CASE Count(w)
    BY <1>0, <2>2 DEF Count, solvers, MadeInv
  <2>3. CASE SomeLeft(w)
    BY <1>0, <2>3, LeftFacts DEF MadeInv
  <2> QED
    BY <1>0, <2>1, <2>2, <2>3
<1>4. ToSet(over') \subseteq 1..created
  <2>1. CASE w = 0
    BY <1>0, <1>1, <2>1 DEF MadeInv
  <2>2. CASE w # 0
    <3>1. w \in 1..created
      BY <1>0, <2>2
    <3> QED
      BY <1>0, <1>1, <3>1 DEF MadeInv
  <2> QED
    BY <2>1, <2>2
<1> QED
  BY <1>0, <1>1, <1>2, <1>3, <1>4 DEF MadeInv

\* All steps.
LEMMA MadeStep ==
    ASSUME IInv, Next
    PROVE  MadeInv'
<1>0. TypeOK /\ MadeInv /\ created \in Nat /\ created \in Slave /\ 0 \in Slave
  BY ListTypes, SlaveFacts DEF IInv
<1>1. CASE MasterQuiet
  <2>1. UNCHANGED <<workers, over, created, formula, clausesToAdd>> /\ \A v \in Slave : Stays(v)
    BY <1>0, <1>1, MasterFacts
  <2> QED
    BY <1>0, <2>1 DEF MadeInv, Stays
<1>2. CASE LaunchPortfolio
  <2>1. /\ created' = created + 1 /\ over' = over /\ created + 1 \in Slave /\ created + 1 # 0
        /\ ToSet(workers') = ToSet(workers) \cup {created + 1} /\ NoRepeat(workers')
    BY <1>2, RootLists DEF LaunchPortfolio
  <2>2. \A v \in Slave : Stays(v)
    BY <1>0, <1>2, WokenFacts, SMTT(40) DEF LaunchPortfolio, TypeOK, Stays
  <2>3. clausesToAdd' = clausesToAdd /\ formula'[0] = formula[0]
    BY <1>0, <1>2, <2>1, RootFacts
  <2>4. \A v \in Slave : v > created' => wpc'[v] = "loop" /\ clausesToAdd'[v] = Point
    BY <1>0, <2>1, <2>2, <2>3, SlaveFacts DEF MadeInv, Stays
  <2>5. ToSet(workers') \subseteq 1..created' /\ ToSet(over') \subseteq 1..created'
    BY <1>0, <2>1 DEF MadeInv
  <2> QED
    BY <1>0, <2>1, <2>3, <2>4, <2>5 DEF MadeInv
<1>3. CASE Divide
  <2>1. /\ created' = created + 1 /\ over' = over /\ created + 1 \in Slave /\ created + 1 # 0 /\ wpc' = wpc
        /\ ToSet(workers') = ToSet(workers) \cup {created + 1} /\ NoRepeat(workers')
        /\ workers[midx] \in 1..created
    <3>1. created' = created + 1 /\ over' = over /\ wpc' = wpc
      BY <1>3 DEF Divide, threads
    <3>2. /\ created \in Nat /\ created + 1 \in Slave /\ NoRepeat(workers') /\ workers[midx] \in 1..created
          /\ ToSet(workers') = ToSet(workers) \cup {created + 1}
      BY <1>3, DivideLists
    <3> QED
      BY <3>1, <3>2
  <2>2. \A v \in Slave : v # created + 1 /\ v # workers[midx] => /\ formula'[v] = formula[v]
                                                                /\ clausesToAdd'[v] = clausesToAdd[v]
    BY <1>3, DivideFacts
  <2>3. \A v \in Slave : v > created' => wpc'[v] = "loop" /\ clausesToAdd'[v] = Point
    <3>1. \A v \in Slave : v > created + 1 => v > created /\ v # created + 1 /\ v # workers[midx]
      BY <1>0, <2>1, SlaveFacts
    <3> QED
      BY <1>0, <2>1, <2>2, <3>1 DEF MadeInv
  <2>4. ToSet(workers') \subseteq 1..created' /\ ToSet(over') \subseteq 1..created'
    BY <1>0, <2>1 DEF MadeInv
  <2>5. 0 # workers[midx]
    BY <1>0, <2>1
  <2> QED
    BY <1>0, <2>1, <2>2, <2>3, <2>4, <2>5 DEF MadeInv
<1>4. CASE EraseOver \/ ChooseTargets
  <2>1. UNCHANGED <<created, wpc, formula, clausesToAdd>>
    BY <1>4 DEF EraseOver, ChooseTargets, threads, solvers
  <2>2. NoRepeat(workers') /\ ToSet(workers') \subseteq ToSet(workers) /\ ToSet(over') \subseteq ToSet(over)
    <3>1. CASE EraseOver /\ over[midx] \notin deleted
      BY <3>1, ErasedOne
    <3>2. CASE EraseOver /\ over[midx] \in deleted
      BY <1>0, <3>2 DEF EraseOver, MadeInv
    <3>3. CASE ChooseTargets
      BY <1>0, <3>3 DEF ChooseTargets, MadeInv, ToSet
    <3> QED
      BY <1>4, <3>1, <3>2, <3>3
  <2> QED
    BY <1>0, <2>1, <2>2 DEF MadeInv
<1>5. CASE SetJob \/ SignalStart
  <2>1. UNCHANGED <<workers, over, created, formula, clausesToAdd, wpc>>
    BY <1>5 DEF SetJob, SignalStart, lists, solvers, threads
  <2> QED
    BY <1>0, <2>1 DEF MadeInv
<1> QED
  BY <1>1, <1>2, <1>3, <1>4, <1>5, MadeWork, StepCases

\* What the master has been through in over is out of workers, though others
\* append to over meanwhile.
LEMMA RoundStep ==
    ASSUME IInv, Next
    PROVE  RoundInv'
<1>0. /\ TypeOK /\ RoundInv /\ midx \in Nat /\ over \in Seq(Slave) /\ Len(over) \in Nat
  BY DEF IInv, TypeOK
<1>1. LoopInv'
  BY LoopStep
<1>2. SUFFICES /\ master' \in {"erase", "join"} =>
                     \A k \in 1..Len(over') : k < midx' => over'[k] \notin ToSet(workers')
               /\ master' = "join" => over'[midx'] \notin ToSet(workers')
  BY <1>1 DEF LoopInv, RoundInv
<1>3. CASE EraseOver
  <2>1. CASE over[midx] \notin deleted
    <3>1. ToSet(workers') = ToSet(workers) \ {over[midx]} /\ over' = over /\ midx' = midx /\ master = "erase"
      BY <1>3, <2>1, ErasedOne DEF EraseOver, MGoto
    <3> QED
      BY <1>0, <3>1 DEF RoundInv
  <2>2. CASE over[midx] \in deleted
    <3>1. UNCHANGED <<workers, over, midx, master>>
      BY <1>3, <2>2 DEF EraseOver, masters
    <3> QED
      BY <1>0, <3>1 DEF RoundInv
  <2> QED
    BY <2>1, <2>2
<1>4. CASE JoinOver
  <2>1. UNCHANGED <<workers, over>> /\ midx' = midx + 1 /\ master' = "erase" /\ master = "join"
    BY <1>4 DEF JoinOver
  <2>2. ASSUME NEW k \in 1..Len(over), k < midx + 1 PROVE over[k] \notin ToSet(workers)
    <3>1. k < midx \/ k = midx
      BY <1>0, <2>2
    <3> QED
      BY <1>0, <2>1, <3>1 DEF RoundInv
  <2> QED
    BY <2>1, <2>2
<1>5. CASE BeginRound \/ WaitWorker
  <2>1. master' \notin {"erase", "join"} \/ (master' = "erase" /\ midx' = 1)
    BY <1>5 DEF BeginRound, WaitWorker, MGoto, ForAll, NextOne
  <2> QED
    BY <2>1
<1>6. CASE MasterLoop \/ WaitForJob \/ MasterStartsUncalled \/ LaunchPortfolio \/ LaunchRoot
           \/ NextRound \/ InterruptWorker
           \/ ChooseTargets \/ Divide \/ Launch
  <2>1. master' \notin {"erase", "join"}
    BY <1>6 DEF MasterLoop, WaitForJob, MasterStartsUncalled, LaunchPortfolio, LaunchRoot,
       NextRound, InterruptWorker, ChooseTargets, Divide, Launch, MGoto, ForAll, NextOne, masters
  <2> QED
    BY <2>1
<1>7. ASSUME NEW w \in Slave, Work(w)
      PROVE  /\ master' \in {"erase", "join"} =>
                     \A k \in 1..Len(over') : k < midx' => over'[k] \notin ToSet(workers')
             /\ master' = "join" => over'[midx'] \notin ToSet(workers')
  <2>1. CASE ~SomeLeft(w)
    <3>1. UNCHANGED <<workers, over, midx, master>>
      BY <1>7, <2>1 DEF Work, Gate, SpuriousWakeup, StartSolving, SolverEnds, Report, Count,
         LaunchNext, IncNext, EndStrategy,
         lists, masters
    <3> QED
      BY <1>0, <3>1 DEF RoundInv
  <2>2. CASE SomeLeft(w)
    <3>1. w <= created
      BY <1>7 DEF Work
    <3>2. /\ UNCHANGED <<workers, midx, master>>
          /\ over' = over \/ (Len(over') = Len(over) + 1 /\ \A k \in 1..Len(over) : over'[k] = over[k])
      BY <2>2, <3>1, LeftFacts
    <3>3. CASE over' = over
      BY <1>0, <3>2, <3>3 DEF RoundInv
    <3>4. CASE Len(over') = Len(over) + 1 /\ \A k \in 1..Len(over) : over'[k] = over[k]
      <4>1. ASSUME master \in {"erase", "join"}, NEW k \in 1..Len(over'), k < midx
            PROVE  over'[k] \notin ToSet(workers)
        <5>1. midx <= Len(over) + 1
          BY <1>0, <4>1 DEF RoundInv
        <5>2. k \in 1..Len(over)
          BY <1>0, <3>4, <4>1, <5>1
        <5> QED
          BY <1>0, <3>4, <4>1, <5>2 DEF RoundInv
      <4>2. ASSUME master = "join" PROVE over'[midx] \notin ToSet(workers)
        <5>1. midx \in 1..Len(over)
          BY <1>0, <4>2 DEF RoundInv
        <5> QED
          BY <1>0, <3>4, <4>2, <5>1 DEF RoundInv
      <4> QED
        BY <3>2, <4>1, <4>2
    <3> QED
      BY <3>2, <3>3, <3>4
  <2> QED
    BY <2>1, <2>2
<1>8. CASE Main
  <2>1. UNCHANGED <<workers, over, midx>> /\ (master' = master \/ master' = "clone")
    BY <1>8 DEF Main, SetJob, SignalStart, lists, masters
  <2> QED
    BY <1>0, <2>1 DEF RoundInv
<1> QED
  BY <1>3, <1>4, <1>5, <1>6, <1>7, <1>8 DEF Next, Master

\* The truth about the formula of a solver outlives the steps of the others.
LEMMA ResultStep ==
    ASSUME IInv, Next
    PROVE  ResultInv'
<1>0. TypeOK /\ ResultInv /\ MadeInv /\ created \in Nat
  BY ListTypes DEF IInv
<1>1. CASE MasterQuiet
  BY <1>0, <1>1, MasterFacts DEF ResultInv, Stays
<1>2. CASE LaunchPortfolio
  <2>1. wpc[created + 1] = "loop"
    BY <1>0, <1>2, RootLists DEF MadeInv
  <2>2. /\ \A v \in Slave : Stays(v) /\ (v # created + 1 => formula'[v] = formula[v])
        /\ models' = models /\ res' = res
    BY <1>0, <1>2, WokenFacts, RootFacts DEF LaunchPortfolio, TypeOK, Stays, ending
  <2> QED
    BY <1>0, <2>1, <2>2 DEF ResultInv, Stays
<1>3. CASE Divide
  <2>1. wpc[created + 1] = "loop"
    BY <1>0, <1>3, DivideLists DEF MadeInv
  <2>2. \A v \in Slave : v # created + 1 => formula'[v] = formula[v]
    BY <1>3, DivideFacts
  <2>3. wpc' = wpc /\ res' = res /\ models' = models
    BY <1>3 DEF Divide, threads, ending
  <2> QED
    BY <1>0, <2>1, <2>2, <2>3 DEF ResultInv
<1>4. CASE EraseOver \/ ChooseTargets \/ SetJob \/ SignalStart
  <2>1. UNCHANGED <<models, formula, wpc, res>>
    BY <1>4 DEF EraseOver, ChooseTargets, SetJob, SignalStart, ending, solvers, threads
  <2> QED
    BY <1>0, <2>1 DEF ResultInv
<1>5. ASSUME NEW w \in Slave, WorkQuiet(w) PROVE ResultInv'
  <2>1. models' = models /\ wpc'[w] # "left"
        /\ (wpc'[w] = "report" => /\ formula'[w] = formula[w]
                                  /\ res'[w] = "UNSAT" => formula[w] \cap models = {})
    BY <1>0, <1>5, WorkFacts
  <2>2. \A v \in Slave : v # w => Stays(v) /\ res'[v] = res[v] /\ formula'[v] = formula[v]
    BY <1>0, <1>5, WorkFacts
  <2> QED
    BY <1>0, <2>1, <2>2 DEF ResultInv, Stays
<1>6. ASSUME NEW w \in Slave, Count(w) PROVE ResultInv'
  <2>1. /\ wpc' = [wpc EXCEPT ![w] = "left"] /\ wpc \in [Slave -> WLocation]
        /\ UNCHANGED <<models, formula, res>>
        /\ wpc[w] = "report" /\ res[w] = "UNSAT" /\ w # 0
    BY <1>0, <1>6 DEF Count, IsOver, WGoto, ending, solvers, TypeOK
  <2>2. wpc'[w] = "left" /\ \A v \in Slave : v # w => wpc'[v] = wpc[v]
    BY <2>1
  <2>3. models' = models /\ formula' = formula
    BY <2>1
  <2> QED
    BY <1>0, <2>1, <2>2, <2>3 DEF ResultInv
<1>7. ASSUME NEW w \in Slave, w <= created, SomeLeft(w) PROVE ResultInv'
  <2>1. UNCHANGED <<models, formula>> /\ wpc'[w] # "left" /\ wpc'[w] # "report"
        /\ \A v \in Slave : v # w => wpc'[v] = wpc[v] /\ res'[v] = res[v]
    BY <1>7, LeftFacts
  <2> QED
    BY <1>0, <2>1 DEF ResultInv
<1> QED
  BY <1>1, <1>2, <1>3, <1>4, <1>5, <1>6, <1>7, StepCases

\* Steps that leave the lists and the sub-problems alone.
LEMMA SameCover ==
    ASSUME IInv, models' = models, workers' = workers, over' = over,
           \A v \in Slave : formula'[v] \cap clausesToAdd'[v] = SubProblem(v)
    PROVE  ModelsCovered'
<1>1. ToSet(workers) \subseteq Slave
  BY ToSetOf DEF IInv, TypeOK
<1>2. \A v \in ToSet(workers) : SubProblem(v)' = SubProblem(v)
  BY <1>1 DEF SubProblem
<1>3. workers' # <<>> => models \subseteq UNION {SubProblem(v) : v \in ToSet(workers) \ ToSet(over)}
  BY DEF IInv, ModelsCovered
<1>4. {SubProblem(v)' : v \in ToSet(workers) \ ToSet(over)} = {SubProblem(v) : v \in ToSet(workers) \ ToSet(over)}
  BY <1>2
<1> QED
  BY <1>3, <1>4 DEF ModelsCovered, SubProblem

\* A division covers what the worker covered, with two halves.
LEMMA DivideCover ==
    ASSUME IInv, Divide
    PROVE  ModelsCovered'
<1>1. PICK w : w = workers[midx]
  OBVIOUS
<1>2. PICK a \in SUBSET Point :
        /\ clausesToAdd'[w] = clausesToAdd[w] \cap a
        /\ clausesToAdd'[created + 1] = Point \ a
        /\ formula'[created + 1] = formula[w]
        /\ \A v \in Slave : v # created + 1 => formula'[v] = formula[v]
        /\ \A v \in Slave \ {created + 1, w} : clausesToAdd'[v] = clausesToAdd[v]
  BY <1>1, DivideFacts
<1>3. /\ ToSet(workers') = ToSet(workers) \cup {created + 1} /\ w \in ToSet(workers)
      /\ created \in Nat /\ w \in 1..created /\ created + 1 \in Slave
  BY <1>1, DivideLists
<1>4. over' = over /\ models' = models
  BY DEF Divide, ending
<1>5. /\ workers # <<>> /\ ToSet(workers) \subseteq Slave /\ ToSet(workers) \subseteq 1..created
      /\ ToSet(over) \subseteq 1..created /\ models \subseteq Point
  BY <1>3, ToSetOf DEF IInv, TypeOK, MadeInv
<1>6. ASSUME NEW p \in models
      PROVE  \E v \in ToSet(workers') \ ToSet(over') : p \in formula'[v] \cap clausesToAdd'[v]
  <2>1. PICK v \in ToSet(workers) \ ToSet(over) : p \in formula[v] \cap clausesToAdd[v]
    BY <1>5 DEF IInv, ModelsCovered, SubProblem
  <2>2. v \in Slave /\ v # created + 1 /\ v \in ToSet(workers') \ ToSet(over') /\ formula'[v] = formula[v]
    BY <1>2, <1>3, <1>4, <1>5
  <2>3. CASE v # w
    BY <1>2, <2>1, <2>2, <2>3
  <2>4. CASE v = w /\ p \in a
    BY <1>2, <2>1, <2>2, <2>4
  <2>5. CASE v = w /\ p \notin a
    <3>1. created + 1 \in ToSet(workers') \ ToSet(over')
      BY <1>3, <1>4, <1>5
    <3>2. p \in formula'[created + 1] /\ p \in clausesToAdd'[created + 1]
      BY <1>2, <1>5, <2>1, <2>5
    <3> QED
      BY <3>1, <3>2
  <2> QED
    BY <2>3, <2>4, <2>5
<1> QED
  BY <1>4, <1>6 DEF ModelsCovered, SubProblem

\* A worker goes to over when its sub-problem is refuted: the others cover.
LEMMA LeftCover ==
    ASSUME IInv, NEW w \in Slave, w <= created, SomeLeft(w)
    PROVE  ModelsCovered'
<1>1. /\ UNCHANGED <<models, workers, formula, clausesToAdd>> /\ wpc[w] = "left"
      /\ ToSet(over') \subseteq ToSet(over) \cup {w}
  BY LeftFacts
<1>2. formula[w] \cap models = {}
  BY <1>1 DEF IInv, ResultInv
<1>3. ASSUME workers' # <<>>, NEW p \in models
      PROVE  \E v \in ToSet(workers') \ ToSet(over') : p \in formula'[v] \cap clausesToAdd'[v]
  <2>1. PICK v \in ToSet(workers) \ ToSet(over) : p \in formula[v] \cap clausesToAdd[v]
    BY <1>1, <1>3 DEF IInv, ModelsCovered, SubProblem
  <2>2. v # w
    BY <1>2, <1>3, <2>1
  <2> QED
    BY <1>1, <2>1, <2>2
<1> QED
  BY <1>1, <1>3 DEF ModelsCovered, SubProblem

\* What is erased was over already.
LEMMA EraseCover ==
    ASSUME IInv, EraseOver \/ ChooseTargets
    PROVE  ModelsCovered'
<1>1. UNCHANGED <<models, formula, clausesToAdd>>
  BY DEF EraseOver, ChooseTargets, ending, solvers
<1>2. ToSet(workers') \ ToSet(over') = ToSet(workers) \ ToSet(over) /\ (workers' # <<>> => workers # <<>>)
  <2>1. CASE EraseOver /\ over[midx] \notin deleted
    <3>1. /\ workers' \in Seq(Slave) /\ workers \in Seq(Slave) /\ over' = over
          /\ ToSet(workers') = ToSet(workers) \ {over[midx]} /\ over[midx] \in ToSet(over)
      BY <2>1, ErasedOne DEF IInv, TypeOK
    <3>2. workers' # <<>> => ToSet(workers') # {}
      BY <3>1, ToSetOf
    <3>3. workers = <<>> => ToSet(workers) = {}
      BY <3>1, ToSetOf
    <3> QED
      BY <3>1, <3>2, <3>3
  <2>2. CASE EraseOver /\ over[midx] \in deleted
    BY <2>2 DEF EraseOver
  <2>3. CASE ChooseTargets
    <3>1. over' = <<>> /\ workers' = workers
      BY <2>3 DEF ChooseTargets
    <3>2. ToSet(over') = {}
      BY <3>1 DEF ToSet
    <3> QED
      BY <2>3, <3>1, <3>2, ErasedAll
  <2> QED
    BY <2>1, <2>2, <2>3
<1> QED
  BY <1>1, <1>2 DEF IInv, ModelsCovered, SubProblem

\* The root covers everything.
LEMMA RootCover ==
    ASSUME IInv, LaunchPortfolio
    PROVE  ModelsCovered'
<1>1. /\ created + 1 \in ToSet(workers') /\ created \in Nat /\ created + 1 \in Slave /\ over' = over
      /\ models' = models
  BY RootLists DEF LaunchPortfolio, ending
<1>2. created + 1 \notin ToSet(over) /\ models \subseteq Point
  BY <1>1 DEF IInv, MadeInv, TypeOK
<1>3. formula'[created + 1] = Point /\ clausesToAdd'[created + 1] = Point
  BY <1>1, RootFacts DEF IInv, MadeInv
<1> QED
  BY <1>1, <1>2, <1>3 DEF ModelsCovered, SubProblem

\* All steps.
LEMMA CoverStep ==
    ASSUME IInv, Next
    PROVE  ModelsCovered'
<1>0. TypeOK
  BY DEF IInv
<1>1. CASE MasterQuiet
  <2>1. UNCHANGED <<models, workers, over, formula, clausesToAdd>>
    BY <1>0, <1>1, MasterFacts
  <2> QED
    BY <2>1, SameCover DEF SubProblem
<1>2. ASSUME NEW w \in Slave, WorkQuiet(w) PROVE ModelsCovered'
  <2>1. UNCHANGED <<models, workers, over>>
    BY <1>0, <1>2, WorkFacts
  <2>2. SubProblem(w) \subseteq Point
    BY <1>0 DEF TypeOK, SubProblem
  <2>3. formula'[w] \cap clausesToAdd'[w] = SubProblem(w)
    <3>1. \/ formula'[w] = formula[w] /\ clausesToAdd'[w] = clausesToAdd[w]
          \/ formula'[w] = SubProblem(w) /\ clausesToAdd'[w] = Point
      BY <1>0, <1>2, WorkFacts
    <3>2. CASE formula'[w] = formula[w] /\ clausesToAdd'[w] = clausesToAdd[w]
      BY <3>2 DEF SubProblem
    <3>3. CASE formula'[w] = SubProblem(w) /\ clausesToAdd'[w] = Point
      BY <2>2, <3>3
    <3> QED
      BY <3>1, <3>2, <3>3
  <2>4. \A v \in Slave : v # w => formula'[v] \cap clausesToAdd'[v] = SubProblem(v)
    BY <1>0, <1>2, WorkFacts DEF SubProblem
  <2> QED
    BY <2>1, <2>3, <2>4, SameCover
<1>3. CASE SetJob \/ SignalStart \/ \E w \in Slave : Count(w)
  <2>1. UNCHANGED <<models, workers, over, formula, clausesToAdd>>
    BY <1>3 DEF SetJob, SignalStart, Count, ending, lists, solvers
  <2> QED
    BY <2>1, SameCover DEF SubProblem
<1> QED
  BY <1>1, <1>2, <1>3, RootCover, EraseCover, DivideCover, LeftCover, StepCases

-----------------------------------------------------------------------------
(* The theorems *)

\* At the beginning there is slave 0 alone, and no job.
LEMMA Initially ==
    Init => IInv
<1> SUFFICES ASSUME Init PROVE IInv
  OBVIOUS
<1>0. MaxWorkers \in Nat /\ MaxWorkers >= 1 /\ 0 \in Slave
  BY SlaveFacts
<1>1. /\ over = <<>> /\ workers = <<>> /\ created = 0 /\ nJobs = 0 /\ mpc = "solve" /\ master = "loop"
      /\ midx = 1 /\ last = 0 /\ waitJob = TRUE
      /\ formula = [w \in Slave |-> Point] /\ clausesToAdd = [w \in Slave |-> Point]
      /\ wpc = [w \in Slave |-> "loop"] /\ res = [w \in Slave |-> "UNKNOWN"]
  BY DEF Init
<1>2. workers \in Seq(Slave) /\ over \in Seq(Slave) /\ Len(workers) = 0 /\ Len(over) = 0
  BY <1>1
<1>3. ToSet(workers) = {} /\ ToSet(over) = {}
  BY <1>1, <1>2, ToSetOf
<1>4. TypeOK
  <2>1. interrupt \in [Slave -> BOOLEAN] /\ stop \in [Slave -> BOOLEAN]
    BY DEF Init
  <2>2. next \in Nat /\ nJobs \in (1 - MaxWorkers)..MaxWorkers
    BY <1>0, <1>1 DEF Init
  <2>3. wpc \in [Slave -> WLocation] /\ formula \in [Slave -> SUBSET Point]
        /\ clausesToAdd \in [Slave -> SUBSET Point] /\ res \in [Slave -> {"UNKNOWN", "SAT", "UNSAT"}]
    BY <1>1 DEF WLocation
  <2>4. /\ models \in SUBSET Point /\ {globalEnding, strategyEnding, waitJob, crashed} \subseteq BOOLEAN
        /\ finalResult \in {"UNKNOWN", "SAT", "UNSAT"} /\ deleted \subseteq Slave
    BY DEF Init
  <2> QED
    BY <1>0, <1>1, <1>2, <2>1, <2>2, <2>3, <2>4 DEF TypeOK, MasterLocation, MainLocation
<1>5. StartInv /\ MadeInv /\ RoundInv /\ ResultInv /\ JobInv /\ ModelsCovered
  <2>1. NoRepeat(workers)
    BY <1>2 DEF NoRepeat
  <2> QED
    BY <1>0, <1>1, <1>3, <2>1 DEF StartInv, MadeInv, RoundInv, ResultInv, JobInv, ModelsCovered
<1> QED
  BY <1>4, <1>5 DEF IInv

\* A step that changes nothing.
LEMMA Stutter ==
    ASSUME IInv, UNCHANGED vars
    PROVE  IInv'
<1> USE DEF vars, ending, lists, flags, solvers, threads, masters
<1>1. TypeOK' /\ StartInv' /\ MadeInv' /\ RoundInv' /\ ResultInv'
  BY DEF IInv, TypeOK, StartInv, MadeInv, RoundInv, ResultInv
<1>2. Live' = Live /\ Counted' = Counted
  BY DEF Live, Counted
<1>3. JobInv'
  BY <1>2 DEF IInv, JobInv
<1>4. ModelsCovered'
  BY DEF IInv, ModelsCovered, SubProblem
<1> QED
  BY <1>1, <1>3, <1>4 DEF IInv

\* The conjuncts above hold in every state: what each thread has done to the
\* lists and to nJobs fits what the others have yet to do.
THEOREM CubeInvariant == Spec => []IInv
<1>1. IInv /\ [Next]_vars => IInv'
  <2>1. ASSUME IInv, Next PROVE IInv'
    BY <2>1, TypeStep, StartStep, MadeStep, RoundStep, ResultStep, JobStep, CoverStep DEF IInv
  <2> QED
    BY <2>1, Stutter
<1> QED
  BY <1>1, Initially, PTL DEF Spec

\* No solution is lost: whatever the master divides, reorders and erases while
\* the workers join, each solution lies in the sub-problem of a worker that is not
\* over.
THEOREM NothingLost == Spec => []ModelsCovered
<1>1. IInv => ModelsCovered
  BY DEF IInv
<1> QED
  BY <1>1, CubeInvariant, PTL

\* Each job that nJobs counts has a worker that is not over, and nJobs stays
\* within its bounds: when all workers have joined with UNSAT, no job is left.
THEOREM JobsCounted == Spec => []JobsAreCounted
<1>1. ASSUME IInv PROVE EveryJobHasAWorker
  <2>1. SUFFICES ASSUME workers # <<>>
                 PROVE  nJobs <= Cardinality(ToSet(workers) \ ToSet(over))
    BY DEF EveryJobHasAWorker
  <2>2. /\ workers \in Seq(Slave) /\ IsFiniteSet(ToSet(workers)) /\ created \in Nat /\ nJobs \in Int
        /\ Cardinality(Live) \in Nat /\ ToSet(workers) \subseteq 1..created
    BY <1>1, ListTypes DEF IInv, MadeInv
  <2>3. created > 0
    <3>1. ToSet(workers) # {}
      BY <2>1, <2>2, ToSetOf
    <3> QED
      BY <2>2, <3>1
  <2>4. nJobs <= Cardinality(Live)
    BY <1>1, <2>3 DEF IInv, JobInv
  <2>5. IsFiniteSet(ToSet(workers) \ ToSet(over)) /\ Live \subseteq ToSet(workers) \ ToSet(over)
    BY <2>2, FS_Subset DEF Live
  <2>6. /\ Cardinality(Live) <= Cardinality(ToSet(workers) \ ToSet(over))
        /\ Cardinality(ToSet(workers) \ ToSet(over)) \in Nat
    BY <2>5, FS_Subset, FS_CardinalityType
  <2> QED
    BY <2>2, <2>4, <2>6
<1>2. IInv => JobsAreCounted
  BY <1>1 DEF IInv, JobsAreCounted
<1> QED
  BY <1>2, CubeInvariant, PTL

=============================================================================
