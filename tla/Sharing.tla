------------------------------- MODULE Sharing -------------------------------
(***************************************************************************)
(* Clause sharing between the solvers of painless.  A Sharer is a thread   *)
(* that in each round takes in new solvers, moves the clauses its          *)
(* producers exported to the import queues of its consumers, and lets      *)
(* removed solvers go.  Solvers and clauses are reference counted; the     *)
(* working strategies clone solvers, hand the clones to the sharers and    *)
(* take them back while the sharers run (DivideAndConquer in copy mode 2,  *)
(* CubeAndConquer).                                                        *)
(*                                                                         *)
(* A solver is its id (SolverFactory::currentIdSolver); a clause is its    *)
(* address, and of its literals only the number is kept.  The queues are   *)
(* the FIFO queues that ClauseBuffer is shown to implement.  A call on a   *)
(* Sharer that main has deleted has no defined outcome and is not a step.  *)
(***************************************************************************)
EXTENDS Integers, Sequences, FiniteSets, SequencesExt, FiniteSetsExt

CONSTANTS
    MaxClauses,       \* bound: addresses (conf.clauses are used)
    Configs,          \* the command lines considered
    MaxId,            \* bound: ids up to this one exist (conf.ids are given out)
    MaxSize,          \* bound: literals of a learned clause
    DatabaseLimit,    \* ClauseDatabase: literals kept per clause size (1000)
    NoClause          \* what an address holds before malloc and after free

ASSUME SharingAssumption ==
    /\ {MaxClauses, MaxId, MaxSize, DatabaseLimit} \subseteq Nat \ {0}
    /\ NoClause \notin [size : Nat, from : Nat, nbRefs : Nat, lost : Nat]

Id == 1..MaxId
Addr == 1..MaxClauses
Kind == {"minisat", "glucose", "lingeling", "maple"}

\* A command line: for others main would take solvers from behind the end of its
\* vector.  wkr 4 is copy mode 2; copy mode 1 clones no solver and shares as wkr 1.
ASSUME ConfigsAssumption ==
    \A c \in Configs :
        /\ c.solvers \in Seq(Kind) /\ Len(c.solvers) \in 1..MaxId
        /\ c.wkr \in 1..4 /\ c.shr \in 1..4
        /\ c.shr = 2 => c.wkr = 1 \/ Len(c.solvers) = 1
        /\ c.shr = 4 => c.wkr = 3
        /\ c.limit \in 0..MaxSize /\ c.shrLit \in Nat \ {0}
        /\ c.clauses \in 0..MaxClauses /\ c.ids \in 0..MaxId

VARIABLES
    conf,             \* the command line: solvers, wkr-strat, shr-strat, shr-lit
    kind,             \* kind[s]: what solver s is, "none" before it exists
    nRefs,            \* nRefs[s]: SolverInterface::nRefs
    limit,            \* limit[s]: sizeLimit, glueLimit or lbdLimit
    held,             \* solvers a worker holds
    todo,             \* todo[s]: calls on the sharers a worker still makes for s
    heap,             \* heap[a]: the clause at address a
    clausesToExport, unitsToImport, clausesToImport,
    pc, producers, consumers, addProducers, addConsumers,
    removeProducers, removeConsumers,
    i, j, tmp,        \* locals of doSharing
    database,         \* database[h][z]: clauses of z literals sharer h keeps
    globalEnding,
    overtaken,        \* history: places whose solver was removed before it was added
    dangling          \* a sharer has used a solver after its deletion

solverVars == <<kind, nRefs, limit, held, todo>>
queueVars == <<clausesToExport, unitsToImport, clausesToImport>>
listVars == <<producers, consumers, addProducers, addConsumers,
              removeProducers, removeConsumers>>
roundVars == <<i, j, tmp, database>>
history == <<overtaken, dangling>>
vars == <<conf, solverVars, heap, queueVars, pc, listVars, roundVars, globalEnding, history>>

Count(q, x) == Cardinality({n \in DOMAIN q : q[n] = x})
Set(q) == {q[n] : n \in DOMAIN q}

\* f[1] + ... + f[n].
Total(f, n) == LET part[k \in 0..n] == IF k = 0 THEN 0 ELSE part[k - 1] + f[k] IN part[n]

\* The elements of q that are in S, in their order.
Filter(q, S) ==
    LET kept[n \in 0..Len(q)] ==
            IF n = 0 THEN <<>>
            ELSE IF q[n] \in S THEN Append(kept[n - 1], q[n]) ELSE kept[n - 1]
    IN  kept[Len(q)]

-----------------------------------------------------------------------------
(* painless.cpp: which sharers main starts, from the solvers it created *)

\* One record per Sharer: its strategy, producers and consumers.
SharersOf(c) ==
    LET all == [n \in 1..Len(c.solvers) |-> n]
        last == Len(all)
        Sharer(str, from) == [strategy |-> str, from |-> from, to |-> all]
    IN  CASE c.shr = 1 -> <<Sharer("simple", all)>>
          [] c.shr = 2 -> [n \in 1..last |-> Sharer("horde", <<n>>)]
          [] c.shr = 3 -> <<Sharer("horde", all)>>
          [] c.shr = 4 -> <<Sharer("simple", SubSeq(all, 1, last - 1)),
                            Sharer("horde", <<last>>)>>

Sharers == DOMAIN SharersOf(conf)
LiteralPerRound == conf.shrLit
Strategy(h) == SharersOf(conf)[h].strategy

\* Clones of CubeAndConquer are solvers of a part of the search space.
Restricted(s) == conf.wkr \in {2, 3} /\ s > Len(conf.solvers)

\* Sharer::Sharer counts a reference for every place in its two vectors.
Init ==
    \E c \in Configs :
        LET shr == SharersOf(c)
            none == [h \in DOMAIN shr |-> <<>>]
            empty == [s \in Id |-> <<>>]
        IN  /\ conf = c
            /\ kind = [s \in Id |-> IF s <= Len(c.solvers) THEN c.solvers[s] ELSE "none"]
            /\ nRefs = [s \in Id |->
                  IF s > Len(c.solvers) THEN 0
                  ELSE 1 + Total([h \in DOMAIN shr |-> Count(shr[h].from, s) + Count(shr[h].to, s)],
                                 Len(shr))]
            /\ limit = [s \in Id |-> c.limit]
            /\ held = 1..Len(c.solvers)
            /\ todo = empty
            /\ heap = [a \in Addr |-> NoClause]
            /\ clausesToExport = empty /\ unitsToImport = empty /\ clausesToImport = empty
            /\ pc = [h \in DOMAIN shr |-> "sleep"]
            /\ producers = [h \in DOMAIN shr |-> shr[h].from]
            /\ consumers = [h \in DOMAIN shr |-> shr[h].to]
            /\ addProducers = none /\ addConsumers = none
            /\ removeProducers = none /\ removeConsumers = none
            /\ i = [h \in DOMAIN shr |-> 1] /\ j = [h \in DOMAIN shr |-> 1]
            /\ tmp = none
            /\ database = [h \in DOMAIN shr |-> [z \in 1..MaxSize |-> <<>>]]
            /\ globalEnding = FALSE /\ overtaken = {} /\ dangling = FALSE

-----------------------------------------------------------------------------
(* ClauseManager and ClauseBuffer *)

\* malloc gives some free address; which one makes no difference.
allocClause(a, z, s) ==
    /\ a <= conf.clauses /\ heap[a] = NoClause /\ \A b \in 1..(a - 1) : heap[b] # NoClause
    /\ heap' = [heap EXCEPT ![a] = [size |-> z, from |-> s, nbRefs |-> 1, lost |-> 0]]

\* References to the clauses of sequence q are counted.
increaseClauses(q) ==
    [a \in Addr |-> IF a \in Set(q) THEN [heap[a] EXCEPT !.nbRefs = @ + Count(q, a)]
                    ELSE heap[a]]

\* freed[a] references to the clause at a are released, and its memory with the
\* last; lost[a] are lost: nothing points to it any more, but they remain counted.
releaseClauses(freed, lost) ==
    [a \in Addr |->
        IF freed[a] > 0 /\ heap[a].nbRefs - freed[a] <= 0 THEN NoClause
        ELSE IF freed[a] + lost[a] > 0
        THEN [heap[a] EXCEPT !.nbRefs = @ - freed[a], !.lost = @ + lost[a]]
        ELSE heap[a]]

Occurrences(q) == [a \in Addr |-> Count(q, a)]

\* getClauses reads the size of the buffer, k, and asks for one clause more
\* than that before it stops: a clause added meanwhile is dequeued and dropped.
Got(q, k) == SubSeq(q, 1, k)
Dropped(q, k) == SubSeq(q, k + 1, Min({k + 1, Len(q)}))
Left(q, k) == SubSeq(q, k + 2, Len(q))

-----------------------------------------------------------------------------
(* The adapters' callbacks, run by the solver's own thread *)

\* The size stands for the glue of a learned clause as well.
minisatExportClause(s, z) == z <= limit[s]
mapleExportClause(s, z) == z <= limit[s]
glucoseExportClause(s, z) == z = 1 \/ (z <= limit[s] /\ limit[s] > 0)
produce(s, z) == z = 1 \/ (z <= limit[s] /\ limit[s] >= 0)

Runs(s) == s \in held /\ todo[s] = <<>>

\* The solver has learned a clause of z literals that passes its adapter's test.
Export(s, z) ==
    /\ Runs(s)
    /\ CASE kind[s] = "minisat" -> minisatExportClause(s, z)
         [] kind[s] = "maple" -> mapleExportClause(s, z)
         [] kind[s] = "glucose" -> glucoseExportClause(s, z)
         [] kind[s] = "lingeling" -> produce(s, z)
    /\ \E a \in Addr :
          /\ allocClause(a, z, s)
          /\ clausesToExport' = [clausesToExport EXCEPT ![s] = Append(@, a)]
    /\ UNCHANGED <<conf, solverVars, unitsToImport, clausesToImport, pc, listVars,
                   roundVars, globalEnding, history>>

\* The first unit, or the first other clause, is copied and released.
ImportUnit(s) ==
    /\ unitsToImport[s] # <<>>
    /\ heap' = releaseClauses(Occurrences(<<Head(unitsToImport[s])>>), Occurrences(<<>>))
    /\ unitsToImport' = [unitsToImport EXCEPT ![s] = Tail(@)]
    /\ UNCHANGED clausesToImport

ImportClause(s) ==
    /\ clausesToImport[s] # <<>>
    /\ heap' = releaseClauses(Occurrences(<<Head(clausesToImport[s])>>), Occurrences(<<>>))
    /\ clausesToImport' = [clausesToImport EXCEPT ![s] = Tail(@)]
    /\ UNCHANGED unitsToImport

\* Lingeling takes all the units at once.
consumeUnits(s) ==
    /\ unitsToImport[s] # <<>>
    /\ \E k \in 0..Len(unitsToImport[s]) :
          /\ heap' = releaseClauses(Occurrences(Got(unitsToImport[s], k)),
                                   Occurrences(Dropped(unitsToImport[s], k)))
          /\ unitsToImport' = [unitsToImport EXCEPT ![s] = Left(@, k)]
    /\ UNCHANGED clausesToImport

minisatImport(s) == kind[s] = "minisat" /\ (ImportUnit(s) \/ ImportClause(s))
glucoseImport(s) == kind[s] = "glucose" /\ (ImportUnit(s) \/ ImportClause(s))
mapleImport(s) == kind[s] = "maple" /\ (ImportUnit(s) \/ ImportClause(s))
consumeCls(s) == kind[s] = "lingeling" /\ (consumeUnits(s) \/ ImportClause(s))

Import(s) ==
    /\ Runs(s)
    /\ minisatImport(s) \/ glucoseImport(s) \/ mapleImport(s) \/ consumeCls(s)
    /\ UNCHANGED <<conf, solverVars, clausesToExport, pc, listVars, roundVars, globalEnding, history>>

\* addLearnedClauses keeps units apart.
addLearnedClauses(s, q) ==
    /\ unitsToImport' =
          [unitsToImport EXCEPT ![s] = @ \o Filter(q, {a \in Set(q) : heap[a].size = 1})]
    /\ clausesToImport' =
          [clausesToImport EXCEPT ![s] = @ \o Filter(q, {a \in Set(q) : heap[a].size # 1})]

\* The limit goes up; above MaxSize it makes no difference any more.
increaseClauseProduction(s) == [limit EXCEPT ![s] = Min({@ + 1, MaxSize})]

-----------------------------------------------------------------------------
(* ClauseDatabase *)

\* addClause: acc is [db, full], a the clause; a full size drops it.
addClause(acc, a) ==
    LET z == heap[a].size
    IN  IF (Len(acc.db[z]) + 1) * z < DatabaseLimit
        THEN [acc EXCEPT !.db[z] = Append(@, a)]
        ELSE [acc EXCEPT !.full = Append(@, a)]

addClauses(db, q) ==
    LET at[n \in 0..Len(q)] ==
            IF n = 0 THEN [db |-> db, full |-> <<>>] ELSE addClause(at[n - 1], q[n])
    IN  at[Len(q)]

\* Mutant: clauses are counted where literals are meant.
BadGiveClauses(acc, z) ==
    LET q == acc.db[z]
        n == Min({Len(q), LiteralPerRound - Len(acc.selected)})
    IN  [db |-> [acc.db EXCEPT ![z] = SubSeq(q, n + 1, Len(q))],
         selected |-> acc.selected \o SubSeq(q, 1, n), used |-> acc.used + z * n]

\* giveSelection for the clauses of z literals: all of them, or from the back
\* as many as there is place for; acc is [db, selected, used].
giveClauses(acc, z) ==
    LET left == LiteralPerRound - acc.used
        q == acc.db[z]
        n == left \div z
    IN  IF left < z THEN acc
        ELSE IF left >= z * Len(q)
        THEN [db |-> [acc.db EXCEPT ![z] = <<>>],
              selected |-> acc.selected \o q, used |-> acc.used + z * Len(q)]
        ELSE [db |-> [acc.db EXCEPT ![z] = SubSeq(q, 1, Len(q) - n)],
              selected |-> acc.selected \o Reverse(SubSeq(q, Len(q) - n + 1, Len(q))),
              used |-> acc.used + z * n]

giveSelection(db) ==
    LET at[z \in 0..MaxSize] ==
            IF z = 0 THEN [db |-> db, selected |-> <<>>, used |-> 0] ELSE giveClauses(at[z - 1], z)
    IN  at[MaxSize]

-----------------------------------------------------------------------------
(* mainThrSharing *)

\* After its sleep a sharer ends, or starts a round: new solvers are taken in
\* under addLock.
Wake(h) ==
    /\ pc[h] = "sleep"
    /\ \/ /\ globalEnding
          /\ pc' = [pc EXCEPT ![h] = "ended"]
          /\ UNCHANGED <<listVars, i>>
       \/ /\ ~globalEnding
          /\ pc' = [pc EXCEPT ![h] = "collect"]
          /\ producers' = [producers EXCEPT ![h] = @ \o addProducers[h]]
          /\ consumers' = [consumers EXCEPT ![h] = @ \o addConsumers[h]]
          /\ addProducers' = [addProducers EXCEPT ![h] = <<>>]
          /\ addConsumers' = [addConsumers EXCEPT ![h] = <<>>]
          /\ i' = [i EXCEPT ![h] = 1]
          /\ UNCHANGED <<removeProducers, removeConsumers>>
    /\ UNCHANGED <<conf, solverVars, heap, queueVars, j, tmp, database, globalEnding, history>>

\* ~SolverInterface has run for these: the last reference is released.
DeletedSolvers == {s \in Id : kind[s] # "none" /\ nRefs[s] = 0}

\* A deleted producer or consumer is used in place of one of the steps that follow:
\* the outcome is undefined, and the model goes no further.
UseDeleted(h) ==
    /\ \/ pc[h] = "collect" /\ i[h] <= Len(producers[h]) /\ producers[h][i[h]] \in DeletedSolvers
       \/ /\ pc[h] = "send" /\ j[h] <= Len(consumers[h])
          /\ {producers[h][i[h]], consumers[h][j[h]]} \cap DeletedSolvers # {}
       \/ pc[h] = "put" /\ consumers[h][j[h]] \in DeletedSolvers
    /\ dangling' = TRUE
    /\ UNCHANGED <<conf, solverVars, heap, queueVars, pc, listVars, roundVars, globalEnding,
                   overtaken>>

\* A producer's clauses are taken: SimpleSharing passes them on as they come.
CollectSimple(h) ==
    /\ pc[h] = "collect" /\ Strategy(h) = "simple" /\ i[h] <= Len(producers[h])
    /\ producers[h][i[h]] \notin DeletedSolvers
    /\ LET s == producers[h][i[h]]
       IN  \E k \in 0..Len(clausesToExport[s]) :
              /\ tmp' = [tmp EXCEPT ![h] = Got(clausesToExport[s], k)]
              /\ heap' = releaseClauses(Occurrences(<<>>), Occurrences(Dropped(clausesToExport[s], k)))
              /\ clausesToExport' = [clausesToExport EXCEPT ![s] = Left(@, k)]
    /\ j' = [j EXCEPT ![h] = 1]
    /\ pc' = [pc EXCEPT ![h] = "send"]
    /\ UNCHANGED <<conf, solverVars, unitsToImport, clausesToImport, listVars, i,
                   database, globalEnding, history>>

\* HordeSatSharing puts them into its database and passes on a selection; the
\* producer is asked for more if that is less than 80% of the budget.
CollectHorde(h) ==
    /\ pc[h] = "collect" /\ Strategy(h) = "horde" /\ i[h] <= Len(producers[h])
    /\ producers[h][i[h]] \notin DeletedSolvers
    /\ LET s == producers[h][i[h]]
       IN  \E k \in 0..Len(clausesToExport[s]) :
              LET new == addClauses(database[h], Got(clausesToExport[s], k))
                  sel == giveSelection(new.db)
              IN  /\ tmp' = [tmp EXCEPT ![h] = sel.selected]
                  /\ database' = [database EXCEPT ![h] = sel.db]
                  /\ heap' = releaseClauses(Occurrences(new.full),
                                              Occurrences(Dropped(clausesToExport[s], k)))
                  /\ clausesToExport' = [clausesToExport EXCEPT ![s] = Left(@, k)]
                  /\ limit' = IF (100 * sel.used) \div LiteralPerRound < 80
                              THEN increaseClauseProduction(s)
                              ELSE limit
    /\ j' = [j EXCEPT ![h] = 1]
    /\ pc' = [pc EXCEPT ![h] = "send"]
    /\ UNCHANGED <<conf, kind, nRefs, held, todo, unitsToImport, clausesToImport,
                   listVars, i, globalEnding, history>>

\* Mutants: references are counted for the first consumer alone; the producer is
\* not left out.
BadCountRefs(h) ==
    /\ pc[h] = "send" /\ j[h] <= Len(consumers[h])
    /\ heap' = IF j[h] = 1 THEN increaseClauses(tmp[h]) ELSE heap
    /\ pc' = [pc EXCEPT ![h] = "put"]
    /\ UNCHANGED <<conf, solverVars, queueVars, listVars, i, j, tmp, database, globalEnding, history>>
BadSkip(h) ==
    /\ pc[h] = "send" /\ j[h] <= Len(consumers[h])
    /\ heap' = increaseClauses(tmp[h])
    /\ pc' = [pc EXCEPT ![h] = "put"]
    /\ UNCHANGED <<conf, solverVars, queueVars, listVars, i, j, tmp, database, globalEnding, history>>

\* For every consumer but the producer itself: count the references, ...
CountRefs(h) ==
    /\ pc[h] = "send" /\ j[h] <= Len(consumers[h])
    /\ {producers[h][i[h]], consumers[h][j[h]]} \cap DeletedSolvers = {}
    /\ IF producers[h][i[h]] = consumers[h][j[h]]
       THEN /\ j' = [j EXCEPT ![h] = @ + 1]
            /\ UNCHANGED <<pc, heap>>
       ELSE /\ heap' = increaseClauses(tmp[h])
            /\ pc' = [pc EXCEPT ![h] = "put"]
            /\ UNCHANGED j
    /\ UNCHANGED <<conf, solverVars, queueVars, listVars, i, tmp, database, globalEnding, history>>

\* ... then hand them over.
Put(h) ==
    /\ pc[h] = "put" /\ consumers[h][j[h]] \notin DeletedSolvers
    /\ addLearnedClauses(consumers[h][j[h]], tmp[h])
    /\ j' = [j EXCEPT ![h] = @ + 1]
    /\ pc' = [pc EXCEPT ![h] = "send"]
    /\ UNCHANGED <<conf, solverVars, heap, clausesToExport, listVars, i, tmp, database,
                   globalEnding, history>>

\* The sharer's own references go, and the next producer is served.
ReleaseOwn(h) ==
    /\ pc[h] = "send" /\ j[h] > Len(consumers[h])
    /\ heap' = releaseClauses(Occurrences(tmp[h]), Occurrences(<<>>))
    /\ tmp' = [tmp EXCEPT ![h] = <<>>]
    /\ i' = [i EXCEPT ![h] = @ + 1]
    /\ pc' = [pc EXCEPT ![h] = "collect"]
    /\ UNCHANGED <<conf, solverVars, queueVars, listVars, j, database, globalEnding, history>>

\* The destructors of the solvers in gone: GlucoseSyrup releases what its queues
\* hold, the others lose it.
deleteSolvers(gone) ==
    LET Content(s) == clausesToExport[s] \o unitsToImport[s] \o clausesToImport[s]
        All(S) == [a \in Addr |->
                      Total([s \in Id |-> IF s \in S THEN Count(Content(s), a) ELSE 0], MaxId)]
        Emptied(f) == [s \in Id |-> IF s \in gone THEN <<>> ELSE f[s]]
    IN  /\ heap' = releaseClauses(All({s \in gone : kind[s] = "glucose"}),
                                  All({s \in gone : kind[s] # "glucose"}))
        /\ clausesToExport' = Emptied(clausesToExport)
        /\ unitsToImport' = Emptied(unitsToImport)
        /\ clausesToImport' = Emptied(clausesToImport)

\* SolverInterface::release for every place of q.
release(q) ==
    /\ nRefs' = [s \in Id |-> nRefs[s] - Count(q, s)]
    /\ deleteSolvers({s \in Set(q) : nRefs[s] - Count(q, s) = 0})

\* Removals that are handled while the addition waits for the next round: the
\* reference goes, and the next round takes the solver in.
Overtaken(h) ==
    {<<"producer", h, s>> : s \in Set(removeProducers[h]) \cap Set(addProducers[h])}
    \cup {<<"consumer", h, s>> : s \in Set(removeConsumers[h]) \cap Set(addConsumers[h])}

\* The end of a round: removed solvers are erased and released under removeLock.
RemoveSolvers(h) ==
    LET Kept(q, gone) == Filter(q, Id \ Set(gone))
    IN  /\ pc[h] = "collect" /\ i[h] > Len(producers[h])
        /\ producers' = [producers EXCEPT ![h] = Kept(@, removeProducers[h])]
        /\ consumers' = [consumers EXCEPT ![h] = Kept(@, removeConsumers[h])]
        /\ release(removeProducers[h] \o removeConsumers[h])
        /\ removeProducers' = [removeProducers EXCEPT ![h] = <<>>]
        /\ removeConsumers' = [removeConsumers EXCEPT ![h] = <<>>]
        /\ pc' = [pc EXCEPT ![h] = IF globalEnding THEN "ended" ELSE "sleep"]
        /\ overtaken' = overtaken \cup Overtaken(h)
        /\ UNCHANGED <<conf, kind, limit, held, todo, addProducers, addConsumers,
                       roundVars, globalEnding, dangling>>

-----------------------------------------------------------------------------
(* What the working strategies and main do with solvers and sharers *)

\* The calls for every sharer in turn: DivideAndConquer makes a clone a consumer
\* and a producer, CubeAndConquer a consumer only.
Calls(ops) == [n \in 1..(Len(ops) * Len(SharersOf(conf))) |->
                  <<ops[((n - 1) % Len(ops)) + 1], ((n - 1) \div Len(ops)) + 1>>]

\* Mutant: a solver that is given up is removed as a consumer only.
BadRemoveCalls == Calls(<<"removeConsumer">>)

addCalls == Calls(IF conf.wkr = 4 THEN <<"addConsumer", "addProducer">>
                  ELSE <<"addConsumer">>)
removeCalls == Calls(IF conf.wkr = 4 THEN <<"removeConsumer", "removeProducer">>
                     ELSE <<"removeConsumer">>)

\* SolverFactory::cloneSolver, for the strategies that clone while they search.
cloneSolver(t) ==
    LET other == Len(conf.solvers)
    IN  /\ conf.wkr \in {2, 3, 4} /\ kind[other] # "minisat"
        /\ t <= conf.ids /\ kind[t] = "none" /\ \A s \in 1..(t - 1) : kind[s] # "none"
        /\ held # {} /\ ~globalEnding
        /\ kind' = [kind EXCEPT ![t] = kind[other]]
        /\ nRefs' = [nRefs EXCEPT ![t] = 1]
        /\ held' = held \cup {t}
        /\ todo' = [todo EXCEPT ![t] = addCalls]
        /\ UNCHANGED <<conf, limit, heap, queueVars, pc, listVars, roundVars, globalEnding, history>>

\* A worker gives its solver up once its part is refuted: in DivideAndConquer
\* unless it is the last one, in CubeAndConquer the clones.
GiveUp(s) ==
    /\ Runs(s)
    /\ CASE conf.wkr = 4 -> \E t \in held \ {s} : todo[t] = <<>>
         [] conf.wkr \in {2, 3} -> s > Len(conf.solvers)
         [] OTHER -> FALSE
    /\ todo' = [todo EXCEPT ![s] = Append(removeCalls, <<"release", 0>>)]
    /\ UNCHANGED <<conf, kind, nRefs, limit, held, heap, queueVars, pc, listVars,
                   roundVars, globalEnding, history>>

addConsumer(s, h) ==
    /\ nRefs' = [nRefs EXCEPT ![s] = @ + 1]
    /\ addConsumers' = [addConsumers EXCEPT ![h] = Append(@, s)]
    /\ UNCHANGED <<held, heap, queueVars, addProducers, removeProducers, removeConsumers>>

addProducer(s, h) ==
    /\ nRefs' = [nRefs EXCEPT ![s] = @ + 1]
    /\ addProducers' = [addProducers EXCEPT ![h] = Append(@, s)]
    /\ UNCHANGED <<held, heap, queueVars, addConsumers, removeProducers, removeConsumers>>

removeConsumer(s, h) ==
    /\ removeConsumers' = [removeConsumers EXCEPT ![h] = Append(@, s)]
    /\ UNCHANGED <<nRefs, held, heap, queueVars, addProducers, addConsumers, removeProducers>>

removeProducer(s, h) ==
    /\ removeProducers' = [removeProducers EXCEPT ![h] = Append(@, s)]
    /\ UNCHANGED <<nRefs, held, heap, queueVars, addProducers, addConsumers, removeConsumers>>

\* The next call of the thread that adds or gives up solver s.
Call(s) ==
    /\ todo[s] # <<>>
    /\ LET op == Head(todo[s])[1]
           h == Head(todo[s])[2]
       IN  /\ op # "release" => pc[h] # "deleted"
           /\ \/ op = "addConsumer" /\ addConsumer(s, h)
              \/ op = "addProducer" /\ addProducer(s, h)
              \/ op = "removeConsumer" /\ removeConsumer(s, h)
              \/ op = "removeProducer" /\ removeProducer(s, h)
              \/ /\ op = "release" /\ release(<<s>>)
                 /\ held' = held \ {s}
                 /\ UNCHANGED <<addProducers, addConsumers, removeProducers, removeConsumers>>
    /\ todo' = [todo EXCEPT ![s] = Tail(@)]
    /\ UNCHANGED <<conf, kind, limit, pc, producers, consumers, roundVars, globalEnding, history>>

\* A result is found or the time is over.
End ==
    /\ ~globalEnding
    /\ globalEnding' = TRUE
    /\ UNCHANGED <<conf, solverVars, heap, queueVars, pc, listVars, roundVars, history>>

\* ~Sharer, by main, one sharer after the other: the thread is joined, pending
\* removals are released; what the two vectors hold is not.
DeleteSharer(h) ==
    /\ globalEnding /\ pc[h] = "ended"
    /\ \A g \in 1..(h - 1) : pc[g] = "deleted"
    /\ release(removeProducers[h] \o removeConsumers[h])
    /\ pc' = [pc EXCEPT ![h] = "deleted"]
    /\ UNCHANGED <<conf, kind, limit, held, todo, listVars, roundVars, globalEnding, history>>

\* Then the working strategy with its workers, which release their solvers.
DeleteWorker(s) ==
    /\ \A h \in Sharers : pc[h] = "deleted"
    /\ Runs(s)
    /\ release(<<s>>)
    /\ held' = held \ {s}
    /\ UNCHANGED <<conf, kind, limit, todo, pc, listVars, roundVars, globalEnding, history>>

-----------------------------------------------------------------------------
SharerStep(h) ==
    \/ UseDeleted(h) \/ Wake(h) \/ CollectSimple(h) \/ CollectHorde(h) \/ CountRefs(h) \/ Put(h)
    \/ ReleaseOwn(h) \/ RemoveSolvers(h)

SolverStep(s) ==
    \/ \E z \in 1..MaxSize : Export(s, z)
    \/ Import(s)

Next ==
    /\ ~dangling
    /\ \/ \E h \in Sharers : SharerStep(h) \/ DeleteSharer(h)
       \/ \E s \in Id : SolverStep(s) \/ cloneSolver(s) \/ GiveUp(s) \/ Call(s) \/ DeleteWorker(s)
       \/ End

Spec == Init /\ [][Next]_vars

\* The sharers' and the strategies' threads are scheduled, and main comes to its
\* destructors; no solver need learn, import or be given up, no search need end.
Fairness ==
    /\ \A h \in 1..2 :
          WF_vars(~dangling /\ h \in Sharers /\ (SharerStep(h) \/ DeleteSharer(h)))
    /\ WF_vars(~dangling /\ \E s \in Id : Call(s))

FairSpec == Spec /\ Fairness

-----------------------------------------------------------------------------
(* Properties *)

TypeOK ==
    /\ conf \in Configs
    /\ kind \in [Id -> Kind \cup {"none"}]
    /\ nRefs \in [Id -> Nat]
    /\ limit \in [Id -> 0..MaxSize]
    /\ held \subseteq Id
    /\ \A a \in Addr : heap[a] # NoClause =>
          heap[a] \in [size : 1..MaxSize, from : Id, nbRefs : Nat \ {0}, lost : Nat]
    /\ \A q \in {clausesToExport, unitsToImport, clausesToImport} :
          DOMAIN q = Id /\ \A s \in Id : Set(q[s]) \subseteq Addr
    /\ pc \in [Sharers -> {"sleep", "collect", "send", "put", "ended", "deleted"}]
    /\ \A q \in {producers, consumers, addProducers, addConsumers, removeProducers,
                 removeConsumers} :
          DOMAIN q = Sharers /\ \A h \in Sharers : Set(q[h]) \subseteq Id
    /\ overtaken \subseteq {"producer", "consumer"} \X Sharers \X Id
    /\ {globalEnding, dangling} \subseteq BOOLEAN

\* The places from which a clause can be reached: the queues of the solvers, the
\* databases, and the vector of a sharer, twice while it has counted the
\* references of a consumer and not handed them over.
Places(a) ==
    Total([s \in Id |-> Count(clausesToExport[s], a) + Count(unitsToImport[s], a)
                           + Count(clausesToImport[s], a)], MaxId)
    + Total([h \in Sharers |->
                (IF pc[h] = "put" THEN 2 ELSE 1) * Count(tmp[h], a)
                    + Total([z \in 1..MaxSize |-> Count(database[h][z], a)], MaxSize)],
            Len(SharersOf(conf)))

\* ClauseExchange::nbRefs is exact at every step of every thread: a clause in a
\* queue, a database or a vector is allocated, and freed with its last place,
\* except for references that were lost on the way.
RefsAreCounted ==
    \A a \in Addr :
        Places(a) = IF heap[a] = NoClause THEN 0 ELSE heap[a].nbRefs - heap[a].lost

\* The references to solver s that sharer h has for the places in its vectors, those
\* aside that a removal has overtaken.
SharerRefs(h, s) ==
    IF pc[h] = "deleted" THEN 0
    ELSE (IF <<"producer", h, s>> \in overtaken THEN 0
          ELSE Count(producers[h] \o addProducers[h], s))
         + (IF <<"consumer", h, s>> \in overtaken THEN 0
            ELSE Count(consumers[h] \o addConsumers[h], s))

\* SolverInterface::nRefs counts these places and the worker that holds the solver.
SolverRefsCounted ==
    \A s \in Id :
        nRefs[s] >= (IF s \in held THEN 1 ELSE 0)
                    + Total([h \in Sharers |-> SharerRefs(h, s)], Len(SharersOf(conf)))

\* Nothing is deleted twice, whatever the sharers, the solvers and the strategies do
\* at once, and nothing is used after it was deleted, unless a sharer handles the
\* removal of a solver before its addition.
ReferencesAreCounted ==
    /\ TypeOK /\ RefsAreCounted /\ SolverRefsCounted
    /\ dangling => overtaken # {}

\* No clause learned by a solver of a part of the search space (CubeAndConquer's
\* clones, restricted by unit clauses) reaches another solver.
SharedClausesAreImplied ==
    \A s \in Id : \A a \in Set(unitsToImport[s] \o clausesToImport[s]) :
        heap[a] # NoClause => ~Restricted(heap[a].from)

\* A clause is not handed back to the solver it came from, unless a HordeSat
\* sharer serves several producers: what its database keeps from one round to the
\* next is compared with the wrong producer.
NoEcho ==
    (\A h \in Sharers : Strategy(h) = "horde" => Len(SharersOf(conf)[h].from) = 1 /\ conf.wkr # 4)
        => \A s \in Id : \A a \in Set(unitsToImport[s] \o clausesToImport[s]) :
              heap[a] # NoClause => heap[a].from # s

\* A clause in an import queue is one its solver may use and does not have.
ClausesMayBeShared == SharedClausesAreImplied /\ NoEcho

\* What HordeSatSharing sends keeps within the budget of literals, and what stays
\* behind in the database has no fewer literals and does not fit any more.
SelectionIsGreedy ==
    \A h \in Sharers : (pc[h] = "send" /\ j[h] = 1 /\ Strategy(h) = "horde") =>
        LET used == Total([n \in DOMAIN tmp[h] |-> heap[tmp[h][n]].size], Len(tmp[h]))
        IN  /\ used <= LiteralPerRound
            /\ \A z \in 1..MaxSize : database[h][z] # <<>> =>
                  /\ used + z > LiteralPerRound
                  /\ \A a \in Set(tmp[h]) : heap[a].size <= z

\* Solvers that were given up are deleted, unless the search ends first or a deleted
\* one is used: no sharer keeps a reference to one.
AwaitingDeletion == \E s \in Id : kind[s] # "none" /\ s \notin held /\ nRefs[s] # 0
GivenUpSolversAreDeleted == AwaitingDeletion ~> (~AwaitingDeletion \/ globalEnding \/ dangling)

=============================================================================
