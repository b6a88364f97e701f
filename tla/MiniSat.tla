------------------------------- MODULE MiniSat -------------------------------
(***************************************************************************)
(* The CDCL search of minisat/core/Solver.cc with the import and export    *)
(* hooks painless added: a formula is loaded, then solved under one cube   *)
(* of assumptions after the other, while other solvers supply clauses and  *)
(* a request to stop may come at any time.  The clauses learned under one  *)
(* cube stay for the next and are exported to solvers of other cubes.      *)
(*                                                                         *)
(* A literal is a nonzero integer, its negation the negative one.  Kept    *)
(* exactly: which literals of a clause are watched, the watch lists with   *)
(* their blockers, the trail, reasons and levels.  Left to choice: what    *)
(* follows from activities, random numbers and counters of effort (the     *)
(* branching literal, when to restart, simplify or reduce, which clauses   *)
(* to drop).  The literals behind the watches of a clause that was learnt  *)
(* or trimmed are in ascending order and in their old order, which only    *)
(* decides the watch to move to.                                           *)
(***************************************************************************)
EXTENDS Integers, Sequences, FiniteSets, SequencesExt, FiniteSetsExt, Sorting

CONSTANTS
    NVars,          \* number of variables
    Problems,       \* [formula, imports, cubes]: what is loaded, what other
                    \* solvers may send, the cubes to solve
    MaxCRef,        \* bound: clauses held at a time
    MaxSolves,      \* bound: calls of solve_
    MaxImports,     \* bound: clauses imported
    MaxRestarts     \* bound: restarts and reductions of the learnt clauses

ASSUME MiniSatAssumption ==
    {NVars, MaxCRef, MaxSolves, MaxImports, MaxRestarts} \subseteq Nat

VARIABLES
    problem,
    ca,             \* ca[cr]: the clause at reference cr, [lits, origin], or NoClause
    watches,        \* watches[l]: watchers [cref, blocker] visited when l becomes true
    trail, trail_lim, qhead,
    reason,         \* reason[v]: reference of the clause that implied v, or Undef
    ok,
    pc,             \* where the thread is
    loaded,         \* clauses of the formula passed to addClause_
    w,              \* propagate: the watcher to be visited
    confl,          \* the clause propagate returned
    learnt_clause,
    assumptions, conflict, result,
    interrupted,    \* asynch_interrupt
    used            \* what is used up of the bounds

clauseVars == <<ca, watches>>
trailVars == <<trail, trail_lim, qhead, reason>>
callVars == <<assumptions, conflict, result>>
vars == <<problem, clauseVars, trailVars, ok, pc, loaded, w, confl, learnt_clause,
          callVars, interrupted, used>>

Var == 1..NVars
Lit == Var \cup {-v : v \in Var}
CRef == 1..MaxCRef
Undef == 0
NoClause == [lits |-> <<>>, origin |-> "none"]
abs(l) == IF l < 0 THEN -l ELSE l
Set(q) == {q[n] : n \in DOMAIN q}

\* What is left of q: the elements at the places in I, in their order.
Among(q, I) == LET at == Sorted(I, [n \in I |-> n]) IN [n \in 1..Cardinality(I) |-> q[at[n]]]

True(l) == l \in Set(trail)
False(l) == -l \in Set(trail)
decisionLevel == Len(trail_lim)
Position(l) == CHOOSE n \in DOMAIN trail : abs(trail[n]) = abs(l)
level(l) == Cardinality({n \in DOMAIN trail_lim : trail_lim[n] < Position(l)})
learnts == {cr \in CRef : ca[cr].origin \in {"learnt", "imported"}}
satisfied(c) == \E n \in DOMAIN c : True(c[n])
locked(cr) == True(ca[cr].lits[1]) /\ reason[abs(ca[cr].lits[1])] = cr

Init ==
    /\ problem \in Problems
    /\ ca = [cr \in CRef |-> NoClause]
    /\ watches = [l \in Lit |-> <<>>]
    /\ trail = <<>> /\ trail_lim = <<>> /\ qhead = 1
    /\ reason = [v \in Var |-> Undef]
    /\ ok = TRUE /\ pc = "idle" /\ loaded = 0 /\ w = 0 /\ confl = Undef
    /\ learnt_clause = <<>>
    /\ assumptions = <<>> /\ conflict = {} /\ result = "none"
    /\ interrupted = FALSE
    /\ used = [solves |-> 0, imports |-> 0, restarts |-> 0]

-----------------------------------------------------------------------------
(* Clauses *)

uncheckedEnqueue(l, from) ==
    /\ trail' = Append(trail, l)
    /\ reason' = [reason EXCEPT ![abs(l)] = from]

attachClause(ws, cr, c) ==
    [ws EXCEPT ![-c[1]] = Append(@, [cref |-> cr, blocker |-> c[2]]),
               ![-c[2]] = Append(@, [cref |-> cr, blocker |-> c[1]])]

\* ca.alloc and attachClause
room == \E n \in CRef : ca[n] = NoClause
nextCRef == Min({n \in CRef : ca[n] = NoClause})
newClause(c, origin) ==
    /\ ca' = [ca EXCEPT ![nextCRef] = [lits |-> c, origin |-> origin]]
    /\ watches' = attachClause(watches, nextCRef, c)

\* Removed clauses leave no watcher (lookup cleans smudged lists) and no reason.
removeClauses(D, kept) ==
    /\ ca' = [cr \in CRef |-> IF cr \in D THEN NoClause ELSE kept[cr]]
    /\ watches' = [l \in Lit |->
          Among(watches[l], {n \in DOMAIN watches[l] : watches[l][n].cref \notin D})]
    /\ reason' = [v \in Var |->
          IF reason[v] \in {cr \in D : locked(cr)} THEN Undef ELSE reason[v]]

cancelUntil(lvl) ==
    IF decisionLevel > lvl
    THEN /\ trail' = SubSeq(trail, 1, trail_lim[lvl + 1])
         /\ qhead' = trail_lim[lvl + 1] + 1
         /\ trail_lim' = SubSeq(trail_lim, 1, lvl)
    ELSE UNCHANGED <<trail, qhead, trail_lim>>

\* addClause_ for the next clause of the formula: satisfied and tautological
\* clauses are skipped, false and repeated literals dropped; a unit is propagated.
addClause ==
    /\ pc = "idle" /\ loaded < Len(problem.formula)
    /\ loaded' = loaded + 1
    /\ LET c == Set(problem.formula[loaded + 1])
           ps == Sorted({l \in c : ~False(l)},
                        [l \in Lit |-> 2 * abs(l) + (IF l < 0 THEN 1 ELSE 0)])
           skip == ~ok \/ \E l \in c : True(l) \/ -l \in c
       IN  \/ /\ skip
              /\ UNCHANGED <<clauseVars, trail, reason, ok, pc>>
           \/ /\ ~skip /\ Len(ps) = 0
              /\ ok' = FALSE
              /\ UNCHANGED <<clauseVars, trail, reason, pc>>
           \/ /\ ~skip /\ Len(ps) = 1
              /\ uncheckedEnqueue(ps[1], Undef)
              /\ pc' = "propagate"
              /\ UNCHANGED <<clauseVars, ok>>
           \/ /\ ~skip /\ Len(ps) > 1 /\ room
              /\ newClause(ps, "formula")
              /\ UNCHANGED <<trail, reason, ok, pc>>
    /\ UNCHANGED <<problem, trail_lim, qhead, w, confl, learnt_clause, callVars, interrupted, used>>

-----------------------------------------------------------------------------
(* propagate *)

searching == result = "searching"

\* The watchers of the fact in hand, if there is one, have been visited.
factDone == w # 0 => w > Len(watches[trail[qhead - 1]])

\* The next fact of the queue, or the end of the queue.
propagate ==
    /\ pc = "propagate" /\ factDone
    /\ \/ /\ qhead <= Len(trail)
          /\ qhead' = qhead + 1 /\ w' = 1
          /\ UNCHANGED pc
       \/ /\ qhead > Len(trail)
          /\ w' = 0
          /\ pc' = IF searching THEN "noconflict" ELSE "idle"
          /\ UNCHANGED qhead
    /\ UNCHANGED <<problem, clauseVars, trail, trail_lim, reason, ok, loaded, confl,
                   learnt_clause, callVars, interrupted, used>>

\* Mutant: a clause is passed over although its blocker is not true yet.
blockedOpen(x) == ~False(x.blocker)
blocked(x) == True(x.blocker)

\* One watcher of p: satisfied by its blocker or the other watch, moved to a
\* literal that is not false, unit, or in conflict.
visitWatch ==
    LET p == trail[qhead - 1]
        x == watches[p][w]
        c0 == ca[x.cref].lits
        c == IF c0[1] = -p THEN [c0 EXCEPT ![1] = c0[2], ![2] = -p] ELSE c0
        first == c[1]
        kept == [cref |-> x.cref, blocker |-> first]
        other == {k \in 3..Len(c) : ~False(c[k])}
        swapped == [ca EXCEPT ![x.cref].lits = c]
    IN  /\ pc = "propagate" /\ ~factDone
        /\ \/ /\ blocked(x)
              /\ w' = w + 1
              /\ UNCHANGED <<clauseVars, trail, reason, qhead, ok, confl, pc>>
           \/ /\ ~blocked(x) /\ True(first)
              /\ ca' = swapped
              /\ watches' = [watches EXCEPT ![p][w] = kept]
              /\ w' = w + 1
              /\ UNCHANGED <<trail, reason, qhead, ok, confl, pc>>
           \/ /\ ~blocked(x) /\ ~True(first) /\ other # {}
              /\ LET k == Min(other)
                 IN  /\ ca' = [ca EXCEPT ![x.cref].lits = [c EXCEPT ![2] = c[k], ![k] = -p]]
                     /\ watches' = [watches EXCEPT ![p] = RemoveAt(@, w),
                                                   ![-c[k]] = Append(@, kept)]
              /\ UNCHANGED <<trail, reason, qhead, ok, confl, pc, w>>
           \/ /\ ~blocked(x) /\ ~True(first) /\ other = {} /\ ~False(first)
              /\ ca' = swapped
              /\ watches' = [watches EXCEPT ![p][w] = kept]
              /\ uncheckedEnqueue(first, x.cref)
              /\ w' = w + 1
              /\ UNCHANGED <<qhead, ok, confl, pc>>
           \/ /\ ~blocked(x) /\ ~True(first) /\ other = {} /\ False(first)
              /\ ca' = swapped
              /\ watches' = [watches EXCEPT ![p][w] = kept]
              /\ confl' = x.cref
              /\ qhead' = Len(trail) + 1
              /\ pc' = IF searching THEN "conflict" ELSE "idle"
              /\ ok' = (ok /\ searching)
              /\ w' = 0
              /\ UNCHANGED <<trail, reason>>
        /\ UNCHANGED <<problem, trail_lim, loaded, learnt_clause, callVars, interrupted, used>>

-----------------------------------------------------------------------------
(* analyze, litRedundant, analyzeFinal *)

Parents(cr) == {ca[cr].lits[n] : n \in 2..Len(ca[cr].lits)}
AboveZero(S) == {l \in S : level(l) > 0}
Current(S) == {l \in S : level(l) >= decisionLevel}

Open(R) == Cardinality(Current(R)) > 1

\* The clause that is left after the facts behind place n of the trail were
\* resolved away, as long as two literals of the current level are in it.
ResolvedTo[n \in 0..Len(trail)] ==
    IF n = Len(trail) THEN AboveZero(Set(ca[confl].lits))
    ELSE LET p == trail[n + 1]
             R == ResolvedTo[n + 1]
         IN  IF -p \in R /\ Open(R)
             THEN (R \ {-p}) \cup AboveZero(Parents(reason[abs(p)]))
             ELSE R

Resolved == ResolvedTo[0]

\* Mutant: the parents are not followed.
litRedundantAny(l, src) == reason[abs(l)] # Undef

\* A literal is dropped if its reasons lead back to literals of the clause, src,
\* or of level 0: S is what they pass through and end in.
litRedundant(l, src) ==
    \E S \in SUBSET Set(trail) :
        /\ reason[abs(l)] # Undef
        /\ \A q \in Parents(reason[abs(l)]) : -q \in S
        /\ \A p \in S :
              \/ level(p) = 0
              \/ -p \in src
              \/ /\ reason[abs(p)] # Undef
                 /\ \A q \in Parents(reason[abs(p)]) : -q \in S

\* The learnt clause: the asserting literal first, then one of the highest level.
analyze ==
    LET uip == CHOOSE l \in Current(Resolved) : TRUE
        src == Resolved \ {uip}
        rest == {l \in src : ~litRedundant(l, src)}
        second == CHOOSE l \in rest : \A m \in rest : level(m) <= level(l)
    IN  <<uip>> \o (IF rest = {} THEN <<>>
                    ELSE <<second>> \o Sorted(rest \ {second}, [l \in Lit |-> l]))

btlevel(c) == IF Len(c) = 1 THEN 0 ELSE level(c[2])

\* The variables p goes back to: the least set that holds p's own and, with one
\* that was implied above level 0, those of its reason.
seen(p) ==
    LET Closed(S) ==
            \A n \in (trail_lim[1] + 1)..Len(trail) :
                LET v == abs(trail[n])
                IN  v \in S /\ reason[v] # Undef =>
                        \A q \in AboveZero(Parents(reason[v])) : abs(q) \in S
    IN  {v \in Var : \A S \in SUBSET Var : abs(p) \in S /\ Closed(S) => v \in S}

\* The assumptions that imply p, negated, with p itself.
analyzeFinal(p) ==
    IF decisionLevel = 0 THEN {p}
    ELSE {p} \cup {-trail[n] : n \in {k \in (trail_lim[1] + 1)..Len(trail) :
                       reason[abs(trail[k])] = Undef /\ abs(trail[k]) \in seen(p)}}

-----------------------------------------------------------------------------
(* solve_ and search *)

\* Mutant: an answer for the cube is taken for one about the formula.
finishForgetsCube(res, core) ==
    /\ pc' = "idle" /\ result' = res /\ conflict' = core
    /\ ok' = (ok /\ res # "UNSAT")
    /\ cancelUntil(0)

\* The end of solve_.
finish(res, core) ==
    /\ pc' = "idle" /\ result' = res /\ conflict' = core
    /\ ok' = (ok /\ (res = "UNSAT" => core # {}))
    /\ cancelUntil(0)

\* The worker clears the request to stop, then calls the adapter.
solve ==
    /\ pc = "idle" /\ loaded = Len(problem.formula)
    /\ used.solves < MaxSolves
    /\ used' = [used EXCEPT !.solves = @ + 1]
    /\ \E cube \in problem.cubes : assumptions' = cube
    /\ conflict' = {} /\ interrupted' = FALSE
    /\ IF ok THEN pc' = "import" /\ result' = "searching"
       ELSE pc' = "idle" /\ result' = "UNSAT"
    /\ UNCHANGED <<problem, clauseVars, trailVars, ok, loaded, w, confl, learnt_clause>>

\* At level 0, units first.  importUnitClauses ignores a unit whose variable has a value.
importUnitClause ==
    /\ pc = "import" /\ used.imports < MaxImports
    /\ \E c \in {d \in problem.imports : Len(d) = 1} :
          IF True(c[1]) \/ False(c[1]) THEN UNCHANGED <<trail, reason>>
          ELSE uncheckedEnqueue(c[1], Undef)
    /\ used' = [used EXCEPT !.imports = @ + 1]
    /\ UNCHANGED <<problem, clauseVars, trail_lim, qhead, ok, pc, loaded, w, confl,
                   learnt_clause, callVars, interrupted>>

\* importClauses attaches a clause as it comes, whatever values its literals have.
importClause ==
    /\ pc \in {"import", "clauses"} /\ used.imports < MaxImports /\ room
    /\ \E c \in {d \in problem.imports : Len(d) > 1} : newClause(c, "imported")
    /\ used' = [used EXCEPT !.imports = @ + 1]
    /\ pc' = "clauses"
    /\ UNCHANGED <<problem, trailVars, ok, loaded, w, confl, learnt_clause, callVars, interrupted>>

importsDone ==
    /\ pc \in {"import", "clauses"}
    /\ pc' = "propagate"
    /\ UNCHANGED <<problem, clauseVars, trailVars, ok, loaded, w, confl, learnt_clause, callVars,
                   interrupted, used>>

rootConflict ==
    /\ pc = "conflict" /\ decisionLevel = 0
    /\ finish("UNSAT", {})
    /\ UNCHANGED <<problem, clauseVars, reason, loaded, w, confl, learnt_clause, assumptions, interrupted, used>>

\* The learnt clause is computed and exported, ...
analyzeConflict ==
    /\ pc = "conflict" /\ decisionLevel > 0
    /\ \E c \in {analyze} : learnt_clause' = c
    /\ confl' = Undef
    /\ pc' = "learn"
    /\ UNCHANGED <<problem, clauseVars, trailVars, ok, loaded, w, callVars, interrupted, used>>

\* ... added, and its first literal asserted at the level to jump back to.
learn ==
    /\ pc = "learn" /\ room
    /\ LET c == learnt_clause
           keep == trail_lim[btlevel(c) + 1]
       IN  /\ trail' = Append(SubSeq(trail, 1, keep), c[1])
           /\ qhead' = keep + 1
           /\ trail_lim' = SubSeq(trail_lim, 1, btlevel(c))
           /\ IF Len(c) = 1
              THEN /\ reason' = [reason EXCEPT ![abs(c[1])] = Undef]
                   /\ UNCHANGED clauseVars
              ELSE /\ newClause(c, "learnt")
                   /\ reason' = [reason EXCEPT ![abs(c[1])] = nextCRef]
           /\ pc' = IF btlevel(c) = 0 THEN "import" ELSE "propagate"
    /\ learnt_clause' = <<>>
    /\ UNCHANGED <<problem, ok, loaded, w, confl, callVars, interrupted, used>>

\* Mutant: solve_ does not test withinBudget and starts search again.
outOfBudgetGoesOn ==
    /\ pc = "noconflict" /\ interrupted
    /\ cancelUntil(0)
    /\ pc' = "import"
    /\ UNCHANGED <<problem, clauseVars, reason, ok, loaded, w, confl, learnt_clause, callVars,
                   interrupted, used>>

\* A request to stop is seen here and nowhere else; solve_ starts search again
\* after a restart.
outOfBudget ==
    /\ pc = "noconflict"
    /\ \/ /\ interrupted
          /\ finish("UNKNOWN", {})
          /\ UNCHANGED used
       \/ /\ ~interrupted /\ used.restarts < MaxRestarts
          /\ used' = [used EXCEPT !.restarts = @ + 1]
          /\ cancelUntil(0)
          /\ pc' = "import"
          /\ UNCHANGED <<ok, result, conflict>>
    /\ UNCHANGED <<problem, clauseVars, reason, loaded, w, confl, learnt_clause, assumptions, interrupted>>

\* simplify at level 0: satisfied learnt clauses go, false literals behind the
\* watches are trimmed (the adapter turned remove_satisfied off for the rest).
simplify ==
    LET D == {cr \in learnts : satisfied(ca[cr].lits)}
        trimmed(c) == Among(c, {n \in DOMAIN c : n <= 2 \/ ~False(c[n])})
    IN  /\ pc = "noconflict" /\ ~interrupted
        /\ \/ /\ decisionLevel = 0
              /\ removeClauses(D, [cr \in CRef |->
                    IF cr \in learnts THEN [ca[cr] EXCEPT !.lits = trimmed(@)] ELSE ca[cr]])
           \/ UNCHANGED <<clauseVars, reason>>
        /\ \/ pc' = "decide"
           \/ pc' = "reduce" /\ used.restarts < MaxRestarts
        /\ UNCHANGED <<problem, trail, trail_lim, qhead, ok, loaded, w, confl, learnt_clause, callVars,
                       interrupted, used>>

\* Learnt clauses of three literals or more go unless they are reasons.
reduceDB ==
    /\ pc = "reduce"
    /\ \E D \in SUBSET {cr \in learnts : Len(ca[cr].lits) > 2 /\ ~locked(cr)} :
          removeClauses(D, ca)
    /\ pc' = "decide"
    /\ used' = [used EXCEPT !.restarts = @ + 1]
    /\ UNCHANGED <<problem, trail, trail_lim, qhead, ok, loaded, w, confl, learnt_clause, callVars,
                   interrupted>>

newDecisionLevel == trail_lim' = Append(trail_lim, Len(trail))

\* The next assumption: true already, false, or to be tried.
assume ==
    /\ pc = "decide" /\ decisionLevel < Len(assumptions)
    /\ LET p == assumptions[decisionLevel + 1]
       IN  \/ /\ True(p)
              /\ newDecisionLevel
              /\ UNCHANGED <<trail, qhead, reason, ok, pc, result, conflict>>
           \/ /\ False(p)
              /\ finish("UNSAT", analyzeFinal(-p))
              /\ UNCHANGED reason
           \/ /\ ~True(p) /\ ~False(p)
              /\ newDecisionLevel /\ uncheckedEnqueue(p, Undef)
              /\ pc' = "propagate"
              /\ UNCHANGED <<qhead, ok, result, conflict>>
    /\ UNCHANGED <<problem, clauseVars, loaded, w, confl, learnt_clause, assumptions, interrupted, used>>

\* pickBranchLit: any literal without a value; if there is none, a model.
decide ==
    /\ pc = "decide" /\ decisionLevel >= Len(assumptions)
    /\ \/ /\ Len(trail) < NVars
          /\ \E p \in {l \in Lit : ~True(l) /\ ~False(l)} : uncheckedEnqueue(p, Undef)
          /\ newDecisionLevel
          /\ pc' = "propagate"
          /\ UNCHANGED <<qhead, ok, result, conflict>>
       \/ /\ Len(trail) = NVars
          /\ pc' = "model"
          /\ UNCHANGED <<trailVars, ok, result, conflict>>
    /\ UNCHANGED <<problem, clauseVars, loaded, w, confl, learnt_clause, assumptions, interrupted, used>>

modelFound ==
    /\ pc = "model"
    /\ finish("SAT", {})
    /\ UNCHANGED <<problem, clauseVars, reason, loaded, w, confl, learnt_clause, assumptions, interrupted, used>>

\* interrupt(), by another thread
interrupt ==
    /\ searching /\ ~interrupted
    /\ interrupted' = TRUE
    /\ UNCHANGED <<problem, clauseVars, trailVars, ok, pc, loaded, w, confl, learnt_clause, callVars, used>>

-----------------------------------------------------------------------------
searchStep ==
    \/ propagate \/ visitWatch
    \/ importUnitClause \/ importClause \/ importsDone
    \/ rootConflict \/ analyzeConflict \/ learn \/ outOfBudget \/ simplify \/ reduceDB
    \/ assume \/ decide \/ modelFound

Next == addClause \/ solve \/ searchStep \/ interrupt

Spec == Init /\ [][Next]_vars
FairSpec == Spec /\ WF_vars(searchStep)

-----------------------------------------------------------------------------
(* Properties *)

Assignments == [Var -> BOOLEAN]
Holds(a, l) == IF l > 0 THEN a[l] ELSE ~a[-l]
Satisfies(a, c) == \E l \in c : Holds(a, l)
ModelsOf == [p \in Problems |->
    {a \in Assignments : \A n \in DOMAIN p.formula : Satisfies(a, Set(p.formula[n]))}]
Models == ModelsOf[problem]
Implied(c) == \A a \in Models : Satisfies(a, c)

\* What the other solvers send follows from the formula and names no literal twice.
ASSUME ProblemsAssumption ==
    \A p \in Problems :
        /\ p.formula \in Seq(Seq(Lit))
        /\ \A c \in p.imports :
              /\ c \in Seq(Lit) /\ Len(c) > 0
              /\ \A i, j \in DOMAIN c : c[i] = c[j] => i = j
              /\ \A a \in ModelsOf[p] : Satisfies(a, Set(c))
        /\ \A c \in p.cubes : c \in Seq(Lit)

TypeOK ==
    /\ problem \in Problems
    /\ \A cr \in CRef : Set(ca[cr].lits) \subseteq Lit
    /\ \A l \in Lit : \A n \in DOMAIN watches[l] : watches[l][n] \in [cref : CRef, blocker : Lit]
    /\ Set(trail) \subseteq Lit /\ Len(trail) <= NVars
    /\ \A n \in DOMAIN trail_lim : trail_lim[n] \in 0..Len(trail)
    /\ qhead \in 1..(Len(trail) + 1)
    /\ reason \in [Var -> CRef \cup {Undef}]
    /\ pc \in {"idle", "import", "clauses", "propagate", "conflict", "learn", "noconflict",
              "reduce", "decide", "model"}
    /\ result \in {"none", "searching", "SAT", "UNSAT", "UNKNOWN"}

\* What is learned under one cube holds without it: every clause the solver keeps
\* and exports, and every literal of level 0, follows from the formula alone.
LearntIsImplied ==
    /\ \A cr \in learnts : Implied(Set(ca[cr].lits))
    /\ pc = "learn" => Implied(Set(learnt_clause))
    /\ \A n \in DOMAIN trail : level(trail[n]) = 0 => Implied({trail[n]})

\* UNSAT means that the formula has no model in the cube and names assumptions
\* that are responsible; a solver that gave the formula up has none to find; a
\* model satisfies the formula and the cube.
AnswerIsRight ==
    /\ result = "UNSAT" =>
          /\ \A a \in Models : \E n \in DOMAIN assumptions : ~Holds(a, assumptions[n])
          /\ conflict \subseteq {-l : l \in Set(assumptions)}
          /\ Implied(conflict)
    /\ ~ok => Models = {}
    /\ pc = "model" =>
          /\ [v \in Var |-> True(v)] \in Models
          /\ \A n \in DOMAIN assumptions : True(assumptions[n])

\* When propagation ends without a conflict, a clause whose watched literals are
\* not both open has a true literal: no unit or falsified clause was overlooked
\* by lazy watches, blockers and backjumps.  Imported clauses are excepted: they
\* are attached to literals that may have been false before.
WatchesAreSound ==
    pc \in {"noconflict", "reduce", "decide", "model"} =>
        \A cr \in {n \in CRef : ca[n].origin \in {"formula", "learnt"}} :
            (False(ca[cr].lits[1]) \/ False(ca[cr].lits[2])) => satisfied(ca[cr].lits)

\* Every clause is watched at its first two literals, once each.
TwoWatches ==
    factDone => \A cr \in {n \in CRef : ca[n] # NoClause} :
        \A l \in Lit : Cardinality({n \in DOMAIN watches[l] : watches[l][n].cref = cr})
                         = IF l \in {-ca[cr].lits[1], -ca[cr].lits[2]} THEN 1 ELSE 0

\* The clause recorded as the reason of a fact has it at its first place, and its
\* other literals were false before: what analyze and litRedundant rely on, after
\* watches were swapped and learnt clauses removed.
ReasonsAreSound ==
    \A n \in DOMAIN trail : reason[abs(trail[n])] # Undef =>
        LET c == ca[reason[abs(trail[n])]].lits
        IN  /\ Len(c) > 1 /\ c[1] = trail[n]
            /\ \A k \in 2..Len(c) : False(c[k]) /\ Position(c[k]) < n

\* The clause that is learned asserts: all its literals are false, and one alone
\* belongs to the current level.
LearntAsserts ==
    pc = "learn" =>
        /\ \A n \in DOMAIN learnt_clause : False(learnt_clause[n])
        /\ \A n \in 2..Len(learnt_clause) : level(learnt_clause[n]) \in 1..(decisionLevel - 1)
        /\ level(learnt_clause[1]) = decisionLevel

\* The state of the search is what propagation, conflict analysis and the removal of learnt
\* clauses each take the others to leave.
SearchStateIsSound == TypeOK /\ TwoWatches /\ WatchesAreSound /\ ReasonsAreSound /\ LearntAsserts

\* A search comes to its end, and so does one that was asked to stop.
SearchReturns == searching ~> ~searching

=============================================================================
