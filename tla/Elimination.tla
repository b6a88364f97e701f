----------------------------- MODULE Elimination -----------------------------
(***************************************************************************)
(* Variable elimination and subsumption of minisat/simp/SimpSolver.cc, as  *)
(* painless drives it: every call of solve_ simplifies the clauses first,  *)
(* for the cube of that call, and may be told to stop at any point; clauses*)
(* learned or imported in between mention any variable.                    *)
(*                                                                         *)
(* A clause is a set of literals (nonzero integers).  The search itself is *)
(* module MiniSat; here it is its contract, search.  Occurrence lists are  *)
(* read off the clauses; abstractions and sizes of lazily cleaned lists    *)
(* only choose the variable to scan, which is left open.                   *)
(***************************************************************************)
EXTENDS Integers, Sequences, FiniteSets, SequencesExt, Sorting

CONSTANTS
    NVars,
    Formulas,       \* sequences of clauses
    Cubes,          \* sets of assumed literals
    grow,           \* clauses an elimination may add
    clause_lim,     \* longest resolvent
    MaxSolves,      \* bound: calls of solve_
    MaxLearnts      \* bound: clauses learned or imported

ASSUME EliminationAssumption ==
    {NVars, grow, clause_lim, MaxSolves, MaxLearnts} \subseteq Nat

VARIABLES
    formula, loaded,
    db,             \* [ca, trail, queue, touched, heap, ok]: clauses [lits, live] by
                    \* reference, facts, subsumption_queue, touched, elim_heap, ok
    bwdsub_assigns, \* facts checked for subsumption
    eliminated, frozen,
    elimclauses,    \* [lit, rest]: a clause of an eliminated variable, its literal first
    learnts,
    pc, ret,        \* where the thread is, where backwardSubsumptionCheck returns to
    cube, result, model, interrupted, solves

elimVars == <<eliminated, elimclauses>>
callVars == <<cube, result, model, solves, frozen>>
vars == <<formula, loaded, db, bwdsub_assigns, elimVars, learnts, pc, ret, callVars, interrupted>>

Var == 1..NVars
Lit == Var \cup {-v : v \in Var}
abs(l) == IF l < 0 THEN -l ELSE l
ASSUME ClausesAssumption == Formulas \subseteq Seq(SUBSET Lit) /\ Cubes \subseteq SUBSET Lit
VarsOf(c) == {abs(l) : l \in c}
Facts(d) == ToSet(d.trail)
Assigned(d) == VarsOf(Facts(d))
Refs(d) == {cr \in DOMAIN d.ca : d.ca[cr].live}
occurs(d, v) == {cr \in Refs(d) : v \in VarsOf(d.ca[cr].lits)}
n_occ(d, l) == Cardinality({cr \in Refs(d) : l \in d.ca[cr].lits})
Ascending(S) == Sorted(S, [x \in S |-> x])
Only(S) == CHOOSE x \in S : TRUE
\* op over the elements of seq from the left, each result computed once.
Fold(op(_, _), base, seq) ==
    LET f[n \in 0..Len(seq)] ==
            IF n = 0 THEN base ELSE Only({op(d, seq[n]) : d \in {f[n - 1]}})
    IN  f[Len(seq)]
Tautology(c) == \E l \in c : -l \in c

Init ==
    /\ formula \in Formulas /\ loaded = 0
    /\ db = [ca |-> <<>>, trail |-> <<>>, queue |-> <<>>, touched |-> {}, heap |-> Var, ok |-> TRUE]
    /\ bwdsub_assigns = 0
    /\ eliminated = {} /\ frozen = {} /\ elimclauses = <<>> /\ learnts = {}
    /\ pc = "idle" /\ ret = "none"
    /\ cube = {} /\ result = "none" /\ model = {} /\ interrupted = FALSE /\ solves = 0

-----------------------------------------------------------------------------
(* Operations on the clauses *)

Clauses(d, L) == {d.ca[cr].lits : cr \in Refs(d)} \cup L
units(d, L) ==
    {l \in Lit : /\ abs(l) \notin Assigned(d)
                 /\ \E c \in Clauses(d, L) : l \in c /\ \A m \in c \ {l} : -m \in Facts(d)}
imply(d, L) ==
    IF units(d, L) = {} THEN d ELSE [d EXCEPT !.trail = Append(@, Only(units(d, L)))]
conflict(d, L) == \E c \in Clauses(d, L) : \A l \in c : -l \in Facts(d)

\* What the facts imply at level 0; a conflict ends with ok = FALSE.
Propagate(d, L) ==
    LET all == Fold(LAMBDA e, v : imply(e, L), d, [v \in Var |-> v])
    IN  Only({IF conflict(e, L) THEN [e EXCEPT !.ok = FALSE] ELSE e : e \in {all}})

enqueue(d, l) ==
    IF -l \in Facts(d) THEN [d EXCEPT !.ok = FALSE]
    ELSE IF l \in Facts(d) THEN d
    ELSE Only({Propagate(e, learnts) : e \in {[d EXCEPT !.trail = Append(@, l)]}})

\* SimpSolver::addClause_: a clause that is kept is queued and its variables touched.
AddClause(d, ps) ==
    LET c == {l \in ps : -l \notin Facts(d)}
    IN  IF ~d.ok \/ Tautology(ps) \/ ps \cap Facts(d) # {} THEN d
        ELSE IF c = {} THEN [d EXCEPT !.ok = FALSE]
        ELSE IF Cardinality(c) = 1 THEN enqueue(d, Only(c))
        ELSE [d EXCEPT !.ca = Append(@, [lits |-> c, live |-> TRUE]),
                       !.queue = Append(@, Len(d.ca) + 1),
                       !.touched = @ \cup VarsOf(c)]

updateElimHeap(d, V, gone) ==
    [d EXCEPT !.heap = @ \cup (V \ (frozen \cup gone \cup Assigned(d)))]

removeClause(d, cr, gone) ==
    updateElimHeap([d EXCEPT !.ca[cr].live = FALSE], VarsOf(d.ca[cr].lits), gone)

\* Mutant: the literal that is left of a clause of two is forgotten.
strengthenClauseNoUnit(d, cr, l) ==
    LET e == [d EXCEPT !.queue = Append(@, cr)]
    IN  IF Cardinality(d.ca[cr].lits) = 2 THEN removeClause(e, cr, eliminated)
        ELSE updateElimHeap([e EXCEPT !.ca[cr].lits = @ \ {l}], {abs(l)}, eliminated)

strengthenClause(d, cr, l) ==
    LET e == [d EXCEPT !.queue = Append(@, cr)]
        last == CHOOSE m \in d.ca[cr].lits : m # l
    IN  IF Cardinality(d.ca[cr].lits) = 2
        THEN Only({enqueue(r, last) : r \in {removeClause(e, cr, eliminated)}})
        ELSE updateElimHeap([e EXCEPT !.ca[cr].lits = @ \ {l}], {abs(l)}, eliminated)

\* Clause::subsumes: the literals of c, one of them perhaps negated, are in other.
subsumes(c, other) == c \subseteq other
Strengthens(c, other) ==
    {l \in c : -l \in other /\ l \notin other /\ c \ {l} \subseteq other}

\* merge: the resolvent of two clauses on v.
merge(p, q, v) == (p \cup q) \ {v, -v}

-----------------------------------------------------------------------------
(* Loading, and the calls of solve_ *)

addClause ==
    /\ pc = "idle" /\ loaded < Len(formula)
    /\ loaded' = loaded + 1
    /\ db' = AddClause(db, formula[loaded + 1])
    /\ UNCHANGED <<formula, bwdsub_assigns, elimVars, learnts, pc, ret, callVars, interrupted>>

\* The variables of the cube are frozen for this call; simplify removes satisfied
\* learnt clauses.
solve ==
    /\ pc = "idle" /\ loaded = Len(formula) /\ solves < MaxSolves
    /\ solves' = solves + 1 /\ interrupted' = FALSE /\ model' = {}
    /\ \E a \in Cubes : cube' = a /\ frozen' = VarsOf(a)
    /\ learnts' = {c \in learnts : c \cap Facts(db) = {}}
    /\ IF db.ok THEN pc' = "while" /\ result' = "searching"
       ELSE pc' = "idle" /\ result' = "UNSAT"
    /\ UNCHANGED <<formula, loaded, db, bwdsub_assigns, elimVars, ret>>

-----------------------------------------------------------------------------
(* eliminate *)

TouchedClauses(d) == {cr \in Refs(d) : VarsOf(d.ca[cr].lits) \cap d.touched # {}} \ ToSet(d.queue)
\* Mutant: the variables stay touched.
gatherTouchedAgain(d) == [d EXCEPT !.queue = @ \o Ascending(TouchedClauses(d))]
\* The clauses of touched variables are queued, each once.
gatherTouchedClauses(d) ==
    [d EXCEPT !.queue = @ \o Ascending(TouchedClauses(d)), !.touched = {}]

\* The head of the main loop.
mainLoop ==
    LET gathered == gatherTouchedClauses(db)
        work == gathered.queue # <<>> \/ bwdsub_assigns < Len(db.trail)
    IN  /\ pc = "while"
        /\ \/ /\ db.touched # {} \/ bwdsub_assigns < Len(db.trail) \/ db.heap # {}
              /\ db' = gathered
              /\ pc' = IF work THEN "bwd" ELSE "check"
              /\ ret' = "check"
           \/ /\ db.touched = {} /\ bwdsub_assigns >= Len(db.trail) /\ db.heap = {}
              /\ pc' = "search"
              /\ UNCHANGED <<db, ret>>
        /\ UNCHANGED <<formula, loaded, bwdsub_assigns, elimVars, learnts, callVars, interrupted>>

\* Mutant: the queue is left when a request to stop is seen.
droppedNone(d) == d
dropQueue(d) == [d EXCEPT !.queue = <<>>]
allFacts(d) == Len(d.trail)

\* backwardSubsumptionCheck: stopped, ...
bwdInterrupted ==
    /\ pc = "bwd" /\ interrupted
    /\ db.queue # <<>> \/ bwdsub_assigns < Len(db.trail)
    /\ db' = dropQueue(db)
    /\ bwdsub_assigns' = allFacts(db)
    /\ pc' = ret
    /\ UNCHANGED <<formula, loaded, elimVars, learnts, ret, callVars, interrupted>>

\* ... done, ...
bwdDone ==
    /\ pc = "bwd" /\ db.queue = <<>> /\ bwdsub_assigns >= Len(db.trail)
    /\ pc' = ret
    /\ UNCHANGED <<formula, loaded, db, bwdsub_assigns, elimVars, learnts, ret, callVars,
                   interrupted>>

\* What clause cr with literals c does to a candidate.
Check(d, cr, c, other) ==
    IF ~d.ok \/ ~d.ca[other].live \/ other = cr THEN d
    ELSE IF subsumes(c, d.ca[other].lits) THEN removeClause(d, other, eliminated)
    ELSE IF Strengthens(c, d.ca[other].lits) = {} THEN d
    ELSE strengthenClause(d, other, -Only(Strengthens(c, d.ca[other].lits)))

CheckAll(d, cr, c, best) ==
    Fold(LAMBDA e, other : Check(e, cr, c, other), d, Ascending(occurs(d, best)))

\* ... or the next clause, or fact, is compared with the clauses on one of its variables.
backwardSubsumptionCheck ==
    /\ pc = "bwd" /\ ~interrupted
    /\ LET fact == db.queue = <<>>
           cr == IF fact THEN 0 ELSE Head(db.queue)
           c == IF fact THEN {db.trail[bwdsub_assigns + 1]} ELSE db.ca[cr].lits
           d == IF fact THEN db ELSE [db EXCEPT !.queue = Tail(@)]
       IN  /\ fact => bwdsub_assigns < Len(db.trail)
           /\ bwdsub_assigns' = bwdsub_assigns + (IF fact THEN 1 ELSE 0)
           /\ \/ /\ ~fact => d.ca[cr].live
                 /\ \E best \in VarsOf(c) : db' = CheckAll(d, cr, c, best)
              \/ /\ ~fact /\ ~d.ca[cr].live
                 /\ db' = d
    /\ pc' = IF db'.ok THEN "bwd" ELSE "search"
    /\ UNCHANGED <<formula, loaded, elimVars, learnts, ret, callVars, interrupted>>

\* A request to stop empties the heap and ends the simplification.
checkInterrupt ==
    /\ pc = "check"
    /\ IF interrupted THEN pc' = "search" /\ db' = [db EXCEPT !.heap = {}]
       ELSE pc' = "elim" /\ UNCHANGED db
    /\ UNCHANGED <<formula, loaded, bwdsub_assigns, elimVars, learnts, ret, callVars, interrupted>>

Occ(d, l) == Ascending({cr \in Refs(d) : l \in d.ca[cr].lits})
Pairs(d, v) == {p \in ToSet(Occ(d, v)) \X ToSet(Occ(d, -v)) :
                    ~Tautology(merge(d.ca[p[1]].lits, d.ca[p[2]].lits, v))}
\* Both limits, as the counting loop of eliminateVar tests them.
worthwhile(d, v) ==
    /\ Cardinality(Pairs(d, v)) <= Cardinality(occurs(d, v)) + grow
    /\ \A pair \in Pairs(d, v) :
          Cardinality(merge(d.ca[pair[1]].lits, d.ca[pair[2]].lits, v)) <= clause_lim

mkElimClauses(d, l) ==
    [n \in DOMAIN Occ(d, l) |-> [lit |-> l, rest |-> d.ca[Occ(d, l)[n]].lits \ {l}]]
\* Mutant: the value a variable starts from is the wrong one.
savedClausesWrongUnit(d, v) ==
    IF Len(Occ(d, v)) > Len(Occ(d, -v))
    THEN Append(mkElimClauses(d, -v), [lit |-> -v, rest |-> {}])
    ELSE Append(mkElimClauses(d, v), [lit |-> v, rest |-> {}])
\* The clauses of the rarer polarity and the other literal as a unit, for extendModel.
savedClauses(d, v) ==
    IF Len(Occ(d, v)) > Len(Occ(d, -v))
    THEN Append(mkElimClauses(d, -v), [lit |-> v, rest |-> {}])
    ELSE Append(mkElimClauses(d, v), [lit |-> -v, rest |-> {}])

\* The resolvent of clauses i and j of d on v is added to e, ...
addResolvent(e, d, v, i, j) ==
    LET r == merge(d.ca[i].lits, d.ca[j].lits, v)
    IN  IF Tautology(r) THEN e ELSE AddClause(e, r)

\* ... those of clause i, ...
addResolvents(e, d, v, i) == Fold(LAMBDA f, j : addResolvent(f, d, v, i, j), e, Occ(d, -v))

\* ... all of them, ...
addAllResolvents(e, d, v) == Fold(LAMBDA f, i : addResolvents(f, d, v, i), e, Occ(d, v))

removeOccurrences(d, v, gone) ==
    Fold(LAMBDA e, cr : removeClause(e, cr, gone), d, Ascending(occurs(d, v)))

\* ... when the clauses on v are removed.
Resolve(d, v) == addAllResolvents(removeOccurrences(d, v, eliminated \cup {v}), d, v)

\* The variable of least cost leaves the heap and is eliminated if it may be.
eliminateVar ==
    LET cost(v) == n_occ(db, v) * n_occ(db, -v)
    IN  /\ pc = "elim"
        /\ \E v \in {x \in db.heap : \A y \in db.heap : cost(x) <= cost(y)} :
              LET d == [db EXCEPT !.heap = @ \ {v}]
                  open == v \notin eliminated \cup Assigned(db) \cup frozen
              IN  \/ /\ interrupted
                     /\ db' = d /\ pc' = "while"
                     /\ UNCHANGED <<elimVars, ret>>
                  \/ /\ ~interrupted /\ ~(open /\ worthwhile(db, v))
                     /\ db' = d
                     /\ UNCHANGED <<elimVars, ret, pc>>
                  \/ /\ ~interrupted /\ open /\ worthwhile(db, v)
                     /\ eliminated' = eliminated \cup {v}
                     /\ elimclauses' = elimclauses \o savedClauses(db, v)
                     /\ \E e \in {Resolve(d, v)} : db' = e
                     /\ pc' = (IF db'.ok THEN "bwd" ELSE "search") /\ ret' = "elim"
        /\ UNCHANGED <<formula, loaded, bwdsub_assigns, learnts, callVars, interrupted>>

heapEmpty ==
    /\ pc = "elim" /\ db.heap = {}
    /\ pc' = "while"
    /\ UNCHANGED <<formula, loaded, db, bwdsub_assigns, elimVars, learnts, ret, callVars, interrupted>>

-----------------------------------------------------------------------------
(* The search and its answer *)

Assignments == {a \in SUBSET Lit : \A v \in Var : (v \in a) # (-v \in a)}
ModelsOf == [F \in Formulas |->
    {a \in Assignments : \A n \in DOMAIN F : F[n] \cap a # {}}]
Models == ModelsOf[formula]

\* Learned by the search, or by another solver from the formula.
Learnable == [F \in Formulas |->
    {c \in SUBSET Lit : /\ Cardinality(c) \in 1..2 /\ ~Tautology(c)
                        /\ \A a \in ModelsOf[F] : a \cap c # {}}]
learnClause ==
    /\ pc = "search" /\ db.ok /\ Cardinality(learnts) < MaxLearnts
    /\ \E c \in Learnable[formula] \ learnts :
          /\ learnts' = learnts \cup {c}
          /\ db' = Propagate(db, learnts \cup {c})
    /\ UNCHANGED <<formula, loaded, bwdsub_assigns, elimVars, pc, ret, callVars, interrupted>>

\* Assignments the search may end with: every variable that was not eliminated has a
\* value, an eliminated one may have got one from a learnt clause.
Found(assumed) ==
    {a \in SUBSET Lit :
        /\ \A v \in Var : v \notin a \/ -v \notin a
        /\ \A v \in Var \ eliminated : v \in a \/ -v \in a
        /\ Facts(db) \cup assumed \subseteq a
        /\ \A cr \in Refs(db) : db.ca[cr].lits \cap a # {}
        /\ \A c \in learnts : \E l \in c : -l \notin a}

\* A saved clause with no other true or open literal decides its variable.
replay(m, e) == IF \A l \in e.rest : -l \in m THEN (m \ {-e.lit}) \cup {e.lit} ELSE m
\* Mutant: the clauses are replayed from the first elimination to the last.
extendModelForward(a) == Fold(LAMBDA m, e : replay(m, e), a, elimclauses)
\* The saved clauses from the last to the first.
extendModel(a) == Fold(LAMBDA m, e : replay(m, e), a, Reverse(elimclauses))

\* The answer of solve_; a refutation without assumptions is for good.
search ==
    /\ pc = "search"
    /\ \/ /\ interrupted /\ db.ok
          /\ result' = "UNKNOWN"
          /\ UNCHANGED <<model, db>>
       \/ /\ db.ok
          /\ \E a \in Found(cube) : model' = extendModel(a)
          /\ result' = "SAT"
          /\ UNCHANGED db
       \/ /\ db.ok => Found(cube) = {}
          /\ result' = "UNSAT"
          /\ \/ cube # {} /\ db' = db
             \/ Found({}) = {} /\ db' = [db EXCEPT !.ok = FALSE]
          /\ UNCHANGED model
    /\ pc' = "thaw"
    /\ UNCHANGED <<formula, loaded, bwdsub_assigns, elimVars, learnts, ret, cube, solves, frozen,
                   interrupted>>

\* The variables of the cube are thawed.
thaw ==
    /\ pc = "thaw"
    /\ frozen' = {}
    /\ db' = [db EXCEPT !.heap = @ \cup (VarsOf(cube) \ (eliminated \cup Assigned(db)))]
    /\ pc' = "idle"
    /\ UNCHANGED <<formula, loaded, bwdsub_assigns, elimVars, learnts, ret, cube, result, model,
                   solves, interrupted>>

\* interrupt(), by another thread
interrupt ==
    /\ pc \notin {"idle", "thaw"} /\ ~interrupted
    /\ interrupted' = TRUE
    /\ UNCHANGED <<formula, loaded, db, bwdsub_assigns, elimVars, learnts, pc, ret, callVars>>

solveStep ==
    \/ mainLoop \/ bwdInterrupted \/ bwdDone \/ backwardSubsumptionCheck
    \/ checkInterrupt \/ eliminateVar \/ heapEmpty \/ learnClause \/ search \/ thaw

Next == addClause \/ solve \/ solveStep \/ interrupt

Spec == Init /\ [][Next]_vars
FairSpec == Spec /\ WF_vars(solveStep)

-----------------------------------------------------------------------------
(* Properties *)

TypeOK ==
    /\ loaded \in 0..Len(formula)
    /\ \A cr \in DOMAIN db.ca : db.ca[cr].lits \subseteq Lit /\ db.ca[cr].live \in BOOLEAN
    /\ Facts(db) \subseteq Lit /\ ToSet(db.queue) \subseteq DOMAIN db.ca
    /\ db.touched \subseteq Var /\ db.heap \subseteq Var /\ db.ok \in BOOLEAN
    /\ bwdsub_assigns \in 0..Len(db.trail)
    /\ eliminated \subseteq Var /\ frozen \subseteq Var
    /\ pc \in {"idle", "while", "bwd", "check", "elim", "search", "thaw"}

Reduced == {db.ca[cr].lits : cr \in Refs(db)} \cup {{l} : l \in Facts(db)}

\* Between any two steps the clauses that are left, and the facts, say of the variables
\* that are left what the formula says of them: eliminating, subsuming and strengthening
\* in any order, stopped anywhere, loses no solution and adds none.
ReducedIsProjection ==
    loaded = Len(formula) =>
        LET kept == Var \ eliminated
            on(a) == {l \in a : abs(l) \in kept}
            clauses == {c \in Reduced : VarsOf(c) \subseteq kept}
        IN  IF db.ok
            THEN {on(a) : a \in Models} =
                    {on(a) : a \in {b \in Assignments : \A c \in clauses : c \cap b # {}}}
            ELSE Models = {}

\* A clause that is left mentions no eliminated variable (the assertion in addClause_).
NoEliminatedOccurs ==
    \A cr \in Refs(db) : VarsOf(db.ca[cr].lits) \cap eliminated = {}

\* A model the search found is extended to one of the whole formula, whatever learnt
\* clauses made of the eliminated variables, and lies in the cube as far as its
\* variables were not eliminated; an UNSAT cube has no model.
AnswerIsRight ==
    /\ result = "SAT" /\ pc \in {"thaw", "idle"} =>
          model \in Models /\ {l \in cube : abs(l) \notin eliminated} \subseteq model
    /\ result = "UNSAT" => \A a \in Models : ~(cube \subseteq a)

\* The assertions of eliminate on a request to stop: queue, facts and touched clauses
\* are dealt with, wherever the request came in.
NothingLeftOver ==
    pc = "check" => db.queue = <<>> /\ bwdsub_assigns = Len(db.trail) /\ db.touched = {}

\* What the assertions of the simplifier say of its state holds, also in a second call that
\* goes on with what a stopped one left.
AssertionsHold == TypeOK /\ NoEliminatedOccurs /\ NothingLeftOver

\* An elimination that reinserts variables into the heap comes to an end.
SolveReturns == (pc # "idle") ~> (pc = "idle")

=============================================================================
