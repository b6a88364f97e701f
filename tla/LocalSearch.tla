----------------------------- MODULE LocalSearch -----------------------------
(***************************************************************************)
(* What the local search computes: the constructor of HillClimbingSolver   *)
(* with reduce, the moves of a round and the two predicates that choose    *)
(* among them, check_flipped, apply_flipped, and the net of the variables  *)
(* that follow from others (localsearch/solver, net, cnf, utils).          *)
(*                                                                         *)
(* The threads of a round are in HillClimbing; here a round is one step    *)
(* that collects the moves for which check_flipped says yes, and one that  *)
(* applies what the winners leave.  Literals are nonzero integers, indices *)
(* start at 1.  Counters are integers: the code's unsigned ones are only   *)
(* compared with 0, 1 or each other for equality, satisfiedSum excepted,   *)
(* which stays positive.                                                   *)
(***************************************************************************)
EXTENDS Integers, Sequences, FiniteSets, SequencesExt

CONSTANTS
    Inputs,    \* the runs of the program
    Read(_),   \* the files and the command line of a run:
               \*   clauses, weights, toCompute, metaVars, net, literalCount: what readDimacs reads
               \*   n, k: order and number of the squares
               \*   firsts: what readFirst may give, <<>> for no file
               \*   threads, bagSizeStart, bagSizeEnd
               \*   free: bound, the later meta-variables start with their first option
               \*   sorts: std::swap(flipped[last], flipped[--last]) has its left argument first
    MaxRounds  \* bound: moves applied when the formula has a net

VARIABLES
    input,        \* which of Inputs
    in,           \* Read(input)
    solver,       \* what reduce makes of it
    finalized,    \* the nodes of its net in the order of their depth
    propagated,   \* the values 0 and 1, 2 where there is none
    clauses_count_satisfied, satisfied, satisfiedSum, satisfiedCount, literal_to_unsat,
    metaValues,   \* the value of each cell <<matrix, row, column>>
    bagSize,
    improving,    \* the moves of this round for which check_flipped returned true
    raced,        \* two threads have both won a round
    rounds, pc

loaded == <<input, in, solver, finalized>>
counters == <<clauses_count_satisfied, satisfied, satisfiedSum, satisfiedCount, literal_to_unsat>>
vars == <<loaded, propagated, counters, metaValues, bagSize, improving, raced, rounds, pc>>

number(l) == IF l < 0 THEN -l ELSE l
value(l) == IF l > 0 THEN 1 ELSE 0
Xor(x, flip) == IF ~flip THEN x ELSE IF x % 2 = 0 THEN x + 1 ELSE x - 1
Sum(S, F(_)) == MapThenSumSet(F, S)
HasNet(f) == f.net # <<>>
The(S) == CHOOSE x \in S : TRUE
\* FoldLeft, with its intermediate results bound: TLC evaluates each once.
Fold(step(_, _), base, list) ==
    LET f[i \in 0..Len(list)] ==
            IF i = 0 THEN base ELSE The({step(sofar, list[i]) : sofar \in {f[i - 1]}})
    IN  f[Len(list)]

-----------------------------------------------------------------------------
(* reduce *)

\* Clauses that are not to compute are in no list of occurrences: nothing is removed from them.
Remaining(f, units, c) ==
    IF c \in f.toCompute THEN SelectSeq(f.clauses[c], LAMBDA l : -l \notin units)
    ELSE f.clauses[c]
\* The unit clauses, and those that become one.  (The passes of reduce end when no clause gets
\* shorter; the formulas of the encoders hold no two opposite units.)
unitPropagationCache(f) ==
    Fold(LAMBDA units, pass :
             units \cup {Remaining(f, units, c)[1] :
                             c \in {d \in DOMAIN f.clauses : Len(Remaining(f, units, d)) = 1}},
         {}, [pass \in 1..f.literalCount |-> pass])

reduceWith(f, units) ==
    LET unit(c) == {l \in units : l \in ToSet(f.clauses[c])}
        toDelete == {c \in f.toCompute : unit(c) # {}}
        clauses == [c \in DOMAIN f.clauses |->
                       IF c \in toDelete THEN <<CHOOSE l \in unit(c) : TRUE>> ELSE Remaining(f, units, c)]
        literals(m) == {number(l) : l \in ToSet(f.metaVars[m].options[1].lits)}
    IN  [clauses |-> clauses,
         units |-> units,
         metaVariables |-> [m \in DOMAIN f.metaVars |->
             [f.metaVars[m] EXCEPT !.options = SelectSeq(@, LAMBDA o :
                 \A l \in units : number(l) \in literals(m) => l \in ToSet(o.lits))]],
         literal_to_meta_variable |-> [v \in UNION {literals(m) : m \in DOMAIN f.metaVars} |->
             CHOOSE m \in DOMAIN f.metaVars : v \in literals(m)],
         literal_to_clause |-> [l \in (-f.literalCount)..f.literalCount |->
             {c \in f.toCompute \ toDelete : l \in ToSet(clauses[c])}]]
reduce(f) == The({reduceWith(f, units) : units \in {unitPropagationCache(f)}})

-----------------------------------------------------------------------------
(* Net, Node, Clause: what a node or a clause is once the literals in flipped are flipped *)

\* Which of the literals the scan of flipped finds: the position in flipped only moves forward.
Seen(lits, flipped) ==
    LET at[p \in 0..Len(lits)] ==
            IF p = 0 THEN 1
            ELSE LET from == at[p - 1]
                 IN  CHOOSE j \in from..(Len(flipped) + 1) :
                        /\ j <= Len(flipped) => flipped[j] >= number(lits[p])
                        /\ \A h \in from..(j - 1) : flipped[h] < number(lits[p])
    IN  [p \in DOMAIN lits |-> at[p] <= Len(flipped) /\ flipped[at[p]] = number(lits[p])]

propagate(lits, units, flipped) ==
    \E seen \in {Seen(lits, flipped)} :
        \E p \in DOMAIN lits : Xor(units[number(lits[p])], seen[p]) = value(lits[p])

\* A unit that has no value yet counts as true.
Truth(l, units, flip) == (Xor(units[number(l)], flip) # 0) = (l > 0)
propagateNode(node, units, flipped) ==
    LET args == node.args
        seen == The({Seen(args, flipped)})
        first(l) == flipped # <<>> /\ flipped[1] = number(l)
    IN  CASE node.tag = "value" -> args
          [] node.tag = "andIff" -> \A p \in DOMAIN args : Truth(args[p], units, seen[p])
          [] node.tag = "orIff" -> \E p \in DOMAIN args : Truth(args[p], units, seen[p])
          [] node.tag = "or_and" ->     \* looks at the first of flipped only
                \E g \in DOMAIN args : \A p \in DOMAIN args[g] : Truth(args[g][p], units, first(args[g][p]))
argsOf(node) ==
    CASE node.tag = "value" -> {}
      [] node.tag = "or_and" -> {number(l) : l \in UNION {ToSet(node.args[g]) : g \in DOMAIN node.args}}
      [] OTHER -> {number(l) : l \in ToSet(node.args)}

\* The nodes by depth; nodes of one depth do not depend on each other.
finalize(f) ==
    LET net == f.net
        of(v) == {x \in DOMAIN net : net[x].variable = v}
        depth[x \in DOMAIN net] ==
            IF net[x].tag = "value" THEN 0
            ELSE LET below == UNION {of(v) : v \in argsOf(net[x])}
                 IN  1 + Max({0} \cup {depth[y] : y \in below})
        at(d) == SelectSeq([x \in DOMAIN net |-> x], LAMBDA x : depth[x] = d)
        order == FlattenSeq([d \in 1..(Len(net) + 1) |-> at(d - 1)])
    IN  [x \in DOMAIN order |-> net[order[x]]]

clauses == solver.clauses
metaVariables == solver.metaVariables
\* Slip: the lists of the two literals of a variable are exchanged.
listedOpposite(l) == solver.literal_to_clause[-l]
listed(l) == solver.literal_to_clause[l]
Literals == 1..in.literalCount
Meta == DOMAIN metaVariables
options(m) == metaVariables[m].options
cell(m) == <<metaVariables[m].matrix, metaVariables[m].row, metaVariables[m].column>>

\* compute(units): the variables that have no value get one.
compute(units) ==
    Fold(LAMBDA u, node :
                 IF u[node.variable] # 2 THEN u
                 ELSE [u EXCEPT ![node.variable] = IF propagateNode(node, u, <<>>) THEN 1 ELSE 0],
             units, finalized)

\* push_back and the loop of swaps behind it: with the right argument of std::swap first it swaps
\* an element with itself.
insert(flipped, v) ==
    IF ~in.sorts THEN Append(flipped, v)
    ELSE LET p == Max({0} \cup {j \in DOMAIN flipped : flipped[j] <= v})
         IN  SubSeq(flipped, 1, p) \o <<v>> \o SubSeq(flipped, p + 1, Len(flipped))
\* compute(units, flipped): flipped with the variables of the net that change.
computeFlipped(units, flipped) ==
    Fold(LAMBDA s, node :
                 IF /\ argsOf(node) \cap s.changed # {}
                    /\ propagateNode(node, units, s.flipped) # (units[node.variable] = 1)
                 THEN [flipped |-> insert(s.flipped, node.variable), changed |-> s.changed \cup {node.variable}]
                 ELSE s,
             [flipped |-> flipped, changed |-> ToSet(flipped)], finalized).flipped

-----------------------------------------------------------------------------
(* The moves of a round *)

\* Slip: the smallest positions do not start again.
next_combinationKeep(c, size) ==
    LET movable == {i \in DOMAIN c : c[i] + 1 # IF i = Len(c) THEN size + 1 ELSE c[i + 1]}
    IN  IF movable = {} THEN <<>> ELSE [c EXCEPT ![Min(movable)] = @ + 1]
\* The combination after c, in the order of its largest member, <<>> after the last.
next_combination(c, size) ==
    LET movable == {i \in DOMAIN c : c[i] + 1 # IF i = Len(c) THEN size + 1 ELSE c[i + 1]}
        i == Min(movable)
    IN  IF movable = {} THEN <<>>
        ELSE [j \in 1..(i - 1) |-> j] \o <<c[i] + 1>> \o SubSeq(c, i + 1, Len(c))

\* The combinations that the do loop of solve visits, the first without a test.
CombinationsIncluding(size, bag, including) ==
    LET from[c \in Seq(Nat)] ==
            IF c = <<>> THEN <<>> ELSE
            (IF ToSet(c) \cap including # {} THEN <<c>> ELSE <<>>) \o from[next_combination(c, size)]
        start == [i \in 1..bag |-> IF i < bag THEN i ELSE Max({bag, Min(including)})]
    IN  <<start>> \o from[next_combination(start, size)]

\* The meta-variables of unsatisfied clauses; all of them if such a clause has another variable.
varsToChange ==
    LET unsat == {v \in Literals : literal_to_unsat[v] # 0}
        metaOf == solver.literal_to_meta_variable
    IN  IF unsat \subseteq DOMAIN metaOf THEN {metaOf[v] : v \in unsat} ELSE Meta

SameLine(a, b) ==
    IF a[1] = b[1] THEN a[2] = b[2] \/ a[3] = b[3] ELSE a[2] = b[2] /\ a[3] = b[3]
\* Each cell is the first that a later one meets on its line, or meets one itself.
satisfyPredicateForMetavars(c) ==
    LET meets(j) == {k \in 1..(j - 1) : SameLine(cell(c[j]), cell(c[k]))}
    IN  /\ \A j \in DOMAIN c : Len(options(c[j])) > 1
        /\ Len(c) > 1 => \A j \in DOMAIN c :
                meets(j) # {} \/ \E l \in DOMAIN c : meets(l) # {} /\ Min(meets(l)) = j

\* What the clauses of one line cost, if a value is x times in it.
LineCost(x) == (x * (x - 1)) \div 2 + (IF x = 0 THEN 1 ELSE 0)
Values == 1..in.n
\* newMetaValues of a move, written to metaValues.
Written(values, c, o) ==
    Fold(LAMBDA v, i : [v EXCEPT ![cell(c[i])] = options(c[i])[o[i]].value],
         values, [i \in DOMAIN c |-> i])
LinesDelta(c, new) ==
    LET line(x, d) == {y \in DOMAIN metaValues : y[1] = x[1] /\ y[d] = x[d]}
        touched == {line(cell(c[i]), d) : i \in DOMAIN c, d \in {2, 3}}
        cost(cells, l) == Sum(Values, LAMBDA v : LineCost(Cardinality({x \in l : cells[x] = v})))
    IN  Sum(touched, LAMBDA l : cost(new, l) - cost(metaValues, l))
\* How many more pairs of values no two cells of two squares hold.  A cell of the move is paired
\* with the old value of the other square, even if that is moved as well.
PairsDelta(c, new) ==
    LET squares == {st \in (1..in.k) \X (1..in.k) : st[1] < st[2]}
        at(st, x) == <<metaValues[<<st[1], x[2], x[3]>>], metaValues[<<st[2], x[2], x[3]>>]>>
        moves == {mv \in squares \X {cell(c[i]) : i \in DOMAIN c} : mv[2][1] \in {mv[1][1], mv[1][2]}}
        index(st) == st[1] + st[2]
        removed(mv) == <<index(mv[1]), at(mv[1], mv[2])>>
        added(mv) == <<index(mv[1]), [at(mv[1], mv[2]) EXCEPT ![IF mv[2][1] = mv[1][1] THEN 1 ELSE 2] = new[mv[2]]]>>
        times(e) == Cardinality({sx \in squares \X (Values \X Values) :
                                    <<index(sx[1]), at(sx[1], <<0>> \o sx[2])>> = e})
        Missing(x) == IF x <= 0 THEN 1 ELSE 0
    IN  Sum({removed(mv) : mv \in moves} \cup {added(mv) : mv \in moves}, LAMBDA e :
            Missing(times(e) + Cardinality({mv \in moves : added(mv) = e})
                             - Cardinality({mv \in moves : removed(mv) = e})) - Missing(times(e)))
satisfyPredicateForDomain(c, o) ==
    \E new \in {Written(metaValues, c, o)} : LinesDelta(c, new) + PairsDelta(c, new) <= 0

\* The literals that the move changes.
FlippedBy(c, o) ==
    FlattenSeq([i \in DOMAIN c |->
        LET changed == SelectSeq(options(c[i])[o[i]].lits, LAMBDA l : propagated[number(l)] # value(l))
        IN  [p \in DOMAIN changed |-> number(changed[p])]])

Satisfiable(flipped) ==
    UNION {listed(flipped[i]) \cup listed(-flipped[i]) : i \in DOMAIN flipped}
\* Slip: a move that loses as much as it wins is taken.
check_flippedSideways(flipped) ==
    Sum(Satisfiable(flipped), LAMBDA c :
        in.weights[c] * ((IF propagate(clauses[c], propagated, flipped) THEN 1 ELSE 0)
                         - (IF satisfied[c] THEN 1 ELSE 0))) >= 0
\* By how much the weight of the satisfied clauses rises; flipped as the net has extended it.
check_flipped(flipped) ==
    Sum(Satisfiable(flipped), LAMBDA c :
        in.weights[c] * ((IF propagate(clauses[c], propagated, flipped) THEN 1 ELSE 0)
                         - (IF satisfied[c] THEN 1 ELSE 0))) > 0

\* What the tasks try: each combination with each choice of values (nextArray).
Tried ==
    LET combinations == {c \in UNION {ToSet(CombinationsIncluding(Cardinality(Meta), bagSize, I)) :
                                            I \in {varsToChange}} : satisfyPredicateForMetavars(c)}
        choices(c) == {o \in [DOMAIN c -> 1..in.n] : \A i \in DOMAIN c : o[i] <= Len(options(c[i]))}
    IN  UNION {{[cells |-> c, options |-> o, flipped |-> computeFlipped(propagated, FlippedBy(c, o))] :
                    o \in {o \in choices(c) : satisfyPredicateForDomain(c, o)}} : c \in combinations}

-----------------------------------------------------------------------------
(* The constructor *)

\* The values once each meta-variable m has its option chosen[m], and what first says of the core.
InitialValues(chosen, first) ==
    LET given == solver.units
        known(set, v) == IF v \in set THEN 1 ELSE IF -v \in set THEN 0 ELSE 2
        values(literals) ==
            [v \in Literals |->
                IF v \in DOMAIN first THEN first[v]
                ELSE IF known(literals, v) # 2 THEN known(literals, v) ELSE known(given, v)]
    IN  The({values(literals) :
                literals \in {UNION {ToSet(options(m)[chosen[m]].lits) : m \in Meta}}})
\* Cells that are no meta-variables are constants of the reduced squares.
constant(x) == IF x[3] = 1 THEN x[2] ELSE IF x[1] = 1 /\ x[2] = 1 THEN x[3] ELSE 0
\* The last variable of a cell that the start file says is true decides, by the first option
\* it occurs in.
InitialMetaValues(chosen, first) ==
    LET naming(m) == {v \in DOMAIN first : first[v] = 1
                          /\ \E o \in DOMAIN options(m) : v \in ToSet(options(m)[o].lits)}
        named(m) == {o \in DOMAIN options(m) : Max(naming(m)) \in ToSet(options(m)[o].lits)}
        option(m) == IF naming(m) = {} THEN chosen[m] ELSE Min(named(m))
    IN  [x \in (1..in.k) \X Values \X Values |->
            IF \E m \in Meta : cell(m) = x
            THEN LET m == CHOOSE m \in Meta : cell(m) = x IN options(m)[option(m)].value
            ELSE constant(x)]

\* Clause::propagate and propagateSat: how many literals of the clause hold.
Holding(c, units) == Cardinality({l \in ToSet(c) : units[number(l)] = value(l)})
Broken(units) == {c \in in.toCompute : Holding(clauses[c], units) = 0}
WeightOf(S) == Sum(S, LAMBDA c : in.weights[c])

Init ==
    /\ input \in Inputs
    /\ in = <<>> /\ solver = <<>> /\ finalized = <<>>
    /\ propagated = <<>> /\ metaValues = <<>>
    /\ clauses_count_satisfied = <<>> /\ satisfied = <<>> /\ literal_to_unsat = <<>>
    /\ satisfiedSum = 0 /\ satisfiedCount = 0
    /\ bagSize = 1
    /\ improving = {} /\ raced = FALSE /\ rounds = 0
    /\ pc = "load"

Load ==
    /\ pc = "load"
    /\ \E f \in {Read(input)} :
            /\ in' = f
            /\ solver' = reduce(f)
            /\ finalized' = finalize(f)
            /\ bagSize' = f.bagSizeStart
    /\ pc' = "construct"
    /\ UNCHANGED <<input, propagated, counters, metaValues, improving, raced, rounds>>

\* An option for each meta-variable, at random.
Chosen ==
    {[m \in Meta |-> IF m <= in.free THEN c[m] ELSE 1] :
        c \in {d \in [1..in.free -> Values] : \A m \in 1..in.free : d[m] <= Len(options(m))}}

Construct ==
    /\ pc = "construct"
    /\ \E chosen \in Chosen, first \in in.firsts :
        \E units \in {compute(InitialValues(chosen, first))} :
            /\ propagated' = units
            /\ metaValues' = InitialMetaValues(chosen, first)
            /\ clauses_count_satisfied' = [c \in DOMAIN clauses |-> Holding(clauses[c], units)]
            /\ satisfied' = [c \in DOMAIN clauses |-> c \notin Broken(units)]
            /\ satisfiedSum' = WeightOf(DOMAIN clauses \ Broken(units))
            /\ satisfiedCount' = Cardinality(DOMAIN clauses \ Broken(units))
            /\ literal_to_unsat' = [v \in Literals |->
                    Cardinality({c \in Broken(units) : {v, -v} \cap ToSet(clauses[c]) # {}})]
    /\ pc' = "head"
    /\ UNCHANGED <<loaded, bagSize, improving, raced, rounds>>

-----------------------------------------------------------------------------
(* solve *)

\* Slip: counted are all clauses, compared is the number of those to compute.
AllSatToCompute == satisfiedCount >= Cardinality(in.toCompute)
AllSat == satisfiedCount = Len(clauses)
GoesOn == ~AllSat /\ (HasNet(in) => rounds < MaxRounds)

\* The tasks of the round: check_flipped on everything they try.
Search ==
    /\ pc = "head"
    /\ GoesOn
    /\ improving' = {m \in Tried : check_flipped(m.flipped)}
    /\ pc' = "found"
    /\ UNCHANGED <<loaded, propagated, counters, metaValues, bagSize, raced, rounds>>

\* Net::compute reads literal_to_nodes behind its end, for a variable above all arguments.  It may
\* find no nodes there, or worse.
SearchOutOfRange ==
    /\ pc = "head"
    /\ GoesOn
    /\ HasNet(in)
    /\ LET highest == Max(UNION {argsOf(in.net[x]) : x \in DOMAIN in.net})
       IN  \E m \in Tried : \E v \in ToSet(m.flipped) : v > highest
    /\ pc' = "crashed"
    /\ UNCHANGED <<loaded, propagated, counters, metaValues, bagSize, improving, raced, rounds>>

\* One literal of flipped after the other; units has all of them flipped.
FlipOne(units, s, v) ==
    LET to_add == IF units[v] = 1 THEN listed(v) ELSE listed(-v)
        to_sub == IF units[v] = 1 THEN listed(-v) ELSE listed(v)
        delta == [c \in DOMAIN s.count |-> s.count[c] + (IF c \in to_add THEN 1 ELSE 0)
                                                      - (IF c \in to_sub THEN 1 ELSE 0)]
        with(S, w) == Cardinality({c \in S : {w, -w} \cap ToSet(clauses[c]) # {}})
        updated(lost, won) ==
            [count |-> delta,
             unsat |-> [w \in Literals |-> s.unsat[w] + with(lost, w) - with(won, w)],
             satisfied |-> [c \in DOMAIN s.satisfied |->
                 IF c \in lost \cup won THEN ~s.satisfied[c] ELSE s.satisfied[c]],
             sum |-> s.sum + WeightOf(won) - WeightOf(lost),
             number |-> s.number + Cardinality(won) - Cardinality(lost)]
    IN  The({updated(lost, won) : lost \in {{c \in to_sub : delta[c] = 0}},
                                  won \in {{c \in to_add : delta[c] = 1}}})
\* The net extends flipped, which check_flipped has extended before: a variable of the net that is
\* in it twice is flipped back.
apply_flipped(solution) ==
    \E flipped \in {computeFlipped(propagated, solution)} :
        LET times(v) == Cardinality({i \in DOMAIN flipped : flipped[i] = v})
            units == [v \in Literals |-> Xor(propagated[v], times(v) % 2 = 1)]
            s0 == [count |-> clauses_count_satisfied, unsat |-> literal_to_unsat, satisfied |-> satisfied,
                   sum |-> satisfiedSum, number |-> satisfiedCount]
        IN  \E s \in {Fold(LAMBDA t, v : FlipOne(units, t, v), s0, flipped)} :
                /\ propagated' = units
                /\ clauses_count_satisfied' = s.count
                /\ literal_to_unsat' = s.unsat
                /\ satisfied' = s.satisfied
                /\ satisfiedSum' = s.sum
                /\ satisfiedCount' = s.number

\* The search goes on after a round, unless it is stopped by a signal.
HeadOrStopped == \E stopped \in BOOLEAN : pc' = IF stopped THEN "end" ELSE "head"

\* The move of the last winner is applied.  A thread that won before it has left its values in
\* newMetaValues, from other combinations.
Climb ==
    /\ pc = "found"
    /\ \E last \in improving :
        \E before \in {last} \cup {m \in improving : in.threads > 1 /\ m.cells # last.cells} :
            /\ apply_flipped(last.flipped)
            /\ metaValues' = Written(Written(metaValues, before.cells, before.options), last.cells, last.options)
            /\ raced' = (raced \/ before # last)
    /\ improving' = {}
    /\ rounds' = IF HasNet(in) THEN rounds + 1 ELSE rounds
    /\ HeadOrStopped
    /\ UNCHANGED <<loaded, bagSize>>

\* Nothing was found: more meta-variables at once, up to bagSizeEnd.
Widen ==
    /\ pc = "found"
    /\ improving = {}
    /\ bagSize < in.bagSizeEnd
    /\ bagSize' = bagSize + 1
    /\ HeadOrStopped
    /\ UNCHANGED <<loaded, propagated, counters, metaValues, improving, raced, rounds>>

GiveUp ==
    /\ pc = "found"
    /\ improving = {}
    /\ bagSize = in.bagSizeEnd
    /\ pc' = "stuck"
    /\ UNCHANGED <<loaded, propagated, counters, metaValues, bagSize, improving, raced, rounds>>

\* The signal comes before a task looks at an improving move.
Stopped ==
    /\ pc = "found"
    /\ improving' = {}
    /\ pc' = "end"
    /\ UNCHANGED <<loaded, propagated, counters, metaValues, bagSize, raced, rounds>>

AllSatisfied ==
    /\ pc = "head"
    /\ AllSat
    /\ pc' = "solved"
    /\ UNCHANGED <<loaded, propagated, counters, metaValues, bagSize, improving, raced, rounds>>

Step == Construct \/ Search \/ Climb \/ Widen \/ GiveUp \/ AllSatisfied
Next == Load \/ Step \/ SearchOutOfRange \/ Stopped
Spec == Init /\ [][Next]_vars

-----------------------------------------------------------------------------
(* Properties *)

HoldsNow(c) == \E l \in ToSet(c) : (propagated[number(l)] = 1) = (l > 0)
Running == pc \notin {"load", "construct"}

\* The range of the variables; a variable has no value 2 left once the net is computed.
TypeOK ==
    /\ input \in Inputs
    /\ pc \in {"load", "construct", "head", "found", "stuck", "solved", "end", "crashed"}
    /\ raced \in BOOLEAN /\ rounds \in 0..MaxRounds
    /\ Running => /\ bagSize \in in.bagSizeStart..in.bagSizeEnd
                  /\ propagated \in [Literals -> {0, 1}]
                  /\ metaValues \in [(1..in.k) \X Values \X Values -> Values]
                  /\ DOMAIN satisfied = DOMAIN clauses

\* Without a net the counters that moves update are what a look at all clauses gives: the literals
\* that hold in each clause to compute, the satisfied clauses, their number and weight, and how
\* many unsatisfied clauses a variable is in.
CountersAreRight ==
    (Running /\ ~HasNet(in)) =>
        \E broken \in {Broken(propagated)} :
            /\ \A c \in in.toCompute : clauses_count_satisfied[c] = Holding(clauses[c], propagated)
            /\ \A c \in DOMAIN clauses : satisfied[c] = (c \notin broken)
            /\ satisfiedCount = Len(clauses) - Cardinality(broken)
            /\ satisfiedSum = WeightOf(DOMAIN clauses \ broken)
            /\ \A v \in Literals : literal_to_unsat[v] =
                    Cardinality({c \in broken : {v, -v} \cap ToSet(clauses[c]) # {}})

\* Without a net a move is worth what check_flipped said: the weight of the satisfied clauses rises
\* whichever of the winners is applied.
MovesRaiseTheWeight ==
    [][(pc = "found" /\ ~HasNet(in) /\ propagated' # propagated) => satisfiedSum' > satisfiedSum]_vars

\* Without a net, if the search ends with all clauses counted as satisfied, the assignment is a
\* model of the formula that was read: of the clauses that reduce cut or dropped and of those
\* that are never looked at, too.
SolvedIsModel ==
    (pc = "solved" /\ ~HasNet(in)) =>
        \A c \in DOMAIN in.clauses : HoldsNow(in.clauses[c])

\* metaValues, by which moves are dropped untried, says what the assignment says, as long as no
\* two threads have won one round.
MetaValuesAgree ==
    (Running /\ ~raced) =>
        \A m \in Meta : \E o \in DOMAIN options(m) :
            /\ options(m)[o].value = metaValues[cell(m)]
            /\ \A l \in ToSet(options(m)[o].lits) : propagated[number(l)] = value(l)

\* What moves update step by step agrees with what the assignment says.
StateAgrees == TypeOK /\ CountersAreRight /\ MetaValuesAgree

\* One square: when the search is stuck, no other values of up to bagSize cells that are on one
\* line satisfy clauses of more weight.  The combinations that are skipped and the moves that the
\* predicates drop would not have helped.
StuckIsLocalOptimum ==
    (pc = "stuck" /\ in.k = 1 /\ ~HasNet(in) /\ ~raced) =>
        \A a, b \in Meta : \A o \in DOMAIN options(a), p \in DOMAIN options(b) :
            LET units == [v \in Literals |->
                    IF v \in ToSet(options(a)[o].lits) \/ (a # b /\ v \in ToSet(options(b)[p].lits)) THEN 1
                    ELSE IF -v \in ToSet(options(a)[o].lits) \/ (a # b /\ -v \in ToSet(options(b)[p].lits)) THEN 0
                    ELSE propagated[v]]
            IN  (a = b \/ (bagSize = 2 /\ SameLine(cell(a), cell(b)))) =>
                    WeightOf(DOMAIN clauses \ Broken(units)) <= satisfiedSum

\* The loop visits each combination of bagSize meta-variables that holds one of a set, once.
CombinationsAreComplete ==
    pc = "load" =>
        \A size \in 1..5 : \A bag \in 1..Min({size, 3}), including \in SUBSET (1..size) \ {{}} :
            \E visited \in {CombinationsIncluding(size, bag, including)} :
                /\ IsInjective(visited)
                /\ {ToSet(visited[i]) : i \in DOMAIN visited} =
                        {S \in SUBSET (1..size) : Cardinality(S) = bag /\ S \cap including # {}}

\* Before the first move the variables of the net have the values of their definitions: the
\* clauses that are never looked at hold.
NetIsComputed ==
    (pc = "head" /\ rounds = 0) =>
        \A c \in DOMAIN in.clauses \ in.toCompute : HoldsNow(in.clauses[c])

\* Clauses the search does not look at, since they were reduced, dropped or left to the net, hold.
UnseenClausesHold == SolvedIsModel /\ NetIsComputed

=============================================================================
