---------------------------- MODULE LatinSquares ----------------------------
(***************************************************************************)
(* Encode, solve, decode: a formula of LatinEncoding is written, a solver  *)
(* answers it, and the parsers (latin-square-generator/parsers) read the   *)
(* squares back.                                                           *)
(***************************************************************************)
EXTENDS LatinEncoding

CONSTANTS
    Problems,       \* what is asked on the command line
    Candidates(_)   \* Candidates(core): answers the solver may give for the core variables

VARIABLES problem, formula, answer, squares, pc

vars == <<problem, formula, answer, squares, pc>>

\* An encoded formula, with its clauses as sets of literals and its nodes by variable.
NoFormula ==
    [core |-> <<>>, clauses |-> {}, skipped |-> {}, counting |-> {}, node |-> <<>>,
     cells |-> <<>>, next |-> 0, counters |-> {}]
Formula(core, e, cells) ==
    [core |-> core,
     clauses |-> {ToSet(e.clauses[i].lits) : i \in DOMAIN e.clauses},
     skipped |-> {ToSet(e.clauses[i].lits) :
                        i \in {j \in DOMAIN e.clauses : ~e.clauses[j].isImportant}},
     counting |-> {c \in {ToSet(e.clauses[i].lits) : i \in DOMAIN e.clauses} :
                        \E l \in c : abs(l) \in e.counters},
     node |-> [v \in {e.net[i].variable : i \in DOMAIN e.net} |->
                    e.net[CHOOSE i \in DOMAIN e.net : e.net[i].variable = v]],
     cells |-> cells, next |-> e.next, counters |-> e.counters]

\* The core variables that are true when each of these cells holds one of its values.
OneValueEach(cells) ==
    FoldSeq(LAMBDA meta, sets :
                {s \cup {l \in ToSet(meta.options[o].lits) : l > 0} :
                    s \in sets, o \in DOMAIN meta.options},
            {{}}, cells)

-----------------------------------------------------------------------------
(* The parsers *)

TrueIn(cell, model) ==
    {t \in DOMAIN cell : cell[t] = True \/ (cell[t] # False /\ cell[t] \in model)}
parseIntOneHot(cell, model) ==
    IF Cardinality(TrueIn(cell, model)) = 1 THEN Only(TrueIn(cell, model)) ELSE -1
parseIntLog(cell, model) ==
    SumOf([t \in DOMAIN cell |-> IF t \in TrueIn(cell, model) THEN 2^(t - 1) ELSE 0])
parseCell(p, cell, model) ==
    IF ~IsLog(p) THEN parseIntOneHot(cell, model)
    ELSE IF Reduced(p) /\ parseIntLog(cell, model) >= p.n THEN -1
    ELSE parseIntLog(cell, model) + 1
\* count: matrices of a square encoding, rows of an array.
construct(p, core, count, model) ==
    LET matrix(m, rows) == [i \in 1..rows |-> [j \in DOMAIN m[1] |-> parseCell(p, m[i][j], model)]]
    IN  IF IsArray(p) THEN << matrix(core[1], count) >>
        ELSE [t \in 1..count |-> matrix(core[t], p.n)]

-----------------------------------------------------------------------------
(* Encode, solve, decode *)

Satisfied(clauses, model) == \A c \in clauses : \E l \in c : IF l > 0 THEN l \in model ELSE -l \notin model

\* The variables of the formula that are true, given the core variables: those of the net by
\* their nodes.
NetValues(e, core) ==
    LET value[v \in 1..e.next] ==
            IF v \notin DOMAIN e.node THEN v \in core
            ELSE LET args == e.node[v].args
                     holds(l) == IF l > 0 THEN value[l] ELSE ~value[-l]
                 IN  CASE e.node[v].tag = "value" -> args
                       [] e.node[v].tag = "andIff" -> \A i \in DOMAIN args : holds(args[i])
                       [] e.node[v].tag = "orIff" -> \E i \in DOMAIN args : holds(args[i])
                       [] OTHER -> \E i \in DOMAIN args : \A j \in DOMAIN args[i] : holds(args[i][j])
    IN  {v \in 1..e.next : value[v]}

\* What a solver may answer: any counters, the other auxiliary variables as defined.
Answers(e) ==
    LET others == {v \in {NetValues(e, c) : c \in Candidates(e)} :
                        Satisfied(e.clauses \ e.counting, v)}
    IN  {m \in {(v \ e.counters) \cup S : v \in others, S \in SUBSET e.counters} :
            Satisfied(e.counting, m)}

Init ==
    /\ problem \in Problems
    /\ formula = NoFormula
    /\ answer = {}
    /\ squares = <<>>
    /\ pc = "asked"

Encode ==
    /\ pc = "asked"
    /\ \E core \in {coreVariables(problem)}, e \in {cnf(problem)}, cells \in {metaVars(problem)} :
            formula' = Formula(core, e, cells)
    /\ pc' = "encoded"
    /\ UNCHANGED <<problem, answer, squares>>

Solve ==
    /\ pc = "encoded"
    /\ answer' \in Answers(formula)
    /\ pc' = "solved"
    /\ UNCHANGED <<problem, formula, squares>>

\* The solver finds none among the candidates.
Unsat ==
    /\ pc = "encoded"
    /\ Answers(formula) = {}
    /\ pc' = "unsat"
    /\ UNCHANGED <<problem, formula, answer, squares>>

\* The number of matrices or rows to read is given on the command line again.
Decode ==
    /\ pc = "solved"
    /\ \E count \in IF IsArray(problem) THEN {problem.k, problem.k + 2} ELSE {problem.k} :
            squares' = construct(problem, formula.core, count, answer)
    /\ pc' = "decoded"
    /\ UNCHANGED <<problem, formula, answer>>

Next == Encode \/ Solve \/ Unsat \/ Decode

Spec == Init /\ [][Next]_vars

-----------------------------------------------------------------------------
(* Reference definitions *)

Perms(n) == {f \in [1..n -> 1..n] : \A i, j \in 1..n : i # j => f[i] # f[j]}
ColumnsDiffer(s) ==
    \A i, j \in DOMAIN s : i # j => \A c \in DOMAIN s[1] : s[i][c] # s[j][c]
IsLatin(s, n) == (\A i \in 1..n : s[i] \in Perms(n)) /\ ColumnsDiffer(s)
Squares(n) == {s \in UNION {[1..n -> P] : P \in {Perms(n)}} : ColumnsDiffer(s)}
SortedColumn(s) == \A i \in DOMAIN s : s[i][1] = i
SortedRow(s) == \A j \in DOMAIN s : s[1][j] = j
PairsTaken(a, b) ==
    Cardinality({<<a[i][j], b[i][j]>> : i \in DOMAIN a, j \in DOMAIN a[1]})
PairsInRows(r, s) == Cardinality({<<r[i], s[i]>> : i \in DOMAIN r})

InNormalForm(p, t, s) == Reduced(p) => SortedColumn(s) /\ (t = 1 => SortedRow(s))
Orthogonal(p, m) == \A i, j \in DOMAIN m : i < j => PairsTaken(m[i], m[j]) >= p.q
IsArraySolution(p, rows) ==
    /\ \A i, j \in DOMAIN rows : i < j =>
            PairsInRows(rows[i], rows[j]) >= (IF i <= 2 THEN p.n * p.n ELSE p.q)
    /\ Reduced(p) => \A m \in 1..(p.n * p.n) :
            /\ rows[1][m] = (m - 1) \div p.n + 1
            /\ Len(rows) > 1 => rows[2][m] = ((m - 1) % p.n) + 1
\* What the formula of p asks for, without its symmetry breaking.
Solutions(p) ==
    LET n == p.n
        tuples == UNION {[1..p.k -> S] : S \in {Squares(n)}}
        arrays == [1..(p.k + 2) -> [1..(n * n) -> 1..n]]
    IN  IF IsArray(p) THEN {<<rows>> : rows \in {r \in arrays : IsArraySolution(p, r)}}
        ELSE {m \in tuples : Orthogonal(p, m) /\ \A t \in 1..p.k : InNormalForm(p, t, m[t])}

\* The squares after renaming columns and values by pi, the rows and the values of the other
\* squares renamed so that first columns are sorted again.
Renamed(m, pi) ==
    LET n == Len(pi)
        back(j) == CHOOSE i \in 1..n : pi[i] = j
        row(x) == CHOOSE r \in 1..n : pi[m[1][r][back(1)]] = x
        moved(t, x, c) == m[t][row(x)][back(c)]
    IN  [t \in DOMAIN m |-> [x \in 1..n |-> [c \in 1..n |->
            IF t = 1 THEN pi[moved(1, x, c)]
            ELSE CHOOSE y \in 1..n : moved(t, y, 1) = moved(t, x, c)]]]

\* The core variables that say m, if the constants of the formula allow it.
CoreOf(p, core, m) ==
    LET bit(v, k) == IF IsLog(p) THEN ((v - 1) \div 2^(k - 1)) % 2 = 1 ELSE v = k
        entries == UNION {{<<core[t][i][j][k], bit(m[t][i][j], k)>> :
                                i \in DOMAIN core[t], j \in DOMAIN core[t][1],
                                k \in DOMAIN core[t][1][1]} : t \in DOMAIN core}
    IN  {{e[1] : e \in {d \in E : d[2] /\ d[1] # True}} :
            E \in {F \in {entries} : \A e \in F : e[1] \in {True, False} => (e[1] = True) = e[2]}}
Expressed(p, e, m) ==
    \E true \in CoreOf(p, e.core, m) : \E v \in {NetValues(e, true)} : Satisfied(e.clauses, v)

\* The cycle lengths that getCycles should list: all ways to write n as a sum of parts above 1.
CyclesOf(n) ==
    {s \in UNION {[1..l -> 2..n] : l \in 1..(n \div 2)} :
        SumOf(s) = n /\ \A i \in 1..(Len(s) - 1) : s[i] <= s[i + 1]}

-----------------------------------------------------------------------------
(* Properties *)

TypeOK ==
    /\ problem \in Problems
    /\ answer \subseteq 1..formula.next
    /\ \A t \in DOMAIN squares : \A i \in DOMAIN squares[t] : \A j \in DOMAIN squares[t][i] :
            squares[t][i][j] \in {-1} \cup 1..2^log2(problem.n)
    /\ pc \in {"asked", "encoded", "solved", "decoded", "unsat"}

\* What is decoded from a model is what was asked for: Latin squares (the assertions of
\* LogLatinParser) in the normal form of the reduced encodings, with at least q pairs of values
\* each two, counted by the sequential counter whatever the counter variables hold.
DecodedIsRight ==
    pc = "decoded" =>
        IF IsArray(problem) THEN IsArraySolution(problem, squares[1])
        ELSE /\ \A t \in DOMAIN squares :
                    IsLatin(squares[t], problem.n) /\ InNormalForm(problem, t, squares[t])
             /\ Orthogonal(problem, squares)

\* No solution is lost: the clauses admit each, or, where symmetries are broken, one that a
\* renaming of it gives; and UNSAT means there is none.
NoSquareLost ==
    /\ (pc = "encoded" /\ problem.cycle = -1) =>
            \A m \in Solutions(problem) :
                IF problem.bs = "NONE" THEN Expressed(problem, formula, m)
                ELSE \E pi \in Perms(problem.n) : Expressed(problem, formula, Renamed(m, pi))
    /\ pc = "unsat" => Solutions(problem) = {}

\* The solver cannot choose an auxiliary variable freely: in a model, flipping one that stands for
\* an expression (iff) breaks a clause.
AuxiliariesAreDefined ==
    pc = "solved" =>
        \A v \in DOMAIN formula.node \ formula.counters :
            ~Satisfied(formula.clauses,
                       IF v \in answer THEN answer \ {v} ELSE answer \cup {v})

\* The clauses that the local search does not look at (isImportant = false) hold of every choice
\* of one value per cell, once the net has computed the other variables.
SkippedClausesHold ==
    (pc = "encoded" /\ ~IsLog(problem) /\ ~IsArray(problem)) =>
        \A core \in OneValueEach(formula.cells) :
            Satisfied(formula.skipped, NetValues(formula, core))

\* The variables are 1..next, none skipped: the header counts them, and the solvers and the local
\* search size their tables by it.
NoVariableUnused ==
    pc = "encoded" => {abs(l) : l \in UNION formula.clauses} = 1..formula.next

\* The variables are numbered without a hole and each has a meaning that its clauses enforce.
VariablesAreDefined == TypeOK /\ AuxiliariesAreDefined /\ NoVariableUnused

\* The sequential counter is exact: counter variables that satisfy its clauses exist if and only
\* if at most k of the variables are false, and with the i-th expression of the incremental
\* driver if and only if at most k - i are.
CounterIsExact ==
    pc = "encoded" =>
        \A m \in 2..4, k \in 0..3 :
            LET g == greaterOrEqual([i \in 1..m |-> i], k, m)
                Sets(ls) == {ToSet(ls[i]) : i \in DOMAIN ls}
                clauses == {ToSet(g.clauses[i].lits) : i \in DOMAIN g.clauses}
            IN  k <= m => \A T \in SUBSET (1..m) :
                    LET counted == {T \cup S : S \in SUBSET ((m + 1)..g.next)}
                        models == {M \in counted : Satisfied(clauses, M)}
                    IN  /\ (models # {}) = (m - Cardinality(T) <= k)
                        /\ \A i \in 1..k : (\E M \in models : Satisfied(Sets(g.bounds[i]), M))
                                           = (m - Cardinality(T) <= k - (i - 1))

\* getCycles lists every cycle structure without fixed points, each once.
CyclesAreComplete ==
    pc = "encoded" =>
        \A n \in 2..9 : /\ ToSet(getCycles(n)) = CyclesOf(n)
                        /\ Len(getCycles(n)) = Cardinality(CyclesOf(n))

\* Every class of squares keeps a representative: the clauses admit one, and the cycle lists that
\* fix a part of it leave no structure out.
NothingIsLost == NoSquareLost /\ CyclesAreComplete

=============================================================================
