---------------------------- MODULE LatinEncoding ----------------------------
(***************************************************************************)
(* The generator of formulas (latin-square-generator): expressions,        *)
(* constraints and the encoders.  Operators only; LatinSquares puts them   *)
(* to use and states what is true of them.                                 *)
(*                                                                         *)
(* A literal is a nonzero integer, or True or False.  A clause is          *)
(* [lits, isImportant]; <<>> is the clause False, <<True>> the clause True.*)
(* An encoded formula is [clauses, net, next]: the conjuncts, the nodes of *)
(* the computational net, and the number of variables (varCounter).  A     *)
(* problem is [encoding, n, k, q, bs, cycle, order], from the command line *)
(* but for order, which shuffled() draws.                                  *)
(***************************************************************************)
EXTENDS Integers, Sequences, FiniteSets, SequencesExt

True == 1000000
False == -True
Fresh == 0      \* newVariable, before it is given its number
abs(l) == IF l < 0 THEN -l ELSE l
Only(S) == CHOOSE x \in S : TRUE
SumOf(s) == FoldSeq(LAMBDA x, y : x + y, 0, s)

\* F(lo), ..., F(hi), one after the other.
For(lo, hi, F(_)) ==
    LET f[a, b \in Int] ==
            IF b < a THEN <<>>
            ELSE IF a = b THEN F(a)
            ELSE f[a, (a + b) \div 2] \o f[(a + b) \div 2 + 1, b]
    IN  f[lo, hi]
Flatten(lists) == For(1, Len(lists), LAMBDA i : lists[i])
List(n, F(_)) == For(1, n, LAMBDA i : << F(i) >>)

-----------------------------------------------------------------------------
(* Expression.kt: not, or, and; lists *)

not(l) == -l
or(lits) ==
    IF True \in ToSet(lits) THEN <<True>> ELSE SelectSeq(lits, LAMBDA l : l # False)
and(cs) ==
    IF \E i \in DOMAIN cs : cs[i].lits = <<>>
    THEN << [lits |-> <<>>, isImportant |-> TRUE] >>
    ELSE SelectSeq(cs, LAMBDA c : c.lits # <<True>>)
Clause(lits, isImportant) == [lits |-> or(lits), isImportant |-> isImportant]
Unimportant(cs) == [i \in DOMAIN cs |-> [cs[i] EXCEPT !.isImportant = FALSE]]
\* CNF(and.args.distinct()): the first of equal conjuncts stays.
distinct(cs) ==
    LET first == SelectSeq([i \in DOMAIN cs |-> i],
                           LAMBDA i : \A j \in 1..(i - 1) : cs[j].lits # cs[i].lits)
    IN  List(Len(first), LAMBDA i : cs[first[i]])

transpose(m) == [i \in DOMAIN m[1] |-> [j \in DOMAIN m |-> m[j][i]]]
log2(i) == CHOOSE e \in 0..i : 2^e >= i /\ \A f \in 0..(e - 1) : 2^f < i

\* and(...) of literals, as the operand of iff.
Conjunction(lits) ==
    IF False \in ToSet(lits) THEN [op |-> "False", args |-> <<>>]
    ELSE LET args == SelectSeq(lits, LAMBDA l : l # True)
         IN  [op |-> IF args = <<>> THEN "True" ELSE "And", args |-> args]
equalLits(vector, value) ==
    [i \in DOMAIN vector |-> IF i = value THEN vector[i] ELSE not(vector[i])]
equal(vector, value) == Conjunction(equalLits(vector, value))
logEqual(vector, value) ==
    Conjunction([i \in DOMAIN vector |->
        IF (value \div 2^(i - 1)) % 2 = 1 THEN vector[i] ELSE not(vector[i])])

-----------------------------------------------------------------------------
(* common.kt: one-hot vectors, lines and the sequential counter *)

codeDistinct(v, isImportant) ==
    For(1, Len(v), LAMBDA i :
        For(i + 1, Len(v), LAMBDA j : << Clause(<<not(v[i]), not(v[j])>>, isImportant) >>))
codeAtLeastOne(v, isImportant) == << Clause(v, isImportant) >>
codeSufficient(m, isImportant) ==
    For(1, Len(m), LAMBDA i :
        codeAtLeastOne(m[i], isImportant) \o codeDistinct(m[i], isImportant))
\* Slip: a line says nothing of its values.
codeLineCells(m) == codeSufficient(m, FALSE)
\* Slip: the wrong half of the line is marked as not to compute.
codeLineSwapped(m) == codeSufficient(m, TRUE) \o codeSufficient(transpose(m), FALSE)
\* Code line such that there are no repeated numbers
codeLine(m) == codeSufficient(m, FALSE) \o codeSufficient(transpose(m), TRUE)

Node(tag, v, args) == [tag |-> tag, variable |-> v, args |-> args]

\* Slip: a counter that is full does not forbid the next false variable.
counterLimitNone(v, s) == <<>>
counterLimit(v, s) == << Clause(<<v, not(s)>>, TRUE) >>

\* At most k of v are false, counted in svars after the variable c.
greaterOrEqual(v, k, c) ==
    LET size == Len(v)
        s(i, j) == c + (i - 1) * k + j
        weak(lits) == << Clause(lits, FALSE) >>
        third(i) == counterLimit(v[i], s(i - 1, k))
        head == weak(<<v[1], s(1, 1)>>) \o For(2, k, LAMBDA j : weak(<<not(s(1, j))>>))
        middle(i) ==
            weak(<<v[i], s(i, 1)>>) \o weak(<<not(s(i - 1, 1)), s(i, 1)>>)
            \o For(2, k, LAMBDA j : weak(<<v[i], not(s(i - 1, j - 1)), s(i, j)>>)
                                    \o weak(<<not(s(i - 1, j)), s(i, j)>>))
            \o third(i)
        nodes(i) ==
            << Node("orIff", s(i, 1), <<not(v[i]), s(i - 1, 1)>>) >>
            \o For(2, k, LAMBDA j :
                << Node("or_and", s(i, j), << <<not(v[i]), s(i - 1, j - 1)>>, <<s(i - 1, j)>> >>) >>)
        bound(i) ==     \* the i-th expression for the incremental driver
            << <<v[size], not(s(size - 1, k - i))>> >>
            \o (IF i = 0 THEN <<>> ELSE << <<not(s(size - 1, k - i + 1))>> >>)
    IN  IF k = 0
        THEN [clauses |-> For(1, size, LAMBDA i : << Clause(<<v[i]>>, TRUE) >>),
              net |-> <<>>, next |-> c, bounds |-> <<>>]
        ELSE [clauses |-> head \o For(2, size - 1, middle) \o third(size),
              net |-> For(2, k, LAMBDA j : << Node("value", s(1, j), FALSE) >>)
                      \o << Node("andIff", s(1, 1), <<not(v[1])>>) >>
                      \o For(2, size - 1, nodes),
              next |-> c + (size - 1) * k,
              bounds |-> [i \in 1..k |-> bound(i - 1)]]

-----------------------------------------------------------------------------
(* latin.kt: matrices, Latin squares, orthogonality, symmetry *)

\* The matrices of literals, their variables numbered in order after c.
FreshOf(m) == {x \in (DOMAIN m) \X (DOMAIN m[1]) \X (DOMAIN m[1][1]) : m[x[1]][x[2]][x[3]] = Fresh}
Before(x, y) ==
    \E d \in 1..3 : x[d] < y[d] /\ \A e \in 1..(d - 1) : x[e] = y[e]
Numbered(m, c) ==
    Only({List(Len(m), LAMBDA i : List(Len(m[1]), LAMBDA j : List(Len(m[1][1]), LAMBDA k :
            IF m[i][j][k] # Fresh THEN m[i][j][k]
            ELSE c + 1 + Cardinality({x \in new : Before(x, <<i, j, k>>)})))) : new \in {FreshOf(m)}})
Matrix(n, m, q, Entry(_, _, _)) ==
    [i \in 1..n |-> [j \in 1..m |-> [k \in 1..q |-> Entry(i - 1, j - 1, k - 1)]]]
Constant(b) == IF b THEN True ELSE False
Bit(value, k) == Constant((value \div 2^k) % 2 = 1)

initMatrix(n, m, q) == Matrix(n, m, q, LAMBDA i, j, k : Fresh)
initReducedMatrix(n) ==
    Matrix(n, n, n, LAMBDA i, j, k :
        IF j = 0 THEN Constant(i = k)
        ELSE IF (i = 0 /\ j = k) \/ (i > 0 /\ i = k) THEN False ELSE Fresh)
initFirstReducedMatrix(n) ==
    Matrix(n, n, n, LAMBDA i, j, k :
        IF i = 0 THEN Constant(j = k)
        ELSE IF j = 0 THEN Constant(i = k)
        ELSE IF k \in {i, j} THEN False ELSE Fresh)
initReducedLogMatrix(n) ==
    Matrix(n, n, log2(n), LAMBDA i, j, k : IF j = 0 THEN Bit(i, k) ELSE Fresh)
initFirstReducedLogMatrix(n) ==
    Matrix(n, n, log2(n), LAMBDA i, j, k :
        IF i = 0 THEN Bit(j, k) ELSE IF j = 0 THEN Bit(i, k) ELSE Fresh)
initReducedArray(s, size, n) ==
    Matrix(s, size, n, LAMBDA i, j, k :
        IF i = 0 THEN Constant(k = j \div n) ELSE IF i = 1 THEN Constant(k = j % n) ELSE Fresh)

latin(square) ==
    and(For(1, Len(square), LAMBDA i : codeLine(square[i]))
        \o For(1, Len(square), LAMBDA j : codeSufficient(transpose(transpose(square)[j]), TRUE)))
\* No line says that a cell holds one value: the logarithmic encoding does.
logLatin(m) ==
    and(For(1, Len(m), LAMBDA i : codeSufficient(transpose(m[i]), TRUE))
        \o For(1, Len(m), LAMBDA j : codeSufficient(transpose(transpose(m)[j]), TRUE)))

iff(v, expr) ==
    LET args == expr.args
        both == [i \in DOMAIN args |-> Clause(IF expr.op = "And" THEN <<not(v), args[i]>>
                                              ELSE <<v, not(args[i])>>, TRUE)]
        back == IF expr.op = "And" THEN Append([i \in DOMAIN args |-> not(args[i])], v)
                ELSE Append(args, not(v))
    IN  CASE expr.op \in {"And", "Or"} ->
               [clauses |-> Append(both, Clause(back, TRUE)),
                node |-> Node(IF expr.op = "And" THEN "andIff" ELSE "orIff", v, args)]
          [] OTHER ->
               [clauses |-> << Clause(<<IF expr.op = "True" THEN v ELSE not(v)>>, TRUE) >>,
                node |-> Node("value", v, expr.op = "True")]
\* Slip: only one direction of each iff.
IffsForward(pairs) ==
    [clauses |-> For(1, Len(pairs), LAMBDA i : Front(iff(pairs[i].v, pairs[i].expr).clauses)),
     net |-> [i \in DOMAIN pairs |-> iff(pairs[i].v, pairs[i].expr).node]]
Iffs(pairs) ==   \* iff of each [v, expr]
    [clauses |-> For(1, Len(pairs), LAMBDA i : iff(pairs[i].v, pairs[i].expr).clauses),
     net |-> [i \in DOMAIN pairs |-> iff(pairs[i].v, pairs[i].expr).node]]

\* Pairs of values that a and b take together: at least q of them, counted in the order of
\* chis that shuffled() gave.  Pair(x, y, i) says that a and b have x and y at i.
pairwiseOrtho(size, n, q, order, c, Pair(_, _, _), isImportant) ==
    LET chi(x, y) == c + (x - 1) * n + y
        equalVars(x, y) == [i \in 1..size |-> c + n * n + ((x - 1) * n + y - 1) * size + i]
        phis(x, y) ==
            Iffs(Append([i \in 1..size |-> [v |-> equalVars(x, y)[i], expr |-> Pair(x, y, i)]],
                        [v |-> chi(x, y), expr |-> [op |-> "Or", args |-> equalVars(x, y)]]))
        defined(cs) == IF isImportant THEN cs ELSE Unimportant(cs)
        addend(x, y) == IF q = size THEN codeDistinct(equalVars(x, y), TRUE) ELSE <<>>
        chis == [m \in 1..(n * n) |-> c + order[m]]
        greater == greaterOrEqual(chis, n * n - q, c + n * n + n * n * size)
        EachPair(F(_, _)) == For(1, n, LAMBDA x : For(1, n, LAMBDA y : F(x, y)))
    IN  [clauses |-> and(EachPair(LAMBDA x, y : defined(phis(x, y).clauses) \o addend(x, y))
                         \o greater.clauses),
         net |-> EachPair(LAMBDA x, y : phis(x, y).net) \o greater.net,
         next |-> greater.next,
         counters |-> (c + n * n + n * n * size + 1)..greater.next]
orthogonal(a, b, q, order, c) ==
    pairwiseOrtho(Len(a), Len(b[1]), q, order, c,
        LAMBDA x, y, i : Conjunction(equalLits(a[i], x) \o equalLits(b[i], y)), FALSE)
logOrthogonal(a, b, q, c) ==
    pairwiseOrtho(Len(a), Len(b[1]), q, [m \in 1..(Len(b[1]) * Len(b[1])) |-> m], c,
        LAMBDA x, y, i : Conjunction(<<a[i][x], b[i][y]>>), TRUE)

\* Two cells of one row or one column are not compared: they differ in both squares already.
fullyOrthogonalSquare(a, b) ==
    LET n == Len(a)
        apart(i1, j1, i2, j2) ==
            For(1, n, LAMBDA k1 : For(1, n, LAMBDA k2 :
                << Clause(<<not(a[i1][j1][k1]), not(a[i2][j2][k1]),
                            not(b[i1][j1][k2]), not(b[i2][j2][k2])>>, TRUE) >>))
    IN  and(For(1, n, LAMBDA i1 : For(1, n, LAMBDA j1 :
            For(i1 + 1, n, LAMBDA i2 : For(1, n, LAMBDA j2 :
                IF j2 = j1 THEN <<>> ELSE apart(i1, j1, i2, j2))))))

fullOrQuasi(a, b, q, quasi, c) ==
    IF q # Len(a) * Len(a) THEN quasi
    ELSE [clauses |-> fullyOrthogonalSquare(a, b), net |-> <<>>, next |-> c, counters |-> {}]
orthogonalSquare(a, b, q, order, c) ==
    fullOrQuasi(a, b, q, Only({orthogonal(u, v, q, order, c) :
                                u \in {Flatten(a)}, v \in {Flatten(b)}}), c)
orthogonalLogSquare(a, b, q, c) ==
    fullOrQuasi(a, b, q, Only({logOrthogonal(u, v, q, c) :
                                u \in {Flatten(a)}, v \in {Flatten(b)}}), c)

\* The next list of cycle lengths after cur, of the same sum.
nextCycle(cur) ==
    LET value == cur[Len(cur) - 1] + 1
        rest == cur[Len(cur)] - 1
        copies == rest \div value - 1
    IN  SubSeq(cur, 1, Len(cur) - 2)
        \o (IF value > rest THEN <<value + rest>>
            ELSE [i \in 1..(copies + 1) |-> value] \o <<rest - copies * value>>)
RECURSIVE CyclesFrom(_)
CyclesFrom(cur) == <<cur>> \o (IF Len(cur) = 1 THEN <<>> ELSE CyclesFrom(nextCycle(cur)))
getCycles(n) ==
    CyclesFrom([i \in 1..(n \div 2) |-> IF n % 2 = 1 /\ i = n \div 2 THEN 3 ELSE 2])

\* Slip: the positions of a cycle stay where they are.
cyclePermutationStill(lengths, firstIndex) ==
    [i \in 1..SumOf(lengths) |-> firstIndex + i]
\* The permutation of the positions after firstIndex that has these cycles, each of consecutive
\* positions in order.
cyclePermutation(lengths, firstIndex) ==
    LET start(m) == firstIndex + SumOf(SubSeq(lengths, 1, m - 1))
    IN  For(1, Len(lengths), LAMBDA m :
            [i \in 1..lengths[m] |-> start(m) + 1 + (i % lengths[m])])
breakingSymmetry(row, firstIndex, cycle, c) ==
    LET cycles == getCycles(Len(row) - firstIndex)
        target(m) == cyclePermutation(cycles[m], firstIndex)
        eqExpr(m) == Conjunction(For(1, Len(row) - firstIndex, LAMBDA i :
                                        equalLits(row[firstIndex + i], target(m)[i])))
        phis == Iffs([m \in DOMAIN cycles |-> [v |-> c + m, expr |-> eqExpr(m)]])
    IN  [clauses |-> and(phis.clauses
                         \o << Clause([m \in DOMAIN cycles |-> c + m], TRUE) >>
                         \o (IF cycle = -1 THEN <<>> ELSE << Clause(<<c + cycle + 1>>, TRUE) >>)),
         net |-> phis.net, next |-> c + Len(cycles), counters |-> {}]

-----------------------------------------------------------------------------
(* The encoders *)

NoClauses(c) == [clauses |-> <<>>, net |-> <<>>, next |-> c, counters |-> {}]
IsLog(p) == p.encoding \in {"LATIN_LOG", "REDUCED_LATIN_LOG"}
IsArray(p) == p.encoding \in {"ARRAY", "REDUCED_ARRAY"}
Reduced(p) == p.encoding \in {"REDUCED_LATIN_ONEHOT", "REDUCED_LATIN_LOG", "REDUCED_ARRAY"}

Shapes(p) ==
    CASE p.encoding = "LATIN_ONEHOT" -> [t \in 1..p.k |-> initMatrix(p.n, p.n, p.n)]
      [] p.encoding = "LATIN_LOG" -> [t \in 1..p.k |-> initMatrix(p.n, p.n, log2(p.n))]
      [] p.encoding = "REDUCED_LATIN_ONEHOT" ->
            [t \in 1..p.k |-> IF t = 1 THEN initFirstReducedMatrix(p.n) ELSE initReducedMatrix(p.n)]
      [] p.encoding = "REDUCED_LATIN_LOG" ->
            [t \in 1..p.k |-> IF t = 1 THEN initFirstReducedLogMatrix(p.n)
                              ELSE initReducedLogMatrix(p.n)]
      [] p.encoding = "ARRAY" -> << initMatrix(p.k + 2, p.n * p.n, p.n) >>
      [] p.encoding = "REDUCED_ARRAY" -> << initReducedArray(p.k + 2, p.n * p.n, p.n) >>
AllNumbered(shapes, c) ==
    For(1, Len(shapes), LAMBDA t : <<
        Numbered(shapes[t], c + SumOf([u \in 1..(t - 1) |-> Cardinality(FreshOf(shapes[u]))])) >>)
coreVariables(p) == AllNumbered(Shapes(p), 0)
coreSize(core) ==
    Cardinality(UNION {UNION {UNION {ToSet(core[t][i][j]) : j \in DOMAIN core[t][1]} :
                                i \in DOMAIN core[t]} : t \in DOMAIN core} \ {True, False})

\* Encode(m, c) for each member m of a list, the variables of one after those of the other.
InTurn(list, Encode(_, _), c) ==
    LET f[m \in 0..Len(list)] ==
            IF m = 0 THEN NoClauses(c)
            ELSE Only({[clauses |-> sofar.clauses \o e.clauses, net |-> sofar.net \o e.net,
                        next |-> e.next, counters |-> sofar.counters \cup e.counters] :
                            <<sofar, e>> \in {<<d, Encode(list[m], d.next)>> : d \in {f[m - 1]}}})
    IN  f[Len(list)]
PairsOf(k) == For(1, k, LAMBDA i : For(i + 1, k, LAMBDA j : << <<i, j>> >>))

latinSquareCnf(p, core, size) ==
    LET lines == and(For(1, p.k, LAMBDA t : latin(core[t])))
        symmetry ==
            CASE Reduced(p) /\ p.bs = "FIRST" -> breakingSymmetry(core[1][2], 0, p.cycle, size)
              [] Reduced(p) /\ p.bs = "SECOND" -> breakingSymmetry(core[2][1], 1, p.cycle, size)
              [] OTHER -> NoClauses(size)
        ortho == InTurn(PairsOf(p.k), LAMBDA ij, c :
                     orthogonalSquare(core[ij[1]], core[ij[2]], p.q, p.order, c), symmetry.next)
        formula(l, s, o) ==
            [clauses |-> and(l \o s.clauses \o o.clauses),
             net |-> s.net \o o.net, next |-> o.next, counters |-> o.counters,
             \* with option "-w": n for the conjuncts of the squares, before distinct
             weights |-> List(Len(l), LAMBDA i : p.n)
                         \o List(Len(s.clauses) + Len(o.clauses), LAMBDA i : 1)]
    IN  Only({formula(l, s, o) : l \in {lines}, s \in {symmetry}, o \in {ortho}})
logLatinSquareCnf(p, core, size, ceitinVars) ==
    LET afterCeitin == size + p.k * p.n * p.n * p.n
        symmetry == IF Reduced(p) THEN breakingSymmetry(ceitinVars[1][2], 0, -1, afterCeitin)
                    ELSE NoClauses(afterCeitin)
        Cells(F(_, _, _, _)) ==
            For(1, p.k, LAMBDA t : For(1, p.n, LAMBDA i : For(1, p.n, LAMBDA j :
                For(1, p.n, LAMBDA v : << F(t, i, j, v) >>))))
        ceitinEq == Iffs(Cells(LAMBDA t, i, j, v :
                        [v |-> ceitinVars[t][i][j][v], expr |-> logEqual(core[t][i][j], v - 1)]))
        ortho == InTurn(PairsOf(p.k), LAMBDA ij, c :
                     orthogonalLogSquare(ceitinVars[ij[1]], ceitinVars[ij[2]], p.q, c),
                     symmetry.next)
    IN  [clauses |-> and(ceitinEq.clauses \o For(1, p.k, LAMBDA t : logLatin(ceitinVars[t]))
                         \o ortho.clauses \o symmetry.clauses),
         net |-> symmetry.net \o ceitinEq.net \o ortho.net,
         next |-> ortho.next, counters |-> ortho.counters]
orthogonalArrayCnf(p, core, size) ==
    LET rows == core[1]
        lines == For(1, Len(rows), LAMBDA i : codeSufficient(rows[i], TRUE))
        ortho == InTurn(PairsOf(p.k + 2), LAMBDA ij, c :
                     orthogonal(rows[ij[1]], rows[ij[2]], IF ij[1] <= 2 THEN p.n * p.n ELSE p.q,
                                p.order, c), size)
    IN  [clauses |-> and(lines \o ortho.clauses),
         net |-> ortho.net, next |-> ortho.next, counters |-> ortho.counters]
cnf(p) ==
    LET ceitin(size) == AllNumbered([t \in 1..p.k |-> initMatrix(p.n, p.n, p.n)], size)
        encoded(core, size) ==
            CASE IsLog(p) -> Only({logLatinSquareCnf(p, core, size, v) : v \in {ceitin(size)}})
              [] IsArray(p) -> orthogonalArrayCnf(p, core, size)
              [] OTHER -> latinSquareCnf(p, core, size)
        sized(core) == Only({encoded(core, size) : size \in {coreSize(core)}})
    IN  Only({[e EXCEPT !.clauses = distinct(@)] : e \in
                {sized(core) : core \in {coreVariables(p)}}})

\* The cells that are not constants, with the literals that say each of their values.
metaVarsIn(p, core) ==
    LET options(cell) ==
            For(1, p.n, LAMBDA v :
                IF equal(cell, v).op # "And" THEN <<>>
                ELSE << [value |-> v, lits |-> equal(cell, v).args] >>)
        meta == For(1, Len(core), LAMBDA t : For(1, Len(core[t]), LAMBDA i :
                    For(1, Len(core[t][1]), LAMBDA j :
                        << [matrix |-> t, row |-> i, column |-> j,
                            options |-> options(core[t][i][j])] >>)))
    IN  SelectSeq(meta, LAMBDA m : m.options # <<>>)
metaVars(p) == Only({metaVarsIn(p, core) : core \in {coreVariables(p)}})

=============================================================================
