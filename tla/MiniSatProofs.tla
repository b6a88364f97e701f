---------------------------- MODULE MiniSatProofs ----------------------------
(***************************************************************************)
(* The inductive invariant IInv of MiniSat for every number of variables   *)
(* and every problem, that each action preserves it, and what follows of   *)
(* what the runs check.                                                    *)
(*                                                                         *)
(* The state is described by places on the trail: a literal of the clause  *)
(* at hand is false because its negation stands at some place, and a level *)
(* is the part of the trail behind an entry of trail_lim.                  *)
(*                                                                         *)
(* What an action does to the trail is a move: the trail is cut behind     *)
(* place m, the levels behind d, and a level, a literal or both follow.    *)
(* The lemmas on moves are shared by all actions; those on clauses and     *)
(* watches are one for adding, one for removing clauses and one for each   *)
(* way a watcher is visited.                                               *)
(***************************************************************************)
EXTENDS MiniSat, ListTheorems, FiniteSetTheorems, FunctionTheorems, TLAPS

-----------------------------------------------------------------------------
(* The invariant *)

Location == {"idle", "import", "clauses", "propagate", "conflict", "learn", "noconflict",
             "reduce", "decide", "model"}

\* Place n of the trail is of level 0.
AtRoot(n) == decisionLevel > 0 => n <= trail_lim[1]

\* No variable twice; levels follow each other.
TrailInv ==
    /\ trail \in Seq(Lit)
    /\ \A i, j \in 1..Len(trail) : abs(trail[i]) = abs(trail[j]) => i = j
    /\ trail_lim \in Seq(Nat)
    /\ \A k \in 1..Len(trail_lim) : trail_lim[k] <= Len(trail)
    /\ \A j, k \in 1..Len(trail_lim) : j <= k => trail_lim[j] <= trail_lim[k]
    /\ qhead \in 1..(Len(trail) + 1)
    /\ reason \in [Var -> CRef \cup {Undef}]

\* Where the thread is, against the level and the queue of facts.
ControlInv ==
    /\ problem \in Problems /\ loaded \in 0..Len(problem.formula)
    /\ ok \in BOOLEAN /\ interrupted \in BOOLEAN /\ w \in Nat
    /\ pc \in Location /\ result \in {"none", "searching", "SAT", "UNSAT", "UNKNOWN"}
    /\ assumptions \in Seq(Lit)
    /\ searching => ok /\ loaded = Len(problem.formula)
    /\ pc \notin {"idle", "propagate"} => searching
    /\ pc = "idle" => ~searching
    /\ pc = "propagate" => ok
    /\ ~searching \/ pc \in {"import", "clauses"} => trail_lim = <<>>
    /\ pc \in {"noconflict", "reduce", "decide", "model"} => qhead = Len(trail) + 1
    /\ w # 0 => pc = "propagate" /\ qhead >= 2
    /\ Len(trail_lim) > 0 => trail_lim[Len(trail_lim)] < (IF w = 0 THEN qhead ELSE qhead - 1)
    /\ pc = "model" => Len(trail) = NVars /\ Len(trail_lim) >= Len(assumptions)

ArenaInv ==
    /\ ca \in [CRef -> [lits : Seq(Lit), origin : {"none", "formula", "learnt", "imported"}]]
    /\ \A cr \in CRef : ca[cr] # NoClause =>
          Len(ca[cr].lits) >= 2 /\ NoRepeat(ca[cr].lits) /\ ca[cr].origin # "none"

\* Every clause is in the lists of its first two literals, once, and in no other.
WatchInv ==
    /\ watches \in [Lit -> Seq([cref : CRef, blocker : Lit])]
    /\ \A l \in Lit : \A n \in 1..Len(watches[l]) :
          /\ ca[watches[l][n].cref] # NoClause
          /\ -l \in {ca[watches[l][n].cref].lits[1], ca[watches[l][n].cref].lits[2]}
    /\ \A l \in Lit : \A m, n \in 1..Len(watches[l]) :
          watches[l][m].cref = watches[l][n].cref => m = n
    /\ \A cr \in CRef : ca[cr] # NoClause => \A i \in {1, 2} :
          \E n \in 1..Len(watches[-ca[cr].lits[i]]) : watches[-ca[cr].lits[i]][n].cref = cr

\* A blocker is a literal of the clause, or was trimmed from it.
Blocks(x) ==
    \/ x.blocker \in Set(ca[x.cref].lits)
    \/ \E m \in 1..Len(trail) : trail[m] = -x.blocker /\ AtRoot(m)

BlockerInv == \A l \in Lit : \A n \in 1..Len(watches[l]) : Blocks(watches[l][n])

\* What implied a fact is a clause with it in front and the rest false before.
ReasonInv ==
    \A n \in 1..Len(trail) : reason[abs(trail[n])] # Undef =>
        LET c == ca[reason[abs(trail[n])]]
        IN  /\ c # NoClause /\ c.lits[1] = trail[n]
            /\ \A k \in 2..Len(c.lits) : \E m \in 1..(n - 1) : trail[m] = -c.lits[k]

\* What nothing implied above level 0 opens a level, and the first levels are
\* those of the assumptions.
DecisionInv ==
    \A n \in 1..Len(trail) : reason[abs(trail[n])] = Undef /\ ~AtRoot(n) =>
        \E k \in 1..Len(trail_lim) :
            n = trail_lim[k] + 1 /\ (k <= Len(assumptions) => trail[n] = assumptions[k])

\* Each of the first levels has made its assumption true.
AssumeInv ==
    \A k \in 1..Len(trail_lim) : k <= Len(assumptions) =>
        \E n \in 1..Len(trail) :
            /\ trail[n] = assumptions[k] /\ n <= trail_lim[k] + 1
            /\ k < Len(trail_lim) => n <= trail_lim[k + 1]

\* Clauses and facts of level 0 follow from the formula.
ImpliedInv ==
    /\ \A cr \in CRef : ca[cr] # NoClause => Implied(Set(ca[cr].lits))
    /\ \A n \in 1..Len(trail) : AtRoot(n) => Implied({trail[n]})

\* A clause is satisfied, and stays so as long as what is at place n of the trail stays.
Guarded(c, n) ==
    \E m \in 1..Len(trail) :
        /\ trail[m] \in Set(c)
        /\ \A k \in 1..Len(trail_lim) : n <= trail_lim[k] => m <= trail_lim[k]

\* The watchers of clause cr have been visited for the fact at place n.  A
\* conflict leaves the rest of the current level behind.
Visited(cr, n) ==
    /\ n < qhead
    /\ w # 0 /\ n = qhead - 1 =>
          \A i \in 1..Len(watches[trail[n]]) : watches[trail[n]][i].cref = cr => i < w
    /\ pc \in {"conflict", "learn"} =>
          Len(trail_lim) > 0 /\ n <= trail_lim[Len(trail_lim)]

\* Of clause cr, a false watch that has been visited leaves it satisfied.
Settled(cr) ==
    \A i \in {1, 2} : \A n \in 1..Len(trail) :
        trail[n] = -ca[cr].lits[i] /\ Visited(cr, n) => Guarded(ca[cr].lits, n)

\* Imported clauses are excepted.
PropagatedInv ==
    ok => \A cr \in CRef : ca[cr].origin \in {"formula", "learnt"} => Settled(cr)

\* Clause n of the formula is held, or holds anyway.
Covered(n) ==
    \/ \E l \in Set(problem.formula[n]) : -l \in Set(problem.formula[n])
    \/ \E m \in 1..Len(trail) : trail[m] \in Set(problem.formula[n]) /\ AtRoot(m)
    \/ \E cr \in CRef :
          ca[cr].origin = "formula" /\ Set(ca[cr].lits) \subseteq Set(problem.formula[n])

LoadedInv == ok => \A n \in 1..loaded : Covered(n)

\* The clause in conflict is false, and above level 0 by the current level.
ConflictInv ==
    pc = "conflict" =>
        /\ confl \in CRef /\ ca[confl] # NoClause
        /\ \A k \in 1..Len(ca[confl].lits) : \E n \in 1..Len(trail) : trail[n] = -ca[confl].lits[k]
        /\ Len(trail_lim) > 0 =>
              \E k \in 1..Len(ca[confl].lits), n \in 1..Len(trail) :
                  trail[n] = -ca[confl].lits[k] /\ trail_lim[Len(trail_lim)] < n

\* c is false, by its first literal alone on the current level; none of the others
\* is of a higher level than the second.
Asserting(c) ==
    /\ Len(trail_lim) > 0
    /\ c \in Seq(Lit) /\ Len(c) > 0 /\ NoRepeat(c)
    /\ Implied(Set(c))
    /\ \E n \in 1..Len(trail) : trail[n] = -c[1] /\ trail_lim[Len(trail_lim)] < n
    /\ \A k \in 2..Len(c) : \E n \in 1..Len(trail) :
          trail[n] = -c[k] /\ ~AtRoot(n) /\ n <= trail_lim[Len(trail_lim)]
    /\ \A k \in 2..Len(c), m, n \in 1..Len(trail) :
          trail[m] = -c[2] /\ trail[n] = -c[k] =>
              \A j \in 1..Len(trail_lim) : m <= trail_lim[j] => n <= trail_lim[j]

\* The clause that is learned.
LearnInv == pc = "learn" => Asserting(learnt_clause)

\* The answers.
VerdictInv ==
    /\ ~ok => Models = {}
    /\ result = "UNSAT" =>
          /\ \A a \in Models : \E n \in DOMAIN assumptions : ~Holds(a, assumptions[n])
          /\ conflict \subseteq {-l : l \in Set(assumptions)}
          /\ Implied(conflict)

IInv ==
    /\ TrailInv /\ ControlInv /\ ArenaInv /\ WatchInv /\ BlockerInv
    /\ ReasonInv /\ DecisionInv /\ AssumeInv /\ ImpliedInv
    /\ PropagatedInv /\ LoadedInv /\ ConflictInv /\ LearnInv /\ VerdictInv

-----------------------------------------------------------------------------
(* Literals and clauses *)

\* Literals are integers other than 0, in pairs of a variable.
LEMMA LitFacts ==
    /\ NVars \in Nat /\ MaxCRef \in Nat /\ Undef \notin CRef
    /\ \A l \in Lit : l \in Int /\ -l \in Lit /\ l # 0 /\ -(-l) = l /\ l # -l /\ abs(l) \in Var
    /\ \A l, m \in Lit : abs(l) = abs(m) <=> l = m \/ l = -m
<1>1. NVars \in Nat /\ MaxCRef \in Nat
  BY MiniSatAssumption
<1>2. Undef \notin CRef
  BY <1>1 DEF Undef, CRef
<1>3. \A l \in Lit : l \in Int /\ -l \in Lit /\ l # 0 /\ -(-l) = l /\ l # -l
  BY <1>1 DEF Lit, Var
<1>4. \A l \in Lit : abs(l) \in Var
  BY <1>1 DEF Lit, Var, abs
<1>5. \A l, m \in Lit : abs(l) = abs(m) <=> l = m \/ l = -m
  BY <1>3 DEF abs
<1> QED
  BY <1>1, <1>2, <1>3, <1>4, <1>5

\* There are finitely many.
LEMMA LitFinite == IsFiniteSet(Lit)
<1>1. NVars \in Nat /\ -NVars \in Int
  BY LitFacts
<1>2. Lit \subseteq (-NVars)..NVars
  BY <1>1 DEF Lit, Var
<1>3. PICK lo \in Int, hi \in Int : lo = -NVars /\ hi = NVars
  BY <1>1
<1>4. IsFiniteSet(lo..hi)
  BY FS_Interval
<1> QED
  BY <1>2, <1>3, <1>4, FS_Subset

\* An assignment makes one of a literal and its negation hold.
LEMMA HoldsNot ==
    ASSUME NEW a \in Assignments, NEW l \in Lit
    PROVE  Holds(a, -l) <=> ~Holds(a, l)
<1>1. l \in Int /\ l # 0 /\ NVars \in Nat
  BY LitFacts
<1>2. CASE l > 0
  <2>1. ~(-l > 0) /\ -(-l) = l
    BY <1>1, <1>2
  <2> QED
    BY <1>2, <2>1 DEF Holds
<1>3. CASE ~(l > 0)
  <2>1. -l > 0
    BY <1>1, <1>3
  <2> QED
    BY <1>3, <2>1 DEF Holds
<1> QED
  BY <1>2, <1>3

\* The elements of a sequence.
LEMMA SetOf ==
    ASSUME NEW S, NEW q \in Seq(S)
    PROVE  /\ Set(q) \subseteq S
           /\ \A n \in 1..Len(q) : q[n] \in S /\ q[n] \in Set(q)
           /\ \A x \in Set(q) : \E n \in 1..Len(q) : q[n] = x
           /\ DOMAIN q = 1..Len(q) /\ Len(q) \in Nat
  BY DEF Set

\* Assignments that satisfy the formula.
LEMMA ModelFacts ==
    ASSUME problem \in Problems
    PROVE  /\ Models \subseteq Assignments
           /\ Models = {a \in Assignments :
                  \A n \in 1..Len(problem.formula) : Satisfies(a, Set(problem.formula[n]))}
<1>1. problem.formula \in Seq(Seq(Lit))
  BY ProblemsAssumption
<1>2. DOMAIN problem.formula = 1..Len(problem.formula)
  BY <1>1
<1> QED
  BY <1>2 DEF Models, ModelsOf

\* Sorting lists every element once.
LEMMA SortedSet ==
    ASSUME NEW S, NEW key, Keyed(S, key)
    PROVE  /\ Sorted(S, key) \in Seq(S) /\ Len(Sorted(S, key)) = Cardinality(S)
           /\ NoRepeat(Sorted(S, key)) /\ Set(Sorted(S, key)) = S
<1>1. /\ Sorted(S, key) \in Seq(S) /\ Len(Sorted(S, key)) = Cardinality(S)
      /\ NoRepeat(Sorted(S, key)) /\ ToSet(Sorted(S, key)) = S
  BY SortedOf
<1> QED
  BY <1>1 DEF Set, ToSet

\* The place of one element.
LEMMA SortedPlace ==
    ASSUME NEW S, NEW key, Keyed(S, key), NEW x \in S
    PROVE  /\ Cardinality(Below(x, S, key)) + 1 \in 1..Len(Sorted(S, key))
           /\ Sorted(S, key)[Cardinality(Below(x, S, key)) + 1] = x
  BY SortedOf

\* Places of a sequence, sorted.
LEMMA PlacesOf ==
    ASSUME NEW I, IsFiniteSet(I), \A i \in I : i \in Nat /\ i >= 1, NEW key, \A i \in I : key[i] = i
    PROVE  /\ Sorted(I, key) \in Seq(I) /\ Len(Sorted(I, key)) = Cardinality(I)
           /\ NoRepeat(Sorted(I, key)) /\ Set(Sorted(I, key)) = I
           /\ 1 \in I => 1 \in 1..Len(Sorted(I, key)) /\ Sorted(I, key)[1] = 1
           /\ 1 \in I /\ 2 \in I => 2 \in 1..Len(Sorted(I, key)) /\ Sorted(I, key)[2] = 2
<1>1. Keyed(I, key)
  BY DEF Keyed
<1>3. /\ Sorted(I, key) \in Seq(I) /\ Len(Sorted(I, key)) = Cardinality(I)
      /\ NoRepeat(Sorted(I, key)) /\ Set(Sorted(I, key)) = I
  BY <1>1, SortedSet
<1>a. ASSUME NEW x \in I
      PROVE  /\ Cardinality(Below(x, I, key)) + 1 \in 1..Len(Sorted(I, key))
             /\ Sorted(I, key)[Cardinality(Below(x, I, key)) + 1] = x
  BY <1>1, SortedPlace
<1>4. ASSUME 1 \in I PROVE 1 \in 1..Len(Sorted(I, key)) /\ Sorted(I, key)[1] = 1
  <2>1. \A y \in I : ~(key[y] < key[1])
    BY <1>4
  <2>2. Below(1, I, key) = {}
    BY <2>1 DEF Below
  <2>3. Cardinality(Below(1, I, key)) + 1 = 1
    BY <2>2, FS_EmptySet
  <2>4. /\ Cardinality(Below(1, I, key)) + 1 \in 1..Len(Sorted(I, key))
        /\ Sorted(I, key)[Cardinality(Below(1, I, key)) + 1] = 1
    BY <1>4, <1>a
  <2> QED
    BY <2>3, <2>4
<1>5. ASSUME 1 \in I, 2 \in I PROVE 2 \in 1..Len(Sorted(I, key)) /\ Sorted(I, key)[2] = 2
  <2>1. \A y \in I : key[y] < key[2] <=> y = 1
    BY <1>5
  <2>2. Below(2, I, key) = {1}
    BY <1>5, <2>1 DEF Below
  <2>3. Cardinality(Below(2, I, key)) + 1 = 2
    <3>1. Cardinality({1}) = 1
      BY FS_Singleton
    <3> QED
      BY <2>2, <3>1
  <2>4. /\ Cardinality(Below(2, I, key)) + 1 \in 1..Len(Sorted(I, key))
        /\ Sorted(I, key)[Cardinality(Below(2, I, key)) + 1] = 2
    BY <1>5, <1>a
  <2> QED
    BY <2>3, <2>4
<1> QED
  BY <1>3, <1>4, <1>5

\* What is left of a sequence, element by element.
LEMMA AmongOf ==
    ASSUME NEW T, NEW q \in Seq(T), NEW I \in SUBSET (1..Len(q))
    PROVE  /\ Among(q, I) \in Seq(T) /\ Len(Among(q, I)) = Cardinality(I)
           /\ \E at \in [1..Len(Among(q, I)) -> I] :
                /\ \A n \in 1..Len(Among(q, I)) : Among(q, I)[n] = q[at[n]]
                /\ \A m, n \in 1..Len(Among(q, I)) : at[m] = at[n] => m = n
                /\ \A i \in I : \E n \in 1..Len(Among(q, I)) : at[n] = i
                /\ 1 \in I => 1 \in 1..Len(Among(q, I)) /\ at[1] = 1
                /\ 1 \in I /\ 2 \in I => 2 \in 1..Len(Among(q, I)) /\ at[2] = 2
<1>1. IsFiniteSet(I) /\ (\A i \in I : i \in Nat /\ i >= 1) /\ (\A i \in I : q[i] \in T)
  <2>1. Len(q) \in Nat /\ IsFiniteSet(1..Len(q))
    BY FS_Interval
  <2>2. IsFiniteSet(I)
    BY <2>1, FS_Subset
  <2>3. \A i \in 1..Len(q) : i \in Nat /\ i >= 1 /\ q[i] \in T
    BY <2>1
  <2> QED
    BY <2>2, <2>3
<1>2. PICK n \in Nat : n = Cardinality(I)
  BY <1>1, FS_CardinalityType
<1>3. PICK key : key = [i \in I |-> i]
  OBVIOUS
<1>4. PICK at : at = Sorted(I, key)
  OBVIOUS
<1>5. PICK r : r = Among(q, I)
  OBVIOUS
<1>6. /\ at \in Seq(I) /\ Len(at) = n /\ NoRepeat(at) /\ Set(at) = I
      /\ 1 \in I => 1 \in 1..n /\ at[1] = 1
      /\ 1 \in I /\ 2 \in I => 2 \in 1..n /\ at[2] = 2
  <2>1. \A i \in I : key[i] = i
    BY <1>3
  <2> QED
    BY <1>1, <1>2, <2>1, <1>4, PlacesOf, Zenon
<1>7. at \in [1..n -> I] /\ \A k \in 1..n : at[k] \in I
  BY <1>6
<1>8. r = [k \in 1..n |-> q[at[k]]]
  BY <1>2, <1>3, <1>4, <1>5 DEF Among
<1>9. r \in Seq(T) /\ Len(r) = n /\ \A k \in 1..n : r[k] = q[at[k]]
  <2>1. \A k \in 1..n : q[at[k]] \in T
    BY <1>1, <1>7
  <2>2. r \in [1..n -> T]
    BY <1>8, <2>1
  <2> QED
    BY <1>2, <1>8, <2>2, SeqDef
<1>10. \A i, j \in 1..n : at[i] = at[j] => i = j
  BY <1>6 DEF NoRepeat
<1>11. \A i \in I : \E k \in 1..n : at[k] = i
  BY <1>6, SetOf
<1>12. \E f \in [1..n -> I] :
                /\ \A k \in 1..n : r[k] = q[f[k]]
                /\ \A i, j \in 1..n : f[i] = f[j] => i = j
                /\ \A i \in I : \E k \in 1..n : f[k] = i
                /\ 1 \in I => 1 \in 1..n /\ f[1] = 1
                /\ 1 \in I /\ 2 \in I => 2 \in 1..n /\ f[2] = 2
  BY <1>6, <1>7, <1>9, <1>10, <1>11
<1> QED
  BY <1>2, <1>5, <1>9, <1>12, SMTT(40)

\* RemoveAt, element by element.
LEMMA RemoveAtElements ==
    ASSUME NEW S, NEW q \in Seq(S), NEW i \in 1..Len(q)
    PROVE  /\ RemoveAt(q, i) \in Seq(S) /\ Len(RemoveAt(q, i)) = Len(q) - 1
           /\ \A n \in 1..(Len(q) - 1) : RemoveAt(q, i)[n] = IF n < i THEN q[n] ELSE q[n + 1]
<1> DEFINE a == SubSeq(q, 1, i - 1)
           b == SubSeq(q, i + 1, Len(q))
<1>1. Len(q) \in Nat /\ i \in Nat /\ 1 <= i /\ i <= Len(q) /\ \A k \in 1..Len(q) : q[k] \in S
  OBVIOUS
<1>2. a \in Seq(S) /\ Len(a) = i - 1 /\ \A k \in 1..(i - 1) : a[k] = q[k]
  BY <1>1
<1>3. b \in Seq(S) /\ Len(b) = Len(q) - i /\ \A k \in 1..(Len(q) - i) : b[k] = q[i + k]
  BY <1>1
<1>4. RemoveAt(q, i) = a \o b
  BY DEF RemoveAt
<1> HIDE DEF a, b
<1>5. a \o b \in Seq(S) /\ Len(a \o b) = Len(a) + Len(b)
  BY <1>2, <1>3, ConcatProperties
<1>6. ASSUME NEW n \in 1..(Len(q) - 1)
      PROVE  (a \o b)[n] = IF n < i THEN q[n] ELSE q[n + 1]
  <2>1. CASE n < i
    <3>1. n \in 1..Len(a) /\ n \in 1..(i - 1)
      BY <1>1, <1>2, <2>1
    <3>2. (a \o b)[n] = a[n]
      BY <1>2, <1>3, <3>1
    <3> QED
      BY <1>2, <2>1, <3>1, <3>2
  <2>2. CASE ~(n < i)
    <3>1. n - Len(a) \in 1..Len(b) /\ n - Len(a) \in 1..(Len(q) - i) /\ i + (n - Len(a)) = n + 1
      BY <1>1, <1>2, <1>3, <2>2
    <3>2. n > Len(a) /\ n \in 1..(Len(a) + Len(b))
      BY <1>1, <1>2, <1>3, <2>2
    <3>3. (a \o b)[n] = b[n - Len(a)]
      BY <1>2, <1>3, <3>1, <3>2
    <3> QED
      BY <1>3, <2>2, <3>1, <3>3
  <2> QED
    BY <2>1, <2>2
<1>7. Len(a \o b) = Len(q) - 1
  BY <1>1, <1>2, <1>3, <1>5
<1> QED
  BY <1>4, <1>5, <1>6, <1>7, Zenon

\* Append and SubSeq, element by element.
LEMMA AppendElements ==
    ASSUME NEW S, NEW q \in Seq(S), NEW e \in S
    PROVE  /\ Append(q, e) \in Seq(S) /\ Len(Append(q, e)) = Len(q) + 1 /\ Len(q) \in Nat
           /\ \A n \in 1..Len(q) : Append(q, e)[n] = q[n]
           /\ Append(q, e)[Len(q) + 1] = e
  OBVIOUS

\* The elements of a prefix.
LEMMA PrefixElements ==
    ASSUME NEW S, NEW q \in Seq(S), NEW k \in 0..Len(q)
    PROVE  /\ SubSeq(q, 1, k) \in Seq(S) /\ Len(SubSeq(q, 1, k)) = k
           /\ \A n \in 1..k : SubSeq(q, 1, k)[n] = q[n]
  OBVIOUS

-----------------------------------------------------------------------------
(* The trail *)

\* What TrailInv says of a place.
LEMMA TrailFacts ==
    ASSUME TrailInv
    PROVE  /\ Len(trail) \in Nat /\ Len(trail_lim) \in Nat /\ decisionLevel = Len(trail_lim)
           /\ \A n \in 1..Len(trail) : trail[n] \in Lit /\ -trail[n] \in Lit /\ abs(trail[n]) \in Var
           /\ \A k \in 1..Len(trail_lim) : trail_lim[k] \in Nat /\ trail_lim[k] <= Len(trail)
           /\ \A l : True(l) <=> \E n \in 1..Len(trail) : trail[n] = l
           /\ \A l : False(l) <=> \E n \in 1..Len(trail) : trail[n] = -l
           /\ \A m, n \in 1..Len(trail) : trail[m] = trail[n] \/ trail[m] = -trail[n] => m = n
<1>1. /\ trail \in Seq(Lit) /\ trail_lim \in Seq(Nat)
      /\ \A k \in 1..Len(trail_lim) : trail_lim[k] <= Len(trail)
      /\ \A i, j \in 1..Len(trail) : abs(trail[i]) = abs(trail[j]) => i = j
  BY DEF TrailInv
<1>2. \A n \in 1..Len(trail) : trail[n] \in Lit
  BY <1>1
<1>3. \A n \in 1..Len(trail) : -trail[n] \in Lit /\ abs(trail[n]) \in Var
  BY <1>2, LitFacts
<1>4. \A k \in 1..Len(trail_lim) : trail_lim[k] \in Nat
  BY <1>1
<1>5. \A l : l \in Set(trail) <=> \E n \in 1..Len(trail) : trail[n] = l
  BY <1>1, SetOf
<1>6. \A m, n \in 1..Len(trail) : trail[m] = trail[n] \/ trail[m] = -trail[n] => m = n
  BY <1>1, <1>2, LitFacts
<1> QED
  BY <1>1, <1>2, <1>3, <1>4, <1>5, <1>6 DEF True, False, decisionLevel

\* The place of a literal whose variable has a value.
LEMMA PositionIs ==
    ASSUME TrailInv, NEW n \in 1..Len(trail), NEW l, l = trail[n] \/ l = -trail[n]
    PROVE  Position(l) = n
<1>1. trail \in Seq(Lit) /\ \A i, j \in 1..Len(trail) : abs(trail[i]) = abs(trail[j]) => i = j
  BY DEF TrailInv
<1>2. trail[n] \in Lit
  BY TrailFacts
<1>3. abs(l) = abs(trail[n])
  BY <1>2, LitFacts
<1>4. DOMAIN trail = 1..Len(trail)
  BY <1>1
<1>5. \A m \in DOMAIN trail : abs(trail[m]) = abs(l) <=> m = n
  BY <1>1, <1>3, <1>4
<1> QED
  BY <1>4, <1>5 DEF Position

\* The level of a place: the entries of trail_lim before it.
LEMMA LevelOf ==
    ASSUME TrailInv, NEW n \in Nat
    PROVE  \E j \in 0..Len(trail_lim) :
               /\ Cardinality({k \in DOMAIN trail_lim : trail_lim[k] < n}) = j
               /\ \A k \in 1..Len(trail_lim) : k <= j <=> trail_lim[k] < n
<1>1. /\ trail_lim \in Seq(Nat) /\ Len(trail_lim) \in Nat /\ DOMAIN trail_lim = 1..Len(trail_lim)
      /\ \A k \in 1..Len(trail_lim) : trail_lim[k] \in Nat
      /\ \A j, k \in 1..Len(trail_lim) : j <= k => trail_lim[j] <= trail_lim[k]
  BY DEF TrailInv
<1> DEFINE K == {k \in 1..Len(trail_lim) : ~(trail_lim[k] < n)}
<1>2. \E j \in 0..Len(trail_lim) : \A k \in 1..Len(trail_lim) : k <= j <=> trail_lim[k] < n
  <2>1. CASE K = {}
    <3>1. \A k \in 1..Len(trail_lim) : k <= Len(trail_lim) <=> trail_lim[k] < n
      BY <1>1, <2>1
    <3>2. Len(trail_lim) \in 0..Len(trail_lim)
      BY <1>1
    <3> QED
      BY <3>1, <3>2, Zenon
  <2>2. CASE K # {}
    <3>1. K \subseteq Nat
      BY <1>1
    <3>2. PICK x \in K : \A y \in K : x <= y
      BY <2>2, <3>1, LeastElement
    <3>3. x \in 1..Len(trail_lim) /\ ~(trail_lim[x] < n)
      BY <3>2
    <3>4. x - 1 \in 0..Len(trail_lim)
      BY <1>1, <3>3
    <3>5. ASSUME NEW k \in 1..Len(trail_lim) PROVE k <= x - 1 <=> trail_lim[k] < n
      <4>1. CASE k <= x - 1
        <5>1. ~(x <= k)
          BY <1>1, <3>3, <4>1
        <5>2. k \notin K
          BY <3>2, <5>1
        <5> QED
          BY <4>1, <5>2
      <4>2. CASE ~(k <= x - 1)
        <5>1. x <= k
          BY <1>1, <3>3, <4>2
        <5>2. trail_lim[x] <= trail_lim[k] /\ trail_lim[x] \in Nat /\ trail_lim[k] \in Nat
          BY <1>1, <3>3, <5>1
        <5> QED
          BY <3>3, <4>2, <5>2
      <4> QED
        BY <4>1, <4>2
    <3> QED
      BY <3>4, <3>5
  <2> QED
    BY <2>1, <2>2
<1>3. PICK j \in 0..Len(trail_lim) : \A k \in 1..Len(trail_lim) : k <= j <=> trail_lim[k] < n
  BY <1>2
<1>4. {k \in DOMAIN trail_lim : trail_lim[k] < n} = 1..j
  BY <1>1, <1>3
<1>5. j \in Nat /\ Cardinality(1..j) = j
  BY <1>1, FS_Interval
<1> QED
  BY <1>3, <1>4, <1>5

\* The level of a literal whose variable has a value.
LEMMA LevelIs ==
    ASSUME TrailInv, NEW n \in 1..Len(trail), NEW l, l = trail[n] \/ l = -trail[n]
    PROVE  /\ level(l) \in 0..Len(trail_lim)
           /\ \A k \in 1..Len(trail_lim) : k <= level(l) <=> trail_lim[k] < n
           /\ level(l) = 0 <=> AtRoot(n)
           /\ level(l) >= Len(trail_lim) <=>
                 (Len(trail_lim) > 0 => trail_lim[Len(trail_lim)] < n)
<1>1. n \in Nat /\ Len(trail_lim) \in Nat /\ \A k \in 1..Len(trail_lim) : trail_lim[k] \in Nat
  BY TrailFacts
<1>2. level(l) = Cardinality({k \in DOMAIN trail_lim : trail_lim[k] < n})
  BY PositionIs DEF level
<1>3. /\ level(l) \in 0..Len(trail_lim)
      /\ \A k \in 1..Len(trail_lim) : k <= level(l) <=> trail_lim[k] < n
  BY <1>1, <1>2, LevelOf
<1>4. level(l) = 0 <=> AtRoot(n)
  <2>1. CASE Len(trail_lim) = 0
    BY <1>3, <2>1 DEF AtRoot, decisionLevel
  <2>2. CASE Len(trail_lim) > 0
    <3>1. 1 \in 1..Len(trail_lim) /\ (1 <= level(l) <=> trail_lim[1] < n) /\ trail_lim[1] \in Nat
      BY <1>1, <1>3, <2>2
    <3> QED
      BY <1>1, <1>3, <2>2, <3>1 DEF AtRoot, decisionLevel
  <2> QED
    BY <1>1, <2>1, <2>2
<1>5. level(l) >= Len(trail_lim) <=> (Len(trail_lim) > 0 => trail_lim[Len(trail_lim)] < n)
  <2>1. CASE Len(trail_lim) = 0
    BY <1>3, <2>1
  <2>2. CASE Len(trail_lim) > 0
    <3>1. /\ Len(trail_lim) \in 1..Len(trail_lim)
          /\ Len(trail_lim) <= level(l) <=> trail_lim[Len(trail_lim)] < n
      BY <1>1, <1>3, <2>2
    <3> QED
      BY <1>1, <1>3, <2>2, <3>1
  <2> QED
    BY <1>1, <2>1, <2>2
<1> QED
  BY <1>3, <1>4, <1>5

-----------------------------------------------------------------------------
(* Conflict analysis *)

\* One step of the resolution.
ResolveAt(n, R) ==
    IF -trail[n] \in R /\ Open(R)
    THEN (R \ {-trail[n]}) \cup AboveZero(Parents(reason[abs(trail[n])]))
    ELSE R

\* ResolvedTo is what its equation says.
LEMMA ResolvedToIs ==
    ASSUME TrailInv
    PROVE  /\ ResolvedTo[Len(trail)] = AboveZero(Set(ca[confl].lits))
           /\ \A n \in 1..Len(trail) : ResolvedTo[n - 1] = ResolveAt(n, ResolvedTo[n])
<1> DEFINE L == Len(trail)
           U == Set(ca[confl].lits) \cup UNION {Parents(reason[abs(trail[n])]) : n \in 1..L}
           T == SUBSET U
           t0 == AboveZero(Set(ca[confl].lits))
           step == [k \in 1..L |-> [R \in T |-> ResolveAt(L + 1 - k, R)]]
           Eq(g) == g = [n \in 0..L |->
                         IF n = L THEN t0
                         ELSE IF -trail[n + 1] \in g[n + 1] /\ Open(g[n + 1])
                              THEN (g[n + 1] \ {-trail[n + 1]}) \cup AboveZero(Parents(reason[abs(trail[n + 1])]))
                              ELSE g[n + 1]]
<1>1. L \in Nat
  BY TrailFacts
<1>2. t0 \in T
  BY DEF AboveZero
<1>3. ASSUME NEW n \in 1..L, NEW R \in T PROVE ResolveAt(n, R) \in T
  <2>1. AboveZero(Parents(reason[abs(trail[n])])) \subseteq Parents(reason[abs(trail[n])])
    BY DEF AboveZero
  <2>2. Parents(reason[abs(trail[n])]) \subseteq U
    OBVIOUS
  <2> QED
    BY <2>1, <2>2 DEF ResolveAt
<1> HIDE DEF t0, T
<1>4. step \in [1..L -> [T -> T]]
  <2>1. ASSUME NEW k \in 1..L, NEW R \in T PROVE ResolveAt(L + 1 - k, R) \in T
    <3>1. L + 1 - k \in 1..L
      BY <1>1
    <3> QED
      BY <1>3, <3>1
  <2> QED
    BY <2>1
<1>a. \E f : Chain(f, L, T, t0, step)
  <2> HIDE DEF step, L
  <2> QED
    BY <1>1, <1>2, <1>4, Recursion
<1>5. PICK f \in [0..L -> T] : f[0] = t0 /\ \A k \in 1..L : f[k] = step[k][f[k - 1]]
  <2> HIDE DEF step, L
  <2> QED
    BY <1>a DEF Chain
<1> DEFINE h == [n \in 0..L |-> f[L - n]]
<1>6. h[L] = t0
  BY <1>1, <1>5
<1>7. ASSUME NEW n \in 0..L, n # L PROVE h[n] = ResolveAt(n + 1, h[n + 1])
  <2>1. /\ L - n \in 1..L /\ n + 1 \in 0..L /\ L - n \in 0..L /\ (L - n) - 1 \in 0..L
        /\ (L - n) - 1 = L - (n + 1) /\ L + 1 - (L - n) = n + 1
    BY <1>1, <1>7
  <2>2. h[n] = f[L - n] /\ h[n + 1] = f[(L - n) - 1]
    BY <2>1
  <2>3. f[(L - n) - 1] \in T
    BY <1>5, <2>1
  <2>4. f[L - n] = step[L - n][f[(L - n) - 1]]
    BY <1>5, <2>1
  <2>5. step[L - n][f[(L - n) - 1]] = ResolveAt(L + 1 - (L - n), f[(L - n) - 1])
    BY <2>1, <2>3
  <2> QED
    BY <2>1, <2>2, <2>4, <2>5
<1>8. \E g : Eq(g)
  <2> DEFINE e == [n \in 0..L |->
                         IF n = L THEN t0
                         ELSE IF -trail[n + 1] \in h[n + 1] /\ Open(h[n + 1])
                              THEN (h[n + 1] \ {-trail[n + 1]}) \cup AboveZero(Parents(reason[abs(trail[n + 1])]))
                              ELSE h[n + 1]]
  <2>1. h = [n \in 0..L |-> h[n]]
    OBVIOUS
  <2> HIDE DEF h
  <2>2. \A n \in 0..L : h[n] = e[n]
    BY <1>6, <1>7 DEF ResolveAt
  <2>3. e = [n \in 0..L |-> e[n]]
    OBVIOUS
  <2> HIDE DEF e
  <2>4. h = e
    BY <2>1, <2>2, <2>3
  <2> QED
    BY <2>4 DEF e
<1>9. ResolvedTo = CHOOSE g : Eq(g)
  BY DEF ResolvedTo, t0
<1>10. Eq(ResolvedTo)
  <2> HIDE DEF Eq
  <2> QED
    BY <1>8, <1>9
<1>11. ResolvedTo[L] = t0
  BY <1>1, <1>10
<1>12. ASSUME NEW n \in 1..L PROVE ResolvedTo[n - 1] = ResolveAt(n, ResolvedTo[n])
  <2>1. n - 1 \in 0..L /\ n - 1 # L /\ (n - 1) + 1 = n
    BY <1>1
  <2> QED
    BY <1>10, <2>1 DEF ResolveAt
<1> QED
  BY <1>11, <1>12 DEF t0

\* Every literal of C is false.
Falsified(C) == \A q \in C : q \in Lit /\ \E n \in 1..Len(trail) : trail[n] = -q

\* A place behind the last entry of trail_lim.
OnTop(n) == trail_lim[Len(trail_lim)] < n

\* Which false literals are above level 0.
LEMMA AboveZeroOf ==
    ASSUME TrailInv, NEW C, Falsified(C)
    PROVE  /\ AboveZero(C) \subseteq C /\ Falsified(AboveZero(C))
           /\ \A q \in C, n \in 1..Len(trail) :
                 trail[n] = -q => (q \in AboveZero(C) <=> ~AtRoot(n))
<1>1. AboveZero(C) \subseteq C
  BY DEF AboveZero
<1>2. ASSUME NEW q \in C, NEW n \in 1..Len(trail), trail[n] = -q
      PROVE  q \in AboveZero(C) <=> ~AtRoot(n)
  <2>1. q = -trail[n]
    BY <1>2, LitFacts DEF Falsified
  <2>2. level(q) \in Nat /\ (level(q) = 0 <=> AtRoot(n))
    BY <2>1, LevelIs, TrailFacts
  <2> QED
    BY <2>2 DEF AboveZero
<1> QED
  BY <1>1, <1>2 DEF Falsified

\* What is false at level 0 can be left out of a clause that follows.
LEMMA AboveZeroHolds ==
    ASSUME TrailInv, ImpliedInv, problem \in Problems, NEW C, Falsified(C),
           NEW a \in Models, Satisfies(a, C)
    PROVE  Satisfies(a, AboveZero(C))
<1>1. PICK q \in C : Holds(a, q)
  BY DEF Satisfies
<1>2. PICK n \in 1..Len(trail) : trail[n] = -q
  BY DEF Falsified
<1>3. ~AtRoot(n)
  <2> SUFFICES ASSUME AtRoot(n) PROVE FALSE
    OBVIOUS
  <2>1. Holds(a, -q)
    BY <1>2 DEF ImpliedInv, Implied, Satisfies
  <2>2. a \in Assignments /\ q \in Lit
    BY ModelFacts DEF Falsified
  <2> QED
    BY <1>1, <2>1, <2>2, HoldsNot
<1>4. q \in AboveZero(C)
  BY <1>2, <1>3, AboveZeroOf
<1> QED
  BY <1>1, <1>4 DEF Satisfies

\* Which false literals are of the current level, and whether there are two.
LEMMA CurrentOf ==
    ASSUME TrailInv, Len(trail_lim) > 0, NEW R, Falsified(R)
    PROVE  /\ \A q \in R, n \in 1..Len(trail) :
                 trail[n] = -q => (q \in Current(R) <=> OnTop(n))
           /\ Open(R) => \A x : \E y \in Current(R) : y # x
           /\ ~Open(R) => \A x, y \in Current(R) : x = y
<1>1. ASSUME NEW q \in R, NEW n \in 1..Len(trail), trail[n] = -q
      PROVE  q \in Current(R) <=> OnTop(n)
  <2>1. q = -trail[n]
    BY <1>1, LitFacts DEF Falsified
  <2>2. level(q) >= Len(trail_lim) <=> OnTop(n)
    BY <2>1, LevelIs DEF OnTop
  <2> QED
    BY <2>2 DEF Current, decisionLevel
<1>2. IsFiniteSet(Current(R)) /\ Cardinality(Current(R)) \in Nat
  <2>3. IsFiniteSet(Lit)
    BY LitFinite
  <2>4. Current(R) \subseteq Lit
    BY DEF Current, Falsified
  <2> QED
    BY <2>3, <2>4, FS_Subset, FS_CardinalityType
<1>3. ASSUME Open(R), NEW x PROVE \E y \in Current(R) : y # x
  <2> SUFFICES ASSUME \A y \in Current(R) : y = x PROVE FALSE
    OBVIOUS
  <2>1. Current(R) = {} \/ Current(R) = {x}
    OBVIOUS
  <2>2. Cardinality(Current(R)) = 0 \/ Cardinality(Current(R)) = 1
    BY <2>1, FS_EmptySet, FS_Singleton
  <2> QED
    BY <1>3, <2>2 DEF Open
<1>4. ASSUME ~Open(R), NEW x \in Current(R), NEW y \in Current(R) PROVE x = y
  <2>1. Cardinality(Current(R)) = 0 \/ Cardinality(Current(R)) = 1
    BY <1>2, <1>4 DEF Open
  <2>2. Current(R) = {} \/ \E z : Current(R) = {z}
    BY <1>2, <2>1, FS_EmptySet, FS_Singleton
  <2> QED
    BY <2>2
<1> QED
  BY <1>1, <1>3, <1>4

\* The parents of a fact are false before it, and imply it.
LEMMA ParentsOf ==
    ASSUME TrailInv, ArenaInv, ReasonInv, ImpliedInv, problem \in Problems,
           NEW n \in 1..Len(trail), reason[abs(trail[n])] # Undef
    PROVE  /\ Falsified(Parents(reason[abs(trail[n])]))
           /\ \A q \in Parents(reason[abs(trail[n])]) : \E m \in 1..(n - 1) : trail[m] = -q
           /\ \A q \in Parents(reason[abs(trail[n])]), m \in 1..Len(trail) : trail[m] = -q => m < n
           /\ \A a \in Models : Holds(a, trail[n]) \/ Satisfies(a, Parents(reason[abs(trail[n])]))
<1> DEFINE r == reason[abs(trail[n])]
<1>1. abs(trail[n]) \in Var /\ n \in Nat
  BY TrailFacts
<1>2. r \in CRef
  BY <1>1 DEF TrailInv
<1>3. /\ ca[r] # NoClause /\ ca[r].lits[1] = trail[n]
      /\ \A k \in 2..Len(ca[r].lits) : \E m \in 1..(n - 1) : trail[m] = -ca[r].lits[k]
  BY DEF ReasonInv
<1>4. ca[r].lits \in Seq(Lit) /\ Len(ca[r].lits) \in Nat
  BY <1>2 DEF ArenaInv
<1> HIDE DEF r
<1>5. \A q \in Parents(r) : \E k \in 2..Len(ca[r].lits) : q = ca[r].lits[k]
  BY DEF Parents
<1>6. \A q \in Parents(r) : q \in Lit /\ \E m \in 1..(n - 1) : trail[m] = -q
  <2> SUFFICES ASSUME NEW q \in Parents(r) PROVE q \in Lit /\ \E m \in 1..(n - 1) : trail[m] = -q
    OBVIOUS
  <2>1. PICK k \in 2..Len(ca[r].lits) : q = ca[r].lits[k]
    BY <1>5
  <2>2. k \in 1..Len(ca[r].lits)
    BY <1>4
  <2> QED
    BY <1>3, <1>4, <2>1, <2>2
<1>7. 1..(n - 1) \subseteq 1..Len(trail) /\ \A m \in 1..(n - 1) : m < n
  BY <1>1, TrailFacts
<1>8. ASSUME NEW q \in Parents(r), NEW m \in 1..Len(trail), trail[m] = -q PROVE m < n
  <2>1. PICK k \in 1..(n - 1) : trail[k] = -q
    BY <1>6
  <2>2. k = m
    BY <1>7, <1>8, <2>1, TrailFacts
  <2> QED
    BY <1>7, <2>2
<1>9. ASSUME NEW a \in Models PROVE Holds(a, trail[n]) \/ Satisfies(a, Parents(r))
  <2>1. PICK q \in Set(ca[r].lits) : Holds(a, q)
    BY <1>2, <1>3 DEF ImpliedInv, Implied, Satisfies
  <2>2. PICK k \in 1..Len(ca[r].lits) : q = ca[r].lits[k]
    BY <1>4, <2>1, SetOf
  <2>3. CASE k = 1
    BY <1>3, <2>1, <2>2, <2>3
  <2>4. CASE k # 1
    <3>1. k \in 2..Len(ca[r].lits)
      BY <1>4, <2>4
    <3>2. q \in Parents(r)
      BY <2>2, <3>1 DEF Parents
    <3> QED
      BY <2>1, <3>2 DEF Satisfies
  <2> QED
    BY <2>3, <2>4
<1> QED
  BY <1>6, <1>7, <1>8, <1>9 DEF r, Falsified

\* A false clause that follows from the formula, by the current level and without
\* literals of level 0; as long as two are of the current level, none is behind place n.
Cut(n, R) ==
    /\ Falsified(R) /\ Implied(R)
    /\ \A q \in R, m \in 1..Len(trail) : trail[m] = -q => ~AtRoot(m)
    /\ \E q \in R, m \in 1..Len(trail) : trail[m] = -q /\ OnTop(m)
    /\ Open(R) => \A q \in R, m \in 1..Len(trail) : trail[m] = -q => m <= n

\* What resolution uses of the invariant.
AnalysisInv ==
    /\ problem \in Problems /\ Len(trail_lim) > 0
    /\ TrailInv /\ ArenaInv /\ ReasonInv /\ DecisionInv /\ ImpliedInv

\* A place on the current level before which there is another has a reason.
LEMMA NotDecision ==
    ASSUME AnalysisInv, NEW m \in 1..Len(trail), NEW n \in 1..Len(trail), OnTop(m), m < n
    PROVE  /\ OnTop(n) /\ ~AtRoot(n)
           /\ reason[abs(trail[n])] # Undef
<1>1. /\ TrailInv /\ DecisionInv /\ Len(trail_lim) > 0 /\ Len(trail_lim) \in Nat
      /\ \A k \in 1..Len(trail_lim) : trail_lim[k] \in Nat /\ trail_lim[k] <= trail_lim[Len(trail_lim)]
  <2>1. TrailInv /\ DecisionInv /\ Len(trail_lim) > 0
    BY DEF AnalysisInv
  <2>2. Len(trail_lim) \in 1..Len(trail_lim) /\ \A k \in 1..Len(trail_lim) : trail_lim[k] \in Nat
    BY <2>1, TrailFacts
  <2>3. \A k \in 1..Len(trail_lim) : k <= Len(trail_lim)
    BY <2>2
  <2> QED
    BY <2>1, <2>2, <2>3 DEF TrailInv
<1>2. OnTop(n) /\ ~AtRoot(n)
  <2>1. Len(trail_lim) \in 1..Len(trail_lim) /\ 1 \in 1..Len(trail_lim)
    BY <1>1
  <2> QED
    BY <1>1, <2>1 DEF OnTop, AtRoot, decisionLevel
<1>3. ASSUME NEW k \in 1..Len(trail_lim) PROVE n # trail_lim[k] + 1
  <2>1. Len(trail_lim) \in 1..Len(trail_lim)
    BY <1>1
  <2>2. trail_lim[k] < m /\ trail_lim[k] \in Nat
    BY <1>1, <2>1 DEF OnTop
  <2> QED
    BY <2>2
<1> QED
  BY <1>1, <1>2, <1>3 DEF DecisionInv

\* Resolving keeps the cut.
LEMMA CutResolve ==
    ASSUME AnalysisInv, NEW n \in 1..Len(trail), NEW R, Cut(n, R)
    PROVE  Cut(n - 1, ResolveAt(n, R))
<1>1. TrailInv /\ ArenaInv /\ ReasonInv /\ ImpliedInv /\ problem \in Problems /\ Len(trail_lim) > 0
  BY DEF AnalysisInv
<1>2. n \in Nat /\ trail[n] \in Lit /\ -(-trail[n]) = trail[n] /\ abs(trail[n]) \in Var /\ -trail[n] \in Lit
  BY <1>1, TrailFacts, LitFacts
<1>3. CASE ~Open(R)
  BY <1>3 DEF ResolveAt, Cut
<1>4. CASE Open(R) /\ -trail[n] \notin R
  <2>1. ASSUME NEW q \in R, NEW m \in 1..Len(trail), trail[m] = -q PROVE m <= n - 1
    <3>1. m <= n /\ q \in Lit
      BY <1>4, <2>1 DEF Cut, Falsified
    <3>2. m # n
      <4> SUFFICES ASSUME m = n PROVE FALSE
        OBVIOUS
      <4>1. q = -trail[n]
        BY <2>1, <3>1, LitFacts
      <4> QED
        BY <1>4, <4>1
    <3> QED
      BY <3>1, <3>2
  <2>2. ResolveAt(n, R) = R
    BY <1>4 DEF ResolveAt
  <2> QED
    BY <2>1, <2>2 DEF Cut
<1>5. CASE Open(R) /\ -trail[n] \in R
  <2> DEFINE P == Parents(reason[abs(trail[n])])
  <2>1. ResolveAt(n, R) = (R \ {-trail[n]}) \cup AboveZero(P)
    BY <1>5 DEF ResolveAt
  <2>2. PICK y \in Current(R) : y # -trail[n]
    BY <1>1, <1>5, CurrentOf, SMTT(40) DEF Cut
  <2>3. y \in R /\ Falsified(R)
    BY <2>2 DEF Current, Cut
  <2>4. PICK m \in 1..Len(trail) : trail[m] = -y
    BY <2>3 DEF Falsified
  <2>5. OnTop(m)
    BY <1>1, <2>2, <2>3, <2>4, CurrentOf
  <2>6. m < n
    <3>1. m <= n
      BY <1>5, <2>3, <2>4 DEF Cut
    <3>2. y \in Lit
      BY <2>3 DEF Falsified
    <3>3. m # n
      BY <2>2, <2>4, <3>2, LitFacts
    <3> QED
      BY <3>1, <3>3
  <2>7. reason[abs(trail[n])] # Undef
    BY <2>5, <2>6, NotDecision
  <2>8. /\ Falsified(P)
        /\ \A q \in P, k \in 1..Len(trail) : trail[k] = -q => k < n
        /\ \A a \in Models : Holds(a, trail[n]) \/ Satisfies(a, P)
    BY <1>1, <2>7, ParentsOf
  <2> HIDE DEF P
  <2>9. /\ AboveZero(P) \subseteq P /\ Falsified(AboveZero(P))
        /\ \A q \in P, k \in 1..Len(trail) : trail[k] = -q => (q \in AboveZero(P) <=> ~AtRoot(k))
    BY <1>1, <2>8, AboveZeroOf
  <2>10. PICK N : N = ResolveAt(n, R)
    OBVIOUS
  <2>11. \A q : q \in N <=> (q \in R /\ q # -trail[n]) \/ q \in AboveZero(P)
    BY <2>1, <2>10
  <2>12. Falsified(N)
    BY <2>3, <2>9, <2>11 DEF Falsified
  <2>13. Implied(N)
    <3> SUFFICES ASSUME NEW a \in Models PROVE Satisfies(a, N)
      BY DEF Implied
    <3>1. PICK q \in R : Holds(a, q)
      BY DEF Cut, Implied, Satisfies
    <3>2. CASE q # -trail[n]
      BY <2>11, <3>1, <3>2 DEF Satisfies
    <3>3. CASE q = -trail[n]
      <4>1. a \in Assignments
        BY <1>1, ModelFacts
      <4>2. ~Holds(a, trail[n])
        BY <1>2, <3>1, <3>3, <4>1, HoldsNot
      <4>3. Satisfies(a, AboveZero(P))
        BY <1>1, <2>8, <4>2, AboveZeroHolds
      <4> QED
        BY <2>11, <4>3 DEF Satisfies
    <3> QED
      BY <3>2, <3>3
  <2>14. \A q \in N, k \in 1..Len(trail) : trail[k] = -q => ~AtRoot(k)
    BY <2>9, <2>11 DEF Cut
  <2>15. \E q \in N, k \in 1..Len(trail) : trail[k] = -q /\ OnTop(k)
    BY <2>2, <2>3, <2>4, <2>5, <2>11
  <2>16. ASSUME NEW q \in N, NEW k \in 1..Len(trail), trail[k] = -q PROVE k <= n - 1
    <3>1. CASE q \in AboveZero(P)
      <4>1. k < n
        BY <2>8, <2>9, <2>16, <3>1
      <4> QED
        BY <1>2, <4>1
    <3>2. CASE q \in R /\ q # -trail[n]
      <4>1. k <= n /\ q \in Lit
        BY <1>5, <2>16, <3>2 DEF Cut, Falsified
      <4>2. k # n
        BY <2>16, <3>2, <4>1, LitFacts
      <4> QED
        BY <1>2, <4>1, <4>2
    <3> QED
      BY <2>11, <3>1, <3>2
  <2> QED
    BY <2>10, <2>12, <2>13, <2>14, <2>15, <2>16 DEF Cut
<1> QED
  BY <1>3, <1>4, <1>5

\* Before the first resolution it holds of the clause in conflict.
LEMMA CutFirst ==
    ASSUME AnalysisInv, ConflictInv, pc = "conflict"
    PROVE  Cut(Len(trail), AboveZero(Set(ca[confl].lits)))
<1> DEFINE C == Set(ca[confl].lits)
<1>1. TrailInv /\ ArenaInv /\ ImpliedInv /\ problem \in Problems /\ Len(trail_lim) > 0
  BY DEF AnalysisInv
<1>2. /\ confl \in CRef /\ ca[confl] # NoClause
      /\ \A k \in 1..Len(ca[confl].lits) : \E n \in 1..Len(trail) : trail[n] = -ca[confl].lits[k]
      /\ \E k \in 1..Len(ca[confl].lits), n \in 1..Len(trail) : trail[n] = -ca[confl].lits[k] /\ OnTop(n)
  BY <1>1 DEF ConflictInv, OnTop
<1>3. ca[confl].lits \in Seq(Lit)
  BY <1>1, <1>2 DEF ArenaInv
<1>4. Falsified(C)
  <2>1. \A q \in C : \E k \in 1..Len(ca[confl].lits) : ca[confl].lits[k] = q
    BY <1>3, SetOf
  <2>2. C \subseteq Lit
    BY <1>3, SetOf
  <2> QED
    BY <1>2, <2>1, <2>2 DEF Falsified
<1>5. PICK q \in C, m \in 1..Len(trail) : trail[m] = -q /\ OnTop(m)
  <2>1. \A k \in 1..Len(ca[confl].lits) : ca[confl].lits[k] \in C
    BY <1>3, SetOf
  <2> QED
    BY <1>2, <2>1
<1>6. Implied(C)
  BY <1>1, <1>2 DEF ImpliedInv
<1> HIDE DEF C
<1>7. /\ AboveZero(C) \subseteq C /\ Falsified(AboveZero(C))
      /\ \A x \in C, n \in 1..Len(trail) : trail[n] = -x => (x \in AboveZero(C) <=> ~AtRoot(n))
  BY <1>1, <1>4, AboveZeroOf
<1>8. Implied(AboveZero(C))
  BY <1>1, <1>4, <1>6, AboveZeroHolds DEF Implied
<1>9. ~AtRoot(m)
  <2>1. Len(trail_lim) \in 1..Len(trail_lim) /\ 1 \in 1..Len(trail_lim) /\ Len(trail_lim) \in Nat
    BY <1>1, TrailFacts
  <2>2. trail_lim[1] <= trail_lim[Len(trail_lim)]
    BY <1>1, <2>1 DEF TrailInv
  <2>3. trail_lim[1] \in Nat /\ trail_lim[Len(trail_lim)] \in Nat
    BY <1>1, <2>1, TrailFacts
  <2> QED
    BY <1>1, <1>5, <2>2, <2>3 DEF OnTop, AtRoot, decisionLevel
<1>10. q \in AboveZero(C)
  BY <1>5, <1>7, <1>9
<1>11. \A x \in AboveZero(C), n \in 1..Len(trail) : trail[n] = -x => ~AtRoot(n) /\ n <= Len(trail)
  BY <1>1, <1>7, TrailFacts
<1> QED
  BY <1>5, <1>7, <1>8, <1>10, <1>11 DEF Cut, C

\* Resolution ends in a clause with one literal of the current level.
LEMMA ResolvedIs ==
    ASSUME AnalysisInv, ConflictInv, pc = "conflict"
    PROVE  Cut(0, Resolved) /\ ~Open(Resolved)
<1>1. TrailInv /\ Len(trail_lim) > 0
  BY DEF AnalysisInv
<1>2. Len(trail) \in Nat
  BY <1>1, TrailFacts
<1> DEFINE L == Len(trail)
           K == {k \in 0..L : ~Cut(L - k, ResolvedTo[L - k])}
<1>3. K = {}
  <2> SUFFICES ASSUME K # {} PROVE FALSE
    OBVIOUS
  <2>1. K \subseteq Nat
    OBVIOUS
  <2>2. PICK x \in K : \A y \in K : x <= y
    BY <2>1, LeastElement
  <2>3. x \in 0..L /\ ~Cut(L - x, ResolvedTo[L - x])
    BY <2>2
  <2>4. x # 0
    <3>1. ResolvedTo[L] = AboveZero(Set(ca[confl].lits))
      BY <1>1, ResolvedToIs
    <3>2. Cut(L, ResolvedTo[L])
      BY <3>1, CutFirst
    <3> QED
      BY <1>2, <2>3, <3>2
  <2>5. x - 1 \in 0..L /\ ~(x <= x - 1) /\ L - (x - 1) \in 1..L /\ (L - (x - 1)) - 1 = L - x
    BY <1>2, <2>3, <2>4
  <2>6. x - 1 \notin K
    BY <2>2, <2>5
  <2>7. Cut(L - (x - 1), ResolvedTo[L - (x - 1)])
    BY <2>5, <2>6
  <2>8. Cut((L - (x - 1)) - 1, ResolveAt(L - (x - 1), ResolvedTo[L - (x - 1)]))
    BY <2>5, <2>7, CutResolve
  <2>9. ResolvedTo[(L - (x - 1)) - 1] = ResolveAt(L - (x - 1), ResolvedTo[L - (x - 1)])
    BY <1>1, <2>5, ResolvedToIs
  <2> QED
    BY <2>3, <2>5, <2>8, <2>9
<1>4. Cut(0, ResolvedTo[0])
  <2>1. L \in 0..L /\ L - L = 0
    BY <1>2
  <2> QED
    BY <1>3, <2>1
<1>5. ~Open(ResolvedTo[0])
  <2> SUFFICES ASSUME Open(ResolvedTo[0]) PROVE FALSE
    OBVIOUS
  <2>1. PICK q \in ResolvedTo[0], m \in 1..Len(trail) : trail[m] = -q
    BY <1>4 DEF Cut
  <2>2. m <= 0
    BY <1>4, <2>1 DEF Cut
  <2> QED
    BY <1>2, <2>2
<1> QED
  BY <1>4, <1>5 DEF Resolved

\* A literal that is dropped, if it holds, leaves one before it of the clause that holds.
LEMMA RedundantHas ==
    ASSUME AnalysisInv, NEW src, NEW n \in 1..Len(trail), NEW l \in Lit, trail[n] = -l,
           litRedundant(l, src), NEW a \in Models, Holds(a, l)
    PROVE  \E m \in 1..Len(trail) : m < n /\ -trail[m] \in src /\ Holds(a, -trail[m])
<1>1. TrailInv /\ ArenaInv /\ ReasonInv /\ ImpliedInv /\ problem \in Problems
  BY DEF AnalysisInv
<1>2. PICK S \in SUBSET Set(trail) :
        /\ reason[abs(l)] # Undef
        /\ \A q \in Parents(reason[abs(l)]) : -q \in S
        /\ \A p \in S :
              \/ level(p) = 0
              \/ -p \in src
              \/ /\ reason[abs(p)] # Undef
                 /\ \A q \in Parents(reason[abs(p)]) : -q \in S
  BY DEF litRedundant
<1>3. abs(trail[n]) = abs(l) /\ a \in Assignments /\ -l \in Lit /\ -(-l) = l /\ trail[n] \in Lit
  <2>1. a \in Assignments
    BY <1>1, ModelFacts
  <2>2. -l \in Lit /\ -(-l) = l
    BY LitFacts
  <2>3. abs(-l) = abs(l)
    BY <2>2, LitFacts
  <2> QED
    BY <2>1, <2>2, <2>3
<1>4. ASSUME NEW i \in 1..Len(trail), ~Holds(a, trail[i]), reason[abs(trail[i])] # Undef,
             \A q \in Parents(reason[abs(trail[i])]) : -q \in S
      PROVE  \E j \in 1..Len(trail) : j < i /\ trail[j] \in S /\ ~Holds(a, trail[j])
  <2>1. Satisfies(a, Parents(reason[abs(trail[i])]))
    BY <1>1, <1>4, ParentsOf
  <2>2. PICK q \in Parents(reason[abs(trail[i])]) : Holds(a, q)
    BY <2>1 DEF Satisfies
  <2>3. Falsified(Parents(reason[abs(trail[i])]))
    BY <1>1, <1>4, ParentsOf
  <2>4. q \in Lit /\ \E j \in 1..Len(trail) : trail[j] = -q
    BY <2>3 DEF Falsified
  <2>5. PICK j \in 1..Len(trail) : trail[j] = -q
    BY <2>4
  <2>6. j < i
    BY <1>1, <1>4, <2>5, ParentsOf
  <2>7. ~Holds(a, -q)
    BY <1>3, <2>2, <2>4, HoldsNot
  <2> QED
    BY <1>4, <2>5, <2>6, <2>7
<1>5. ~Holds(a, trail[n])
  BY <1>3, HoldsNot
<1>6. PICK j \in 1..Len(trail) : j < n /\ trail[j] \in S /\ ~Holds(a, trail[j])
  BY <1>2, <1>3, <1>4, <1>5
<1> DEFINE K == {i \in 1..Len(trail) : trail[i] \in S /\ ~Holds(a, trail[i])}
<1>7. PICK i \in K : \A k \in K : i <= k
  <2>1. K \subseteq Nat /\ j \in K
    BY <1>6
  <2> QED
    BY <2>1, LeastElement
<1>8. i \in 1..Len(trail) /\ trail[i] \in S /\ ~Holds(a, trail[i]) /\ i <= j
  BY <1>6, <1>7
<1>9. level(trail[i]) # 0
  <2> SUFFICES ASSUME level(trail[i]) = 0 PROVE FALSE
    OBVIOUS
  <2>1. AtRoot(i)
    BY <1>1, <1>8, LevelIs
  <2> QED
    BY <1>1, <1>8, <2>1 DEF ImpliedInv, Implied, Satisfies
<1>10. ~(reason[abs(trail[i])] # Undef /\ \A q \in Parents(reason[abs(trail[i])]) : -q \in S)
  <2> SUFFICES ASSUME reason[abs(trail[i])] # Undef, \A q \in Parents(reason[abs(trail[i])]) : -q \in S
               PROVE  FALSE
    OBVIOUS
  <2>1. PICK k \in 1..Len(trail) : k < i /\ trail[k] \in S /\ ~Holds(a, trail[k])
    BY <1>4, <1>8
  <2>2. k \in K
    BY <2>1
  <2>3. i <= k
    BY <1>7, <2>2
  <2> QED
    BY <1>8, <2>1, <2>3
<1>11. -trail[i] \in src
  BY <1>2, <1>8, <1>9, <1>10
<1>12. Holds(a, -trail[i])
  <2>1. trail[i] \in Lit
    BY <1>1, <1>8, TrailFacts
  <2> QED
    BY <1>3, <1>8, <2>1, HoldsNot
<1>13. i < n
  <2>1. n \in Nat
    BY <1>1, TrailFacts
  <2> QED
    BY <1>6, <1>8, <2>1
<1> QED
  BY <1>8, <1>11, <1>12, <1>13

\* s with x and y before it.
Fronted(c, x, y, s) ==
    /\ c \in Seq(Lit) /\ Len(c) = Len(s) + 2 /\ c[1] = x /\ c[2] = y
    /\ \A i \in 1..Len(s) : c[i + 2] = s[i]

\* Two literals are put in front of a clause (the last lines of analyze).
LEMMA ConsTwice ==
    ASSUME NEW x \in Lit, NEW y \in Lit, NEW s \in Seq(Lit), NEW c, c = <<x>> \o (<<y>> \o s)
    PROVE  Fronted(c, x, y, s)
<1>1. PICK t : t = <<y>> \o s
  OBVIOUS
<1>2. t \in Seq(Lit) /\ Len(t) = Len(s) + 1 /\ t[1] = y /\ \A i \in 1..Len(s) : t[i + 1] = s[i]
  BY <1>1
<1>3. c = <<x>> \o t
  BY <1>1
<1>4. c \in Seq(Lit) /\ Len(c) = Len(t) + 1 /\ c[1] = x /\ \A i \in 1..Len(t) : c[i + 1] = t[i]
  BY <1>2, <1>3
<1>5. Len(s) \in Nat /\ c[2] = y
  <2>1. 1 \in 1..Len(t) /\ 1 + 1 = 2
    BY <1>2
  <2> QED
    BY <1>2, <1>4, <2>1
<1>6. ASSUME NEW i \in 1..Len(s) PROVE c[i + 2] = s[i]
  <2>1. i + 1 \in 1..Len(t) /\ (i + 1) + 1 = i + 2
    BY <1>2
  <2> QED
    BY <1>2, <1>4, <2>1
<1>7. Len(c) = Len(s) + 2
  BY <1>2, <1>4, <1>5
<1> QED
  BY <1>4, <1>5, <1>6, <1>7 DEF Fronted

\* Dropping redundant literals leaves a clause that follows from the formula.
LEMMA MinimizedHolds ==
    ASSUME AnalysisInv, NEW R, Falsified(R), Implied(R), NEW uip
    PROVE  Implied({uip} \cup {l \in R \ {uip} : ~litRedundant(l, R \ {uip})})
<1> DEFINE src == R \ {uip}
           rest == {l \in src : ~litRedundant(l, src)}
<1>1. TrailInv /\ problem \in Problems
  BY DEF AnalysisInv
<1>2. SUFFICES ASSUME NEW a \in Models, ~Satisfies(a, {uip} \cup rest) PROVE FALSE
  BY DEF Implied
<1>3. PICK q \in R : Holds(a, q)
  BY DEF Implied, Satisfies
<1>4. \A l \in {uip} \cup rest : ~Holds(a, l)
  BY <1>2 DEF Satisfies
<1> DEFINE K == {n \in 1..Len(trail) : -trail[n] \in src /\ Holds(a, -trail[n])}
<1>5. ASSUME NEW l \in src PROVE l \in Lit /\ \E n \in 1..Len(trail) : trail[n] = -l /\ -trail[n] = l
  <2>1. l \in Lit /\ \E n \in 1..Len(trail) : trail[n] = -l
    BY <1>5 DEF Falsified
  <2> QED
    BY <2>1, LitFacts
<1>6. q \in src
  BY <1>3, <1>4
<1>7. PICK n \in K : \A k \in K : n <= k
  <2>1. K \subseteq Nat
    OBVIOUS
  <2>2. K # {}
    BY <1>3, <1>5, <1>6
  <2> QED
    BY <2>1, <2>2, LeastElement
<1>8. n \in 1..Len(trail) /\ -trail[n] \in src /\ Holds(a, -trail[n])
  BY <1>7
<1>9. litRedundant(-trail[n], src)
  <2>1. -trail[n] \notin rest
    BY <1>4, <1>8
  <2> QED
    BY <1>8, <2>1
<1>10. -trail[n] \in Lit /\ trail[n] = -(-trail[n])
  BY <1>1, <1>8, TrailFacts, LitFacts
<1> HIDE DEF src, rest
<1>11. PICK m \in 1..Len(trail) : m < n /\ -trail[m] \in src /\ Holds(a, -trail[m])
  BY <1>8, <1>9, <1>10, RedundantHas
<1>12. m \in K
  BY <1>11
<1>13. n <= m
  BY <1>7, <1>12
<1> QED
  BY <1>8, <1>11, <1>13

\* A finite set of literals on the trail has one of the highest level.
LEMMA HighestLevel ==
    ASSUME TrailInv, NEW R, Falsified(R), R # {}
    PROVE  \E l \in R : \A m \in R : level(m) <= level(l)
<1>1. \A l \in R : level(l) \in 0..Len(trail_lim)
  <2> SUFFICES ASSUME NEW l \in R PROVE level(l) \in 0..Len(trail_lim)
    OBVIOUS
  <2>1. PICK n \in 1..Len(trail) : trail[n] = -l
    BY DEF Falsified
  <2>2. l = -trail[n]
    BY <2>1, LitFacts DEF Falsified
  <2> QED
    BY <2>2, LevelIs
<1>2. Len(trail_lim) \in Nat
  BY TrailFacts
<1> DEFINE K == {Len(trail_lim) - level(l) : l \in R}
<1>3. K \subseteq Nat /\ K # {}
  BY <1>1, <1>2
<1>4. PICK x \in K : \A y \in K : x <= y
  BY <1>3, LeastElement
<1>5. PICK l \in R : x = Len(trail_lim) - level(l)
  BY <1>4
<1>6. ASSUME NEW m \in R PROVE level(m) <= level(l)
  <2>1. Len(trail_lim) - level(m) \in K
    OBVIOUS
  <2>2. x <= Len(trail_lim) - level(m)
    BY <1>4, <2>1
  <2> QED
    BY <1>1, <1>2, <1>5, <2>2
<1> QED
  BY <1>6

\* A list with neither x nor y.
Apart(x, y, s) ==
    s \in Seq(Lit) /\ NoRepeat(s) /\ x # y /\ \A i \in 1..Len(s) : s[i] # x /\ s[i] # y

\* A clause of x, which is first, and C, with y behind x.
Clause(c, x, y, C) ==
    /\ c \in Seq(Lit) /\ Len(c) > 0 /\ NoRepeat(c) /\ Set(c) = {x} \cup C
    /\ c[1] = x /\ (Len(c) > 1 => c[2] = y)
    /\ \A k \in 2..Len(c) : c[k] \in C

\* Two elements before a list of others.
LEMMA FrontShape ==
    ASSUME NEW x \in Lit, NEW y \in Lit, NEW s, Apart(x, y, s), NEW c, Fronted(c, x, y, s)
    PROVE  Clause(c, x, y, {y} \cup Set(s))
<1>0. s \in Seq(Lit) /\ NoRepeat(s) /\ x # y /\ \A i \in 1..Len(s) : s[i] # x /\ s[i] # y
  BY DEF Apart
<1>1. /\ c \in Seq(Lit) /\ Len(c) = Len(s) + 2 /\ c[1] = x /\ c[2] = y
      /\ \A i \in 1..Len(s) : c[i + 2] = s[i]
      /\ Len(s) \in Nat
  BY <1>0 DEF Fronted
<1>2. \A k \in 1..Len(c) : k = 1 \/ k = 2 \/ (k - 2 \in 1..Len(s) /\ c[k] = s[k - 2])
  <2> SUFFICES ASSUME NEW k \in 1..Len(c), k # 1, k # 2 PROVE k - 2 \in 1..Len(s) /\ c[k] = s[k - 2]
    OBVIOUS
  <2>1. k - 2 \in 1..Len(s) /\ (k - 2) + 2 = k
    BY <1>1
  <2> QED
    BY <1>1, <2>1
<1>3. c \in Seq(Lit)
  BY <1>1
<1>4. (\A k \in 1..Len(c) : c[k] \in Set(c)) /\ \A z \in Set(c) : \E k \in 1..Len(c) : c[k] = z
  BY <1>3, SetOf
<1>5. (\A k \in 1..Len(s) : s[k] \in Set(s)) /\ \A z \in Set(s) : \E k \in 1..Len(s) : s[k] = z
  BY <1>0, SetOf
<1>6. \A k \in 1..Len(c) : k # 1 => c[k] \in {y} \cup Set(s)
  <2> SUFFICES ASSUME NEW k \in 1..Len(c), k # 1 PROVE c[k] \in {y} \cup Set(s)
    OBVIOUS
  <2>1. CASE k = 2
    BY <1>1, <2>1
  <2>2. CASE k # 2
    BY <1>2, <1>5, <2>2
  <2> QED
    BY <2>1, <2>2
<1>7. \A k \in 2..Len(c) : c[k] \in {y} \cup Set(s)
  <2>1. \A k \in 2..Len(c) : k \in 1..Len(c) /\ k # 1
    BY <1>1
  <2> QED
    BY <1>6, <2>1
<1>8. Set(c) = {x, y} \cup Set(s)
  <2>1. ASSUME NEW z \in Set(c) PROVE z \in {x, y} \cup Set(s)
    <3>1. PICK k \in 1..Len(c) : c[k] = z
      BY <1>4, <2>1
    <3> QED
      BY <1>1, <1>6, <3>1
  <2>2. 1 \in 1..Len(c) /\ 2 \in 1..Len(c) /\ \A i \in 1..Len(s) : i + 2 \in 1..Len(c)
    BY <1>1
  <2>3. x \in Set(c) /\ y \in Set(c)
    BY <1>1, <1>4, <2>2
  <2>4. ASSUME NEW z \in Set(s) PROVE z \in Set(c)
    <3>1. PICK k \in 1..Len(s) : s[k] = z
      BY <1>5, <2>4
    <3>2. k + 2 \in 1..Len(c) /\ c[k + 2] = z
      BY <1>1, <2>2, <3>1
    <3> QED
      BY <1>4, <3>2
  <2> QED
    BY <2>1, <2>3, <2>4
<1>9. NoRepeat(c)
  <2> SUFFICES ASSUME NEW i \in 1..Len(c), NEW j \in 1..Len(c), c[i] = c[j] PROVE i = j
    BY DEF NoRepeat
  <2>1. \A k \in 1..Len(c) : k # 1 => c[k] # x
    BY <1>0, <1>1, <1>2
  <2>2. \A k \in 1..Len(c) : k # 1 /\ k # 2 => c[k] # y
    BY <1>0, <1>1, <1>2
  <2>3. CASE i = 1 \/ j = 1
    BY <1>1, <2>1, <2>3
  <2>4. CASE i # 1 /\ j # 1 /\ (i = 2 \/ j = 2)
    BY <1>1, <2>2, <2>4
  <2>5. CASE i # 1 /\ j # 1 /\ i # 2 /\ j # 2
    <3>1. i - 2 \in 1..Len(s) /\ j - 2 \in 1..Len(s) /\ s[i - 2] = s[j - 2]
      BY <1>2, <2>5
    <3>2. i - 2 = j - 2
      BY <1>0, <3>1 DEF NoRepeat
    <3> QED
      BY <3>2
  <2> QED
    BY <2>3, <2>4, <2>5
<1>10. Len(c) > 0
  BY <1>1
<1>11. Set(c) = {x} \cup ({y} \cup Set(s))
  BY <1>8
<1> QED
  BY <1>1, <1>7, <1>9, <1>10, <1>11 DEF Clause

\* The literals behind the second, sorted.
Rest(s, rest, second) == s = Sorted(rest \ {second}, [l \in Lit |-> l])

\* The literals behind the watches of a learnt clause, sorted.
LEMMA SortedRest ==
    ASSUME NEW uip \in Lit, NEW rest \in SUBSET Lit, NEW second \in rest, uip \notin rest,
           NEW s, Rest(s, rest, second)
    PROVE  Apart(uip, second, s) /\ {second} \cup Set(s) = rest
<1>a. PICK key : key = [l \in Lit |-> l]
  OBVIOUS
<1>1. Keyed(rest \ {second}, key)
  <2>1. IsFiniteSet(rest \ {second})
    BY LitFinite, FS_Subset
  <2>2. \A x \in Lit : x \in Int /\ key[x] = x
    BY <1>a, LitFacts
  <2> QED
    BY <2>1, <2>2 DEF Keyed
<1>b. s = Sorted(rest \ {second}, key)
  BY <1>a DEF Rest
<1>2. s \in Seq(rest \ {second}) /\ NoRepeat(s) /\ Set(s) = rest \ {second}
  BY <1>1, <1>b, SortedSet, Zenon
<1>3. \A i \in 1..Len(s) : s[i] \in rest \ {second}
  BY <1>2
<1>4. s \in Seq(Lit)
  BY <1>2
<1> QED
  BY <1>2, <1>3, <1>4 DEF Apart

\* The shape of the learnt clause.
LEMMA AnalyzeShape ==
    ASSUME NEW uip \in Lit, NEW rest \in SUBSET Lit, NEW second, rest # {} => second \in rest, uip \notin rest,
           NEW c, c = <<uip>> \o (IF rest = {} THEN <<>>
                    ELSE <<second>> \o Sorted(rest \ {second}, [l \in Lit |-> l]))
    PROVE  Clause(c, uip, second, rest)
<1>1. CASE rest = {}
  <2>1. c = <<uip>> \o <<>>
    BY <1>1
  <2>2. <<uip>> \o <<>> \in Seq(Lit) /\ Len(<<uip>> \o <<>>) = 1 /\ (<<uip>> \o <<>>)[1] = uip
    OBVIOUS
  <2>3. c \in Seq(Lit) /\ Len(c) = 1 /\ c[1] = uip
    BY <2>1, <2>2, Zenon
  <2>4. Set(c) = {uip}
    BY <2>3 DEF Set
  <2>5. NoRepeat(c)
    BY <2>3 DEF NoRepeat
  <2>6. 2..Len(c) = {} /\ ~(Len(c) > 1) /\ Len(c) > 0
    BY <2>3
  <2> QED
    BY <1>1, <2>3, <2>4, <2>5, <2>6 DEF Clause
<1>2. CASE rest # {}
  <2>1. PICK s : Rest(s, rest, second)
    BY DEF Rest
  <2>2. c = <<uip>> \o (<<second>> \o s)
    BY <1>2, <2>1 DEF Rest
  <2>3. second \in rest
    BY <1>2
  <2>4. Apart(uip, second, s) /\ {second} \cup Set(s) = rest
    BY <2>1, <2>3, SortedRest
  <2>5. s \in Seq(Lit) /\ second \in Lit
    BY <2>3, <2>4 DEF Apart
  <2>6. Fronted(c, uip, second, s)
    BY <2>2, <2>5, ConsTwice
  <2>7. Clause(c, uip, second, {second} \cup Set(s))
    BY <2>4, <2>5, <2>6, FrontShape
  <2> QED
    BY <2>4, <2>7
<1> QED
  BY <1>1, <1>2

\* What analyze learns asserts its first literal.
LEMMA AnalyzeOf ==
    ASSUME AnalysisInv, ConflictInv, pc = "conflict"
    PROVE  Asserting(analyze)
<1>1. TrailInv /\ problem \in Problems /\ Len(trail_lim) > 0 /\ Len(trail_lim) \in Nat
  BY TrailFacts DEF AnalysisInv
<1>2. PICK R : R = Resolved
  OBVIOUS
<1>3. Cut(0, R) /\ ~Open(R)
  BY <1>2, ResolvedIs
<1>4. Falsified(R) /\ Implied(R)
  BY <1>3 DEF Cut
<1>5. PICK uip : uip = CHOOSE l \in Current(R) : TRUE
  OBVIOUS
<1>6. PICK q \in R, m \in 1..Len(trail) : trail[m] = -q /\ OnTop(m)
  BY <1>3 DEF Cut
<1>7. q \in Current(R)
  BY <1>1, <1>4, <1>6, CurrentOf
<1>8. uip = q
  <2>1. uip \in Current(R)
    BY <1>5, <1>7
  <2>2. \A x, y \in Current(R) : x = y
    BY <1>1, <1>3, <1>4, CurrentOf
  <2> QED
    BY <1>7, <2>1, <2>2
<1>9. PICK rest : rest = {l \in R \ {uip} : ~litRedundant(l, R \ {uip})}
  OBVIOUS
<1>10. Implied({uip} \cup rest)
  BY <1>4, <1>9, MinimizedHolds
<1>11. rest \subseteq R /\ uip \notin rest
  BY <1>9
<1>12. PICK second : second = CHOOSE l \in rest : \A x \in rest : level(x) <= level(l)
  OBVIOUS
<1>13. Falsified(rest) /\ uip \in Lit /\ rest \subseteq Lit
  BY <1>4, <1>6, <1>8, <1>11 DEF Falsified
<1>14. rest # {} => second \in rest /\ \A x \in rest : level(x) <= level(second)
  BY <1>1, <1>12, <1>13, HighestLevel
<1>15. PICK c : c = analyze
  OBVIOUS
<1>16. c = <<uip>> \o (IF rest = {} THEN <<>>
                ELSE <<second>> \o Sorted(rest \ {second}, [l \in Lit |-> l]))
  BY <1>2, <1>5, <1>9, <1>12, <1>15 DEF analyze
<1>17. Clause(c, uip, second, rest)
  BY <1>11, <1>13, <1>14, <1>16, AnalyzeShape
<1>18. /\ c \in Seq(Lit) /\ Len(c) > 0 /\ NoRepeat(c) /\ Set(c) = {uip} \cup rest
       /\ c[1] = uip /\ (Len(c) > 1 => c[2] = second) /\ \A k \in 2..Len(c) : c[k] \in rest
  BY <1>17 DEF Clause
<1>19. Implied(Set(c))
  BY <1>10, <1>18
<1>20. \E n \in 1..Len(trail) : trail[n] = -c[1] /\ trail_lim[Len(trail_lim)] < n
  BY <1>6, <1>8, <1>18 DEF OnTop
<1>21. ASSUME NEW x \in rest
       PROVE  \E n \in 1..Len(trail) : trail[n] = -x /\ ~AtRoot(n) /\ n <= trail_lim[Len(trail_lim)]
  <2>1. PICK n \in 1..Len(trail) : trail[n] = -x
    BY <1>13 DEF Falsified
  <2>2. ~AtRoot(n)
    BY <1>3, <1>11, <2>1 DEF Cut
  <2>3. x \notin Current(R)
    BY <1>1, <1>3, <1>4, <1>7, <1>8, <1>11, CurrentOf
  <2>4. ~OnTop(n)
    BY <1>1, <1>4, <1>11, <2>1, <2>3, CurrentOf
  <2>5. Len(trail_lim) \in 1..Len(trail_lim)
    BY <1>1
  <2>6. trail_lim[Len(trail_lim)] \in Nat /\ n \in Nat
    BY <1>1, <2>5, TrailFacts
  <2> QED
    BY <2>1, <2>2, <2>4, <2>6 DEF OnTop
<1>22. \A k \in 2..Len(c) : \E n \in 1..Len(trail) :
          trail[n] = -c[k] /\ ~AtRoot(n) /\ n <= trail_lim[Len(trail_lim)]
  BY <1>18, <1>21
<1>23. ASSUME NEW k \in 2..Len(c), NEW d \in 1..Len(trail), NEW n \in 1..Len(trail),
              trail[d] = -c[2], trail[n] = -c[k], NEW j \in 1..Len(trail_lim), d <= trail_lim[j]
       PROVE  n <= trail_lim[j]
  <2>1. c[k] \in rest /\ c[2] = second /\ second \in rest
    <3>1. Len(c) > 1
      BY <1>18
    <3> QED
      BY <1>14, <1>18, <3>1
  <2>2. level(c[k]) <= level(second) /\ second \in Lit /\ c[k] \in Lit
    BY <1>13, <1>14, <2>1
  <2>3. second = -trail[d] /\ c[k] = -trail[n]
    BY <1>23, <2>1, <2>2, LitFacts
  <2>4. level(second) \in 0..Len(trail_lim) /\ (j <= level(second) <=> trail_lim[j] < d)
    BY <1>1, <2>3, LevelIs
  <2>5. level(c[k]) \in 0..Len(trail_lim) /\ (j <= level(c[k]) <=> trail_lim[j] < n)
    BY <1>1, <2>3, LevelIs
  <2>6. trail_lim[j] \in Nat /\ d \in Nat /\ n \in Nat
    BY <1>1, TrailFacts
  <2> QED
    BY <1>1, <1>23, <2>2, <2>4, <2>5, <2>6
<1> QED
  BY <1>1, <1>15, <1>18, <1>19, <1>20, <1>22, <1>23 DEF Asserting

-----------------------------------------------------------------------------
(* The assumptions an answer rests on *)

\* What seen names goes back to what it names.
LEMMA SeenOf ==
    ASSUME NEW l
    PROVE  /\ abs(l) \in Var => abs(l) \in seen(l)
           /\ \A n \in (trail_lim[1] + 1)..Len(trail) :
                abs(trail[n]) \in seen(l) /\ reason[abs(trail[n])] # Undef =>
                    \A q \in AboveZero(Parents(reason[abs(trail[n])])) :
                        abs(q) \in Var => abs(q) \in seen(l)
<1> DEFINE Closed(S) ==
            \A n \in (trail_lim[1] + 1)..Len(trail) :
                abs(trail[n]) \in S /\ reason[abs(trail[n])] # Undef =>
                    \A q \in AboveZero(Parents(reason[abs(trail[n])])) : abs(q) \in S
<1>1. seen(l) = {v \in Var : \A S \in SUBSET Var : abs(l) \in S /\ Closed(S) => v \in S}
  BY DEF seen
<1>2. abs(l) \in Var => abs(l) \in seen(l)
  <2> HIDE DEF Closed
  <2> QED
    BY <1>1
<1>3. ASSUME NEW n \in (trail_lim[1] + 1)..Len(trail), abs(trail[n]) \in seen(l),
             reason[abs(trail[n])] # Undef, NEW q \in AboveZero(Parents(reason[abs(trail[n])])),
             abs(q) \in Var
      PROVE  abs(q) \in seen(l)
  <2>1. ASSUME NEW S \in SUBSET Var, abs(l) \in S, Closed(S) PROVE abs(q) \in S
    <3>1. abs(trail[n]) \in S
      <4> HIDE DEF Closed
      <4> QED
        BY <1>1, <1>3, <2>1
    <3> QED
      BY <1>3, <2>1, <3>1
  <2> HIDE DEF Closed
  <2> QED
    BY <1>1, <1>3, <2>1
<1> QED
  BY <1>2, <1>3

\* The negations of the assumptions behind a fact, with the fact, follow from the formula.
LEMMA FinalOf ==
    ASSUME problem \in Problems, TrailInv, ArenaInv, ReasonInv, ImpliedInv,
           NEW i \in 1..Len(trail)
    PROVE  Implied(analyzeFinal(trail[i]))
<1> DEFINE p == trail[i]
<1>1. CASE decisionLevel = 0
  <2>1. AtRoot(i)
    BY <1>1 DEF AtRoot
  <2>2. Implied({trail[i]})
    BY <2>1 DEF ImpliedInv
  <2> QED
    BY <1>1, <2>2 DEF analyzeFinal
<1>2. CASE decisionLevel # 0
  <2>1. decisionLevel > 0 /\ 1 \in 1..Len(trail_lim) /\ trail_lim[1] \in Nat
    <3>1. decisionLevel = Len(trail_lim) /\ Len(trail_lim) \in Nat
      BY TrailFacts
    <3>2. 1 \in 1..Len(trail_lim)
      BY <1>2, <3>1
    <3> QED
      BY <1>2, <3>1, <3>2, TrailFacts
  <2>2. \A n \in 1..Len(trail) : ~AtRoot(n) => n \in (trail_lim[1] + 1)..Len(trail)
    BY <2>1, TrailFacts DEF AtRoot
  <2>3. PICK C : C = analyzeFinal(p)
    OBVIOUS
  <2>4. /\ p \in C
        /\ \A n \in (trail_lim[1] + 1)..Len(trail) :
              reason[abs(trail[n])] = Undef /\ abs(trail[n]) \in seen(p) => -trail[n] \in C
    BY <1>2, <2>3 DEF analyzeFinal
  <2>5. SUFFICES ASSUME NEW a \in Models, ~Satisfies(a, C) PROVE FALSE
    BY <2>3 DEF Implied
  <2>6. a \in Assignments /\ \A l \in C : ~Holds(a, l)
    BY <2>5, ModelFacts DEF Satisfies
  <2> DEFINE K == {n \in 1..Len(trail) : abs(trail[n]) \in seen(p) /\ ~Holds(a, trail[n])}
  <2>7. i \in K
    <3>1. abs(p) \in Var
      BY TrailFacts
    <3> QED
      BY <2>4, <2>6, <3>1, SeenOf
  <2>8. PICK n \in K : \A k \in K : n <= k
    <3>1. K \subseteq Nat
      OBVIOUS
    <3> QED
      BY <2>7, <3>1, LeastElement
  <2>9. n \in 1..Len(trail) /\ abs(trail[n]) \in seen(p) /\ ~Holds(a, trail[n])
    BY <2>8
  <2>10. ~AtRoot(n)
    BY <2>9 DEF ImpliedInv, Implied, Satisfies
  <2>11. n \in (trail_lim[1] + 1)..Len(trail)
    BY <2>2, <2>9, <2>10
  <2>12. reason[abs(trail[n])] # Undef
    <3> SUFFICES ASSUME reason[abs(trail[n])] = Undef PROVE FALSE
      OBVIOUS
    <3>1. -trail[n] \in C
      BY <2>4, <2>9, <2>11
    <3>2. trail[n] \in Lit
      BY <2>9, TrailFacts
    <3> QED
      BY <2>6, <2>9, <3>1, <3>2, HoldsNot
  <2> DEFINE P == Parents(reason[abs(trail[n])])
  <2>13. /\ Falsified(P) /\ Satisfies(a, P)
         /\ \A q \in P, m \in 1..Len(trail) : trail[m] = -q => m < n
    BY <2>9, <2>12, ParentsOf
  <2>14. PICK q \in AboveZero(P) : Holds(a, q)
    <3>1. Satisfies(a, AboveZero(P))
      BY <2>13, AboveZeroHolds
    <3> QED
      BY <3>1 DEF Satisfies
  <2>15. q \in P /\ q \in Lit /\ \E m \in 1..Len(trail) : trail[m] = -q
    BY <2>13 DEF Falsified, AboveZero
  <2>16. PICK m \in 1..Len(trail) : trail[m] = -q
    BY <2>15
  <2>17. m < n /\ abs(trail[m]) = abs(q) /\ abs(q) \in Var
    <3>1. abs(-q) = abs(q) /\ abs(q) \in Var
      BY <2>15, LitFacts
    <3>2. m < n
      BY <2>13, <2>15, <2>16
    <3> QED
      BY <2>16, <3>1, <3>2
  <2>18. abs(q) \in seen(p)
    <3> HIDE DEF p
    <3> QED
      BY <2>9, <2>11, <2>12, <2>14, <2>17, SeenOf
  <2>19. ~Holds(a, trail[m])
    BY <2>6, <2>14, <2>15, <2>16, HoldsNot
  <2>20. m \in K
    BY <2>17, <2>18, <2>19
  <2>21. n <= m
    BY <2>8, <2>20
  <2> QED
    BY <2>9, <2>17, <2>21
<1> QED
  BY <1>1, <1>2

\* They are negations of assumptions when the next assumption is false.
LEMMA FinalNames ==
    ASSUME TrailInv, DecisionInv, assumptions \in Seq(Lit), decisionLevel < Len(assumptions),
           NEW i \in 1..Len(trail), trail[i] = -assumptions[decisionLevel + 1]
    PROVE  analyzeFinal(trail[i]) \subseteq {-l : l \in Set(assumptions)}
<1>1. decisionLevel \in Nat /\ decisionLevel = Len(trail_lim)
  BY TrailFacts
<1>2. \A k \in 1..Len(assumptions) : -assumptions[k] \in {-l : l \in Set(assumptions)}
  BY SetOf
<1>3. trail[i] \in {-l : l \in Set(assumptions)}
  <2>1. decisionLevel + 1 \in 1..Len(assumptions)
    BY <1>1
  <2> QED
    BY <1>2, <2>1
<1>4. CASE decisionLevel = 0
  BY <1>3, <1>4 DEF analyzeFinal
<1>5. CASE decisionLevel # 0
  <2>1. decisionLevel > 0 /\ 1 \in 1..Len(trail_lim)
    BY <1>1, <1>5
  <2>2. trail_lim[1] \in Nat
    BY <2>1, TrailFacts
  <2>3. ASSUME NEW n \in (trail_lim[1] + 1)..Len(trail), reason[abs(trail[n])] = Undef
        PROVE  -trail[n] \in {-l : l \in Set(assumptions)}
    <3>1. n \in 1..Len(trail) /\ ~AtRoot(n)
      BY <2>1, <2>2 DEF AtRoot
    <3>2. PICK k \in 1..Len(trail_lim) : k <= Len(assumptions) => trail[n] = assumptions[k]
      BY <2>3, <3>1 DEF DecisionInv
    <3>3. k \in 1..Len(assumptions)
      BY <1>1
    <3> QED
      BY <1>2, <3>2, <3>3
  <2> QED
    BY <1>3, <1>5, <2>3 DEF analyzeFinal
<1> QED
  BY <1>4, <1>5

\* The trail is cut to its first m places and d levels; one level that starts there
\* and one literal whose variable has no value may follow.
Moves(m, d) ==
    /\ m \in 0..Len(trail) /\ d \in 0..Len(trail_lim)
    /\ m = IF d < Len(trail_lim) THEN trail_lim[d + 1] ELSE Len(trail)
    /\ trail' \in Seq(Lit) /\ Len(trail') \in {m, m + 1}
    /\ \A n \in 1..m : trail'[n] = trail[n]
    /\ \A n \in 1..m : Len(trail') = m + 1 => abs(trail'[m + 1]) # abs(trail[n])
    /\ trail_lim' \in Seq(Nat) /\ Len(trail_lim') \in {d, d + 1}
    /\ \A k \in 1..d : trail_lim'[k] = trail_lim[k]
    /\ Len(trail_lim') = d + 1 => trail_lim'[d + 1] = m

\* The levels that are kept end before the cut, the others do not.
LEMMA KeptLevels ==
    ASSUME TrailInv, NEW m, NEW d, Moves(m, d)
    PROVE  /\ m \in Nat /\ d \in Nat /\ m <= Len(trail) /\ Len(trail) \in Nat /\ d <= Len(trail_lim)
           /\ Len(trail') \in Nat /\ Len(trail_lim') \in Nat /\ Len(trail_lim) \in Nat
           /\ \A k \in 1..Len(trail_lim) : trail_lim[k] \in Nat
           /\ \A k \in 1..Len(trail_lim') : trail_lim'[k] \in Nat
           /\ \A k \in 1..d : k \in 1..Len(trail_lim) /\ k \in 1..Len(trail_lim')
                              /\ trail_lim[k] <= m /\ trail_lim'[k] = trail_lim[k]
           /\ \A k \in 1..Len(trail_lim) : k > d => m <= trail_lim[k]
           /\ \A k \in 1..Len(trail_lim') : k > d => k = d + 1 /\ trail_lim'[k] = m
<1>1. /\ Len(trail) \in Nat /\ Len(trail_lim) \in Nat
      /\ \A k \in 1..Len(trail_lim) : trail_lim[k] \in Nat /\ trail_lim[k] <= Len(trail)
      /\ \A j, k \in 1..Len(trail_lim) : j <= k => trail_lim[j] <= trail_lim[k]
  BY TrailFacts DEF TrailInv
<1>2. /\ m \in 0..Len(trail) /\ d \in 0..Len(trail_lim)
      /\ m = IF d < Len(trail_lim) THEN trail_lim[d + 1] ELSE Len(trail)
      /\ trail_lim' \in Seq(Nat) /\ Len(trail_lim') \in {d, d + 1}
      /\ \A k \in 1..d : trail_lim'[k] = trail_lim[k]
      /\ Len(trail_lim') = d + 1 => trail_lim'[d + 1] = m
      /\ trail' \in Seq(Lit)
  BY DEF Moves
<1>3. m \in Nat /\ d \in Nat /\ m <= Len(trail) /\ d <= Len(trail_lim) /\ Len(trail') \in Nat /\ Len(trail_lim') \in Nat
  BY <1>1, <1>2
<1>4. \A k \in 1..Len(trail_lim') : trail_lim'[k] \in Nat
  BY <1>2, SMTT(40)
<1>5. ASSUME NEW k \in 1..d
      PROVE  k \in 1..Len(trail_lim) /\ k \in 1..Len(trail_lim')
             /\ trail_lim[k] <= m /\ trail_lim'[k] = trail_lim[k]
  <2>1. k \in 1..Len(trail_lim) /\ k \in 1..Len(trail_lim')
    BY <1>1, <1>2, <1>3
  <2>2. CASE d < Len(trail_lim)
    <3>1. d + 1 \in 1..Len(trail_lim) /\ k <= d + 1
      BY <1>1, <1>3, <2>2
    <3> QED
      BY <1>1, <1>2, <2>1, <2>2, <3>1
  <2>3. CASE ~(d < Len(trail_lim))
    BY <1>1, <1>2, <2>1, <2>3
  <2> QED
    BY <2>2, <2>3
<1>6. ASSUME NEW k \in 1..Len(trail_lim), k > d PROVE m <= trail_lim[k]
  <2>1. d < Len(trail_lim) /\ d + 1 \in 1..Len(trail_lim) /\ d + 1 <= k
    BY <1>1, <1>3, <1>6
  <2> QED
    BY <1>1, <1>2, <2>1
<1>7. ASSUME NEW k \in 1..Len(trail_lim'), k > d PROVE k = d + 1 /\ trail_lim'[k] = m
  <2>1. k = d + 1 /\ Len(trail_lim') = d + 1
    BY <1>2, <1>3, <1>7
  <2> QED
    BY <1>2, <2>1
<1> QED
  BY <1>1, <1>3, <1>4, <1>5, <1>6, <1>7

\* Places of the trail that are kept.
LEMMA KeptPlaces ==
    ASSUME TrailInv, NEW m, NEW d, Moves(m, d)
    PROVE  /\ \A n \in 1..m : n \in 1..Len(trail) /\ n \in 1..Len(trail') /\ trail'[n] = trail[n]
           /\ \A n \in 1..Len(trail') : n \in 1..m \/ (n = m + 1 /\ Len(trail') = m + 1)
           /\ \A n \in 1..m : AtRoot(n)' <=> AtRoot(n)
           /\ \A n \in 1..Len(trail) : AtRoot(n) => n \in 1..m
           /\ decisionLevel' = Len(trail_lim') /\ decisionLevel = Len(trail_lim)
<1>1. /\ m \in Nat /\ d \in Nat /\ m <= Len(trail) /\ Len(trail) \in Nat /\ d <= Len(trail_lim)
      /\ Len(trail') \in Nat /\ Len(trail_lim') \in Nat /\ Len(trail_lim) \in Nat
      /\ \A k \in 1..Len(trail_lim) : trail_lim[k] \in Nat
      /\ \A k \in 1..d : k \in 1..Len(trail_lim) /\ k \in 1..Len(trail_lim')
                         /\ trail_lim[k] <= m /\ trail_lim'[k] = trail_lim[k]
      /\ \A k \in 1..Len(trail_lim) : k > d => m <= trail_lim[k]
      /\ \A k \in 1..Len(trail_lim') : k > d => k = d + 1 /\ trail_lim'[k] = m
  BY KeptLevels
<1>2. /\ Len(trail') \in {m, m + 1} /\ \A n \in 1..m : trail'[n] = trail[n]
      /\ d = Len(trail_lim) => m = Len(trail)
  BY <1>1 DEF Moves
<1>3. decisionLevel' = Len(trail_lim') /\ decisionLevel = Len(trail_lim)
  BY DEF decisionLevel
<1>4. /\ \A n \in 1..m : n \in 1..Len(trail) /\ n \in 1..Len(trail') /\ trail'[n] = trail[n]
      /\ \A n \in 1..Len(trail') : n \in 1..m \/ (n = m + 1 /\ Len(trail') = m + 1)
  BY <1>1, <1>2
<1>5. ASSUME NEW n \in 1..m PROVE AtRoot(n)' <=> AtRoot(n)
  <2>1. CASE d = 0
    <3>1. AtRoot(n)
      <4>1. CASE Len(trail_lim) > 0
        <5>1. 1 \in 1..Len(trail_lim) /\ 1 > d
          BY <1>1, <2>1, <4>1
        <5> QED
          BY <1>1, <5>1 DEF AtRoot
      <4> QED
        BY <1>3, <4>1 DEF AtRoot
    <3>2. AtRoot(n)'
      <4>1. CASE Len(trail_lim') > 0
        <5>1. 1 \in 1..Len(trail_lim') /\ 1 > d
          BY <1>1, <2>1, <4>1
        <5> QED
          BY <1>1, <5>1 DEF AtRoot
      <4> QED
        BY <1>3, <4>1 DEF AtRoot
    <3> QED
      BY <3>1, <3>2
  <2>2. CASE d # 0
    <3>1. 1 \in 1..d /\ Len(trail_lim) > 0 /\ Len(trail_lim') > 0
      BY <1>1, <2>2
    <3> QED
      BY <1>1, <1>3, <3>1 DEF AtRoot
  <2> QED
    BY <2>1, <2>2
<1>6. ASSUME NEW n \in 1..Len(trail), AtRoot(n) PROVE n \in 1..m
  <2>1. CASE Len(trail_lim) = 0
    BY <1>1, <1>2, <2>1
  <2>2. CASE Len(trail_lim) # 0
    <3>1. 1 \in 1..Len(trail_lim) /\ n <= trail_lim[1]
      BY <1>1, <1>3, <1>6, <2>2 DEF AtRoot
    <3>2. CASE d = 0
      BY <1>1, <1>6, <3>1, <3>2 DEF Moves
    <3>3. CASE d # 0
      <4>1. 1 \in 1..d
        BY <1>1, <3>3
      <4> QED
        BY <1>1, <3>1, <4>1
    <3> QED
      BY <3>2, <3>3
  <2> QED
    BY <2>1, <2>2
<1> QED
  BY <1>3, <1>4, <1>5, <1>6

\* The kinds of moves: the trail stays, ...
LEMMA MoveNone ==
    ASSUME TrailInv, UNCHANGED <<trail, trail_lim>>
    PROVE  Moves(Len(trail), Len(trail_lim)) /\ Len(trail') = Len(trail)
<1>1. /\ trail \in Seq(Lit) /\ trail_lim \in Seq(Nat) /\ Len(trail) \in Nat /\ Len(trail_lim) \in Nat
      /\ trail' = trail /\ trail_lim' = trail_lim
  BY DEF TrailInv
<1> QED
  BY <1>1 DEF Moves

\* ... a literal without a value is put on it, ...
LEMMA MoveEnqueue ==
    ASSUME TrailInv, NEW l \in Lit, ~True(l), ~False(l), trail' = Append(trail, l),
           trail_lim' = trail_lim \/ trail_lim' = Append(trail_lim, Len(trail))
    PROVE  /\ Moves(Len(trail), Len(trail_lim)) /\ Len(trail') = Len(trail) + 1
           /\ trail'[Len(trail) + 1] = l
<1>1. /\ trail \in Seq(Lit) /\ trail_lim \in Seq(Nat) /\ Len(trail) \in Nat /\ Len(trail_lim) \in Nat
      /\ \A n \in 1..Len(trail) : trail[n] \in Lit
      /\ True(l) <=> \E n \in 1..Len(trail) : trail[n] = l
      /\ False(l) <=> \E n \in 1..Len(trail) : trail[n] = -l
  BY TrailFacts DEF TrailInv
<1>2. /\ trail' \in Seq(Lit) /\ Len(trail') = Len(trail) + 1
      /\ \A n \in 1..Len(trail) : trail'[n] = trail[n]
      /\ trail'[Len(trail) + 1] = l
  BY <1>1, AppendElements
<1>3. \A n \in 1..Len(trail) : abs(l) # abs(trail[n])
  <2> SUFFICES ASSUME NEW n \in 1..Len(trail), abs(l) = abs(trail[n]) PROVE FALSE
    OBVIOUS
  <2>1. l = trail[n] \/ l = -trail[n]
    BY <1>1, LitFacts
  <2>2. trail[n] = l \/ trail[n] = -l
    BY <1>1, <2>1, LitFacts
  <2> QED
    BY <1>1, <2>2
<1>4. /\ trail_lim' \in Seq(Nat) /\ Len(trail_lim') \in {Len(trail_lim), Len(trail_lim) + 1}
      /\ \A k \in 1..Len(trail_lim) : trail_lim'[k] = trail_lim[k]
      /\ Len(trail_lim') = Len(trail_lim) + 1 => trail_lim'[Len(trail_lim) + 1] = Len(trail)
  <2>1. CASE trail_lim' = trail_lim
    BY <1>1, <2>1
  <2>2. CASE trail_lim' = Append(trail_lim, Len(trail))
    BY <1>1, <2>2, AppendElements
  <2> QED
    BY <2>1, <2>2
<1>5. Len(trail) \in 0..Len(trail) /\ Len(trail_lim) \in 0..Len(trail_lim)
  BY <1>1
<1> QED
  BY <1>1, <1>2, <1>3, <1>4, <1>5 DEF Moves

\* ... a level starts without a literal, ...
LEMMA MoveLevel ==
    ASSUME TrailInv, trail' = trail, trail_lim' = Append(trail_lim, Len(trail))
    PROVE  Moves(Len(trail), Len(trail_lim)) /\ Len(trail') = Len(trail)
<1>1. /\ trail \in Seq(Lit) /\ trail_lim \in Seq(Nat) /\ Len(trail) \in Nat /\ Len(trail_lim) \in Nat
  BY DEF TrailInv
<1>2. /\ trail_lim' \in Seq(Nat) /\ Len(trail_lim') = Len(trail_lim) + 1
      /\ \A k \in 1..Len(trail_lim) : trail_lim'[k] = trail_lim[k]
      /\ trail_lim'[Len(trail_lim) + 1] = Len(trail)
  BY <1>1, AppendElements
<1> QED
  BY <1>1, <1>2 DEF Moves

\* ... or all levels are given up.
LEMMA MoveCancel ==
    ASSUME TrailInv, cancelUntil(0), qhead = Len(trail) + 1
    PROVE  \E m : /\ Moves(m, 0) /\ Len(trail') = m /\ Len(trail_lim') = 0 /\ trail_lim' = <<>>
                  /\ qhead' = m + 1
<1>1. /\ trail \in Seq(Lit) /\ trail_lim \in Seq(Nat) /\ Len(trail) \in Nat /\ Len(trail_lim) \in Nat
      /\ \A k \in 1..Len(trail_lim) : trail_lim[k] \in Nat /\ trail_lim[k] <= Len(trail)
      /\ decisionLevel = Len(trail_lim)
  BY TrailFacts DEF TrailInv
<1>2. CASE Len(trail_lim) = 0
  <2>1. trail' = trail /\ trail_lim' = trail_lim /\ qhead' = qhead
    BY <1>1, <1>2 DEF cancelUntil
  <2>2. trail_lim' = <<>>
    BY <1>1, <1>2, <2>1
  <2>3. Moves(Len(trail), 0)
    BY <1>2, <2>1, MoveNone
  <2> QED
    BY <1>2, <2>1, <2>2, <2>3
<1>3. CASE Len(trail_lim) # 0
  <2>1. /\ trail' = SubSeq(trail, 1, trail_lim[1]) /\ qhead' = trail_lim[1] + 1
        /\ trail_lim' = SubSeq(trail_lim, 1, 0)
    BY <1>1, <1>3 DEF cancelUntil
  <2>2. 1 \in 1..Len(trail_lim) /\ trail_lim[1] \in 0..Len(trail) /\ 0 < Len(trail_lim) /\ 0 \in 0..Len(trail_lim)
    BY <1>1, <1>3
  <2>3. /\ trail' \in Seq(Lit) /\ Len(trail') = trail_lim[1]
        /\ \A n \in 1..trail_lim[1] : trail'[n] = trail[n]
    BY <1>1, <2>1, <2>2, PrefixElements
  <2>4. trail_lim' = <<>> /\ Len(trail_lim') = 0 /\ trail_lim' \in Seq(Nat)
    BY <1>1, <2>1
  <2>5. trail_lim[1] + 1 # trail_lim[1] /\ 0 + 1 = 1 /\ 1..0 = {}
    BY <2>2
  <2>6. Moves(trail_lim[1], 0)
    BY <2>2, <2>3, <2>4, <2>5 DEF Moves
  <2> QED
    BY <2>1, <2>3, <2>4, <2>6
<1> QED
  BY <1>2, <1>3

\* TrailInv after a move.
LEMMA MoveTrail ==
    ASSUME TrailInv, NEW m, NEW d, Moves(m, d), qhead' \in 1..(Len(trail') + 1),
           reason' \in [Var -> CRef \cup {Undef}]
    PROVE  TrailInv'
<1>1. /\ m \in Nat /\ d \in Nat /\ m <= Len(trail) /\ Len(trail) \in Nat /\ d <= Len(trail_lim)
      /\ Len(trail') \in Nat /\ Len(trail_lim') \in Nat /\ Len(trail_lim) \in Nat
      /\ \A k \in 1..Len(trail_lim) : trail_lim[k] \in Nat
      /\ \A k \in 1..d : k \in 1..Len(trail_lim) /\ k \in 1..Len(trail_lim')
                         /\ trail_lim[k] <= m /\ trail_lim'[k] = trail_lim[k]
      /\ \A k \in 1..Len(trail_lim') : k > d => k = d + 1 /\ trail_lim'[k] = m
  BY KeptLevels
<1>2. /\ \A n \in 1..m : n \in 1..Len(trail) /\ n \in 1..Len(trail') /\ trail'[n] = trail[n]
      /\ \A n \in 1..Len(trail') : n \in 1..m \/ (n = m + 1 /\ Len(trail') = m + 1)
  BY KeptPlaces
<1>3. /\ trail' \in Seq(Lit) /\ trail_lim' \in Seq(Nat) /\ Len(trail') \in {m, m + 1}
      /\ \A n \in 1..m : Len(trail') = m + 1 => abs(trail'[m + 1]) # abs(trail[n])
  BY DEF Moves
<1>4. ASSUME NEW i \in 1..Len(trail'), NEW j \in 1..Len(trail'), abs(trail'[i]) = abs(trail'[j])
      PROVE  i = j
  <2>1. CASE i \in 1..m /\ j \in 1..m
    BY <1>2, <1>4, <2>1 DEF TrailInv
  <2>2. CASE i \notin 1..m \/ j \notin 1..m
    BY <1>2, <1>3, <1>4, <2>2
  <2> QED
    BY <2>1, <2>2
<1>5. \A k \in 1..Len(trail_lim') : trail_lim'[k] <= m /\ trail_lim'[k] <= Len(trail') /\ (k \in 1..d \/ k = d + 1)
  BY <1>1, <1>3, SMTT(40)
<1>6. ASSUME NEW j \in 1..Len(trail_lim'), NEW k \in 1..Len(trail_lim'), j <= k
      PROVE  trail_lim'[j] <= trail_lim'[k]
  <2>1. CASE k \in 1..d
    <3>1. j \in 1..d /\ trail_lim[j] <= trail_lim[k]
      BY <1>1, <1>6, <2>1, SMTT(40) DEF TrailInv
    <3> QED
      BY <1>1, <2>1, <3>1
  <2>2. CASE k \notin 1..d
    BY <1>1, <1>5, <2>2
  <2> QED
    BY <2>1, <2>2
<1> QED
  BY <1>3, <1>4, <1>5, <1>6 DEF TrailInv

\* A fact of level 0 stays one.
LEMMA RootKept ==
    ASSUME TrailInv, NEW m, NEW d, Moves(m, d), NEW l,
           \E n \in 1..Len(trail) : trail[n] = l /\ AtRoot(n)
    PROVE  \E n \in 1..Len(trail') : trail'[n] = l /\ AtRoot(n)'
<1>1. PICK n \in 1..Len(trail) : trail[n] = l /\ AtRoot(n)
  OBVIOUS
<1>2. n \in 1..m
  BY <1>1, KeptPlaces
<1>3. n \in 1..Len(trail') /\ trail'[n] = trail[n] /\ (AtRoot(n)' <=> AtRoot(n))
  BY <1>2, KeptPlaces
<1> QED
  BY <1>1, <1>3

\* What is satisfied before the cut stays so.
LEMMA GuardKept ==
    ASSUME TrailInv, NEW m, NEW d, Moves(m, d), NEW c, NEW n \in 1..m, Guarded(c, n)
    PROVE  Guarded(c, n)'
<1>1. /\ m \in Nat /\ d \in Nat /\ m <= Len(trail) /\ Len(trail) \in Nat /\ d <= Len(trail_lim)
      /\ Len(trail') \in Nat /\ Len(trail_lim') \in Nat /\ Len(trail_lim) \in Nat
      /\ \A k \in 1..Len(trail_lim) : trail_lim[k] \in Nat
      /\ \A k \in 1..d : k \in 1..Len(trail_lim) /\ k \in 1..Len(trail_lim')
                         /\ trail_lim[k] <= m /\ trail_lim'[k] = trail_lim[k]
      /\ \A k \in 1..Len(trail_lim') : k > d => k = d + 1 /\ trail_lim'[k] = m
  BY KeptLevels
<1>2. PICK p \in 1..Len(trail) : trail[p] \in Set(c) /\ \A k \in 1..Len(trail_lim) : n <= trail_lim[k] => p <= trail_lim[k]
  BY DEF Guarded
<1>3. p \in 1..m
  <2>1. CASE d < Len(trail_lim)
    <3>1. d + 1 \in 1..Len(trail_lim) /\ m = trail_lim[d + 1]
      BY <1>1, <2>1 DEF Moves
    <3> QED
      BY <1>1, <1>2, <3>1
  <2>2. CASE ~(d < Len(trail_lim))
    BY <1>1, <2>2 DEF Moves
  <2> QED
    BY <2>1, <2>2
<1>4. p \in 1..Len(trail') /\ trail'[p] \in Set(c)
  BY <1>2, <1>3, KeptPlaces
<1>5. ASSUME NEW k \in 1..Len(trail_lim'), n <= trail_lim'[k] PROVE p <= trail_lim'[k]
  <2>1. CASE k \in 1..d
    BY <1>1, <1>2, <1>5, <2>1
  <2>2. CASE k \notin 1..d
    BY <1>1, <1>3, <2>2
  <2> QED
    BY <2>1, <2>2
<1> QED
  BY <1>4, <1>5 DEF Guarded

\* The place n has its reason, or none.
HasReason(n) ==
    LET c == ca[reason[abs(trail[n])]]
    IN  /\ c # NoClause /\ c.lits[1] = trail[n]
        /\ \A k \in 2..Len(c.lits) : \E m \in 1..(n - 1) : trail[m] = -c.lits[k]

\* ReasonInv after a move: the clauses behind the facts that stay are as they were.
LEMMA MoveReason ==
    ASSUME TrailInv, ReasonInv, NEW m, NEW d, Moves(m, d),
           \A n \in 1..m : reason'[abs(trail[n])] = reason[abs(trail[n])],
           \A n \in 1..m : reason[abs(trail[n])] # Undef =>
               ca'[reason[abs(trail[n])]] = ca[reason[abs(trail[n])]],
           Len(trail') = m + 1 /\ reason'[abs(trail'[m + 1])] # Undef => HasReason(m + 1)'
    PROVE  ReasonInv'
<1>1. /\ \A n \in 1..m : n \in 1..Len(trail) /\ n \in 1..Len(trail') /\ trail'[n] = trail[n]
      /\ \A n \in 1..Len(trail') : n \in 1..m \/ (n = m + 1 /\ Len(trail') = m + 1)
  BY KeptPlaces
<1>2. m \in Nat
  BY KeptLevels
<1>3. ReasonInv' <=> \A n \in 1..Len(trail') : reason'[abs(trail'[n])] # Undef => HasReason(n)'
  BY DEF ReasonInv, HasReason
<1>4. ASSUME NEW n \in 1..m, reason'[abs(trail'[n])] # Undef PROVE HasReason(n)'
  <2>1. n \in 1..Len(trail) /\ trail'[n] = trail[n] /\ reason[abs(trail[n])] # Undef
    BY <1>1, <1>4
  <2>2. HasReason(n)
    BY <2>1 DEF ReasonInv, HasReason
  <2>3. ca'[reason[abs(trail[n])]] = ca[reason[abs(trail[n])]] /\ reason'[abs(trail[n])] = reason[abs(trail[n])]
    BY <2>1
  <2>4. \A j \in 1..(n - 1) : trail'[j] = trail[j]
    <3>1. \A j \in 1..(n - 1) : j \in 1..m
      BY <1>2
    <3> QED
      BY <1>1, <3>1
  <2> QED
    BY <2>1, <2>2, <2>3, <2>4, SMTT(40) DEF HasReason
<1> QED
  BY <1>1, <1>3, <1>4

\* DecisionInv after a move: what is enqueued without a reason opens a level.
LEMMA MoveDecision ==
    ASSUME TrailInv, DecisionInv, NEW m, NEW d, Moves(m, d), UNCHANGED assumptions,
           \A n \in 1..m : reason'[abs(trail[n])] = reason[abs(trail[n])],
           Len(trail') = m + 1 /\ reason'[abs(trail'[m + 1])] = Undef =>
              \/ AtRoot(m + 1)'
              \/ /\ Len(trail_lim') = d + 1
                 /\ d + 1 <= Len(assumptions) => trail'[m + 1] = assumptions[d + 1]
    PROVE  DecisionInv'
<1>1. /\ \A n \in 1..m : n \in 1..Len(trail) /\ n \in 1..Len(trail') /\ trail'[n] = trail[n]
      /\ \A n \in 1..Len(trail') : n \in 1..m \/ (n = m + 1 /\ Len(trail') = m + 1)
      /\ \A n \in 1..m : AtRoot(n)' <=> AtRoot(n)
  BY KeptPlaces
<1>2. /\ m \in Nat /\ d \in Nat
      /\ \A k \in 1..Len(trail_lim) : trail_lim[k] \in Nat
      /\ \A k \in 1..d : k \in 1..Len(trail_lim) /\ k \in 1..Len(trail_lim')
                         /\ trail_lim[k] <= m /\ trail_lim'[k] = trail_lim[k]
      /\ \A k \in 1..Len(trail_lim) : k > d => m <= trail_lim[k]
      /\ \A k \in 1..Len(trail_lim') : k > d => k = d + 1 /\ trail_lim'[k] = m
  BY KeptLevels
<1>3. SUFFICES ASSUME NEW n \in 1..Len(trail'), reason'[abs(trail'[n])] = Undef, ~AtRoot(n)'
               PROVE  \E k \in 1..Len(trail_lim') :
                        n = trail_lim'[k] + 1 /\ (k <= Len(assumptions') => trail'[n] = assumptions'[k])
  BY DEF DecisionInv
<1>4. CASE n \in 1..m
  <2>1. PICK k \in 1..Len(trail_lim) :
          n = trail_lim[k] + 1 /\ (k <= Len(assumptions) => trail[n] = assumptions[k])
    BY <1>1, <1>3, <1>4 DEF DecisionInv
  <2>2. k \in 1..d
    BY <1>2, <1>4, <2>1
  <2> QED
    BY <1>1, <1>2, <1>4, <2>1, <2>2
<1>5. CASE n \notin 1..m
  <2>1. n = m + 1 /\ Len(trail') = m + 1 /\ Len(trail_lim') = d + 1
        /\ (d + 1 <= Len(assumptions) => trail'[m + 1] = assumptions[d + 1])
    BY <1>1, <1>3, <1>5
  <2>2. d + 1 \in 1..Len(trail_lim') /\ trail_lim'[d + 1] = m
    BY <1>2, <2>1
  <2> QED
    BY <2>1, <2>2
<1> QED
  BY <1>4, <1>5

\* AssumeInv after a move: a new level has made its assumption true.
LEMMA MoveAssume ==
    ASSUME TrailInv, AssumeInv, NEW m, NEW d, Moves(m, d), UNCHANGED assumptions,
           Len(trail_lim') = d + 1 /\ d + 1 <= Len(assumptions) =>
               \E n \in 1..Len(trail') : trail'[n] = assumptions[d + 1]
    PROVE  AssumeInv'
<1>1. /\ \A n \in 1..m : n \in 1..Len(trail) /\ n \in 1..Len(trail') /\ trail'[n] = trail[n]
      /\ \A n \in 1..Len(trail') : n \in 1..m \/ (n = m + 1 /\ Len(trail') = m + 1)
  BY KeptPlaces
<1>2. /\ m \in Nat /\ d \in Nat /\ d <= Len(trail_lim) /\ Len(trail') \in Nat
      /\ m <= Len(trail) /\ Len(trail) \in Nat /\ Len(trail_lim) \in Nat /\ Len(trail_lim') \in Nat
      /\ \A k \in 1..Len(trail_lim) : trail_lim[k] \in Nat
      /\ \A k \in 1..d : k \in 1..Len(trail_lim) /\ k \in 1..Len(trail_lim')
                         /\ trail_lim[k] <= m /\ trail_lim'[k] = trail_lim[k]
      /\ \A k \in 1..Len(trail_lim) : k > d => m <= trail_lim[k]
      /\ \A k \in 1..Len(trail_lim') : k > d => k = d + 1 /\ trail_lim'[k] = m
  BY KeptLevels
<1>a. Len(trail_lim') \in {d, d + 1}
  BY DEF Moves
<1>3. SUFFICES ASSUME NEW k \in 1..Len(trail_lim'), k <= Len(assumptions')
               PROVE  \E n \in 1..Len(trail') :
                        /\ trail'[n] = assumptions'[k] /\ n <= trail_lim'[k] + 1
                        /\ k < Len(trail_lim') => n <= trail_lim'[k + 1]
  BY DEF AssumeInv
<1>4. CASE k \in 1..d
  <2>1. PICK n \in 1..Len(trail) :
          /\ trail[n] = assumptions[k] /\ n <= trail_lim[k] + 1
          /\ k < Len(trail_lim) => n <= trail_lim[k + 1]
    BY <1>2, <1>3, <1>4 DEF AssumeInv
  <2>2. n \in 1..m
    <3>1. CASE d < Len(trail_lim)
      <4>1. m = trail_lim[d + 1] /\ d + 1 \in 1..Len(trail_lim)
        BY <1>2, <3>1 DEF Moves
      <4>2. CASE k = d
        BY <1>2, <2>1, <3>1, <4>1, <4>2
      <4>3. CASE k # d
        <5>1. k + 1 \in 1..d /\ k < Len(trail_lim)
          BY <1>2, <1>4, <4>3
        <5> QED
          BY <1>2, <2>1, <5>1
      <4> QED
        BY <4>2, <4>3
    <3>2. CASE ~(d < Len(trail_lim))
      BY <1>2, <3>2 DEF Moves
    <3> QED
      BY <3>1, <3>2
  <2>3. n \in 1..Len(trail') /\ trail'[n] = assumptions'[k] /\ n <= trail_lim'[k] + 1
    BY <1>1, <1>2, <1>4, <2>1, <2>2
  <2>4. ASSUME k < Len(trail_lim') PROVE n <= trail_lim'[k + 1]
    <3>1. CASE k = d
      <4>1. k + 1 \in 1..Len(trail_lim') /\ k + 1 > d
        BY <1>2, <2>4, <3>1
      <4> QED
        BY <1>2, <2>2, <4>1
    <3>2. CASE k # d
      <4>1. k + 1 \in 1..d /\ k < Len(trail_lim)
        BY <1>2, <1>4, <3>2
      <4> QED
        BY <1>2, <2>1, <4>1
    <3> QED
      BY <3>1, <3>2
  <2> QED
    BY <2>3, <2>4
<1>5. CASE k \notin 1..d
  <2>1. k = d + 1 /\ trail_lim'[k] = m /\ Len(trail_lim') = d + 1
    BY <1>2, <1>3, <1>5, <1>a
  <2>2. PICK n \in 1..Len(trail') : trail'[n] = assumptions[d + 1]
    BY <1>3, <2>1
  <2>3. n <= m + 1
    BY <1>1, <1>2, <2>2
  <2> QED
    BY <1>2, <2>1, <2>2, <2>3
<1> QED
  BY <1>4, <1>5

\* The formula stays.
LEMMA ImpliedSame ==
    ASSUME UNCHANGED problem
    PROVE  Models' = Models /\ \A C : Implied(C)' <=> Implied(C)
  BY DEF Models, Implied

\* ImpliedInv after a move: what is enqueued at level 0 follows from the formula.
LEMMA MoveImplied ==
    ASSUME TrailInv, ImpliedInv, NEW m, NEW d, Moves(m, d), UNCHANGED problem,
           \A cr \in CRef : ca'[cr] # NoClause => Implied(Set(ca'[cr].lits)),
           Len(trail') = m + 1 /\ AtRoot(m + 1)' => Implied({trail'[m + 1]})
    PROVE  ImpliedInv'
<1>1. /\ \A n \in 1..m : n \in 1..Len(trail) /\ n \in 1..Len(trail') /\ trail'[n] = trail[n]
      /\ \A n \in 1..Len(trail') : n \in 1..m \/ (n = m + 1 /\ Len(trail') = m + 1)
      /\ \A n \in 1..m : AtRoot(n)' <=> AtRoot(n)
  BY KeptPlaces
<1>2. ASSUME NEW n \in 1..Len(trail'), AtRoot(n)' PROVE Implied({trail[n]})'
  <2>1. CASE n \in 1..m
    <3>1. Implied({trail[n]}) /\ trail'[n] = trail[n]
      BY <1>1, <1>2, <2>1 DEF ImpliedInv
    <3> QED
      BY <3>1 DEF Implied, Models
  <2>2. CASE n \notin 1..m
    <3>1. Implied({trail'[m + 1]}) /\ n = m + 1
      BY <1>1, <1>2, <2>2
    <3> QED
      BY <3>1 DEF Implied, Models
  <2> QED
    BY <2>1, <2>2
<1>3. ASSUME NEW cr \in CRef, ca'[cr] # NoClause PROVE Implied(Set(ca[cr].lits))'
  BY <1>3 DEF Implied, Models, Set
<1> QED
  BY <1>2, <1>3 DEF ImpliedInv

\* A clause of the formula stays covered.
LEMMA CoveredKept ==
    ASSUME TrailInv, NEW m, NEW d, Moves(m, d), UNCHANGED problem, NEW n, Covered(n),
           \A cr \in CRef : ca[cr].origin = "formula" =>
               ca'[cr].origin = "formula" /\ Set(ca'[cr].lits) \subseteq Set(ca[cr].lits)
    PROVE  Covered(n)'
<1>1. PICK C : C = Set(problem.formula[n]) /\ C = Set(problem.formula[n])'
  BY DEF Set
<1>2. CASE \E l \in C : -l \in C
  BY <1>1, <1>2 DEF Covered, Set
<1>3. CASE \E k \in 1..Len(trail) : trail[k] \in C /\ AtRoot(k)
  <2>1. PICK k \in 1..Len(trail) : trail[k] \in C /\ AtRoot(k)
    BY <1>3
  <2>2. PICK l : l = trail[k]
    OBVIOUS
  <2>3. \E j \in 1..Len(trail') : trail'[j] = l /\ AtRoot(j)'
    BY <2>1, <2>2, RootKept
  <2>4. \E j \in 1..Len(trail') : trail'[j] \in C /\ AtRoot(j)'
    BY <2>1, <2>2, <2>3
  <2> QED
    BY <1>1, <2>4 DEF Covered, Set
<1>4. CASE \E cr \in CRef : ca[cr].origin = "formula" /\ Set(ca[cr].lits) \subseteq C
  <2>1. \E cr \in CRef : ca'[cr].origin = "formula" /\ Set(ca'[cr].lits) \subseteq C
    BY <1>4
  <2> QED
    BY <1>1, <2>1 DEF Covered, Set
<1> QED
  BY <1>1, <1>2, <1>3, <1>4 DEF Covered

\* LoadedInv after a move: clauses of the formula stay or become shorter.
LEMMA MoveLoaded ==
    ASSUME TrailInv, LoadedInv, NEW m, NEW d, Moves(m, d), UNCHANGED <<problem, loaded>>, ok' => ok,
           \A cr \in CRef : ca[cr].origin = "formula" =>
               ca'[cr].origin = "formula" /\ Set(ca'[cr].lits) \subseteq Set(ca[cr].lits)
    PROVE  LoadedInv'
<1>1. ASSUME ok, NEW n \in 1..loaded PROVE Covered(n)'
  <2>1. Covered(n)
    BY <1>1 DEF LoadedInv
  <2> QED
    BY <2>1, CoveredKept
<1>2. loaded' = loaded
  OBVIOUS
<1> QED
  BY <1>1, <1>2 DEF LoadedInv

\* One clause more is loaded.
LEMMA LoadedMore ==
    ASSUME TrailInv, LoadedInv, NEW m, NEW d, Moves(m, d), UNCHANGED problem, ok' => ok,
           loaded \in Nat, NEW k, k = loaded + 1, loaded' = k, ok' => Covered(k)',
           \A cr \in CRef : ca[cr].origin = "formula" =>
               ca'[cr].origin = "formula" /\ Set(ca'[cr].lits) \subseteq Set(ca[cr].lits)
    PROVE  LoadedInv'
<1>1. ASSUME ok', NEW n \in 1..k PROVE Covered(n)'
  <2>1. CASE n \in 1..loaded
    <3>1. Covered(n)
      BY <1>1, <2>1 DEF LoadedInv
    <3> QED
      BY <3>1, CoveredKept
  <2>2. CASE n \notin 1..loaded
    <3>1. n = k
      BY <2>2
    <3> QED
      BY <1>1, <3>1
  <2> QED
    BY <2>1, <2>2
<1> QED
  BY <1>1 DEF LoadedInv

\* A clause is settled at the places it was settled at, if its true literals are kept.
LEMMA SettledKept ==
    ASSUME TrailInv, NEW m, NEW d, Moves(m, d), NEW cr \in CRef, Settled(cr), NEW c,
           \A n \in 1..Len(trail) : trail[n] \in Set(ca[cr].lits) => trail[n] \in Set(c),
           NEW n \in 1..m, NEW i \in {1, 2}, trail[n] = -ca[cr].lits[i], Visited(cr, n)
    PROVE  Guarded(c, n)'
<1>1. n \in 1..Len(trail)
  BY KeptPlaces
<1>2. Guarded(ca[cr].lits, n)
  BY <1>1 DEF Settled
<1>3. Guarded(c, n)
  BY <1>2 DEF Guarded
<1> QED
  BY <1>3, GuardKept

\* A clause that is not touched while nothing is visited.
LEMMA SettledSame ==
    ASSUME TrailInv, NEW m, NEW d, Moves(m, d), NEW cr \in CRef, Settled(cr), ca'[cr] = ca[cr],
           qhead' <= m + 1, qhead' \in Nat, \A n \in 1..m : Visited(cr, n)' => Visited(cr, n)
    PROVE  Settled(cr)'
<1>1. /\ \A n \in 1..m : n \in 1..Len(trail) /\ n \in 1..Len(trail') /\ trail'[n] = trail[n]
      /\ \A n \in 1..Len(trail') : n \in 1..m \/ (n = m + 1 /\ Len(trail') = m + 1)
  BY KeptPlaces
<1>2. PICK c : c = ca[cr].lits
  OBVIOUS
<1>3. ASSUME NEW i \in {1, 2}, NEW n \in 1..Len(trail'), trail'[n] = -c[i], Visited(cr, n)'
      PROVE  Guarded(c, n)'
  <2>1. n < qhead' /\ m \in Nat
    BY <1>3, KeptLevels DEF Visited
  <2>2. n \in 1..m
    BY <1>1, <2>1
  <2>3. trail[n] = -ca[cr].lits[i] /\ Visited(cr, n)
    BY <1>1, <1>2, <1>3, <2>2
  <2> QED
    BY <1>2, <2>2, <2>3, SettledKept
<1>4. ca'[cr].lits = c
  BY <1>2
<1> QED
  BY <1>3, <1>4 DEF Settled, Guarded

-----------------------------------------------------------------------------
(* Clauses and watches *)

Watcher == [cref : CRef, blocker : Lit]

\* What the clause at place n of the list for l is, for WatchInv and BlockerInv.
LEMMA WatcherFacts ==
    ASSUME WatchInv, ArenaInv, NEW l \in Lit, NEW n \in 1..Len(watches[l])
    PROVE  /\ watches[l] \in Seq(Watcher) /\ watches[l][n] \in Watcher
           /\ watches[l][n].cref \in CRef /\ watches[l][n].blocker \in Lit
           /\ ca[watches[l][n].cref] # NoClause
           /\ ca[watches[l][n].cref].lits \in Seq(Lit) /\ Len(ca[watches[l][n].cref].lits) >= 2
           /\ NoRepeat(ca[watches[l][n].cref].lits)
           /\ -l \in {ca[watches[l][n].cref].lits[1], ca[watches[l][n].cref].lits[2]}
<1>1. watches[l] \in Seq(Watcher)
  BY DEF WatchInv, Watcher
<1>2. watches[l][n] \in Watcher
  BY <1>1
<1>3. watches[l][n].cref \in CRef /\ watches[l][n].blocker \in Lit
  BY <1>2 DEF Watcher
<1>4. /\ ca[watches[l][n].cref] # NoClause
      /\ -l \in {ca[watches[l][n].cref].lits[1], ca[watches[l][n].cref].lits[2]}
  BY DEF WatchInv
<1>5. /\ ca[watches[l][n].cref].lits \in Seq(Lit) /\ Len(ca[watches[l][n].cref].lits) >= 2
      /\ NoRepeat(ca[watches[l][n].cref].lits)
  BY <1>3, <1>4 DEF ArenaInv
<1> QED
  BY <1>1, <1>2, <1>3, <1>4, <1>5

\* A place in the arena.
LEMMA RoomOf ==
    ASSUME room
    PROVE  nextCRef \in CRef /\ ca[nextCRef] = NoClause
<1> DEFINE K == {n \in CRef : ca[n] = NoClause}
<1>1. K # {} /\ K \subseteq Nat
  BY LitFacts DEF room, CRef
<1>2. PICK a \in K : \A b \in K : a <= b
  BY <1>1, LeastElement
<1>3. nextCRef = CHOOSE x \in K : \A y \in K : x <= y
  BY DEF nextCRef, Min
<1>4. nextCRef \in K
  <2> HIDE DEF K
  <2> QED
    BY <1>2, <1>3
<1> QED
  BY <1>4

\* ws is watches with clause c attached at cr.
Attached(ws, cr, c) ==
    /\ ws \in [Lit -> Seq(Watcher)]
    /\ \A l \in Lit : \A n \in 1..Len(watches[l]) : n \in 1..Len(ws[l]) /\ ws[l][n] = watches[l][n]
    /\ \A l \in Lit : \A n \in 1..Len(ws[l]) :
          \/ n \in 1..Len(watches[l]) /\ ws[l][n] = watches[l][n]
          \/ /\ n = Len(watches[l]) + 1 /\ l \in {-c[1], -c[2]}
             /\ ws[l][n].cref = cr /\ ws[l][n].blocker \in {c[1], c[2]}
    /\ \A l \in {-c[1], -c[2]} : Len(watches[l]) + 1 \in 1..Len(ws[l]) /\ ws[l][Len(watches[l]) + 1].cref = cr

\* attachClause adds a watcher of the clause to two lists.
LEMMA AttachOf ==
    ASSUME watches \in [Lit -> Seq(Watcher)], NEW cr \in CRef,
           NEW c \in Seq(Lit), Len(c) >= 2, NoRepeat(c)
    PROVE  Attached(attachClause(watches, cr, c), cr, c)
<1> DEFINE x == [cref |-> cr, blocker |-> c[2]]
           y == [cref |-> cr, blocker |-> c[1]]
<1>1. /\ Len(c) \in Nat /\ c[1] \in Lit /\ c[2] \in Lit /\ c[1] # c[2]
  <2>1. 1 \in 1..Len(c) /\ 2 \in 1..Len(c)
    OBVIOUS
  <2> QED
    BY <2>1 DEF NoRepeat
<1>2. -c[1] \in Lit /\ -c[2] \in Lit /\ -c[1] # -c[2]
  BY <1>1, LitFacts
<1>3. x \in Watcher /\ y \in Watcher /\ x.cref = cr /\ y.cref = cr /\ x.blocker = c[2] /\ y.blocker = c[1]
  BY <1>1 DEF Watcher
<1>4. PICK ws : ws = attachClause(watches, cr, c)
  OBVIOUS
<1> HIDE DEF x, y
<1>5. ws = [watches EXCEPT ![-c[1]] = Append(@, x), ![-c[2]] = Append(@, y)]
  BY <1>4 DEF attachClause, x, y
<1>6. /\ DOMAIN ws = Lit
      /\ ws[-c[1]] = Append(watches[-c[1]], x)
      /\ ws[-c[2]] = Append(watches[-c[2]], y)
      /\ \A l \in Lit : l # -c[1] /\ l # -c[2] => ws[l] = watches[l]
      /\ ws = [l \in Lit |-> ws[l]]
  BY <1>2, <1>5
<1>7. \A l \in Lit : watches[l] \in Seq(Watcher) /\ Len(watches[l]) \in Nat
  OBVIOUS
<1>8. /\ Append(watches[-c[1]], x) \in Seq(Watcher)
      /\ Len(Append(watches[-c[1]], x)) = Len(watches[-c[1]]) + 1
      /\ \A n \in 1..Len(watches[-c[1]]) : Append(watches[-c[1]], x)[n] = watches[-c[1]][n]
      /\ Append(watches[-c[1]], x)[Len(watches[-c[1]]) + 1] = x
  BY <1>2, <1>3, <1>7, AppendElements
<1>9. /\ Append(watches[-c[2]], y) \in Seq(Watcher)
      /\ Len(Append(watches[-c[2]], y)) = Len(watches[-c[2]]) + 1
      /\ \A n \in 1..Len(watches[-c[2]]) : Append(watches[-c[2]], y)[n] = watches[-c[2]][n]
      /\ Append(watches[-c[2]], y)[Len(watches[-c[2]]) + 1] = y
  BY <1>2, <1>3, <1>7, AppendElements
<1>10. \A l \in Lit : ws[l] \in Seq(Watcher)
  BY <1>6, <1>7, <1>8, <1>9
<1>11. ws \in [Lit -> Seq(Watcher)]
  BY <1>6, <1>10
<1>12. ASSUME NEW l \in Lit
       PROVE  /\ \A n \in 1..Len(watches[l]) : n \in 1..Len(ws[l]) /\ ws[l][n] = watches[l][n]
              /\ \A n \in 1..Len(ws[l]) :
                    \/ n \in 1..Len(watches[l]) /\ ws[l][n] = watches[l][n]
                    \/ /\ n = Len(watches[l]) + 1 /\ l \in {-c[1], -c[2]}
                       /\ ws[l][n].cref = cr /\ ws[l][n].blocker \in {c[1], c[2]}
              /\ l \in {-c[1], -c[2]} =>
                    Len(watches[l]) + 1 \in 1..Len(ws[l]) /\ ws[l][Len(watches[l]) + 1].cref = cr
  <2>1. CASE l = -c[1]
    BY <1>3, <1>6, <1>7, <1>8, <2>1, SMTT(40)
  <2>2. CASE l = -c[2]
    <3>1. ws[l] = Append(watches[l], y) /\ Len(watches[l]) \in Nat
      BY <1>6, <1>7, <2>2
    <3>2. /\ Len(ws[l]) = Len(watches[l]) + 1
          /\ \A n \in 1..Len(watches[l]) : ws[l][n] = watches[l][n]
          /\ ws[l][Len(watches[l]) + 1].cref = cr /\ ws[l][Len(watches[l]) + 1].blocker = c[1]
      BY <1>3, <1>9, <2>2, <3>1
    <3> QED
      BY <2>2, <3>1, <3>2
  <2>3. CASE l # -c[1] /\ l # -c[2]
    BY <1>6, <1>7, <2>3
  <2> QED
    BY <2>1, <2>2, <2>3
<1> QED
  BY <1>2, <1>4, <1>11, <1>12, ZenonT(60) DEF Attached

\* The arena with clause c in a free place.
Placed(cr, c, origin) ==
    /\ cr \in CRef /\ ca[cr] = NoClause
    /\ ca'[cr] = [lits |-> c, origin |-> origin]
    /\ \A x \in CRef : x # cr => ca'[x] = ca[x]
    /\ Attached(watches', cr, c)

\* A clause is added.
LEMMA NewClauseOf ==
    ASSUME ArenaInv, WatchInv, room, NEW c \in Seq(Lit), Len(c) >= 2, NoRepeat(c),
           NEW origin \in {"formula", "learnt", "imported"}, newClause(c, origin)
    PROVE  Placed(nextCRef, c, origin) /\ ArenaInv' /\ WatchInv'
<1>1. PICK cr : cr = nextCRef
  OBVIOUS
<1>2. cr \in CRef /\ ca[cr] = NoClause
  BY <1>1, RoomOf
<1>3. ca' = [ca EXCEPT ![cr] = [lits |-> c, origin |-> origin]] /\ watches' = attachClause(watches, cr, c)
  BY <1>1 DEF newClause
<1>4. watches \in [Lit -> Seq(Watcher)]
  BY DEF WatchInv, Watcher
<1>5. Attached(watches', cr, c)
  BY <1>2, <1>3, <1>4, AttachOf
<1>6. [lits |-> c, origin |-> origin] \in [lits : Seq(Lit), origin : {"none", "formula", "learnt", "imported"}]
  OBVIOUS
<1>7. /\ ca'[cr] = [lits |-> c, origin |-> origin]
      /\ \A x \in CRef : x # cr => ca'[x] = ca[x]
      /\ ca' \in [CRef -> [lits : Seq(Lit), origin : {"none", "formula", "learnt", "imported"}]]
  BY <1>2, <1>3, <1>6 DEF ArenaInv
<1>8. ca'[cr].lits = c /\ ca'[cr].origin = origin /\ ca'[cr] # NoClause
  BY <1>7 DEF NoClause
<1>9. ArenaInv'
  BY <1>7, <1>8, SMTT(40) DEF ArenaInv
<1>10. WatchInv'
  <2>0. /\ watches' \in [Lit -> Seq(Watcher)]
        /\ \A l \in Lit : \A n \in 1..Len(watches[l]) : n \in 1..Len(watches'[l]) /\ watches'[l][n] = watches[l][n]
        /\ \A l \in Lit : \A n \in 1..Len(watches'[l]) :
              \/ n \in 1..Len(watches[l]) /\ watches'[l][n] = watches[l][n]
              \/ /\ n = Len(watches[l]) + 1 /\ l \in {-c[1], -c[2]}
                 /\ watches'[l][n].cref = cr /\ watches'[l][n].blocker \in {c[1], c[2]}
        /\ \A l \in {-c[1], -c[2]} :
              Len(watches[l]) + 1 \in 1..Len(watches'[l]) /\ watches'[l][Len(watches[l]) + 1].cref = cr
    BY <1>5 DEF Attached
  <2>1. \A i \in {1, 2} : c[i] \in Lit /\ -c[i] \in Lit /\ -(-c[i]) = c[i]
    <3>1. 1 \in 1..Len(c) /\ 2 \in 1..Len(c)
      OBVIOUS
    <3>2. c[1] \in Lit /\ c[2] \in Lit
      BY <3>1
    <3> QED
      BY <3>2, LitFacts
  <2>2. ASSUME NEW l \in Lit, NEW n \in 1..Len(watches[l])
        PROVE  /\ watches[l][n].cref # cr /\ watches[l][n].cref \in CRef
               /\ ca'[watches[l][n].cref] = ca[watches[l][n].cref]
               /\ ca[watches[l][n].cref] # NoClause
               /\ -l \in {ca[watches[l][n].cref].lits[1], ca[watches[l][n].cref].lits[2]}
    BY <1>2, <1>7, WatcherFacts
  <2>3. ASSUME NEW l \in Lit, NEW n \in 1..Len(watches'[l])
        PROVE  /\ ca'[watches'[l][n].cref] # NoClause
               /\ -l \in {ca'[watches'[l][n].cref].lits[1], ca'[watches'[l][n].cref].lits[2]}
    <3>1. CASE n \in 1..Len(watches[l]) /\ watches'[l][n] = watches[l][n]
      BY <2>2, <3>1
    <3>2. CASE l \in {-c[1], -c[2]} /\ watches'[l][n].cref = cr
      BY <1>8, <2>1, <3>2
    <3> QED
      BY <2>0, <3>1, <3>2
  <2>4. ASSUME NEW l \in Lit, NEW i \in 1..Len(watches'[l]), NEW j \in 1..Len(watches'[l]),
               watches'[l][i].cref = watches'[l][j].cref
        PROVE  i = j
    <3>1. CASE i \in 1..Len(watches[l]) /\ j \in 1..Len(watches[l])
      <4>1. watches[l][i].cref = watches[l][j].cref
        BY <2>0, <2>4, <3>1
      <4> QED
        BY <3>1, <4>1 DEF WatchInv
    <3>2. CASE i \notin 1..Len(watches[l]) \/ j \notin 1..Len(watches[l])
      <4>1. \A n \in 1..Len(watches[l]) : watches'[l][n].cref # cr
        <5>1. \A n \in 1..Len(watches[l]) : watches'[l][n] = watches[l][n]
          BY <2>0
        <5>2. \A n \in 1..Len(watches[l]) : watches[l][n].cref # cr
          BY <2>2
        <5> QED
          BY <5>1, <5>2
      <4>2. \A n \in 1..Len(watches'[l]) : n \notin 1..Len(watches[l]) =>
              n = Len(watches[l]) + 1 /\ watches'[l][n].cref = cr
        BY <2>0
      <4> QED
        BY <2>4, <3>2, <4>1, <4>2
    <3> QED
      BY <3>1, <3>2
  <2>5. ASSUME NEW x \in CRef, ca'[x] # NoClause, NEW i \in {1, 2}
        PROVE  \E n \in 1..Len(watches'[-ca'[x].lits[i]]) : watches'[-ca'[x].lits[i]][n].cref = x
    <3>1. CASE x = cr
      <4>1. -c[i] \in {-c[1], -c[2]}
        OBVIOUS
      <4> QED
        BY <1>8, <2>0, <3>1, <4>1
    <3>2. CASE x # cr
      <4>1. ca'[x] = ca[x] /\ ca[x] # NoClause
        BY <1>7, <2>5, <3>2
      <4>2. PICK n \in 1..Len(watches[-ca[x].lits[i]]) : watches[-ca[x].lits[i]][n].cref = x
        BY <4>1, ZenonT(60) DEF WatchInv
      <4>3. ca[x].lits \in Seq(Lit) /\ Len(ca[x].lits) >= 2
        BY <4>1 DEF ArenaInv
      <4>4. i \in 1..Len(ca[x].lits)
        BY <4>3
      <4>5. -ca[x].lits[i] \in Lit
        <5>1. ca[x].lits[i] \in Lit
          BY <4>3, <4>4
        <5> QED
          BY <5>1, LitFacts
      <4> QED
        BY <2>0, <4>1, <4>2, <4>5
    <3> QED
      BY <3>1, <3>2
  <2> QED
    BY <2>0, <2>3, <2>4, <2>5 DEF WatchInv, Watcher
<1> QED
  BY <1>1, <1>2, <1>5, <1>7, <1>9, <1>10 DEF Placed

\* A blocker stays one if the literals its clause loses are false at level 0.
LEMMA BlocksKept ==
    ASSUME TrailInv, NEW m, NEW d, Moves(m, d), NEW x, Blocks(x),
           \/ ca'[x.cref] = ca[x.cref]
           \/ \A q \in Set(ca[x.cref].lits) :
                 \/ q \in Set(ca'[x.cref].lits)
                 \/ \E n \in 1..Len(trail) : trail[n] = -q /\ AtRoot(n)
    PROVE  Blocks(x)'
<1>1. CASE x.blocker \in Set(ca[x.cref].lits) /\ x.blocker \in Set(ca'[x.cref].lits)
  BY <1>1 DEF Blocks, Set
<1>2. CASE \E n \in 1..Len(trail) : trail[n] = -x.blocker /\ AtRoot(n)
  <2>1. PICK l : l = -x.blocker
    OBVIOUS
  <2>2. \E n \in 1..Len(trail') : trail'[n] = l /\ AtRoot(n)'
    BY <1>2, <2>1, RootKept
  <2> QED
    BY <2>1, <2>2 DEF Blocks
<1> QED
  BY <1>1, <1>2 DEF Blocks

\* Nothing happens to clauses and watches.
LEMMA MoveBlockers ==
    ASSUME TrailInv, BlockerInv, NEW m, NEW d, Moves(m, d), UNCHANGED clauseVars
    PROVE  BlockerInv'
<1>1. ca' = ca /\ watches' = watches
  BY DEF clauseVars
<1>2. ASSUME NEW l \in Lit, NEW n \in 1..Len(watches[l]) PROVE Blocks(watches[l][n])'
  <2>1. PICK x : x = watches[l][n]
    OBVIOUS
  <2>2. Blocks(x)
    BY <2>1 DEF BlockerInv
  <2>3. Blocks(x)'
    BY <1>1, <2>2, BlocksKept
  <2> QED
    BY <1>1, <2>1, <2>3 DEF Blocks
<1> QED
  BY <1>1, <1>2 DEF BlockerInv

\* BlockerInv after a clause was added.
LEMMA PlacedBlockers ==
    ASSUME TrailInv, ArenaInv, WatchInv, BlockerInv, NEW m, NEW d, Moves(m, d),
           NEW c \in Seq(Lit), Len(c) >= 2, NEW origin, NEW cr, Placed(cr, c, origin)
    PROVE  BlockerInv'
<1>1. /\ cr \in CRef /\ ca[cr] = NoClause /\ ca'[cr].lits = c
      /\ \A x \in CRef : x # cr => ca'[x] = ca[x]
      /\ Attached(watches', cr, c)
  BY DEF Placed
<1>2. SUFFICES ASSUME NEW l \in Lit, NEW n \in 1..Len(watches'[l]) PROVE Blocks(watches[l][n])'
  BY DEF BlockerInv
<1>3. PICK x : x = watches'[l][n]
  OBVIOUS
<1>4. Blocks(x)'
  <2>1. CASE n \in 1..Len(watches[l]) /\ x = watches[l][n]
    <3>1. x.cref # cr /\ x.cref \in CRef
      BY <1>1, <2>1, WatcherFacts
    <3>2. Blocks(x)
      BY <2>1 DEF BlockerInv
    <3> QED
      BY <1>1, <3>1, <3>2, BlocksKept
  <2>2. CASE x.cref = cr /\ x.blocker \in {c[1], c[2]}
    <3>1. c[1] \in Set(c) /\ c[2] \in Set(c)
      <4>1. 1 \in 1..Len(c) /\ 2 \in 1..Len(c)
        OBVIOUS
      <4> QED
        BY <4>1, SetOf
    <3>2. x.blocker \in Set(ca'[x.cref].lits)
      BY <1>1, <2>2, <3>1
    <3> QED
      BY <3>2 DEF Blocks, Set
  <2>3. \/ n \in 1..Len(watches[l]) /\ watches'[l][n] = watches[l][n]
        \/ watches'[l][n].cref = cr /\ watches'[l][n].blocker \in {c[1], c[2]}
    BY <1>1, <1>2, SMTT(40) DEF Attached
  <2> QED
    BY <1>3, <2>1, <2>2, <2>3
<1> QED
  BY <1>3, <1>4 DEF Blocks

\* Clauses and watches that are left alone.
LEMMA SameClauses ==
    ASSUME ArenaInv, WatchInv, UNCHANGED clauseVars
    PROVE  ArenaInv' /\ WatchInv'
<1>1. ca' = ca /\ watches' = watches
  BY DEF clauseVars
<1>2. ArenaInv'
  BY <1>1 DEF ArenaInv
<1>3. WatchInv'
  <2>1. /\ watches' \in [Lit -> Seq([cref : CRef, blocker : Lit])]
        /\ \A l \in Lit : \A m, n \in 1..Len(watches'[l]) :
              watches'[l][m].cref = watches'[l][n].cref => m = n
    BY <1>1 DEF WatchInv
  <2>2. ASSUME NEW l \in Lit, NEW n \in 1..Len(watches'[l])
        PROVE  /\ ca'[watches'[l][n].cref] # NoClause
               /\ -l \in {ca'[watches'[l][n].cref].lits[1], ca'[watches'[l][n].cref].lits[2]}
    <3>1. PICK x : x = watches[l][n].cref
      OBVIOUS
    <3>3. n \in 1..Len(watches[l])
      BY <1>1
    <3>2. ca[x] # NoClause /\ -l \in {ca[x].lits[1], ca[x].lits[2]}
      BY <3>1, <3>3 DEF WatchInv
    <3> QED
      BY <1>1, <3>1, <3>2
  <2>3. ASSUME NEW cr \in CRef, ca'[cr] # NoClause, NEW i \in {1, 2}
        PROVE  \E n \in 1..Len(watches'[-ca'[cr].lits[i]]) : watches'[-ca'[cr].lits[i]][n].cref = cr
    <3>1. PICK q : q = watches[-ca[cr].lits[i]]
      OBVIOUS
    <3>2. \E n \in 1..Len(q) : q[n].cref = cr
      <4>1. ca[cr] # NoClause
        BY <1>1, <2>3
      <4>2. \E n \in 1..Len(watches[-ca[cr].lits[i]]) : watches[-ca[cr].lits[i]][n].cref = cr
        BY <4>1, ZenonT(60) DEF WatchInv
      <4> QED
        BY <3>1, <4>2
    <3> QED
      BY <1>1, <3>1, <3>2
  <2> QED
    BY <2>1, <2>2, <2>3 DEF WatchInv
<1> QED
  BY <1>2, <1>3

\* k is clause cr without some literals that are false at level 0.
Thins(cr, k) ==
    /\ k \in [lits : Seq(Lit), origin : {"none", "formula", "learnt", "imported"}]
    /\ k.origin = ca[cr].origin /\ (ca[cr] = NoClause => k = NoClause)
    /\ ca[cr] # NoClause =>
          /\ Len(k.lits) >= 2 /\ NoRepeat(k.lits)
          /\ k.lits[1] = ca[cr].lits[1] /\ k.lits[2] = ca[cr].lits[2]
    /\ Set(k.lits) \subseteq Set(ca[cr].lits)
    /\ \A j \in 2..Len(k.lits) : \E i \in 2..Len(ca[cr].lits) : k.lits[j] = ca[cr].lits[i]
    /\ \A q \in Set(ca[cr].lits) :
          \/ q \in Set(k.lits)
          \/ \E n \in 1..Len(trail) : trail[n] = -q /\ AtRoot(n)

\* r is list q without the watchers of the clauses in D.
LeftOf(r, q, D) ==
    \E at \in [1..Len(r) -> 1..Len(q)] :
        /\ \A n \in 1..Len(r) : r[n] = q[at[n]] /\ q[at[n]].cref \notin D
        /\ \A i, j \in 1..Len(r) : at[i] = at[j] => i = j
        /\ \A i \in 1..Len(q) : q[i].cref \notin D => \E n \in 1..Len(r) : at[n] = i

\* Clauses are removed, the others thinned out: the lists as they are left.
LEMMA ListsLeft ==
    ASSUME WatchInv, NEW D, NEW kept, removeClauses(D, kept)
    PROVE  /\ watches' \in [Lit -> Seq(Watcher)]
           /\ \A l \in Lit : LeftOf(watches'[l], watches[l], D)
<1>1. watches \in [Lit -> Seq(Watcher)]
  BY DEF WatchInv, Watcher
<1>2. watches' = [l \in Lit |->
          Among(watches[l], {n \in DOMAIN watches[l] : watches[l][n].cref \notin D})]
  BY DEF removeClauses
<1>3. ASSUME NEW l \in Lit
      PROVE  /\ watches'[l] \in Seq(Watcher)
             /\ LeftOf(watches'[l], watches[l], D)
  <2>1. PICK q \in Seq(Watcher) : q = watches[l]
    BY <1>1
  <2>2. PICK I : I = {n \in 1..Len(q) : q[n].cref \notin D}
    OBVIOUS
  <2>3. DOMAIN q = 1..Len(q) /\ I \in SUBSET (1..Len(q))
    BY <2>2
  <2>4. watches'[l] = Among(q, I)
    BY <1>2, <2>1, <2>2, <2>3
  <2>5. PICK r : r = Among(q, I)
    OBVIOUS
  <2>6. /\ r \in Seq(Watcher)
        /\ \E at \in [1..Len(r) -> I] :
                /\ \A n \in 1..Len(r) : r[n] = q[at[n]]
                /\ \A m, n \in 1..Len(r) : at[m] = at[n] => m = n
                /\ \A i \in I : \E n \in 1..Len(r) : at[n] = i
    BY <2>3, <2>5, AmongOf
  <2>7. PICK at \in [1..Len(r) -> I] :
                /\ \A n \in 1..Len(r) : r[n] = q[at[n]]
                /\ \A m, n \in 1..Len(r) : at[m] = at[n] => m = n
                /\ \A i \in I : \E n \in 1..Len(r) : at[n] = i
    BY <2>6
  <2>8. at \in [1..Len(r) -> 1..Len(q)]
    BY <2>3
  <2>9. \A n \in 1..Len(r) : q[at[n]].cref \notin D
    BY <2>2
  <2>10. \A i \in 1..Len(q) : q[i].cref \notin D => \E n \in 1..Len(r) : at[n] = i
    BY <2>2, <2>7
  <2>11. watches'[l] = r
    BY <2>4, <2>5
  <2>12. LeftOf(r, q, D)
    BY <2>7, <2>8, <2>9, <2>10 DEF LeftOf
  <2> QED
    BY <2>1, <2>6, <2>11, <2>12
<1>4. watches' \in [Lit -> Seq(Watcher)]
  BY <1>2, <1>3
<1> QED
  BY <1>3, <1>4

\* Removed clauses leave no watcher behind (detachClause, OccLists::clean).
LEMMA RemovedOf ==
    ASSUME ArenaInv, WatchInv, NEW D \in SUBSET CRef, NEW kept, removeClauses(D, kept),
           \A cr \in CRef : Thins(cr, kept[cr])
    PROVE  /\ ArenaInv' /\ WatchInv'
           /\ \A cr \in CRef : ca'[cr] = IF cr \in D THEN NoClause ELSE kept[cr]
<1>1. ca' = [cr \in CRef |-> IF cr \in D THEN NoClause ELSE kept[cr]]
  BY DEF removeClauses
<1>2. \A cr \in CRef : ca'[cr] = IF cr \in D THEN NoClause ELSE kept[cr]
  BY <1>1
<1>3. NoClause \in [lits : Seq(Lit), origin : {"none", "formula", "learnt", "imported"}]
      /\ NoClause.origin = "none"
  BY DEF NoClause
<1>4. ASSUME NEW cr \in CRef, cr \notin D, ca[cr] # NoClause
      PROVE  /\ ca'[cr] = kept[cr] /\ ca'[cr] # NoClause
             /\ Len(ca'[cr].lits) >= 2 /\ NoRepeat(ca'[cr].lits) /\ ca'[cr].origin # "none"
             /\ ca'[cr].lits[1] = ca[cr].lits[1] /\ ca'[cr].lits[2] = ca[cr].lits[2]
  <2>1. Thins(cr, kept[cr]) /\ ca'[cr] = kept[cr]
    BY <1>2, <1>4
  <2>2. ca[cr].origin # "none"
    BY <1>4 DEF ArenaInv
  <2>3. kept[cr].origin # "none" /\ kept[cr] # NoClause
    BY <1>3, <2>1, <2>2 DEF Thins
  <2> QED
    BY <1>4, <2>1, <2>3 DEF Thins
<1>5. ASSUME NEW cr \in CRef, ca'[cr] # NoClause PROVE cr \notin D /\ ca[cr] # NoClause
  <2>1. cr \notin D /\ kept[cr] # NoClause /\ Thins(cr, kept[cr])
    BY <1>2, <1>5
  <2> QED
    BY <2>1 DEF Thins
<1>6. ArenaInv'
  <2>1. ca' \in [CRef -> [lits : Seq(Lit), origin : {"none", "formula", "learnt", "imported"}]]
    <3>1. \A cr \in CRef : kept[cr] \in [lits : Seq(Lit), origin : {"none", "formula", "learnt", "imported"}]
      BY SMTT(40) DEF Thins
    <3> QED
      BY <1>1, <1>3, <3>1
  <2> QED
    BY <1>4, <1>5, <2>1 DEF ArenaInv
<1>7. WatchInv'
  <2>1. watches' \in [Lit -> Seq(Watcher)]
    BY ListsLeft
  <2>2. ASSUME NEW l \in Lit
        PROVE  \E at \in [1..Len(watches'[l]) -> 1..Len(watches[l])] :
                 /\ \A n \in 1..Len(watches'[l]) :
                       watches'[l][n] = watches[l][at[n]] /\ watches[l][at[n]].cref \notin D
                 /\ \A i, j \in 1..Len(watches'[l]) : at[i] = at[j] => i = j
                 /\ \A i \in 1..Len(watches[l]) : watches[l][i].cref \notin D =>
                       \E n \in 1..Len(watches'[l]) : at[n] = i
    BY ListsLeft DEF LeftOf
  <2>3. ASSUME NEW l \in Lit, NEW n \in 1..Len(watches'[l])
        PROVE  /\ ca'[watches'[l][n].cref] # NoClause
               /\ -l \in {ca'[watches'[l][n].cref].lits[1], ca'[watches'[l][n].cref].lits[2]}
    <3>1. PICK i \in 1..Len(watches[l]) : watches'[l][n] = watches[l][i] /\ watches[l][i].cref \notin D
      BY <2>2
    <3>2. /\ watches[l][i].cref \in CRef /\ ca[watches[l][i].cref] # NoClause
          /\ -l \in {ca[watches[l][i].cref].lits[1], ca[watches[l][i].cref].lits[2]}
      BY WatcherFacts
    <3> QED
      BY <1>4, <3>1, <3>2
  <2>4. ASSUME NEW l \in Lit, NEW i \in 1..Len(watches'[l]), NEW j \in 1..Len(watches'[l]),
               watches'[l][i].cref = watches'[l][j].cref
        PROVE  i = j
    <3>1. PICK at \in [1..Len(watches'[l]) -> 1..Len(watches[l])] :
                 /\ \A n \in 1..Len(watches'[l]) : watches'[l][n] = watches[l][at[n]]
                 /\ \A x, y \in 1..Len(watches'[l]) : at[x] = at[y] => x = y
      BY <2>2
    <3>2. at[i] \in 1..Len(watches[l]) /\ at[j] \in 1..Len(watches[l])
          /\ watches[l][at[i]].cref = watches[l][at[j]].cref
      BY <2>4, <3>1
    <3>3. at[i] = at[j]
      BY <3>2 DEF WatchInv
    <3> QED
      BY <3>1, <3>3
  <2>5. ASSUME NEW x \in CRef, ca'[x] # NoClause, NEW i \in {1, 2}
        PROVE  \E n \in 1..Len(watches'[-ca'[x].lits[i]]) : watches'[-ca'[x].lits[i]][n].cref = x
    <3>1. x \notin D /\ ca[x] # NoClause /\ ca'[x].lits[i] = ca[x].lits[i]
      BY <1>4, <1>5, <2>5
    <3>2. PICK n \in 1..Len(watches[-ca[x].lits[i]]) : watches[-ca[x].lits[i]][n].cref = x
      BY <3>1, ZenonT(60) DEF WatchInv
    <3>3. ca[x].lits \in Seq(Lit) /\ Len(ca[x].lits) >= 2
      BY <3>1 DEF ArenaInv
    <3>4. i \in 1..Len(ca[x].lits)
      BY <3>3
    <3>5. ca[x].lits[i] \in Lit
      BY <3>3, <3>4
    <3>6. PICK l \in Lit : l = -ca[x].lits[i]
      BY <3>5, LitFacts
    <3>7. \E k \in 1..Len(watches'[l]) : watches'[l][k].cref = x
      <4>1. n \in 1..Len(watches[l]) /\ watches[l][n].cref = x
        BY <3>2, <3>6
      <4>2. watches[l][n].cref \notin D
        BY <3>1, <4>1
      <4>3. PICK at \in [1..Len(watches'[l]) -> 1..Len(watches[l])] :
                 /\ \A k \in 1..Len(watches'[l]) :
                       watches'[l][k] = watches[l][at[k]] /\ watches[l][at[k]].cref \notin D
                 /\ \A j, k \in 1..Len(watches'[l]) : at[j] = at[k] => j = k
                 /\ \A j \in 1..Len(watches[l]) : watches[l][j].cref \notin D =>
                       \E k \in 1..Len(watches'[l]) : at[k] = j
        BY <2>2, ZenonT(60)
      <4>4. PICK k \in 1..Len(watches'[l]) : at[k] = n
        BY <4>1, <4>2, <4>3
      <4>5. watches'[l][k].cref = x
        BY <4>1, <4>3, <4>4
      <4> QED
        BY <4>5
    <3> QED
      BY <3>1, <3>6, <3>7
  <2> QED
    BY <2>1, <2>3, <2>4, <2>5 DEF WatchInv, Watcher
<1> QED
  BY <1>2, <1>6, <1>7

\* The trail stays while clauses are removed and thinned out: what depends on clauses.
LEMMA RemovedRest ==
    ASSUME TrailInv, ArenaInv, WatchInv, BlockerInv, ImpliedInv, LoadedInv, PropagatedInv, problem \in Problems,
           NEW D \in SUBSET learnts, NEW kept, removeClauses(D, kept),
           \A cr \in CRef : Thins(cr, kept[cr]),
           UNCHANGED <<trail, trail_lim, problem, loaded, ok, qhead, w>>, w = 0,
           pc \notin {"conflict", "learn"}, pc' \notin {"conflict", "learn"},
           \A cr \in CRef : ca[cr].origin = "formula" => kept[cr] = ca[cr]
    PROVE  BlockerInv' /\ ImpliedInv' /\ LoadedInv' /\ PropagatedInv'
<1> DEFINE m == Len(trail)
           d == Len(trail_lim)
<1>1. Moves(m, d) /\ Len(trail') = m /\ m \in Nat /\ trail' = trail /\ trail_lim' = trail_lim
  BY MoveNone, TrailFacts
<1>2. D \subseteq CRef /\ \A cr \in D : ca[cr].origin \in {"learnt", "imported"}
  BY DEF learnts
<1>3. \A cr \in CRef : ca'[cr] = IF cr \in D THEN NoClause ELSE kept[cr]
  BY <1>2, RemovedOf
<1>4. ASSUME NEW cr \in CRef, ca'[cr] # NoClause PROVE ca'[cr] = kept[cr] /\ ca[cr] # NoClause /\ cr \notin D
  <2>1. ca'[cr] = kept[cr] /\ Thins(cr, kept[cr]) /\ cr \notin D
    BY <1>3, <1>4
  <2> QED
    BY <1>4, <2>1 DEF Thins
<1>5. BlockerInv'
  <2> SUFFICES ASSUME NEW l \in Lit, NEW n \in 1..Len(watches'[l]) PROVE Blocks(watches[l][n])'
    BY DEF BlockerInv
  <2>1. PICK x : x = watches'[l][n]
    OBVIOUS
  <2>2. PICK i \in 1..Len(watches[l]) : x = watches[l][i] /\ watches[l][i].cref \notin D
    BY <2>1, ListsLeft, SMTT(40) DEF LeftOf
  <2>3. Blocks(x) /\ x.cref \in CRef
    BY <2>2, WatcherFacts DEF BlockerInv
  <2>4. Thins(x.cref, kept[x.cref]) /\ ca'[x.cref] = kept[x.cref]
    BY <1>3, <2>2, <2>3
  <2>5. \A q \in Set(ca[x.cref].lits) :
           \/ q \in Set(ca'[x.cref].lits)
           \/ \E k \in 1..Len(trail) : trail[k] = -q /\ AtRoot(k)
    BY <2>4 DEF Thins
  <2>6. Blocks(x)'
    <3> HIDE DEF m, d
    <3> QED
      BY <1>1, <2>3, <2>5, BlocksKept
  <2> QED
    BY <2>1, <2>6 DEF Blocks
<1>6. ImpliedInv'
  <2>1. ASSUME NEW cr \in CRef, ca'[cr] # NoClause PROVE Implied(Set(ca'[cr].lits))
    <3>1. PICK C : C = Set(ca'[cr].lits)
      OBVIOUS
    <3>2. ca'[cr] = kept[cr] /\ ca[cr] # NoClause /\ Thins(cr, kept[cr])
      BY <1>4, <2>1
    <3>3. \A q \in Set(ca[cr].lits) : q \in C \/ \E n \in 1..Len(trail) : trail[n] = -q /\ AtRoot(n)
      BY <3>1, <3>2 DEF Thins
    <3>4. ca[cr].lits \in Seq(Lit)
      BY <3>2 DEF ArenaInv
    <3>5. ASSUME NEW a \in Models PROVE Satisfies(a, C)
      <4>1. PICK q \in Set(ca[cr].lits) : Holds(a, q)
        BY <3>2 DEF ImpliedInv, Implied, Satisfies
      <4>2. q \in Lit /\ a \in Assignments
        BY <3>4, <4>1, SetOf, ModelFacts
      <4>3. ASSUME NEW n \in 1..Len(trail), trail[n] = -q, AtRoot(n) PROVE FALSE
        <5>1. Holds(a, -q)
          BY <4>3 DEF ImpliedInv, Implied, Satisfies
        <5> QED
          BY <4>1, <4>2, <5>1, HoldsNot
      <4> QED
        BY <3>3, <4>1, <4>3 DEF Satisfies
    <3> QED
      BY <3>1, <3>5 DEF Implied
  <2>2. Len(trail') # m + 1
    BY <1>1
  <2> HIDE DEF m, d
  <2> QED
    BY <1>1, <2>1, <2>2, MoveImplied
<1>7. LoadedInv'
  <2>1. ASSUME NEW cr \in CRef, ca[cr].origin = "formula"
        PROVE  ca'[cr].origin = "formula" /\ Set(ca'[cr].lits) \subseteq Set(ca[cr].lits)
    <3>1. cr \notin D
      BY <1>2, <2>1
    <3> QED
      BY <1>3, <2>1, <3>1
  <2> HIDE DEF m, d
  <2> QED
    BY <1>1, <2>1, MoveLoaded
<1>8. PropagatedInv'
  <2> SUFFICES ASSUME ok, NEW cr \in CRef, ca'[cr].origin \in {"formula", "learnt"}
               PROVE  Settled(cr)'
    BY DEF PropagatedInv
  <2>1. ca'[cr] # NoClause
    BY DEF NoClause
  <2>2. ca'[cr] = kept[cr] /\ ca[cr] # NoClause /\ Thins(cr, kept[cr])
    BY <1>4, <2>1
  <2>3. Settled(cr)
    BY <2>2 DEF PropagatedInv, Thins
  <2>4. PICK c : c = ca'[cr].lits
    OBVIOUS
  <2>5. c[1] = ca[cr].lits[1] /\ c[2] = ca[cr].lits[2]
    BY <2>2, <2>4 DEF Thins
  <2>6. ASSUME NEW n \in 1..Len(trail), trail[n] \in Set(ca[cr].lits) PROVE trail[n] \in Set(c)
    <3>1. \A k \in 1..Len(trail) : trail[k] # -trail[n]
      BY TrailFacts, LitFacts
    <3> QED
      BY <2>2, <2>4, <2>6, <3>1 DEF Thins
  <2>7. ASSUME NEW i \in {1, 2}, NEW n \in 1..Len(trail), trail[n] = -c[i], Visited(cr, n)'
        PROVE  Guarded(c, n)'
    <3>1. trail[n] = -ca[cr].lits[i]
      BY <2>5, <2>7
    <3>2. Visited(cr, n)
      BY <2>7 DEF Visited
    <3> HIDE DEF d
    <3> QED
      BY <1>1, <2>3, <2>6, <2>7, <3>1, <3>2, SettledKept
  <2>8. \A i \in {1, 2} : \A n \in 1..Len(trail') : trail'[n] = -ca'[cr].lits[i] /\ Visited(cr, n)' => Guarded(c, n)'
    BY <1>1, <2>4, <2>7
  <2> QED
    BY <2>4, <2>8 DEF Settled, Guarded
<1> QED
  BY <1>5, <1>6, <1>7, <1>8

-----------------------------------------------------------------------------
(* Steps that visit no watcher *)

\* Clauses, watches and what was loaded stay while the trail moves.
LEMMA QuietMove ==
    ASSUME TrailInv, ArenaInv, WatchInv, BlockerInv, PropagatedInv, LoadedInv,
           NEW m, NEW d, Moves(m, d), UNCHANGED <<clauseVars, problem, w>>, w = 0,
           pc \notin {"conflict", "learn"}, pc' \notin {"conflict", "learn"}, ok' => ok,
           qhead \in Nat, qhead' \in Nat, qhead' <= m + 1, qhead' <= qhead
    PROVE  /\ ArenaInv' /\ WatchInv' /\ BlockerInv' /\ PropagatedInv' /\ ConflictInv' /\ LearnInv'
           /\ UNCHANGED loaded => LoadedInv'
<1>1. ca' = ca /\ watches' = watches
  BY DEF clauseVars
<1>2. ArenaInv' /\ WatchInv' /\ BlockerInv'
  BY SameClauses, MoveBlockers
<1>3. UNCHANGED loaded => LoadedInv'
  BY <1>1, MoveLoaded
<1>4. ASSUME ok', NEW cr \in CRef, ca'[cr].origin \in {"formula", "learnt"} PROVE Settled(cr)'
  <2>1. ok /\ ca'[cr] = ca[cr] /\ Settled(cr)
    BY <1>1, <1>4 DEF PropagatedInv
  <2>2. ASSUME NEW n \in 1..m, Visited(cr, n)' PROVE Visited(cr, n)
    <3>1. n \in Nat /\ n < qhead'
      BY <2>2, KeptLevels DEF Visited
    <3> QED
      BY <3>1 DEF Visited
  <2> QED
    BY <2>1, <2>2, SettledSame
<1>5. PropagatedInv'
  BY <1>4 DEF PropagatedInv
<1>6. ConflictInv' /\ LearnInv'
  BY DEF ConflictInv, LearnInv
<1> QED
  BY <1>2, <1>3, <1>5, <1>6

\* The trail is cut or stays, a level may start.
LEMMA StillMove ==
    ASSUME TrailInv, ReasonInv, DecisionInv, AssumeInv, ImpliedInv,
           NEW m, NEW d, Moves(m, d), Len(trail') = m,
           UNCHANGED <<ca, reason, assumptions, problem>>, qhead' \in 1..(Len(trail') + 1),
           Len(trail_lim') = d + 1 /\ d + 1 <= Len(assumptions) =>
               \E n \in 1..Len(trail') : trail'[n] = assumptions[d + 1]
    PROVE  TrailInv' /\ ReasonInv' /\ DecisionInv' /\ AssumeInv' /\ ImpliedInv'
<1>0. m \in Nat /\ Len(trail') # m + 1
  BY KeptLevels
<1>1. TrailInv'
  <2>1. reason' \in [Var -> CRef \cup {Undef}]
    BY DEF TrailInv
  <2> QED
    BY <2>1, MoveTrail
<1>2. ReasonInv'
  BY <1>0, MoveReason
<1>3. DecisionInv'
  BY <1>0, MoveDecision
<1>4. AssumeInv'
  BY MoveAssume
<1>5. ImpliedInv'
  <2>1. \A cr \in CRef : ca'[cr] # NoClause => Implied(Set(ca'[cr].lits))
    BY DEF ImpliedInv
  <2> QED
    BY <1>0, <2>1, MoveImplied
<1> QED
  BY <1>1, <1>2, <1>3, <1>4, <1>5

\* A literal without a reason: a decision, or a fact of level 0.
LEMMA FreeMove ==
    ASSUME TrailInv, ReasonInv, DecisionInv, AssumeInv, ImpliedInv, NEW l \in Lit, ~True(l), ~False(l),
           uncheckedEnqueue(l, Undef), UNCHANGED <<ca, qhead, assumptions, problem>>,
           \/ trail_lim' = trail_lim /\ trail_lim = <<>> /\ Implied({l})
           \/ /\ trail_lim' = Append(trail_lim, Len(trail))
              /\ decisionLevel + 1 <= Len(assumptions) => l = assumptions[decisionLevel + 1]
    PROVE  /\ TrailInv' /\ ReasonInv' /\ DecisionInv' /\ AssumeInv' /\ ImpliedInv'
           /\ Moves(Len(trail), Len(trail_lim)) /\ Len(trail') = Len(trail) + 1
<1>0. PICK m, d : m = Len(trail) /\ d = Len(trail_lim)
  OBVIOUS
<1>1. trail' = Append(trail, l) /\ reason' = [reason EXCEPT ![abs(l)] = Undef]
  BY DEF uncheckedEnqueue
<1>2. Moves(m, d) /\ Len(trail') = m + 1 /\ trail'[m + 1] = l
  BY <1>0, <1>1, MoveEnqueue
<1>3. m \in Nat /\ d \in Nat /\ decisionLevel = d /\ abs(l) \in Var
  BY <1>0, TrailFacts, LitFacts
<1>4. trail_lim' = trail_lim \/ (Len(trail_lim') = d + 1 /\ trail_lim' = Append(trail_lim, Len(trail)))
  <2>1. trail_lim \in Seq(Nat)
    BY DEF TrailInv
  <2> QED
    BY <1>0, <1>3, <2>1, AppendElements
<1>5. reason' \in [Var -> CRef \cup {Undef}] /\ reason'[abs(l)] = Undef
  BY <1>1, <1>3 DEF TrailInv
<1>6. \A n \in 1..m : reason'[abs(trail[n])] = reason[abs(trail[n])]
  <2>1. \A n \in 1..m : abs(trail[n]) # abs(l) /\ abs(trail[n]) \in Var
    BY <1>2, TrailFacts DEF Moves
  <2> QED
    BY <1>1, <2>1 DEF TrailInv
<1>7. trail_lim' = trail_lim /\ trail_lim = <<>> => d = 0 /\ Len(trail_lim') = 0
  BY <1>0
<1>8. TrailInv'
  <2>1. qhead' \in 1..(Len(trail') + 1)
    <3>1. qhead \in 1..(m + 1)
      BY <1>0 DEF TrailInv
    <3> QED
      BY <1>2, <1>3, <3>1
  <2> QED
    BY <1>2, <1>5, <2>1, MoveTrail
<1>9. ReasonInv'
  BY <1>2, <1>5, <1>6, MoveReason
<1>10. DecisionInv'
  <2>1. \/ AtRoot(m + 1)'
        \/ Len(trail_lim') = d + 1 /\ (d + 1 <= Len(assumptions) => trail'[m + 1] = assumptions[d + 1])
    <3>1. CASE trail_lim' = trail_lim /\ trail_lim = <<>>
      BY <1>7, <3>1 DEF AtRoot, decisionLevel
    <3>2. CASE ~(trail_lim' = trail_lim /\ trail_lim = <<>>)
      <4>1. Len(trail_lim') = d + 1
        BY <1>4, <3>2, <1>7
      <4> QED
        BY <1>2, <1>3, <3>2, <4>1
    <3> QED
      BY <3>1, <3>2
  <2> QED
    BY <1>2, <1>6, <2>1, MoveDecision
<1>11. AssumeInv'
  <2>1. ASSUME Len(trail_lim') = d + 1, d + 1 <= Len(assumptions)
        PROVE  \E n \in 1..Len(trail') : trail'[n] = assumptions[d + 1]
    <3>1. l = assumptions[d + 1]
      BY <1>3, <1>7, <2>1
    <3>2. m + 1 \in 1..Len(trail')
      BY <1>2, <1>3
    <3> QED
      BY <1>2, <3>1, <3>2
  <2> QED
    BY <1>2, <2>1, MoveAssume
<1>12. ImpliedInv'
  <2>1. \A cr \in CRef : ca'[cr] # NoClause => Implied(Set(ca'[cr].lits))
    BY DEF ImpliedInv
  <2>2. ASSUME AtRoot(m + 1)' PROVE Implied({trail'[m + 1]})
    <3>1. CASE Implied({l})
      BY <1>2, <3>1
    <3>2. CASE Len(trail_lim') = d + 1
      <4>1. 1 \in 1..Len(trail_lim') /\ decisionLevel' > 0
        BY <1>3, <3>2 DEF decisionLevel
      <4>2. trail_lim'[1] <= m /\ trail_lim'[1] \in Nat
        <5>1. 1 \in 1..d \/ (1 > d /\ 1 \in 1..Len(trail_lim'))
          BY <1>3, <3>2
        <5> QED
          BY <1>2, <1>3, <5>1, <4>1, KeptLevels, SMTT(40)
      <4> QED
        BY <1>3, <2>2, <4>1, <4>2 DEF AtRoot
    <3> QED
      BY <1>4, <1>7, <3>1, <3>2
  <2> QED
    BY <1>2, <2>1, <2>2, MoveImplied
<1> QED
  BY <1>0, <1>2, <1>8, <1>9, <1>10, <1>11, <1>12

\* A watcher is at hand only while propagating.
LEMMA AtRest ==
    ASSUME ControlInv, pc # "propagate"
    PROVE  w = 0
  BY DEF ControlInv

\* What a step in which all levels are given up keeps.
LEMMA CancelMove ==
    ASSUME IInv, cancelUntil(0), qhead = Len(trail) + 1, pc \notin {"conflict", "learn", "propagate"},
           pc' \notin {"conflict", "learn"}, ok' => ok,
           UNCHANGED <<clauseVars, problem, loaded, w, reason, assumptions>>
    PROVE  /\ TrailInv' /\ ArenaInv' /\ WatchInv' /\ BlockerInv' /\ ReasonInv' /\ DecisionInv' /\ AssumeInv'
           /\ ImpliedInv' /\ PropagatedInv' /\ LoadedInv' /\ ConflictInv' /\ LearnInv'
           /\ trail_lim' = <<>>
<1>1. /\ TrailInv /\ ControlInv /\ ArenaInv /\ WatchInv /\ BlockerInv /\ ReasonInv /\ DecisionInv
      /\ AssumeInv /\ ImpliedInv /\ PropagatedInv /\ LoadedInv
  BY DEF IInv
<1>2. w = 0
  BY <1>1, AtRest
<1>3. PICK m : Moves(m, 0) /\ Len(trail') = m /\ trail_lim' = <<>> /\ qhead' = m + 1 /\ Len(trail_lim') = 0
  BY <1>1, MoveCancel
<1>4. m \in Nat /\ m <= Len(trail) /\ Len(trail) \in Nat
  BY <1>1, <1>3, KeptLevels
<1>5. qhead' \in 1..(Len(trail') + 1) /\ qhead' \in Nat /\ qhead' <= m + 1 /\ qhead' <= qhead /\ qhead \in Nat
  BY <1>3, <1>4
<1>6. ca' = ca
  BY DEF clauseVars
<1>7. TrailInv' /\ ReasonInv' /\ DecisionInv' /\ AssumeInv' /\ ImpliedInv'
  BY <1>1, <1>3, <1>5, <1>6, StillMove
<1>8. ArenaInv' /\ WatchInv' /\ BlockerInv' /\ PropagatedInv' /\ LoadedInv' /\ ConflictInv' /\ LearnInv'
  BY <1>1, <1>2, <1>3, <1>5, QuietMove
<1> QED
  BY <1>3, <1>7, <1>8

\* Stopping and restarting (search, withinBudget).
LEMMA OutOfBudgetKeeps ==
    ASSUME IInv, outOfBudget
    PROVE  IInv'
<1>1. ControlInv /\ VerdictInv
  BY DEF IInv
<1>2. /\ pc = "noconflict" /\ cancelUntil(0) /\ pc' \in {"idle", "import"} /\ ok' = ok /\ qhead = Len(trail) + 1
      /\ UNCHANGED <<clauseVars, problem, loaded, w, reason, assumptions, interrupted>>
  BY <1>1 DEF outOfBudget, finish, ControlInv
<1>3. /\ TrailInv' /\ ArenaInv' /\ WatchInv' /\ BlockerInv' /\ ReasonInv' /\ DecisionInv' /\ AssumeInv'
      /\ ImpliedInv' /\ PropagatedInv' /\ LoadedInv' /\ ConflictInv' /\ LearnInv'
      /\ trail_lim' = <<>>
  BY <1>2, CancelMove
<1>4. searching /\ Len(trail_lim') = 0
  BY <1>1, <1>2, <1>3 DEF ControlInv
<1>5. (pc' = "idle" /\ result' = "UNKNOWN") \/ (pc' = "import" /\ result' = result)
  BY DEF outOfBudget, finish
<1>6. w = 0
  BY <1>1, <1>2, AtRest
<1>7. ControlInv'
  BY <1>1, <1>2, <1>3, <1>4, <1>5, <1>6 DEF ControlInv, searching, Location
<1>8. VerdictInv'
  <2>1. result' # "UNSAT"
    BY <1>4, <1>5 DEF searching
  <2>2. Models' = Models
    BY <1>2, ImpliedSame
  <2> QED
    BY <1>1, <1>2, <2>1, <2>2 DEF VerdictInv
<1> QED
  BY <1>3, <1>7, <1>8 DEF IInv

\* The answer SAT.
LEMMA ModelFoundKeeps ==
    ASSUME IInv, modelFound
    PROVE  IInv'
<1>1. ControlInv /\ VerdictInv
  BY DEF IInv
<1>2. /\ pc = "model" /\ cancelUntil(0) /\ pc' = "idle" /\ qhead = Len(trail) + 1 /\ result' = "SAT"
      /\ ok' = ok
      /\ UNCHANGED <<clauseVars, problem, loaded, w, reason, assumptions, interrupted>>
  BY <1>1 DEF modelFound, finish, ControlInv
<1>3. /\ TrailInv' /\ ArenaInv' /\ WatchInv' /\ BlockerInv' /\ ReasonInv' /\ DecisionInv' /\ AssumeInv'
      /\ ImpliedInv' /\ PropagatedInv' /\ LoadedInv' /\ ConflictInv' /\ LearnInv'
      /\ trail_lim' = <<>>
  BY <1>2, CancelMove
<1>4. Len(trail_lim') = 0 /\ w = 0
  BY <1>1, <1>2, <1>3, AtRest
<1>5. ControlInv'
  BY <1>1, <1>2, <1>3, <1>4 DEF ControlInv, searching, Location
<1>6. VerdictInv'
  <2>1. Models' = Models
    BY <1>2, ImpliedSame
  <2> QED
    BY <1>1, <1>2, <2>1 DEF VerdictInv
<1> QED
  BY <1>3, <1>5, <1>6 DEF IInv

\* Nothing but the place of the thread and what does not concern the search changes.
LEMMA RestMove ==
    ASSUME IInv, pc \notin {"conflict", "learn", "propagate"}, pc' \notin {"conflict", "learn"}, ok' => ok,
           UNCHANGED <<clauseVars, trailVars, problem, w, assumptions>>
    PROVE  /\ TrailInv' /\ ArenaInv' /\ WatchInv' /\ BlockerInv' /\ ReasonInv' /\ DecisionInv' /\ AssumeInv'
           /\ ImpliedInv' /\ PropagatedInv' /\ ConflictInv' /\ LearnInv'
           /\ UNCHANGED loaded => LoadedInv'
<1>1. /\ TrailInv /\ ControlInv /\ ArenaInv /\ WatchInv /\ BlockerInv /\ ReasonInv /\ DecisionInv
      /\ AssumeInv /\ ImpliedInv /\ PropagatedInv /\ LoadedInv
  BY DEF IInv
<1>2. w = 0
  BY <1>1, AtRest
<1>3. ca' = ca /\ trail' = trail /\ trail_lim' = trail_lim /\ qhead' = qhead /\ reason' = reason
  BY DEF clauseVars, trailVars
<1>4. PICK m, d : m = Len(trail) /\ d = Len(trail_lim)
  OBVIOUS
<1>5. Moves(m, d) /\ Len(trail') = m /\ m \in Nat /\ d \in Nat /\ Len(trail_lim') # d + 1
  BY <1>1, <1>3, <1>4, MoveNone, TrailFacts
<1>6. qhead' \in 1..(Len(trail') + 1) /\ qhead' \in Nat /\ qhead' <= m + 1 /\ qhead' <= qhead /\ qhead \in Nat
  BY <1>1, <1>3, <1>4, <1>5 DEF TrailInv
<1>7. TrailInv' /\ ReasonInv' /\ DecisionInv' /\ AssumeInv' /\ ImpliedInv'
  BY <1>1, <1>3, <1>5, <1>6, StillMove
<1>8. /\ ArenaInv' /\ WatchInv' /\ BlockerInv' /\ PropagatedInv' /\ ConflictInv' /\ LearnInv'
      /\ UNCHANGED loaded => LoadedInv'
  BY <1>1, <1>2, <1>5, <1>6, QuietMove
<1> QED
  BY <1>7, <1>8

\* The imports end.
LEMMA ImportsDoneKeeps ==
    ASSUME IInv, importsDone
    PROVE  IInv'
<1>1. ControlInv /\ VerdictInv
  BY DEF IInv
<1>2. /\ pc \in {"import", "clauses"} /\ pc' = "propagate"
      /\ UNCHANGED <<problem, clauseVars, trailVars, ok, loaded, w, confl, learnt_clause, callVars, interrupted>>
  BY DEF importsDone
<1>3. assumptions' = assumptions /\ result' = result /\ conflict' = conflict
      /\ trail' = trail /\ trail_lim' = trail_lim /\ qhead' = qhead
  BY <1>2 DEF callVars, trailVars
<1>4. /\ TrailInv' /\ ArenaInv' /\ WatchInv' /\ BlockerInv' /\ ReasonInv' /\ DecisionInv' /\ AssumeInv'
      /\ ImpliedInv' /\ PropagatedInv' /\ LoadedInv' /\ ConflictInv' /\ LearnInv'
  BY <1>2, <1>3, RestMove
<1>5. ControlInv'
  BY <1>1, <1>2, <1>3 DEF ControlInv, searching, Location
<1>6. VerdictInv'
  <2>1. Models' = Models
    BY <1>2, ImpliedSame
  <2> QED
    BY <1>1, <1>2, <1>3, <2>1 DEF VerdictInv, Implied
<1> QED
  BY <1>4, <1>5, <1>6 DEF IInv

\* The answers stay.
LEMMA VerdictSame ==
    ASSUME VerdictInv, UNCHANGED <<problem, assumptions, result, conflict, ok>>
    PROVE  VerdictInv'
<1>1. Models' = Models
  BY ImpliedSame
<1> QED
  BY <1>1 DEF VerdictInv, Implied

\* The search stays where it is.
LEMMA StayMove ==
    ASSUME IInv, UNCHANGED <<clauseVars, trailVars, problem, loaded, w, ok, assumptions>>,
           pc \in {"conflict", "learn"} => pc' \in {"conflict", "learn"}
    PROVE  /\ TrailInv' /\ ArenaInv' /\ WatchInv' /\ BlockerInv' /\ ReasonInv' /\ DecisionInv' /\ AssumeInv'
           /\ ImpliedInv' /\ PropagatedInv' /\ LoadedInv'
<1>1. /\ TrailInv /\ ArenaInv /\ WatchInv /\ BlockerInv /\ ReasonInv /\ DecisionInv
      /\ AssumeInv /\ ImpliedInv /\ PropagatedInv /\ LoadedInv
  BY DEF IInv
<1>2. /\ UNCHANGED clauseVars /\ ca' = ca /\ watches' = watches
      /\ trail' = trail /\ trail_lim' = trail_lim /\ qhead' = qhead /\ reason' = reason
  BY DEF clauseVars, trailVars
<1>3. PICK m, d : m = Len(trail) /\ d = Len(trail_lim)
  OBVIOUS
<1>4. Moves(m, d) /\ Len(trail') = m /\ m \in Nat /\ d \in Nat /\ Len(trail_lim') # d + 1
  BY <1>1, <1>2, <1>3, MoveNone, TrailFacts
<1>5. qhead' \in 1..(Len(trail') + 1) /\ qhead' \in Nat /\ qhead' <= m + 1
  BY <1>1, <1>2, <1>3, <1>4 DEF TrailInv
<1>6. TrailInv' /\ ReasonInv' /\ DecisionInv' /\ AssumeInv' /\ ImpliedInv'
  BY <1>1, <1>2, <1>4, <1>5, StillMove
<1>7. ArenaInv' /\ WatchInv' /\ BlockerInv' /\ LoadedInv'
  <2>1. ArenaInv' /\ WatchInv' /\ BlockerInv'
    BY <1>1, <1>2, <1>4, SameClauses, MoveBlockers
  <2>2. LoadedInv'
    BY <1>1, <1>2, <1>4, MoveLoaded
  <2> QED
    BY <2>1, <2>2
<1>8. PropagatedInv'
  <2>1. ASSUME ok', NEW cr \in CRef, ca'[cr].origin \in {"formula", "learnt"} PROVE Settled(cr)'
    <3>1. ok /\ ca'[cr] = ca[cr] /\ Settled(cr)
      BY <1>1, <1>2, <2>1 DEF PropagatedInv
    <3>2. ASSUME NEW n \in 1..m, Visited(cr, n)' PROVE Visited(cr, n)
      BY <1>2, <3>2 DEF Visited
    <3> QED
      BY <1>1, <1>4, <1>5, <3>1, <3>2, SettledSame
  <2> QED
    BY <2>1 DEF PropagatedInv
<1> QED
  BY <1>6, <1>7, <1>8

\* A clause asserts as long as the trail stays.
LEMMA AssertingSame ==
    ASSUME NEW c, Asserting(c), UNCHANGED <<trail, trail_lim, problem>>
    PROVE  Asserting(c)'
  BY DEF Asserting, AtRoot, decisionLevel, Implied, Models, Set

\* A request to stop changes nothing else.
LEMMA InterruptKeeps ==
    ASSUME IInv, interrupt
    PROVE  IInv'
<1>1. ControlInv /\ ConflictInv /\ LearnInv /\ VerdictInv
  BY DEF IInv
<1>2. /\ UNCHANGED <<clauseVars, trailVars, problem, loaded, w, ok, assumptions>> /\ interrupted' = TRUE
      /\ pc' = pc /\ ca' = ca /\ trail' = trail /\ trail_lim' = trail_lim /\ qhead' = qhead
      /\ confl' = confl /\ learnt_clause' = learnt_clause
      /\ assumptions' = assumptions /\ result' = result /\ conflict' = conflict
  BY DEF interrupt, clauseVars, trailVars, callVars
<1>3. /\ TrailInv' /\ ArenaInv' /\ WatchInv' /\ BlockerInv' /\ ReasonInv' /\ DecisionInv' /\ AssumeInv'
      /\ ImpliedInv' /\ PropagatedInv' /\ LoadedInv'
  BY <1>2, StayMove
<1>4. ConflictInv'
  BY <1>1, <1>2 DEF ConflictInv
<1>5. LearnInv'
  <2>1. PICK c : c = learnt_clause
    OBVIOUS
  <2>2. pc' = "learn" => Asserting(c)'
    BY <1>1, <1>2, <2>1, AssertingSame DEF LearnInv
  <2> QED
    BY <1>2, <2>1, <2>2 DEF LearnInv, Asserting
<1>6. ControlInv'
  BY <1>1, <1>2 DEF ControlInv, searching
<1>7. VerdictInv'
  BY <1>1, <1>2, VerdictSame
<1> QED
  BY <1>3, <1>4, <1>5, <1>6, <1>7 DEF IInv

\* A solver that found the formula to have no model says so of every cube.
LEMMA SolveKeeps ==
    ASSUME IInv, solve
    PROVE  IInv'
<1>1. /\ TrailInv /\ ControlInv /\ ArenaInv /\ WatchInv /\ BlockerInv /\ ReasonInv /\ DecisionInv
      /\ AssumeInv /\ ImpliedInv /\ PropagatedInv /\ LoadedInv /\ VerdictInv
  BY DEF IInv
<1>2. /\ pc = "idle" /\ loaded = Len(problem.formula) /\ conflict' = {} /\ interrupted' = FALSE
      /\ UNCHANGED <<clauseVars, trailVars, problem, loaded, w, ok>>
      /\ IF ok THEN pc' = "import" /\ result' = "searching" ELSE pc' = "idle" /\ result' = "UNSAT"
  BY DEF solve
<1>3. assumptions' \in Seq(Lit)
  <2>1. PICK cube \in problem.cubes : assumptions' = cube
    BY DEF solve
  <2>2. problem \in Problems
    BY <1>1 DEF ControlInv
  <2> QED
    BY <2>1, <2>2, ProblemsAssumption
<1>4. /\ ca' = ca /\ watches' = watches /\ trail' = trail /\ trail_lim' = trail_lim
      /\ qhead' = qhead /\ reason' = reason
  BY <1>2 DEF clauseVars, trailVars
<1>5. w = 0 /\ trail_lim = <<>> /\ Len(trail_lim) = 0 /\ ~searching
  <2>1. w = 0
    BY <1>1, <1>2, AtRest
  <2>2. trail_lim = <<>>
    BY <1>1, <1>2 DEF ControlInv
  <2> QED
    BY <1>1, <1>2, <2>1, <2>2 DEF ControlInv
<1>6. PICK m, d : m = Len(trail) /\ d = Len(trail_lim)
  OBVIOUS
<1>7. Moves(m, d) /\ Len(trail') = m /\ m \in Nat /\ d \in Nat /\ Len(trail') # m + 1
  BY <1>1, <1>4, <1>6, MoveNone, TrailFacts
<1>8. qhead' \in 1..(Len(trail') + 1) /\ qhead' \in Nat /\ qhead' <= m + 1 /\ qhead' <= qhead /\ qhead \in Nat
  BY <1>1, <1>4, <1>6, <1>7 DEF TrailInv
<1>9. pc \notin {"conflict", "learn"} /\ pc' \notin {"conflict", "learn"}
  BY <1>2
<1>10. ArenaInv' /\ WatchInv' /\ BlockerInv' /\ PropagatedInv' /\ LoadedInv' /\ ConflictInv' /\ LearnInv'
  BY <1>1, <1>2, <1>5, <1>7, <1>8, <1>9, QuietMove
<1>11. TrailInv' /\ ReasonInv' /\ ImpliedInv'
  <2>1. TrailInv'
    <3>1. reason' \in [Var -> CRef \cup {Undef}]
      BY <1>1, <1>4 DEF TrailInv
    <3> QED
      BY <1>1, <1>7, <1>8, <3>1, MoveTrail
  <2>2. ReasonInv'
    BY <1>1, <1>4, <1>7, MoveReason
  <2>3. ImpliedInv'
    <3>1. \A cr \in CRef : ca'[cr] # NoClause => Implied(Set(ca'[cr].lits))
      BY <1>1, <1>4 DEF ImpliedInv
    <3> QED
      BY <1>1, <1>2, <1>7, <3>1, MoveImplied
  <2> QED
    BY <2>1, <2>2, <2>3
<1>12. DecisionInv' /\ AssumeInv'
  <2>1. Len(trail_lim') = 0
    BY <1>4, <1>5
  <2>2. \A n : AtRoot(n)'
    BY <2>1 DEF AtRoot, decisionLevel
  <2>3. 1..Len(trail_lim') = {}
    BY <2>1
  <2> QED
    BY <2>2, <2>3 DEF DecisionInv, AssumeInv
<1>13. ControlInv'
  BY <1>1, <1>2, <1>3, <1>4, <1>5 DEF ControlInv, searching, Location
<1>14. VerdictInv'
  <2>1. Models' = Models
    BY <1>2, ImpliedSame
  <2>2. result' = "UNSAT" => Models = {}
    BY <1>1, <1>2 DEF VerdictInv
  <2> QED
    BY <1>1, <1>2, <2>1, <2>2 DEF VerdictInv, Implied
<1> QED
  BY <1>10, <1>11, <1>12, <1>13, <1>14 DEF IInv

\* What a step that puts a literal without a reason on the trail keeps.
LEMMA FreeStep ==
    ASSUME IInv, NEW l \in Lit, ~True(l), ~False(l), uncheckedEnqueue(l, Undef),
           UNCHANGED <<clauseVars, qhead, assumptions, problem, w>>,
           pc \notin {"conflict", "learn", "propagate"}, pc' \notin {"conflict", "learn"}, ok' => ok,
           \/ trail_lim' = trail_lim /\ trail_lim = <<>> /\ Implied({l})
           \/ /\ trail_lim' = Append(trail_lim, Len(trail))
              /\ decisionLevel + 1 <= Len(assumptions) => l = assumptions[decisionLevel + 1]
    PROVE  /\ TrailInv' /\ ArenaInv' /\ WatchInv' /\ BlockerInv' /\ ReasonInv' /\ DecisionInv' /\ AssumeInv'
           /\ ImpliedInv' /\ PropagatedInv' /\ ConflictInv' /\ LearnInv'
           /\ UNCHANGED loaded => LoadedInv'
           /\ Len(trail') = Len(trail) + 1
<1>1. /\ TrailInv /\ ControlInv /\ ArenaInv /\ WatchInv /\ BlockerInv /\ ReasonInv /\ DecisionInv
      /\ AssumeInv /\ ImpliedInv /\ PropagatedInv /\ LoadedInv
  BY DEF IInv
<1>2. w = 0
  BY <1>1, AtRest
<1>3. UNCHANGED <<ca, qhead, assumptions, problem>>
  BY DEF clauseVars
<1>4. /\ TrailInv' /\ ReasonInv' /\ DecisionInv' /\ AssumeInv' /\ ImpliedInv'
      /\ Moves(Len(trail), Len(trail_lim)) /\ Len(trail') = Len(trail) + 1
  BY <1>1, <1>3, FreeMove
<1>5. PICK m, d : m = Len(trail) /\ d = Len(trail_lim)
  OBVIOUS
<1>6. qhead \in Nat /\ qhead' \in Nat /\ qhead' <= m + 1 /\ qhead' <= qhead
  BY <1>1, <1>5 DEF TrailInv
<1>7. Moves(m, d)
  BY <1>4, <1>5
<1>8. /\ ArenaInv' /\ WatchInv' /\ BlockerInv' /\ PropagatedInv' /\ ConflictInv' /\ LearnInv'
      /\ UNCHANGED loaded => LoadedInv'
  BY <1>1, <1>2, <1>6, <1>7, QuietMove
<1> QED
  BY <1>4, <1>8

\* A unit of another solver is taken in at level 0 (importUnitClauses).
LEMMA ImportUnitClauseKeeps ==
    ASSUME IInv, importUnitClause
    PROVE  IInv'
<1>1. TrailInv /\ ControlInv /\ VerdictInv
  BY DEF IInv
<1>2. PICK c \in problem.imports :
        /\ Len(c) = 1
        /\ IF True(c[1]) \/ False(c[1]) THEN UNCHANGED <<trail, reason>> ELSE uncheckedEnqueue(c[1], Undef)
  BY DEF importUnitClause
<1>3. /\ pc = "import"
      /\ UNCHANGED <<problem, clauseVars, trail_lim, qhead, ok, pc, loaded, w, callVars, interrupted>>
      /\ assumptions' = assumptions /\ result' = result /\ conflict' = conflict
  BY DEF importUnitClause, callVars
<1>4. PICK l \in Lit : l = c[1] /\ Implied({l})
  <2>1. problem \in Problems
    BY <1>1 DEF ControlInv
  <2>2. c \in Seq(Lit) /\ \A a \in Models : Satisfies(a, Set(c))
    BY <2>1, ProblemsAssumption DEF Models
  <2>3. Set(c) = {c[1]} /\ c[1] \in Lit
    BY <1>2, <2>2 DEF Set
  <2> QED
    BY <2>2, <2>3 DEF Implied
<1>5. trail_lim = <<>>
  BY <1>1, <1>3 DEF ControlInv
<1>6. /\ TrailInv' /\ ArenaInv' /\ WatchInv' /\ BlockerInv' /\ ReasonInv' /\ DecisionInv' /\ AssumeInv'
      /\ ImpliedInv' /\ PropagatedInv' /\ LoadedInv' /\ ConflictInv' /\ LearnInv'
  <2>1. CASE True(l) \/ False(l)
    <3>1. UNCHANGED trailVars
      BY <1>2, <1>3, <1>4, <2>1 DEF trailVars
    <3> QED
      BY <1>3, <3>1, RestMove
  <2>2. CASE ~True(l) /\ ~False(l)
    <3>1. uncheckedEnqueue(l, Undef)
      BY <1>2, <1>4, <2>2
    <3> QED
      BY <1>3, <1>4, <1>5, <2>2, <3>1, FreeStep
  <2> QED
    BY <2>1, <2>2
<1>7. ControlInv'
  BY <1>1, <1>3, <1>5 DEF ControlInv, searching
<1>8. VerdictInv'
  BY <1>1, <1>3, VerdictSame
<1> QED
  BY <1>6, <1>7, <1>8 DEF IInv

\* A branching literal opens a level, or the trail is a model (pickBranchLit).
LEMMA DecideKeeps ==
    ASSUME IInv, decide
    PROVE  IInv'
<1>1. TrailInv /\ ControlInv /\ VerdictInv
  BY DEF IInv
<1>2. /\ pc = "decide" /\ decisionLevel >= Len(assumptions) /\ ok' = ok /\ result' = result /\ conflict' = conflict
      /\ UNCHANGED <<problem, clauseVars, loaded, w, assumptions, interrupted>>
      /\ qhead' = qhead
  BY DEF decide, trailVars
<1>3. /\ decisionLevel = Len(trail_lim) /\ Len(trail_lim) \in Nat /\ Len(trail) \in Nat
      /\ qhead = Len(trail) + 1 /\ w = 0 /\ searching /\ ok /\ Len(assumptions) \in Nat
      /\ trail_lim \in Seq(Nat)
  BY <1>1, <1>2, AtRest, TrailFacts DEF ControlInv, TrailInv
<1>4. CASE pc' = "model" /\ Len(trail) = NVars /\ UNCHANGED trailVars
  <2>1. trail' = trail /\ trail_lim' = trail_lim
    BY <1>4 DEF trailVars
  <2>2. /\ TrailInv' /\ ArenaInv' /\ WatchInv' /\ BlockerInv' /\ ReasonInv' /\ DecisionInv' /\ AssumeInv'
        /\ ImpliedInv' /\ PropagatedInv' /\ LoadedInv' /\ ConflictInv' /\ LearnInv'
    BY <1>2, <1>4, RestMove
  <2>3. ControlInv'
    BY <1>1, <1>2, <1>3, <1>4, <2>1 DEF ControlInv, searching, Location
  <2> QED
    BY <1>1, <1>2, <2>2, <2>3, VerdictSame DEF IInv
<1>5. CASE /\ pc' = "propagate" /\ newDecisionLevel
           /\ \E p \in {l \in Lit : ~True(l) /\ ~False(l)} : uncheckedEnqueue(p, Undef)
  <2>1. PICK p \in Lit : ~True(p) /\ ~False(p) /\ uncheckedEnqueue(p, Undef)
    BY <1>5
  <2>2. trail_lim' = Append(trail_lim, Len(trail))
    BY <1>5 DEF newDecisionLevel
  <2>3. ~(decisionLevel + 1 <= Len(assumptions))
    BY <1>2, <1>3
  <2>4. /\ TrailInv' /\ ArenaInv' /\ WatchInv' /\ BlockerInv' /\ ReasonInv' /\ DecisionInv' /\ AssumeInv'
        /\ ImpliedInv' /\ PropagatedInv' /\ LoadedInv' /\ ConflictInv' /\ LearnInv'
        /\ Len(trail') = Len(trail) + 1
    BY <1>2, <1>5, <2>1, <2>2, <2>3, FreeStep
  <2>5. Len(trail_lim') = Len(trail_lim) + 1 /\ trail_lim'[Len(trail_lim')] = Len(trail)
    BY <1>3, <2>2, AppendElements
  <2>6. ControlInv'
    BY <1>1, <1>2, <1>3, <1>5, <2>4, <2>5 DEF ControlInv, searching, Location
  <2> QED
    BY <1>1, <1>2, <2>4, <2>6, VerdictSame DEF IInv
<1> QED
  BY <1>4, <1>5 DEF decide

\* An assumption is found true, false, or made true.
LEMMA AssumeKeeps ==
    ASSUME IInv, assume
    PROVE  IInv'
<1>1. /\ TrailInv /\ ControlInv /\ ArenaInv /\ WatchInv /\ BlockerInv /\ ReasonInv /\ DecisionInv
      /\ AssumeInv /\ ImpliedInv /\ PropagatedInv /\ LoadedInv /\ VerdictInv
  BY DEF IInv
<1>2. /\ pc = "decide" /\ decisionLevel < Len(assumptions)
      /\ UNCHANGED <<problem, clauseVars, loaded, w, assumptions, interrupted>>
      /\ ca' = ca
  BY DEF assume, clauseVars
<1>3. /\ decisionLevel = Len(trail_lim) /\ Len(trail_lim) \in Nat /\ Len(trail) \in Nat
      /\ qhead = Len(trail) + 1 /\ w = 0 /\ searching /\ ok /\ Len(assumptions) \in Nat
      /\ trail_lim \in Seq(Nat) /\ assumptions \in Seq(Lit) /\ problem \in Problems
  BY <1>1, <1>2, AtRest, TrailFacts DEF ControlInv, TrailInv
<1>4. PICK p \in Lit : p = assumptions[decisionLevel + 1]
  <2>1. decisionLevel + 1 \in 1..Len(assumptions)
    BY <1>2, <1>3
  <2> QED
    BY <1>3, <2>1
<1>5. CASE True(p) /\ newDecisionLevel /\ UNCHANGED <<trail, qhead, reason, ok, pc, result, conflict>>
  <2>1. PICK m, d : m = Len(trail) /\ d = Len(trail_lim)
    OBVIOUS
  <2>2. Moves(m, d) /\ Len(trail') = m /\ m \in Nat /\ d \in Nat
    BY <1>1, <1>3, <1>5, <2>1, MoveLevel DEF newDecisionLevel
  <2>3. qhead' \in 1..(Len(trail') + 1) /\ qhead' \in Nat /\ qhead' <= m + 1 /\ qhead' <= qhead /\ qhead \in Nat
    BY <1>1, <1>5, <2>1, <2>2 DEF TrailInv
  <2>4. \E n \in 1..Len(trail') : trail'[n] = assumptions[d + 1]
    BY <1>1, <1>3, <1>4, <1>5, <2>1, TrailFacts
  <2>5. TrailInv' /\ ReasonInv' /\ DecisionInv' /\ AssumeInv' /\ ImpliedInv'
    BY <1>1, <1>2, <1>5, <2>2, <2>3, <2>4, StillMove
  <2>6. ArenaInv' /\ WatchInv' /\ BlockerInv' /\ PropagatedInv' /\ LoadedInv' /\ ConflictInv' /\ LearnInv'
    BY <1>1, <1>2, <1>3, <1>5, <2>2, <2>3, QuietMove
  <2>7. Len(trail_lim') = Len(trail_lim) + 1 /\ trail_lim'[Len(trail_lim')] = Len(trail)
    BY <1>3, <1>5, AppendElements DEF newDecisionLevel
  <2>8. ControlInv'
    BY <1>1, <1>2, <1>3, <1>5, <2>7 DEF ControlInv, searching
  <2> QED
    BY <1>1, <1>2, <1>5, <2>5, <2>6, <2>8, VerdictSame DEF IInv
<1>6. CASE False(p) /\ finish("UNSAT", analyzeFinal(-p)) /\ UNCHANGED reason
  <2>1. PICK i \in 1..Len(trail) : trail[i] = -p
    BY <1>1, <1>6, TrailFacts
  <2>2. PICK core : core = analyzeFinal(-p)
    OBVIOUS
  <2>3. /\ Implied(core) /\ core \subseteq {-l : l \in Set(assumptions)} /\ -p \in core
    <3>1. Implied(analyzeFinal(trail[i]))
      BY <1>1, <1>3, FinalOf
    <3>2. analyzeFinal(trail[i]) \subseteq {-l : l \in Set(assumptions)}
      BY <1>1, <1>2, <1>3, <1>4, <2>1, FinalNames
    <3>3. -p \in core
      BY <2>2 DEF analyzeFinal
    <3> QED
      BY <2>1, <2>2, <3>1, <3>2, <3>3
  <2>4. /\ pc' = "idle" /\ result' = "UNSAT" /\ conflict' = core /\ ok' = ok /\ cancelUntil(0)
    BY <1>3, <1>6, <2>2, <2>3 DEF finish
  <2>5. /\ TrailInv' /\ ArenaInv' /\ WatchInv' /\ BlockerInv' /\ ReasonInv' /\ DecisionInv' /\ AssumeInv'
        /\ ImpliedInv' /\ PropagatedInv' /\ LoadedInv' /\ ConflictInv' /\ LearnInv'
        /\ trail_lim' = <<>>
    BY <1>2, <1>3, <1>6, <2>4, CancelMove
  <2>6. Len(trail_lim') = 0
    BY <2>5
  <2>7. ControlInv'
    BY <1>1, <1>2, <1>3, <2>4, <2>5, <2>6 DEF ControlInv, searching, Location
  <2>8. VerdictInv'
    <3>1. Models' = Models /\ (Implied(core)' <=> Implied(core))
      BY <1>2, ImpliedSame DEF Implied
    <3>2. ASSUME NEW a \in Models PROVE \E n \in DOMAIN assumptions : ~Holds(a, assumptions[n])
      <4>1. PICK q \in core : Holds(a, q)
        BY <2>3 DEF Implied, Satisfies
      <4>2. PICK l \in Set(assumptions) : q = -l
        BY <2>3
      <4>3. l \in Lit /\ a \in Assignments
        BY <1>3, <4>2, SetOf, ModelFacts
      <4>4. ~Holds(a, l)
        BY <4>1, <4>2, <4>3, HoldsNot
      <4> QED
        BY <4>2, <4>4 DEF Set
    <3>3. Implied(conflict)'
      BY <2>3, <2>4, <3>1 DEF Implied
    <3> QED
      BY <1>1, <1>2, <1>3, <2>3, <2>4, <3>1, <3>2, <3>3 DEF VerdictInv
  <2> QED
    BY <2>5, <2>7, <2>8 DEF IInv
<1>7. CASE /\ ~True(p) /\ ~False(p) /\ newDecisionLevel /\ uncheckedEnqueue(p, Undef)
           /\ pc' = "propagate" /\ UNCHANGED <<qhead, ok, result, conflict>>
  <2>1. trail_lim' = Append(trail_lim, Len(trail))
    BY <1>7 DEF newDecisionLevel
  <2>2. /\ TrailInv' /\ ArenaInv' /\ WatchInv' /\ BlockerInv' /\ ReasonInv' /\ DecisionInv' /\ AssumeInv'
        /\ ImpliedInv' /\ PropagatedInv' /\ LoadedInv' /\ ConflictInv' /\ LearnInv'
        /\ Len(trail') = Len(trail) + 1
    BY <1>2, <1>4, <1>7, <2>1, FreeStep
  <2>3. Len(trail_lim') = Len(trail_lim) + 1 /\ trail_lim'[Len(trail_lim')] = Len(trail)
    BY <1>3, <2>1, AppendElements
  <2>4. ControlInv'
    BY <1>1, <1>2, <1>3, <1>7, <2>2, <2>3 DEF ControlInv, searching, Location
  <2> QED
    BY <1>1, <1>2, <1>7, <2>2, <2>4, VerdictSame DEF IInv
<1> QED
  BY <1>4, <1>5, <1>6, <1>7 DEF assume

\* A clause is added while the trail moves: what depends on clauses.
LEMMA PlacedRest ==
    ASSUME TrailInv, ArenaInv, WatchInv, BlockerInv, ImpliedInv, PropagatedInv,
           NEW m, NEW d, Moves(m, d), NEW c \in Seq(Lit), Len(c) >= 2, Implied(Set(c)),
           NEW origin, NEW cr, Placed(cr, c, origin), ok' => ok,
           qhead' \in Nat, qhead' <= m + 1,
           \A x \in CRef : \A n \in 1..m : Visited(x, n)' => Visited(x, n),
           origin \in {"formula", "learnt"} => Settled(cr)'
    PROVE  /\ BlockerInv' /\ PropagatedInv'
           /\ \A x \in CRef : ca'[x] # NoClause => Implied(Set(ca'[x].lits))
           /\ \A x \in CRef : ca[x].origin = "formula" =>
                 ca'[x].origin = "formula" /\ Set(ca'[x].lits) \subseteq Set(ca[x].lits)
           /\ \A x \in CRef : ca[x] # NoClause => ca'[x] = ca[x]
<1>1. /\ cr \in CRef /\ ca[cr] = NoClause /\ ca'[cr] = [lits |-> c, origin |-> origin]
      /\ \A x \in CRef : x # cr => ca'[x] = ca[x]
  BY DEF Placed
<1>2. BlockerInv'
  BY PlacedBlockers
<1>3. PropagatedInv'
  <2>1. ASSUME ok', NEW x \in CRef, ca'[x].origin \in {"formula", "learnt"} PROVE Settled(x)'
    <3>1. CASE x = cr
      <4>1. origin \in {"formula", "learnt"}
        BY <1>1, <2>1, <3>1
      <4> QED
        BY <3>1, <4>1
    <3>2. CASE x # cr
      <4>1. ca'[x] = ca[x] /\ Settled(x)
        BY <1>1, <2>1, <3>2 DEF PropagatedInv
      <4> QED
        BY <4>1, SettledSame
    <3> QED
      BY <3>1, <3>2
  <2> QED
    BY <2>1 DEF PropagatedInv
<1>4. ASSUME NEW x \in CRef, ca'[x] # NoClause PROVE Implied(Set(ca'[x].lits))
  <2>1. CASE x = cr
    <3>1. ca'[x].lits = c
      BY <1>1, <2>1
    <3> QED
      BY <3>1
  <2>2. CASE x # cr
    <3>1. ca'[x] = ca[x] /\ ca[x] # NoClause
      BY <1>1, <1>4, <2>2
    <3>2. Implied(Set(ca[x].lits))
      BY <3>1 DEF ImpliedInv
    <3> QED
      BY <3>1, <3>2
  <2> QED
    BY <2>1, <2>2
<1>5. ASSUME NEW x \in CRef, ca[x] # NoClause PROVE ca'[x] = ca[x]
  BY <1>1, <1>5
<1>6. \A x \in CRef : ca[x].origin = "formula" => ca[x] # NoClause
  BY DEF NoClause
<1>7. ASSUME NEW x \in CRef, ca[x].origin = "formula"
      PROVE  ca'[x].origin = "formula" /\ Set(ca'[x].lits) \subseteq Set(ca[x].lits)
  <2>1. ca'[x] = ca[x]
    BY <1>5, <1>6, <1>7
  <2> QED
    BY <1>7, <2>1
<1> QED
  BY <1>2, <1>3, <1>4, <1>5, <1>7

\* The reason of a fact is a clause.
LEMMA ReasonHeld ==
    ASSUME TrailInv, ReasonInv, NEW n \in 1..Len(trail), reason[abs(trail[n])] # Undef
    PROVE  reason[abs(trail[n])] \in CRef /\ ca[reason[abs(trail[n])]] # NoClause
<1>1. abs(trail[n]) \in Var
  BY TrailFacts
<1>2. reason[abs(trail[n])] \in CRef
  BY <1>1 DEF TrailInv
<1> QED
  BY <1>2 DEF ReasonInv

\* A clause is added at level 0 and nothing else happens to the trail and the queue.
LEMMA AddMove ==
    ASSUME IInv, room, NEW c \in Seq(Lit), Len(c) >= 2, NoRepeat(c), Implied(Set(c)),
           NEW origin \in {"formula", "imported"}, newClause(c, origin),
           UNCHANGED <<trailVars, problem, w, assumptions>>, ok' => ok,
           pc \notin {"conflict", "learn", "propagate"}, pc' \notin {"conflict", "learn"},
           origin = "formula" => \A i \in {1, 2} : ~False(c[i])
    PROVE  /\ TrailInv' /\ ArenaInv' /\ WatchInv' /\ BlockerInv' /\ ReasonInv' /\ DecisionInv' /\ AssumeInv'
           /\ ImpliedInv' /\ PropagatedInv' /\ ConflictInv' /\ LearnInv'
           /\ UNCHANGED loaded => LoadedInv'
           /\ \A x \in CRef : ca[x].origin = "formula" =>
                 ca'[x].origin = "formula" /\ Set(ca'[x].lits) \subseteq Set(ca[x].lits)
           /\ ca'[nextCRef] = [lits |-> c, origin |-> origin] /\ nextCRef \in CRef
<1>1. /\ TrailInv /\ ControlInv /\ ArenaInv /\ WatchInv /\ BlockerInv /\ ReasonInv /\ DecisionInv
      /\ AssumeInv /\ ImpliedInv /\ PropagatedInv /\ LoadedInv
  BY DEF IInv
<1>2. trail' = trail /\ trail_lim' = trail_lim /\ qhead' = qhead /\ reason' = reason
  BY DEF trailVars
<1>3. PICK cr : cr = nextCRef
  OBVIOUS
<1>4. Placed(cr, c, origin) /\ ArenaInv' /\ WatchInv'
  BY <1>1, <1>3, NewClauseOf
<1>5. PICK m, d : m = Len(trail) /\ d = Len(trail_lim)
  OBVIOUS
<1>6. Moves(m, d) /\ Len(trail') = m /\ m \in Nat /\ d \in Nat /\ Len(trail_lim') # d + 1 /\ Len(trail') # m + 1
  BY <1>1, <1>2, <1>5, MoveNone, TrailFacts
<1>7. qhead' \in 1..(Len(trail') + 1) /\ qhead' \in Nat /\ qhead' <= m + 1 /\ w = 0
  BY <1>1, <1>2, <1>5, <1>6, AtRest DEF TrailInv
<1>8. \A x \in CRef : \A n \in 1..m : Visited(x, n)' => Visited(x, n)
  BY <1>2, <1>7 DEF Visited
<1>9. origin \in {"formula", "learnt"} => Settled(cr)'
  <2>1. ASSUME origin = "formula", NEW i \in {1, 2}, NEW n \in 1..Len(trail) PROVE trail[n] # -c[i]
    BY <1>1, <2>1, TrailFacts
  <2>2. ca'[cr].lits = c
    BY <1>4 DEF Placed
  <2> QED
    BY <1>2, <2>1, <2>2 DEF Settled
<1>10. /\ BlockerInv' /\ PropagatedInv'
       /\ \A x \in CRef : ca'[x] # NoClause => Implied(Set(ca'[x].lits))
       /\ \A x \in CRef : ca[x].origin = "formula" =>
             ca'[x].origin = "formula" /\ Set(ca'[x].lits) \subseteq Set(ca[x].lits)
       /\ \A x \in CRef : ca[x] # NoClause => ca'[x] = ca[x]
  BY <1>1, <1>4, <1>6, <1>7, <1>8, <1>9, PlacedRest
<1>11. TrailInv' /\ ReasonInv' /\ DecisionInv' /\ AssumeInv' /\ ImpliedInv'
  <2>1. TrailInv'
    <3>1. reason' \in [Var -> CRef \cup {Undef}]
      BY <1>1, <1>2 DEF TrailInv
    <3> QED
      BY <1>1, <1>6, <1>7, <3>1, MoveTrail
  <2>2. ReasonInv'
    <3>1. \A n \in 1..m : reason[abs(trail[n])] # Undef => ca'[reason[abs(trail[n])]] = ca[reason[abs(trail[n])]]
      BY <1>1, <1>5, <1>10, ReasonHeld
    <3> QED
      BY <1>1, <1>2, <1>6, <3>1, MoveReason
  <2>3. DecisionInv' /\ AssumeInv'
    BY <1>1, <1>2, <1>6, MoveDecision, MoveAssume
  <2>4. ImpliedInv'
    BY <1>1, <1>6, <1>10, MoveImplied
  <2> QED
    BY <2>1, <2>2, <2>3, <2>4
<1>12. UNCHANGED loaded => LoadedInv'
  BY <1>1, <1>6, <1>10, MoveLoaded
<1>13. ConflictInv' /\ LearnInv'
  BY DEF ConflictInv, LearnInv
<1>14. ca'[cr] = [lits |-> c, origin |-> origin] /\ cr \in CRef
  BY <1>4 DEF Placed
<1> QED
  BY <1>3, <1>4, <1>10, <1>11, <1>12, <1>13, <1>14

\* A clause of another solver is attached as it comes (importClauses).
LEMMA ImportClauseKeeps ==
    ASSUME IInv, importClause
    PROVE  IInv'
<1>1. ControlInv /\ VerdictInv
  BY DEF IInv
<1>2. PICK c \in problem.imports : Len(c) > 1 /\ newClause(c, "imported")
  BY DEF importClause
<1>3. /\ pc \in {"import", "clauses"} /\ pc' = "clauses" /\ room
      /\ UNCHANGED <<problem, trailVars, ok, loaded, w, interrupted>>
      /\ assumptions' = assumptions /\ result' = result /\ conflict' = conflict
      /\ trail_lim' = trail_lim /\ trail' = trail
  BY DEF importClause, callVars, trailVars
<1>4. c \in Seq(Lit) /\ Len(c) >= 2 /\ NoRepeat(c) /\ Implied(Set(c))
  <2>1. problem \in Problems
    BY <1>1 DEF ControlInv
  <2>2. c \in Seq(Lit) /\ (\A i, j \in DOMAIN c : c[i] = c[j] => i = j) /\ \A a \in Models : Satisfies(a, Set(c))
    BY <2>1, ProblemsAssumption DEF Models
  <2> QED
    BY <1>2, <2>2 DEF Implied, NoRepeat
<1>5. /\ TrailInv' /\ ArenaInv' /\ WatchInv' /\ BlockerInv' /\ ReasonInv' /\ DecisionInv' /\ AssumeInv'
      /\ ImpliedInv' /\ PropagatedInv' /\ ConflictInv' /\ LearnInv' /\ LoadedInv'
  BY <1>2, <1>3, <1>4, AddMove
<1>6. ControlInv'
  BY <1>1, <1>3 DEF ControlInv, searching, Location
<1>7. VerdictInv'
  BY <1>1, <1>3, VerdictSame
<1> QED
  BY <1>5, <1>6, <1>7 DEF IInv

\* Keys by which addClause_ sorts.
LEMMA LitKeys ==
    ASSUME NEW S \in SUBSET Lit
    PROVE  Keyed(S, [l \in Lit |-> 2 * abs(l) + (IF l < 0 THEN 1 ELSE 0)])
<1>1. IsFiniteSet(S)
  BY LitFinite, FS_Subset
<1>2. PICK key : key = [l \in Lit |-> 2 * abs(l) + (IF l < 0 THEN 1 ELSE 0)]
  OBVIOUS
<1>3. \A l \in S : l \in Int /\ l # 0 /\ key[l] = 2 * abs(l) + (IF l < 0 THEN 1 ELSE 0)
  BY <1>2, LitFacts
<1>4. \A l \in S : key[l] = IF l < 0 THEN 2 * (-l) + 1 ELSE 2 * l
  BY <1>3 DEF abs
<1>5. ASSUME NEW x \in S, NEW y \in S, key[x] = key[y] PROVE x = y
  <2>1. x \in Int /\ y \in Int
    BY <1>3
  <2>2. CASE x < 0 /\ y < 0
    BY <1>4, <1>5, <2>1, <2>2
  <2>3. CASE ~(x < 0) /\ ~(y < 0)
    BY <1>4, <1>5, <2>1, <2>3
  <2>4. CASE x < 0 /\ ~(y < 0)
    <3>1. 2 * (-x) + 1 = 2 * y
      BY <1>4, <1>5, <2>4
    <3> QED
      BY <2>1, <3>1
  <2>5. CASE ~(x < 0) /\ y < 0
    <3>1. 2 * x = 2 * (-y) + 1
      BY <1>4, <1>5, <2>5
    <3> QED
      BY <2>1, <3>1
  <2> QED
    BY <2>2, <2>3, <2>4, <2>5
<1>6. \A l \in S : key[l] \in Int
  BY <1>3, <1>4
<1> QED
  BY <1>1, <1>2, <1>5, <1>6 DEF Keyed

\* What addClause_ keeps of a clause follows from the formula.
LEMMA KeptImplied ==
    ASSUME TrailInv, ImpliedInv, problem \in Problems, trail_lim = <<>>,
           NEW n \in 1..Len(problem.formula), NEW S,
           S = {l \in Set(problem.formula[n]) : ~False(l)}
    PROVE  S \in SUBSET Lit /\ Implied(S) /\ Set(problem.formula[n]) \subseteq Lit
<1>1. Set(problem.formula[n]) \subseteq Lit
  <2>1. problem.formula \in Seq(Seq(Lit))
    BY ProblemsAssumption
  <2>2. problem.formula[n] \in Seq(Lit)
    BY <2>1
  <2> QED
    BY <2>2, SetOf
<1>2. ASSUME NEW a \in Models PROVE Satisfies(a, S)
  <2>1. PICK l \in Set(problem.formula[n]) : Holds(a, l)
    BY <1>2, ModelFacts DEF Satisfies
  <2>2. l \in Lit /\ a \in Assignments
    BY <1>1, ModelFacts
  <2>3. ASSUME NEW m \in 1..Len(trail), trail[m] = -l PROVE FALSE
    <3>1. AtRoot(m)
      BY DEF AtRoot, decisionLevel
    <3>2. Holds(a, -l)
      BY <2>3, <3>1 DEF ImpliedInv, Implied, Satisfies
    <3> QED
      BY <2>1, <2>2, <3>2, HoldsNot
  <2>4. l \in S
    BY <2>1, <2>3, TrailFacts
  <2> QED
    BY <2>1, <2>4 DEF Satisfies
<1> QED
  BY <1>1, <1>2 DEF Implied

\* A clause of the formula is skipped, found false, a fact or attached.
LEMMA AddClauseKeeps ==
    ASSUME IInv, addClause
    PROVE  IInv'
<1>1. /\ TrailInv /\ ControlInv /\ ArenaInv /\ WatchInv /\ BlockerInv /\ ReasonInv /\ DecisionInv
      /\ AssumeInv /\ ImpliedInv /\ PropagatedInv /\ LoadedInv /\ VerdictInv
  BY DEF IInv
<1>2. PICK n : n = loaded + 1
  OBVIOUS
<1>3. PICK C : C = Set(problem.formula[n])
  OBVIOUS
<1>4. PICK S : S = {l \in C : ~False(l)}
  OBVIOUS
<1>5. PICK ps : ps = Sorted(S, [l \in Lit |-> 2 * abs(l) + (IF l < 0 THEN 1 ELSE 0)])
  OBVIOUS
<1>6. PICK skip : skip = (~ok \/ \E l \in C : True(l) \/ -l \in C)
  OBVIOUS
<1>7. /\ pc = "idle" /\ loaded < Len(problem.formula) /\ loaded' = n
      /\ UNCHANGED <<problem, trail_lim, qhead, w, confl, learnt_clause, callVars, interrupted>>
      /\ assumptions' = assumptions /\ result' = result /\ conflict' = conflict
  BY <1>2 DEF addClause, callVars
<1>8. \/ skip /\ UNCHANGED <<clauseVars, trail, reason, ok, pc>>
      \/ ~skip /\ Len(ps) = 0 /\ ok' = FALSE /\ UNCHANGED <<clauseVars, trail, reason, pc>>
      \/ ~skip /\ Len(ps) = 1 /\ uncheckedEnqueue(ps[1], Undef) /\ pc' = "propagate" /\ UNCHANGED <<clauseVars, ok>>
      \/ ~skip /\ Len(ps) > 1 /\ room /\ newClause(ps, "formula") /\ UNCHANGED <<trail, reason, ok, pc>>
  BY <1>2, <1>3, <1>4, <1>5, <1>6 DEF addClause
<1>9. /\ problem \in Problems /\ loaded \in Nat /\ n \in 1..Len(problem.formula) /\ n \in 0..Len(problem.formula)
      /\ Len(trail_lim) = 0 /\ trail_lim = <<>> /\ ~searching /\ w = 0 /\ ok \in BOOLEAN /\ trail_lim' = trail_lim
  <2>1. problem \in Problems /\ loaded \in 0..Len(problem.formula) /\ ok \in BOOLEAN
    BY <1>1 DEF ControlInv
  <2>2. Len(problem.formula) \in Nat
    <3>1. problem.formula \in Seq(Seq(Lit))
      BY <2>1, ProblemsAssumption
    <3> QED
      BY <3>1
  <2>3. trail_lim = <<>> /\ ~searching /\ w = 0
    BY <1>1, <1>7, AtRest DEF ControlInv
  <2> QED
    BY <1>2, <1>7, <2>1, <2>2, <2>3
<1>10. S \in SUBSET Lit /\ Implied(S) /\ C \subseteq Lit
  BY <1>1, <1>3, <1>4, <1>9, KeptImplied
<1>11. /\ ps \in Seq(Lit) /\ NoRepeat(ps) /\ Set(ps) = S
       /\ \A k \in 1..Len(ps) : ps[k] \in S /\ ps[k] \in Lit
  <2>1. Keyed(S, [l \in Lit |-> 2 * abs(l) + (IF l < 0 THEN 1 ELSE 0)])
    BY <1>10, LitKeys
  <2>2. ps \in Seq(S) /\ NoRepeat(ps) /\ Set(ps) = S
    BY <1>5, <2>1, SortedSet
  <2> QED
    BY <1>10, <2>2
<1>12. PICK m, d : m = Len(trail) /\ d = Len(trail_lim)
  OBVIOUS
<1>13. \A k \in 1..Len(trail) : AtRoot(k)
  BY <1>9 DEF AtRoot, decisionLevel
<1>14. CASE skip /\ UNCHANGED <<clauseVars, trail, reason, ok, pc>>
  <2>1. UNCHANGED trailVars /\ ca' = ca /\ trail' = trail
    BY <1>7, <1>14 DEF trailVars, clauseVars
  <2>2. /\ TrailInv' /\ ArenaInv' /\ WatchInv' /\ BlockerInv' /\ ReasonInv' /\ DecisionInv' /\ AssumeInv'
        /\ ImpliedInv' /\ PropagatedInv' /\ ConflictInv' /\ LearnInv'
    BY <1>7, <1>14, <2>1, RestMove
  <2>3. ok' => Covered(n)'
    <3> SUFFICES ASSUME ok PROVE Covered(n)'
      BY <1>14
    <3>1. PICK l \in C : True(l) \/ -l \in C
      BY <1>6, <1>14
    <3>2. C = Set(problem'.formula[n])
      BY <1>3, <1>7
    <3>3. CASE -l \in C
      BY <3>1, <3>2, <3>3 DEF Covered, Set
    <3>4. CASE True(l)
      <4>1. PICK k \in 1..Len(trail) : trail[k] = l
        BY <1>1, <3>4, TrailFacts
      <4>2. AtRoot(k)'
        BY <1>9 DEF AtRoot, decisionLevel
      <4>3. k \in 1..Len(trail') /\ trail'[k] \in C
        BY <2>1, <3>1, <4>1
      <4> QED
        BY <3>2, <4>2, <4>3 DEF Covered, Set
    <3> QED
      BY <3>1, <3>3, <3>4
  <2>4. LoadedInv'
    <3>1. Moves(m, d)
      BY <1>1, <1>9, <1>12, <2>1, MoveNone
    <3> QED
      BY <1>1, <1>2, <1>7, <1>9, <1>14, <2>1, <2>3, <3>1, LoadedMore
  <2>5. ControlInv'
    BY <1>1, <1>7, <1>9, <1>14 DEF ControlInv, searching
  <2> QED
    BY <1>1, <1>7, <1>14, <2>2, <2>4, <2>5, VerdictSame DEF IInv
<1>15. CASE ~skip /\ Len(ps) = 0 /\ ok' = FALSE /\ UNCHANGED <<clauseVars, trail, reason, pc>>
  <2>1. UNCHANGED trailVars
    BY <1>7, <1>15 DEF trailVars
  <2>2. /\ TrailInv' /\ ArenaInv' /\ WatchInv' /\ BlockerInv' /\ ReasonInv' /\ DecisionInv' /\ AssumeInv'
        /\ ImpliedInv' /\ PropagatedInv' /\ ConflictInv' /\ LearnInv'
    BY <1>7, <1>15, <2>1, RestMove
  <2>3. LoadedInv'
    BY <1>15 DEF LoadedInv
  <2>4. ControlInv'
    BY <1>1, <1>7, <1>9, <1>15 DEF ControlInv, searching
  <2>5. Models = {}
    <3>1. S = {}
      <4>1. \A x \in Set(ps) : \E k \in 1..Len(ps) : ps[k] = x
        BY <1>11, SetOf
      <4>2. 1..Len(ps) = {}
        BY <1>15
      <4> QED
        BY <1>11, <4>1, <4>2
    <3> QED
      BY <1>10, <3>1 DEF Implied, Satisfies
  <2>6. VerdictInv'
    <3>1. Models' = Models
      BY <1>7, ImpliedSame
    <3> QED
      BY <1>1, <1>7, <2>5, <3>1 DEF VerdictInv, Implied
  <2> QED
    BY <2>2, <2>3, <2>4, <2>6 DEF IInv
<1>16. CASE ~skip /\ Len(ps) = 1 /\ uncheckedEnqueue(ps[1], Undef) /\ pc' = "propagate" /\ UNCHANGED <<clauseVars, ok>>
  <2>1. PICK l \in Lit : l = ps[1] /\ l \in S
    BY <1>11, <1>16
  <2>2. S = {l}
    BY <1>11, <1>16, <2>1, SetOf
  <2>3. ~True(l) /\ ~False(l) /\ Implied({l}) /\ ok /\ l \in C
    BY <1>4, <1>6, <1>10, <1>16, <2>1, <2>2
  <2>4. uncheckedEnqueue(l, Undef) /\ trail' = Append(trail, l) /\ ca' = ca
    BY <1>16, <2>1 DEF uncheckedEnqueue, clauseVars
  <2>5. /\ TrailInv' /\ ArenaInv' /\ WatchInv' /\ BlockerInv' /\ ReasonInv' /\ DecisionInv' /\ AssumeInv'
        /\ ImpliedInv' /\ PropagatedInv' /\ ConflictInv' /\ LearnInv'
    BY <1>7, <1>9, <1>16, <2>3, <2>4, FreeStep
  <2>6. Moves(m, d) /\ Len(trail') = m + 1 /\ trail'[m + 1] = l /\ m \in Nat
    BY <1>1, <1>9, <1>12, <2>3, <2>4, MoveEnqueue, TrailFacts
  <2>7. Covered(n)'
    <3>1. m + 1 \in 1..Len(trail') /\ trail'[m + 1] \in C
      BY <2>3, <2>6
    <3>2. AtRoot(m + 1)'
      BY <1>9 DEF AtRoot, decisionLevel
    <3>3. C = Set(problem'.formula[n])
      BY <1>3, <1>7
    <3>4. \E k \in 1..Len(trail') : trail'[k] \in C /\ AtRoot(k)'
      BY <3>1, <3>2 DEF AtRoot
    <3> QED
      BY <3>3, <3>4 DEF Covered, Set
  <2>8. LoadedInv'
    BY <1>1, <1>2, <1>7, <1>9, <1>16, <2>4, <2>6, <2>7, LoadedMore
  <2>9. ControlInv'
    BY <1>1, <1>7, <1>9, <1>16, <2>3 DEF ControlInv, searching, Location
  <2> QED
    BY <1>1, <1>7, <1>16, <2>5, <2>8, <2>9, VerdictSame DEF IInv
<1>17. CASE ~skip /\ Len(ps) > 1 /\ room /\ newClause(ps, "formula") /\ UNCHANGED <<trail, reason, ok, pc>>
  <2>1. UNCHANGED trailVars /\ trail' = trail
    BY <1>7, <1>17 DEF trailVars
  <2>2. Len(ps) >= 2 /\ Implied(Set(ps)) /\ \A i \in {1, 2} : ~False(ps[i])
    <3>1. 1 \in 1..Len(ps) /\ 2 \in 1..Len(ps)
      BY <1>11, <1>17
    <3> QED
      BY <1>4, <1>10, <1>11, <1>17, <3>1
  <2>3. /\ TrailInv' /\ ArenaInv' /\ WatchInv' /\ BlockerInv' /\ ReasonInv' /\ DecisionInv' /\ AssumeInv'
        /\ ImpliedInv' /\ PropagatedInv' /\ ConflictInv' /\ LearnInv'
        /\ \A x \in CRef : ca[x].origin = "formula" =>
                 ca'[x].origin = "formula" /\ Set(ca'[x].lits) \subseteq Set(ca[x].lits)
        /\ ca'[nextCRef] = [lits |-> ps, origin |-> "formula"] /\ nextCRef \in CRef
    BY <1>7, <1>11, <1>17, <2>1, <2>2, AddMove
  <2>4. Covered(n)'
    <3>1. PICK cr \in CRef : ca'[cr] = [lits |-> ps, origin |-> "formula"]
      BY <2>3
    <3>2. ca'[cr].origin = "formula" /\ Set(ca'[cr].lits) \subseteq C
      BY <1>4, <1>11, <3>1
    <3>3. C = Set(problem'.formula[n])
      BY <1>3, <1>7
    <3> QED
      BY <3>2, <3>3 DEF Covered, Set
  <2>5. LoadedInv'
    <3>1. Moves(m, d)
      BY <1>1, <1>9, <1>12, <2>1, MoveNone
    <3> QED
      BY <1>1, <1>2, <1>7, <1>9, <1>17, <2>3, <2>4, <3>1, LoadedMore
  <2>6. ControlInv'
    BY <1>1, <1>7, <1>9, <1>17 DEF ControlInv, searching
  <2> QED
    BY <1>1, <1>7, <1>17, <2>3, <2>5, <2>6, VerdictSame DEF IInv
<1> QED
  BY <1>8, <1>14, <1>15, <1>16, <1>17

\* A clause that is false at level 0 leaves the formula no model.
LEMMA RootConflictKeeps ==
    ASSUME IInv, rootConflict
    PROVE  IInv'
<1>1. /\ TrailInv /\ ControlInv /\ ArenaInv /\ WatchInv /\ BlockerInv /\ ReasonInv /\ DecisionInv
      /\ AssumeInv /\ ImpliedInv /\ ConflictInv
  BY DEF IInv
<1>2. /\ pc = "conflict" /\ decisionLevel = 0
      /\ pc' = "idle" /\ result' = "UNSAT" /\ conflict' = {} /\ ok' = FALSE
      /\ UNCHANGED <<trail, qhead, trail_lim>>
      /\ UNCHANGED <<problem, clauseVars, reason, loaded, w, confl, learnt_clause, assumptions, interrupted>>
      /\ ca' = ca
  <2>1. pc = "conflict" /\ decisionLevel = 0 /\ finish("UNSAT", {})
        /\ UNCHANGED <<problem, clauseVars, reason, loaded, w, confl, learnt_clause, assumptions, interrupted>>
    BY DEF rootConflict
  <2>2. ok' = FALSE /\ pc' = "idle" /\ result' = "UNSAT" /\ conflict' = {} /\ cancelUntil(0)
    BY <2>1 DEF finish
  <2>3. UNCHANGED <<trail, qhead, trail_lim>>
    BY <2>1, <2>2 DEF cancelUntil
  <2> QED
    BY <2>1, <2>2, <2>3 DEF clauseVars
<1>3. Len(trail_lim) = 0 /\ problem \in Problems /\ Len(trail) \in Nat /\ w = 0
  BY <1>1, <1>2, AtRest, TrailFacts DEF ControlInv
<1>4. PICK m, d : m = Len(trail) /\ d = Len(trail_lim)
  OBVIOUS
<1>5. Moves(m, d) /\ Len(trail') = m /\ Len(trail_lim') # d + 1
  BY <1>1, <1>2, <1>3, <1>4, MoveNone
<1>6. qhead' \in 1..(Len(trail') + 1)
  BY <1>1, <1>2 DEF TrailInv
<1>7. TrailInv' /\ ReasonInv' /\ DecisionInv' /\ AssumeInv' /\ ImpliedInv'
  BY <1>1, <1>2, <1>5, <1>6, StillMove
<1>8. ArenaInv' /\ WatchInv' /\ BlockerInv'
  BY <1>1, <1>2, <1>5, SameClauses, MoveBlockers
<1>9. PropagatedInv' /\ LoadedInv' /\ ConflictInv' /\ LearnInv'
  BY <1>2 DEF PropagatedInv, LoadedInv, ConflictInv, LearnInv
<1>10. Models = {}
  <2> SUFFICES ASSUME NEW a \in Models PROVE FALSE
    OBVIOUS
  <2>1. PICK c : c = ca[confl].lits
    OBVIOUS
  <2>2. /\ c \in Seq(Lit) /\ Implied(Set(c))
        /\ \A k \in 1..Len(c) : \E n \in 1..Len(trail) : trail[n] = -c[k]
    BY <1>1, <1>2, <2>1 DEF ConflictInv, ArenaInv, ImpliedInv
  <2>3. PICK l \in Set(c) : Holds(a, l)
    BY <2>2 DEF Implied, Satisfies
  <2>4. PICK k \in 1..Len(c) : l = c[k]
    BY <2>2, <2>3, SetOf
  <2>5. PICK n \in 1..Len(trail) : trail[n] = -l
    BY <2>2, <2>4
  <2>6. AtRoot(n)
    BY <1>2 DEF AtRoot
  <2>7. Holds(a, -l)
    BY <1>1, <2>5, <2>6 DEF ImpliedInv, Implied, Satisfies
  <2>8. l \in Lit /\ a \in Assignments
    BY <1>3, <2>2, <2>3, SetOf, ModelFacts
  <2> QED
    BY <2>3, <2>7, <2>8, HoldsNot
<1>11. VerdictInv'
  <2>1. Models' = {}
    BY <1>2, <1>10, ImpliedSame
  <2> QED
    BY <1>2, <2>1 DEF VerdictInv, Implied
<1>12. ControlInv'
  <2>1. trail_lim' = <<>>
    <3>1. trail_lim \in Seq(Nat)
      BY <1>1 DEF TrailInv
    <3> QED
      BY <1>2, <1>3, <3>1
  <2> QED
    BY <1>1, <1>2, <1>3, <2>1 DEF ControlInv, searching, Location
<1> QED
  BY <1>7, <1>8, <1>9, <1>11, <1>12 DEF IInv

\* The clause that is learned asserts.
LEMMA AnalyzeConflictKeeps ==
    ASSUME IInv, analyzeConflict
    PROVE  IInv'
<1>1. /\ TrailInv /\ ControlInv /\ ArenaInv /\ ReasonInv /\ DecisionInv /\ ImpliedInv /\ ConflictInv /\ VerdictInv
  BY DEF IInv
<1>2. /\ pc = "conflict" /\ decisionLevel > 0 /\ learnt_clause' = analyze /\ pc' = "learn"
      /\ UNCHANGED <<clauseVars, trailVars, problem, loaded, w, ok, assumptions>>
      /\ trail' = trail /\ trail_lim' = trail_lim /\ qhead' = qhead
      /\ assumptions' = assumptions /\ result' = result /\ conflict' = conflict /\ interrupted' = interrupted
  BY DEF analyzeConflict, trailVars, callVars
<1>3. /\ TrailInv' /\ ArenaInv' /\ WatchInv' /\ BlockerInv' /\ ReasonInv' /\ DecisionInv' /\ AssumeInv'
      /\ ImpliedInv' /\ PropagatedInv' /\ LoadedInv'
  BY <1>2, StayMove
<1>4. ConflictInv'
  BY <1>2 DEF ConflictInv
<1>5. LearnInv'
  <2>1. PICK c : c = analyze
    OBVIOUS
  <2>2. AnalysisInv
    BY <1>1, <1>2, TrailFacts DEF AnalysisInv, ControlInv
  <2>3. Asserting(c)
    BY <1>1, <1>2, <2>1, <2>2, AnalyzeOf
  <2>4. Asserting(c)'
    BY <1>2, <2>3, AssertingSame
  <2> QED
    BY <1>2, <2>1, <2>4 DEF LearnInv, Asserting
<1>6. ControlInv'
  <2>1. w = 0
    BY <1>1, <1>2, AtRest
  <2> QED
    BY <1>1, <1>2, <2>1 DEF ControlInv, searching, Location
<1>7. VerdictInv'
  BY <1>1, <1>2, VerdictSame
<1> QED
  BY <1>3, <1>4, <1>5, <1>6, <1>7 DEF IInv

\* Where a clause that asserts takes the search back to: d levels of m facts.
BackTo(c, m, d) ==
    /\ d < Len(trail_lim) /\ d \in Nat /\ m = trail_lim[d + 1]
    /\ \A n \in 1..m : abs(trail[n]) # abs(c[1])
    /\ \A k \in 2..Len(c) : \E n \in 1..m : trail[n] = -c[k]
    /\ Len(c) = 1 <=> d = 0
    /\ \A n \in 1..m : trail[n] = -c[2] /\ Len(c) >= 2 => \A k \in 1..d : trail_lim[k] < n

\* The level to jump back to keeps the learnt clause false but for its first literal.
LEMMA BackOf ==
    ASSUME TrailInv, NEW c, Asserting(c)
    PROVE  BackTo(c, trail_lim[btlevel(c) + 1], btlevel(c))
<1>1. /\ Len(trail) \in Nat /\ Len(trail_lim) \in Nat /\ Len(trail_lim) > 0
      /\ \A k \in 1..Len(trail_lim) : trail_lim[k] \in Nat /\ trail_lim[k] <= Len(trail)
      /\ \A j, k \in 1..Len(trail_lim) : j <= k => trail_lim[j] <= trail_lim[k]
      /\ \A k \in 1..Len(trail_lim) : trail_lim[k] <= trail_lim[Len(trail_lim)]
  <2>1. Len(trail_lim) > 0
    BY DEF Asserting
  <2>2. /\ Len(trail) \in Nat /\ Len(trail_lim) \in Nat
        /\ \A k \in 1..Len(trail_lim) : trail_lim[k] \in Nat /\ trail_lim[k] <= Len(trail)
        /\ \A j, k \in 1..Len(trail_lim) : j <= k => trail_lim[j] <= trail_lim[k]
    BY TrailFacts DEF TrailInv
  <2>3. Len(trail_lim) \in 1..Len(trail_lim) /\ \A k \in 1..Len(trail_lim) : k <= Len(trail_lim)
    BY <2>1, <2>2
  <2> QED
    BY <2>1, <2>2, <2>3
<1>2. c \in Seq(Lit) /\ Len(c) \in Nat /\ Len(c) > 0
  BY DEF Asserting
<1>3. PICK top \in 1..Len(trail) : trail[top] = -c[1] /\ trail_lim[Len(trail_lim)] < top
  BY DEF Asserting
<1>4. c[1] \in Lit /\ abs(c[1]) = abs(trail[top])
  <2>1. c[1] \in Lit
    BY <1>2
  <2>2. -c[1] \in Lit /\ -(-c[1]) = c[1]
    BY <2>1, LitFacts
  <2> QED
    BY <1>3, <2>1, <2>2, LitFacts
<1>5. PICK d : d = btlevel(c)
  OBVIOUS
<1>6. ASSUME d < Len(trail_lim), d \in Nat, NEW m, m = trail_lim[d + 1]
      PROVE  m \in Nat /\ m <= Len(trail) /\ m <= trail_lim[Len(trail_lim)] /\ \A n \in 1..m : abs(trail[n]) # abs(c[1])
  <2>1. d + 1 \in 1..Len(trail_lim)
    BY <1>1, <1>6
  <2>2. m \in Nat /\ m <= Len(trail) /\ m <= trail_lim[Len(trail_lim)]
    BY <1>1, <1>6, <2>1
  <2>3. ASSUME NEW n \in 1..m, abs(trail[n]) = abs(c[1]) PROVE FALSE
    <3>1. n \in 1..Len(trail) /\ n # top
      BY <1>1, <1>3, <2>2
    <3> QED
      BY <1>4, <2>3, <3>1 DEF TrailInv
  <2> QED
    BY <2>2, <2>3
<1>7. CASE Len(c) = 1
  <2>1. d = 0
    BY <1>5, <1>7 DEF btlevel
  <2>2. 2..Len(c) = {} /\ ~(Len(c) >= 2) /\ d < Len(trail_lim) /\ d \in Nat
    BY <1>1, <1>7, <2>1
  <2>3. PICK m : m = trail_lim[d + 1]
    OBVIOUS
  <2>4. BackTo(c, m, d)
    BY <1>6, <1>7, <2>1, <2>2, <2>3 DEF BackTo
  <2> QED
    BY <1>5, <2>3, <2>4
<1>8. CASE Len(c) # 1
  <2>1. 2 \in 2..Len(c) /\ Len(c) >= 2 /\ d = level(c[2])
    <3>1. 2 \in 2..Len(c) /\ Len(c) >= 2
      <4>1. PICK L \in Nat : L = Len(c) /\ L > 0 /\ L # 1
        BY <1>2, <1>8
      <4> QED
        BY <4>1
    <3>2. d = level(c[2])
      BY <1>5, <1>8 DEF btlevel
    <3> QED
      BY <3>1, <3>2
  <2>2. PICK n2 \in 1..Len(trail) : trail[n2] = -c[2] /\ ~AtRoot(n2) /\ n2 <= trail_lim[Len(trail_lim)]
    BY <2>1 DEF Asserting
  <2>3. c[2] = -trail[n2]
    <3>1. c[2] \in Lit
      BY <1>2, <2>1
    <3> QED
      BY <2>2, <3>1, LitFacts
  <2>4. /\ d \in 0..Len(trail_lim) /\ \A k \in 1..Len(trail_lim) : k <= d <=> trail_lim[k] < n2
        /\ d = 0 <=> AtRoot(n2)
        /\ d >= Len(trail_lim) <=> (Len(trail_lim) > 0 => trail_lim[Len(trail_lim)] < n2)
    BY <2>1, <2>3, LevelIs
  <2>5. d \in Nat /\ d # 0 /\ d < Len(trail_lim)
    <3>1. Len(trail_lim) \in 1..Len(trail_lim)
      BY <1>1
    <3> QED
      BY <1>1, <2>2, <2>4, <3>1
  <2>6. PICK m : m = trail_lim[d + 1]
    OBVIOUS
  <2>7. n2 <= m /\ d + 1 \in 1..Len(trail_lim)
    <3>1. d + 1 \in 1..Len(trail_lim) /\ ~(d + 1 <= d)
      BY <1>1, <2>5
    <3> QED
      BY <1>1, <2>4, <2>6, <3>1
  <2>8. ASSUME NEW k \in 2..Len(c) PROVE \E n \in 1..m : trail[n] = -c[k]
    <3>1. PICK n \in 1..Len(trail) : trail[n] = -c[k]
      BY DEF Asserting
    <3>2. n <= m
      BY <2>2, <2>6, <2>7, <3>1 DEF Asserting
    <3> QED
      BY <1>1, <2>6, <2>7, <3>1, <3>2
  <2>9. ASSUME NEW n \in 1..m, trail[n] = -c[2], NEW k \in 1..d PROVE trail_lim[k] < n
    <3>1. n \in 1..Len(trail)
      BY <1>1, <1>6, <2>5, <2>6
    <3>2. n = n2
      BY <2>2, <2>9, <3>1, TrailFacts
    <3> QED
      BY <1>1, <2>4, <2>5, <3>2
  <2>10. BackTo(c, m, d)
    BY <1>6, <1>8, <2>5, <2>6, <2>8, <2>9 DEF BackTo
  <2> QED
    BY <1>5, <2>6, <2>10
<1> QED
  BY <1>7, <1>8

\* The move of learn.
LEMMA MoveBack ==
    ASSUME TrailInv, NEW c, c[1] \in Lit, NEW m, NEW d, BackTo(c, m, d),
           trail' = Append(SubSeq(trail, 1, m), c[1]), trail_lim' = SubSeq(trail_lim, 1, d)
    PROVE  /\ Moves(m, d) /\ Len(trail') = m + 1 /\ trail'[m + 1] = c[1] /\ Len(trail_lim') = d
           /\ m \in Nat /\ m <= trail_lim[Len(trail_lim)] /\ (d = 0 => trail_lim' = <<>>)
<1>1. /\ Len(trail) \in Nat /\ Len(trail_lim) \in Nat /\ trail \in Seq(Lit) /\ trail_lim \in Seq(Nat)
      /\ \A k \in 1..Len(trail_lim) : trail_lim[k] \in Nat /\ trail_lim[k] <= Len(trail)
      /\ \A j, k \in 1..Len(trail_lim) : j <= k => trail_lim[j] <= trail_lim[k]
  BY TrailFacts DEF TrailInv
<1>2. /\ d < Len(trail_lim) /\ d \in Nat /\ m = trail_lim[d + 1] /\ \A n \in 1..m : abs(trail[n]) # abs(c[1])
  BY DEF BackTo
<1>3. d + 1 \in 1..Len(trail_lim) /\ Len(trail_lim) \in 1..Len(trail_lim) /\ d + 1 <= Len(trail_lim) /\ d \in 0..Len(trail_lim)
  BY <1>1, <1>2
<1>4. m \in 0..Len(trail) /\ m \in Nat /\ m <= trail_lim[Len(trail_lim)]
  BY <1>1, <1>2, <1>3
<1>5. /\ SubSeq(trail, 1, m) \in Seq(Lit) /\ Len(SubSeq(trail, 1, m)) = m
      /\ \A n \in 1..m : SubSeq(trail, 1, m)[n] = trail[n]
  BY <1>1, <1>4, PrefixElements
<1>6. /\ trail_lim' \in Seq(Nat) /\ Len(trail_lim') = d /\ \A n \in 1..d : trail_lim'[n] = trail_lim[n]
  BY <1>1, <1>3, PrefixElements
<1>7. PICK q : q = SubSeq(trail, 1, m)
  OBVIOUS
<1>8. /\ trail' \in Seq(Lit) /\ Len(trail') = m + 1 /\ (\A n \in 1..m : trail'[n] = q[n]) /\ trail'[m + 1] = c[1]
  BY <1>5, <1>7, AppendElements
<1>9. Moves(m, d)
  BY <1>2, <1>3, <1>4, <1>5, <1>6, <1>7, <1>8, SMTT(40) DEF Moves
<1>10. d = 0 => trail_lim' = <<>>
  BY <1>6
<1> QED
  BY <1>4, <1>6, <1>8, <1>9, <1>10

\* The new fact satisfies the learnt clause for as long as its second literal is false.
LEMMA LearntSettled ==
    ASSUME TrailInv, NEW c, Asserting(c), Len(c) >= 2, NEW m, NEW d, BackTo(c, m, d), Moves(m, d),
           Len(trail') = m + 1, trail'[m + 1] = c[1], Len(trail_lim') = d,
           NEW cr \in CRef, ca'[cr].lits = c, qhead' = m + 1, m \in Nat
    PROVE  Settled(cr)'
<1>1. /\ \A k \in 1..d : k \in 1..Len(trail_lim) /\ trail_lim'[k] = trail_lim[k] /\ trail_lim[k] \in Nat
      /\ \A n \in 1..m : trail'[n] = trail[n]
      /\ d \in Nat /\ \A n \in 1..m : n \in 1..Len(trail)
  BY KeptLevels, KeptPlaces
<1>2. c \in Seq(Lit) /\ c[1] \in Lit /\ c[1] \in Set(c)
  <2>1. c \in Seq(Lit) /\ 1 \in 1..Len(c)
    BY DEF Asserting
  <2> QED
    BY <2>1, SetOf
<1>3. ASSUME NEW n \in 1..m, trail[n] = -c[2] PROVE Guarded(c, n)'
  <2>1. \A k \in 1..d : trail_lim[k] < n
    BY <1>3 DEF BackTo
  <2>2. ASSUME NEW k \in 1..Len(trail_lim') PROVE ~(n <= trail_lim'[k])
    <3>1. k \in 1..d
      OBVIOUS
    <3>2. trail_lim'[k] = trail_lim[k] /\ trail_lim[k] \in Nat /\ trail_lim[k] < n
      BY <1>1, <2>1, <3>1
    <3> QED
      BY <3>2
  <2>3. m + 1 \in 1..Len(trail') /\ trail'[m + 1] \in Set(c)
    BY <1>2
  <2> QED
    BY <2>2, <2>3 DEF Guarded
<1>4. ASSUME NEW i \in {1, 2}, NEW n \in 1..Len(trail'), trail'[n] = -c[i], Visited(cr, n)'
      PROVE  Guarded(c, n)'
  <2>1. n < m + 1
    BY <1>4 DEF Visited
  <2>2. n \in 1..m /\ trail[n] = -c[i]
    BY <1>1, <1>4, <2>1
  <2>3. i # 1
    <3> SUFFICES ASSUME trail[n] = -c[1] PROVE FALSE
      BY <2>2
    <3>1. abs(trail[n]) = abs(c[1])
      <4>1. -c[1] \in Lit /\ -(-c[1]) = c[1]
        BY <1>2, LitFacts
      <4> QED
        BY <1>2, <4>1, LitFacts
    <3> QED
      BY <2>2, <3>1 DEF BackTo
  <2> QED
    BY <1>3, <2>2, <2>3
<1> QED
  BY <1>4 DEF Settled, Guarded

\* The learnt clause is added and its first literal asserted.
LEMMA LearnKeeps ==
    ASSUME IInv, learn
    PROVE  IInv'
<1>1. /\ TrailInv /\ ControlInv /\ ArenaInv /\ WatchInv /\ BlockerInv /\ ReasonInv /\ DecisionInv
      /\ AssumeInv /\ ImpliedInv /\ PropagatedInv /\ LoadedInv /\ LearnInv /\ VerdictInv
  BY DEF IInv
<1>2. PICK c, m, d : c = learnt_clause /\ d = btlevel(c) /\ m = trail_lim[d + 1]
  OBVIOUS
<1>3. /\ pc = "learn" /\ room /\ trail' = Append(SubSeq(trail, 1, m), c[1]) /\ qhead' = m + 1
      /\ trail_lim' = SubSeq(trail_lim, 1, d)
      /\ IF Len(c) = 1
         THEN /\ reason' = [reason EXCEPT ![abs(c[1])] = Undef]
              /\ UNCHANGED clauseVars
         ELSE /\ newClause(c, "learnt")
              /\ reason' = [reason EXCEPT ![abs(c[1])] = nextCRef]
      /\ pc' = IF d = 0 THEN "import" ELSE "propagate"
      /\ UNCHANGED <<problem, ok, loaded, w, confl, callVars, interrupted>>
      /\ assumptions' = assumptions /\ result' = result /\ conflict' = conflict
  BY <1>2 DEF learn, callVars
<1>4. Asserting(c)
  BY <1>1, <1>2, <1>3 DEF LearnInv
<1>5. /\ c \in Seq(Lit) /\ Len(c) \in Nat /\ Len(c) > 0 /\ NoRepeat(c) /\ Implied(Set(c)) /\ Len(trail_lim) > 0
  BY <1>4 DEF Asserting
<1>6. c[1] \in Lit /\ abs(c[1]) \in Var
  <2>1. 1 \in 1..Len(c)
    BY <1>5
  <2>2. c[1] \in Lit
    BY <1>5, <2>1
  <2> QED
    BY <2>2, LitFacts
<1>7. BackTo(c, m, d)
  BY <1>1, <1>2, <1>4, BackOf
<1>8. /\ Moves(m, d) /\ Len(trail') = m + 1 /\ trail'[m + 1] = c[1] /\ Len(trail_lim') = d
      /\ m \in Nat /\ m <= trail_lim[Len(trail_lim)] /\ (d = 0 => trail_lim' = <<>>)
  BY <1>1, <1>3, <1>6, <1>7, MoveBack
<1>9. /\ d \in Nat /\ \A k \in 1..d : k \in 1..Len(trail_lim) /\ trail_lim'[k] = trail_lim[k] /\ trail_lim[k] \in Nat
                              /\ trail_lim[k] <= m
      /\ \A n \in 1..m : trail'[n] = trail[n] /\ n \in 1..Len(trail)
  BY <1>1, <1>8, KeptLevels, KeptPlaces
<1>10. qhead' \in 1..(Len(trail') + 1) /\ qhead' \in Nat /\ qhead' <= m + 1
  BY <1>3, <1>8
<1>11. w = 0 /\ searching /\ ok /\ loaded = Len(problem.formula)
  BY <1>1, <1>3, AtRest DEF ControlInv
<1>12. \A x \in CRef : \A n \in 1..m : Visited(x, n)' => Visited(x, n)
  <2> SUFFICES ASSUME NEW x \in CRef, NEW n \in 1..m PROVE Visited(x, n)
    OBVIOUS
  <2>1. trail_lim[Len(trail_lim)] < qhead /\ trail_lim[Len(trail_lim)] \in Nat /\ qhead \in Nat
    <3>1. Len(trail_lim) \in 1..Len(trail_lim)
      BY <1>1, <1>5, TrailFacts
    <3> QED
      BY <1>1, <1>5, <1>11, <3>1 DEF ControlInv, TrailInv
  <2>2. n <= trail_lim[Len(trail_lim)] /\ n < qhead
    BY <1>8, <2>1
  <2> QED
    BY <1>5, <1>11, <2>2 DEF Visited
<1>13. \A n \in 1..m : abs(trail[n]) # abs(c[1]) /\ abs(trail[n]) \in Var
  BY <1>1, <1>7, <1>9, TrailFacts DEF BackTo
<1>14. pc' \in {"import", "propagate"}
  BY <1>3
<1>15. ConflictInv' /\ LearnInv'
  BY <1>14 DEF ConflictInv, LearnInv
<1>16. AssumeInv'
  BY <1>1, <1>3, <1>8, <1>9, MoveAssume
<1>17. ControlInv'
  <2>1. d > 0 => d \in 1..d /\ trail_lim'[d] <= m /\ trail_lim'[d] \in Nat
    BY <1>9
  <2>2. problem \in Problems /\ loaded \in 0..Len(problem.formula) /\ assumptions \in Seq(Lit)
        /\ interrupted \in BOOLEAN /\ result = "searching"
    BY <1>1, <1>11 DEF ControlInv, searching
  <2>3. /\ problem' = problem /\ loaded' = loaded /\ ok' = ok /\ interrupted' = interrupted /\ w' = w
        /\ assumptions' = assumptions /\ result' = result
    BY <1>3
  <2>4. CASE d = 0
    <3>1. pc' = "import" /\ trail_lim' = <<>> /\ Len(trail_lim') = 0
      BY <1>3, <1>8, <2>4
    <3> QED
      BY <1>11, <2>2, <2>3, <3>1 DEF ControlInv, searching, Location
  <2>5. CASE d # 0
    <3>1. pc' = "propagate" /\ Len(trail_lim') = d /\ trail_lim'[d] < qhead'
      BY <1>3, <1>8, <1>9, <2>1, <2>5
    <3> QED
      BY <1>11, <2>2, <2>3, <3>1 DEF ControlInv, searching, Location
  <2> QED
    BY <2>4, <2>5
<1>18. VerdictInv'
  BY <1>1, <1>3, VerdictSame
<1>19. CASE Len(c) = 1
  <2>1. reason' = [reason EXCEPT ![abs(c[1])] = Undef] /\ UNCHANGED clauseVars /\ ca' = ca /\ d = 0
    BY <1>3, <1>7, <1>19 DEF clauseVars, BackTo
  <2>2. /\ reason' \in [Var -> CRef \cup {Undef}] /\ reason'[abs(c[1])] = Undef
        /\ \A n \in 1..m : reason'[abs(trail[n])] = reason[abs(trail[n])]
    BY <1>1, <1>6, <1>13, <2>1 DEF TrailInv
  <2>3. TrailInv'
    BY <1>1, <1>8, <1>10, <2>2, MoveTrail
  <2>4. ReasonInv'
    BY <1>1, <1>8, <2>1, <2>2, MoveReason
  <2>5. DecisionInv'
    <3>1. AtRoot(m + 1)'
      BY <1>8, <2>1 DEF AtRoot, decisionLevel
    <3> QED
      BY <1>1, <1>3, <1>8, <2>2, <3>1, MoveDecision
  <2>6. ImpliedInv'
    <3>1. Set(c) = {c[1]}
      BY <1>5, <1>19 DEF Set
    <3>2. \A cr \in CRef : ca'[cr] # NoClause => Implied(Set(ca'[cr].lits))
      BY <1>1, <2>1 DEF ImpliedInv
    <3> QED
      BY <1>1, <1>3, <1>5, <1>8, <3>1, <3>2, MoveImplied
  <2>7. ArenaInv' /\ WatchInv' /\ BlockerInv'
    BY <1>1, <1>8, <2>1, SameClauses, MoveBlockers
  <2>8. LoadedInv'
    BY <1>1, <1>3, <1>8, <2>1, MoveLoaded
  <2>9. PropagatedInv'
    <3>1. ASSUME NEW cr \in CRef, ca'[cr].origin \in {"formula", "learnt"} PROVE Settled(cr)'
      <4>1. ca'[cr] = ca[cr] /\ Settled(cr)
        BY <1>1, <1>11, <2>1, <3>1 DEF PropagatedInv
      <4> QED
        BY <1>1, <1>8, <1>10, <1>12, <4>1, SettledSame
    <3> QED
      BY <3>1 DEF PropagatedInv
  <2> QED
    BY <1>15, <1>16, <1>17, <1>18, <2>3, <2>4, <2>5, <2>6, <2>7, <2>8, <2>9 DEF IInv
<1>20. CASE Len(c) # 1
  <2>1. PICK cr : cr = nextCRef
    OBVIOUS
  <2>2. Len(c) >= 2 /\ newClause(c, "learnt") /\ reason' = [reason EXCEPT ![abs(c[1])] = cr]
    <3>1. PICK L \in Nat : L = Len(c) /\ L > 0 /\ L # 1
      BY <1>5, <1>20
    <3>2. Len(c) >= 2
      BY <3>1
    <3> QED
      BY <1>3, <1>20, <2>1, <3>2
  <2>3. Placed(cr, c, "learnt") /\ ArenaInv' /\ WatchInv'
    BY <1>1, <1>3, <1>5, <2>1, <2>2, NewClauseOf
  <2>4. cr \in CRef /\ ca'[cr].lits = c /\ ca'[cr] # NoClause /\ cr # Undef
    <3>1. cr \in CRef /\ ca'[cr] = [lits |-> c, origin |-> "learnt"]
      BY <2>3 DEF Placed
    <3> QED
      BY <3>1, LitFacts DEF NoClause
  <2>5. Settled(cr)'
    BY <1>1, <1>3, <1>4, <1>7, <1>8, <2>2, <2>4, LearntSettled
  <2>6. /\ BlockerInv' /\ PropagatedInv'
        /\ \A x \in CRef : ca'[x] # NoClause => Implied(Set(ca'[x].lits))
        /\ \A x \in CRef : ca[x].origin = "formula" =>
              ca'[x].origin = "formula" /\ Set(ca'[x].lits) \subseteq Set(ca[x].lits)
        /\ \A x \in CRef : ca[x] # NoClause => ca'[x] = ca[x]
    BY <1>1, <1>3, <1>5, <1>8, <1>10, <1>12, <2>2, <2>3, <2>5, PlacedRest
  <2>7. /\ reason' \in [Var -> CRef \cup {Undef}] /\ reason'[abs(c[1])] = cr
        /\ \A n \in 1..m : reason'[abs(trail[n])] = reason[abs(trail[n])]
    BY <1>1, <1>6, <1>13, <2>2, <2>4 DEF TrailInv
  <2>8. TrailInv'
    BY <1>1, <1>8, <1>10, <2>7, MoveTrail
  <2>9. ReasonInv'
    <3>1. \A n \in 1..m : reason[abs(trail[n])] # Undef => ca'[reason[abs(trail[n])]] = ca[reason[abs(trail[n])]]
      BY <1>1, <1>9, <2>6, ReasonHeld
    <3>2. PICK p : p = m + 1
      OBVIOUS
    <3>3. reason'[abs(trail'[p])] = cr /\ trail'[p] = c[1]
      BY <1>8, <2>7, <3>2
    <3>4. \A k \in 2..Len(c) : \E n \in 1..(p - 1) : trail'[n] = -c[k]
      <4>1. \A k \in 2..Len(c) : \E n \in 1..m : trail[n] = -c[k]
        BY <1>7 DEF BackTo
      <4>2. p - 1 = m
        BY <1>8, <3>2
      <4> QED
        BY <1>9, <4>1, <4>2
    <3>5. HasReason(p)'
      BY <2>4, <3>3, <3>4 DEF HasReason
    <3>6. HasReason(m + 1)'
      <4>1. HasReason(p)' <=> HasReason(m + 1)'
        BY <3>2
      <4> QED
        BY <3>5, <4>1
    <3> QED
      BY <1>1, <1>8, <2>7, <3>1, <3>6, MoveReason
  <2>10. DecisionInv'
    BY <1>1, <1>3, <1>8, <2>4, <2>7, MoveDecision
  <2>11. ImpliedInv'
    <3>1. ASSUME AtRoot(m + 1)' PROVE FALSE
      <4>1. d # 0
        BY <1>7, <1>20 DEF BackTo
      <4>2. 1 \in 1..d /\ decisionLevel' > 0
        BY <1>8, <1>9, <4>1 DEF decisionLevel
      <4>3. trail_lim'[1] <= m /\ trail_lim'[1] \in Nat
        BY <1>9, <4>2
      <4> QED
        BY <1>8, <3>1, <4>2, <4>3 DEF AtRoot
    <3> QED
      BY <1>1, <1>3, <1>8, <2>6, <3>1, MoveImplied
  <2>12. LoadedInv'
    BY <1>1, <1>3, <1>8, <2>6, MoveLoaded
  <2> QED
    BY <1>15, <1>16, <1>17, <1>18, <2>3, <2>6, <2>8, <2>9, <2>10, <2>11, <2>12 DEF IInv
<1> QED
  BY <1>19, <1>20

\* Clauses that are removed are no reasons any more, those that are left stay reasons.
LEMMA RemoveMove ==
    ASSUME IInv, NEW D \in SUBSET learnts, NEW kept, removeClauses(D, kept),
           \A cr \in CRef : Thins(cr, kept[cr]),
           \A cr \in CRef : ca[cr].origin = "formula" => kept[cr] = ca[cr],
           UNCHANGED <<trail, trail_lim, qhead, problem, loaded, ok, w, assumptions>>,
           pc \notin {"conflict", "learn", "propagate"}, pc' \notin {"conflict", "learn"},
           (\A n \in 1..Len(trail) : AtRoot(n)) \/ (\A cr \in D : ~locked(cr))
    PROVE  /\ TrailInv' /\ ArenaInv' /\ WatchInv' /\ BlockerInv' /\ ReasonInv' /\ DecisionInv' /\ AssumeInv'
           /\ ImpliedInv' /\ PropagatedInv' /\ LoadedInv' /\ ConflictInv' /\ LearnInv'
<1>1. /\ TrailInv /\ ControlInv /\ ArenaInv /\ WatchInv /\ BlockerInv /\ ReasonInv /\ DecisionInv
      /\ AssumeInv /\ ImpliedInv /\ PropagatedInv /\ LoadedInv
  BY DEF IInv
<1>2. w = 0 /\ problem \in Problems
  BY <1>1, AtRest DEF ControlInv
<1>3. BlockerInv' /\ ImpliedInv' /\ LoadedInv' /\ PropagatedInv'
  BY <1>1, <1>2, RemovedRest
<1>4. D \in SUBSET CRef
  BY DEF learnts
<1>5. /\ ArenaInv' /\ WatchInv'
      /\ \A cr \in CRef : ca'[cr] = IF cr \in D THEN NoClause ELSE kept[cr]
  BY <1>1, <1>4, RemovedOf
<1>6. reason' = [v \in Var |-> IF reason[v] \in {cr \in D : locked(cr)} THEN Undef ELSE reason[v]]
  BY DEF removeClauses
<1>7. /\ reason' \in [Var -> CRef \cup {Undef}]
      /\ \A v \in Var : reason'[v] # Undef => reason'[v] = reason[v] /\ ~(reason[v] \in D /\ locked(reason[v]))
      /\ \A v \in Var : reason'[v] = reason[v] \/ (reason[v] \in D /\ locked(reason[v]))
  BY <1>1, <1>6 DEF TrailInv
<1>8. trail' = trail /\ trail_lim' = trail_lim /\ Len(trail) \in Nat /\ \A n \in 1..Len(trail) : abs(trail[n]) \in Var
  BY <1>1, TrailFacts
<1>9. PICK m, d : m = Len(trail) /\ d = Len(trail_lim)
  OBVIOUS
<1>10. Moves(m, d) /\ Len(trail') = m /\ m \in Nat /\ d \in Nat /\ Len(trail_lim') # d + 1 /\ Len(trail') # m + 1
  BY <1>1, <1>8, <1>9, MoveNone, TrailFacts
<1>11. TrailInv'
  <2>1. qhead' \in 1..(Len(trail') + 1)
    BY <1>1 DEF TrailInv
  <2> QED
    BY <1>1, <1>7, <1>10, <2>1, MoveTrail
<1>12. ReasonInv'
  <2>1. ASSUME NEW n \in 1..Len(trail), reason'[abs(trail[n])] # Undef
        PROVE  HasReason(n)'
    <3>1. PICK r : r = reason[abs(trail[n])]
      OBVIOUS
    <3>2. r # Undef /\ reason'[abs(trail[n])] = r /\ ~(r \in D /\ locked(r))
      BY <1>7, <1>8, <2>1, <3>1
    <3>3. r \in CRef /\ ca[r] # NoClause
      BY <1>1, <3>1, <3>2, ReasonHeld
    <3>4. /\ ca[r].lits[1] = trail[n]
          /\ \A k \in 2..Len(ca[r].lits) : \E j \in 1..(n - 1) : trail[j] = -ca[r].lits[k]
      BY <1>1, <3>1, <3>2 DEF ReasonInv
    <3>5. locked(r)
      BY <1>1, <3>1, <3>4, TrailFacts DEF locked
    <3>6. ca'[r] = kept[r] /\ Thins(r, kept[r])
      BY <1>5, <3>2, <3>3, <3>5
    <3>7. ca'[r] # NoClause
      <4>1. ca[r].origin # "none"
        BY <1>1, <3>3 DEF ArenaInv
      <4> QED
        BY <3>6, <4>1 DEF Thins, NoClause
    <3>8. ca'[r].lits[1] = trail[n] /\ \A k \in 2..Len(ca'[r].lits) : \E j \in 1..(n - 1) : trail[j] = -ca'[r].lits[k]
      <4>1. PICK q, c : q = ca'[r].lits /\ c = ca[r].lits
        OBVIOUS
      <4>2. q[1] = c[1] /\ \A j \in 2..Len(q) : \E i \in 2..Len(c) : q[j] = c[i]
        <5>1. /\ kept[r].lits[1] = ca[r].lits[1]
              /\ \A j \in 2..Len(kept[r].lits) : \E i \in 2..Len(ca[r].lits) : kept[r].lits[j] = ca[r].lits[i]
          BY <3>3, <3>6, Zenon DEF Thins
        <5>2. q = kept[r].lits
          BY <3>6, <4>1
        <5> QED
          BY <4>1, <5>1, <5>2, ZenonT(60)
      <4>3. c[1] = trail[n] /\ \A k \in 2..Len(c) : \E j \in 1..(n - 1) : trail[j] = -c[k]
        BY <3>4, <4>1
      <4>4. q[1] = trail[n] /\ \A k \in 2..Len(q) : \E j \in 1..(n - 1) : trail[j] = -q[k]
        BY <4>2, <4>3
      <4> QED
        BY <4>1, <4>4
    <3> QED
      BY <1>8, <3>2, <3>7, <3>8 DEF HasReason
  <2> QED
    BY <1>8, <2>1 DEF ReasonInv, HasReason
<1>13. DecisionInv'
  <2>1. CASE \A n \in 1..Len(trail) : AtRoot(n)
    <3>1. \A n \in 1..Len(trail') : AtRoot(n)'
      BY <1>8, <2>1 DEF AtRoot, decisionLevel
    <3> QED
      BY <3>1 DEF DecisionInv
  <2>2. CASE \A cr \in D : ~locked(cr)
    <3>1. \A n \in 1..m : reason'[abs(trail[n])] = reason[abs(trail[n])]
      BY <1>7, <1>8, <1>9, <2>2
    <3> QED
      BY <1>1, <1>10, <3>1, MoveDecision
  <2> QED
    BY <2>1, <2>2
<1>14. AssumeInv'
  BY <1>1, <1>10, MoveAssume
<1>15. ConflictInv' /\ LearnInv'
  BY DEF ConflictInv, LearnInv
<1> QED
  BY <1>3, <1>5, <1>11, <1>12, <1>13, <1>14, <1>15

\* A clause is its own rest.
LEMMA ThinsSame ==
    ASSUME ArenaInv, NEW cr \in CRef
    PROVE  Thins(cr, ca[cr])
<1>1. ca[cr] \in [lits : Seq(Lit), origin : {"none", "formula", "learnt", "imported"}]
  BY DEF ArenaInv
<1>2. ca[cr] # NoClause => Len(ca[cr].lits) >= 2 /\ NoRepeat(ca[cr].lits)
  BY DEF ArenaInv
<1> QED
  BY <1>1, <1>2 DEF Thins

\* k is list c with the elements at the places in I.
Rests(k, c, I) ==
    /\ k \in Seq(Lit)
    /\ \E at \in [1..Len(k) -> I] :
          /\ \A n \in 1..Len(k) : k[n] = c[at[n]]
          /\ \A m, n \in 1..Len(k) : at[m] = at[n] => m = n
          /\ \A i \in I : \E n \in 1..Len(k) : at[n] = i
          /\ 1 \in 1..Len(k) /\ at[1] = 1
          /\ 2 \in 1..Len(k) /\ at[2] = 2

\* Among leaves the literals at the given places.
LEMMA RestsAmong ==
    ASSUME NEW c \in Seq(Lit), NEW I \in SUBSET (1..Len(c)), 1 \in I, 2 \in I
    PROVE  Rests(Among(c, I), c, I)
<1>1. /\ Among(c, I) \in Seq(Lit)
      /\ \E at \in [1..Len(Among(c, I)) -> I] :
            /\ \A n \in 1..Len(Among(c, I)) : Among(c, I)[n] = c[at[n]]
            /\ \A m, n \in 1..Len(Among(c, I)) : at[m] = at[n] => m = n
            /\ \A i \in I : \E n \in 1..Len(Among(c, I)) : at[n] = i
            /\ 1 \in I => 1 \in 1..Len(Among(c, I)) /\ at[1] = 1
            /\ 1 \in I /\ 2 \in I => 2 \in 1..Len(Among(c, I)) /\ at[2] = 2
  BY AmongOf, Zenon
<1> QED
  BY <1>1, Zenon DEF Rests

\* What is left of a clause whose watches stay.
LEMMA RestsOf ==
    ASSUME NEW c \in Seq(Lit), Len(c) >= 2, NoRepeat(c), NEW I \in SUBSET (1..Len(c)), 1 \in I, 2 \in I,
           NEW k, Rests(k, c, I)
    PROVE  /\ k \in Seq(Lit) /\ Len(k) >= 2 /\ NoRepeat(k) /\ k[1] = c[1] /\ k[2] = c[2]
           /\ \A j \in 2..Len(k) : \E i \in 2..Len(c) : k[j] = c[i]
           /\ Set(k) \subseteq Set(c)
           /\ \A i \in I : c[i] \in Set(k)
<1>1. k \in Seq(Lit) /\ Len(k) \in Nat /\ Len(c) \in Nat
  BY DEF Rests
<1>2. PICK at \in [1..Len(k) -> I] :
          /\ \A n \in 1..Len(k) : k[n] = c[at[n]]
          /\ \A m, n \in 1..Len(k) : at[m] = at[n] => m = n
          /\ \A i \in I : \E n \in 1..Len(k) : at[n] = i
          /\ 1 \in 1..Len(k) /\ at[1] = 1
          /\ 2 \in 1..Len(k) /\ at[2] = 2
  BY DEF Rests
<1>3. \A n \in 1..Len(k) : at[n] \in 1..Len(c) /\ k[n] = c[at[n]]
  BY <1>2
<1>4. Len(k) >= 2 /\ k[1] = c[1] /\ k[2] = c[2]
  BY <1>1, <1>2, <1>3
<1>5. NoRepeat(k)
  <2> SUFFICES ASSUME NEW i \in 1..Len(k), NEW j \in 1..Len(k), k[i] = k[j] PROVE i = j
    BY DEF NoRepeat
  <2>1. c[at[i]] = c[at[j]] /\ at[i] \in 1..Len(c) /\ at[j] \in 1..Len(c)
    BY <1>3
  <2>2. at[i] = at[j]
    BY <2>1 DEF NoRepeat
  <2> QED
    BY <1>2, <2>2
<1>6. ASSUME NEW j \in 2..Len(k) PROVE \E i \in 2..Len(c) : k[j] = c[i]
  <2>1. j \in 1..Len(k) /\ j # 1
    BY <1>1
  <2>2. at[j] # 1 /\ at[j] \in 1..Len(c) /\ k[j] = c[at[j]]
    BY <1>2, <1>3, <2>1
  <2>3. at[j] \in 2..Len(c)
    BY <1>1, <2>2
  <2> QED
    BY <2>2, <2>3
<1>7. Set(k) \subseteq Set(c)
  <2> SUFFICES ASSUME NEW q \in Set(k) PROVE q \in Set(c)
    OBVIOUS
  <2>1. PICK n \in 1..Len(k) : q = k[n]
    BY <1>1, SetOf
  <2>2. at[n] \in 1..Len(c) /\ q = c[at[n]]
    BY <1>3, <2>1
  <2> QED
    BY <2>2, SetOf
<1>8. ASSUME NEW i \in I PROVE c[i] \in Set(k)
  <2>1. PICK n \in 1..Len(k) : at[n] = i
    BY <1>2
  <2>2. k[n] = c[i]
    BY <1>3, <2>1
  <2> QED
    BY <1>1, <2>2, SetOf
<1> QED
  BY <1>1, <1>4, <1>5, <1>6, <1>7, <1>8

\* The places of clause cr that trimming keeps.
Untrimmed(cr, I) == I = {n \in DOMAIN ca[cr].lits : n <= 2 \/ ~False(ca[cr].lits[n])}

\* Trimming at level 0 leaves out false literals behind the watches.
LEMMA TrimmedOf ==
    ASSUME TrailInv, ArenaInv, trail_lim = <<>>, NEW cr \in CRef, ca[cr] # NoClause,
           NEW I, Untrimmed(cr, I), NEW k,
           I \in SUBSET (1..Len(ca[cr].lits)) /\ 1 \in I /\ 2 \in I => Rests(k, ca[cr].lits, I)
    PROVE  Thins(cr, [ca[cr] EXCEPT !.lits = k])
<1>1. PICK c : c = ca[cr].lits
  OBVIOUS
<1>2. /\ ca[cr] \in [lits : Seq(Lit), origin : {"none", "formula", "learnt", "imported"}]
      /\ c \in Seq(Lit) /\ Len(c) >= 2 /\ NoRepeat(c) /\ Len(c) \in Nat /\ DOMAIN c = 1..Len(c)
  BY <1>1 DEF ArenaInv
<1>3. I = {n \in 1..Len(c) : n <= 2 \/ ~False(c[n])}
  BY <1>1, <1>2 DEF Untrimmed
<1>4. I \in SUBSET (1..Len(c)) /\ 1 \in I /\ 2 \in I
  BY <1>2, <1>3
<1>5. Rests(k, c, I)
  BY <1>1, <1>4
<1>6. /\ k \in Seq(Lit) /\ Len(k) >= 2 /\ NoRepeat(k) /\ k[1] = c[1] /\ k[2] = c[2]
      /\ \A j \in 2..Len(k) : \E i \in 2..Len(c) : k[j] = c[i]
      /\ Set(k) \subseteq Set(c)
      /\ \A i \in I : c[i] \in Set(k)
  BY <1>2, <1>4, <1>5, RestsOf
<1>7. ASSUME NEW q \in Set(c) PROVE q \in Set(k) \/ \E n \in 1..Len(trail) : trail[n] = -q /\ AtRoot(n)
  <2>1. PICK i \in 1..Len(c) : q = c[i]
    BY <1>2, SetOf
  <2>2. CASE i \in I
    BY <1>6, <2>1, <2>2
  <2>3. CASE i \notin I
    <3>1. False(c[i])
      BY <1>3, <2>3
    <3>2. \E n \in 1..Len(trail) : trail[n] = -q
      BY <2>1, <3>1, TrailFacts
    <3>3. \A n : AtRoot(n)
      BY DEF AtRoot, decisionLevel
    <3> QED
      BY <3>2, <3>3
  <2> QED
    BY <2>2, <2>3
<1>8. PICK x : x = [ca[cr] EXCEPT !.lits = k]
  OBVIOUS
<1>9. /\ x \in [lits : Seq(Lit), origin : {"none", "formula", "learnt", "imported"}]
      /\ x.lits = k /\ x.origin = ca[cr].origin
  BY <1>2, <1>6, <1>8
<1>10. /\ Len(x.lits) >= 2 /\ NoRepeat(x.lits) /\ x.lits[1] = ca[cr].lits[1] /\ x.lits[2] = ca[cr].lits[2]
       /\ Set(x.lits) \subseteq Set(ca[cr].lits)
       /\ \A j \in 2..Len(x.lits) : \E i \in 2..Len(ca[cr].lits) : x.lits[j] = ca[cr].lits[i]
       /\ \A q \in Set(ca[cr].lits) :
             q \in Set(x.lits) \/ \E n \in 1..Len(trail) : trail[n] = -q /\ AtRoot(n)
  BY <1>1, <1>6, <1>7, <1>9, Zenon
<1>11. Thins(cr, x)
  BY <1>9, <1>10, Zenon DEF Thins
<1> QED
  BY <1>8, <1>11

\* Satisfied learnt clauses go and false literals are trimmed (simplify, removeSatisfied).
LEMMA SimplifyKeeps ==
    ASSUME IInv, simplify
    PROVE  IInv'
<1>1. TrailInv /\ ControlInv /\ ArenaInv /\ VerdictInv
  BY DEF IInv
<1>2. /\ pc = "noconflict" /\ pc' \in {"decide", "reduce"}
      /\ UNCHANGED <<problem, trail, trail_lim, qhead, ok, loaded, w, interrupted>>
      /\ assumptions' = assumptions /\ result' = result /\ conflict' = conflict
  BY DEF simplify, callVars
<1>3. /\ TrailInv' /\ ArenaInv' /\ WatchInv' /\ BlockerInv' /\ ReasonInv' /\ DecisionInv' /\ AssumeInv'
      /\ ImpliedInv' /\ PropagatedInv' /\ LoadedInv' /\ ConflictInv' /\ LearnInv'
  <2>1. PICK D : D = {cr \in learnts : satisfied(ca[cr].lits)}
    OBVIOUS
  <2>2. PICK kept : kept = [cr \in CRef |->
            IF cr \in learnts
            THEN [ca[cr] EXCEPT !.lits = Among(@, {n \in DOMAIN @ : n <= 2 \/ ~False(@[n])})]
            ELSE ca[cr]]
    OBVIOUS
  <2>3. (decisionLevel = 0 /\ removeClauses(D, kept)) \/ UNCHANGED <<clauseVars, reason>>
    BY <2>1, <2>2 DEF simplify
  <2>4. CASE UNCHANGED <<clauseVars, reason>>
    BY <1>2, <2>4, RestMove DEF trailVars
  <2>5. CASE decisionLevel = 0 /\ removeClauses(D, kept)
    <3>1. trail_lim = <<>> /\ \A n : AtRoot(n)
      <4>1. trail_lim \in Seq(Nat) /\ Len(trail_lim) = 0
        BY <1>1, <2>5, TrailFacts DEF TrailInv
      <4> QED
        BY <2>5, <4>1 DEF AtRoot
    <3>2. ASSUME NEW cr \in CRef PROVE Thins(cr, kept[cr])
      <4>1. CASE cr \in learnts
        <5>1. ca[cr] # NoClause
          BY <4>1 DEF learnts, NoClause
        <5>2. PICK I : I = {n \in DOMAIN ca[cr].lits : n <= 2 \/ ~False(ca[cr].lits[n])}
          OBVIOUS
        <5>3. PICK k : k = Among(ca[cr].lits, I)
          OBVIOUS
        <5>4. kept[cr] = [ca[cr] EXCEPT !.lits = k]
          BY <2>2, <4>1, <5>2, <5>3
        <5>5. ca[cr].lits \in Seq(Lit)
          BY <1>1 DEF ArenaInv
        <5>6. I \in SUBSET (1..Len(ca[cr].lits)) /\ 1 \in I /\ 2 \in I => Rests(k, ca[cr].lits, I)
          BY <5>3, <5>5, RestsAmong
        <5>7. Untrimmed(cr, I)
          BY <5>2 DEF Untrimmed
        <5>8. Thins(cr, [ca[cr] EXCEPT !.lits = k])
          <6> HIDE <5>2, <5>3, <5>4
          <6> QED
            BY <1>1, <3>1, <5>1, <5>6, <5>7, TrimmedOf
        <5> QED
          BY <5>4, <5>8
      <4>2. CASE cr \notin learnts
        <5>1. kept[cr] = ca[cr]
          BY <2>2, <4>2
        <5> QED
          BY <1>1, <5>1, ThinsSame
      <4> QED
        BY <4>1, <4>2
    <3>3. \A cr \in CRef : ca[cr].origin = "formula" => kept[cr] = ca[cr]
      BY <2>2 DEF learnts
    <3>4. D \in SUBSET learnts
      BY <2>1
    <3> QED
      BY <1>2, <2>5, <3>1, <3>2, <3>3, <3>4, RemoveMove
  <2> QED
    BY <2>3, <2>4, <2>5
<1>4. ControlInv'
  BY <1>1, <1>2 DEF ControlInv, searching, Location
<1>5. VerdictInv'
  BY <1>1, <1>2, VerdictSame
<1> QED
  BY <1>3, <1>4, <1>5 DEF IInv

\* Learnt clauses that are no reasons go (reduceDB).
LEMMA ReduceDBKeeps ==
    ASSUME IInv, reduceDB
    PROVE  IInv'
<1>1. TrailInv /\ ControlInv /\ ArenaInv /\ VerdictInv
  BY DEF IInv
<1>2. /\ pc = "reduce" /\ pc' = "decide"
      /\ UNCHANGED <<problem, trail, trail_lim, qhead, ok, loaded, w, interrupted>>
      /\ assumptions' = assumptions /\ result' = result /\ conflict' = conflict
  BY DEF reduceDB, callVars
<1>3. PICK D \in SUBSET {cr \in learnts : Len(ca[cr].lits) > 2 /\ ~locked(cr)} : removeClauses(D, ca)
  BY DEF reduceDB
<1>4. PICK kept : kept = ca
  OBVIOUS
<1>5. /\ D \in SUBSET learnts /\ removeClauses(D, kept) /\ \A cr \in D : ~locked(cr)
      /\ \A cr \in CRef : Thins(cr, kept[cr])
      /\ \A cr \in CRef : ca[cr].origin = "formula" => kept[cr] = ca[cr]
  BY <1>1, <1>3, <1>4, ThinsSame
<1>6. /\ TrailInv' /\ ArenaInv' /\ WatchInv' /\ BlockerInv' /\ ReasonInv' /\ DecisionInv' /\ AssumeInv'
      /\ ImpliedInv' /\ PropagatedInv' /\ LoadedInv' /\ ConflictInv' /\ LearnInv'
  BY <1>2, <1>5, RemoveMove
<1>7. ControlInv'
  BY <1>1, <1>2 DEF ControlInv, searching, Location
<1>8. VerdictInv'
  BY <1>1, <1>2, VerdictSame
<1> QED
  BY <1>6, <1>7, <1>8 DEF IInv

\* Once its watchers are done, a fact of the queue has been visited.
LEMMA DoneVisited ==
    ASSUME TrailInv, WatchInv, ControlInv, factDone, pc = "propagate", NEW cr, NEW n \in 1..Len(trail), n < qhead
    PROVE  Visited(cr, n)
<1>1. ASSUME w # 0, n = qhead - 1, NEW i \in 1..Len(watches[trail[n]]) PROVE i < w
  <2>1. w > Len(watches[trail[n]])
    BY <1>1 DEF factDone
  <2>2. trail[n] \in Lit
    BY TrailFacts
  <2>3. Len(watches[trail[n]]) \in Nat
    BY <2>2 DEF WatchInv
  <2> QED
    BY <2>1, <2>3 DEF ControlInv
<1> QED
  BY <1>1 DEF Visited

\* The next fact of the queue, or the end of propagate.
LEMMA PropagateKeeps ==
    ASSUME IInv, propagate
    PROVE  IInv'
<1>1. /\ TrailInv /\ ControlInv /\ ArenaInv /\ WatchInv /\ BlockerInv /\ ReasonInv /\ DecisionInv
      /\ AssumeInv /\ ImpliedInv /\ PropagatedInv /\ LoadedInv /\ VerdictInv
  BY DEF IInv
<1>2. /\ pc = "propagate" /\ factDone
      /\ UNCHANGED <<problem, clauseVars, trail, trail_lim, reason, ok, loaded, interrupted>>
      /\ assumptions' = assumptions /\ result' = result /\ conflict' = conflict
      /\ ca' = ca /\ watches' = watches
  BY DEF propagate, callVars, clauseVars
<1>3. \/ qhead <= Len(trail) /\ qhead' = qhead + 1 /\ w' = 1 /\ pc' = pc
      \/ qhead > Len(trail) /\ w' = 0 /\ qhead' = qhead /\ pc' = IF searching THEN "noconflict" ELSE "idle"
  BY DEF propagate
<1>4. /\ Len(trail) \in Nat /\ Len(trail_lim) \in Nat /\ qhead \in 1..(Len(trail) + 1) /\ w \in Nat
      /\ \A k \in 1..Len(trail_lim) : trail_lim[k] \in Nat
      /\ trail_lim \in Seq(Nat)
  BY <1>1, TrailFacts DEF TrailInv, ControlInv
<1>5. PICK m, d : m = Len(trail) /\ d = Len(trail_lim)
  OBVIOUS
<1>6. Moves(m, d) /\ Len(trail') = m /\ m \in Nat /\ d \in Nat /\ Len(trail_lim') # d + 1 /\ Len(trail') # m + 1
  BY <1>1, <1>2, <1>4, <1>5, MoveNone
<1>7. qhead' \in 1..(Len(trail') + 1)
  BY <1>3, <1>4, <1>5, <1>6
<1>8. TrailInv' /\ ReasonInv' /\ DecisionInv' /\ AssumeInv' /\ ImpliedInv'
  BY <1>1, <1>2, <1>6, <1>7, StillMove
<1>9. ArenaInv' /\ WatchInv' /\ BlockerInv'
  BY <1>1, <1>2, <1>6, SameClauses, MoveBlockers
<1>10. LoadedInv'
  BY <1>1, <1>2, <1>6, MoveLoaded
<1>11. pc' \notin {"conflict", "learn"}
  BY <1>2, <1>3
<1>12. ConflictInv' /\ LearnInv'
  BY <1>11 DEF ConflictInv, LearnInv
<1>13. PropagatedInv'
  <2> SUFFICES ASSUME ok, NEW cr \in CRef, ca[cr].origin \in {"formula", "learnt"} PROVE Settled(cr)'
    BY <1>2 DEF PropagatedInv
  <2>1. Settled(cr) /\ ca[cr] # NoClause
    BY <1>1 DEF PropagatedInv, NoClause
  <2>2. PICK c : c = ca[cr].lits
    OBVIOUS
  <2>3. c \in Seq(Lit) /\ Len(c) >= 2
    BY <1>1, <2>1, <2>2 DEF ArenaInv
  <2>4. ASSUME NEW i \in {1, 2}, NEW n \in 1..Len(trail), trail[n] = -c[i], Visited(cr, n)' PROVE n < qhead
    <3>1. n < qhead'
      BY <2>4 DEF Visited
    <3>2. CASE qhead' = qhead + 1 /\ w' = 1 /\ n = qhead
      <4>1. PICK j \in 1..Len(watches[-ca[cr].lits[i]]) : watches[-ca[cr].lits[i]][j].cref = cr
        BY <1>1, <2>1, ZenonT(60) DEF WatchInv
      <4>2. j \in 1..Len(watches[trail[n]]) /\ watches[trail[n]][j].cref = cr
        BY <2>2, <2>4, <4>1
      <4>3. n = qhead' - 1 /\ w' # 0
        BY <1>4, <3>2
      <4>4. \A k \in 1..Len(watches[trail[n]]) : watches[trail[n]][k].cref = cr => k < 1
        BY <1>2, <2>4, <3>2, <4>3 DEF Visited
      <4> QED
        BY <4>2, <4>4
    <3> QED
      BY <1>3, <1>4, <3>1, <3>2
  <2>5. ASSUME NEW i \in {1, 2}, NEW n \in 1..Len(trail), trail[n] = -c[i], Visited(cr, n)'
        PROVE  Guarded(c, n)'
    <3>1. Visited(cr, n)
      BY <1>1, <1>2, <2>4, <2>5, DoneVisited
    <3> QED
      BY <1>1, <1>5, <1>6, <2>1, <2>2, <2>5, <3>1, SettledKept
  <2> QED
    BY <1>2, <2>2, <2>5 DEF Settled, Guarded
<1>14. ControlInv'
  <2>1. Len(trail_lim) > 0 => trail_lim[Len(trail_lim)] < qhead /\ trail_lim[Len(trail_lim)] \in Nat
    BY <1>1, <1>4 DEF ControlInv
  <2>2. qhead + 1 >= 2 /\ qhead + 1 - 1 = qhead /\ (qhead > Len(trail) => qhead = Len(trail) + 1)
    BY <1>4
  <2>3. /\ problem \in Problems /\ loaded \in 0..Len(problem.formula)
        /\ ok \in BOOLEAN /\ interrupted \in BOOLEAN /\ result \in {"none", "searching", "SAT", "UNSAT", "UNKNOWN"}
        /\ assumptions \in Seq(Lit)
        /\ searching => loaded = Len(problem.formula)
        /\ ok /\ (~searching => trail_lim = <<>>)
    BY <1>1, <1>2 DEF ControlInv
  <2>4. CASE qhead <= Len(trail) /\ qhead' = qhead + 1 /\ w' = 1 /\ pc' = pc
    <3>1. /\ w' = 1 /\ qhead' >= 2 /\ qhead' - 1 = qhead /\ pc' = "propagate" /\ w' \in Nat /\ w' # 0
      BY <1>2, <1>4, <2>2, <2>4
    <3>2. Len(trail_lim') > 0 => trail_lim'[Len(trail_lim')] < (IF w' = 0 THEN qhead' ELSE qhead' - 1)
      BY <1>2, <2>1, <3>1
    <3>3. /\ problem' = problem /\ loaded' = loaded /\ ok' = ok /\ interrupted' = interrupted
          /\ assumptions' = assumptions /\ result' = result /\ trail_lim' = trail_lim
      BY <1>2
    <3> QED
      BY <2>3, <3>1, <3>2, <3>3 DEF ControlInv, searching, Location
  <2>5. CASE qhead > Len(trail) /\ w' = 0 /\ qhead' = qhead /\ pc' = IF searching THEN "noconflict" ELSE "idle"
    <3>1. CASE searching
      BY <1>2, <2>1, <2>2, <2>3, <2>5, <3>1 DEF ControlInv, searching, Location
    <3>2. CASE ~searching
      <4>1. trail_lim' = <<>> /\ Len(trail_lim') = 0
        BY <1>2, <2>3, <3>2
      <4> QED
        BY <1>2, <2>2, <2>3, <2>5, <3>2, <4>1 DEF ControlInv, searching, Location
    <3> QED
      BY <3>1, <3>2
  <2> QED
    BY <1>3, <2>4, <2>5
<1>15. VerdictInv'
  BY <1>1, <1>2, VerdictSame
<1> QED
  BY <1>8, <1>9, <1>10, <1>12, <1>13, <1>14, <1>15 DEF IInv

-----------------------------------------------------------------------------
(* The visit of a watcher *)

\* c is c0 with the literals at places i and j exchanged.
Swapped(c, c0, i, j) ==
    /\ c \in Seq(Lit) /\ Len(c) = Len(c0) /\ NoRepeat(c) /\ Set(c) = Set(c0)
    /\ c[i] = c0[j] /\ c[j] = c0[i] /\ \A k \in 1..Len(c0) : k # i /\ k # j => c[k] = c0[k]

\* Two literals of a clause change places.
LEMMA SwapOf ==
    ASSUME NEW c0 \in Seq(Lit), NoRepeat(c0), NEW i \in 1..Len(c0), NEW j \in 1..Len(c0), i # j
    PROVE  Swapped([c0 EXCEPT ![i] = c0[j], ![j] = c0[i]], c0, i, j)
<1>1. Len(c0) \in Nat /\ DOMAIN c0 = 1..Len(c0) /\ \A k \in 1..Len(c0) : c0[k] \in Lit
  OBVIOUS
<1>a. PICK c : c = [c0 EXCEPT ![i] = c0[j], ![j] = c0[i]]
  OBVIOUS
<1>2. /\ DOMAIN c = 1..Len(c0)
      /\ c[i] = c0[j] /\ c[j] = c0[i] /\ \A k \in 1..Len(c0) : k # i /\ k # j => c[k] = c0[k]
      /\ c = [k \in 1..Len(c0) |-> c[k]]
  BY <1>1, <1>a
<1> HIDE <1>a
<1>3. \A k \in 1..Len(c0) : c[k] \in Lit
  BY <1>1, <1>2
<1>4. c \in Seq(Lit) /\ Len(c) = Len(c0)
  <2>1. c \in [1..Len(c0) -> Lit]
    BY <1>2, <1>3
  <2> QED
    BY <1>1, <2>1, SeqDef
<1>5. NoRepeat(c)
  <2> SUFFICES ASSUME NEW x \in 1..Len(c0), NEW y \in 1..Len(c0), c[x] = c[y] PROVE x = y
    BY <1>4 DEF NoRepeat
  <2>1. PICK to \in [1..Len(c0) -> 1..Len(c0)] :
           to = [k \in 1..Len(c0) |-> IF k = i THEN j ELSE IF k = j THEN i ELSE k]
    OBVIOUS
  <2>2. \A k \in 1..Len(c0) : c[k] = c0[to[k]] /\ to[k] \in 1..Len(c0)
    BY <1>2, <2>1
  <2>a. \A m, n \in 1..Len(c0) : c0[m] = c0[n] => m = n
    BY DEF NoRepeat
  <2>3. to[x] = to[y]
    <3>1. c0[to[x]] = c0[to[y]]
      BY <2>2
    <3> HIDE <2>1
    <3> QED
      BY <2>2, <2>a, <3>1
  <2> QED
    BY <2>1, <2>3
<1>6. \A k \in 1..Len(c0) : \E n \in 1..Len(c0) : c[k] = c0[n]
  BY <1>2
<1>7. \A k \in 1..Len(c0) : \E n \in 1..Len(c0) : c0[k] = c[n]
  BY <1>2
<1>8. Set(c) = Set(c0)
  <2>1. ASSUME NEW e \in Set(c) PROVE e \in Set(c0)
    <3>1. PICK k \in 1..Len(c) : c[k] = e
      BY <1>4, <2>1, SetOf
    <3>2. PICK n \in 1..Len(c0) : e = c0[n]
      BY <1>4, <1>6, <3>1
    <3> QED
      BY <3>2, SetOf
  <2>2. ASSUME NEW e \in Set(c0) PROVE e \in Set(c)
    <3>1. PICK k \in 1..Len(c0) : c0[k] = e
      BY <2>2, SetOf
    <3>2. PICK n \in 1..Len(c) : e = c[n]
      BY <1>4, <1>7, <3>1
    <3> QED
      BY <1>4, <3>2, SetOf
  <2> QED
    BY <2>1, <2>2
<1>9. Swapped(c, c0, i, j)
  BY <1>2, <1>4, <1>5, <1>8 DEF Swapped
<1> QED
  BY <1>a, <1>9

\* The watcher in hand: the fact p it is visited for, and its clause.
InHand(p, cr) ==
    /\ p \in Lit /\ -p \in Lit /\ qhead \in Nat /\ w \in Nat /\ w # 0 /\ w + 1 \in Nat
    /\ qhead - 1 \in 1..Len(trail) /\ trail[qhead - 1] = p
    /\ w \in 1..Len(watches[p]) /\ watches[p][w].cref = cr
    /\ cr \in CRef /\ ca[cr] # NoClause
    /\ \A k \in 1..Len(trail_lim) : trail_lim[k] < qhead - 1

\* The watcher propagate is about to visit is one of the fact at qhead - 1.
LEMMA InHandOf ==
    ASSUME TrailInv, ControlInv, ArenaInv, WatchInv, pc = "propagate", ~factDone
    PROVE  InHand(trail[qhead - 1], watches[trail[qhead - 1]][w].cref)
<1>a. PICK p : p = trail[qhead - 1]
  OBVIOUS
<1>b. PICK cr : cr = watches[p][w].cref
  OBVIOUS
<1>1. /\ w # 0 /\ w \in Nat /\ ~(w > Len(watches[p])) /\ w + 1 \in Nat
  BY <1>a DEF factDone, ControlInv
<1>2. qhead >= 2 /\ qhead \in 1..(Len(trail) + 1) /\ Len(trail) \in Nat
  BY <1>1, TrailFacts DEF ControlInv, TrailInv
<1>3. qhead \in Nat /\ qhead - 1 \in 1..Len(trail)
  BY <1>2
<1>4. p \in Lit /\ -p \in Lit
  BY <1>3, <1>a, TrailFacts
<1>5. w \in 1..Len(watches[p])
  <2> HIDE <1>a, <1>b
  <2>1. Len(watches[p]) \in Nat
    BY <1>4 DEF WatchInv
  <2> QED
    BY <1>1, <2>1
<1>6. cr \in CRef /\ ca[cr] # NoClause
  <2> HIDE <1>a, <1>b
  <2>1. watches[p][w].cref \in CRef /\ ca[watches[p][w].cref] # NoClause
    BY <1>4, <1>5, WatcherFacts
  <2> QED
    BY <1>b, <2>1
<1>7. ASSUME NEW k \in 1..Len(trail_lim) PROVE trail_lim[k] < qhead - 1
  <2>1. Len(trail_lim) \in Nat /\ Len(trail_lim) \in 1..Len(trail_lim) /\ k <= Len(trail_lim) /\ Len(trail_lim) > 0
    BY <1>7, TrailFacts
  <2>2. trail_lim[k] <= trail_lim[Len(trail_lim)] /\ trail_lim[k] \in Nat /\ trail_lim[Len(trail_lim)] \in Nat
    BY <2>1 DEF TrailInv
  <2>3. trail_lim[Len(trail_lim)] < qhead - 1
    BY <1>1, <2>1 DEF ControlInv
  <2> QED
    BY <1>3, <2>2, <2>3
<1>8. InHand(p, cr)
  BY <1>1, <1>3, <1>4, <1>5, <1>6, <1>7, <1>a, <1>b DEF InHand
<1> QED
  BY <1>8, <1>a, <1>b

\* The clause c0 with the watch that became false in second place.
Turned(c, c0, p) ==
    /\ c \in Seq(Lit) /\ Len(c) = Len(c0) /\ Len(c) \in Nat /\ Len(c) >= 2 /\ NoRepeat(c) /\ Set(c) = Set(c0)
    /\ c[1] \in Lit /\ c[2] = -p /\ c[1] # -p
    /\ c0[1] \in {c[1], c[2]} /\ c0[2] \in {c[1], c[2]} /\ c[1] \in {c0[1], c0[2]} /\ c[2] \in {c0[1], c0[2]}
    /\ c0[1] # -p => c = c0

\* propagate makes the false literal the second of the clause.
LEMMA TurnedOf ==
    ASSUME NEW c0 \in Seq(Lit), Len(c0) >= 2, NoRepeat(c0), NEW p \in Lit, -p \in {c0[1], c0[2]}
    PROVE  Turned(IF c0[1] = -p THEN [c0 EXCEPT ![1] = c0[2], ![2] = -p] ELSE c0, c0, p)
<1>1. PICK L \in Nat : L = Len(c0) /\ L >= 2 /\ 1 \in 1..L /\ 2 \in 1..L
  OBVIOUS
<1>2. c0[1] \in Lit /\ c0[2] \in Lit
  BY <1>1
<1>3. c0[1] # c0[2]
  BY <1>1 DEF NoRepeat
<1>4. CASE c0[1] = -p
  <2>1. Swapped([c0 EXCEPT ![1] = c0[2], ![2] = c0[1]], c0, 1, 2)
    <3>1. 1 \in 1..Len(c0) /\ 2 \in 1..Len(c0) /\ 1 # 2
      BY <1>1
    <3> QED
      BY <3>1, SwapOf, Zenon
  <2>2. PICK c : c = [c0 EXCEPT ![1] = c0[2], ![2] = c0[1]]
    OBVIOUS
  <2>3. Swapped(c, c0, 1, 2)
    BY <2>1, <2>2
  <2>4. Turned(c, c0, p)
    <3> HIDE <2>2
    <3> QED
      BY <1>1, <1>2, <1>3, <1>4, <2>3 DEF Turned, Swapped
  <2> QED
    BY <1>4, <2>2, <2>4
<1>5. CASE c0[1] # -p
  <2>1. c0[2] = -p
    BY <1>5
  <2>2. Turned(c0, c0, p)
    BY <1>1, <1>2, <1>3, <1>5, <2>1 DEF Turned
  <2> QED
    BY <1>5, <2>2
<1> QED
  BY <1>4, <1>5

\* The literals of clause cr change their order.
Rewritten(cr, c) ==
    /\ cr \in CRef /\ ca[cr] # NoClause /\ ca'[cr] # NoClause
    /\ ca' \in [CRef -> [lits : Seq(Lit), origin : {"none", "formula", "learnt", "imported"}]]
    /\ ca'[cr].lits = c /\ ca'[cr].origin = ca[cr].origin
    /\ \A y \in CRef : y # cr => ca'[y] = ca[y]
    /\ c \in Seq(Lit) /\ Len(c) >= 2 /\ NoRepeat(c) /\ Set(c) = Set(ca[cr].lits)

\* The clause is written back in another order.
LEMMA RewrittenOf ==
    ASSUME ArenaInv, NEW cr \in CRef, ca[cr] # NoClause, NEW c \in Seq(Lit), Len(c) >= 2, NoRepeat(c),
           Set(c) = Set(ca[cr].lits), ca' = [ca EXCEPT ![cr].lits = c]
    PROVE  Rewritten(cr, c)
<1>1. ca \in [CRef -> [lits : Seq(Lit), origin : {"none", "formula", "learnt", "imported"}]]
  BY DEF ArenaInv
<1>2. ca'[cr].lits = c /\ ca'[cr].origin = ca[cr].origin /\ \A y \in CRef : y # cr => ca'[y] = ca[y]
  BY <1>1
<1>3. ca' \in [CRef -> [lits : Seq(Lit), origin : {"none", "formula", "learnt", "imported"}]]
  BY <1>1
<1>4. ca'[cr] # NoClause
  <2>1. NoClause.lits = <<>> /\ Len(<<>>) = 0
    BY DEF NoClause
  <2>2. ca'[cr].lits = c
    BY <1>2
  <2>3. c # <<>>
    OBVIOUS
  <2> QED
    BY <2>1, <2>2, <2>3, Zenon
<1> QED
  BY <1>2, <1>3, <1>4 DEF Rewritten

\* Nothing is written back.
LEMMA RewrittenSame ==
    ASSUME ArenaInv, NEW cr \in CRef, ca[cr] # NoClause, ca' = ca
    PROVE  Rewritten(cr, ca[cr].lits)
BY DEF Rewritten, ArenaInv

\* What the order of the literals does not matter for.
LEMMA RewrittenRest ==
    ASSUME TrailInv, ArenaInv, ImpliedInv, LoadedInv, NEW m, NEW d, Moves(m, d),
           NEW cr, NEW c, Rewritten(cr, c), UNCHANGED <<problem, loaded>>, ok' => ok
    PROVE  /\ ArenaInv' /\ LoadedInv'
           /\ \A y \in CRef : ca'[y] # NoClause => Implied(Set(ca'[y].lits))
<1>1. ArenaInv'
  <2> SUFFICES ASSUME NEW y \in CRef, ca'[y] # NoClause
               PROVE  Len(ca'[y].lits) >= 2 /\ NoRepeat(ca'[y].lits) /\ ca'[y].origin # "none"
    BY DEF ArenaInv, Rewritten
  <2>1. CASE y = cr
    BY <2>1 DEF Rewritten, ArenaInv
  <2>2. CASE y # cr
    BY <2>2 DEF Rewritten, ArenaInv
  <2> QED
    BY <2>1, <2>2
<1>2. LoadedInv'
  <2>1. \A y \in CRef : ca[y].origin = "formula" =>
            ca'[y].origin = "formula" /\ Set(ca'[y].lits) \subseteq Set(ca[y].lits)
    BY DEF Rewritten
  <2> QED
    BY <2>1, MoveLoaded
<1>3. ASSUME NEW y \in CRef, ca'[y] # NoClause PROVE Implied(Set(ca'[y].lits))
  <2>1. ca[y] # NoClause /\ Set(ca'[y].lits) = Set(ca[y].lits)
    BY <1>3 DEF Rewritten
  <2> QED
    BY <2>1 DEF ImpliedInv
<1> QED
  BY <1>1, <1>2, <1>3

\* A clause that is a reason stays as it is.
LEMMA RewrittenReasons ==
    ASSUME TrailInv, ArenaInv, ReasonInv, NEW p, NEW cr, InHand(p, cr), NEW c0, c0 = ca[cr].lits,
           NEW c, Turned(c, c0, p), NEW c1, Rewritten(cr, c1), True(c[1]) => c1 = c,
           NEW n \in 1..Len(trail), reason[abs(trail[n])] # Undef
    PROVE  ca'[reason[abs(trail[n])]] = ca[reason[abs(trail[n])]]
<1>1. reason[abs(trail[n])] \in CRef
  BY ReasonHeld
<1>2. CASE reason[abs(trail[n])] = cr
  <2>1. c0[1] = trail[n]
    BY <1>2 DEF ReasonInv
  <2>2. True(c0[1])
    BY <2>1, TrailFacts
  <2>3. c0[1] # -p
    <3>1. qhead - 1 \in 1..Len(trail) /\ trail[qhead - 1] = p /\ p \in Lit
      BY DEF InHand
    <3>2. ASSUME trail[n] = -p PROVE FALSE
      <4>1. n = qhead - 1
        BY <3>1, <3>2, TrailFacts
      <4> QED
        BY <3>1, <3>2, <4>1, LitFacts
    <3> QED
      BY <2>1, <3>2
  <2>4. c1 = c0
    BY <2>2, <2>3 DEF Turned
  <2>5. ca'[cr].lits = ca[cr].lits /\ ca'[cr].origin = ca[cr].origin
    BY <2>4 DEF Rewritten
  <2>6. /\ ca[cr] \in [lits : Seq(Lit), origin : {"none", "formula", "learnt", "imported"}]
        /\ ca'[cr] \in [lits : Seq(Lit), origin : {"none", "formula", "learnt", "imported"}]
    BY DEF ArenaInv, Rewritten
  <2>7. ca'[cr] = ca[cr]
    BY <2>5, <2>6
  <2> QED
    BY <1>2, <2>7
<1>3. CASE reason[abs(trail[n])] # cr
  BY <1>1, <1>3 DEF Rewritten
<1> QED
  BY <1>2, <1>3

\* The watcher in hand stays, with another blocker.
Stays(p, cr, q) ==
    /\ watches' \in [Lit -> Seq(Watcher)]
    /\ \A l \in Lit : Len(watches'[l]) = Len(watches[l])
    /\ watches'[p][w].cref = cr /\ watches'[p][w].blocker = q
    /\ \A l \in Lit : \A n \in 1..Len(watches[l]) :
          /\ watches'[l][n].cref = watches[l][n].cref
          /\ l # p \/ n # w => watches'[l][n] = watches[l][n]

\* propagate keeps the watcher in its list (*j++ = w).
LEMMA StaysOf ==
    ASSUME WatchInv, NEW p, NEW cr, InHand(p, cr), NEW q \in Lit,
           watches' = [watches EXCEPT ![p][w] = [cref |-> cr, blocker |-> q]]
    PROVE  Stays(p, cr, q)
<1>1. watches \in [Lit -> Seq(Watcher)]
  BY DEF WatchInv, Watcher
<1>2. p \in Lit /\ w \in 1..Len(watches[p]) /\ watches[p][w].cref = cr /\ cr \in CRef
  BY DEF InHand
<1>3. PICK x \in Watcher : x = [cref |-> cr, blocker |-> q] /\ x.cref = cr /\ x.blocker = q
  <2>1. [cref |-> cr, blocker |-> q] \in Watcher
    BY <1>2 DEF Watcher
  <2> QED
    BY <2>1
<1>4. PICK r : r = [watches[p] EXCEPT ![w] = x]
  OBVIOUS
<1>5. watches' = [watches EXCEPT ![p] = r]
  BY <1>1, <1>2, <1>3, <1>4
<1>6. /\ r \in Seq(Watcher) /\ Len(r) = Len(watches[p]) /\ r[w] = x
      /\ \A n \in 1..Len(watches[p]) : n # w => r[n] = watches[p][n]
  <2>1. watches[p] \in Seq(Watcher)
    BY <1>1, <1>2
  <2> QED
    BY <1>2, <1>4, <2>1
<1> HIDE <1>4
<1>7. /\ watches' \in [Lit -> Seq(Watcher)]
      /\ watches'[p] = r /\ \A l \in Lit : l # p => watches'[l] = watches[l]
  BY <1>1, <1>2, <1>5, <1>6
<1> HIDE <1>3, <1>5
<1>8. \A l \in Lit : Len(watches'[l]) = Len(watches[l])
  BY <1>6, <1>7
<1>9. ASSUME NEW l \in Lit, NEW n \in 1..Len(watches[l])
      PROVE  /\ watches'[l][n].cref = watches[l][n].cref
             /\ l # p \/ n # w => watches'[l][n] = watches[l][n]
  <2>1. CASE l # p
    BY <1>7, <2>1
  <2>2. CASE l = p /\ n # w
    BY <1>6, <1>7, <2>2
  <2>3. CASE l = p /\ n = w
    BY <1>2, <1>3, <1>6, <1>7, <2>3
  <2> QED
    BY <2>1, <2>2, <2>3
<1>10. watches'[p][w].cref = cr /\ watches'[p][w].blocker = q
  BY <1>3, <1>6, <1>7
<1> QED
  BY <1>7, <1>8, <1>9, <1>10 DEF Stays

\* The watches of a clause that changes its order are in the same lists.
LEMMA StaysWatched ==
    ASSUME TrailInv, ArenaInv, WatchInv, BlockerInv, NEW m, NEW d, Moves(m, d),
           NEW p, NEW cr, InHand(p, cr), NEW q, Stays(p, cr, q), NEW c, Rewritten(cr, c), q \in Set(c),
           ca[cr].lits[1] \in {c[1], c[2]}, ca[cr].lits[2] \in {c[1], c[2]},
           c[1] \in {ca[cr].lits[1], ca[cr].lits[2]}, c[2] \in {ca[cr].lits[1], ca[cr].lits[2]}
    PROVE  WatchInv' /\ BlockerInv'
<1>1. /\ watches' \in [Lit -> Seq(Watcher)]
      /\ \A l \in Lit : Len(watches'[l]) = Len(watches[l])
      /\ \A l \in Lit : \A n \in 1..Len(watches[l]) : watches'[l][n].cref = watches[l][n].cref
  BY DEF Stays
<1>2. \A y \in CRef : /\ ca'[y] # NoClause <=> ca[y] # NoClause
                      /\ y # cr => ca'[y] = ca[y]
                      /\ Set(ca'[y].lits) = Set(ca[y].lits)
  BY DEF Rewritten
<1>3. \A y \in CRef : /\ ca[y].lits[1] \in {ca'[y].lits[1], ca'[y].lits[2]}
                      /\ ca[y].lits[2] \in {ca'[y].lits[1], ca'[y].lits[2]}
                      /\ ca'[y].lits[1] \in {ca[y].lits[1], ca[y].lits[2]}
                      /\ ca'[y].lits[2] \in {ca[y].lits[1], ca[y].lits[2]}
  BY <1>2 DEF Rewritten
<1>4. ASSUME NEW l \in Lit, NEW n \in 1..Len(watches'[l])
      PROVE  /\ ca'[watches'[l][n].cref] # NoClause
             /\ -l \in {ca'[watches'[l][n].cref].lits[1], ca'[watches'[l][n].cref].lits[2]}
  <2>1. n \in 1..Len(watches[l]) /\ watches'[l][n].cref = watches[l][n].cref
    BY <1>1, <1>4
  <2>2. PICK y : y = watches[l][n].cref
    OBVIOUS
  <2>3. y \in CRef /\ ca[y] # NoClause /\ -l \in {ca[y].lits[1], ca[y].lits[2]}
    BY <2>1, <2>2, WatcherFacts
  <2>4. ca'[y] # NoClause /\ -l \in {ca'[y].lits[1], ca'[y].lits[2]}
    BY <1>2, <1>3, <2>3
  <2> QED
    BY <2>1, <2>2, <2>4
<1>5. ASSUME NEW l \in Lit, NEW i \in 1..Len(watches'[l]), NEW n \in 1..Len(watches'[l]),
             watches'[l][i].cref = watches'[l][n].cref
      PROVE  i = n
  BY <1>1, <1>5 DEF WatchInv
<1>6. ASSUME NEW y \in CRef, ca'[y] # NoClause, NEW i \in {1, 2}
      PROVE  \E n \in 1..Len(watches'[-ca'[y].lits[i]]) : watches'[-ca'[y].lits[i]][n].cref = y
  <2>1. ca[y] # NoClause
    BY <1>2, <1>6
  <2>2. PICK j \in {1, 2} : ca'[y].lits[i] = ca[y].lits[j]
    BY <1>3
  <2>3. PICK e : e = -ca[y].lits[j]
    OBVIOUS
  <2>4. e \in Lit
    <3>1. ca[y].lits \in Seq(Lit) /\ Len(ca[y].lits) >= 2
      BY <2>1 DEF ArenaInv
    <3>2. ca[y].lits[1] \in Lit /\ ca[y].lits[2] \in Lit
      BY <3>1
    <3>3. ca[y].lits[j] \in Lit
      BY <3>2
    <3> QED
      BY <2>3, <3>3, LitFacts
  <2>5. PICK n \in 1..Len(watches[e]) : watches[e][n].cref = y
    <3>1. \E n \in 1..Len(watches[-ca[y].lits[j]]) : watches[-ca[y].lits[j]][n].cref = y
      <4>1. \A k \in {1, 2} :
                \E n \in 1..Len(watches[-ca[y].lits[k]]) : watches[-ca[y].lits[k]][n].cref = y
        BY <2>1 DEF WatchInv
      <4> HIDE <2>2, <2>3
      <4> QED
        BY <4>1
    <3> QED
      BY <2>3, <3>1
  <2>6. n \in 1..Len(watches'[e]) /\ watches'[e][n].cref = y
    BY <1>1, <2>4, <2>5
  <2> QED
    BY <2>2, <2>3, <2>6
<1>7. WatchInv'
  BY <1>1, <1>4, <1>5, <1>6 DEF WatchInv, Watcher
<1>8. ASSUME NEW l \in Lit, NEW n \in 1..Len(watches'[l]) PROVE Blocks(watches[l][n])'
  <2>1. CASE l = p /\ n = w
    <3>1. watches'[l][n].cref = cr /\ watches'[l][n].blocker = q
      BY <2>1 DEF Stays
    <3>2. watches'[l][n].blocker \in Set(ca'[watches'[l][n].cref].lits)
      BY <3>1 DEF Rewritten
    <3> QED
      BY <3>2 DEF Blocks
  <2>2. CASE l # p \/ n # w
    <3>1. n \in 1..Len(watches[l]) /\ watches'[l][n] = watches[l][n]
      BY <1>1, <1>8, <2>2 DEF Stays
    <3>2. PICK x : x = watches[l][n]
      OBVIOUS
    <3>3. Blocks(x) /\ x.cref \in CRef
      BY <3>1, <3>2, WatcherFacts DEF BlockerInv
    <3>4. Set(ca'[x.cref].lits) = Set(ca[x.cref].lits)
      BY <1>2, <3>3
    <3>5. Blocks(x)'
      BY <3>3, <3>4, BlocksKept
    <3> QED
      BY <3>1, <3>2, <3>5 DEF Blocks
  <2> QED
    BY <2>1, <2>2
<1>9. BlockerInv'
  BY <1>8 DEF BlockerInv
<1> QED
  BY <1>7, <1>9

\* After the watcher in hand, the next one is visited.
LEMMA StaysVisited ==
    ASSUME TrailInv, WatchInv, ArenaInv, NEW m, NEW d, Moves(m, d), m = Len(trail), NEW p, NEW cr, InHand(p, cr),
           \A l \in Lit : Len(watches'[l]) = Len(watches[l]),
           \A l \in Lit : \A n \in 1..Len(watches[l]) : watches'[l][n].cref = watches[l][n].cref,
           w' = w + 1, qhead' = qhead, pc = "propagate",
           NEW y \in CRef, y # cr, NEW n \in 1..m, Visited(y, n)'
    PROVE  Visited(y, n)
<1>1. n < qhead /\ trail'[n] = trail[n] /\ n \in 1..Len(trail)
  BY KeptPlaces DEF Visited
<1>2. ASSUME n = qhead - 1, NEW i \in 1..Len(watches[trail[n]]), watches[trail[n]][i].cref = y PROVE i < w
  <2>1. trail[n] = p /\ p \in Lit /\ w' # 0 /\ n = qhead' - 1 /\ w \in Nat /\ watches[p][w].cref = cr
    BY <1>2 DEF InHand
  <2>2. i \in 1..Len(watches'[p]) /\ watches'[p][i].cref = y
    BY <1>2, <2>1
  <2>3. i < w + 1
    BY <1>1, <2>1, <2>2 DEF Visited
  <2>4. i # w
    BY <1>2, <2>1
  <2> QED
    BY <2>1, <2>3, <2>4
<1> QED
  BY <1>1, <1>2 DEF Visited

\* Where the watcher at place n of the list for l was before the one in hand went.
Before(p, l, n) == IF l = p /\ n >= w THEN n + 1 ELSE n

\* The watcher in hand goes to the list for l1, with another blocker.
Goes(p, cr, q, l1) ==
    /\ watches' \in [Lit -> Seq(Watcher)] /\ l1 \in Lit /\ l1 # p
    /\ \E n \in 1..Len(watches'[l1]) : watches'[l1][n].cref = cr
    /\ \A l \in Lit : \A n \in 1..Len(watches'[l]) :
          \/ /\ l = l1 /\ n = Len(watches[l1]) + 1
             /\ watches'[l][n].cref = cr /\ watches'[l][n].blocker = q
          \/ /\ Before(p, l, n) \in 1..Len(watches[l]) /\ (l = p => Before(p, l, n) # w)
             /\ watches'[l][n] = watches[l][Before(p, l, n)]
    /\ \A l \in Lit : \A o \in 1..Len(watches[l]) : l # p \/ o # w =>
          \E n \in 1..Len(watches'[l]) : watches'[l][n] = watches[l][o] /\ o = Before(p, l, n)

\* propagate hands the watcher over to another list (watches[~c[1]].push(w)).
LEMMA GoesOf ==
    ASSUME WatchInv, NEW p, NEW cr, InHand(p, cr), NEW q \in Lit, NEW l1 \in Lit, l1 # p,
           watches' = [watches EXCEPT ![p] = RemoveAt(@, w), ![l1] = Append(@, [cref |-> cr, blocker |-> q])]
    PROVE  Goes(p, cr, q, l1)
<1>1. watches \in [Lit -> Seq(Watcher)]
  BY DEF WatchInv, Watcher
<1>2. p \in Lit /\ w \in 1..Len(watches[p]) /\ cr \in CRef
  BY DEF InHand
<1>3. PICK x \in Watcher : x = [cref |-> cr, blocker |-> q] /\ x.cref = cr /\ x.blocker = q
  <2>1. [cref |-> cr, blocker |-> q] \in Watcher
    BY <1>2 DEF Watcher
  <2> QED
    BY <2>1
<1>4. PICK r, t : r = RemoveAt(watches[p], w) /\ t = Append(watches[l1], x)
  OBVIOUS
<1>5. watches' = [watches EXCEPT ![p] = r, ![l1] = t]
  BY <1>1, <1>2, <1>3, <1>4
<1>6. /\ r \in Seq(Watcher) /\ Len(r) = Len(watches[p]) - 1
      /\ \A n \in 1..(Len(watches[p]) - 1) : r[n] = IF n < w THEN watches[p][n] ELSE watches[p][n + 1]
  <2>1. watches[p] \in Seq(Watcher)
    BY <1>1, <1>2
  <2> QED
    BY <1>2, <1>4, <2>1, RemoveAtElements
<1>7. /\ t \in Seq(Watcher) /\ Len(t) = Len(watches[l1]) + 1 /\ t[Len(watches[l1]) + 1] = x
      /\ \A n \in 1..Len(watches[l1]) : t[n] = watches[l1][n]
  <2>1. watches[l1] \in Seq(Watcher)
    BY <1>1
  <2> QED
    BY <1>4, <2>1, AppendElements
<1> HIDE <1>4
<1>8. /\ watches' \in [Lit -> Seq(Watcher)] /\ watches'[p] = r /\ watches'[l1] = t
      /\ \A l \in Lit : l # p /\ l # l1 => watches'[l] = watches[l]
  BY <1>1, <1>2, <1>5, <1>6, <1>7
<1>9. \A l \in Lit : Len(watches[l]) \in Nat
  BY <1>1
<1> HIDE <1>3, <1>5
<1>10. \E n \in 1..Len(watches'[l1]) : watches'[l1][n].cref = cr
  <2>1. Len(t) \in 1..Len(t)
    BY <1>7, <1>9
  <2> QED
    BY <1>3, <1>7, <1>8, <2>1
<1>11. ASSUME NEW l \in Lit, NEW n \in 1..Len(watches'[l])
       PROVE  \/ /\ l = l1 /\ n = Len(watches[l1]) + 1
                 /\ watches'[l][n].cref = cr /\ watches'[l][n].blocker = q
              \/ /\ Before(p, l, n) \in 1..Len(watches[l]) /\ (l = p => Before(p, l, n) # w)
                 /\ watches'[l][n] = watches[l][Before(p, l, n)]
  <2>1. CASE l = p
    <3>1. PICK L \in Nat : L = Len(watches[p]) /\ w \in 1..L
      BY <1>2, <1>9
    <3>2. n \in 1..(L - 1)
      BY <1>6, <1>8, <2>1, <3>1
    <3>3. CASE n >= w
      <4>1. Before(p, l, n) = n + 1 /\ n + 1 \in 1..L /\ n + 1 # w /\ ~(n < w)
        BY <2>1, <3>1, <3>2, <3>3 DEF Before
      <4> QED
        BY <1>6, <1>8, <2>1, <3>1, <3>2, <4>1
    <3>4. CASE ~(n >= w)
      <4>1. Before(p, l, n) = n /\ n \in 1..L /\ n # w /\ n < w
        BY <2>1, <3>1, <3>2, <3>4 DEF Before
      <4> QED
        BY <1>6, <1>8, <2>1, <3>1, <3>2, <4>1
    <3> QED
      BY <3>3, <3>4
  <2>2. CASE l = l1
    <3>1. PICK L \in Nat : L = Len(watches[l1])
      BY <1>9
    <3>2. n \in 1..L \/ n = L + 1
      BY <1>7, <1>8, <2>2, <3>1
    <3>3. CASE n = L + 1
      BY <1>3, <1>7, <1>8, <2>2, <3>1, <3>3
    <3>4. CASE n \in 1..L
      BY <1>7, <1>8, <2>2, <3>1, <3>4 DEF Before
    <3> QED
      BY <3>2, <3>3, <3>4
  <2>3. CASE l # p /\ l # l1
    BY <1>8, <2>3 DEF Before
  <2> QED
    BY <2>1, <2>2, <2>3
<1>12. ASSUME NEW l \in Lit, NEW o \in 1..Len(watches[l]), l # p \/ o # w
       PROVE  \E n \in 1..Len(watches'[l]) : watches'[l][n] = watches[l][o] /\ o = Before(p, l, n)
  <2>1. CASE l = p
    <3>1. PICK L \in Nat : L = Len(watches[p]) /\ w \in 1..L /\ o \in 1..L
      BY <1>2, <1>9, <2>1
    <3>2. CASE o > w
      <4>1. PICK n \in 1..(L - 1) : n = o - 1 /\ n + 1 = o /\ n >= w /\ ~(n < w)
        BY <3>1, <3>2
      <4>2. r[n] = watches[p][o] /\ n \in 1..Len(watches'[p]) /\ Before(p, p, n) = o
        BY <1>6, <1>8, <3>1, <4>1 DEF Before
      <4> QED
        BY <1>8, <2>1, <4>2
    <3>3. CASE ~(o > w)
      <4>1. o < w /\ o \in 1..(L - 1) /\ ~(o >= w)
        BY <1>12, <2>1, <3>1, <3>3
      <4>2. r[o] = watches[p][o] /\ o \in 1..Len(watches'[p]) /\ Before(p, p, o) = o
        BY <1>6, <1>8, <3>1, <4>1 DEF Before
      <4> QED
        BY <1>8, <2>1, <4>2
    <3> QED
      BY <3>2, <3>3
  <2>2. CASE l # p
    <3>1. o \in 1..Len(watches'[l]) /\ watches'[l][o] = watches[l][o]
      <4>1. CASE l = l1
        BY <1>7, <1>8, <1>9, <4>1
      <4>2. CASE l # l1
        BY <1>8, <2>2, <4>2
      <4> QED
        BY <4>1, <4>2
    <3> QED
      BY <2>2, <3>1 DEF Before
  <2> QED
    BY <2>1, <2>2
<1> QED
  BY <1>8, <1>10, <1>11, <1>12 DEF Goes

\* The lists follow a watch that moves from literal -p to literal -l1.
LEMMA GoesWatched ==
    ASSUME TrailInv, ArenaInv, WatchInv, BlockerInv, NEW m, NEW d, Moves(m, d),
           NEW p, NEW cr, InHand(p, cr), NEW q, NEW l1, Goes(p, cr, q, l1),
           NEW c, Turned(c, ca[cr].lits, p), NEW c1, Rewritten(cr, c1), q \in Set(c1),
           c1[1] = c[1], c1[2] = -l1, -l1 # c[1], -l1 # c[2]
    PROVE  WatchInv' /\ BlockerInv'
<1>1. /\ watches' \in [Lit -> Seq(Watcher)] /\ l1 \in Lit /\ -l1 \in Lit /\ -(-l1) = l1 /\ l1 # p
      /\ p \in Lit /\ w \in 1..Len(watches[p]) /\ watches[p][w].cref = cr /\ w \in Nat
      /\ cr \in CRef /\ ca[cr] # NoClause
  BY LitFacts DEF Goes, InHand
<1>2. /\ \A y \in CRef : ca'[y] # NoClause <=> ca[y] # NoClause
      /\ \A y \in CRef : y # cr => ca'[y] = ca[y]
      /\ \A y \in CRef : Set(ca'[y].lits) = Set(ca[y].lits)
      /\ ca'[cr].lits = c1
  BY DEF Rewritten
<1>3. PICK c0 : c0 = ca[cr].lits
  OBVIOUS
<1>4. /\ c[1] \in Lit /\ -c[1] \in Lit /\ c[2] = -p /\ c[1] # -p /\ -c[1] # p /\ -c[1] # l1
      /\ c0[1] \in {c[1], -p} /\ c0[2] \in {c[1], -p} /\ c[1] \in {c0[1], c0[2]}
  <2>1. c[1] \in Lit /\ -c[1] \in Lit /\ -(-c[1]) = c[1]
    BY LitFacts DEF Turned
  <2> QED
    BY <1>1, <1>3, <2>1 DEF Turned
<1> HIDE <1>3
<1>5. \A l \in Lit : \A n \in 1..Len(watches[l]) : watches[l][n].cref = cr => -l \in {c[1], -p}
  <2> SUFFICES ASSUME NEW l \in Lit, NEW n \in 1..Len(watches[l]), watches[l][n].cref = cr
               PROVE  -l \in {c[1], -p}
    OBVIOUS
  <2>1. -l \in {ca[watches[l][n].cref].lits[1], ca[watches[l][n].cref].lits[2]}
    BY WatcherFacts
  <2>2. -l \in {c0[1], c0[2]}
    BY <1>3, <2>1
  <2> QED
    BY <1>4, <2>2
<1>6. \A n \in 1..Len(watches[l1]) : watches[l1][n].cref # cr
  BY <1>1, <1>4, <1>5 DEF Turned
<1>7. \A n \in 1..Len(watches[p]) : n # w => watches[p][n].cref # cr
  BY <1>1 DEF WatchInv
<1>8. ASSUME NEW l \in Lit, NEW n \in 1..Len(watches'[l])
      PROVE  /\ ca'[watches'[l][n].cref] # NoClause
             /\ -l \in {ca'[watches'[l][n].cref].lits[1], ca'[watches'[l][n].cref].lits[2]}
             /\ Blocks(watches[l][n])'
  <2>1. CASE l = l1 /\ watches'[l][n].cref = cr /\ watches'[l][n].blocker = q
    <3>1. watches'[l][n].blocker \in Set(ca'[watches'[l][n].cref].lits)
      BY <1>2, <2>1
    <3>2. Blocks(watches[l][n])'
      BY <3>1 DEF Blocks
    <3> QED
      BY <1>1, <1>2, <2>1, <3>2
  <2>2. CASE /\ Before(p, l, n) \in 1..Len(watches[l]) /\ (l = p => Before(p, l, n) # w)
             /\ watches'[l][n] = watches[l][Before(p, l, n)]
    <3>1. PICK o \in 1..Len(watches[l]) : o = Before(p, l, n) /\ watches'[l][n] = watches[l][o] /\ (l = p => o # w)
      BY <2>2
    <3> HIDE <2>2
    <3>2. PICK x : x = watches[l][o]
      OBVIOUS
    <3>3. /\ Blocks(x) /\ x.cref \in CRef /\ ca[x.cref] # NoClause
          /\ -l \in {ca[x.cref].lits[1], ca[x.cref].lits[2]}
      BY <3>2, WatcherFacts DEF BlockerInv
    <3>4. Set(ca'[x.cref].lits) = Set(ca[x.cref].lits) /\ ca'[x.cref] # NoClause
      BY <1>2, <3>3
    <3>5. Blocks(x)'
      BY <3>3, <3>4, BlocksKept
    <3>6. Blocks(watches[l][n])'
      BY <3>1, <3>2, <3>5 DEF Blocks
    <3>7. -l \in {ca'[x.cref].lits[1], ca'[x.cref].lits[2]}
      <4>1. CASE x.cref = cr
        <5>1. l # p
          BY <1>7, <3>1, <3>2, <4>1
        <5>2. -l \in {c[1], -p}
          BY <1>5, <3>2, <4>1
        <5>3. -l = c[1]
          BY <1>1, <5>1, <5>2, LitFacts
        <5> QED
          BY <1>2, <4>1, <5>3
      <4>2. CASE x.cref # cr
        BY <1>2, <3>3, <4>2
      <4> QED
        BY <4>1, <4>2
    <3> QED
      BY <3>1, <3>2, <3>4, <3>6, <3>7
  <2> QED
    BY <2>1, <2>2 DEF Goes
<1>9. ASSUME NEW l \in Lit, NEW i \in 1..Len(watches'[l]), NEW n \in 1..Len(watches'[l]),
             watches'[l][i].cref = watches'[l][n].cref
      PROVE  i = n
  <2>1. \A k \in 1..Len(watches'[l]) :
           \/ /\ l = l1 /\ k = Len(watches[l1]) + 1 /\ watches'[l][k].cref = cr
           \/ /\ Before(p, l, k) \in 1..Len(watches[l])
              /\ watches'[l][k] = watches[l][Before(p, l, k)]
    BY DEF Goes
  <2>2. \A a, b \in 1..Len(watches[l]) : watches[l][a].cref = watches[l][b].cref => a = b
    BY DEF WatchInv
  <2>3. i \in Nat /\ n \in Nat
    BY <1>1
  <2>4. CASE Before(p, l, i) \in 1..Len(watches[l]) /\ Before(p, l, n) \in 1..Len(watches[l])
             /\ watches'[l][i] = watches[l][Before(p, l, i)] /\ watches'[l][n] = watches[l][Before(p, l, n)]
    <3>1. Before(p, l, i) = Before(p, l, n)
      BY <1>9, <2>2, <2>4
    <3> QED
      BY <1>1, <2>3, <3>1 DEF Before
  <2>5. CASE l = l1 /\ watches'[l][i].cref = cr
    <3>1. ~(/\ Before(p, l, n) \in 1..Len(watches[l])
            /\ watches'[l][n] = watches[l][Before(p, l, n)])
      BY <1>6, <1>9, <2>5
    <3>2. ~(/\ Before(p, l, i) \in 1..Len(watches[l])
            /\ watches'[l][i] = watches[l][Before(p, l, i)])
      BY <1>6, <2>5
    <3> QED
      BY <2>1, <3>1, <3>2
  <2>6. CASE l = l1 /\ watches'[l][n].cref = cr
    <3>1. ~(/\ Before(p, l, n) \in 1..Len(watches[l])
            /\ watches'[l][n] = watches[l][Before(p, l, n)])
      BY <1>6, <2>6
    <3>2. ~(/\ Before(p, l, i) \in 1..Len(watches[l])
            /\ watches'[l][i] = watches[l][Before(p, l, i)])
      BY <1>6, <1>9, <2>6
    <3> QED
      BY <2>1, <3>1, <3>2
  <2> QED
    BY <2>1, <2>4, <2>5, <2>6
<1>10. ASSUME NEW y \in CRef, ca'[y] # NoClause, NEW i \in {1, 2}
       PROVE  \E n \in 1..Len(watches'[-ca'[y].lits[i]]) : watches'[-ca'[y].lits[i]][n].cref = y
  <2>1. ca[y] # NoClause
    BY <1>2, <1>10
  <2>2. \A k \in {1, 2} : \E n \in 1..Len(watches[-ca[y].lits[k]]) : watches[-ca[y].lits[k]][n].cref = y
    BY <2>1 DEF WatchInv
  <2>3. \A l \in Lit : \A o \in 1..Len(watches[l]) : watches[l][o].cref = y /\ (l # p \/ o # w) =>
            \E n \in 1..Len(watches'[l]) : watches'[l][n].cref = y
    BY DEF Goes
  <2>4. CASE y # cr
    <3>1. PICK e : e = -ca[y].lits[i]
      OBVIOUS
    <3>2. \E n \in 1..Len(watches[e]) : watches[e][n].cref = y
      BY <2>2, <3>1
    <3>3. e \in Lit
      <4>1. ca[y].lits \in Seq(Lit) /\ Len(ca[y].lits) >= 2
        BY <2>1 DEF ArenaInv
      <4>2. ca[y].lits[1] \in Lit /\ ca[y].lits[2] \in Lit
        BY <4>1
      <4>3. ca[y].lits[i] \in Lit
        BY <4>2
      <4> QED
        BY <3>1, <4>3, LitFacts
    <3>4. PICK o \in 1..Len(watches[e]) : watches[e][o].cref = y
      BY <3>2
    <3>5. e # p \/ o # w
      BY <1>1, <2>4, <3>4
    <3>6. \E n \in 1..Len(watches'[e]) : watches'[e][n].cref = y
      BY <2>3, <3>3, <3>4, <3>5
    <3>7. -ca'[y].lits[i] = e
      BY <1>2, <2>4, <3>1
    <3> QED
      BY <3>6, <3>7
  <2>5. CASE y = cr /\ i = 1
    <3>1. PICK k \in {1, 2} : c0[k] = c[1]
      BY <1>4
    <3>2. PICK e : e = -c[1]
      OBVIOUS
    <3>3. PICK o \in 1..Len(watches[e]) : watches[e][o].cref = y
      <4>1. -ca[y].lits[k] = e
        BY <1>3, <2>5, <3>1, <3>2
      <4> QED
        BY <2>2, <4>1
    <3>4. \E n \in 1..Len(watches'[e]) : watches'[e][n].cref = y
      BY <1>4, <2>3, <3>2, <3>3
    <3>5. -ca'[y].lits[i] = e
      BY <1>2, <2>5, <3>2
    <3> QED
      BY <3>4, <3>5
  <2>6. CASE y = cr /\ i = 2
    <3>1. -ca'[y].lits[i] = l1
      BY <1>1, <1>2, <2>6
    <3> QED
      BY <2>6, <3>1 DEF Goes
  <2> QED
    BY <2>4, <2>5, <2>6
<1>11. WatchInv'
  <2>1. \A l \in Lit : \A n \in 1..Len(watches'[l]) :
           /\ ca'[watches'[l][n].cref] # NoClause
           /\ -l \in {ca'[watches'[l][n].cref].lits[1], ca'[watches'[l][n].cref].lits[2]}
    BY <1>8
  <2>2. \A l \in Lit : \A i, n \in 1..Len(watches'[l]) :
           watches'[l][i].cref = watches'[l][n].cref => i = n
    BY <1>9
  <2>3. \A y \in CRef : ca'[y] # NoClause => \A i \in {1, 2} :
           \E n \in 1..Len(watches'[-ca'[y].lits[i]]) : watches'[-ca'[y].lits[i]][n].cref = y
    BY <1>10
  <2>4. watches' \in [Lit -> Seq(Watcher)]
    BY <1>1
  <2> QED
    BY <2>1, <2>2, <2>3, <2>4, Zenon DEF WatchInv, Watcher
<1>12. BlockerInv'
  BY <1>8 DEF BlockerInv
<1> QED
  BY <1>11, <1>12

\* After a watcher went to another list, the next one is at its place.
LEMMA GoesVisited ==
    ASSUME TrailInv, WatchInv, ArenaInv, NEW m, NEW d, Moves(m, d), m = Len(trail), NEW p, NEW cr, InHand(p, cr),
           NEW q, NEW l1, Goes(p, cr, q, l1), w' = w, qhead' = qhead, pc = "propagate",
           NEW y \in CRef, y # cr, NEW n \in 1..m, Visited(y, n)'
    PROVE  Visited(y, n)
<1>1. n < qhead /\ trail'[n] = trail[n] /\ n \in 1..Len(trail)
  BY KeptPlaces DEF Visited
<1>2. ASSUME n = qhead - 1, NEW i \in 1..Len(watches[trail[n]]), watches[trail[n]][i].cref = y PROVE i < w
  <2>1. trail[n] = p /\ p \in Lit /\ w' # 0 /\ n = qhead' - 1 /\ w \in Nat /\ watches[p][w].cref = cr
    BY <1>2 DEF InHand
  <2>2. i # w
    BY <1>2, <2>1
  <2>3. PICK k \in 1..Len(watches'[p]) : watches'[p][k] = watches[p][i] /\ i = Before(p, p, k)
    BY <1>2, <2>1, <2>2 DEF Goes
  <2>4. k < w
    BY <1>1, <1>2, <2>1, <2>3 DEF Visited
  <2>5. i = k
    BY <2>1, <2>3, <2>4 DEF Before
  <2> QED
    BY <2>4, <2>5
<1> QED
  BY <1>1, <1>2 DEF Visited

\* The clause in hand is settled after the visit: no false literal is in front of a
\* clause that is not satisfied, but for those that were there before.
LEMMA HandSettled ==
    ASSUME TrailInv, NEW m, NEW d, Moves(m, d), m = Len(trail), trail_lim' = trail_lim,
           NEW p, NEW cr, InHand(p, cr), Settled(cr), qhead' = qhead, pc = "propagate",
           NEW c, Rewritten(cr, c),
           \A i \in {1, 2} : c[i] \in {ca[cr].lits[1], ca[cr].lits[2]} \/ ~False(c[i]),
           \/ \E n \in 1..Len(trail') : trail'[n] \in Set(c)
           \/ \A i \in {1, 2} : c[i] # -p
    PROVE  Settled(cr)'
<1>1. /\ qhead \in Nat /\ qhead - 1 \in 1..Len(trail) /\ trail[qhead - 1] = p /\ p \in Lit
      /\ \A k \in 1..Len(trail_lim) : trail_lim[k] < qhead - 1
      /\ Len(trail) \in Nat /\ \A k \in 1..Len(trail_lim) : trail_lim[k] \in Nat
  BY TrailFacts DEF InHand
<1>2. ca'[cr].lits = c /\ c[1] \in Lit /\ c[2] \in Lit /\ Set(c) = Set(ca[cr].lits)
  BY DEF Rewritten
<1>3. /\ \A n \in 1..m : n \in 1..Len(trail) /\ n \in 1..Len(trail') /\ trail'[n] = trail[n]
      /\ \A n \in 1..Len(trail') : n \in 1..m \/ (n = m + 1 /\ Len(trail') = m + 1)
  BY KeptPlaces
<1>4. ASSUME NEW i \in {1, 2}, NEW n \in 1..Len(trail'), trail'[n] = -c[i], Visited(cr, n)' PROVE Guarded(c, n)'
  <2>1. n < qhead /\ n \in 1..m /\ trail[n] = -c[i] /\ n \in 1..Len(trail)
    <3>1. n < qhead
      BY <1>4 DEF Visited
    <3>2. qhead <= m + 1 /\ m \in Nat
      BY <1>1
    <3>3. n # m + 1
      BY <1>1, <3>1, <3>2
    <3>4. n \in 1..m
      BY <1>3, <3>3
    <3>5. n \in 1..Len(trail) /\ trail'[n] = trail[n]
      BY <1>3, <3>4
    <3> QED
      BY <1>4, <3>1, <3>4, <3>5
  <2>2. CASE n = qhead - 1
    <3>1. c[i] = -p
      BY <1>1, <1>2, <2>1, <2>2, LitFacts
    <3>2. PICK j \in 1..Len(trail') : trail'[j] \in Set(c)
      BY <3>1
    <3>3. \A k \in 1..Len(trail_lim') : ~(n <= trail_lim'[k])
      BY <1>1, <2>1, <2>2
    <3> QED
      BY <3>2, <3>3 DEF Guarded
  <2>3. CASE n # qhead - 1
    <3>1. Visited(cr, n)
      BY <2>1, <2>3 DEF Visited
    <3>2. False(c[i])
      BY <2>1, TrailFacts
    <3>3. PICK j \in {1, 2} : c[i] = ca[cr].lits[j]
      BY <3>2
    <3>4. trail[n] = -ca[cr].lits[j]
      BY <2>1, <3>3
    <3>5. \A k \in 1..Len(trail) : trail[k] \in Set(ca[cr].lits) => trail[k] \in Set(c)
      BY <1>2
    <3>6. cr \in CRef
      BY DEF InHand
    <3> QED
      BY <2>1, <3>1, <3>4, <3>5, <3>6, SettledKept
  <2> QED
    BY <2>2, <2>3
<1> QED
  BY <1>2, <1>4 DEF Settled

\* The other clauses are as settled as before.
LEMMA VisitSettled ==
    ASSUME TrailInv, PropagatedInv, NEW m, NEW d, Moves(m, d), m = Len(trail), qhead' = qhead,
           NEW cr, NEW c, Rewritten(cr, c), ok' = ok,
           \A y \in CRef : \A n \in 1..m : y # cr /\ Visited(y, n)' => Visited(y, n),
           Settled(cr) => Settled(cr)'
    PROVE  PropagatedInv'
<1>1. ASSUME ok, NEW y \in CRef, ca'[y].origin \in {"formula", "learnt"} PROVE Settled(y)'
  <2>1. ca[y].origin \in {"formula", "learnt"}
    BY <1>1 DEF Rewritten
  <2>2. Settled(y)
    BY <1>1, <2>1 DEF PropagatedInv
  <2>3. CASE y = cr
    BY <2>2, <2>3
  <2>4. CASE y # cr
    <3>1. ca'[y] = ca[y]
      BY <2>4 DEF Rewritten
    <3>2. qhead' <= m + 1 /\ qhead' \in Nat
      BY TrailFacts DEF TrailInv
    <3> QED
      BY <2>2, <2>4, <3>1, <3>2, SettledSame
  <2> QED
    BY <2>3, <2>4
<1> QED
  BY <1>1 DEF PropagatedInv

\* What depends on the trail, when a visit leaves it as it is.
LEMMA VisitMove ==
    ASSUME TrailInv, ReasonInv, DecisionInv, AssumeInv, ImpliedInv,
           UNCHANGED <<trail, trail_lim, reason, assumptions, problem>>,
           qhead' \in 1..(Len(trail) + 1),
           \A n \in 1..Len(trail) : reason[abs(trail[n])] # Undef =>
               ca'[reason[abs(trail[n])]] = ca[reason[abs(trail[n])]],
           \A y \in CRef : ca'[y] # NoClause => Implied(Set(ca'[y].lits))
    PROVE  TrailInv' /\ ReasonInv' /\ DecisionInv' /\ AssumeInv' /\ ImpliedInv'
<1>1. Len(trail) \in Nat /\ Len(trail_lim) \in Nat /\ reason \in [Var -> CRef \cup {Undef}]
  BY TrailFacts DEF TrailInv
<1>2. PICK m, d : m = Len(trail) /\ d = Len(trail_lim)
  OBVIOUS
<1>3. Moves(m, d) /\ Len(trail') = m /\ Len(trail_lim') = d
  BY <1>2, MoveNone
<1>4. Len(trail') # m + 1 /\ Len(trail_lim') # d + 1
  BY <1>1, <1>2, <1>3
<1>5. TrailInv'
  BY <1>1, <1>2, <1>3, MoveTrail
<1>6. ReasonInv'
  BY <1>2, <1>3, <1>4, MoveReason
<1>7. DecisionInv'
  BY <1>2, <1>3, <1>4, MoveDecision
<1>8. AssumeInv'
  BY <1>2, <1>3, <1>4, MoveAssume
<1>9. ImpliedInv'
  BY <1>2, <1>3, <1>4, MoveImplied
<1> QED
  BY <1>5, <1>6, <1>7, <1>8, <1>9

\* A visit of the watcher of clause cr in the list for p; c is the clause with the
\* false watch in second place.
Visiting(p, cr, c) ==
    /\ pc = "propagate" /\ InHand(p, cr) /\ Turned(c, ca[cr].lits, p)
    /\ UNCHANGED <<problem, trail_lim, loaded, assumptions, conflict, result, interrupted>>

\* The visit goes on with the same fact.
LEMMA VisitControl ==
    ASSUME TrailInv, ControlInv, NEW p, NEW cr, NEW c, Visiting(p, cr, c),
           UNCHANGED <<ok, qhead, pc>>, w' \in {w, w + 1}
    PROVE  ControlInv' /\ ConflictInv' /\ LearnInv' /\ (VerdictInv => VerdictInv')
<1>1. /\ pc = "propagate" /\ pc' = "propagate" /\ w # 0 /\ w \in Nat /\ w + 1 \in Nat /\ w' \in Nat /\ w' # 0
      /\ problem' = problem /\ loaded' = loaded /\ ok' = ok /\ interrupted' = interrupted
      /\ assumptions' = assumptions /\ result' = result /\ trail_lim' = trail_lim /\ qhead' = qhead
      /\ conflict' = conflict
  BY DEF Visiting, InHand
<1>2. ConflictInv' /\ LearnInv'
  BY <1>1 DEF ConflictInv, LearnInv
<1>3. VerdictInv => VerdictInv'
  BY <1>1, VerdictSame
<1>4. ControlInv'
  <2>1. Len(trail_lim) > 0 => trail_lim[Len(trail_lim)] < qhead - 1
    BY <1>1 DEF ControlInv
  <2>2. Len(trail_lim') > 0 => trail_lim'[Len(trail_lim')] < (IF w' = 0 THEN qhead' ELSE qhead' - 1)
    BY <1>1, <2>1
  <2> QED
    BY <1>1, <2>2 DEF ControlInv, searching, Location
<1> QED
  BY <1>2, <1>3, <1>4

\* The blocker is true.
LEMMA VisitBlocked ==
    ASSUME IInv, NEW p, NEW cr, NEW c, Visiting(p, cr, c), True(watches[p][w].blocker), w' = w + 1,
           UNCHANGED <<clauseVars, trail, reason, qhead, ok, pc>>
    PROVE  IInv'
<1>1. /\ TrailInv /\ ControlInv /\ ArenaInv /\ WatchInv /\ BlockerInv /\ ReasonInv /\ DecisionInv
      /\ AssumeInv /\ ImpliedInv /\ PropagatedInv /\ LoadedInv /\ VerdictInv
  BY DEF IInv
<1>2. /\ InHand(p, cr) /\ pc = "propagate" /\ cr \in CRef /\ ca[cr] # NoClause
      /\ ca' = ca /\ watches' = watches /\ trail' = trail /\ trail_lim' = trail_lim /\ qhead' = qhead
      /\ reason' = reason /\ problem' = problem /\ loaded' = loaded /\ assumptions' = assumptions /\ ok' = ok
  BY DEF Visiting, clauseVars, InHand
<1>3. PICK m, d : m = Len(trail) /\ d = Len(trail_lim)
  OBVIOUS
<1>4. Moves(m, d) /\ Len(trail') = m
  BY <1>1, <1>2, <1>3, MoveNone
<1>5. ControlInv' /\ ConflictInv' /\ LearnInv' /\ VerdictInv'
  BY <1>1, VisitControl
<1>6. Rewritten(cr, ca[cr].lits)
  BY <1>1, <1>2, RewrittenSame
<1>7. ArenaInv' /\ LoadedInv' /\ \A y \in CRef : ca'[y] # NoClause => Implied(Set(ca'[y].lits))
  BY <1>1, <1>2, <1>4, <1>6, RewrittenRest
<1>8. WatchInv' /\ BlockerInv'
  BY <1>1, <1>2, <1>4, SameClauses, MoveBlockers
<1>9. TrailInv' /\ ReasonInv' /\ DecisionInv' /\ AssumeInv' /\ ImpliedInv'
  BY <1>1, <1>2, <1>7, VisitMove DEF TrailInv
<1>10. PropagatedInv'
  <2>1. \A y \in CRef : \A n \in 1..m : y # cr /\ Visited(y, n)' => Visited(y, n)
    BY <1>1, <1>2, <1>3, <1>4, StaysVisited
  <2>2. \E n \in 1..Len(trail') : trail'[n] \in Set(ca[cr].lits)
    <3>1. p \in Lit /\ w \in 1..Len(watches[p]) /\ watches[p][w].cref = cr
      BY <1>2 DEF InHand
    <3>2. Blocks(watches[p][w])
      BY <1>1, <3>1 DEF BlockerInv
    <3>3. PICK q : q = watches[p][w].blocker
      OBVIOUS
    <3>4. q \in Lit
      BY <1>1, <3>1, <3>3, WatcherFacts
    <3>5. PICK n \in 1..Len(trail) : trail[n] = q
      BY <1>1, <3>3, TrailFacts
    <3>6. ASSUME NEW j \in 1..Len(trail), trail[j] = -q PROVE FALSE
      <4>1. trail[n] = -trail[j]
        BY <3>4, <3>5, <3>6, LitFacts
      <4>2. j = n
        BY <1>1, <4>1, TrailFacts
      <4> QED
        BY <3>4, <3>5, <3>6, <4>2, LitFacts
    <3>7. q \in Set(ca[cr].lits)
      BY <3>1, <3>2, <3>3, <3>6 DEF Blocks
    <3> QED
      BY <1>2, <3>5, <3>7
  <2>3. Settled(cr) => Settled(cr)'
    BY <1>1, <1>2, <1>3, <1>4, <1>6, <2>2, HandSettled
  <2> QED
    BY <1>1, <1>2, <1>3, <1>4, <1>6, <2>1, <2>3, VisitSettled
<1> QED
  BY <1>5, <1>7, <1>8, <1>9, <1>10 DEF IInv

\* What a visit does that leaves the watch in its list.
LEMMA VisitStays ==
    ASSUME IInv, NEW p, NEW cr, NEW c, Visiting(p, cr, c), Rewritten(cr, c), Stays(p, cr, c[1]),
           NEW m, NEW d, Moves(m, d), m = Len(trail), ok' => ok
    PROVE  /\ ArenaInv' /\ LoadedInv' /\ WatchInv' /\ BlockerInv'
           /\ \A y \in CRef : ca'[y] # NoClause => Implied(Set(ca'[y].lits))
           /\ \A n \in 1..Len(trail) : reason[abs(trail[n])] # Undef =>
                 ca'[reason[abs(trail[n])]] = ca[reason[abs(trail[n])]]
           /\ \A i \in {1, 2} : c[i] \in {ca[cr].lits[1], ca[cr].lits[2]}
<1>1. /\ TrailInv /\ ControlInv /\ ArenaInv /\ WatchInv /\ BlockerInv /\ ReasonInv
      /\ ImpliedInv /\ LoadedInv
  BY DEF IInv
<1>2. InHand(p, cr) /\ Turned(c, ca[cr].lits, p) /\ problem' = problem /\ loaded' = loaded
  BY DEF Visiting
<1>3. ArenaInv' /\ LoadedInv' /\ \A y \in CRef : ca'[y] # NoClause => Implied(Set(ca'[y].lits))
  BY <1>1, <1>2, RewrittenRest
<1>4. /\ ca[cr].lits[1] \in {c[1], c[2]} /\ ca[cr].lits[2] \in {c[1], c[2]}
      /\ c[1] \in {ca[cr].lits[1], ca[cr].lits[2]} /\ c[2] \in {ca[cr].lits[1], ca[cr].lits[2]}
      /\ c \in Seq(Lit) /\ Len(c) >= 2
  BY <1>2 DEF Turned
<1>5. c[1] \in Set(c)
  <2>1. 1 \in 1..Len(c)
    BY <1>4
  <2> QED
    BY <1>4, <2>1, SetOf
<1>6. WatchInv' /\ BlockerInv'
  BY <1>1, <1>2, <1>4, <1>5, StaysWatched
<1>7. \A n \in 1..Len(trail) : reason[abs(trail[n])] # Undef =>
          ca'[reason[abs(trail[n])]] = ca[reason[abs(trail[n])]]
  BY <1>1, <1>2, RewrittenReasons
<1> QED
  BY <1>3, <1>4, <1>6, <1>7

\* The other watch is true.
LEMMA VisitTrue ==
    ASSUME IInv, NEW p, NEW cr, NEW c, Visiting(p, cr, c), True(c[1]), Rewritten(cr, c), Stays(p, cr, c[1]),
           w' = w + 1, UNCHANGED <<trail, reason, qhead, ok, pc>>
    PROVE  IInv'
<1>1. /\ TrailInv /\ ControlInv /\ ArenaInv /\ WatchInv /\ BlockerInv /\ ReasonInv /\ DecisionInv
      /\ AssumeInv /\ ImpliedInv /\ PropagatedInv /\ LoadedInv /\ VerdictInv
  BY DEF IInv
<1>2. /\ InHand(p, cr) /\ pc = "propagate" /\ Turned(c, ca[cr].lits, p)
      /\ trail' = trail /\ trail_lim' = trail_lim /\ qhead' = qhead
      /\ reason' = reason /\ problem' = problem /\ assumptions' = assumptions /\ ok' = ok
  BY DEF Visiting
<1>3. PICK m, d : m = Len(trail) /\ d = Len(trail_lim)
  OBVIOUS
<1>4. Moves(m, d) /\ Len(trail') = m
  BY <1>1, <1>2, <1>3, MoveNone
<1>5. ControlInv' /\ ConflictInv' /\ LearnInv' /\ VerdictInv'
  BY <1>1, VisitControl
<1>6. /\ ArenaInv' /\ LoadedInv' /\ WatchInv' /\ BlockerInv'
      /\ \A y \in CRef : ca'[y] # NoClause => Implied(Set(ca'[y].lits))
      /\ \A n \in 1..Len(trail) : reason[abs(trail[n])] # Undef =>
            ca'[reason[abs(trail[n])]] = ca[reason[abs(trail[n])]]
      /\ \A i \in {1, 2} : c[i] \in {ca[cr].lits[1], ca[cr].lits[2]}
  BY <1>2, <1>3, <1>4, VisitStays
<1>7. TrailInv' /\ ReasonInv' /\ DecisionInv' /\ AssumeInv' /\ ImpliedInv'
  BY <1>1, <1>2, <1>6, VisitMove DEF TrailInv
<1>8. PropagatedInv'
  <2>1. \A y \in CRef : \A n \in 1..m : y # cr /\ Visited(y, n)' => Visited(y, n)
    BY <1>1, <1>2, <1>3, <1>4, StaysVisited DEF Stays
  <2>2. \E n \in 1..Len(trail') : trail'[n] \in Set(c)
    <3>1. PICK n \in 1..Len(trail) : trail[n] = c[1]
      BY <1>1, TrailFacts
    <3>2. c[1] \in Set(c)
      <4>1. c \in Seq(Lit) /\ 1 \in 1..Len(c)
        BY <1>2 DEF Turned
      <4> QED
        BY <4>1, SetOf
    <3> QED
      BY <1>2, <3>1, <3>2
  <2>3. Settled(cr) => Settled(cr)'
    BY <1>1, <1>2, <1>3, <1>4, <1>6, <2>2, HandSettled
  <2> QED
    BY <1>1, <1>2, <1>3, <1>4, <2>1, <2>3, VisitSettled
<1> QED
  BY <1>5, <1>6, <1>7, <1>8 DEF IInv

\* The watch moves to a literal that is not false.
LEMMA VisitMoves ==
    ASSUME IInv, NEW p, NEW cr, NEW c, Visiting(p, cr, c), ~True(c[1]), NEW k \in 3..Len(c), ~False(c[k]),
           NEW c1, Rewritten(cr, c1), c1[1] = c[1], c1[2] = c[k], NEW l1, l1 = -c[k], Goes(p, cr, c[1], l1),
           w' = w, UNCHANGED <<trail, reason, qhead, ok, pc>>
    PROVE  IInv'
<1>1. /\ TrailInv /\ ControlInv /\ ArenaInv /\ WatchInv /\ BlockerInv /\ ReasonInv /\ DecisionInv
      /\ AssumeInv /\ ImpliedInv /\ PropagatedInv /\ LoadedInv /\ VerdictInv
  BY DEF IInv
<1>2. /\ InHand(p, cr) /\ pc = "propagate" /\ Turned(c, ca[cr].lits, p) /\ loaded' = loaded
      /\ trail' = trail /\ trail_lim' = trail_lim /\ qhead' = qhead
      /\ reason' = reason /\ problem' = problem /\ assumptions' = assumptions /\ ok' = ok
  BY DEF Visiting
<1>3. PICK m, d : m = Len(trail) /\ d = Len(trail_lim)
  OBVIOUS
<1>4. Moves(m, d) /\ Len(trail') = m
  BY <1>1, <1>2, <1>3, MoveNone
<1>5. ControlInv' /\ ConflictInv' /\ LearnInv' /\ VerdictInv'
  BY <1>1, VisitControl
<1>6. /\ ArenaInv' /\ LoadedInv'
      /\ \A y \in CRef : ca'[y] # NoClause => Implied(Set(ca'[y].lits))
  BY <1>1, <1>2, <1>4, RewrittenRest
<1>7. \A n \in 1..Len(trail) : reason[abs(trail[n])] # Undef =>
          ca'[reason[abs(trail[n])]] = ca[reason[abs(trail[n])]]
  BY <1>1, <1>2, RewrittenReasons
<1>8. c[1] \in Lit /\ c[2] \in Lit /\ c[k] \in Lit /\ c[k] # c[1] /\ c[k] # c[2] /\ c[2] = -p /\ c[1] # -p
  <2>1. c \in Seq(Lit) /\ 1 \in 1..Len(c) /\ 2 \in 1..Len(c) /\ k \in 1..Len(c) /\ k # 1 /\ k # 2
    BY <1>2 DEF Turned
  <2> QED
    BY <1>2, <2>1 DEF Turned, NoRepeat
<1>9. -l1 = c[k] /\ c[1] \in Set(c1)
  <2>1. c1 \in Seq(Lit) /\ 1 \in 1..Len(c1)
    BY DEF Rewritten
  <2>2. c1[1] \in Set(c1)
    BY <2>1, SetOf
  <2> QED
    BY <1>8, <2>2, LitFacts
<1>10. WatchInv' /\ BlockerInv'
  BY <1>1, <1>2, <1>4, <1>8, <1>9, GoesWatched
<1>11. TrailInv' /\ ReasonInv' /\ DecisionInv' /\ AssumeInv' /\ ImpliedInv'
  BY <1>1, <1>2, <1>6, <1>7, VisitMove DEF TrailInv
<1>12. PropagatedInv'
  <2>1. \A y \in CRef : \A n \in 1..m : y # cr /\ Visited(y, n)' => Visited(y, n)
    BY <1>1, <1>2, <1>3, <1>4, GoesVisited
  <2>2. \A i \in {1, 2} : c1[i] # -p
    BY <1>8
  <2>3. \A i \in {1, 2} : c1[i] \in {ca[cr].lits[1], ca[cr].lits[2]} \/ ~False(c1[i])
    BY <1>2 DEF Turned
  <2>4. Settled(cr) => Settled(cr)'
    BY <1>1, <1>2, <1>3, <1>4, <2>2, <2>3, HandSettled
  <2> QED
    BY <1>1, <1>2, <1>3, <1>4, <2>1, <2>4, VisitSettled
<1> QED
  BY <1>5, <1>6, <1>10, <1>11, <1>12 DEF IInv

\* All literals of the clause in hand but the first are false.
LEMMA OthersFalse ==
    ASSUME TrailInv, NEW p, NEW cr, InHand(p, cr), NEW c, Turned(c, ca[cr].lits, p),
           \A k \in 3..Len(c) : False(c[k]), NEW k \in 2..Len(c)
    PROVE  \E n \in 1..Len(trail) : trail[n] = -c[k]
<1>1. CASE k = 2
  <2>1. qhead - 1 \in 1..Len(trail) /\ trail[qhead - 1] = p /\ p \in Lit /\ c[2] = -p
    BY DEF InHand, Turned
  <2>2. trail[qhead - 1] = -c[2]
    BY <2>1, LitFacts
  <2> QED
    BY <1>1, <2>1, <2>2
<1>2. CASE k # 2
  <2>1. k \in 3..Len(c)
    BY <1>2 DEF Turned
  <2> QED
    BY <2>1, TrailFacts
<1> QED
  BY <1>1, <1>2

\* At level 0 a unit follows from the formula, and no model leaves a clause false.
LEMMA UnitImplied ==
    ASSUME TrailInv, ImpliedInv, problem \in Problems, trail_lim = <<>>, NEW c \in Seq(Lit), Implied(Set(c)),
           \A k \in 2..Len(c) : \E n \in 1..Len(trail) : trail[n] = -c[k]
    PROVE  /\ Implied({c[1]})
           /\ Len(c) >= 1 /\ (\E n \in 1..Len(trail) : trail[n] = -c[1]) => Models = {}
<1>1. \A n : AtRoot(n)
  BY DEF AtRoot, decisionLevel
<1>2. ASSUME NEW a \in Models, NEW k \in 1..Len(c), \E n \in 1..Len(trail) : trail[n] = -c[k]
      PROVE  ~Holds(a, c[k])
  <2>1. PICK n \in 1..Len(trail) : trail[n] = -c[k]
    BY <1>2
  <2>2. Satisfies(a, {-c[k]})
    BY <1>1, <2>1 DEF ImpliedInv, Implied
  <2>3. Holds(a, -c[k])
    BY <2>2 DEF Satisfies
  <2>4. a \in Assignments
    BY ModelFacts
  <2>5. c[k] \in Lit
    OBVIOUS
  <2> QED
    BY <2>3, <2>4, <2>5, HoldsNot
<1>3. ASSUME NEW a \in Models PROVE Holds(a, c[1]) /\ 1 \in 1..Len(c)
  <2>1. PICK l \in Set(c) : Holds(a, l)
    BY DEF Implied, Satisfies
  <2>2. PICK k \in 1..Len(c) : c[k] = l
    BY SetOf
  <2>3. k \notin 2..Len(c)
    BY <1>2, <2>1, <2>2
  <2>4. k = 1
    BY <2>3
  <2> QED
    BY <2>1, <2>2, <2>4
<1>4. Implied({c[1]})
  BY <1>3 DEF Implied, Satisfies
<1>5. ASSUME \E n \in 1..Len(trail) : trail[n] = -c[1] PROVE Models = {}
  <2> SUFFICES ASSUME NEW a \in Models PROVE FALSE
    OBVIOUS
  <2> QED
    BY <1>2, <1>3, <1>5
<1> QED
  BY <1>4, <1>5

\* The clause is unit.
LEMMA VisitUnit ==
    ASSUME IInv, NEW p, NEW cr, NEW c, Visiting(p, cr, c), ~True(c[1]), ~False(c[1]),
           \A k \in 3..Len(c) : False(c[k]), Rewritten(cr, c), Stays(p, cr, c[1]),
           uncheckedEnqueue(c[1], cr), w' = w + 1, UNCHANGED <<qhead, ok, pc>>
    PROVE  IInv'
<1>1. /\ TrailInv /\ ControlInv /\ ArenaInv /\ WatchInv /\ BlockerInv /\ ReasonInv /\ DecisionInv
      /\ AssumeInv /\ ImpliedInv /\ PropagatedInv /\ LoadedInv /\ VerdictInv /\ problem \in Problems
  BY DEF IInv, ControlInv
<1>2. /\ InHand(p, cr) /\ pc = "propagate" /\ Turned(c, ca[cr].lits, p)
      /\ trail' = Append(trail, c[1]) /\ trail_lim' = trail_lim /\ qhead' = qhead
      /\ reason' = [reason EXCEPT ![abs(c[1])] = cr]
      /\ problem' = problem /\ assumptions' = assumptions /\ ok' = ok
  BY DEF Visiting, uncheckedEnqueue
<1>3. PICK m, d : m = Len(trail) /\ d = Len(trail_lim)
  OBVIOUS
<1>4. /\ c \in Seq(Lit) /\ c[1] \in Lit /\ Len(c) >= 2 /\ Len(c) \in Nat /\ abs(c[1]) \in Var
      /\ cr \in CRef /\ cr # Undef /\ ca[cr] # NoClause /\ Set(c) = Set(ca[cr].lits)
  BY <1>2, LitFacts DEF Turned, InHand
<1>5. Moves(m, d) /\ Len(trail') = m + 1 /\ trail'[m + 1] = c[1] /\ m \in Nat /\ d \in Nat /\ Len(trail_lim') # d + 1
  <2>1. Moves(m, d) /\ Len(trail') = m + 1 /\ trail'[m + 1] = c[1]
    BY <1>1, <1>2, <1>3, <1>4, MoveEnqueue
  <2>2. m \in Nat /\ d \in Nat
    BY <1>1, <1>3, TrailFacts
  <2> QED
    BY <1>2, <1>3, <2>1, <2>2
<1>6. ControlInv' /\ ConflictInv' /\ LearnInv' /\ VerdictInv'
  BY <1>1, VisitControl
<1>7. /\ ArenaInv' /\ LoadedInv' /\ WatchInv' /\ BlockerInv'
      /\ \A y \in CRef : ca'[y] # NoClause => Implied(Set(ca'[y].lits))
      /\ \A n \in 1..Len(trail) : reason[abs(trail[n])] # Undef =>
            ca'[reason[abs(trail[n])]] = ca[reason[abs(trail[n])]]
      /\ \A i \in {1, 2} : c[i] \in {ca[cr].lits[1], ca[cr].lits[2]}
  BY <1>2, <1>3, <1>5, VisitStays
<1>8. /\ \A n \in 1..m : n \in 1..Len(trail) /\ n \in 1..Len(trail') /\ trail'[n] = trail[n]
      /\ \A n \in 1..m : abs(c[1]) # abs(trail[n]) /\ abs(trail[n]) \in Var
  BY <1>1, <1>5, KeptPlaces, TrailFacts, SMTT(40) DEF Moves
<1>9. /\ \A n \in 1..m : reason'[abs(trail[n])] = reason[abs(trail[n])]
      /\ reason'[abs(c[1])] = cr /\ reason' \in [Var -> CRef \cup {Undef}]
  <2>1. reason \in [Var -> CRef \cup {Undef}]
    BY <1>1 DEF TrailInv
  <2> QED
    BY <1>2, <1>4, <1>8, <2>1
<1>10. TrailInv'
  <2>1. qhead' \in 1..(Len(trail') + 1)
    BY <1>1, <1>2, <1>3, <1>5 DEF TrailInv
  <2> QED
    BY <1>1, <1>5, <1>9, <2>1, MoveTrail
<1>11. ReasonInv'
  <2>1. HasReason(m + 1)'
    <3>1. ca'[cr] # NoClause /\ ca'[cr].lits = c
      BY DEF Rewritten
    <3>2. ASSUME NEW k \in 2..Len(c) PROVE \E n \in 1..m : trail'[n] = -c[k]
      <4>1. PICK n \in 1..Len(trail) : trail[n] = -c[k]
        BY <1>1, <1>2, OthersFalse
      <4> QED
        BY <1>3, <1>8, <4>1
    <3>3. reason'[abs(trail'[m + 1])] = cr /\ m + 1 - 1 = m
      BY <1>5, <1>9
    <3>4. /\ ca'[reason'[abs(trail'[m + 1])]] # NoClause
          /\ ca'[reason'[abs(trail'[m + 1])]].lits = c
          /\ trail'[m + 1] = c[1]
      BY <1>5, <3>1, <3>3
    <3>5. ASSUME NEW k \in 2..Len(c) PROVE \E n \in 1..((m + 1) - 1) : trail'[n] = -c[k]
      <4>1. PICK n \in 1..m : trail'[n] = -c[k]
        BY <3>2
      <4>2. n \in 1..((m + 1) - 1)
        BY <1>5
      <4> QED
        BY <4>1, <4>2
    <3> QED
      BY <3>4, <3>5, Zenon DEF HasReason
  <2> QED
    BY <1>1, <1>3, <1>5, <1>7, <1>9, <2>1, MoveReason
<1>12. DecisionInv'
  <2>1. reason'[abs(trail'[m + 1])] # Undef
    BY <1>4, <1>5, <1>9
  <2> QED
    BY <1>1, <1>2, <1>5, <1>9, <2>1, MoveDecision
<1>13. AssumeInv'
  BY <1>1, <1>2, <1>5, MoveAssume
<1>14. ImpliedInv'
  <2>1. ASSUME AtRoot(m + 1)' PROVE Implied({trail'[m + 1]})
    <3>1. Len(trail_lim) = 0
      <4>1. Len(trail_lim) > 0 => m + 1 <= trail_lim[1]
        BY <1>2, <2>1 DEF AtRoot, decisionLevel
      <4>2. Len(trail_lim) > 0 => trail_lim[1] \in Nat /\ trail_lim[1] <= m
        <5>1. Len(trail_lim) > 0 => 1 \in 1..Len(trail_lim)
          BY <1>3, <1>5
        <5> QED
          BY <1>1, <1>3, <5>1, TrailFacts
      <4> QED
        BY <1>3, <1>5, <4>1, <4>2
    <3>2. trail_lim = <<>>
      <4>1. trail_lim \in Seq(Nat)
        BY <1>1 DEF TrailInv
      <4> QED
        BY <3>1, <4>1
    <3>3. Implied(Set(c))
      BY <1>1, <1>4 DEF ImpliedInv
    <3>4. \A k \in 2..Len(c) : \E n \in 1..Len(trail) : trail[n] = -c[k]
      BY <1>1, <1>2, OthersFalse
    <3>5. Implied({c[1]})
      BY <1>1, <1>4, <3>2, <3>3, <3>4, UnitImplied
    <3> QED
      BY <1>5, <3>5
  <2> QED
    BY <1>1, <1>2, <1>5, <1>7, <2>1, MoveImplied
<1>15. PropagatedInv'
  <2>1. \A y \in CRef : \A n \in 1..m : y # cr /\ Visited(y, n)' => Visited(y, n)
    BY <1>1, <1>2, <1>3, <1>5, StaysVisited, SMTT(40) DEF Stays
  <2>2. \E n \in 1..Len(trail') : trail'[n] \in Set(c)
    <3>1. c[1] \in Set(c)
      <4>1. c \in Seq(Lit) /\ 1 \in 1..Len(c)
        BY <1>4
      <4> QED
        BY <4>1, SetOf
    <3>2. m + 1 \in 1..Len(trail')
      BY <1>5
    <3> QED
      BY <1>5, <3>1, <3>2
  <2>3. Settled(cr) => Settled(cr)'
    BY <1>1, <1>2, <1>3, <1>5, <1>7, <2>2, HandSettled
  <2> QED
    BY <1>1, <1>2, <1>3, <1>5, <2>1, <2>3, VisitSettled
<1> QED
  BY <1>6, <1>7, <1>10, <1>11, <1>12, <1>13, <1>14, <1>15 DEF IInv

\* The clause is in conflict.
LEMMA VisitConflict ==
    ASSUME IInv, NEW p, NEW cr, NEW c, Visiting(p, cr, c), False(c[1]),
           \A k \in 3..Len(c) : False(c[k]), Rewritten(cr, c), Stays(p, cr, c[1]),
           UNCHANGED <<trail, reason>>, confl' = cr, qhead' = Len(trail) + 1, w' = 0,
           pc' = (IF searching THEN "conflict" ELSE "idle"), ok' = (ok /\ searching)
    PROVE  IInv'
<1>1. /\ TrailInv /\ ControlInv /\ ArenaInv /\ WatchInv /\ BlockerInv /\ ReasonInv /\ DecisionInv
      /\ AssumeInv /\ ImpliedInv /\ PropagatedInv /\ LoadedInv /\ VerdictInv /\ problem \in Problems
  BY DEF IInv, ControlInv
<1>2. /\ InHand(p, cr) /\ pc = "propagate" /\ Turned(c, ca[cr].lits, p)
      /\ trail' = trail /\ trail_lim' = trail_lim /\ loaded' = loaded /\ interrupted' = interrupted
      /\ reason' = reason /\ problem' = problem /\ assumptions' = assumptions
      /\ result' = result /\ conflict' = conflict
  BY DEF Visiting
<1>3. PICK m, d : m = Len(trail) /\ d = Len(trail_lim)
  OBVIOUS
<1>4. Moves(m, d) /\ Len(trail') = m
  BY <1>1, <1>2, <1>3, MoveNone
<1>5. /\ ArenaInv' /\ LoadedInv' /\ WatchInv' /\ BlockerInv'
      /\ \A y \in CRef : ca'[y] # NoClause => Implied(Set(ca'[y].lits))
      /\ \A n \in 1..Len(trail) : reason[abs(trail[n])] # Undef =>
            ca'[reason[abs(trail[n])]] = ca[reason[abs(trail[n])]]
      /\ \A i \in {1, 2} : c[i] \in {ca[cr].lits[1], ca[cr].lits[2]}
  <2>1. ok' => ok
    OBVIOUS
  <2> QED
    BY <1>2, <1>3, <1>4, <2>1, VisitStays
<1>6. /\ Len(trail) \in Nat /\ Len(trail_lim) \in Nat /\ qhead \in Nat /\ qhead - 1 \in 1..Len(trail)
      /\ trail[qhead - 1] = p /\ -(-p) = p /\ c[2] = -p
      /\ \A k \in 1..Len(trail_lim) : trail_lim[k] < qhead - 1 /\ trail_lim[k] \in Nat
      /\ cr \in CRef /\ c \in Seq(Lit) /\ Len(c) >= 2 /\ Len(c) \in Nat /\ Set(c) = Set(ca[cr].lits)
      /\ ca[cr] # NoClause /\ ca'[cr] # NoClause /\ ca'[cr].lits = c
  BY <1>1, <1>2, TrailFacts, LitFacts DEF InHand, Turned, Rewritten
<1>7. qhead' \in 1..(Len(trail) + 1)
  BY <1>6
<1>8. TrailInv' /\ ReasonInv' /\ DecisionInv' /\ AssumeInv' /\ ImpliedInv'
  BY <1>1, <1>2, <1>5, <1>7, VisitMove
<1>9. \A k \in 1..Len(c) : \E n \in 1..Len(trail) : trail[n] = -c[k]
  <2>1. \A k \in 2..Len(c) : \E n \in 1..Len(trail) : trail[n] = -c[k]
    BY <1>1, <1>2, OthersFalse
  <2>2. \E n \in 1..Len(trail) : trail[n] = -c[1]
    BY <1>1, TrailFacts
  <2> QED
    BY <1>6, <2>1, <2>2, SMTT(40)
<1>10. ok /\ ok' = searching /\ searching' = searching
  <2>1. ok
    BY <1>1, <1>2 DEF ControlInv
  <2> QED
    BY <1>2, <2>1 DEF searching
<1>11. CASE searching
  <2>1. pc' = "conflict" /\ ok' = ok
    BY <1>10, <1>11
  <2>2. VerdictInv'
    BY <1>1, <1>2, <2>1, VerdictSame
  <2>3. LearnInv'
    BY <2>1 DEF LearnInv
  <2>4. ConflictInv'
    <3>1. Len(trail_lim) > 0 => 2 \in 1..Len(c) /\ trail[qhead - 1] = -c[2] /\ trail_lim[Len(trail_lim)] < qhead - 1
      <4>1. Len(trail_lim) > 0 => Len(trail_lim) \in 1..Len(trail_lim)
        BY <1>6
      <4> QED
        BY <1>6, <4>1
    <3>2. Len(trail_lim) > 0 =>
              \E k \in 1..Len(c), n \in 1..Len(trail) : trail[n] = -c[k] /\ trail_lim[Len(trail_lim)] < n
      BY <1>6, <3>1
    <3> QED
      BY <1>2, <1>6, <1>9, <3>2 DEF ConflictInv
  <2>5. PropagatedInv'
    <3> SUFFICES ASSUME NEW y \in CRef, ca'[y].origin \in {"formula", "learnt"} PROVE Settled(y)'
      BY DEF PropagatedInv
    <3>1. ca[y].origin \in {"formula", "learnt"} /\ Set(ca'[y].lits) = Set(ca[y].lits)
      BY DEF Rewritten
    <3>2. Settled(y)
      BY <1>1, <1>10, <3>1 DEF PropagatedInv
    <3>3. PICK e : e = ca'[y].lits
      OBVIOUS
    <3>4. \A i \in {1, 2} : e[i] \in {ca[y].lits[1], ca[y].lits[2]}
      <4>1. CASE y = cr
        BY <1>5, <1>6, <3>3, <4>1
      <4>2. CASE y # cr
        BY <3>3, <4>2 DEF Rewritten
      <4> QED
        BY <4>1, <4>2
    <3>5. ASSUME NEW i \in {1, 2}, NEW n \in 1..Len(trail), trail[n] = -e[i], Visited(y, n)'
          PROVE  Guarded(e, n)'
      <4>1. Len(trail_lim) > 0 /\ n <= trail_lim[Len(trail_lim)]
        BY <1>2, <2>1, <3>5 DEF Visited
      <4>2. n < qhead - 1
        <5>1. Len(trail_lim) \in 1..Len(trail_lim)
          BY <1>6, <4>1
        <5> QED
          BY <1>6, <4>1, <5>1, SMTT(40)
      <4>3. Visited(y, n)
        BY <1>2, <1>6, <4>2 DEF Visited
      <4>4. PICK j \in {1, 2} : e[i] = ca[y].lits[j]
        BY <3>4
      <4>5. trail[n] = -ca[y].lits[j] /\ n \in 1..m
        BY <1>3, <3>5, <4>4
      <4>6. \A k \in 1..Len(trail) : trail[k] \in Set(ca[y].lits) => trail[k] \in Set(e)
        BY <3>1, <3>3
      <4> QED
        BY <1>1, <1>4, <3>2, <4>3, <4>5, <4>6, SettledKept
    <3> QED
      BY <1>2, <3>3, <3>5 DEF Settled
  <2>6. ControlInv'
    <3>1. Len(trail_lim') > 0 => trail_lim'[Len(trail_lim')] < (IF w' = 0 THEN qhead' ELSE qhead' - 1)
      <4>1. Len(trail_lim) > 0 => trail_lim[Len(trail_lim)] \in Nat /\ trail_lim[Len(trail_lim)] < Len(trail) + 1
        <5>1. Len(trail_lim) > 0 => Len(trail_lim) \in 1..Len(trail_lim)
          BY <1>6
        <5> QED
          BY <1>6, <5>1
      <4> QED
        BY <1>2, <4>1
    <3>2. w' = 0 /\ w' \in Nat /\ ok' /\ ok' \in BOOLEAN
      BY <1>10, <1>11
    <3>3. /\ problem' = problem /\ loaded' = loaded /\ interrupted' = interrupted
          /\ assumptions' = assumptions /\ result' = result /\ trail_lim' = trail_lim
      BY <1>2
    <3> QED
      BY <1>1, <1>11, <2>1, <3>1, <3>2, <3>3 DEF ControlInv, searching, Location
  <2> QED
    BY <1>5, <1>8, <2>2, <2>3, <2>4, <2>5, <2>6 DEF IInv
<1>12. CASE ~searching
  <2>1. pc' = "idle" /\ ok' = FALSE /\ w' = 0 /\ trail_lim = <<>>
    BY <1>1, <1>10, <1>12 DEF ControlInv
  <2>2. ConflictInv' /\ LearnInv' /\ PropagatedInv'
    BY <2>1 DEF ConflictInv, LearnInv, PropagatedInv
  <2>3. Models = {}
    <3>1. Implied(Set(c))
      BY <1>1, <1>6 DEF ImpliedInv
    <3>2. \A k \in 2..Len(c) : \E n \in 1..Len(trail) : trail[n] = -c[k]
      BY <1>6, <1>9
    <3>3. Len(c) >= 1 /\ \E n \in 1..Len(trail) : trail[n] = -c[1]
      BY <1>6, <1>9
    <3> QED
      BY <1>1, <1>6, <2>1, <3>1, <3>2, <3>3, UnitImplied
  <2>4. VerdictInv'
    <3>1. Models' = Models /\ \A C : Implied(C)' <=> Implied(C)
      BY <1>2, ImpliedSame
    <3> QED
      BY <1>1, <1>2, <2>3, <3>1 DEF VerdictInv
  <2>5. ControlInv'
    <3>1. trail_lim' = <<>> /\ Len(trail_lim') = 0
      BY <1>2, <2>1
    <3>2. /\ problem' = problem /\ loaded' = loaded /\ interrupted' = interrupted
          /\ assumptions' = assumptions /\ result' = result
      BY <1>2
    <3>3. w' \in Nat /\ w' = 0 /\ ok' \in BOOLEAN
      BY <2>1
    <3> QED
      BY <1>1, <1>12, <2>1, <3>1, <3>2, <3>3 DEF ControlInv, searching, Location
  <2> QED
    BY <1>5, <1>8, <2>2, <2>4, <2>5 DEF IInv
<1> QED
  BY <1>11, <1>12

\* One watcher is visited (the inner loop of propagate).
LEMMA VisitWatchKeeps ==
    ASSUME IInv, visitWatch
    PROVE  IInv'
<1>1. TrailInv /\ ControlInv /\ ArenaInv /\ WatchInv
  BY SMTT(40) DEF IInv
<1> DEFINE p == trail[qhead - 1]
           cr == watches[p][w].cref
           c0 == ca[cr].lits
           c == IF c0[1] = -p THEN [c0 EXCEPT ![1] = c0[2], ![2] = -p] ELSE c0
           k0 == Min({k \in 3..Len(c) : ~False(c[k])})
<1>6. /\ pc = "propagate" /\ ~factDone
      /\ UNCHANGED <<problem, trail_lim, loaded, assumptions, conflict, result, interrupted>>
  BY DEF visitWatch, callVars
<1>7. \/ /\ True(watches[p][w].blocker) /\ w' = w + 1
         /\ UNCHANGED <<clauseVars, trail, reason, qhead, ok, confl, pc>>
      \/ /\ True(c[1])
         /\ ca' = [ca EXCEPT ![cr].lits = c]
         /\ watches' = [watches EXCEPT ![p][w] = [cref |-> cr, blocker |-> c[1]]]
         /\ w' = w + 1 /\ UNCHANGED <<trail, reason, qhead, ok, confl, pc>>
      \/ /\ ~True(c[1]) /\ {k \in 3..Len(c) : ~False(c[k])} # {}
         /\ ca' = [ca EXCEPT ![cr].lits = [c EXCEPT ![2] = c[k0], ![k0] = -p]]
         /\ watches' = [watches EXCEPT ![p] = RemoveAt(@, w),
                               ![-c[k0]] = Append(@, [cref |-> cr, blocker |-> c[1]])]
         /\ UNCHANGED <<trail, reason, qhead, ok, confl, pc, w>>
      \/ /\ ~True(c[1]) /\ {k \in 3..Len(c) : ~False(c[k])} = {} /\ ~False(c[1])
         /\ ca' = [ca EXCEPT ![cr].lits = c]
         /\ watches' = [watches EXCEPT ![p][w] = [cref |-> cr, blocker |-> c[1]]]
         /\ uncheckedEnqueue(c[1], cr)
         /\ w' = w + 1 /\ UNCHANGED <<qhead, ok, confl, pc>>
      \/ /\ {k \in 3..Len(c) : ~False(c[k])} = {} /\ False(c[1])
         /\ ca' = [ca EXCEPT ![cr].lits = c]
         /\ watches' = [watches EXCEPT ![p][w] = [cref |-> cr, blocker |-> c[1]]]
         /\ confl' = cr /\ qhead' = Len(trail) + 1 /\ w' = 0
         /\ pc' = (IF searching THEN "conflict" ELSE "idle") /\ ok' = (ok /\ searching)
         /\ UNCHANGED <<trail, reason>>
  BY ZenonT(60) DEF visitWatch, blocked
<1>8. InHand(p, cr)
  BY <1>1, <1>6, InHandOf
<1>9. /\ p \in Lit /\ w \in 1..Len(watches[p]) /\ cr \in CRef /\ ca[cr] # NoClause
      /\ c0 \in Seq(Lit) /\ Len(c0) >= 2 /\ NoRepeat(c0) /\ -p \in {c0[1], c0[2]}
  <2>1. p \in Lit /\ w \in 1..Len(watches[p])
    BY <1>8 DEF InHand
  <2> HIDE DEF p
  <2> QED
    BY <1>1, <2>1, WatcherFacts
<1>10. Turned(c, c0, p)
  <2> HIDE DEF p, c0
  <2> QED
    BY <1>9, TurnedOf
<1>a. c0 = ca[cr].lits /\ k0 = Min({k \in 3..Len(c) : ~False(c[k])})
  OBVIOUS
<1> HIDE DEF p, cr, c0, c, k0
<1>11. Visiting(p, cr, c)
  BY <1>a, <1>6, <1>8, <1>10 DEF Visiting
<1>12. c \in Seq(Lit) /\ Len(c) >= 2 /\ NoRepeat(c) /\ Set(c) = Set(ca[cr].lits) /\ c[1] \in Lit /\ c[2] = -p
  BY <1>a, <1>10 DEF Turned
<1>13. ASSUME ca' = [ca EXCEPT ![cr].lits = c] PROVE Rewritten(cr, c)
  BY <1>1, <1>9, <1>12, <1>13, RewrittenOf
<1>14. ASSUME watches' = [watches EXCEPT ![p][w] = [cref |-> cr, blocker |-> c[1]]] PROVE Stays(p, cr, c[1])
  <2>1. PICK q \in Lit : q = c[1]
    BY <1>12
  <2>2. watches' = [watches EXCEPT ![p][w] = [cref |-> cr, blocker |-> q]]
    BY <1>14, <2>1
  <2>3. Stays(p, cr, q)
    <3> HIDE <2>1
    <3> QED
      BY <1>1, <1>8, <2>2, StaysOf
  <2> QED
    BY <2>1, <2>3
<1>15. ASSUME {k \in 3..Len(c) : ~False(c[k])} = {} PROVE \A k \in 3..Len(c) : False(c[k])
  BY <1>15
<1>16. CASE True(watches[p][w].blocker) /\ w' = w + 1 /\ UNCHANGED <<clauseVars, trail, reason, qhead, ok, confl, pc>>
  BY <1>11, <1>16, VisitBlocked
<1>17. CASE /\ True(c[1])
            /\ ca' = [ca EXCEPT ![cr].lits = c]
            /\ watches' = [watches EXCEPT ![p][w] = [cref |-> cr, blocker |-> c[1]]]
            /\ w' = w + 1 /\ UNCHANGED <<trail, reason, qhead, ok, confl, pc>>
  <2>1. Rewritten(cr, c) /\ Stays(p, cr, c[1])
    BY <1>13, <1>14, <1>17
  <2> QED
    BY <1>11, <1>17, <2>1, VisitTrue
<1>18. CASE /\ ~True(c[1]) /\ {k \in 3..Len(c) : ~False(c[k])} # {}
            /\ ca' = [ca EXCEPT ![cr].lits = [c EXCEPT ![2] = c[k0], ![k0] = -p]]
            /\ watches' = [watches EXCEPT ![p] = RemoveAt(@, w),
                                  ![-c[k0]] = Append(@, [cref |-> cr, blocker |-> c[1]])]
            /\ UNCHANGED <<trail, reason, qhead, ok, confl, pc, w>>
  <2>1. PICK k : /\ k = Min({j \in 3..Len(c) : ~False(c[j])})
                 /\ ca' = [ca EXCEPT ![cr].lits = [c EXCEPT ![2] = c[k], ![k] = -p]]
                 /\ watches' = [watches EXCEPT ![p] = RemoveAt(@, w),
                                       ![-c[k]] = Append(@, [cref |-> cr, blocker |-> c[1]])]
    BY <1>a, <1>18, Zenon
  <2>2. k \in 3..Len(c) /\ ~False(c[k])
    <3>1. PICK S : S = {j \in 3..Len(c) : ~False(c[j])}
      OBVIOUS
    <3>2. S \in SUBSET Nat /\ S # {}
      BY <1>18, <3>1
    <3>3. Min(S) \in S
      <4>1. PICK a \in S : \A b \in S : a <= b
        BY <3>2, LeastElement
      <4>2. Min(S) = CHOOSE x \in S : \A y \in S : x <= y
        BY DEF Min
      <4> HIDE <3>1
      <4> QED
        BY <4>1, <4>2
    <3> QED
      BY <2>1, <3>1, <3>3
  <2>3. PICK c1 : c1 = [c EXCEPT ![2] = c[k], ![k] = c[2]]
    OBVIOUS
  <2>4. ca' = [ca EXCEPT ![cr].lits = c1]
    BY <1>12, <2>1, <2>3
  <2>5. 2 \in 1..Len(c) /\ k \in 1..Len(c) /\ 2 # k /\ 1 \in 1..Len(c) /\ 1 # 2 /\ 1 # k
    BY <1>12, <2>2
  <2>6. Swapped([c EXCEPT ![2] = c[k], ![k] = c[2]], c, 2, k)
    BY <1>12, <2>5, SwapOf, Zenon
  <2>7. Swapped(c1, c, 2, k)
    BY <2>3, <2>6
  <2> HIDE <2>3
  <2>8. /\ c1 \in Seq(Lit) /\ Len(c1) >= 2 /\ NoRepeat(c1) /\ Set(c1) = Set(ca[cr].lits)
        /\ c1[1] = c[1] /\ c1[2] = c[k]
    BY <1>12, <2>5, <2>7 DEF Swapped
  <2>9. Rewritten(cr, c1)
    BY <1>1, <1>9, <2>4, <2>8, RewrittenOf
  <2>10. c[k] \in Lit /\ c[k] # -p
    BY <1>12, <2>5 DEF NoRepeat
  <2>11. PICK l1 : l1 = -c[k] /\ l1 \in Lit /\ l1 # p
    <3>1. -c[k] \in Lit /\ -(-c[k]) = c[k] /\ -(-p) = p
      BY <1>9, <2>10, LitFacts
    <3> QED
      BY <2>10, <3>1
  <2>12. Goes(p, cr, c[1], l1)
    <3>1. PICK q \in Lit : q = c[1]
      BY <1>12
    <3>2. watches' = [watches EXCEPT ![p] = RemoveAt(@, w), ![l1] = Append(@, [cref |-> cr, blocker |-> q])]
      BY <2>1, <2>11, <3>1
    <3>3. l1 \in Lit /\ l1 # p
      BY <2>11
    <3>4. Goes(p, cr, q, l1)
      <4> HIDE <2>1, <2>11, <3>1
      <4> QED
        BY <1>1, <1>8, <3>2, <3>3, GoesOf
    <3> QED
      BY <3>1, <3>4
  <2>13. ~True(c[1]) /\ w' = w /\ UNCHANGED <<trail, reason, qhead, ok, pc>> /\ l1 = -c[k]
    BY <1>18, <2>11
  <2> HIDE <2>1, <2>11, <1>18
  <2> QED
    BY <1>11, <2>2, <2>8, <2>9, <2>12, <2>13, VisitMoves
<1>19. CASE /\ ~True(c[1]) /\ {k \in 3..Len(c) : ~False(c[k])} = {} /\ ~False(c[1])
            /\ ca' = [ca EXCEPT ![cr].lits = c]
            /\ watches' = [watches EXCEPT ![p][w] = [cref |-> cr, blocker |-> c[1]]]
            /\ uncheckedEnqueue(c[1], cr)
            /\ w' = w + 1 /\ UNCHANGED <<qhead, ok, confl, pc>>
  <2>1. Rewritten(cr, c) /\ Stays(p, cr, c[1]) /\ \A k \in 3..Len(c) : False(c[k])
    BY <1>13, <1>14, <1>15, <1>19
  <2>2. /\ ~True(c[1]) /\ ~False(c[1]) /\ uncheckedEnqueue(c[1], cr)
        /\ w' = w + 1 /\ UNCHANGED <<qhead, ok, pc>>
    BY <1>19
  <2> HIDE <1>19
  <2> QED
    BY <1>11, <2>1, <2>2, VisitUnit
<1>20. CASE /\ {k \in 3..Len(c) : ~False(c[k])} = {} /\ False(c[1])
            /\ ca' = [ca EXCEPT ![cr].lits = c]
            /\ watches' = [watches EXCEPT ![p][w] = [cref |-> cr, blocker |-> c[1]]]
            /\ confl' = cr /\ qhead' = Len(trail) + 1 /\ w' = 0
            /\ pc' = (IF searching THEN "conflict" ELSE "idle") /\ ok' = (ok /\ searching)
            /\ UNCHANGED <<trail, reason>>
  <2>1. Rewritten(cr, c) /\ Stays(p, cr, c[1]) /\ \A k \in 3..Len(c) : False(c[k])
    BY <1>13, <1>14, <1>15, <1>20
  <2>2. /\ False(c[1]) /\ UNCHANGED <<trail, reason>> /\ confl' = cr /\ qhead' = Len(trail) + 1 /\ w' = 0
        /\ pc' = (IF searching THEN "conflict" ELSE "idle") /\ ok' = (ok /\ searching)
    BY <1>20
  <2> HIDE <1>20
  <2> QED
    BY <1>11, <2>1, <2>2, VisitConflict
<1> QED
  BY <1>7, <1>16, <1>17, <1>18, <1>19, <1>20

-----------------------------------------------------------------------------
(* The invariant *)

\* The invariant holds before the first clause is loaded.
LEMMA InitIInv == Init => IInv
<1> SUFFICES ASSUME Init PROVE IInv
  OBVIOUS
<1>1. /\ problem \in Problems /\ trail = <<>> /\ trail_lim = <<>> /\ qhead = 1 /\ w = 0 /\ loaded = 0
      /\ ok = TRUE /\ pc = "idle" /\ confl = Undef /\ assumptions = <<>> /\ result = "none" /\ interrupted = FALSE
      /\ ca = [cr \in CRef |-> NoClause] /\ watches = [l \in Lit |-> <<>>] /\ reason = [v \in Var |-> Undef]
  BY DEF Init
<1>2. Len(trail) = 0 /\ Len(trail_lim) = 0
  BY <1>1
<1>3. TrailInv
  BY <1>1, <1>2 DEF TrailInv
<1>4. ControlInv
  <2>1. Len(problem.formula) \in Nat
    <3>1. problem.formula \in Seq(Seq(Lit))
      BY <1>1, ProblemsAssumption
    <3> QED
      BY <3>1
  <2>2. 0 \in 0..Len(problem.formula)
    BY <2>1
  <2>3. loaded \in 0..Len(problem.formula) /\ assumptions \in Seq(Lit) /\ w \in Nat /\ ~searching
        /\ pc \in Location /\ result \in {"none", "searching", "SAT", "UNSAT", "UNKNOWN"}
    BY <1>1, <2>2 DEF searching, Location
  <2>4. ok \in BOOLEAN /\ interrupted \in BOOLEAN
    BY <1>1
  <2>5. ~(Len(trail_lim) > 0) /\ w = 0 /\ trail_lim = <<>> /\ pc = "idle"
    BY <1>1, <1>2
  <2>6. /\ pc \notin {"noconflict", "reduce", "decide", "model"} /\ pc \in {"idle", "propagate"}
        /\ pc # "propagate" /\ pc # "model" /\ problem \in Problems
    BY <1>1
  <2> QED
    BY <2>3, <2>4, <2>5, <2>6, Zenon DEF ControlInv
<1>5. ArenaInv
  BY <1>1 DEF ArenaInv, NoClause
<1>6. WatchInv /\ BlockerInv
  <2>1. \A l \in Lit : watches[l] = <<>> /\ Len(watches[l]) = 0
    BY <1>1
  <2>2. \A cr \in CRef : ca[cr] = NoClause
    BY <1>1
  <2>3. watches \in [Lit -> Seq([cref : CRef, blocker : Lit])]
    BY <1>1
  <2> QED
    BY <2>1, <2>2, <2>3 DEF WatchInv, BlockerInv
<1>7. ReasonInv /\ DecisionInv /\ AssumeInv
  BY <1>2 DEF ReasonInv, DecisionInv, AssumeInv
<1>8. ImpliedInv
  BY <1>1, <1>2 DEF ImpliedInv
<1>9. PropagatedInv
  <2>1. \A cr \in CRef : ca[cr].origin = "none"
    BY <1>1 DEF NoClause
  <2> QED
    BY <2>1 DEF PropagatedInv
<1>10. LoadedInv /\ ConflictInv /\ LearnInv
  BY <1>1 DEF LoadedInv, ConflictInv, LearnInv
<1>11. VerdictInv
  BY <1>1 DEF VerdictInv
<1> QED
  BY <1>3, <1>4, <1>5, <1>6, <1>7, <1>8, <1>9, <1>10, <1>11 DEF IInv

\* Nothing changes.
LEMMA StutterKeeps ==
    ASSUME IInv, UNCHANGED vars
    PROVE  IInv'
<1>1. /\ UNCHANGED <<clauseVars, trailVars, problem, loaded, w, ok, assumptions>>
      /\ UNCHANGED <<pc, result, conflict, interrupted, confl, learnt_clause>>
      /\ ca' = ca /\ trail' = trail /\ trail_lim' = trail_lim /\ qhead' = qhead /\ problem' = problem
  BY DEF vars, callVars, clauseVars, trailVars
<1>2. /\ TrailInv' /\ ArenaInv' /\ WatchInv' /\ BlockerInv' /\ ReasonInv' /\ DecisionInv' /\ AssumeInv'
      /\ ImpliedInv' /\ PropagatedInv' /\ LoadedInv'
  BY <1>1, StayMove
<1>3. ControlInv'
  BY <1>1 DEF IInv, ControlInv, searching, Location
<1>4. ConflictInv'
  BY <1>1 DEF IInv, ConflictInv
<1>5. LearnInv'
  <2>1. pc = "learn" => Asserting(learnt_clause)
    BY DEF IInv, LearnInv
  <2>2. PICK c : c = learnt_clause
    OBVIOUS
  <2>3. pc = "learn" => Asserting(c)'
    BY <1>1, <2>1, <2>2, AssertingSame
  <2> QED
    BY <1>1, <2>2, <2>3 DEF LearnInv
<1>6. VerdictInv'
  BY <1>1, VerdictSame DEF IInv
<1> QED
  BY <1>2, <1>3, <1>4, <1>5, <1>6 DEF IInv

\* Every step preserves the invariant.
LEMMA NextIInv == IInv /\ [Next]_vars => IInv'
<1> SUFFICES ASSUME IInv, [Next]_vars PROVE IInv'
  OBVIOUS
<1>1. CASE addClause
  BY <1>1, AddClauseKeeps
<1>2. CASE solve
  BY <1>2, SolveKeeps
<1>3. CASE propagate
  BY <1>3, PropagateKeeps
<1>4. CASE visitWatch
  BY <1>4, VisitWatchKeeps
<1>5. CASE importUnitClause
  BY <1>5, ImportUnitClauseKeeps
<1>6. CASE importClause
  BY <1>6, ImportClauseKeeps
<1>7. CASE importsDone
  BY <1>7, ImportsDoneKeeps
<1>8. CASE rootConflict
  BY <1>8, RootConflictKeeps
<1>9. CASE analyzeConflict
  BY <1>9, AnalyzeConflictKeeps
<1>10. CASE learn
  BY <1>10, LearnKeeps
<1>11. CASE outOfBudget
  BY <1>11, OutOfBudgetKeeps
<1>12. CASE simplify
  BY <1>12, SimplifyKeeps
<1>13. CASE reduceDB
  BY <1>13, ReduceDBKeeps
<1>14. CASE assume
  BY <1>14, AssumeKeeps
<1>15. CASE decide
  BY <1>15, DecideKeeps
<1>16. CASE modelFound
  BY <1>16, ModelFoundKeeps
<1>17. CASE interrupt
  BY <1>17, InterruptKeeps
<1>18. CASE UNCHANGED vars
  BY <1>18, StutterKeeps
<1> QED
  BY <1>1, <1>2, <1>3, <1>4, <1>5, <1>6, <1>7, <1>8, <1>9, <1>10, <1>11, <1>12, <1>13, <1>14, <1>15, <1>16,
     <1>17, <1>18 DEF Next, searchStep

\* Solver::solve_ and what it calls keep the state of the search in the shape that
\* each of them relies on, from loading the formula through all calls.
THEOREM MiniSatInvariant == Spec => []IInv
  BY InitIInv, NextIInv, PTL DEF Spec

\* Learning under assumptions (analyze, litRedundant, importClauses, cancelUntil):
\* whatever is learned under one cube follows from the formula alone.
LEMMA LearntIsImpliedOf == IInv => LearntIsImplied
<1> SUFFICES ASSUME IInv PROVE LearntIsImplied
  OBVIOUS
<1>1. TrailInv /\ ImpliedInv /\ LearnInv
  BY DEF IInv
<1>2. ASSUME NEW cr \in learnts PROVE Implied(Set(ca[cr].lits))
  <2>1. cr \in CRef /\ ca[cr] # NoClause
    BY <1>2 DEF learnts, NoClause
  <2> QED
    BY <1>1, <2>1 DEF ImpliedInv
<1>3. pc = "learn" => Implied(Set(learnt_clause))
  BY <1>1 DEF LearnInv, Asserting
<1>4. ASSUME NEW n \in DOMAIN trail, level(trail[n]) = 0 PROVE Implied({trail[n]})
  <2>1. n \in 1..Len(trail)
    BY <1>1, <1>4 DEF TrailInv
  <2>2. AtRoot(n)
    BY <1>1, <1>4, <2>1, LevelIs
  <2> QED
    BY <1>1, <2>1, <2>2 DEF ImpliedInv
<1> QED
  BY <1>2, <1>3, <1>4 DEF LearntIsImplied

\* What a solver keeps, exports or asserts at level 0 follows from the formula: it
\* may be used under every other cube and by every other solver.
THEOREM MiniSatLearnsSoundly == Spec => []LearntIsImplied
  BY MiniSatInvariant, LearntIsImpliedOf, PTL

\* No variable is assigned twice, so the trail has at most one place per variable.
LEMMA TrailFits ==
    ASSUME TrailInv
    PROVE  /\ Len(trail) <= NVars
           /\ Len(trail) = NVars => \A v \in Var : \E n \in 1..Len(trail) : abs(trail[n]) = v
<1>1. PICK L \in Nat : L = Len(trail)
  BY TrailFacts
<1>2. PICK f \in [1..L -> Var] : \A n \in 1..L : f[n] = abs(trail[n])
  <2>1. \A n \in 1..L : abs(trail[n]) \in Var
    BY <1>1, TrailFacts
  <2>2. [n \in 1..L |-> abs(trail[n])] \in [1..L -> Var]
    BY <2>1
  <2> QED
    BY <2>2
<1>3. f \in Injection(1..L, Var)
  BY <1>1, <1>2 DEF Injection, IsInjective, TrailInv
<1>4. NVars \in Nat /\ IsFiniteSet(Var) /\ Cardinality(Var) = NVars
  BY LitFacts, FS_Interval DEF Var
<1>5. IsFiniteSet(1..L) /\ Cardinality(1..L) = L
  BY FS_Interval
<1>6. L <= NVars
  BY <1>3, <1>4, <1>5, FS_Injection
<1>7. ASSUME L = NVars PROVE f \in Surjection(1..L, Var)
  BY <1>3, <1>4, <1>5, <1>7, FS_Injection
<1> QED
  BY <1>1, <1>2, <1>6, <1>7 DEF Surjection

\* The types, from the invariant.
LEMMA TypeOKOf == IInv => TypeOK
<1> SUFFICES ASSUME IInv PROVE TypeOK
  OBVIOUS
<1>1. TrailInv /\ ControlInv /\ ArenaInv /\ WatchInv
  BY DEF IInv
<1>2. \A cr \in CRef : Set(ca[cr].lits) \subseteq Lit
  <2> SUFFICES ASSUME NEW cr \in CRef PROVE Set(ca[cr].lits) \subseteq Lit
    OBVIOUS
  <2>1. ca[cr].lits \in Seq(Lit)
    BY <1>1 DEF ArenaInv
  <2> QED
    BY <2>1, SetOf
<1>3. \A l \in Lit : \A n \in DOMAIN watches[l] : watches[l][n] \in [cref : CRef, blocker : Lit]
  <2>1. \A l \in Lit : watches[l] \in Seq([cref : CRef, blocker : Lit])
    BY <1>1 DEF WatchInv
  <2> SUFFICES ASSUME NEW l \in Lit, NEW n \in DOMAIN watches[l]
               PROVE  watches[l][n] \in [cref : CRef, blocker : Lit]
    OBVIOUS
  <2>2. PICK S : S = [cref : CRef, blocker : Lit]
    OBVIOUS
  <2>3. watches[l] \in Seq(S)
    BY <2>1, <2>2
  <2>4. watches[l][n] \in S
    <3> HIDE <2>2
    <3> QED
      BY <2>3
  <2> QED
    BY <2>2, <2>4
<1>4. Set(trail) \subseteq Lit /\ Len(trail) <= NVars
  <2>1. trail \in Seq(Lit)
    BY <1>1 DEF TrailInv
  <2> QED
    BY <1>1, <2>1, SetOf, TrailFits
<1>5. \A n \in DOMAIN trail_lim : trail_lim[n] \in 0..Len(trail)
  <2>1. DOMAIN trail_lim = 1..Len(trail_lim)
    BY <1>1 DEF TrailInv
  <2> QED
    BY <1>1, <2>1, TrailFacts
<1>6. qhead \in 1..(Len(trail) + 1) /\ reason \in [Var -> CRef \cup {Undef}]
  BY <1>1 DEF TrailInv
<1>7. /\ problem \in Problems /\ result \in {"none", "searching", "SAT", "UNSAT", "UNKNOWN"}
      /\ pc \in {"idle", "import", "clauses", "propagate", "conflict", "learn", "noconflict",
              "reduce", "decide", "model"}
  BY <1>1 DEF ControlInv, Location
<1> QED
  BY <1>2, <1>3, <1>4, <1>5, <1>6, <1>7 DEF TypeOK

\* Two watchers per clause, from the invariant.
LEMMA TwoWatchesOf == IInv => TwoWatches
<1> SUFFICES ASSUME IInv, NEW cr \in CRef, ca[cr] # NoClause, NEW l \in Lit
             PROVE  Cardinality({n \in DOMAIN watches[l] : watches[l][n].cref = cr})
                        = IF l \in {-ca[cr].lits[1], -ca[cr].lits[2]} THEN 1 ELSE 0
  BY DEF TwoWatches
<1>1. ArenaInv /\ WatchInv
  BY DEF IInv
<1>2. DOMAIN watches[l] = 1..Len(watches[l])
  BY <1>1 DEF WatchInv
<1>3. PICK N : N = {n \in 1..Len(watches[l]) : watches[l][n].cref = cr}
  OBVIOUS
<1>4. CASE l \in {-ca[cr].lits[1], -ca[cr].lits[2]}
  <2>1. PICK n \in 1..Len(watches[l]) : watches[l][n].cref = cr
    <3>1. \A i \in {1, 2} : \E n \in 1..Len(watches[-ca[cr].lits[i]]) : watches[-ca[cr].lits[i]][n].cref = cr
      BY <1>1 DEF WatchInv
    <3>2. PICK i \in {1, 2} : l = -ca[cr].lits[i]
      BY <1>4
    <3> QED
      BY <3>1, <3>2
  <2>2. N = {n}
    BY <1>1, <1>3, <2>1 DEF WatchInv
  <2>3. Cardinality({n}) = 1
    BY FS_Singleton
  <2> QED
    BY <1>2, <1>3, <1>4, <2>2, <2>3
<1>5. CASE l \notin {-ca[cr].lits[1], -ca[cr].lits[2]}
  <2>1. ASSUME NEW n \in N PROVE FALSE
    <3>1. -l \in {ca[cr].lits[1], ca[cr].lits[2]}
      <4>1. n \in 1..Len(watches[l]) /\ watches[l][n].cref = cr
        BY <1>3, <2>1
      <4>2. -l \in {ca[watches[l][n].cref].lits[1], ca[watches[l][n].cref].lits[2]}
        BY <1>1, <4>1, WatcherFacts
      <4> QED
        BY <4>1, <4>2
    <3>2. l = -(-l)
      BY LitFacts
    <3> QED
      BY <1>5, <3>1, <3>2
  <2>2. N = {}
    BY <2>1
  <2>3. Cardinality({}) = 0
    BY FS_EmptySet
  <2> QED
    BY <1>2, <1>3, <1>5, <2>2, <2>3
<1> QED
  BY <1>4, <1>5

\* With the queue empty, every false watch has been visited.
LEMMA SettledHolds ==
    ASSUME IInv, pc \in {"noconflict", "reduce", "decide", "model"}, NEW cr \in CRef,
           ca[cr].origin \in {"formula", "learnt"}, NEW i \in {1, 2}, False(ca[cr].lits[i])
    PROVE  \E m \in 1..Len(trail) : trail[m] \in Set(ca[cr].lits)
<1>1. TrailInv /\ ControlInv /\ PropagatedInv
  BY DEF IInv
<1>2. ok /\ qhead = Len(trail) + 1 /\ w = 0 /\ Len(trail) \in Nat
  BY <1>1, TrailFacts, AtRest DEF ControlInv
<1>3. Settled(cr)
  BY <1>1, <1>2 DEF PropagatedInv
<1>4. PICK n \in 1..Len(trail) : trail[n] = -ca[cr].lits[i]
  BY <1>1, TrailFacts
<1>5. Visited(cr, n)
  BY <1>2 DEF Visited
<1>6. Guarded(ca[cr].lits, n)
  BY <1>3, <1>4, <1>5 DEF Settled
<1> QED
  BY <1>6 DEF Guarded

\* No false watch is overlooked, from the invariant.
LEMMA WatchesAreSoundOf == IInv => WatchesAreSound
<1> SUFFICES ASSUME IInv, pc \in {"noconflict", "reduce", "decide", "model"}, NEW cr \in CRef,
                    ca[cr].origin \in {"formula", "learnt"},
                    False(ca[cr].lits[1]) \/ False(ca[cr].lits[2])
             PROVE  satisfied(ca[cr].lits)
  BY DEF WatchesAreSound
<1>1. PICK m \in 1..Len(trail) : trail[m] \in Set(ca[cr].lits)
  BY SettledHolds
<1>2. True(trail[m])
  BY TrailFacts DEF IInv
<1>3. PICK k \in DOMAIN ca[cr].lits : ca[cr].lits[k] = trail[m]
  BY <1>1 DEF Set
<1> QED
  BY <1>2, <1>3 DEF satisfied

\* Reasons, from the invariant.
LEMMA ReasonsAreSoundOf == IInv => ReasonsAreSound
<1> SUFFICES ASSUME IInv, NEW n \in DOMAIN trail, reason[abs(trail[n])] # Undef,
                    NEW c, c = ca[reason[abs(trail[n])]].lits
             PROVE  /\ Len(c) > 1 /\ c[1] = trail[n]
                    /\ \A k \in 2..Len(c) : False(c[k]) /\ Position(c[k]) < n
  BY DEF ReasonsAreSound
<1>1. TrailInv /\ ArenaInv /\ ReasonInv
  BY DEF IInv
<1>2. n \in 1..Len(trail)
  BY <1>1 DEF TrailInv
<1>3. reason[abs(trail[n])] \in CRef /\ ca[reason[abs(trail[n])]] # NoClause
  BY <1>1, <1>2, ReasonHeld
<1>4. /\ c[1] = trail[n] /\ c \in Seq(Lit) /\ Len(c) >= 2
      /\ \A k \in 2..Len(c) : \E m \in 1..(n - 1) : trail[m] = -c[k]
  BY <1>1, <1>2, <1>3 DEF ReasonInv, ArenaInv
<1>5. ASSUME NEW k \in 2..Len(c) PROVE False(c[k]) /\ Position(c[k]) < n
  <2>1. PICK m \in 1..(n - 1) : trail[m] = -c[k]
    BY <1>4
  <2>2. m \in 1..Len(trail) /\ m < n
    BY <1>1, <1>2, TrailFacts
  <2>3. c[k] \in Lit
    <3>1. k \in 1..Len(c)
      BY <1>4
    <3> QED
      BY <1>4, <3>1
  <2>4. c[k] = -trail[m]
    BY <2>1, <2>3, LitFacts
  <2>5. Position(c[k]) = m
    BY <1>1, <2>2, <2>4, PositionIs
  <2> QED
    BY <1>1, <2>1, <2>2, <2>5, TrailFacts
<1> QED
  BY <1>4, <1>5

\* The learnt clause asserts, from the invariant.
LEMMA LearntAssertsOf == IInv => LearntAsserts
<1> SUFFICES ASSUME IInv, pc = "learn", NEW c, c = learnt_clause
             PROVE  /\ \A n \in DOMAIN c : False(c[n])
                    /\ \A n \in 2..Len(c) : level(c[n]) \in 1..(decisionLevel - 1)
                    /\ level(c[1]) = decisionLevel
  BY DEF LearntAsserts
<1>1. TrailInv /\ Asserting(c)
  BY DEF IInv, LearnInv
<1>2. /\ Len(trail_lim) > 0 /\ Len(trail_lim) \in Nat /\ decisionLevel = Len(trail_lim)
      /\ c \in Seq(Lit) /\ Len(c) > 0 /\ DOMAIN c = 1..Len(c)
  BY <1>1, TrailFacts DEF Asserting
<1>3. /\ Len(trail_lim) \in 1..Len(trail_lim)
      /\ \A n \in 1..Len(c) : c[n] \in Lit
  BY <1>2
<1>4. False(c[1]) /\ level(c[1]) = decisionLevel
  <2>1. PICK n \in 1..Len(trail) : trail[n] = -c[1] /\ trail_lim[Len(trail_lim)] < n
    BY <1>1 DEF Asserting
  <2>2. c[1] \in Lit
    BY <1>2
  <2>3. c[1] = -trail[n]
    BY <2>1, <2>2, LitFacts
  <2>4. level(c[1]) \in 0..Len(trail_lim) /\ \A k \in 1..Len(trail_lim) : k <= level(c[1]) <=> trail_lim[k] < n
    BY <1>1, <2>3, LevelIs
  <2>5. Len(trail_lim) <= level(c[1])
    BY <1>3, <2>1, <2>4
  <2> QED
    BY <1>1, <1>2, <2>1, <2>4, <2>5, TrailFacts
<1>5. ASSUME NEW i \in 2..Len(c) PROVE False(c[i]) /\ level(c[i]) \in 1..(decisionLevel - 1)
  <2>1. PICK n \in 1..Len(trail) : trail[n] = -c[i] /\ ~AtRoot(n) /\ n <= trail_lim[Len(trail_lim)]
    BY <1>1 DEF Asserting
  <2>2. c[i] \in Lit
    <3>1. i \in 1..Len(c)
      BY <1>2
    <3> QED
      BY <1>3, <3>1
  <2>3. c[i] = -trail[n]
    BY <2>1, <2>2, LitFacts
  <2>4. /\ level(c[i]) \in 0..Len(trail_lim) /\ level(c[i]) # 0
        /\ \A k \in 1..Len(trail_lim) : k <= level(c[i]) <=> trail_lim[k] < n
    BY <1>1, <2>1, <2>3, LevelIs
  <2>5. trail_lim[Len(trail_lim)] \in Nat
    BY <1>1, <1>3, TrailFacts
  <2>6. ~(Len(trail_lim) <= level(c[i]))
    BY <1>3, <2>1, <2>4, <2>5
  <2> QED
    BY <1>1, <1>2, <2>1, <2>4, <2>6, TrailFacts
<1>6. ASSUME NEW n \in DOMAIN c PROVE False(c[n])
  <2>1. n = 1 \/ n \in 2..Len(c)
    BY <1>2, <1>6
  <2> QED
    BY <1>4, <1>5, <2>1
<1> QED
  BY <1>4, <1>5, <1>6

\* The state of the search is what propagate, analyze and reduceDB each take the
\* others to leave: watches, reasons, levels and the learnt clause.
THEOREM MiniSatSearchStateIsSound == Spec => []SearchStateIsSound
<1>1. IInv => SearchStateIsSound
  BY TypeOKOf, TwoWatchesOf, WatchesAreSoundOf, ReasonsAreSoundOf, LearntAssertsOf DEF SearchStateIsSound
<1> QED
  BY <1>1, MiniSatInvariant, PTL

\* When every variable has a value and the queue is empty, the trail is a model.
LEMMA ModelOf ==
    ASSUME IInv, pc = "model", NEW a, a = [v \in Var |-> True(v)]
    PROVE  a \in Models
<1>1. TrailInv /\ ControlInv /\ ArenaInv /\ LoadedInv
  BY DEF IInv
<1>2. /\ Len(trail) = NVars /\ searching /\ ok /\ loaded = Len(problem.formula) /\ problem \in Problems
  BY <1>1 DEF ControlInv
<1>3. a \in Assignments /\ \A v \in Var : a[v] = True(v)
  BY DEF Assignments, True
<1> HIDE <1>3
<1>a. \A v \in Var : a[v] = True(v)
  BY <1>3
<1>b. a \in Assignments
  BY <1>3
<1>4. ASSUME NEW n \in 1..Len(trail) PROVE Holds(a, trail[n])
  <2>1. PICK l \in Lit : l = trail[n] /\ -l \in Lit /\ l \in Int /\ l # 0 /\ NVars \in Nat /\ -(-l) = l
    BY <1>1, TrailFacts, LitFacts
  <2>2. CASE l > 0
    <3>1. l \in Var /\ True(l)
      BY <1>1, <2>1, <2>2, TrailFacts DEF Lit, Var
    <3> QED
      BY <1>a, <2>1, <2>2, <3>1 DEF Holds
  <2>3. CASE ~(l > 0)
    <3>1. -l \in Var
      BY <2>1, <2>3 DEF Lit, Var
    <3>2. ~True(-l)
      <4>1. ASSUME NEW m \in 1..Len(trail), trail[m] = -l PROVE FALSE
        <5>1. m = n
          BY <1>1, <2>1, <4>1, TrailFacts
        <5> QED
          BY <2>1, <4>1, <5>1, LitFacts
      <4> QED
        BY <1>1, <4>1, TrailFacts
    <3> QED
      BY <1>a, <2>1, <2>3, <3>1, <3>2 DEF Holds
  <2> QED
    BY <2>2, <2>3
<1>5. ASSUME NEW l \in Lit PROVE True(l) \/ False(l)
  <2>1. abs(l) \in Var
    BY LitFacts
  <2>2. PICK n \in 1..Len(trail) : abs(trail[n]) = abs(l)
    BY <1>1, <1>2, <2>1, TrailFits
  <2>3. trail[n] \in Lit
    BY <1>1, TrailFacts
  <2>4. trail[n] = l \/ trail[n] = -l
    BY <2>2, <2>3, LitFacts
  <2> QED
    BY <1>1, <2>4, TrailFacts
<1>6. ASSUME NEW n \in 1..Len(problem.formula) PROVE Satisfies(a, Set(problem.formula[n]))
  <2>1. Covered(n)
    BY <1>1, <1>2, <1>6 DEF LoadedInv
  <2>2. PICK C : C = Set(problem.formula[n])
    OBVIOUS
  <2>3. C \subseteq Lit
    <3>1. problem.formula \in Seq(Seq(Lit))
      BY <1>2, ProblemsAssumption
    <3>2. problem.formula[n] \in Seq(Lit)
      BY <3>1
    <3> QED
      BY <2>2, <3>2, SetOf
  <2>4. CASE \E l \in C : -l \in C
    <3>1. PICK l \in C : -l \in C
      BY <2>4
    <3>2. Holds(a, l) \/ Holds(a, -l)
      BY <1>b, <2>3, <3>1, HoldsNot
    <3> QED
      BY <2>2, <3>1, <3>2 DEF Satisfies
  <2>5. CASE \E m \in 1..Len(trail) : trail[m] \in C
    BY <1>4, <2>2, <2>5 DEF Satisfies
  <2>6. CASE \E cr \in CRef : ca[cr].origin = "formula" /\ Set(ca[cr].lits) \subseteq C
    <3>1. PICK cr \in CRef : ca[cr].origin = "formula" /\ Set(ca[cr].lits) \subseteq C
      BY <2>6
    <3>2. PICK c : c = ca[cr].lits
      OBVIOUS
    <3>3. c \in Seq(Lit) /\ Len(c) >= 2
      BY <1>1, <3>1, <3>2 DEF ArenaInv, NoClause
    <3>4. c[1] \in Lit /\ c[1] \in Set(c)
      <4>1. 1 \in 1..Len(c)
        BY <3>3
      <4> QED
        BY <3>3, <4>1, SetOf
    <3>5. \E m \in 1..Len(trail) : trail[m] \in Set(c)
      <4>1. CASE True(c[1])
        BY <1>1, <3>4, <4>1, TrailFacts
      <4>2. CASE False(c[1])
        BY <3>1, <3>2, <4>2, SettledHolds
      <4> QED
        BY <1>5, <3>4, <4>1, <4>2
    <3> QED
      BY <1>4, <2>2, <3>1, <3>2, <3>5 DEF Satisfies
  <2> QED
    BY <2>1, <2>2, <2>4, <2>5, <2>6 DEF Covered
<1> QED
  BY <1>2, <1>b, <1>6, ModelFacts

\* The answers, from the invariant.
LEMMA AnswerIsRightOf == IInv => AnswerIsRight
<1> SUFFICES ASSUME IInv PROVE AnswerIsRight
  OBVIOUS
<1>1. TrailInv /\ ControlInv /\ AssumeInv /\ VerdictInv
  BY DEF IInv
<1>2. ASSUME pc = "model" PROVE [v \in Var |-> True(v)] \in Models
  BY <1>2, ModelOf
<1>3. ASSUME pc = "model", NEW k \in DOMAIN assumptions PROVE True(assumptions[k])
  <2>1. /\ assumptions \in Seq(Lit) /\ Len(trail_lim) >= Len(assumptions) /\ Len(trail_lim) \in Nat
        /\ DOMAIN assumptions = 1..Len(assumptions)
    BY <1>1, <1>3, TrailFacts DEF ControlInv
  <2>2. k \in 1..Len(trail_lim) /\ k <= Len(assumptions)
    BY <1>3, <2>1
  <2>3. \E n \in 1..Len(trail) : trail[n] = assumptions[k]
    BY <1>1, <2>2 DEF AssumeInv
  <2> QED
    BY <1>1, <2>3, TrailFacts
<1> QED
  BY <1>1, <1>2, <1>3 DEF AnswerIsRight, VerdictInv

\* Solver::solve_ answers correctly under every cube: UNSAT with a core among the
\* assumptions that the formula refutes, SAT with a model of the formula and cube.
THEOREM MiniSatAnswersRightly == Spec => []AnswerIsRight
  BY MiniSatInvariant, AnswerIsRightOf, PTL

=============================================================================
