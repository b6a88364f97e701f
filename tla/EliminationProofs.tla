--------------------------- MODULE EliminationProofs ---------------------------
(***************************************************************************)
(* Variable elimination and subsumption lose no solution and add none, for *)
(* every formula, number of variables, limits, and every point at which it *)
(* may be stopped.                                                         *)
(***************************************************************************)
EXTENDS Elimination, ListTheorems, TLAPS

-----------------------------------------------------------------------------
(* Literals and clauses *)

\* The numbers that stand for literals.
LEMMA LitFacts ==
    /\ \A l \in Lit : /\ l \in Int /\ -l \in Lit /\ abs(l) \in Var /\ -(-l) = l /\ l # -l
                     /\ abs(-l) = abs(l) /\ (l = abs(l) \/ l = -abs(l))
    /\ \A l, m \in Lit : abs(l) = abs(m) => l = m \/ l = -m
    /\ \A v \in Var : v \in Lit /\ -v \in Lit /\ abs(v) = v /\ abs(-v) = v
    /\ NVars \in Nat
<1>1. NVars \in Nat
  BY EliminationAssumption DEF EliminationAssumption
<1>2. \A v \in Var : v \in Int /\ v > 0 /\ v \in Lit /\ -v \in Lit
  BY <1>1 DEF Var, Lit
<1>3. \A l \in Lit : \E v \in Var : l = v \/ l = -v
  BY DEF Lit
<1>4. ASSUME NEW l \in Lit
      PROVE  /\ l \in Int /\ -l \in Lit /\ abs(l) \in Var /\ -(-l) = l /\ l # -l
             /\ abs(-l) = abs(l) /\ (l = abs(l) \/ l = -abs(l))
  <2>1. PICK v \in Var : l = v \/ l = -v
    BY <1>3
  <2>2. v \in Int /\ v > 0 /\ v \in Lit /\ -v \in Lit
    BY <1>2
  <2>3. -(-v) = v
    BY <2>2
  <2> QED
    BY <2>1, <2>2, <2>3 DEF abs
<1>5. ASSUME NEW l \in Lit, NEW m \in Lit, abs(l) = abs(m) PROVE l = m \/ l = -m
  <2>1. l \in Int /\ m \in Int
    BY <1>4
  <2> QED
    BY <1>5, <2>1 DEF abs
<1>6. \A v \in Var : abs(v) = v /\ abs(-v) = v
  BY <1>2 DEF abs
<1> QED
  BY <1>1, <1>2, <1>4, <1>5, <1>6

\* Only(S) is an element of S.
LEMMA OnlyOf ==
    /\ \A x : Only({x}) = x
    /\ \A S : S # {} => Only(S) \in S
  BY Zenon DEF Only

\* There are finitely many.
LEMMA LitFinite ==
    /\ IsFiniteSet(Lit) /\ IsFiniteSet(Var)
    /\ \A S \in SUBSET Lit : IsFiniteSet(S) /\ Cardinality(S) \in Nat
<1>1. NVars \in Nat /\ -NVars \in Int
  BY EliminationAssumption DEF EliminationAssumption
<1>2. IsFiniteSet((-NVars)..NVars)
  BY <1>1, FS_Interval
<1>3. \A v \in Var : v \in (-NVars)..NVars /\ -v \in (-NVars)..NVars
  BY <1>1 DEF Var
<1>4. Lit \subseteq (-NVars)..NVars /\ Var \subseteq (-NVars)..NVars
  BY <1>3 DEF Lit
<1> HIDE DEF Lit
<1>5. IsFiniteSet(Lit) /\ IsFiniteSet(Var)
  BY <1>2, <1>4, FS_Subset
<1> QED
  BY <1>5, FS_Subset, FS_CardinalityType

\* Two literals of a clause of two.
LEMMA TwoOf ==
    ASSUME NEW S, IsFiniteSet(S), Cardinality(S) = 2, NEW l \in S
    PROVE  \E m \in S : m # l /\ S = {l, m}
<1>1. IsFiniteSet(S \ {l}) /\ Cardinality(S \ {l}) = 1
  <2>1. IsFiniteSet(S \ {l}) /\ Cardinality(S \ {l}) = Cardinality(S) - 1
    BY FS_RemoveElement
  <2> QED
    BY <2>1
<1>2. \E m : S \ {l} = {m}
  BY <1>1, FS_Singleton
<1>3. PICK m : S \ {l} = {m}
  BY <1>2
<1>4. m \in S /\ m # l /\ S = {l, m}
  BY <1>3
<1> QED
  BY <1>4

\* The places of a sequence.
LEMMA AscendingOf ==
    ASSUME NEW n \in Nat, NEW S, S \subseteq 1..n
    PROVE  /\ Ascending(S) \in Seq(S) /\ ToSet(Ascending(S)) = S
           /\ Len(Ascending(S)) \in Nat
           /\ \A k \in 1..Len(Ascending(S)) : Ascending(S)[k] \in S
           /\ \A x \in S : \E k \in 1..Len(Ascending(S)) : Ascending(S)[k] = x
<1> DEFINE key == [x \in S |-> x]
<1>1. Keyed(S, key)
  <2>1. IsFiniteSet(S)
    <3>1. IsFiniteSet(1..n)
      BY FS_Interval
    <3> QED
      BY <3>1, FS_Subset
  <2>2. \A x \in S : key[x] = x /\ x \in Int
    OBVIOUS
  <2> HIDE DEF key
  <2> QED
    BY <2>1, <2>2 DEF Keyed
<1>2. Ascending(S) \in Seq(S) /\ ToSet(Ascending(S)) = S
  <2>1. Ascending(S) = Sorted(S, key)
    BY DEF Ascending
  <2> HIDE DEF key
  <2> QED
    BY <1>1, <2>1, SortedOf
<1> QED
  BY <1>2, PlaceOf

\* An assignment holds exactly one of a literal and its negation.
LEMMA Opposite ==
    ASSUME NEW a
    PROVE  a \in Assignments <=>
               /\ a \subseteq Lit
               /\ \A l \in Lit : l \notin a \/ -l \notin a
               /\ \A l \in Lit : l \in a \/ -l \in a
<1>1. ASSUME a \in Assignments, NEW l \in Lit PROVE (l \in a) # (-l \in a)
  <2>1. abs(l) \in Var /\ (l = abs(l) \/ l = -abs(l)) /\ -(-l) = l
    BY LitFacts
  <2>2. (abs(l) \in a) # (-abs(l) \in a)
    BY <1>1, <2>1 DEF Assignments
  <2>3. CASE l = abs(l)
    BY <2>2, <2>3
  <2>4. CASE l = -abs(l)
    <3>1. -l = abs(l)
      BY <2>1, <2>4, LitFacts
    <3> QED
      BY <2>2, <2>4, <3>1
  <2> QED
    BY <2>1, <2>3, <2>4
<1>2. ASSUME a \subseteq Lit, \A l \in Lit : l \notin a \/ -l \notin a,
             \A l \in Lit : l \in a \/ -l \in a
      PROVE  a \in Assignments
  <2>1. \A v \in Var : (v \in a) # (-v \in a)
    BY <1>2, LitFacts
  <2> QED
    BY <1>2, <2>1 DEF Assignments
<1>3. a \in Assignments => a \subseteq Lit
  BY DEF Assignments
<1> QED
  BY <1>1, <1>2, <1>3

-----------------------------------------------------------------------------
(* What the operations keep *)

Cell == [lits : SUBSET Lit, live : BOOLEAN]
DBase == [ca : Seq(Cell), trail : Seq(Lit), queue : Seq(Nat), touched : SUBSET Var,
          heap : SUBSET Var, ok : BOOLEAN]

\* The references of the queue are clauses, and no clause holds a literal and its negation.
Wf(d) ==
    /\ d \in DBase
    /\ ToSet(d.queue) \subseteq DOMAIN d.ca
    /\ \A cr \in DOMAIN d.ca : ~Tautology(d.ca[cr].lits)

\* a satisfies the facts, the clauses and L.
Holds(d, L, a) ==
    /\ a \in Assignments /\ Facts(d) \subseteq a
    /\ \A c \in Clauses(d, L) : c \cap a # {}

\* Models of the formula are models of what is left.
Sound(d) == \A a \in Models : d.ok /\ Holds(d, learnts, a)

\* No clause that is left mentions a variable of E.
Free(d, E) == \A cr \in Refs(d) : VarsOf(d.ca[cr].lits) \cap E = {}

Right(d, E) == Wf(d) /\ Free(d, E) /\ Sound(d)

\* a is consistent, gives every variable outside E a value, and satisfies the clauses and
\* the facts outside E.
Good(d, E, a) ==
    /\ a \subseteq Lit
    /\ \A l \in Lit : l \notin a \/ -l \notin a
    /\ \A l \in Lit : abs(l) \notin E => l \in a \/ -l \in a
    /\ \A cr \in Refs(d) : d.ca[cr].lits \cap a # {}
    /\ \A l \in Facts(d) : abs(l) \notin E => l \in a

Keeps(d, e, E) == e.ok => d.ok /\ \A a : Good(e, E, a) => Good(d, E, a)

\* e comes from d by steps that lose no model and add none outside E.
Step(d, e, E) == Right(e, E) /\ Keeps(d, e, E) /\ Len(d.trail) <= Len(e.trail)

\* More facts, and maybe a conflict.
Grows(d, e) ==
    /\ e \in DBase
    /\ e.ca = d.ca /\ e.queue = d.queue /\ e.touched = d.touched /\ e.heap = d.heap
    /\ Facts(d) \subseteq Facts(e) /\ Len(d.trail) <= Len(e.trail)
    /\ e.ok => d.ok

\* The fields.
LEMMA Fields ==
    ASSUME NEW d \in DBase
    PROVE  /\ d.ca \in Seq(Cell) /\ d.trail \in Seq(Lit) /\ d.queue \in Seq(Nat)
           /\ d.touched \subseteq Var /\ d.heap \subseteq Var /\ d.ok \in BOOLEAN
           /\ Len(d.ca) \in Nat /\ Len(d.trail) \in Nat /\ DOMAIN d.ca = 1..Len(d.ca)
           /\ \A cr \in DOMAIN d.ca : /\ d.ca[cr] \in Cell /\ d.ca[cr].lits \subseteq Lit
                                     /\ d.ca[cr].live \in BOOLEAN
           /\ Facts(d) \subseteq Lit
           /\ Refs(d) \subseteq DOMAIN d.ca
           /\ \A cr \in Refs(d) : d.ca[cr].live
<1>1. /\ d.ca \in Seq(Cell) /\ d.trail \in Seq(Lit) /\ d.queue \in Seq(Nat)
      /\ d.touched \subseteq Var /\ d.heap \subseteq Var /\ d.ok \in BOOLEAN
  BY DEF DBase
<1>2. /\ Len(d.ca) \in Nat /\ Len(d.trail) \in Nat /\ DOMAIN d.ca = 1..Len(d.ca)
      /\ \A cr \in DOMAIN d.ca : d.ca[cr] \in Cell
  BY <1>1, LenProperties, ElementOfSeq
<1>3. \A cr \in DOMAIN d.ca : d.ca[cr].lits \subseteq Lit /\ d.ca[cr].live \in BOOLEAN
  BY <1>2 DEF Cell
<1>4. Facts(d) \subseteq Lit
  BY <1>1, PlaceOf DEF Facts
<1> QED
  BY <1>1, <1>2, <1>3, <1>4 DEF Refs

\* Growth is transitive.
LEMMA GrowsOn ==
    ASSUME NEW d, NEW e, NEW f, d \in DBase, Grows(d, e), Grows(e, f)
    PROVE  Grows(d, f)
<1>1. Len(d.trail) \in Nat /\ Len(e.trail) \in Nat /\ Len(f.trail) \in Nat
  BY Fields DEF Grows
<1> QED
  BY <1>1 DEF Grows

\* What a database with the same clauses is like.
LEMMA SameClauses ==
    ASSUME NEW d, NEW e, e.ca = d.ca
    PROVE  /\ Refs(e) = Refs(d)
           /\ \A L : Clauses(e, L) = Clauses(d, L)
  BY DEF Refs, Clauses

\* One propagation: a fact that a clause implies.
LEMMA ImplyIs ==
    ASSUME NEW d \in DBase, NEW L, L \subseteq SUBSET Lit
    PROVE  /\ Grows(d, imply(d, L)) /\ imply(d, L).ok = d.ok
           /\ \A a : Holds(d, L, a) => Holds(imply(d, L), L, a)
<1> DEFINE e == imply(d, L)
<1>1. CASE units(d, L) = {}
  <2>1. e = d
    BY <1>1 DEF imply
  <2>2. Grows(d, d)
    BY Fields DEF Grows
  <2> QED
    BY <2>1, <2>2
<1>2. CASE units(d, L) # {}
  <2>1. PICK l : l = Only(units(d, L))
    OBVIOUS
  <2>2. l \in units(d, L)
    BY <1>2, <2>1, OnlyOf
  <2>3. /\ l \in Lit /\ abs(l) \notin Assigned(d)
        /\ \E c \in Clauses(d, L) : l \in c /\ \A m \in c \ {l} : -m \in Facts(d)
    BY <2>2 DEF units
  <2>4. e = [d EXCEPT !.trail = Append(@, l)]
    BY <1>2, <2>1 DEF imply
  <2>5. /\ Append(d.trail, l) \in Seq(Lit) /\ Len(Append(d.trail, l)) = Len(d.trail) + 1
        /\ ToSet(Append(d.trail, l)) = ToSet(d.trail) \cup {l}
    BY <2>3, Fields, AppendOf
  <2>6. e \in DBase
    BY <2>4, <2>5 DEF DBase
  <2>7. /\ e.ca = d.ca /\ e.queue = d.queue /\ e.touched = d.touched /\ e.heap = d.heap
        /\ e.trail = Append(d.trail, l) /\ e.ok = d.ok
    BY <2>4 DEF DBase
  <2> HIDE DEF e
  <2>8. Facts(e) = Facts(d) \cup {l}
    BY <2>5, <2>7 DEF Facts
  <2>9. Grows(d, e)
    <3>1. Len(d.trail) \in Nat
      BY Fields
    <3> QED
      BY <2>5, <2>6, <2>7, <2>8, <3>1 DEF Grows
  <2>10. ASSUME NEW a, Holds(d, L, a) PROVE Holds(e, L, a)
    <3>1. PICK c \in Clauses(d, L) : l \in c /\ \A m \in c \ {l} : -m \in Facts(d)
      BY <2>3
    <3>2. a \in Assignments /\ Facts(d) \subseteq a /\ c \cap a # {}
      BY <2>10, <3>1 DEF Holds
    <3>3. PICK k \in c : k \in a
      BY <3>2
    <3>4. k \in Lit
      BY <3>2, <3>3 DEF Assignments
    <3>5. ~(k \in a /\ -k \in a)
      BY <3>2, <3>4, Opposite
    <3>6. l \in a
      BY <3>1, <3>2, <3>3, <3>5
    <3> QED
      BY <2>7, <2>8, <2>10, <3>2, <3>6, SameClauses DEF Holds
  <2> QED
    BY <2>7, <2>9, <2>10 DEF e
<1> QED
  BY <1>1, <1>2

\* Entailed facts: an assignment that satisfies all keeps doing so.
Entails(d, e, L) == \A a : Holds(d, L, a) => Holds(e, L, a) /\ e.ok = d.ok

LEMMA Propagated ==
    ASSUME NEW d \in DBase, NEW L, L \subseteq SUBSET Lit
    PROVE  Grows(d, Propagate(d, L)) /\ Entails(d, Propagate(d, L), L)
<1> DEFINE N == NVars
           s == [v \in Var |-> v]
           Eq(g) == g = [n \in 0..Len(s) |->
                            IF n = 0 THEN d ELSE Only({imply(e, L) : e \in {g[n - 1]}})]
           c == CHOOSE g : Eq(g)
           st == [n \in 1..N |-> [e \in DBase |-> imply(e, L)]]
<1>1. N \in Nat /\ Len(s) = N
  <2>1. N \in Nat
    BY LitFacts
  <2>2. DOMAIN s = 1..N
    BY DEF Var
  <2>3. s \in Seq(Int)
    <3>1. s \in [1..N -> Int]
      BY <2>1 DEF Var
    <3> QED
      BY <2>1, <3>1, SeqDef
  <2> HIDE DEF s
  <2> QED
    BY <2>1, <2>2, <2>3, LenProperties
<1>2. st \in [1..N -> [DBase -> DBase]]
  <2>1. \A e \in DBase : imply(e, L) \in DBase
    BY ImplyIs DEF Grows
  <2> QED
    BY <2>1
<1>3. PICK p : Chain(p, N, DBase, d, st)
  BY <1>1, <1>2, Recursion
<1>4. Eq(p)
  <2>1. p \in [0..N -> DBase] /\ p[0] = d /\ \A n \in 1..N : p[n] = st[n][p[n - 1]]
    BY <1>3 DEF Chain
  <2>2. ASSUME NEW n \in 0..N
        PROVE  p[n] = IF n = 0 THEN d ELSE Only({imply(e, L) : e \in {p[n - 1]}})
    <3>1. CASE n = 0
      BY <2>1, <3>1
    <3>2. CASE n # 0
      <4>1. n \in 1..N /\ n - 1 \in 0..N
        BY <1>1, <3>2
      <4>2. p[n] = imply(p[n - 1], L)
        BY <2>1, <4>1
      <4>3. {imply(e, L) : e \in {p[n - 1]}} = {imply(p[n - 1], L)}
        OBVIOUS
      <4> QED
        BY <3>2, <4>2, <4>3, OnlyOf
    <3> QED
      BY <3>1, <3>2
  <2> HIDE DEF st, s
  <2> QED
    BY <1>1, <2>1, <2>2
<1>5. Eq(c)
  BY <1>4, Zenon
<1> HIDE DEF c, s, st
<1>6. c = [n \in 0..N |-> IF n = 0 THEN d ELSE Only({imply(e, L) : e \in {c[n - 1]}})]
  BY <1>1, <1>5
<1>7. c[0] = d
  <2>1. 0 \in 0..N
    BY <1>1
  <2> QED
    BY <1>6, <2>1
<1>8. \A n \in 1..N : c[n] = imply(c[n - 1], L)
  <2> SUFFICES ASSUME NEW n \in 1..N PROVE c[n] = imply(c[n - 1], L)
    OBVIOUS
  <2>1. n \in 0..N /\ n # 0
    BY <1>1
  <2>2. c[n] = Only({imply(e, L) : e \in {c[n - 1]}})
    BY <1>6, <2>1
  <2>3. {imply(e, L) : e \in {c[n - 1]}} = {imply(c[n - 1], L)}
    OBVIOUS
  <2> QED
    BY <2>2, <2>3, OnlyOf
<1> HIDE DEF Eq
<1>9. \A n \in 0..N : Grows(d, c[n]) /\ Entails(d, c[n], L)
  <2> DEFINE K == {n \in 0..N : Grows(d, c[n]) /\ Entails(d, c[n], L)}
  <2>1. 0 \in K
    <3>1. Grows(d, d) /\ Entails(d, d, L)
      BY Fields DEF Grows, Entails
    <3> QED
      BY <1>1, <1>7, <3>1
  <2>2. ASSUME NEW n \in 1..N, n - 1 \in K PROVE n \in K
    <3>1. Grows(d, c[n - 1]) /\ Entails(d, c[n - 1], L) /\ c[n - 1] \in DBase
      BY <2>2 DEF Grows
    <3>2. /\ Grows(c[n - 1], c[n]) /\ c[n].ok = c[n - 1].ok
          /\ \A a : Holds(c[n - 1], L, a) => Holds(c[n], L, a)
      BY <1>8, <3>1, ImplyIs
    <3>3. Grows(d, c[n])
      BY <3>1, <3>2, GrowsOn
    <3>4. Entails(d, c[n], L)
      BY <3>1, <3>2 DEF Entails
    <3> QED
      BY <1>1, <3>3, <3>4
  <2> HIDE DEF K
  <2>3. \A n \in 0..N : n \in K
    BY <1>1, <2>1, <2>2, Upwards
  <2> QED
    BY <2>3 DEF K
<1>10. PICK f : f = c[N]
  OBVIOUS
<1>11. Grows(d, f) /\ Entails(d, f, L) /\ f \in DBase
  BY <1>1, <1>9, <1>10 DEF Grows
<1>12. Propagate(d, L) = IF conflict(f, L) THEN [f EXCEPT !.ok = FALSE] ELSE f
  <2>1. Fold(LAMBDA e, v : imply(e, L), d, s) = c[Len(s)]
    BY Zenon DEF Fold, c, Eq
  <2>2. Propagate(d, L) = Only({IF conflict(e, L) THEN [e EXCEPT !.ok = FALSE] ELSE e : e \in {c[N]}})
    BY <1>1, <2>1, Zenon DEF Propagate, s
  <2>3. {IF conflict(e, L) THEN [e EXCEPT !.ok = FALSE] ELSE e : e \in {f}}
            = {IF conflict(f, L) THEN [f EXCEPT !.ok = FALSE] ELSE f}
    OBVIOUS
  <2> QED
    BY <1>10, <2>2, <2>3, OnlyOf, Zenon
<1>13. CASE conflict(f, L)
  <2> DEFINE e == [f EXCEPT !.ok = FALSE]
  <2>1. /\ e \in DBase /\ e.ca = f.ca /\ e.queue = f.queue /\ e.touched = f.touched
        /\ e.heap = f.heap /\ e.trail = f.trail /\ e.ok = FALSE
    BY <1>11 DEF DBase
  <2>2. Propagate(d, L) = e
    BY <1>12, <1>13
  <2> HIDE DEF e
  <2>3. Grows(d, e)
    BY <1>11, <2>1 DEF Grows, Facts
  <2>4. \A a : ~Holds(f, L, a)
    <3> SUFFICES ASSUME NEW a, Holds(f, L, a) PROVE FALSE
      OBVIOUS
    <3>1. PICK x \in Clauses(f, L) : \A l \in x : -l \in Facts(f)
      BY <1>13 DEF conflict
    <3>2. a \in Assignments /\ Facts(f) \subseteq a /\ x \cap a # {}
      BY <3>1 DEF Holds
    <3>3. PICK l \in x : l \in a
      BY <3>2
    <3>4. l \in Lit /\ -l \in a
      BY <3>1, <3>2, <3>3, Opposite
    <3> QED
      BY <3>2, <3>3, <3>4, Opposite
  <2>5. Entails(d, e, L)
    BY <1>11, <2>4 DEF Entails
  <2> QED
    BY <2>2, <2>3, <2>5
<1>14. CASE ~conflict(f, L)
  BY <1>11, <1>12, <1>14
<1> QED
  BY <1>13, <1>14

\* A literal becomes a fact.
LEMMA Enqueued ==
    ASSUME NEW d \in DBase, NEW l \in Lit, learnts \subseteq SUBSET Lit
    PROVE  /\ Grows(d, enqueue(d, l))
           /\ enqueue(d, l).ok => l \in Facts(enqueue(d, l))
           /\ \A a : Holds(d, learnts, a) /\ l \in a =>
                  Holds(enqueue(d, l), learnts, a) /\ enqueue(d, l).ok = d.ok
<1> DEFINE e == enqueue(d, l)
<1>1. CASE -l \in Facts(d)
  <2>1. e = [d EXCEPT !.ok = FALSE]
    BY <1>1 DEF enqueue
  <2>2. /\ e \in DBase /\ e.ca = d.ca /\ e.queue = d.queue /\ e.touched = d.touched
        /\ e.heap = d.heap /\ e.trail = d.trail /\ e.ok = FALSE
    BY <2>1 DEF DBase
  <2> HIDE DEF e
  <2>3. Len(d.trail) \in Nat
    BY Fields
  <2>4. Grows(d, e)
    BY <2>2, <2>3 DEF Grows, Facts
  <2>5. \A a : ~(Holds(d, learnts, a) /\ l \in a)
    BY <1>1, Opposite DEF Holds
  <2> QED
    BY <2>2, <2>4, <2>5 DEF e
<1>2. CASE -l \notin Facts(d) /\ l \in Facts(d)
  <2>1. e = d
    BY <1>2 DEF enqueue
  <2>2. Grows(d, d)
    BY Fields DEF Grows
  <2> QED
    BY <1>2, <2>1, <2>2
<1>3. CASE -l \notin Facts(d) /\ l \notin Facts(d)
  <2> DEFINE f == [d EXCEPT !.trail = Append(@, l)]
  <2>1. e = Propagate(f, learnts)
    <3>1. e = Only({Propagate(x, learnts) : x \in {f}})
      BY <1>3 DEF enqueue
    <3>2. {Propagate(x, learnts) : x \in {f}} = {Propagate(f, learnts)}
      OBVIOUS
    <3> QED
      BY <3>1, <3>2, OnlyOf
  <2>2. /\ Append(d.trail, l) \in Seq(Lit) /\ Len(Append(d.trail, l)) = Len(d.trail) + 1
        /\ ToSet(Append(d.trail, l)) = ToSet(d.trail) \cup {l}
    BY Fields, AppendOf
  <2>3. f \in DBase
    BY <2>2 DEF DBase
  <2>4. /\ f.ca = d.ca /\ f.queue = d.queue /\ f.touched = d.touched /\ f.heap = d.heap
        /\ f.trail = Append(d.trail, l) /\ f.ok = d.ok
    BY DEF DBase
  <2> HIDE DEF e, f
  <2>5. Facts(f) = Facts(d) \cup {l}
    BY <2>2, <2>4 DEF Facts
  <2>6. Grows(d, f)
    <3>1. Len(d.trail) \in Nat
      BY Fields
    <3> QED
      BY <2>2, <2>3, <2>4, <2>5, <3>1 DEF Grows
  <2>7. Grows(f, e) /\ Entails(f, e, learnts)
    BY <2>1, <2>3, Propagated
  <2>8. Grows(d, e)
    BY <2>6, <2>7, GrowsOn
  <2>9. ASSUME NEW a, Holds(d, learnts, a), l \in a PROVE Holds(f, learnts, a)
    BY <2>4, <2>5, <2>9, SameClauses DEF Holds
  <2>10. l \in Facts(e)
    BY <2>5, <2>7 DEF Grows
  <2>11. \A a : Holds(d, learnts, a) /\ l \in a => Holds(e, learnts, a) /\ e.ok = d.ok
    BY <2>4, <2>7, <2>9 DEF Entails
  <2> QED
    BY <2>8, <2>10, <2>11 DEF e
<1> QED
  BY <1>1, <1>2, <1>3

\* Variables enter the heap; nothing else changes.
LEMMA HeapIs ==
    ASSUME NEW d \in DBase, NEW V, V \subseteq Var, NEW gone
    PROVE  LET e == updateElimHeap(d, V, gone)
           IN  /\ e \in DBase /\ e.ca = d.ca /\ e.trail = d.trail /\ e.queue = d.queue
               /\ e.touched = d.touched /\ e.ok = d.ok
<1> DEFINE h == d.heap \cup (V \ (frozen \cup gone \cup Assigned(d)))
           e == updateElimHeap(d, V, gone)
<1>1. h \subseteq Var
  BY Fields
<1>2. e = [d EXCEPT !.heap = h]
  BY DEF updateElimHeap
<1> HIDE DEF h, e
<1>3. /\ e \in DBase /\ e.ca = d.ca /\ e.trail = d.trail /\ e.queue = d.queue
      /\ e.touched = d.touched /\ e.ok = d.ok
  BY <1>1, <1>2 DEF DBase
<1> QED
  BY <1>3 DEF e

LEMMA VarsOfLits ==
    ASSUME NEW c, c \subseteq Lit
    PROVE  VarsOf(c) \subseteq Var
  BY LitFacts DEF VarsOf

\* e is d without clause cr.
IsRemoved(d, e, cr) ==
    /\ e \in DBase /\ e.trail = d.trail /\ e.queue = d.queue
    /\ e.touched = d.touched /\ e.ok = d.ok
    /\ DOMAIN e.ca = DOMAIN d.ca
    /\ \A k \in DOMAIN d.ca : k # cr => e.ca[k] = d.ca[k]
    /\ \A k \in DOMAIN d.ca : e.ca[k].lits = d.ca[k].lits
    /\ Refs(e) = Refs(d) \ {cr}
    /\ Facts(e) = Facts(d)
    /\ \A L : Clauses(e, L) \subseteq Clauses(d, L)

\* A removed clause.
LEMMA RemovedIs ==
    ASSUME NEW d \in DBase, NEW cr \in DOMAIN d.ca, NEW gone
    PROVE  IsRemoved(d, removeClause(d, cr, gone), cr)
<1> DEFINE x == [d.ca[cr] EXCEPT !.live = FALSE]
           ca == [d.ca EXCEPT ![cr] = x]
           f == [d EXCEPT !.ca = ca]
           g == [d EXCEPT !.ca[cr].live = FALSE]
           e == removeClause(d, cr, gone)
<1>1. d.ca \in Seq(Cell) /\ d.ca[cr] \in Cell /\ VarsOf(d.ca[cr].lits) \subseteq Var
      /\ Len(d.ca) \in Nat /\ DOMAIN d.ca = 1..Len(d.ca)
      /\ d.ca[cr].lits \subseteq Lit
  BY Fields, VarsOfLits
<1>2. x \in Cell /\ x.lits = d.ca[cr].lits /\ x.live = FALSE
  BY <1>1 DEF Cell
<1>3. g = f
  OBVIOUS
<1>4. /\ ca \in Seq(Cell) /\ Len(ca) = Len(d.ca) /\ DOMAIN ca = DOMAIN d.ca /\ ca[cr] = x
      /\ \A k \in DOMAIN d.ca : k # cr => ca[k] = d.ca[k]
  BY <1>1, <1>2, ExceptSeq
<1> HIDE DEF x, ca
<1>6. /\ f \in DBase /\ f.ca = ca /\ f.trail = d.trail /\ f.queue = d.queue
      /\ f.touched = d.touched /\ f.ok = d.ok
  BY <1>4 DEF DBase
<1> HIDE DEF f
<1>7. e = updateElimHeap(f, VarsOf(d.ca[cr].lits), gone)
  BY <1>3 DEF removeClause
<1> HIDE DEF g
<1> HIDE DEF e
<1>8. /\ e \in DBase /\ e.ca = f.ca /\ e.trail = f.trail /\ e.queue = f.queue
      /\ e.touched = f.touched /\ e.ok = f.ok
  BY <1>1, <1>6, <1>7, HeapIs
<1>9. /\ e \in DBase /\ e.trail = d.trail /\ e.queue = d.queue
      /\ e.touched = d.touched /\ e.ok = d.ok
      /\ e.ca \in Seq(Cell) /\ DOMAIN e.ca = DOMAIN d.ca
      /\ \A k \in DOMAIN d.ca : k # cr => e.ca[k] = d.ca[k]
      /\ e.ca[cr].lits = d.ca[cr].lits /\ e.ca[cr].live = FALSE
  BY <1>2, <1>4, <1>6, <1>8
<1>10. Refs(e) = Refs(d) \ {cr}
  BY <1>9 DEF Refs
<1>11. \A k \in DOMAIN d.ca : e.ca[k].lits = d.ca[k].lits
  BY <1>9
<1>12. Facts(e) = Facts(d)
  BY <1>9 DEF Facts
<1>13. \A L : Clauses(e, L) \subseteq Clauses(d, L)
  <2>1. Refs(d) \subseteq DOMAIN d.ca
    BY DEF Refs
  <2> QED
    BY <1>10, <1>11, <2>1 DEF Clauses
<1>14. IsRemoved(d, e, cr)
  BY <1>9, <1>10, <1>11, <1>12, <1>13 DEF IsRemoved
<1> QED
  BY <1>14 DEF e

\* Removing a clause keeps everything in order.
LEMMA RemovedRight ==
    ASSUME NEW d, NEW E, Right(d, E), NEW cr \in DOMAIN d.ca, NEW gone
    PROVE  Right(removeClause(d, cr, gone), E)
<1>1. d \in DBase
  BY DEF Right, Wf
<1>2. PICK e : e = removeClause(d, cr, gone)
  OBVIOUS
<1>3. IsRemoved(d, e, cr)
  BY <1>1, <1>2, RemovedIs
<1>4. Wf(e)
  BY <1>3 DEF Right, Wf, IsRemoved
<1>5. Free(e, E)
  <2>1. Refs(d) \subseteq DOMAIN d.ca
    BY DEF Refs
  <2> QED
    BY <1>3, <2>1 DEF Right, Free, IsRemoved
<1>6. Sound(e)
  BY <1>3 DEF Right, Sound, Holds, IsRemoved
<1> QED
  BY <1>2, <1>4, <1>5, <1>6 DEF Right

LEMMA KeepsOn ==
    ASSUME NEW d, NEW e, NEW f, NEW E, Keeps(d, e, E), Keeps(e, f, E)
    PROVE  Keeps(d, f, E)
  BY DEF Keeps

LEMMA StepsOn ==
    ASSUME NEW d, NEW e, NEW f, NEW E, d \in DBase, Step(d, e, E), Step(e, f, E)
    PROVE  Step(d, f, E)
<1>1. Len(d.trail) \in Nat /\ Len(e.trail) \in Nat /\ Len(f.trail) \in Nat
  BY Fields DEF Step, Right, Wf
<1> QED
  BY <1>1, KeepsOn DEF Step

LEMMA NoStep ==
    ASSUME NEW d, NEW E, Right(d, E)
    PROVE  Step(d, d, E)
<1>1. Len(d.trail) \in Nat
  BY Fields DEF Right, Wf
<1> QED
  BY <1>1 DEF Step, Keeps

\* A fact that every model has is added.
LEMMA EnqueueStep ==
    ASSUME NEW d, NEW E, Right(d, E), NEW l \in Lit, learnts \subseteq SUBSET Lit,
           \A a \in Models : l \in a
    PROVE  /\ Step(d, enqueue(d, l), E)
           /\ enqueue(d, l).ca = d.ca /\ enqueue(d, l).touched = d.touched
           /\ Facts(d) \subseteq Facts(enqueue(d, l))
           /\ enqueue(d, l).ok => l \in Facts(enqueue(d, l))
<1> DEFINE e == enqueue(d, l)
<1>1. d \in DBase
  BY DEF Right, Wf
<1>2. /\ Grows(d, e)
      /\ e.ok => l \in Facts(e)
      /\ \A a : Holds(d, learnts, a) /\ l \in a => Holds(e, learnts, a) /\ e.ok = d.ok
  BY <1>1, Enqueued
<1> HIDE DEF e
<1>3. Refs(e) = Refs(d)
  BY <1>2, SameClauses DEF Grows
<1>4. Wf(e)
  BY <1>2 DEF Right, Wf, Grows
<1>5. Free(e, E)
  BY <1>2, <1>3 DEF Right, Free, Grows
<1>6. Sound(e)
  BY <1>2 DEF Right, Sound
<1>7. Keeps(d, e, E)
  BY <1>2, <1>3 DEF Keeps, Good, Grows
<1> QED
  BY <1>2, <1>4, <1>5, <1>6, <1>7 DEF Step, Right, Grows, e

\* A set of one element.
LEMMA OneOf ==
    ASSUME NEW S, IsFiniteSet(S), Cardinality(S) = 1
    PROVE  S = {Only(S)}
<1>1. \E x : S = {x}
  BY FS_Singleton
<1>2. PICK x : S = {x}
  BY <1>1
<1> QED
  BY <1>2, OnlyOf

\* A clause of the formula, or a resolvent, is added.
LEMMA Added ==
    ASSUME NEW d, NEW E, Right(d, E), learnts \subseteq SUBSET Lit,
           NEW ps, ps \subseteq Lit, VarsOf(ps) \cap E = {}, \A a \in Models : ps \cap a # {},
           NEW e, e = AddClause(d, ps)
    PROVE  /\ Step(d, e, E)
           /\ e.ok => \A a : Good(e, E, a) => ps \cap a # {}
<1>1. d \in DBase /\ Wf(d) /\ Free(d, E) /\ Sound(d)
  BY DEF Right, Wf
<1>2. \A l \in ps : l \in Lit /\ abs(l) \notin E /\ -l \in Lit /\ abs(-l) \notin E
  <2>1. \A l \in ps : abs(l) \notin E
    BY DEF VarsOf
  <2> QED
    BY <2>1, LitFacts
<1>3. CASE ~d.ok \/ Tautology(ps) \/ ps \cap Facts(d) # {}
  <2>1. e = d
    BY <1>3 DEF AddClause
  <2>2. ASSUME d.ok, NEW a, Good(d, E, a) PROVE ps \cap a # {}
    <3>1. CASE Tautology(ps)
      <4>1. PICK l \in ps : -l \in ps
        BY <3>1 DEF Tautology
      <4> QED
        BY <1>2, <2>2, <4>1 DEF Good
    <3>2. CASE ps \cap Facts(d) # {}
      BY <1>2, <2>2, <3>2 DEF Good
    <3> QED
      BY <1>3, <2>2, <3>1, <3>2
  <2> QED
    BY <2>1, <2>2, NoStep
<1> DEFINE c == {l \in ps : -l \notin Facts(d)}
<1>4. ASSUME ~(~d.ok \/ Tautology(ps) \/ ps \cap Facts(d) # {})
      PROVE  /\ \A a \in Models : c \cap a # {}
             /\ c \subseteq ps /\ c \subseteq Lit /\ ~Tautology(c)
  <2>1. ASSUME NEW a \in Models PROVE c \cap a # {}
    <3>1. PICK l \in ps : l \in a
      OBVIOUS
    <3>2. a \in Assignments /\ Facts(d) \subseteq a
      BY <1>1 DEF Sound, Holds
    <3>3. -l \notin a
      BY <1>2, <3>1, <3>2, Opposite
    <3> QED
      BY <3>1, <3>2, <3>3
  <2> QED
    BY <1>4, <2>1 DEF Tautology
<1>5. CASE ~(~d.ok \/ Tautology(ps) \/ ps \cap Facts(d) # {}) /\ c = {}
  <2>1. e = [d EXCEPT !.ok = FALSE]
    BY <1>5 DEF AddClause
  <2>2. /\ e \in DBase /\ e.ca = d.ca /\ e.queue = d.queue /\ e.trail = d.trail /\ e.ok = FALSE
    BY <1>1, <2>1 DEF DBase
  <2>3. Models = {}
    BY <1>4, <1>5
  <2>4. Right(e, E)
    BY <1>1, <2>2, <2>3, SameClauses DEF Right, Wf, Free, Sound
  <2>5. Len(d.trail) \in Nat
    BY <1>1, Fields
  <2> QED
    BY <2>2, <2>4, <2>5 DEF Step, Keeps
<1>6. CASE ~(~d.ok \/ Tautology(ps) \/ ps \cap Facts(d) # {}) /\ c # {} /\ Cardinality(c) = 1
  <2>1. e = enqueue(d, Only(c))
    BY <1>6 DEF AddClause
  <2>2. IsFiniteSet(c)
    BY <1>4, <1>6, LitFinite
  <2>3. c = {Only(c)}
    BY <1>6, <2>2, OneOf
  <2>4. PICK m : m = Only(c)
    OBVIOUS
  <2>5. m \in ps /\ m \in Lit /\ \A a \in Models : m \in a
    <3> HIDE DEF c
    <3>1. c = {m}
      BY <2>3, <2>4
    <3> QED
      BY <1>4, <1>6, <3>1
  <2>6. Step(d, e, E) /\ (e.ok => m \in Facts(e))
    BY <2>1, <2>4, <2>5, EnqueueStep
  <2> QED
    BY <1>2, <2>5, <2>6 DEF Good
<1>7. CASE ~(~d.ok \/ Tautology(ps) \/ ps \cap Facts(d) # {}) /\ c # {} /\ Cardinality(c) # 1
  <2> DEFINE x == [lits |-> c, live |-> TRUE]
             ca == Append(d.ca, x)
             queue == Append(d.queue, Len(d.ca) + 1)
             touched == d.touched \cup VarsOf(c)
  <2>1. e = [d EXCEPT !.ca = ca, !.queue = queue, !.touched = touched]
    BY <1>7 DEF AddClause
  <2>2. x \in Cell /\ x.lits = c /\ x.live = TRUE
    BY <1>4, <1>7 DEF Cell
  <2>3. d.ca \in Seq(Cell) /\ d.queue \in Seq(Nat) /\ Len(d.ca) \in Nat /\ DOMAIN d.ca = 1..Len(d.ca)
        /\ d.touched \subseteq Var /\ Len(d.trail) \in Nat
    BY <1>1, Fields
  <2> HIDE DEF x
  <2>4. /\ ca \in Seq(Cell) /\ Len(ca) = Len(d.ca) + 1
        /\ \A k \in 1..Len(d.ca) : ca[k] = d.ca[k]
        /\ ca[Len(d.ca) + 1] = x
    BY <2>2, <2>3, AppendProperties
  <2>5. /\ queue \in Seq(Nat) /\ ToSet(queue) = ToSet(d.queue) \cup {Len(d.ca) + 1}
    <3>1. Len(d.ca) + 1 \in Nat
      BY <2>3
    <3> QED
      BY <2>3, <3>1, AppendOf
  <2>6. touched \subseteq Var
    BY <1>4, <1>7, <2>3, VarsOfLits
  <2>7. DOMAIN ca = 1..(Len(d.ca) + 1)
    BY <2>4, LenProperties
  <2> HIDE DEF c, ca, queue, touched
  <2>8. /\ e \in DBase /\ e.ca = ca /\ e.queue = queue /\ e.trail = d.trail /\ e.ok = d.ok
    BY <1>1, <2>1, <2>4, <2>5, <2>6 DEF DBase
  <2>9. /\ Refs(e) = Refs(d) \cup {Len(d.ca) + 1}
        /\ \A k \in Refs(d) : e.ca[k] = d.ca[k]
        /\ e.ca[Len(d.ca) + 1].lits = c
        /\ Len(d.ca) + 1 \notin Refs(d)
    BY <2>2, <2>3, <2>4, <2>7, <2>8 DEF Refs
  <2>10. Facts(e) = Facts(d)
    BY <2>8 DEF Facts
  <2>11. Wf(e)
    <3>1. ToSet(e.queue) \subseteq DOMAIN e.ca
      BY <1>1, <2>3, <2>5, <2>7, <2>8 DEF Wf
    <3>2. ASSUME NEW k \in DOMAIN e.ca PROVE ~Tautology(e.ca[k].lits)
      <4>1. CASE k \in 1..Len(d.ca)
        BY <1>1, <2>3, <2>4, <2>8, <4>1 DEF Wf
      <4>2. CASE k = Len(d.ca) + 1
        BY <1>4, <1>7, <2>9, <4>2
      <4> QED
        BY <2>3, <2>7, <2>8, <4>1, <4>2
    <3> QED
      BY <2>8, <3>1, <3>2 DEF Wf
  <2>12. Free(e, E)
    <3>1. VarsOf(c) \cap E = {}
      BY <1>2, <1>4, <1>7 DEF VarsOf
    <3> QED
      BY <1>1, <2>9, <3>1 DEF Free
  <2>13. Sound(e)
    <3>1. \A L : Clauses(e, L) = Clauses(d, L) \cup {c}
      BY <2>9 DEF Clauses
    <3> QED
      BY <1>1, <1>4, <1>7, <2>8, <2>10, <3>1 DEF Sound, Holds
  <2>14. \A a : Good(e, E, a) => Good(d, E, a)
    BY <2>9, <2>10 DEF Good
  <2>15. \A a : Good(e, E, a) => ps \cap a # {}
    <3>1. \A a : Good(e, E, a) => c \cap a # {}
      BY <2>9 DEF Good
    <3> QED
      BY <1>4, <1>7, <3>1
  <2> QED
    BY <2>3, <2>8, <2>11, <2>12, <2>13, <2>14, <2>15 DEF Step, Right, Keeps
<1> QED
  BY <1>3, <1>5, <1>6, <1>7

\* A literal that no model needs leaves a clause.
LEMMA Strengthened ==
    ASSUME NEW d, NEW E, Right(d, E), learnts \subseteq SUBSET Lit,
           NEW cr \in Refs(d), NEW l \in d.ca[cr].lits,
           \A a \in Models : (d.ca[cr].lits \ {l}) \cap a # {},
           NEW e, e = strengthenClause(d, cr, l)
    PROVE  /\ Step(d, e, E) /\ e.touched = d.touched /\ DOMAIN e.ca = DOMAIN d.ca
           /\ \A k \in DOMAIN d.ca : k # cr => e.ca[k] = d.ca[k]
           /\ Facts(d) \subseteq Facts(e)
<1> DEFINE c == d.ca[cr].lits
           queue == Append(d.queue, cr)
           f == [d EXCEPT !.queue = queue]
<1>1. d \in DBase /\ Wf(d) /\ Free(d, E) /\ Sound(d)
  BY DEF Right, Wf
<1>2. /\ d.ca \in Seq(Cell) /\ d.queue \in Seq(Nat) /\ Len(d.ca) \in Nat
      /\ DOMAIN d.ca = 1..Len(d.ca) /\ Len(d.trail) \in Nat
      /\ cr \in DOMAIN d.ca /\ cr \in Nat /\ d.ca[cr] \in Cell /\ c \subseteq Lit /\ d.ca[cr].live
      /\ Refs(d) \subseteq DOMAIN d.ca
  BY <1>1, Fields DEF Refs
<1>3. queue \in Seq(Nat) /\ ToSet(queue) = ToSet(d.queue) \cup {cr}
  BY <1>2, AppendOf
<1> HIDE DEF queue
<1>4. /\ f \in DBase /\ f.ca = d.ca /\ f.queue = queue /\ f.trail = d.trail /\ f.ok = d.ok
      /\ f.touched = d.touched
  BY <1>1, <1>3 DEF DBase
<1> HIDE DEF f
<1>5. Refs(f) = Refs(d) /\ Facts(f) = Facts(d) /\ \A L : Clauses(f, L) = Clauses(d, L)
  BY <1>4, SameClauses DEF Facts
<1>6. Wf(f)
  BY <1>1, <1>2, <1>3, <1>4 DEF Wf
<1>7. Right(f, E)
  BY <1>1, <1>4, <1>5, <1>6 DEF Right, Free, Sound, Holds
<1>8. VarsOf(c) \cap E = {}
  BY <1>1 DEF Free
<1>9. CASE Cardinality(c) = 2
  <2> DEFINE last == CHOOSE m \in c : m # l
             r == removeClause(f, cr, eliminated)
  <2>1. e = enqueue(r, last)
    <3>1. e = Only({enqueue(x, last) : x \in {r}})
      BY <1>9, Zenon DEF strengthenClause, f, queue
    <3>2. {enqueue(x, last) : x \in {r}} = {enqueue(r, last)}
      OBVIOUS
    <3> QED
      BY <3>1, <3>2, OnlyOf, Zenon
  <2>2. PICK m \in c : m # l /\ c = {l, m}
    BY <1>2, <1>9, LitFinite, TwoOf, SMTT(40)
  <2>3. last = m
    BY <2>2
  <2>4. m \in Lit /\ c \ {l} = {m} /\ \A a \in Models : m \in a
    BY <1>2, <2>2
  <2> HIDE DEF r
  <2>5. r = removeClause(f, cr, eliminated) /\ f \in DBase /\ cr \in DOMAIN f.ca
    BY <1>2, <1>4 DEF r
  <2>13. IsRemoved(f, r, cr)
    BY <2>5, RemovedIs
  <2>6. /\ r \in DBase /\ r.trail = f.trail /\ r.touched = f.touched /\ r.ok = f.ok
        /\ DOMAIN r.ca = DOMAIN f.ca /\ \A k \in DOMAIN f.ca : k # cr => r.ca[k] = f.ca[k]
    BY <2>13 DEF IsRemoved
  <2>7. Refs(r) = Refs(d) \ {cr} /\ Facts(r) = Facts(d)
    BY <1>5, <2>13 DEF IsRemoved
  <2>12. Right(r, E)
    BY <1>7, <2>5, RemovedRight
  <2> HIDE DEF last
  <2>8. e = enqueue(r, m)
    BY <2>1, <2>3
  <2>9. /\ Step(r, e, E) /\ e.ca = r.ca /\ e.touched = r.touched /\ Facts(r) \subseteq Facts(e)
        /\ (e.ok => m \in Facts(e))
    BY <2>4, <2>12, <2>8, EnqueueStep
  <2>10. Keeps(d, e, E)
    <3> SUFFICES ASSUME e.ok PROVE d.ok /\ \A a : Good(e, E, a) => Good(d, E, a)
      BY DEF Keeps
    <3>1. r.ok /\ \A a : Good(e, E, a) => Good(r, E, a)
      BY <2>9 DEF Step, Keeps
    <3>2. ASSUME NEW a, Good(e, E, a) PROVE Good(d, E, a)
      <4>1. m \in a
        <5>1. abs(m) \notin E
          BY <1>8, <2>2 DEF VarsOf
        <5> QED
          BY <2>9, <3>2, <5>1 DEF Good
      <4>2. d.ca[cr].lits \cap a # {}
        BY <2>2, <4>1
      <4>3. Good(r, E, a)
        BY <3>1, <3>2
      <4>4. \A k \in Refs(d) : k # cr => k \in Refs(r) /\ r.ca[k] = d.ca[k]
        BY <1>2, <1>4, <2>6, <2>7
      <4>5. \A k \in Refs(d) : d.ca[k].lits \cap a # {}
        BY <4>2, <4>3, <4>4 DEF Good
      <4> QED
        BY <2>7, <4>3, <4>5 DEF Good
    <3> QED
      BY <1>4, <2>6, <3>1, <3>2
  <2>11. Len(d.trail) <= Len(e.trail)
    BY <1>4, <2>6, <2>9 DEF Step
  <2> QED
    BY <1>4, <2>6, <2>7, <2>9, <2>10, <2>11 DEF Step
<1>10. CASE Cardinality(c) # 2
  <2> DEFINE x == [d.ca[cr] EXCEPT !.lits = @ \ {l}]
             ca == [d.ca EXCEPT ![cr] = x]
             g == [f EXCEPT !.ca = ca]
  <2>1. e = updateElimHeap(g, {abs(l)}, eliminated)
    <3>1. e = updateElimHeap([f EXCEPT !.ca[cr].lits = @ \ {l}], {abs(l)}, eliminated)
      BY <1>10 DEF strengthenClause, f, queue
    <3>2. [f EXCEPT !.ca[cr].lits = @ \ {l}] = g
      BY <1>4
    <3> QED
      BY <3>1, <3>2
  <2>2. x \in Cell /\ x.lits = c \ {l} /\ x.live = d.ca[cr].live
    BY <1>2 DEF Cell
  <2>3. /\ ca \in Seq(Cell) /\ Len(ca) = Len(d.ca) /\ DOMAIN ca = DOMAIN d.ca /\ ca[cr] = x
        /\ \A k \in DOMAIN d.ca : k # cr => ca[k] = d.ca[k]
    BY <1>2, <2>2, ExceptSeq
  <2> HIDE DEF x, ca
  <2>4. /\ g \in DBase /\ g.ca = ca /\ g.trail = f.trail /\ g.queue = f.queue
        /\ g.touched = f.touched /\ g.ok = f.ok
    BY <1>4, <2>3 DEF DBase
  <2> HIDE DEF g
  <2>5. {abs(l)} \subseteq Var
    BY <1>2, LitFacts
  <2>6. /\ e \in DBase /\ e.ca = g.ca /\ e.trail = g.trail /\ e.queue = g.queue
        /\ e.touched = g.touched /\ e.ok = g.ok
    BY <2>1, <2>4, <2>5, HeapIs
  <2>7. e.ca[cr].lits = c \ {l} /\ \A k \in DOMAIN d.ca : k # cr => e.ca[k] = d.ca[k]
    BY <2>2, <2>3, <2>4, <2>6
  <2>8. Refs(e) = Refs(d) /\ Facts(e) = Facts(d)
    <3>1. \A k \in DOMAIN d.ca : e.ca[k].live = d.ca[k].live
      BY <2>2, <2>3, <2>4, <2>6
    <3>2. DOMAIN e.ca = DOMAIN d.ca
      BY <2>3, <2>4, <2>6
    <3>3. Facts(e) = Facts(d)
      BY <1>4, <2>4, <2>6 DEF Facts
    <3> QED
      BY <3>1, <3>2, <3>3 DEF Refs
  <2>9. \A k \in DOMAIN d.ca : e.ca[k].lits \subseteq d.ca[k].lits
    BY <2>7
  <2>10. Wf(e)
    <3>1. ToSet(e.queue) \subseteq DOMAIN e.ca
      BY <1>4, <1>6, <2>3, <2>4, <2>6 DEF Wf
    <3>2. \A k \in DOMAIN e.ca : ~Tautology(e.ca[k].lits)
      BY <1>1, <2>3, <2>4, <2>6, <2>9 DEF Wf, Tautology
    <3> QED
      BY <2>6, <3>1, <3>2 DEF Wf
  <2>11. Free(e, E)
    BY <1>1, <1>2, <2>8, <2>9 DEF Free, VarsOf
  <2>12. Sound(e)
    <3> SUFFICES ASSUME NEW a \in Models PROVE e.ok /\ Holds(e, learnts, a)
      BY DEF Sound
    <3>1. d.ok /\ Holds(d, learnts, a)
      BY <1>1 DEF Sound
    <3>2. \A k \in Refs(e) : e.ca[k].lits \cap a # {}
      <4> SUFFICES ASSUME NEW k \in Refs(e) PROVE e.ca[k].lits \cap a # {}
        OBVIOUS
      <4>1. CASE k = cr
        BY <2>7, <4>1
      <4>2. CASE k # cr
        <5>1. e.ca[k] = d.ca[k] /\ k \in Refs(d)
          BY <1>2, <2>7, <2>8, <4>2
        <5>2. d.ca[k].lits \in Clauses(d, learnts)
          BY <5>1 DEF Clauses
        <5> QED
          BY <3>1, <5>1, <5>2 DEF Holds
      <4> QED
        BY <4>1, <4>2
    <3>3. \A x1 \in learnts : x1 \cap a # {}
      BY <3>1 DEF Holds, Clauses
    <3>4. \A x1 \in Clauses(e, learnts) : x1 \cap a # {}
      BY <3>2, <3>3 DEF Clauses
    <3> QED
      BY <1>4, <2>4, <2>6, <2>8, <3>1, <3>4 DEF Holds
  <2>13. \A a : Good(e, E, a) => Good(d, E, a)
    <3> SUFFICES ASSUME NEW a, Good(e, E, a) PROVE \A k \in Refs(d) : d.ca[k].lits \cap a # {}
      BY <2>8 DEF Good
    <3> QED
      BY <1>2, <2>8, <2>9 DEF Good
  <2> QED
    BY <1>2, <1>4, <2>3, <2>4, <2>6, <2>7, <2>8, <2>10, <2>11, <2>12, <2>13 DEF Step, Right, Keeps
<1> QED
  BY <1>9, <1>10

\* c is the clause cr, or a fact.
Given(d, cr, c) ==
    /\ c \subseteq Lit /\ ~Tautology(c)
    /\ \/ cr \in Refs(d) /\ d.ca[cr].lits = c
       \/ cr = 0 /\ \E l \in Facts(d) : c = {l}

Checks(d, e, E, cr, c) ==
    /\ Step(d, e, E) /\ e.touched = d.touched /\ DOMAIN e.ca = DOMAIN d.ca
    /\ Given(e, cr, c)

\* A clause and a candidate.
LEMMA Checked ==
    ASSUME NEW d, NEW E, Right(d, E), learnts \subseteq SUBSET Lit,
           NEW other \in DOMAIN d.ca, NEW cr, NEW c, Given(d, cr, c)
    PROVE  Checks(d, Check(d, cr, c, other), E, cr, c)
<1> DEFINE o == d.ca[other].lits
<1>1. PICK e : e = Check(d, cr, c, other)
  OBVIOUS
<1>2. /\ d \in DBase /\ Wf(d) /\ Free(d, E) /\ Sound(d) /\ Refs(d) \subseteq DOMAIN d.ca
      /\ DOMAIN d.ca = 1..Len(d.ca) /\ Len(d.ca) \in Nat /\ o \subseteq Lit
      /\ Len(d.trail) \in Nat
  <2>1. d \in DBase /\ Wf(d) /\ Free(d, E) /\ Sound(d)
    BY DEF Right, Wf
  <2> QED
    BY <2>1, Fields DEF Refs
<1>3. CASE ~d.ok \/ ~d.ca[other].live \/ other = cr
  <2>1. e = d
    BY <1>1, <1>3 DEF Check
  <2> QED
    BY <1>1, <2>1, NoStep DEF Checks
<1>4. CASE ~(~d.ok \/ ~d.ca[other].live \/ other = cr) /\ subsumes(c, o)
  <2>1. e = removeClause(d, other, eliminated)
    BY <1>1, <1>4 DEF Check
  <2>2. IsRemoved(d, e, other) /\ Right(e, E)
    BY <1>2, <2>1, RemovedIs, RemovedRight
  <2>3. c \subseteq o /\ other \in Refs(d) /\ other # cr
    BY <1>4 DEF subsumes, Refs
  <2>4. Given(e, cr, c)
    BY <1>2, <2>2, <2>3 DEF Given, IsRemoved
  <2>5. ASSUME NEW a, Good(e, E, a) PROVE Good(d, E, a)
    <3>1. o \cap a # {}
      <4>1. CASE cr \in Refs(d) /\ d.ca[cr].lits = c
        <5>1. cr \in Refs(e) /\ e.ca[cr].lits = c
          BY <1>2, <2>2, <2>3, <4>1 DEF IsRemoved
        <5> QED
          BY <2>3, <2>5, <5>1 DEF Good
      <4>2. CASE \E l \in Facts(d) : c = {l}
        <5>1. PICK l \in Facts(d) : c = {l}
          BY <4>2
        <5>2. l \in o /\ l \in Facts(e)
          BY <2>2, <2>3, <5>1 DEF IsRemoved
        <5>3. abs(l) \notin E
          BY <1>2, <2>3, <5>2 DEF Free, VarsOf
        <5> QED
          BY <2>5, <5>2, <5>3 DEF Good
      <4> QED
        BY <4>1, <4>2 DEF Given
    <3>2. \A k \in Refs(d) : k # other => k \in Refs(e) /\ e.ca[k].lits = d.ca[k].lits
      BY <1>2, <2>2 DEF IsRemoved
    <3> QED
      BY <2>2, <2>5, <3>1, <3>2 DEF Good, IsRemoved
  <2>6. e.trail = d.trail /\ e.touched = d.touched /\ e.ok = d.ok /\ DOMAIN e.ca = DOMAIN d.ca
    BY <2>2 DEF IsRemoved
  <2> QED
    BY <1>1, <1>2, <2>2, <2>4, <2>5, <2>6 DEF Checks, Step, Keeps
<1>5. CASE /\ ~(~d.ok \/ ~d.ca[other].live \/ other = cr) /\ ~subsumes(c, o)
           /\ Strengthens(c, o) = {}
  <2>1. e = d
    BY <1>1, <1>5 DEF Check
  <2> QED
    BY <1>1, <2>1, NoStep DEF Checks
<1>6. CASE /\ ~(~d.ok \/ ~d.ca[other].live \/ other = cr) /\ ~subsumes(c, o)
           /\ Strengthens(c, o) # {}
  <2>1. PICK l : l = Only(Strengthens(c, o))
    OBVIOUS
  <2>2. l \in c /\ -l \in o /\ l \notin o /\ c \ {l} \subseteq o
    <3>1. l \in Strengthens(c, o)
      BY <1>6, <2>1, OnlyOf
    <3> QED
      BY <3>1 DEF Strengthens
  <2>3. e = strengthenClause(d, other, -l)
    BY <1>1, <1>6, <2>1 DEF Check
  <2>4. other \in Refs(d) /\ other # cr
    BY <1>6 DEF Refs
  <2>5. ASSUME NEW a \in Models PROVE (o \ {-l}) \cap a # {}
    <3>1. a \in Assignments /\ Facts(d) \subseteq a /\ \A x \in Clauses(d, learnts) : x \cap a # {}
      BY <1>2 DEF Sound, Holds
    <3>2. c \cap a # {}
      BY <3>1 DEF Given, Clauses
    <3>3. o \cap a # {}
      BY <2>4, <3>1 DEF Clauses
    <3>4. PICK k \in c : k \in a
      BY <3>2
    <3>5. CASE k = l
      <4>1. -l \notin a
        BY <1>2, <2>2, <3>1, <3>4, <3>5, Opposite DEF Given
      <4> QED
        BY <3>3, <4>1
    <3>6. CASE k # l
      <4>1. k \in o
        BY <2>2, <3>4, <3>6
      <4>2. k # -l
        BY <2>2, <3>4 DEF Given, Tautology
      <4> QED
        BY <3>4, <4>1, <4>2
    <3> QED
      BY <3>5, <3>6
  <2>6. PICK m : m = -l
    OBVIOUS
  <2>7. /\ Step(d, e, E) /\ e.touched = d.touched /\ DOMAIN e.ca = DOMAIN d.ca
        /\ \A k \in DOMAIN d.ca : k # other => e.ca[k] = d.ca[k]
        /\ Facts(d) \subseteq Facts(e)
    BY <2>2, <2>3, <2>4, <2>5, <2>6, Strengthened
  <2>8. Given(e, cr, c)
    <3>1. cr \in Refs(d) => cr \in Refs(e) /\ e.ca[cr] = d.ca[cr]
      BY <1>2, <2>4, <2>7 DEF Refs
    <3> QED
      BY <2>7, <3>1 DEF Given
  <2> QED
    BY <1>1, <2>7, <2>8 DEF Checks
<1> QED
  BY <1>3, <1>4, <1>5, <1>6

LEMMA ChecksOn ==
    ASSUME NEW d, NEW e, NEW f, NEW E, NEW cr, NEW c, d \in DBase,
           Checks(d, e, E, cr, c), Checks(e, f, E, cr, c)
    PROVE  Checks(d, f, E, cr, c)
  BY StepsOn DEF Checks

\* A clause and all candidates.
LEMMA AllChecked ==
    ASSUME NEW d, NEW E, Right(d, E), learnts \subseteq SUBSET Lit,
           NEW cr, NEW c, Given(d, cr, c), NEW best
    PROVE  Checks(d, CheckAll(d, cr, c, best), E, cr, c)
<1> DEFINE s == Ascending(occurs(d, best))
           N == Len(s)
           T == {e \in DBase : Checks(d, e, E, cr, c)}
           Eq(g) == g = [n \in 0..Len(s) |->
                            IF n = 0 THEN d ELSE Only({Check(e, cr, c, s[n]) : e \in {g[n - 1]}})]
           f == CHOOSE g : Eq(g)
           st == [n \in 1..N |-> [e \in T |-> Check(e, cr, c, s[n])]]
<1>1. N \in Nat /\ \A n \in 1..N : s[n] \in DOMAIN d.ca
  <2>1. d \in DBase
    BY DEF Right, Wf
  <2>2. DOMAIN d.ca = 1..Len(d.ca) /\ Len(d.ca) \in Nat
    BY <2>1, Fields
  <2>3. occurs(d, best) \subseteq 1..Len(d.ca)
    BY <2>2 DEF occurs, Refs
  <2> QED
    BY <2>2, <2>3, AscendingOf
<1>2. d \in T
  <2>1. d \in DBase
    BY DEF Right, Wf
  <2> QED
    BY <2>1, NoStep DEF Checks
<1> HIDE DEF s
<1>3. \A n \in 1..N, e \in T : Check(e, cr, c, s[n]) \in T
  <2> SUFFICES ASSUME NEW n \in 1..N, NEW e \in T PROVE Check(e, cr, c, s[n]) \in T
    OBVIOUS
  <2>1. Checks(d, e, E, cr, c) /\ d \in DBase
    BY <1>2
  <2>2. Right(e, E) /\ s[n] \in DOMAIN e.ca /\ Given(e, cr, c)
    BY <1>1, <2>1 DEF Checks, Step
  <2>3. PICK x : x = Check(e, cr, c, s[n])
    OBVIOUS
  <2>4. Checks(e, x, E, cr, c)
    BY <2>2, <2>3, Checked
  <2>5. Checks(d, x, E, cr, c)
    BY <2>1, <2>4, ChecksOn
  <2>6. x \in DBase
    BY <2>4 DEF Checks, Step, Right, Wf
  <2> QED
    BY <2>3, <2>5, <2>6
<1> HIDE DEF T
<1>4. st \in [1..N -> [T -> T]]
  BY <1>3
<1>5. PICK p : Chain(p, N, T, d, st)
  BY <1>1, <1>2, <1>4, Recursion
<1>6. Eq(p)
  <2>1. p \in [0..N -> T] /\ p[0] = d /\ \A n \in 1..N : p[n] = st[n][p[n - 1]]
    BY <1>5 DEF Chain
  <2>2. ASSUME NEW n \in 0..N
        PROVE  p[n] = IF n = 0 THEN d ELSE Only({Check(e, cr, c, s[n]) : e \in {p[n - 1]}})
    <3>1. CASE n = 0
      BY <2>1, <3>1
    <3>2. CASE n # 0
      <4>1. n \in 1..N /\ n - 1 \in 0..N
        BY <1>1, <3>2
      <4>2. p[n] = Check(p[n - 1], cr, c, s[n])
        BY <2>1, <4>1
      <4>3. {Check(e, cr, c, s[n]) : e \in {p[n - 1]}} = {Check(p[n - 1], cr, c, s[n])}
        OBVIOUS
      <4> QED
        BY <3>2, <4>2, <4>3, OnlyOf
    <3> QED
      BY <3>1, <3>2
  <2> HIDE DEF st
  <2> QED
    BY <1>1, <2>1, <2>2
<1>7. Eq(f)
  BY <1>6, Zenon
<1> HIDE DEF f, st
<1>8. f = [n \in 0..N |-> IF n = 0 THEN d ELSE Only({Check(e, cr, c, s[n]) : e \in {f[n - 1]}})]
  BY <1>7
<1>9. f[0] = d
  <2>1. 0 \in 0..N
    BY <1>1
  <2> QED
    BY <1>8, <2>1
<1>10. \A n \in 1..N : f[n] = Check(f[n - 1], cr, c, s[n])
  <2> SUFFICES ASSUME NEW n \in 1..N PROVE f[n] = Check(f[n - 1], cr, c, s[n])
    OBVIOUS
  <2>1. n \in 0..N /\ n # 0
    BY <1>1
  <2>2. f[n] = Only({Check(e, cr, c, s[n]) : e \in {f[n - 1]}})
    BY <1>8, <2>1
  <2>3. {Check(e, cr, c, s[n]) : e \in {f[n - 1]}} = {Check(f[n - 1], cr, c, s[n])}
    OBVIOUS
  <2> QED
    BY <2>2, <2>3, OnlyOf
<1> HIDE DEF Eq
<1>11. \A n \in 0..N : f[n] \in T
  <2> DEFINE K == {n \in 0..N : f[n] \in T}
  <2>1. 0 \in K
    BY <1>1, <1>2, <1>9
  <2>2. ASSUME NEW n \in 1..N, n - 1 \in K PROVE n \in K
    <3>1. f[n - 1] \in T /\ n \in 0..N
      BY <1>1, <2>2
    <3> QED
      BY <1>3, <1>10, <3>1
  <2> HIDE DEF K
  <2>3. \A n \in 0..N : n \in K
    BY <1>1, <2>1, <2>2, Upwards
  <2> QED
    BY <2>3 DEF K
<1>12. CheckAll(d, cr, c, best) = f[Len(s)]
  BY Zenon DEF CheckAll, Fold, f, Eq, s
<1>13. f[Len(s)] \in T
  BY <1>1, <1>11
<1> QED
  BY <1>12, <1>13 DEF T, s

-----------------------------------------------------------------------------
(* Eliminating a variable *)

\* e is d without the clauses of S.
Without(d, e, E, S) ==
    /\ Right(e, E) /\ e.trail = d.trail /\ e.ok = d.ok
    /\ DOMAIN e.ca = DOMAIN d.ca
    /\ \A k \in DOMAIN d.ca : e.ca[k].lits = d.ca[k].lits
    /\ Refs(e) = Refs(d) \ S

\* The clauses on a variable are removed.
LEMMA AllRemoved ==
    ASSUME NEW d, NEW E, Right(d, E), NEW v, NEW gone
    PROVE  Without(d, removeOccurrences(d, v, gone), E, occurs(d, v))
<1> DEFINE S == occurs(d, v)
           s == Ascending(S)
           N == Len(s)
           T == {e \in DBase : Without(d, e, E, Refs(d) \ Refs(e)) /\ Refs(d) \ S \subseteq Refs(e)}
           Eq(g) == g = [n \in 0..Len(s) |->
                            IF n = 0 THEN d ELSE Only({removeClause(e, s[n], gone) : e \in {g[n - 1]}})]
           f == CHOOSE g : Eq(g)
           st == [n \in 1..N |-> [e \in T |-> removeClause(e, s[n], gone)]]
<1>1. /\ N \in Nat /\ \A n \in 1..N : s[n] \in S /\ s[n] \in DOMAIN d.ca
      /\ \A x \in S : \E k \in 1..N : s[k] = x
      /\ S \subseteq Refs(d)
  <2>1. d \in DBase
    BY DEF Right, Wf
  <2>2. DOMAIN d.ca = 1..Len(d.ca) /\ Len(d.ca) \in Nat
    BY <2>1, Fields
  <2>3. occurs(d, v) \subseteq 1..Len(d.ca) /\ occurs(d, v) \subseteq Refs(d)
    BY <2>2 DEF occurs, Refs
  <2> QED
    BY <2>2, <2>3, AscendingOf
<1>2. d \in T
  <2>1. d \in DBase
    BY DEF Right, Wf
  <2> QED
    BY <2>1 DEF Without
<1> HIDE DEF s, S
<1>3. ASSUME NEW n \in 1..N, NEW e \in T
      PROVE  /\ removeClause(e, s[n], gone) \in T
             /\ Refs(removeClause(e, s[n], gone)) = Refs(e) \ {s[n]}
  <2>1. Without(d, e, E, Refs(d) \ Refs(e)) /\ Refs(d) \ S \subseteq Refs(e) /\ e \in DBase
    BY <1>3
  <2>2. Right(e, E) /\ s[n] \in DOMAIN e.ca
    BY <1>1, <2>1 DEF Without
  <2>3. PICK x : x = removeClause(e, s[n], gone)
    OBVIOUS
  <2>4. IsRemoved(e, x, s[n]) /\ Right(x, E)
    BY <2>1, <2>2, <2>3, RemovedIs, RemovedRight
  <2>5. Refs(x) = Refs(e) \ {s[n]}
    BY <2>4 DEF IsRemoved
  <2>6. Refs(e) \subseteq Refs(d)
    BY <2>1 DEF Without
  <2>7. Without(d, x, E, Refs(d) \ Refs(x))
    BY <2>1, <2>4, <2>5, <2>6 DEF Without, IsRemoved
  <2>8. Refs(d) \ S \subseteq Refs(x)
    BY <1>1, <2>1, <2>5
  <2>9. x \in DBase
    BY <2>4 DEF IsRemoved
  <2> QED
    BY <2>3, <2>5, <2>7, <2>8, <2>9
<1>14. \A e \in T : e \in DBase /\ Without(d, e, E, Refs(d) \ Refs(e)) /\ Refs(d) \ S \subseteq Refs(e)
  OBVIOUS
<1> HIDE DEF T
<1>4. st \in [1..N -> [T -> T]]
  BY <1>3
<1>5. PICK p : Chain(p, N, T, d, st)
  BY <1>1, <1>2, <1>4, Recursion
<1>6. Eq(p)
  <2>1. p \in [0..N -> T] /\ p[0] = d /\ \A n \in 1..N : p[n] = st[n][p[n - 1]]
    BY <1>5 DEF Chain
  <2>2. ASSUME NEW n \in 0..N
        PROVE  p[n] = IF n = 0 THEN d ELSE Only({removeClause(e, s[n], gone) : e \in {p[n - 1]}})
    <3>1. CASE n = 0
      BY <2>1, <3>1
    <3>2. CASE n # 0
      <4>1. n \in 1..N /\ n - 1 \in 0..N
        BY <1>1, <3>2
      <4>2. p[n] = removeClause(p[n - 1], s[n], gone)
        BY <2>1, <4>1
      <4>3. {removeClause(e, s[n], gone) : e \in {p[n - 1]}} = {removeClause(p[n - 1], s[n], gone)}
        OBVIOUS
      <4> QED
        BY <3>2, <4>2, <4>3, OnlyOf
    <3> QED
      BY <3>1, <3>2
  <2> HIDE DEF st
  <2> QED
    BY <1>1, <2>1, <2>2
<1>7. Eq(f)
  BY <1>6, Zenon
<1> HIDE DEF f, st
<1>8. f = [n \in 0..N |-> IF n = 0 THEN d ELSE Only({removeClause(e, s[n], gone) : e \in {f[n - 1]}})]
  BY <1>7
<1>9. f[0] = d
  <2>1. 0 \in 0..N
    BY <1>1
  <2> QED
    BY <1>8, <2>1
<1>10. \A n \in 1..N : f[n] = removeClause(f[n - 1], s[n], gone)
  <2> SUFFICES ASSUME NEW n \in 1..N PROVE f[n] = removeClause(f[n - 1], s[n], gone)
    OBVIOUS
  <2>1. n \in 0..N /\ n # 0
    BY <1>1
  <2>2. f[n] = Only({removeClause(e, s[n], gone) : e \in {f[n - 1]}})
    BY <1>8, <2>1
  <2>3. {removeClause(e, s[n], gone) : e \in {f[n - 1]}} = {removeClause(f[n - 1], s[n], gone)}
    OBVIOUS
  <2> QED
    BY <2>2, <2>3, OnlyOf
<1> HIDE DEF Eq
<1>11. \A n \in 0..N : f[n] \in T /\ \A k \in 1..n : s[k] \notin Refs(f[n])
  <2> DEFINE K == {n \in 0..N : f[n] \in T /\ \A k \in 1..n : s[k] \notin Refs(f[n])}
  <2>1. 0 \in K
    BY <1>1, <1>2, <1>9
  <2>2. ASSUME NEW n \in 1..N, n - 1 \in K PROVE n \in K
    <3>1. f[n - 1] \in T /\ n \in 0..N /\ \A k \in 1..(n - 1) : s[k] \notin Refs(f[n - 1])
      BY <1>1, <2>2
    <3>2. f[n] \in T /\ Refs(f[n]) = Refs(f[n - 1]) \ {s[n]}
      BY <1>3, <1>10, <3>1
    <3>3. \A k \in 1..n : k \in 1..(n - 1) \/ k = n
      BY <1>1
    <3> QED
      BY <3>1, <3>2, <3>3
  <2> HIDE DEF K
  <2>3. \A n \in 0..N : n \in K
    BY <1>1, <2>1, <2>2, Upwards
  <2> QED
    BY <2>3 DEF K
<1>12. removeOccurrences(d, v, gone) = f[Len(s)]
  BY Zenon DEF removeOccurrences, Fold, f, Eq, s, S
<1>13. f[N] \in T /\ \A k \in 1..N : s[k] \notin Refs(f[N])
  BY <1>1, <1>11
<1>15. Refs(f[N]) = Refs(d) \ S
  <2>1. Refs(f[N]) \subseteq Refs(d)
    BY <1>13, <1>14 DEF Without
  <2>2. S \cap Refs(f[N]) = {}
    BY <1>1, <1>13
  <2> QED
    BY <1>13, <1>14, <2>1, <2>2
<1>16. Refs(d) \ Refs(f[N]) = S
  BY <1>1, <1>15
<1>17. Without(d, f[N], E, S)
  BY <1>13, <1>14, <1>16
<1> QED
  BY <1>12, <1>17 DEF s, S

\* A clause that may be added, and the clauses of R added to e.
Fits(r, E) == r \subseteq Lit /\ VarsOf(r) \cap E = {} /\ \A a \in Models : r \cap a # {}
Yields(e, x, E, R) ==
    /\ Step(e, x, E)
    /\ x.ok => \A a : Good(x, E, a) => \A r \in R : r \cap a # {}

LEMMA YieldsOn ==
    ASSUME NEW d, NEW e, NEW f, NEW E, NEW R, NEW Q, d \in DBase,
           Yields(d, e, E, R), Yields(e, f, E, Q)
    PROVE  Yields(d, f, E, R \cup Q)
<1>1. Step(d, f, E)
  BY StepsOn DEF Yields
<1>2. f.ok => e.ok /\ \A a : Good(f, E, a) => Good(e, E, a)
  BY DEF Yields, Step, Keeps
<1> QED
  BY <1>1, <1>2 DEF Yields

LEMMA ResolventAdded ==
    ASSUME NEW e, NEW E, Right(e, E), learnts \subseteq SUBSET Lit, NEW d, NEW v, NEW i, NEW j,
           Fits(merge(d.ca[i].lits, d.ca[j].lits, v), E)
    PROVE  Yields(e, addResolvent(e, d, v, i, j), E, {merge(d.ca[i].lits, d.ca[j].lits, v)})
<1>1. PICK r : r = merge(d.ca[i].lits, d.ca[j].lits, v)
  OBVIOUS
<1>2. PICK x : x = addResolvent(e, d, v, i, j)
  OBVIOUS
<1>3. CASE Tautology(r)
  <2>1. x = e
    BY <1>1, <1>2, <1>3 DEF addResolvent
  <2>2. PICK l \in r : -l \in r
    BY <1>3 DEF Tautology
  <2>3. l \in Lit /\ abs(l) \notin E
    BY <1>1, <2>2 DEF Fits, VarsOf
  <2>4. \A a : Good(e, E, a) => r \cap a # {}
    BY <2>2, <2>3 DEF Good
  <2> QED
    BY <1>1, <1>2, <2>1, <2>4, NoStep DEF Yields
<1>4. CASE ~Tautology(r)
  <2>1. x = AddClause(e, r)
    BY <1>1, <1>2, <1>4 DEF addResolvent
  <2>2. Step(e, x, E) /\ (x.ok => \A a : Good(x, E, a) => r \cap a # {})
    BY <1>1, <2>1, Added DEF Fits
  <2> QED
    BY <1>1, <1>2, <2>2 DEF Yields
<1> QED
  BY <1>3, <1>4

\* The resolvents of one clause.
LEMMA ResolventsAdded ==
    ASSUME NEW e0, NEW E, Right(e0, E), learnts \subseteq SUBSET Lit,
           NEW d, d \in DBase, NEW v, NEW i,
           \A j \in ToSet(Occ(d, -v)) : Fits(merge(d.ca[i].lits, d.ca[j].lits, v), E)
    PROVE  Yields(e0, addResolvents(e0, d, v, i), E,
                  {merge(d.ca[i].lits, d.ca[j].lits, v) : j \in ToSet(Occ(d, -v))})
<1> DEFINE s == Occ(d, -v)
           N == Len(s)
           m(n) == merge(d.ca[i].lits, d.ca[s[n]].lits, v)
           T == {e \in DBase : Step(e0, e, E)}
           Eq(g) == g = [n \in 0..Len(s) |->
                            IF n = 0 THEN e0
                            ELSE Only({addResolvent(e, d, v, i, s[n]) : e \in {g[n - 1]}})]
           f == CHOOSE g : Eq(g)
           st == [n \in 1..N |-> [e \in T |-> addResolvent(e, d, v, i, s[n])]]
<1>1. /\ N \in Nat /\ \A n \in 1..N : s[n] \in ToSet(s)
      /\ \A x \in ToSet(s) : \E k \in 1..N : s[k] = x
  <2>1. DOMAIN d.ca = 1..Len(d.ca) /\ Len(d.ca) \in Nat
    BY Fields
  <2>2. PICK S : S = {cr \in Refs(d) : -v \in d.ca[cr].lits}
    OBVIOUS
  <2>3. S \subseteq 1..Len(d.ca) /\ s = Ascending(S)
    BY <2>1, <2>2 DEF Refs, Occ
  <2> QED
    BY <2>1, <2>3, AscendingOf, ZenonT(60)
<1>2. e0 \in T
  <2>1. e0 \in DBase
    BY DEF Right, Wf
  <2> QED
    BY <2>1, NoStep
<1>3. ASSUME NEW n \in 1..N, NEW e \in T
      PROVE  /\ addResolvent(e, d, v, i, s[n]) \in T
             /\ Yields(e, addResolvent(e, d, v, i, s[n]), E, {m(n)})
  <2>1. Right(e, E) /\ Step(e0, e, E) /\ e0 \in DBase
    BY <1>2 DEF Step
  <2>2. PICK x : x = addResolvent(e, d, v, i, s[n])
    OBVIOUS
  <2>3. s[n] \in ToSet(Occ(d, -v))
    BY <1>1
  <2>4. Fits(m(n), E)
    BY <2>3
  <2>5. Yields(e, x, E, {m(n)})
    BY <2>1, <2>2, <2>4, ResolventAdded
  <2>6. Step(e0, x, E) /\ x \in DBase
    BY <2>1, <2>5, StepsOn DEF Yields, Step, Right, Wf
  <2> QED
    BY <2>2, <2>5, <2>6
<1>14. \A e \in T : e \in DBase /\ Step(e0, e, E)
  OBVIOUS
<1> HIDE DEF T, s, m
<1>4. st \in [1..N -> [T -> T]]
  BY <1>3
<1>5. PICK p : Chain(p, N, T, e0, st)
  BY <1>1, <1>2, <1>4, Recursion
<1>6. Eq(p)
  <2>1. p \in [0..N -> T] /\ p[0] = e0 /\ \A n \in 1..N : p[n] = st[n][p[n - 1]]
    BY <1>5 DEF Chain
  <2>2. ASSUME NEW n \in 0..N
        PROVE  p[n] = IF n = 0 THEN e0
                      ELSE Only({addResolvent(e, d, v, i, s[n]) : e \in {p[n - 1]}})
    <3>1. CASE n = 0
      BY <2>1, <3>1
    <3>2. CASE n # 0
      <4>1. n \in 1..N /\ n - 1 \in 0..N
        BY <1>1, <3>2
      <4>2. p[n] = addResolvent(p[n - 1], d, v, i, s[n])
        BY <2>1, <4>1
      <4>3. {addResolvent(e, d, v, i, s[n]) : e \in {p[n - 1]}} = {addResolvent(p[n - 1], d, v, i, s[n])}
        OBVIOUS
      <4> QED
        BY <3>2, <4>2, <4>3, OnlyOf
    <3> QED
      BY <3>1, <3>2
  <2> HIDE DEF st
  <2> QED
    BY <1>1, <2>1, <2>2
<1>7. Eq(f)
  BY <1>6, Zenon
<1> HIDE DEF f, st
<1>8. f = [n \in 0..N |-> IF n = 0 THEN e0
                          ELSE Only({addResolvent(e, d, v, i, s[n]) : e \in {f[n - 1]}})]
  BY <1>7
<1>9. f[0] = e0
  <2>1. 0 \in 0..N
    BY <1>1
  <2> QED
    BY <1>8, <2>1
<1>10. \A n \in 1..N : f[n] = addResolvent(f[n - 1], d, v, i, s[n])
  <2> SUFFICES ASSUME NEW n \in 1..N PROVE f[n] = addResolvent(f[n - 1], d, v, i, s[n])
    OBVIOUS
  <2>1. n \in 0..N /\ n # 0
    BY <1>1
  <2>2. f[n] = Only({addResolvent(e, d, v, i, s[n]) : e \in {f[n - 1]}})
    BY <1>8, <2>1
  <2>3. {addResolvent(e, d, v, i, s[n]) : e \in {f[n - 1]}} = {addResolvent(f[n - 1], d, v, i, s[n])}
    OBVIOUS
  <2> QED
    BY <2>2, <2>3, OnlyOf
<1> HIDE DEF Eq
<1>11. \A n \in 0..N : f[n] \in T /\ Yields(e0, f[n], E, {m(k) : k \in 1..n})
  <2> DEFINE K == {n \in 0..N : f[n] \in T /\ Yields(e0, f[n], E, {m(k) : k \in 1..n})}
  <2>1. 0 \in K
    <3>1. Yields(e0, f[0], E, {})
      BY <1>2, <1>9, <1>14 DEF Yields
    <3>2. {m(k) : k \in 1..0} = {}
      OBVIOUS
    <3>3. 0 \in 0..N
      BY <1>1
    <3> QED
      BY <1>2, <1>9, <3>1, <3>2, <3>3
  <2>2. ASSUME NEW n \in 1..N, n - 1 \in K PROVE n \in K
    <3>1. /\ f[n - 1] \in T /\ n \in 0..N /\ f[n - 1] \in DBase /\ e0 \in DBase
          /\ Yields(e0, f[n - 1], E, {m(k) : k \in 1..(n - 1)})
      BY <1>1, <1>2, <1>14, <2>2
    <3>2. f[n] \in T /\ Yields(f[n - 1], f[n], E, {m(n)})
      BY <1>3, <1>10, <3>1
    <3>3. Yields(e0, f[n], E, {m(k) : k \in 1..(n - 1)} \cup {m(n)})
      BY <3>1, <3>2, YieldsOn
    <3>4. {m(k) : k \in 1..n} = {m(k) : k \in 1..(n - 1)} \cup {m(n)}
      <4>1. \A k : k \in 1..n <=> k \in 1..(n - 1) \/ k = n
        BY <1>1
      <4> QED
        BY <4>1
    <3> QED
      BY <3>1, <3>2, <3>3, <3>4
  <2> HIDE DEF K
  <2>3. \A n \in 0..N : n \in K
    BY <1>1, <2>1, <2>2, Upwards
  <2> QED
    BY <2>3 DEF K
<1>13. addResolvents(e0, d, v, i) = f[N]
  BY Zenon DEF addResolvents, Fold, f, Eq, s
<1>15. Yields(e0, f[N], E, {m(k) : k \in 1..N})
  <2>1. N \in 0..N
    BY <1>1
  <2> QED
    BY <1>11, <2>1, Zenon
<1>16. {m(k) : k \in 1..N} = {merge(d.ca[i].lits, d.ca[j].lits, v) : j \in ToSet(s)}
  BY <1>1 DEF m
<1> QED
  BY <1>13, <1>15, <1>16 DEF s

\* All of them.
LEMMA AllResolventsAdded ==
    ASSUME NEW e0, NEW E, Right(e0, E), learnts \subseteq SUBSET Lit,
           NEW d, d \in DBase, NEW v,
           \A i \in ToSet(Occ(d, v)), j \in ToSet(Occ(d, -v)) :
               Fits(merge(d.ca[i].lits, d.ca[j].lits, v), E)
    PROVE  Yields(e0, addAllResolvents(e0, d, v), E,
                  UNION {{merge(d.ca[i].lits, d.ca[j].lits, v) : j \in ToSet(Occ(d, -v))} :
                             i \in ToSet(Occ(d, v))})
<1> DEFINE s == Occ(d, v)
           N == Len(s)
           m(i) == {merge(d.ca[i].lits, d.ca[j].lits, v) : j \in ToSet(Occ(d, -v))}
           T == {e \in DBase : Step(e0, e, E)}
           Eq(g) == g = [n \in 0..Len(s) |->
                            IF n = 0 THEN e0
                            ELSE Only({addResolvents(e, d, v, s[n]) : e \in {g[n - 1]}})]
           f == CHOOSE g : Eq(g)
           st == [n \in 1..N |-> [e \in T |-> addResolvents(e, d, v, s[n])]]
<1>1. /\ N \in Nat /\ \A n \in 1..N : s[n] \in ToSet(s)
      /\ \A x \in ToSet(s) : \E k \in 1..N : s[k] = x
  <2>1. DOMAIN d.ca = 1..Len(d.ca) /\ Len(d.ca) \in Nat
    BY Fields
  <2>2. PICK S : S = {cr \in Refs(d) : v \in d.ca[cr].lits}
    OBVIOUS
  <2>3. S \subseteq 1..Len(d.ca) /\ s = Ascending(S)
    BY <2>1, <2>2 DEF Refs, Occ
  <2> QED
    BY <2>1, <2>3, AscendingOf
<1>2. e0 \in T
  <2>1. e0 \in DBase
    BY DEF Right, Wf
  <2> QED
    BY <2>1, NoStep
<1>3. ASSUME NEW n \in 1..N, NEW e \in T
      PROVE  /\ addResolvents(e, d, v, s[n]) \in T
             /\ Yields(e, addResolvents(e, d, v, s[n]), E, m(s[n]))
  <2>1. Right(e, E) /\ Step(e0, e, E) /\ e0 \in DBase
    BY <1>2 DEF Step
  <2>2. PICK x : x = addResolvents(e, d, v, s[n])
    OBVIOUS
  <2>3. PICK i : i = s[n]
    OBVIOUS
  <2>4. i \in ToSet(Occ(d, v))
    BY <1>1, <2>3
  <2>5. \A j \in ToSet(Occ(d, -v)) : Fits(merge(d.ca[i].lits, d.ca[j].lits, v), E)
    BY <2>4
  <2>6. Yields(e, x, E, m(i))
    BY <2>1, <2>2, <2>3, <2>5, ResolventsAdded
  <2>7. Step(e0, x, E) /\ x \in DBase
    BY <2>1, <2>6, StepsOn DEF Yields, Step, Right, Wf
  <2> QED
    BY <2>2, <2>3, <2>6, <2>7
<1>14. \A e \in T : e \in DBase /\ Step(e0, e, E)
  OBVIOUS
<1> HIDE DEF T, s, m
<1>4. st \in [1..N -> [T -> T]]
  BY <1>3
<1>5. PICK p : Chain(p, N, T, e0, st)
  BY <1>1, <1>2, <1>4, Recursion
<1>6. Eq(p)
  <2>1. p \in [0..N -> T] /\ p[0] = e0 /\ \A n \in 1..N : p[n] = st[n][p[n - 1]]
    BY <1>5 DEF Chain
  <2>2. ASSUME NEW n \in 0..N
        PROVE  p[n] = IF n = 0 THEN e0
                      ELSE Only({addResolvents(e, d, v, s[n]) : e \in {p[n - 1]}})
    <3>1. CASE n = 0
      BY <2>1, <3>1
    <3>2. CASE n # 0
      <4>1. n \in 1..N /\ n - 1 \in 0..N
        BY <1>1, <3>2
      <4>2. p[n] = addResolvents(p[n - 1], d, v, s[n])
        BY <2>1, <4>1
      <4>3. {addResolvents(e, d, v, s[n]) : e \in {p[n - 1]}} = {addResolvents(p[n - 1], d, v, s[n])}
        OBVIOUS
      <4> QED
        BY <3>2, <4>2, <4>3, OnlyOf
    <3> QED
      BY <3>1, <3>2
  <2> HIDE DEF st
  <2> QED
    BY <1>1, <2>1, <2>2
<1>7. Eq(f)
  BY <1>6, Zenon
<1> HIDE DEF f, st
<1>8. f = [n \in 0..N |-> IF n = 0 THEN e0
                          ELSE Only({addResolvents(e, d, v, s[n]) : e \in {f[n - 1]}})]
  BY <1>7
<1>9. f[0] = e0
  <2>1. 0 \in 0..N
    BY <1>1
  <2> QED
    BY <1>8, <2>1
<1>10. \A n \in 1..N : f[n] = addResolvents(f[n - 1], d, v, s[n])
  <2> SUFFICES ASSUME NEW n \in 1..N PROVE f[n] = addResolvents(f[n - 1], d, v, s[n])
    OBVIOUS
  <2>1. n \in 0..N /\ n # 0
    BY <1>1
  <2>2. f[n] = Only({addResolvents(e, d, v, s[n]) : e \in {f[n - 1]}})
    BY <1>8, <2>1
  <2>3. {addResolvents(e, d, v, s[n]) : e \in {f[n - 1]}} = {addResolvents(f[n - 1], d, v, s[n])}
    OBVIOUS
  <2> QED
    BY <2>2, <2>3, OnlyOf
<1> HIDE DEF Eq
<1>11. \A n \in 0..N : f[n] \in T /\ Yields(e0, f[n], E, UNION {m(s[k]) : k \in 1..n})
  <2> DEFINE K == {n \in 0..N : f[n] \in T /\ Yields(e0, f[n], E, UNION {m(s[k]) : k \in 1..n})}
  <2>1. 0 \in K
    <3>1. Yields(e0, f[0], E, {})
      BY <1>2, <1>9, <1>14 DEF Yields
    <3>2. UNION {m(s[k]) : k \in 1..0} = {}
      OBVIOUS
    <3>3. 0 \in 0..N
      BY <1>1
    <3> QED
      BY <1>2, <1>9, <3>1, <3>2, <3>3
  <2>2. ASSUME NEW n \in 1..N, n - 1 \in K PROVE n \in K
    <3>1. /\ f[n - 1] \in T /\ n \in 0..N /\ f[n - 1] \in DBase /\ e0 \in DBase
          /\ Yields(e0, f[n - 1], E, UNION {m(s[k]) : k \in 1..(n - 1)})
      BY <1>1, <1>2, <1>14, <2>2
    <3>2. f[n] \in T /\ Yields(f[n - 1], f[n], E, m(s[n]))
      BY <1>3, <1>10, <3>1
    <3>3. Yields(e0, f[n], E, (UNION {m(s[k]) : k \in 1..(n - 1)}) \cup m(s[n]))
      BY <3>1, <3>2, YieldsOn
    <3>4. UNION {m(s[k]) : k \in 1..n} = (UNION {m(s[k]) : k \in 1..(n - 1)}) \cup m(s[n])
      <4>1. \A k : k \in 1..n <=> k \in 1..(n - 1) \/ k = n
        BY <1>1
      <4> QED
        BY <4>1
    <3> QED
      BY <3>1, <3>2, <3>3, <3>4
  <2> HIDE DEF K
  <2>3. \A n \in 0..N : n \in K
    BY <1>1, <2>1, <2>2, Upwards
  <2> QED
    BY <2>3 DEF K
<1>12. addAllResolvents(e0, d, v) = f[Len(s)]
  BY Zenon DEF addAllResolvents, Fold, f, Eq, s
<1>15. Yields(e0, f[N], E, UNION {m(s[k]) : k \in 1..N})
  <2>1. N \in 0..N
    BY <1>1
  <2> QED
    BY <1>11, <2>1, Zenon
<1>16. UNION {m(s[k]) : k \in 1..N} = UNION {m(i) : i \in ToSet(s)}
  BY <1>1
<1> QED
  BY <1>12, <1>15, <1>16 DEF s, m

\* The clauses that hold a literal.
LEMMA OccOf ==
    ASSUME NEW d \in DBase, NEW l
    PROVE  /\ Len(Occ(d, l)) \in Nat /\ ToSet(Occ(d, l)) = {cr \in Refs(d) : l \in d.ca[cr].lits}
           /\ \A n \in 1..Len(Occ(d, l)) : Occ(d, l)[n] \in Refs(d) /\ l \in d.ca[Occ(d, l)[n]].lits
           /\ \A cr \in Refs(d) : l \in d.ca[cr].lits => \E n \in 1..Len(Occ(d, l)) : Occ(d, l)[n] = cr
           /\ DOMAIN Occ(d, l) = 1..Len(Occ(d, l))
<1>1. DOMAIN d.ca = 1..Len(d.ca) /\ Len(d.ca) \in Nat
  BY Fields
<1>2. PICK S : S = {cr \in Refs(d) : l \in d.ca[cr].lits}
  OBVIOUS
<1>3. S \subseteq 1..Len(d.ca) /\ Occ(d, l) = Ascending(S)
  BY <1>1, <1>2 DEF Refs, Occ
<1>4. /\ Ascending(S) \in Seq(S) /\ ToSet(Ascending(S)) = S
      /\ Len(Ascending(S)) \in Nat
      /\ \A k \in 1..Len(Ascending(S)) : Ascending(S)[k] \in S
      /\ \A x \in S : \E k \in 1..Len(Ascending(S)) : Ascending(S)[k] = x
  BY <1>1, <1>3, AscendingOf
<1>5. DOMAIN Ascending(S) = 1..Len(Ascending(S))
  BY <1>4, LenProperties
<1> QED
  BY <1>2, <1>3, <1>4, <1>5

\* The resolvents are there, and the clauses without the variable.
Projected(d, E, v, a) ==
    /\ a \subseteq Lit
    /\ \A l \in Lit : l \notin a \/ -l \notin a
    /\ \A l \in Lit : abs(l) \notin E \cup {v} => l \in a \/ -l \in a
    /\ \A cr \in Refs(d) : v \notin VarsOf(d.ca[cr].lits) => d.ca[cr].lits \cap a # {}
    /\ \A l \in Facts(d) : abs(l) \notin E \cup {v} => l \in a
    /\ \A i, j \in Refs(d) : v \in d.ca[i].lits /\ -v \in d.ca[j].lits =>
           ((d.ca[i].lits \cup d.ca[j].lits) \ {v, -v}) \cap a # {}

LEMMA Resolved ==
    ASSUME NEW d, NEW E, Right(d, E), learnts \subseteq SUBSET Lit, NEW v \in Var
    PROVE  /\ Right(Resolve(d, v), E \cup {v})
           /\ Len(d.trail) <= Len(Resolve(d, v).trail)
           /\ Resolve(d, v).ok =>
                  d.ok /\ \A a : Good(Resolve(d, v), E \cup {v}, a) => Projected(d, E, v, a)
<1> DEFINE F == E \cup {v}
           S == occurs(d, v)
<1>1. d \in DBase /\ Wf(d) /\ Free(d, E) /\ Sound(d)
  BY DEF Right, Wf
<1>2. PICK r : r = removeOccurrences(d, v, eliminated \cup {v})
  OBVIOUS
<1>3. Without(d, r, E, S)
  BY <1>2, AllRemoved
<1>4. /\ \A k \in Refs(d) : v \notin VarsOf(d.ca[k].lits) => k \in Refs(r)
      /\ \A k \in Refs(r) : k \in Refs(d) /\ v \notin VarsOf(d.ca[k].lits) /\ r.ca[k].lits = d.ca[k].lits
      /\ Refs(d) \subseteq DOMAIN d.ca
      /\ \A k \in DOMAIN d.ca : d.ca[k].lits \subseteq Lit
      /\ \A k \in Refs(d) : r.ca[k].lits = d.ca[k].lits
  BY <1>1, <1>3, Fields DEF Without, occurs, Refs
<1>5. Right(r, F)
  <2>1. Wf(r) /\ Sound(r) /\ Free(r, E)
    BY <1>3 DEF Without, Right
  <2>2. Free(r, F)
    BY <1>4, <2>1 DEF Free
  <2> QED
    BY <2>1, <2>2 DEF Right
<1>6. \A i \in Refs(d), j \in Refs(d) : v \in d.ca[i].lits /\ -v \in d.ca[j].lits =>
          Fits(merge(d.ca[i].lits, d.ca[j].lits, v), F)
  <2> SUFFICES ASSUME NEW i \in Refs(d), NEW j \in Refs(d), v \in d.ca[i].lits, -v \in d.ca[j].lits
               PROVE  Fits(merge(d.ca[i].lits, d.ca[j].lits, v), F)
    OBVIOUS
  <2>1. PICK p, q : p = d.ca[i].lits /\ q = d.ca[j].lits
    OBVIOUS
  <2>2. PICK m : m = merge(p, q, v)
    OBVIOUS
  <2>3. m = (p \cup q) \ {v, -v} /\ p \subseteq Lit /\ q \subseteq Lit /\ v \in p /\ -v \in q
    BY <1>4, <2>1, <2>2 DEF merge
  <2>4. VarsOf(p) \cap E = {} /\ VarsOf(q) \cap E = {} /\ ~Tautology(p) /\ ~Tautology(q)
    BY <1>1, <1>4, <2>1 DEF Free, Wf
  <2>5. VarsOf(m) \cap F = {}
    <3> SUFFICES ASSUME NEW l \in m PROVE abs(l) \notin F
      BY DEF VarsOf
    <3>1. abs(l) \notin E
      BY <2>3, <2>4 DEF VarsOf
    <3>2. abs(l) # v
      BY <2>3, LitFacts
    <3> QED
      BY <3>1, <3>2
  <2>6. ASSUME NEW a \in Models PROVE m \cap a # {}
    <3>1. a \in Assignments /\ \A x \in Clauses(d, learnts) : x \cap a # {}
      BY <1>1 DEF Sound, Holds
    <3>2. p \cap a # {} /\ q \cap a # {}
      BY <2>1, <3>1 DEF Clauses
    <3>3. v \in Lit /\ (v \notin a \/ -v \notin a) /\ -(-v) = v
      BY <3>1, LitFacts, Opposite
    <3>4. CASE v \notin a
      <4>1. PICK k \in p : k \in a
        BY <3>2
      <4>2. k # v /\ k # -v
        BY <2>3, <2>4, <3>4, <4>1 DEF Tautology
      <4> QED
        BY <2>3, <4>1, <4>2
    <3>5. CASE -v \notin a
      <4>1. PICK k \in q : k \in a
        BY <3>2
      <4>2. k # v /\ k # -v
        BY <2>3, <2>4, <3>5, <4>1 DEF Tautology
      <4> QED
        BY <2>3, <4>1, <4>2
    <3> QED
      BY <3>3, <3>4, <3>5
  <2> QED
    BY <2>1, <2>2, <2>3, <2>5, <2>6 DEF Fits
<1>7. /\ \A i \in ToSet(Occ(d, v)) : i \in Refs(d) /\ v \in d.ca[i].lits
      /\ \A j \in ToSet(Occ(d, -v)) : j \in Refs(d) /\ -v \in d.ca[j].lits
      /\ \A i \in Refs(d) : v \in d.ca[i].lits => i \in ToSet(Occ(d, v))
      /\ \A j \in Refs(d) : -v \in d.ca[j].lits => j \in ToSet(Occ(d, -v))
  BY <1>1, OccOf
<1>8. PICK e : e = addAllResolvents(r, d, v)
  OBVIOUS
<1>9. Resolve(d, v) = e
  BY <1>2, <1>8 DEF Resolve
<1> DEFINE R == UNION {{merge(d.ca[i].lits, d.ca[j].lits, v) : j \in ToSet(Occ(d, -v))} :
                           i \in ToSet(Occ(d, v))}
<1>10. Yields(r, e, F, R)
  <2>1. \A i \in ToSet(Occ(d, v)), j \in ToSet(Occ(d, -v)) :
            Fits(merge(d.ca[i].lits, d.ca[j].lits, v), F)
    BY <1>6, <1>7
  <2>2. Right(r, F)
    BY <1>5
  <2>3. d \in DBase
    BY <1>1
  <2> HIDE DEF F
  <2>4. Yields(r, addAllResolvents(r, d, v), F,
               UNION {{merge(d.ca[i].lits, d.ca[j].lits, v) : j \in ToSet(Occ(d, -v))} :
                          i \in ToSet(Occ(d, v))})
    BY <2>1, <2>2, <2>3, AllResolventsAdded
  <2> QED
    BY <1>8, <2>4
<1> HIDE DEF S
<1>11. \A i, j \in Refs(d) : v \in d.ca[i].lits /\ -v \in d.ca[j].lits =>
           (d.ca[i].lits \cup d.ca[j].lits) \ {v, -v} \in R
  BY <1>7 DEF merge
<1> HIDE DEF R
<1>12. ASSUME e.ok PROVE d.ok /\ \A a : Good(e, F, a) => Projected(d, E, v, a)
  <2>1. d.ok /\ \A a : Good(e, F, a) => Good(r, F, a) /\ \A x \in R : x \cap a # {}
    BY <1>3, <1>10, <1>12 DEF Yields, Step, Keeps, Without
  <2>2. Facts(r) = Facts(d)
    BY <1>3 DEF Without, Facts
  <2>3. ASSUME NEW a, Good(e, F, a) PROVE Projected(d, E, v, a)
    <3>1. Good(r, F, a) /\ \A x \in R : x \cap a # {}
      BY <2>1, <2>3
    <3>2. \A i, j \in Refs(d) : v \in d.ca[i].lits /\ -v \in d.ca[j].lits =>
              ((d.ca[i].lits \cup d.ca[j].lits) \ {v, -v}) \cap a # {}
      BY <1>11, <3>1
    <3>3. \A cr \in Refs(d) : v \notin VarsOf(d.ca[cr].lits) => d.ca[cr].lits \cap a # {}
      BY <1>4, <3>1 DEF Good
    <3> QED
      BY <2>2, <3>1, <3>2, <3>3 DEF Good, Projected
  <2> QED
    BY <2>1, <2>3
<1>13. Right(e, F) /\ Len(d.trail) <= Len(e.trail)
  BY <1>3, <1>10 DEF Yields, Step, Without
<1> QED
  BY <1>9, <1>12, <1>13

\* The replay of s from its end, beginning with a, ends with m.
Replays(c, s, a, m) ==
    /\ c \in [0..Len(s) -> SUBSET Lit] /\ c[Len(s)] = a /\ c[0] = m
    /\ \A n \in 1..Len(s) : c[n - 1] = replay(c[n], s[n])
Replayed(s, a, m) == \E c : Replays(c, s, a, m)

Saved == [lit : Lit, rest : SUBSET Lit]

\* What holds of n, and of a number if of the next, holds of all below.
LEMMA Downwards ==
    ASSUME NEW n \in Nat, NEW K, n \in K, \A k \in 1..n : k \in K => k - 1 \in K
    PROVE  \A k \in 0..n : k \in K
<1> DEFINE J == {k \in 0..n : n - k \in K}
<1>1. 0 \in J
  <2>1. 0 \in 0..n /\ n - 0 = n
    OBVIOUS
  <2> QED
    BY <2>1
<1>2. ASSUME NEW k \in 1..n, k - 1 \in J PROVE k \in J
  <2>1. n - (k - 1) \in 1..n /\ n - (k - 1) \in K /\ (n - (k - 1)) - 1 = n - k /\ k \in 0..n
    BY <1>2
  <2> QED
    BY <2>1
<1> HIDE DEF J
<1>3. \A k \in 0..n : k \in J
  BY <1>1, <1>2, Upwards
<1>4. ASSUME NEW k \in 0..n PROVE k \in K
  <2>1. n - k \in 0..n /\ n - (n - k) = k
    OBVIOUS
  <2> QED
    BY <1>3, <2>1 DEF J
<1> QED
  BY <1>4

\* The clauses that hold a literal, the unit of the other last.
IsBlock(B, d, l) == B = Append(mkElimClauses(d, l), [lit |-> -l, rest |-> {}])
\* Replaying them makes of a something that satisfies the clauses on v too.
Decides(d, E, v, a, m) ==
    /\ Good(d, E, m)
    /\ \A k \in Lit : abs(k) # v => (k \in m <=> k \in a)

\* The saved clauses of a variable decide its value.
LEMMA BlockReplayed ==
    ASSUME NEW d, NEW E, Right(d, E), NEW v \in Var, v \notin E, v \notin Assigned(d),
           NEW l, l = v \/ l = -v,
           NEW B, IsBlock(B, d, l),
           NEW a, Projected(d, E, v, a), NEW m, Replayed(B, a, m)
    PROVE  Decides(d, E, v, a, m)
<1> DEFINE s == Occ(d, l)
           N == Len(s)
           rest(n) == d.ca[s[n]].lits \ {l}
           false(n) == \A k \in rest(n) : -k \in a
<1>1. d \in DBase /\ Wf(d) /\ Free(d, E) /\ Refs(d) \subseteq DOMAIN d.ca
      /\ \A k \in Refs(d) : d.ca[k].lits \subseteq Lit /\ ~Tautology(d.ca[k].lits)
      /\ Facts(d) \subseteq Lit
  BY Fields DEF Right, Wf, Refs
<1>2. l \in Lit /\ -l \in Lit /\ -(-l) = l /\ l # -l /\ abs(l) = v /\ abs(-l) = v
  BY LitFacts
<1>3. /\ N \in Nat /\ DOMAIN s = 1..N
      /\ \A n \in 1..N : s[n] \in Refs(d) /\ l \in d.ca[s[n]].lits
      /\ \A cr \in Refs(d) : l \in d.ca[cr].lits => \E n \in 1..N : s[n] = cr
  BY <1>1, OccOf
<1>4. \A k \in Lit : abs(k) = v => k = l \/ k = -l
  BY <1>2, LitFacts
<1> HIDE DEF s
<1>5. \A n \in 1..N : /\ rest(n) \subseteq Lit
                      /\ \A k \in rest(n) : abs(k) # v /\ -k \in Lit /\ abs(-k) # v /\ abs(k) \notin E
  <2> SUFFICES ASSUME NEW n \in 1..N, NEW k \in rest(n)
               PROVE  k \in Lit /\ abs(k) # v /\ -k \in Lit /\ abs(-k) # v /\ abs(k) \notin E
    OBVIOUS
  <2>1. k \in d.ca[s[n]].lits /\ k # l /\ s[n] \in Refs(d) /\ l \in d.ca[s[n]].lits
    BY <1>3
  <2>2. k \in Lit /\ k # -l
    BY <1>1, <2>1 DEF Tautology
  <2>3. abs(k) # v
    BY <1>4, <2>1, <2>2
  <2>4. abs(k) \notin E
    BY <1>1, <2>1 DEF Free, VarsOf
  <2> QED
    BY <2>2, <2>3, <2>4, LitFacts
<1> DEFINE M == mkElimClauses(d, l)
<1>6. /\ M \in Seq(Saved) /\ Len(M) = N
      /\ \A n \in 1..N : M[n].lit = l /\ M[n].rest = rest(n)
  <2>1. M = [n \in 1..N |-> [lit |-> l, rest |-> rest(n)]]
    BY <1>3 DEF mkElimClauses, s
  <2>2. \A n \in 1..N : [lit |-> l, rest |-> rest(n)] \in Saved
    BY <1>2, <1>5 DEF Saved
  <2> HIDE DEF M, rest
  <2>3. M \in [1..N -> Saved]
    BY <2>1, <2>2
  <2>4. M \in Seq(Saved) /\ Len(M) = N
    BY <1>3, <2>3, SeqDef
  <2> QED
    BY <2>1, <2>4
<1> HIDE DEF M
<1>7. /\ Len(B) = N + 1
      /\ \A n \in 1..N : B[n].lit = l /\ B[n].rest = rest(n)
      /\ B[N + 1].lit = -l /\ B[N + 1].rest = {}
  <2>1. PICK x : x = [lit |-> -l, rest |-> {}]
    OBVIOUS
  <2>2. x \in Saved /\ x.lit = -l /\ x.rest = {}
    BY <1>2, <2>1 DEF Saved
  <2>3. B = Append(M, x)
    BY <2>1 DEF M, IsBlock
  <2>4. Len(B) = N + 1 /\ B[N + 1] = x /\ \A n \in 1..N : B[n] = M[n]
    BY <1>6, <2>2, <2>3, AppendProperties
  <2> QED
    BY <1>6, <2>2, <2>4
<1>8. PICK c : Replays(c, B, a, m)
  BY DEF Replayed
<1>9. /\ c[N + 1] = a /\ c[0] = m
      /\ \A n \in 1..(N + 1) : c[n - 1] = replay(c[n], B[n])
  BY <1>7, <1>8 DEF Replays
<1>10. /\ a \subseteq Lit
       /\ \A k \in Lit : k \notin a \/ -k \notin a
       /\ \A k \in Lit : abs(k) \notin E \cup {v} => k \in a \/ -k \in a
       /\ \A cr \in Refs(d) : v \notin VarsOf(d.ca[cr].lits) => d.ca[cr].lits \cap a # {}
       /\ \A k \in Facts(d) : abs(k) \notin E \cup {v} => k \in a
       /\ \A i, j \in Refs(d) : l \in d.ca[i].lits /\ -l \in d.ca[j].lits =>
              ((d.ca[i].lits \cup d.ca[j].lits) \ {l, -l}) \cap a # {}
  <2>1. \A i, j \in Refs(d) : v \in d.ca[i].lits /\ -v \in d.ca[j].lits =>
              ((d.ca[i].lits \cup d.ca[j].lits) \ {v, -v}) \cap a # {}
    BY DEF Projected
  <2>2. \A i, j \in Refs(d) : l \in d.ca[i].lits /\ -l \in d.ca[j].lits =>
              ((d.ca[i].lits \cup d.ca[j].lits) \ {l, -l}) \cap a # {}
    <3>1. CASE l = v
      BY <2>1, <3>1
    <3>2. CASE l = -v
      <4>1. -l = v /\ {l, -l} = {v, -v}
        BY <1>2, <3>2, LitFacts
      <4>2. \A p, q : p \cup q = q \cup p
        OBVIOUS
      <4> QED
        BY <2>1, <3>2, <4>1, <4>2
    <3> QED
      BY <3>1, <3>2
  <2> QED
    BY <2>2 DEF Projected
<1> DEFINE P(n) == /\ c[n] \subseteq Lit
                   /\ \A k \in Lit : abs(k) # v => (k \in c[n] <=> k \in a)
                   /\ \/ l \in c[n] /\ -l \notin c[n] /\ \E j \in (n + 1)..N : false(j)
                      \/ l \notin c[n] /\ -l \in c[n] /\ \A j \in (n + 1)..N : ~false(j)
<1>11. P(N)
  <2>1. c[N] = replay(a, B[N + 1])
    <3>1. N + 1 \in 1..(N + 1) /\ (N + 1) - 1 = N
      BY <1>3
    <3> QED
      BY <1>9, <3>1
  <2>2. c[N] = (a \ {l}) \cup {-l}
    BY <1>2, <1>7, <2>1 DEF replay
  <2>3. (N + 1)..N = {}
    BY <1>3
  <2>4. \A k \in Lit : abs(k) # v => k # l /\ k # -l
    BY <1>2
  <2> QED
    BY <1>2, <1>10, <2>2, <2>3, <2>4
<1>12. ASSUME NEW n \in 1..N, P(n) PROVE P(n - 1)
  <2>1. /\ n \in 1..(N + 1) /\ ((n - 1) + 1)..N = n..N
        /\ \A j \in n..N : j = n \/ j \in (n + 1)..N
        /\ n \in n..N /\ (n + 1)..N \subseteq n..N
    BY <1>3
  <2>2. c[n - 1] = IF \A k \in rest(n) : -k \in c[n] THEN (c[n] \ {-l}) \cup {l} ELSE c[n]
    BY <1>7, <1>9, <2>1 DEF replay
  <2>3. (\A k \in rest(n) : -k \in c[n]) <=> false(n)
    BY <1>5, <1>12
  <2>4. \A k \in Lit : abs(k) # v => k # l /\ k # -l
    BY <1>2
  <2>5. CASE false(n)
    <3>1. c[n - 1] = (c[n] \ {-l}) \cup {l}
      BY <2>2, <2>3, <2>5
    <3>2. \E j \in ((n - 1) + 1)..N : false(j)
      BY <2>1, <2>5
    <3> QED
      BY <1>2, <1>12, <2>4, <3>1, <3>2
  <2>6. CASE ~false(n)
    <3>1. c[n - 1] = c[n]
      BY <2>2, <2>3, <2>6
    <3> HIDE DEF false
    <3>2. (\E j \in (n + 1)..N : false(j)) => \E j \in ((n - 1) + 1)..N : false(j)
      BY <2>1
    <3>3. (\A j \in (n + 1)..N : ~false(j)) => \A j \in ((n - 1) + 1)..N : ~false(j)
      BY <2>1, <2>6
    <3> HIDE DEF rest
    <3> QED
      BY <1>12, <3>1, <3>2, <3>3
  <2> QED
    BY <2>5, <2>6
<1>13. P(0)
  <2> DEFINE K == {n \in 0..N : P(n)}
  <2>1. N \in K
    BY <1>3, <1>11
  <2>2. ASSUME NEW n \in 1..N, n \in K PROVE n - 1 \in K
    BY <1>3, <1>12, <2>2
  <2> HIDE DEF K, P
  <2>3. \A n \in 0..N : n \in K
    BY <1>3, <2>1, <2>2, Downwards
  <2>4. 0 \in K
    BY <1>3, <2>3
  <2> QED
    BY <2>4 DEF K
<1>14. /\ m \subseteq Lit
       /\ \A k \in Lit : abs(k) # v => (k \in m <=> k \in a)
       /\ \/ l \in m /\ -l \notin m /\ \E j \in 1..N : false(j)
          \/ l \notin m /\ -l \in m /\ \A j \in 1..N : ~false(j)
  BY <1>9, <1>13
<1>15. \A k \in Lit : k \notin m \/ -k \notin m
  <2> SUFFICES ASSUME NEW k \in Lit PROVE k \notin m \/ -k \notin m
    OBVIOUS
  <2>1. CASE abs(k) # v
    BY <1>10, <1>14, <2>1, LitFacts
  <2>2. CASE abs(k) = v
    BY <1>2, <1>4, <1>14, <2>2
  <2> QED
    BY <2>1, <2>2
<1>16. \A k \in Lit : abs(k) \notin E => k \in m \/ -k \in m
  <2> SUFFICES ASSUME NEW k \in Lit, abs(k) \notin E PROVE k \in m \/ -k \in m
    OBVIOUS
  <2>1. CASE abs(k) # v
    BY <1>10, <1>14, <2>1, LitFacts
  <2>2. CASE abs(k) = v
    BY <1>2, <1>4, <1>14, <2>2
  <2> QED
    BY <2>1, <2>2
<1>17. \A k \in Facts(d) : abs(k) \notin E => k \in m
  <2> SUFFICES ASSUME NEW k \in Facts(d), abs(k) \notin E PROVE k \in m
    OBVIOUS
  <2>1. abs(k) # v
    BY DEF Assigned, VarsOf
  <2> QED
    BY <1>1, <1>10, <1>14, <2>1
<1>18. \A cr \in Refs(d) : d.ca[cr].lits \cap m # {}
  <2> SUFFICES ASSUME NEW cr \in Refs(d) PROVE d.ca[cr].lits \cap m # {}
    OBVIOUS
  <2>1. PICK q : q = d.ca[cr].lits
    OBVIOUS
  <2>2. q \subseteq Lit
    BY <1>1, <2>1
  <2>3. CASE v \notin VarsOf(q)
    <3>1. PICK k \in q : k \in a
      BY <1>10, <2>1, <2>3
    <3>2. abs(k) # v
      BY <2>3, <3>1 DEF VarsOf
    <3> QED
      BY <1>14, <2>1, <2>2, <3>1, <3>2
  <2>4. CASE l \in q /\ l \notin m
    <3>1. PICK j \in 1..N : s[j] = cr
      BY <1>3, <2>1, <2>4
    <3>2. ~false(j)
      BY <1>14, <2>4
    <3>3. PICK k \in rest(j) : -k \notin a
      BY <3>2
    <3>4. k \in q /\ k \in Lit /\ abs(k) # v /\ abs(k) \notin E
      BY <1>5, <2>1, <3>1, <3>3
    <3>5. k \in m
      BY <1>10, <1>14, <3>3, <3>4
    <3> QED
      BY <2>1, <3>4, <3>5
  <2>5. CASE -l \in q /\ -l \notin m
    <3>1. PICK j \in 1..N : false(j)
      BY <1>14, <2>5
    <3>2. PICK p : p = d.ca[s[j]].lits
      OBVIOUS
    <3>3. l \in p /\ s[j] \in Refs(d) /\ p \subseteq Lit
      BY <1>1, <1>3, <3>2
    <3>4. ((p \cup q) \ {l, -l}) \cap a # {}
      BY <1>10, <2>1, <2>5, <3>2, <3>3
    <3>5. PICK k \in p \cup q : k # l /\ k # -l /\ k \in a
      BY <3>4
    <3>6. k \notin p
      <4>1. k \in p => k \in rest(j)
        BY <3>2, <3>5
      <4> QED
        BY <1>10, <3>1, <3>3, <3>5, <4>1
    <3>7. k \in q /\ k \in Lit /\ abs(k) # v
      BY <1>4, <2>2, <3>5, <3>6
    <3> QED
      BY <1>14, <2>1, <3>5, <3>7
  <2>6. CASE v \in VarsOf(q) /\ ~(l \in q /\ l \notin m) /\ ~(-l \in q /\ -l \notin m)
    <3>1. PICK k \in q : abs(k) = v
      BY <2>6 DEF VarsOf
    <3>2. k = l \/ k = -l
      BY <1>4, <2>2, <3>1
    <3> QED
      BY <2>1, <2>6, <3>1, <3>2
  <2> QED
    BY <2>3, <2>4, <2>5, <2>6
<1>19. Good(d, E, m)
  BY <1>14, <1>15, <1>16, <1>17, <1>18 DEF Good
<1> QED
  BY <1>14, <1>19 DEF Decides

\* What the rest of the clauses and the saved ones say is what the formula says.
Extends(d, E, s) ==
    d.ok => \A a, m : Good(d, E, a) /\ Replayed(s, a, m) =>
                /\ m \in Assignments
                /\ \A n \in 1..loaded : formula[n] \cap m # {}
                /\ \A l \in Lit : abs(l) \notin E => (l \in m <=> l \in a)

LEMMA ExtendsOn ==
    ASSUME NEW d, NEW e, NEW E, NEW s, Keeps(d, e, E), Extends(d, E, s)
    PROVE  Extends(e, E, s)
  BY DEF Keeps, Extends

\* Two lists are replayed one after the other.
LEMMA ReplayedConcat ==
    ASSUME NEW s \in Seq(Saved), NEW t \in Seq(Saved), NEW a, NEW m, Replayed(s \o t, a, m)
    PROVE  \E b : Replayed(t, a, b) /\ Replayed(s, b, m)
<1> DEFINE u == s \o t
           N == Len(s)
           M == Len(t)
<1>1. /\ N \in Nat /\ M \in Nat /\ Len(u) = N + M
      /\ \A k \in 1..N : u[k] = s[k]
      /\ \A k \in 1..M : u[N + k] = t[k]
  <2>1. /\ Len(s) \in Nat /\ Len(t) \in Nat /\ Len(s \o t) = Len(s) + Len(t)
        /\ \A i \in 1..(Len(s) + Len(t)) : (s \o t)[i] = IF i <= Len(s) THEN s[i] ELSE t[i - Len(s)]
    BY ConcatProperties, LenProperties
  <2>2. \A k \in 1..N : k \in 1..(N + M) /\ k <= N
    BY <2>1
  <2>3. \A k \in 1..M : N + k \in 1..(N + M) /\ ~(N + k <= N) /\ (N + k) - N = k
    BY <2>1
  <2> HIDE DEF u
  <2> QED
    BY <2>1, <2>2, <2>3 DEF u
<1>2. PICK c : Replays(c, u, a, m)
  BY DEF Replayed
<1> HIDE DEF u
<1>3. /\ c \in [0..(N + M) -> SUBSET Lit] /\ c[N + M] = a /\ c[0] = m
      /\ \A n \in 1..(N + M) : c[n - 1] = replay(c[n], u[n])
  BY <1>1, <1>2 DEF Replays
<1> DEFINE x == [k \in 0..M |-> c[N + k]]
           y == [k \in 0..N |-> c[k]]
<1>4. \A k \in 0..M : N + k \in 0..(N + M)
  BY <1>1
<1>5. \A k \in 0..N : k \in 0..(N + M)
  BY <1>1
<1>6. Replays(x, t, a, c[N])
  <2>1. x \in [0..M -> SUBSET Lit]
    BY <1>3, <1>4
  <2>2. x[M] = a /\ x[0] = c[N]
    <3>1. 0 \in 0..M /\ M \in 0..M /\ N + 0 = N
      BY <1>1
    <3> QED
      BY <1>3, <3>1
  <2>3. ASSUME NEW n \in 1..M PROVE x[n - 1] = replay(x[n], t[n])
    <3>1. /\ n - 1 \in 0..M /\ n \in 0..M /\ N + n \in 1..(N + M) /\ N + (n - 1) = (N + n) - 1
      BY <1>1
    <3>2. x[n - 1] = c[(N + n) - 1] /\ x[n] = c[N + n]
      BY <3>1
    <3>3. c[(N + n) - 1] = replay(c[N + n], u[N + n])
      BY <1>3, <3>1
    <3>4. u[N + n] = t[n]
      BY <1>1
    <3> QED
      BY <3>2, <3>3, <3>4
  <2> HIDE DEF x
  <2> QED
    BY <2>1, <2>2, <2>3 DEF Replays
<1>7. Replays(y, s, c[N], m)
  <2>1. y \in [0..N -> SUBSET Lit]
    BY <1>3, <1>5
  <2>2. y[N] = c[N] /\ y[0] = m
    <3>1. 0 \in 0..N /\ N \in 0..N
      BY <1>1
    <3> QED
      BY <1>3, <3>1
  <2>3. ASSUME NEW n \in 1..N PROVE y[n - 1] = replay(y[n], s[n])
    <3>1. n - 1 \in 0..N /\ n \in 0..N /\ n \in 1..(N + M)
      BY <1>1
    <3>2. y[n - 1] = c[n - 1] /\ y[n] = c[n]
      BY <3>1
    <3> QED
      BY <1>1, <1>3, <3>1, <3>2
  <2> HIDE DEF y
  <2> QED
    BY <2>1, <2>2, <2>3 DEF Replays
<1> QED
  BY <1>6, <1>7 DEF Replayed

\* Before anything is eliminated a model is left as it is.
LEMMA ReplayedNothing ==
    ASSUME NEW a, NEW m, Replayed(<<>>, a, m)
    PROVE  m = a
<1>1. PICK c : Replays(c, <<>>, a, m)
  BY DEF Replayed
<1>2. Len(<<>>) = 0
  OBVIOUS
<1> QED
  BY <1>1, <1>2 DEF Replays

\* extendModel replays the saved clauses.
LEMMA ModelReplayed ==
    ASSUME elimclauses \in Seq(Saved), NEW a, a \subseteq Lit
    PROVE  Replayed(elimclauses, a, extendModel(a))
<1> DEFINE s == elimclauses
           r == Reverse(s)
           N == Len(s)
           T == SUBSET Lit
           Eq(g) == g = [n \in 0..Len(r) |->
                            IF n = 0 THEN a ELSE Only({replay(m, r[n]) : m \in {g[n - 1]}})]
           f == CHOOSE g : Eq(g)
           st == [n \in 1..N |-> [m \in T |-> replay(m, r[n])]]
<1>1. /\ N \in Nat /\ Len(r) = N
      /\ \A n \in 1..N : s[n] \in Saved /\ r[n] = s[(N - n) + 1] /\ (N - n) + 1 \in 1..N
  <2>1. N \in Nat /\ \A n \in 1..N : s[n] \in Saved
    BY LenProperties, ElementOfSeq
  <2>2. r = [n \in 1..N |-> s[(N - n) + 1]]
    BY DEF Reverse
  <2>3. \A n \in 1..N : (N - n) + 1 \in 1..N
    BY <2>1
  <2> HIDE DEF r, s
  <2>4. r \in [1..N -> Saved]
    BY <2>1, <2>2, <2>3
  <2>5. Len(r) = N
    BY <2>1, <2>4, LenProperties, SeqDef
  <2> QED
    BY <2>1, <2>2, <2>3, <2>5
<1> HIDE DEF s, r
<1>3. \A n \in 1..N, m \in T : replay(m, r[n]) \in T
  <2>1. \A n \in 1..N : r[n] \in Saved
    BY <1>1
  <2>2. \A e \in Saved : e.lit \in Lit
    BY DEF Saved
  <2> QED
    BY <2>1, <2>2 DEF replay
<1>2. a \in T
  OBVIOUS
<1> HIDE DEF T
<1>4. st \in [1..N -> [T -> T]]
  BY <1>3
<1>5. PICK p : Chain(p, N, T, a, st)
  BY <1>1, <1>2, <1>4, Recursion
<1>6. Eq(p)
  <2>1. p \in [0..N -> T] /\ p[0] = a /\ \A n \in 1..N : p[n] = st[n][p[n - 1]]
    BY <1>5 DEF Chain
  <2>2. ASSUME NEW n \in 0..N
        PROVE  p[n] = IF n = 0 THEN a ELSE Only({replay(m, r[n]) : m \in {p[n - 1]}})
    <3>1. CASE n = 0
      BY <2>1, <3>1
    <3>2. CASE n # 0
      <4>1. n \in 1..N /\ n - 1 \in 0..N
        BY <1>1, <3>2
      <4>2. p[n] = replay(p[n - 1], r[n])
        BY <2>1, <4>1
      <4>3. {replay(m, r[n]) : m \in {p[n - 1]}} = {replay(p[n - 1], r[n])}
        OBVIOUS
      <4> QED
        BY <3>2, <4>2, <4>3, OnlyOf
    <3> QED
      BY <3>1, <3>2
  <2> HIDE DEF st
  <2> QED
    BY <1>1, <2>1, <2>2
<1>7. Eq(f)
  BY <1>6, Zenon
<1> HIDE DEF f, st
<1>8. f = [n \in 0..N |-> IF n = 0 THEN a ELSE Only({replay(m, r[n]) : m \in {f[n - 1]}})]
  BY <1>1, <1>7
<1>9. f[0] = a
  <2>1. 0 \in 0..N
    BY <1>1
  <2> QED
    BY <1>8, <2>1
<1>10. \A n \in 1..N : f[n] = replay(f[n - 1], r[n])
  <2> SUFFICES ASSUME NEW n \in 1..N PROVE f[n] = replay(f[n - 1], r[n])
    OBVIOUS
  <2>1. n \in 0..N /\ n # 0
    BY <1>1
  <2>2. f[n] = Only({replay(m, r[n]) : m \in {f[n - 1]}})
    BY <1>8, <2>1
  <2>3. {replay(m, r[n]) : m \in {f[n - 1]}} = {replay(f[n - 1], r[n])}
    OBVIOUS
  <2> QED
    BY <2>2, <2>3, OnlyOf
<1> HIDE DEF Eq
<1>11. \A n \in 0..N : f[n] \in T
  <2> DEFINE K == {n \in 0..N : f[n] \in T}
  <2>1. 0 \in K
    BY <1>1, <1>2, <1>9
  <2>2. ASSUME NEW n \in 1..N, n - 1 \in K PROVE n \in K
    <3>1. f[n - 1] \in T /\ n \in 0..N
      BY <1>1, <2>2
    <3> QED
      BY <1>3, <1>10, <3>1
  <2> HIDE DEF K
  <2>3. \A n \in 0..N : n \in K
    BY <1>1, <2>1, <2>2, Upwards
  <2> QED
    BY <2>3 DEF K
<1>12. extendModel(a) = f[N]
  <2>1. extendModel(a) = f[Len(r)]
    BY Zenon DEF extendModel, Fold, f, Eq, r, s
  <2> QED
    BY <1>1, <2>1
<1> DEFINE c == [k \in 0..N |-> f[N - k]]
<1>13. Replays(c, s, a, f[N])
  <2>1. \A k \in 0..N : N - k \in 0..N
    BY <1>1
  <2>2. c \in [0..N -> SUBSET Lit]
    BY <1>11, <2>1 DEF T
  <2>3. c[N] = a /\ c[0] = f[N]
    <3>1. 0 \in 0..N /\ N \in 0..N /\ N - 0 = N /\ N - N = 0
      BY <1>1
    <3> QED
      BY <1>9, <3>1
  <2>4. ASSUME NEW n \in 1..N PROVE c[n - 1] = replay(c[n], s[n])
    <3>1. /\ n - 1 \in 0..N /\ n \in 0..N /\ (N - n) + 1 \in 1..N
          /\ N - (n - 1) = (N - n) + 1 /\ ((N - n) + 1) - 1 = N - n
          /\ (N - ((N - n) + 1)) + 1 = n
      BY <1>1
    <3>2. c[n - 1] = f[(N - n) + 1] /\ c[n] = f[N - n]
      BY <3>1
    <3>3. f[(N - n) + 1] = replay(f[N - n], r[(N - n) + 1])
      BY <1>10, <3>1
    <3>4. r[(N - n) + 1] = s[n]
      BY <1>1, <3>1
    <3> QED
      BY <3>2, <3>3, <3>4
  <2> HIDE DEF c
  <2> QED
    BY <2>2, <2>3, <2>4 DEF Replays
<1> QED
  BY <1>12, <1>13 DEF Replayed, s

\* Eliminating a variable keeps what the saved clauses are for.
LEMMA EliminatedExtends ==
    ASSUME NEW d, NEW E, Right(d, E), learnts \subseteq SUBSET Lit,
           NEW v \in Var, v \notin E, v \notin Assigned(d),
           NEW s \in Seq(Saved), Extends(d, E, s)
    PROVE  /\ savedClauses(d, v) \in Seq(Saved) /\ s \o savedClauses(d, v) \in Seq(Saved)
           /\ Extends(Resolve(d, v), E \cup {v}, s \o savedClauses(d, v))
<1>1. d \in DBase
  BY DEF Right, Wf
<1>2. \E l : /\ l = v \/ l = -v
             /\ savedClauses(d, v) = Append(mkElimClauses(d, l), [lit |-> -l, rest |-> {}])
  <2>1. CASE Len(Occ(d, v)) > Len(Occ(d, -v))
    <3>1. -(-v) = v
      BY LitFacts
    <3>2. savedClauses(d, v) = Append(mkElimClauses(d, -v), [lit |-> v, rest |-> {}])
      BY <2>1 DEF savedClauses
    <3>3. PICK l : l = -v
      OBVIOUS
    <3>4. -l = v
      BY <3>1, <3>3
    <3> QED
      BY <3>2, <3>3, <3>4
  <2>2. CASE ~(Len(Occ(d, v)) > Len(Occ(d, -v)))
    BY <2>2 DEF savedClauses
  <2> QED
    BY <2>1, <2>2
<1>3. PICK l : /\ l = v \/ l = -v
               /\ savedClauses(d, v) = Append(mkElimClauses(d, l), [lit |-> -l, rest |-> {}])
  BY <1>2
<1>4. PICK B : B = savedClauses(d, v)
  OBVIOUS
<1>5. B \in Seq(Saved)
  <2>1. l \in Lit /\ -l \in Lit
    BY <1>3, LitFacts
  <2>2. mkElimClauses(d, l) \in Seq(Saved)
    <3> DEFINE q == Occ(d, l)
    <3>1. /\ Len(q) \in Nat /\ DOMAIN q = 1..Len(q)
          /\ \A n \in 1..Len(q) : q[n] \in Refs(d)
      BY <1>1, OccOf
    <3>2. \A cr \in Refs(d) : d.ca[cr].lits \subseteq Lit
      BY <1>1, Fields
    <3> HIDE DEF q
    <3>3. \A n \in 1..Len(q) : [lit |-> l, rest |-> d.ca[q[n]].lits \ {l}] \in Saved
      BY <2>1, <3>1, <3>2 DEF Saved
    <3>4. [n \in 1..Len(q) |-> [lit |-> l, rest |-> d.ca[q[n]].lits \ {l}]] \in Seq(Saved)
      BY <3>1, <3>3, IsASeq
    <3> QED
      BY <3>1, <3>4 DEF mkElimClauses, q
  <2>3. [lit |-> -l, rest |-> {}] \in Saved
    BY <2>1 DEF Saved
  <2> QED
    BY <1>3, <1>4, <2>2, <2>3, AppendProperties
<1>6. s \o B \in Seq(Saved)
  BY <1>5, ConcatProperties
<1>7. PICK e : e = Resolve(d, v)
  OBVIOUS
<1>8. /\ Right(e, E \cup {v})
      /\ e.ok => d.ok /\ \A a : Good(e, E \cup {v}, a) => Projected(d, E, v, a)
  BY <1>7, Resolved
<1>9. ASSUME e.ok, NEW a, NEW m, Good(e, E \cup {v}, a), Replayed(s \o B, a, m)
      PROVE  /\ m \in Assignments
             /\ \A n \in 1..loaded : formula[n] \cap m # {}
             /\ \A k \in Lit : abs(k) \notin E \cup {v} => (k \in m <=> k \in a)
  <2>1. d.ok /\ Projected(d, E, v, a)
    BY <1>8, <1>9
  <2>2. PICK b : Replayed(B, a, b) /\ Replayed(s, b, m)
    BY <1>5, <1>9, ReplayedConcat
  <2>3. Good(d, E, b) /\ \A k \in Lit : abs(k) # v => (k \in b <=> k \in a)
    <3>1. IsBlock(B, d, l)
      BY <1>3, <1>4 DEF IsBlock
    <3>2. Projected(d, E, v, a) /\ Replayed(B, a, b)
      BY <2>1, <2>2
    <3>3. Decides(d, E, v, a, b)
      BY <1>3, <3>1, <3>2, BlockReplayed
    <3> QED
      BY <3>3 DEF Decides
  <2>4. /\ m \in Assignments
        /\ \A n \in 1..loaded : formula[n] \cap m # {}
        /\ \A k \in Lit : abs(k) \notin E => (k \in m <=> k \in b)
    BY <2>1, <2>2, <2>3 DEF Extends
  <2> QED
    BY <2>3, <2>4
<1>10. Extends(e, E \cup {v}, s \o B)
  BY <1>9 DEF Extends
<1> QED
  BY <1>4, <1>5, <1>6, <1>7, <1>10

\* What does not depend on the queue, the touched variables and the heap.
LEMMA SameRest ==
    ASSUME NEW d, NEW E, Right(d, E), NEW e \in DBase, e.ca = d.ca, e.trail = d.trail,
           e.ok = d.ok, ToSet(e.queue) \subseteq DOMAIN d.ca
    PROVE  Step(d, e, E)
<1>1. Refs(e) = Refs(d) /\ \A L : Clauses(e, L) = Clauses(d, L)
  BY SameClauses
<1>2. Facts(e) = Facts(d)
  BY DEF Facts
<1>3. Wf(e)
  BY DEF Right, Wf
<1>4. Free(e, E)
  BY <1>1 DEF Right, Free
<1>5. Sound(e)
  BY <1>1, <1>2 DEF Right, Sound, Holds
<1>6. Keeps(d, e, E)
  BY <1>1, <1>2 DEF Keeps, Good
<1>7. Len(d.trail) \in Nat
  BY Fields DEF Right, Wf
<1> QED
  BY <1>3, <1>4, <1>5, <1>6, <1>7 DEF Step, Right

-----------------------------------------------------------------------------
(* The invariant *)

Types ==
    /\ formula \in Formulas /\ loaded \in 0..Len(formula)
    /\ bwdsub_assigns \in 0..Len(db.trail)
    /\ eliminated \subseteq Var /\ frozen \subseteq Var /\ cube \subseteq Lit
    /\ learnts \subseteq SUBSET Lit /\ elimclauses \in Seq(Saved)
    /\ pc \in {"idle", "while", "bwd", "check", "elim", "search", "thaw"}
    /\ ret \in {"none", "check", "elim"}

\* While clauses are loaded nothing is eliminated, and before the assertions of eliminate no
\* variable is touched.
Control ==
    /\ loaded < Len(formula) => pc = "idle" /\ eliminated = {} /\ elimclauses = <<>>
    /\ pc = "bwd" => ret # "none"
    /\ pc = "bwd" /\ ret = "check" => db.touched = {}
    /\ NothingLeftOver

\* The database is sound, and a model of it extends to one of the formula.
DbInv == Right(db, eliminated) /\ Extends(db, eliminated, elimclauses)

IInv == Types /\ Control /\ DbInv /\ AnswerIsRight

\* A database that is right stays so while formula and learnt clauses do.
LEMMA RightLater ==
    ASSUME formula' = formula, learnts' = learnts,
           NEW e, NEW E, Right(e, E), db' = e, eliminated' = E
    PROVE  Right(db, eliminated)'
<1>1. Refs(db)' = Refs(e)
  BY DEF Refs
<1>2. Facts(db)' = Facts(e)
  BY DEF Facts
<1>3. Wf(db)'
  BY DEF Right, Wf
<1>4. Free(db, eliminated)'
  BY <1>1 DEF Right, Free
<1>5. Sound(db)'
  <2>1. Models' = Models
    BY DEF Models
  <2>2. Clauses(db, learnts)' = Clauses(e, learnts)
    BY <1>1 DEF Clauses
  <2> QED
    BY <1>2, <2>1, <2>2 DEF Right, Sound, Holds
<1> QED
  BY <1>3, <1>4, <1>5 DEF Right

LEMMA ExtendsLater ==
    ASSUME formula' = formula, loaded' = loaded,
           NEW e, NEW E, NEW s, Extends(e, E, s), db' = e, eliminated' = E, elimclauses' = s
    PROVE  Extends(db, eliminated, elimclauses)'
<1>1. Refs(db)' = Refs(e)
  BY DEF Refs
<1>2. Facts(db)' = Facts(e)
  BY DEF Facts
<1>3. \A a : Good(db, eliminated, a)' <=> Good(e, E, a)
  BY <1>1, <1>2 DEF Good
<1>4. \A a, m : Replayed(elimclauses, a, m)' <=> Replayed(s, a, m)
  BY DEF Replayed, Replays
<1> QED
  BY <1>3, <1>4 DEF Extends

\* A clause of the formula holds literals, and models satisfy it.
LEMMA FormulaIs ==
    ASSUME formula \in Formulas
    PROVE  /\ formula \in Seq(SUBSET Lit)
           /\ Models = {a \in Assignments : \A n \in 1..Len(formula) : formula[n] \cap a # {}}
<1>1. formula \in Seq(SUBSET Lit)
  BY ClausesAssumption DEF ClausesAssumption
<1>2. DOMAIN formula = 1..Len(formula)
  BY <1>1, LenProperties
<1> QED
  BY <1>1, <1>2 DEF Models, ModelsOf

\* The answer depends on nothing else.
LEMMA AnswerLater ==
    ASSUME AnswerIsRight, formula' = formula, result' = result, cube' = cube,
           \/ pc' \notin {"thaw", "idle"}
           \/ pc' = pc /\ model' = model /\ eliminated' = eliminated
    PROVE  AnswerIsRight'
<1>1. Models' = Models
  BY DEF Models
<1> QED
  BY <1>1 DEF AnswerIsRight

\* No literal is its own negation.
LEMMA UnitIs ==
    ASSUME NEW l \in Lit
    PROVE  {l} \subseteq Lit /\ ~Tautology({l})
  BY LitFacts DEF Tautology

LEMMA Start ==
    ASSUME Init
    PROVE  IInv
<1>1. /\ db.ca = <<>> /\ db.trail = <<>> /\ db.queue = <<>> /\ db.touched = {}
      /\ db.heap = Var /\ db.ok = TRUE
  BY DEF Init
<1>2. formula \in Seq(SUBSET Lit)
  BY FormulaIs DEF Init
<1>3. Len(formula) \in Nat
  BY <1>2, LenProperties
<1>4. Refs(db) = {} /\ Facts(db) = {}
  BY <1>1 DEF Refs, Facts, ToSet
<1>5. Right(db, eliminated)
  <2>1. <<>> \in Seq(Cell) /\ <<>> \in Seq(Lit) /\ <<>> \in Seq(Nat)
    OBVIOUS
  <2>2. db \in DBase
    BY <2>1 DEF Init, DBase
  <2>3. Wf(db)
    BY <1>1, <2>2 DEF Wf, ToSet
  <2>4. Sound(db)
    <3>1. Clauses(db, learnts) = {}
      BY <1>4 DEF Clauses, Init
    <3>2. \A a \in Models : a \in Assignments
      BY FormulaIs DEF Init
    <3> QED
      BY <1>1, <1>4, <3>1, <3>2 DEF Sound, Holds
  <2>5. Free(db, eliminated)
    BY <1>4 DEF Free
  <2> QED
    BY <2>3, <2>4, <2>5 DEF Right
<1>6. Extends(db, eliminated, elimclauses)
  <2> SUFFICES ASSUME NEW a, NEW m, Good(db, {}, a), Replayed(<<>>, a, m)
               PROVE  /\ m \in Assignments
                      /\ \A n \in 1..loaded : formula[n] \cap m # {}
                      /\ \A l \in Lit : abs(l) \notin eliminated => (l \in m <=> l \in a)
    BY DEF Extends, Init
  <2>1. m = a
    BY ReplayedNothing
  <2>2. a \in Assignments
    BY Opposite DEF Good
  <2>3. 1..loaded = {}
    BY DEF Init
  <2> QED
    BY <2>1, <2>2, <2>3
<1>7. Types
  <2>1. Len(db.trail) = 0
    BY <1>1
  <2>2. <<>> \in Seq(Saved)
    OBVIOUS
  <2> QED
    BY <1>3, <2>1, <2>2 DEF Types, Init
<1>8. Control /\ AnswerIsRight
  BY DEF Control, NothingLeftOver, AnswerIsRight, Init
<1> QED
  BY <1>5, <1>6, <1>7, <1>8 DEF IInv, DbInv

-----------------------------------------------------------------------------
(* Every step keeps the invariant *)

\* Steps of the database alone.
LEMMA DbStep ==
    ASSUME IInv, NEW e, Step(db, e, eliminated), db' = e,
           UNCHANGED <<formula, loaded, elimVars, learnts, frozen, cube>>
    PROVE  DbInv' /\ Len(db.trail) <= Len(db'.trail)
<1>1. Right(e, eliminated) /\ Extends(e, eliminated, elimclauses)
  BY ExtendsOn DEF IInv, DbInv, Step
<1>2. eliminated' = eliminated /\ elimclauses' = elimclauses
  BY DEF elimVars
<1> QED
  BY <1>1, <1>2, RightLater, ExtendsLater DEF DbInv, Step

LEMMA AddClauseStep ==
    ASSUME IInv, addClause
    PROVE  IInv'
<1>1. /\ formula \in Seq(SUBSET Lit) /\ Len(formula) \in Nat
      /\ \A a \in Models : formula[loaded + 1] \cap a # {}
      /\ formula[loaded + 1] \in SUBSET Lit
      /\ loaded \in Nat /\ loaded + 1 \in 1..Len(formula)
      /\ eliminated = {} /\ elimclauses = <<>>
  <2>1. /\ formula \in Seq(SUBSET Lit)
        /\ Models = {a \in Assignments : \A n \in 1..Len(formula) : formula[n] \cap a # {}}
    BY FormulaIs DEF IInv, Types
  <2>2. Len(formula) \in Nat
    BY <2>1, LenProperties
  <2>3. loaded + 1 \in 1..Len(formula) /\ loaded \in Nat
    BY <2>2 DEF addClause, IInv, Types
  <2>4. formula[loaded + 1] \in SUBSET Lit
    BY <2>1, <2>3, ElementOfSeq
  <2> QED
    BY <2>1, <2>2, <2>3, <2>4 DEF addClause, IInv, Control
<1>2. PICK c : c = formula[loaded + 1]
  OBVIOUS
<1>3. PICK e : e = AddClause(db, c)
  OBVIOUS
<1>4. Right(db, {}) /\ learnts \subseteq SUBSET Lit /\ Extends(db, {}, <<>>)
  BY <1>1 DEF IInv, DbInv, Types
<1>5. c \subseteq Lit /\ VarsOf(c) \cap {} = {} /\ \A a \in Models : c \cap a # {}
  BY <1>1, <1>2
<1>6. Step(db, e, {}) /\ (e.ok => \A a : Good(e, {}, a) => c \cap a # {})
  BY <1>3, <1>4, <1>5, Added
<1>7. /\ db' = e /\ loaded' = loaded + 1 /\ formula' = formula /\ learnts' = learnts
      /\ eliminated' = {} /\ elimclauses' = <<>>
      /\ bwdsub_assigns' = bwdsub_assigns /\ pc' = pc /\ ret' = ret /\ pc = "idle"
      /\ cube' = cube /\ result' = result /\ model' = model /\ frozen' = frozen
  BY <1>1, <1>2, <1>3 DEF addClause, elimVars, callVars
<1>8. Right(db, eliminated)'
  BY <1>6, <1>7, RightLater DEF Step
<1>9. Extends(db, eliminated, elimclauses)'
  <2>1. ASSUME e.ok, NEW a, NEW m, Good(e, {}, a), Replayed(<<>>, a, m)
        PROVE  /\ m \in Assignments
               /\ \A n \in 1..(loaded + 1) : formula[n] \cap m # {}
               /\ \A l \in Lit : abs(l) \notin {} => (l \in m <=> l \in a)
    <3>1. m = a
      BY <2>1, ReplayedNothing
    <3>2. db.ok /\ Good(db, {}, a)
      BY <1>6, <2>1 DEF Step, Keeps
    <3>3. m \in Assignments /\ \A n \in 1..loaded : formula[n] \cap m # {}
      BY <1>4, <2>1, <3>2 DEF Extends
    <3>4. c \cap m # {}
      BY <1>6, <2>1, <3>1
    <3>5. \A n \in 1..(loaded + 1) : n \in 1..loaded \/ n = loaded + 1
      BY <1>1
    <3> QED
      BY <1>2, <3>1, <3>3, <3>4, <3>5
  <2>2. Refs(db)' = Refs(e) /\ Facts(db)' = Facts(e)
    BY <1>7 DEF Refs, Facts
  <2>3. \A a : Good(db, eliminated, a)' <=> Good(e, {}, a)
    BY <1>7, <2>2 DEF Good
  <2>4. \A a, m : Replayed(elimclauses, a, m)' <=> Replayed(<<>>, a, m)
    BY <1>7 DEF Replayed, Replays
  <2> QED
    BY <1>7, <2>1, <2>3, <2>4 DEF Extends
<1>10. Types'
  <2>1. Len(db.trail) \in Nat /\ Len(e.trail) \in Nat
    BY <1>4, <1>6, Fields DEF Step, Right, Wf
  <2>2. bwdsub_assigns' \in 0..Len(db'.trail)
    BY <1>6, <1>7, <2>1 DEF IInv, Types, Step
  <2>3. loaded' \in 0..Len(formula')
    BY <1>1, <1>7
  <2> QED
    BY <1>1, <1>7, <2>2, <2>3 DEF IInv, Types
<1>11. Control'
  BY <1>7 DEF Control, NothingLeftOver
<1>12. AnswerIsRight'
  BY <1>1, <1>7, AnswerLater DEF IInv
<1> QED
  BY <1>8, <1>9, <1>10, <1>11, <1>12 DEF IInv, DbInv

LEMMA SolveStep ==
    ASSUME IInv, solve
    PROVE  IInv'
<1>1. /\ Right(db, eliminated) /\ Extends(db, eliminated, elimclauses)
      /\ learnts \subseteq SUBSET Lit /\ learnts' \subseteq learnts
      /\ formula' = formula /\ loaded' = loaded /\ db' = db /\ eliminated' = eliminated
      /\ elimclauses' = elimclauses /\ ret' = ret /\ bwdsub_assigns' = bwdsub_assigns
      /\ loaded = Len(formula)
  BY DEF solve, IInv, DbInv, Types, elimVars
<1>2. /\ Refs(db)' = Refs(db) /\ Facts(db)' = Facts(db) /\ Models' = Models
      /\ Clauses(db, learnts)' \subseteq Clauses(db, learnts)
  BY <1>1 DEF Refs, Facts, Models, Clauses
<1>3. Right(db, eliminated)'
  <2>1. Wf(db)'
    BY <1>1 DEF Right, Wf
  <2>2. Free(db, eliminated)'
    BY <1>1, <1>2 DEF Right, Free
  <2>3. Sound(db)'
    BY <1>1, <1>2 DEF Right, Sound, Holds
  <2> QED
    BY <2>1, <2>2, <2>3 DEF Right
<1>4. Extends(db, eliminated, elimclauses)'
  BY <1>1, ExtendsLater
<1>5. PICK A \in Cubes : cube' = A /\ frozen' = VarsOf(A)
  BY DEF solve
<1>6. A \subseteq Lit /\ VarsOf(A) \subseteq Var
  BY VarsOfLits, ClausesAssumption DEF ClausesAssumption
<1>7. pc' \in {"idle", "while"}
  BY DEF solve
<1>8. Types'
  BY <1>1, <1>5, <1>6, <1>7 DEF IInv, Types
<1>9. Control'
  <2>1. ~(loaded' < Len(formula'))
    BY <1>1 DEF IInv, Types
  <2> QED
    BY <1>7, <2>1 DEF Control, NothingLeftOver
<1>10. AnswerIsRight'
  <2>1. CASE db.ok
    BY <2>1 DEF solve, AnswerIsRight
  <2>2. CASE ~db.ok
    <3>1. Models = {}
      BY <1>1, <2>2 DEF Right, Sound
    <3>2. result' = "UNSAT"
      BY <2>2 DEF solve
    <3> QED
      BY <1>2, <3>1, <3>2 DEF AnswerIsRight
  <2> QED
    BY <2>1, <2>2
<1> QED
  BY <1>3, <1>4, <1>8, <1>9, <1>10 DEF IInv, DbInv

\* The program is loaded when the thread is not idle.
LEMMA LoadedIs ==
    ASSUME IInv, pc # "idle"
    PROVE  loaded = Len(formula) /\ Len(formula) \in Nat
<1>1. Len(formula) \in Nat
  BY FormulaIs, LenProperties DEF IInv, Types
<1> QED
  BY <1>1 DEF IInv, Control, Types

\* A step of the simplification that changes the database only.
LEMMA SimplifyStep ==
    ASSUME IInv, NEW e, Step(db, e, eliminated), db' = e,
           UNCHANGED <<formula, loaded, elimVars, learnts, callVars>>,
           pc # "idle", pc' \in {"while", "bwd", "check", "elim", "search"},
           ret' \in {"none", "check", "elim"},
           pc' = "bwd" => ret' # "none", pc' = "bwd" /\ ret' = "check" => e.touched = {},
           bwdsub_assigns' \in 0..Len(e.trail),
           pc' = "check" => e.queue = <<>> /\ bwdsub_assigns' = Len(e.trail) /\ e.touched = {}
    PROVE  IInv'
<1>1. /\ formula' = formula /\ loaded' = loaded /\ eliminated' = eliminated
      /\ elimclauses' = elimclauses /\ learnts' = learnts /\ cube' = cube /\ result' = result
      /\ model' = model /\ frozen' = frozen
  BY DEF elimVars, callVars
<1>2. DbInv'
  BY <1>1, DbStep
<1>3. Types'
  BY <1>1 DEF IInv, Types
<1>4. Control'
  <2>1. ~(loaded' < Len(formula'))
    BY <1>1, LoadedIs
  <2> QED
    BY <2>1 DEF Control, NothingLeftOver
<1>5. AnswerIsRight'
  BY <1>1, AnswerLater DEF IInv
<1> QED
  BY <1>2, <1>3, <1>4, <1>5 DEF IInv

\* What the steps start from.
LEMMA DbFacts ==
    ASSUME IInv
    PROVE  /\ Right(db, eliminated) /\ db \in DBase /\ learnts \subseteq SUBSET Lit
           /\ Len(db.trail) \in Nat /\ bwdsub_assigns \in 0..Len(db.trail)
           /\ ToSet(db.queue) \subseteq DOMAIN db.ca /\ db.queue \in Seq(Nat)
           /\ eliminated \subseteq Var /\ elimclauses \in Seq(Saved)
           /\ ret \in {"none", "check", "elim"}
<1>1. Right(db, eliminated) /\ db \in DBase /\ ToSet(db.queue) \subseteq DOMAIN db.ca
  BY DEF IInv, DbInv, Right, Wf
<1>2. Len(db.trail) \in Nat /\ db.queue \in Seq(Nat)
  BY <1>1, Fields
<1> QED
  BY <1>1, <1>2 DEF IInv, Types

\* A list over a smaller set.
LEMMA SubSequences ==
    ASSUME NEW S, NEW T, S \subseteq T, NEW q \in Seq(S)
    PROVE  q \in Seq(T)
<1>1. /\ Len(q) \in Nat /\ DOMAIN q = 1..Len(q) /\ q = [n \in 1..Len(q) |-> q[n]]
      /\ \A n \in 1..Len(q) : q[n] \in S
  BY LenProperties, ElementOfSeq
<1>2. \A n \in 1..Len(q) : q[n] \in T
  BY <1>1
<1>3. [n \in 1..Len(q) |-> q[n]] \in Seq(T)
  BY <1>1, <1>2, IsASeq
<1> QED
  BY <1>1, <1>3

LEMMA MainLoopStep ==
    ASSUME IInv, mainLoop
    PROVE  IInv'
<1>1. PICK e : e = gatherTouchedClauses(db)
  OBVIOUS
<1>2. /\ e \in DBase /\ e.ca = db.ca /\ e.trail = db.trail /\ e.ok = db.ok
      /\ ToSet(e.queue) \subseteq DOMAIN db.ca /\ e.touched = {}
  <2>1. db \in DBase /\ ToSet(db.queue) \subseteq DOMAIN db.ca /\ db.queue \in Seq(Nat)
    BY DbFacts
  <2>2. DOMAIN db.ca = 1..Len(db.ca) /\ Len(db.ca) \in Nat /\ Refs(db) \subseteq DOMAIN db.ca
    BY <2>1, Fields
  <2>3. PICK S : S = TouchedClauses(db)
    OBVIOUS
  <2>4. S \subseteq 1..Len(db.ca)
    BY <2>2, <2>3 DEF TouchedClauses
  <2>5. PICK q : q = Ascending(S)
    OBVIOUS
  <2>6. q \in Seq(S) /\ ToSet(q) = S
    BY <2>2, <2>4, <2>5, AscendingOf
  <2>7. S \subseteq Nat
    BY <2>2, <2>4
  <2>8. q \in Seq(Nat)
    BY <2>6, <2>7, SubSequences
  <2>9. db.queue \o q \in Seq(Nat) /\ ToSet(db.queue \o q) = ToSet(db.queue) \cup S
    BY <2>1, <2>6, <2>8, ConcatOf
  <2>10. e = [db EXCEPT !.queue = @ \o q, !.touched = {}]
    BY <1>1, <2>3, <2>5 DEF gatherTouchedClauses
  <2>11. /\ e.ca = db.ca /\ e.trail = db.trail /\ e.ok = db.ok /\ e.touched = {}
         /\ e.queue = db.queue \o q /\ e \in DBase
    BY <2>1, <2>9, <2>10 DEF DBase
  <2> QED
    BY <2>1, <2>2, <2>4, <2>9, <2>11
<1>3. Step(db, e, eliminated)
  BY <1>2, DbFacts, SameRest
<1>4. /\ UNCHANGED <<formula, loaded, elimVars, learnts, callVars>>
      /\ bwdsub_assigns' = bwdsub_assigns /\ pc # "idle"
  BY DEF mainLoop
<1>5. Len(db.trail) \in Nat /\ bwdsub_assigns \in 0..Len(db.trail) /\ ret \in {"none", "check", "elim"}
  BY DbFacts
<1>6. CASE /\ db' = e /\ ret' = "check"
           /\ pc' = IF e.queue # <<>> \/ bwdsub_assigns < Len(db.trail) THEN "bwd" ELSE "check"
  <2>1. pc' \in {"bwd", "check"}
    BY <1>6
  <2>2. pc' = "check" => e.queue = <<>> /\ bwdsub_assigns' = Len(e.trail)
    BY <1>2, <1>4, <1>5, <1>6
  <2> QED
    BY <1>2, <1>3, <1>4, <1>5, <1>6, <2>1, <2>2, SimplifyStep
<1>7. CASE db' = db /\ pc' = "search" /\ ret' = ret
  <2>1. Step(db, db, eliminated)
    BY DbFacts, NoStep
  <2> QED
    BY <1>4, <1>5, <1>7, <2>1, SimplifyStep
<1> QED
  BY <1>1, <1>6, <1>7 DEF mainLoop

LEMMA BwdInterruptedStep ==
    ASSUME IInv, bwdInterrupted
    PROVE  IInv'
<1>1. PICK e : e = dropQueue(db)
  OBVIOUS
<1>2. db \in DBase
  BY DbFacts
<1>3. /\ e \in DBase /\ e.ca = db.ca /\ e.trail = db.trail /\ e.ok = db.ok
      /\ e.queue = <<>> /\ e.touched = db.touched
  <2>1. e = [db EXCEPT !.queue = <<>>] /\ <<>> \in Seq(Nat)
    BY <1>1 DEF dropQueue
  <2> QED
    BY <1>2, <2>1 DEF DBase
<1>4. ToSet(e.queue) \subseteq DOMAIN db.ca
  BY <1>3 DEF ToSet
<1>5. Step(db, e, eliminated)
  BY <1>3, <1>4, DbFacts, SameRest
<1>6. /\ UNCHANGED <<formula, loaded, elimVars, learnts, callVars>> /\ ret' = ret
      /\ db' = e /\ bwdsub_assigns' = Len(db.trail) /\ pc' = ret /\ pc = "bwd"
  BY <1>1 DEF bwdInterrupted, allFacts
<1>7. ret \in {"check", "elim"} /\ (ret = "check" => db.touched = {})
  BY <1>6 DEF IInv, Types, Control
<1>8. Len(db.trail) \in Nat
  BY DbFacts
<1> QED
  BY <1>3, <1>5, <1>6, <1>7, <1>8, SimplifyStep

LEMMA BwdDoneStep ==
    ASSUME IInv, bwdDone
    PROVE  IInv'
<1>1. Step(db, db, eliminated)
  BY DbFacts, NoStep
<1>2. /\ UNCHANGED <<formula, loaded, elimVars, learnts, callVars>> /\ ret' = ret
      /\ db' = db /\ bwdsub_assigns' = bwdsub_assigns /\ pc' = ret /\ pc = "bwd"
      /\ db.queue = <<>> /\ bwdsub_assigns >= Len(db.trail)
  BY DEF bwdDone
<1>3. ret \in {"check", "elim"} /\ (ret = "check" => db.touched = {})
  BY <1>2 DEF IInv, Types, Control
<1>4. bwdsub_assigns = Len(db.trail) /\ bwdsub_assigns \in 0..Len(db.trail)
  BY <1>2, DbFacts
<1> QED
  BY <1>1, <1>2, <1>3, <1>4, SimplifyStep

\* The head of a queue that is not empty.
LEMMA QueueHead ==
    ASSUME NEW S, NEW q \in Seq(S), q # <<>>
    PROVE  /\ Tail(q) \in Seq(S) /\ ToSet(Tail(q)) \subseteq ToSet(q) /\ Head(q) \in ToSet(q)
<1>1. Len(q) \in Nat /\ Len(q) # 0
  BY EmptySeq, LenProperties
<1>2. Head(q) = q[1]
  BY HeadTailProperties
<1>3. Tail(q) \in Seq(S) /\ Len(Tail(q)) = Len(q) - 1 /\ \A i \in 1..Len(Tail(q)) : Tail(q)[i] = q[i + 1]
  BY <1>1, HeadTailProperties
<1>4. ToSet(q) = {q[i] : i \in 1..Len(q)} /\ ToSet(Tail(q)) = {Tail(q)[i] : i \in 1..Len(Tail(q))}
  BY <1>3, LenProperties DEF ToSet
<1>5. 1 \in 1..Len(q) /\ \A i \in 1..Len(Tail(q)) : i + 1 \in 1..Len(q)
  BY <1>1, <1>3
<1> QED
  BY <1>2, <1>3, <1>4, <1>5

LEMMA SubsumptionStep ==
    ASSUME IInv, backwardSubsumptionCheck
    PROVE  IInv'
<1>1. /\ UNCHANGED <<formula, loaded, elimVars, learnts, callVars>> /\ ret' = ret
      /\ pc = "bwd" /\ pc' \in {"bwd", "search"}
  BY DEF backwardSubsumptionCheck
<1>2. ret \in {"check", "elim"} /\ (ret = "check" => db.touched = {})
  BY <1>1 DEF IInv, Types, Control
<1>3. /\ Right(db, eliminated) /\ db \in DBase /\ learnts \subseteq SUBSET Lit
      /\ Len(db.trail) \in Nat /\ bwdsub_assigns \in 0..Len(db.trail)
      /\ ToSet(db.queue) \subseteq DOMAIN db.ca /\ db.queue \in Seq(Nat)
      /\ \A cr \in DOMAIN db.ca : db.ca[cr].lits \subseteq Lit /\ ~Tautology(db.ca[cr].lits)
  BY DbFacts, Fields DEF Right, Wf
<1>4. ASSUME NEW e, Step(db, e, eliminated), e.touched = db.touched, db' = e,
             bwdsub_assigns' \in 0..Len(e.trail)
      PROVE  IInv'
  BY <1>1, <1>2, <1>4, SimplifyStep
<1>5. CASE db.queue = <<>>
  <2>1. PICK l : l = db.trail[bwdsub_assigns + 1]
    OBVIOUS
  <2>2. PICK best : /\ bwdsub_assigns < Len(db.trail)
                    /\ bwdsub_assigns' = bwdsub_assigns + 1
                    /\ db' = CheckAll(db, 0, {l}, best)
    BY <1>5, <2>1 DEF backwardSubsumptionCheck
  <2>3. l \in Facts(db) /\ l \in Lit
    <3>1. db.trail \in Seq(Lit) /\ bwdsub_assigns + 1 \in 1..Len(db.trail)
      BY <1>3, <2>2, Fields
    <3>2. DOMAIN db.trail = 1..Len(db.trail)
      BY <3>1, LenProperties
    <3>3. l \in Facts(db)
      BY <2>1, <3>1, <3>2 DEF Facts, ToSet
    <3> QED
      BY <1>3, <3>3, Fields
  <2>4. Given(db, 0, {l})
    BY <2>3, UnitIs DEF Given
  <2>5. PICK e : e = CheckAll(db, 0, {l}, best)
    OBVIOUS
  <2>6. Checks(db, e, eliminated, 0, {l})
    BY <1>3, <2>4, <2>5, AllChecked
  <2>7. Step(db, e, eliminated) /\ e.touched = db.touched
    BY <2>6 DEF Checks
  <2>8. Len(e.trail) \in Nat /\ Len(db.trail) <= Len(e.trail)
    BY <2>7, Fields DEF Step, Right, Wf
  <2> QED
    BY <1>3, <1>4, <2>2, <2>5, <2>7, <2>8
<1>6. CASE db.queue # <<>>
  <2>1. PICK cr : cr = Head(db.queue)
    OBVIOUS
  <2>2. PICK d : d = [db EXCEPT !.queue = Tail(@)]
    OBVIOUS
  <2>3. /\ cr \in DOMAIN db.ca /\ Tail(db.queue) \in Seq(Nat)
        /\ ToSet(Tail(db.queue)) \subseteq DOMAIN db.ca
    BY <1>3, <1>6, <2>1, QueueHead
  <2>4. /\ d \in DBase /\ d.ca = db.ca /\ d.trail = db.trail /\ d.ok = db.ok
        /\ d.touched = db.touched /\ d.queue = Tail(db.queue)
    BY <1>3, <2>2, <2>3 DEF DBase
  <2>5. Step(db, d, eliminated)
    BY <1>3, <2>3, <2>4, SameRest
  <2>6. Right(d, eliminated) /\ Facts(d) = Facts(db) /\ Refs(d) = Refs(db)
    BY <2>4, <2>5, SameClauses DEF Step, Facts
  <2>7. PICK c : c = db.ca[cr].lits
    OBVIOUS
  <2>8. /\ bwdsub_assigns' = bwdsub_assigns
        /\ \/ d.ca[cr].live /\ \E best : db' = CheckAll(d, cr, c, best)
           \/ db' = d
    <3>1. /\ bwdsub_assigns' = bwdsub_assigns + 0
          /\ \/ d.ca[cr].live /\ \E best \in VarsOf(c) : db' = CheckAll(d, cr, c, best)
             \/ db' = d
      BY <1>6, <2>1, <2>2, <2>7 DEF backwardSubsumptionCheck
    <3>2. bwdsub_assigns + 0 = bwdsub_assigns
      BY <1>3
    <3> QED
      BY <3>1, <3>2, SMTT(40)
  <2>9. CASE d.ca[cr].live /\ \E best : db' = CheckAll(d, cr, c, best)
    <3>1. PICK best : db' = CheckAll(d, cr, c, best)
      BY <2>9
    <3>2. Given(d, cr, c)
      BY <1>3, <2>3, <2>4, <2>7, <2>9 DEF Given, Refs
    <3>3. PICK e : e = CheckAll(d, cr, c, best)
      OBVIOUS
    <3>4. Checks(d, e, eliminated, cr, c)
      BY <1>3, <2>6, <3>2, <3>3, AllChecked
    <3>5. Step(db, e, eliminated) /\ e.touched = db.touched
      BY <1>3, <2>4, <2>5, <3>4, StepsOn DEF Checks
    <3>6. Len(e.trail) \in Nat /\ Len(db.trail) <= Len(e.trail)
      BY <3>5, Fields DEF Step, Right, Wf
    <3> QED
      BY <1>3, <1>4, <2>8, <3>1, <3>3, <3>5, <3>6
  <2>10. CASE db' = d
    BY <1>3, <1>4, <2>4, <2>5, <2>8, <2>10
  <2> QED
    BY <2>8, <2>9, <2>10
<1> QED
  BY <1>5, <1>6

LEMMA CheckInterruptStep ==
    ASSUME IInv, checkInterrupt
    PROVE  IInv'
<1>1. /\ UNCHANGED <<formula, loaded, elimVars, learnts, callVars>> /\ ret' = ret
      /\ bwdsub_assigns' = bwdsub_assigns /\ pc = "check" /\ pc' \in {"elim", "search"}
  BY DEF checkInterrupt
<1>2. db' = db \/ db' = [db EXCEPT !.heap = {}]
  BY DEF checkInterrupt
<1>3. CASE db' = db
  <2>1. Step(db, db, eliminated)
    BY DbFacts, NoStep
  <2> QED
    BY <1>1, <1>3, <2>1, DbFacts, SimplifyStep
<1>4. CASE db' = [db EXCEPT !.heap = {}]
  <2>1. PICK e : e = [db EXCEPT !.heap = {}]
    OBVIOUS
  <2>2. db \in DBase
    BY DbFacts
  <2>3. /\ e \in DBase /\ e.ca = db.ca /\ e.trail = db.trail /\ e.ok = db.ok
        /\ e.queue = db.queue
    BY <2>1, <2>2 DEF DBase
  <2>4. Step(db, e, eliminated)
    BY <2>3, DbFacts, SameRest
  <2> QED
    BY <1>1, <1>4, <2>1, <2>3, <2>4, DbFacts, SimplifyStep
<1> QED
  BY <1>2, <1>3, <1>4

LEMMA HeapEmptyStep ==
    ASSUME IInv, heapEmpty
    PROVE  IInv'
<1>1. /\ UNCHANGED <<formula, loaded, elimVars, learnts, callVars>> /\ ret' = ret
      /\ bwdsub_assigns' = bwdsub_assigns /\ pc = "elim" /\ pc' = "while" /\ db' = db
  BY DEF heapEmpty
<1>2. Step(db, db, eliminated)
  BY DbFacts, NoStep
<1> QED
  BY <1>1, <1>2, DbFacts, SimplifyStep

LEMMA EliminateStep ==
    ASSUME IInv, eliminateVar
    PROVE  IInv'
<1>1. /\ UNCHANGED <<formula, loaded, learnts, callVars>>
      /\ bwdsub_assigns' = bwdsub_assigns /\ pc = "elim"
      /\ formula' = formula /\ loaded' = loaded /\ learnts' = learnts /\ cube' = cube
      /\ result' = result /\ model' = model /\ frozen' = frozen
  BY DEF eliminateVar, callVars
<1>2. PICK v \in db.heap :
          \/ /\ db' = [db EXCEPT !.heap = @ \ {v}]
             /\ UNCHANGED <<elimVars, ret>> /\ pc' \in {"while", "elim"}
          \/ /\ v \notin eliminated \cup Assigned(db) \cup frozen
             /\ eliminated' = eliminated \cup {v}
             /\ elimclauses' = elimclauses \o savedClauses(db, v)
             /\ db' = Resolve([db EXCEPT !.heap = @ \ {v}], v)
             /\ pc' \in {"bwd", "search"} /\ ret' = "elim"
  BY <1>1 DEF eliminateVar
<1>3. PICK d : d = [db EXCEPT !.heap = @ \ {v}]
  OBVIOUS
<1>4. /\ Right(db, eliminated) /\ db \in DBase /\ learnts \subseteq SUBSET Lit
      /\ ToSet(db.queue) \subseteq DOMAIN db.ca /\ db.heap \subseteq Var
      /\ Len(db.trail) \in Nat /\ bwdsub_assigns \in 0..Len(db.trail)
      /\ eliminated \subseteq Var /\ elimclauses \in Seq(Saved)
      /\ ret \in {"none", "check", "elim"}
  BY DbFacts, Fields
<1>5. /\ d \in DBase /\ d.ca = db.ca /\ d.trail = db.trail /\ d.ok = db.ok
      /\ d.queue = db.queue
  BY <1>3, <1>4 DEF DBase
<1>6. Step(db, d, eliminated)
  BY <1>4, <1>5, SameRest
<1>7. CASE /\ db' = d
           /\ UNCHANGED <<elimVars, ret>> /\ pc' \in {"while", "elim"}
  BY <1>1, <1>4, <1>5, <1>6, <1>7, SimplifyStep
<1>8. CASE /\ v \notin eliminated \cup Assigned(db) \cup frozen
           /\ eliminated' = eliminated \cup {v}
           /\ elimclauses' = elimclauses \o savedClauses(db, v)
           /\ db' = Resolve(d, v)
           /\ pc' \in {"bwd", "search"} /\ ret' = "elim"
  <2>1. /\ Right(d, eliminated) /\ Extends(d, eliminated, elimclauses)
        /\ Refs(d) = Refs(db) /\ Assigned(d) = Assigned(db)
    BY <1>5, <1>6, ExtendsOn, SameClauses DEF Step, IInv, DbInv, Assigned, Facts
  <2>2. savedClauses(d, v) = savedClauses(db, v)
    <3>1. \A l : Occ(d, l) = Occ(db, l)
      BY <1>5, <2>1 DEF Occ
    <3>2. \A l : mkElimClauses(d, l) = mkElimClauses(db, l)
      BY <1>5, <3>1 DEF mkElimClauses
    <3> QED
      BY <3>1, <3>2 DEF savedClauses
  <2>3. v \in Var /\ v \notin eliminated /\ v \notin Assigned(d)
    BY <1>4, <1>8, <2>1
  <2>4. PICK e : e = Resolve(d, v)
    OBVIOUS
  <2>5. PICK s : s = elimclauses \o savedClauses(d, v)
    OBVIOUS
  <2>6. s \in Seq(Saved) /\ Extends(e, eliminated \cup {v}, s)
    BY <1>4, <2>1, <2>3, <2>4, <2>5, EliminatedExtends
  <2>7. Right(e, eliminated \cup {v}) /\ Len(d.trail) <= Len(e.trail)
    BY <1>4, <2>1, <2>3, <2>4, Resolved
  <2>8. db' = e /\ elimclauses' = s /\ eliminated' = eliminated \cup {v}
    BY <1>8, <2>2, <2>4, <2>5
  <2>9. DbInv'
    BY <1>1, <2>6, <2>7, <2>8, RightLater, ExtendsLater DEF DbInv
  <2>10. Types'
    <3>1. Len(e.trail) \in Nat
      BY <2>7, Fields DEF Right, Wf
    <3>2. bwdsub_assigns' \in 0..Len(db'.trail)
      BY <1>1, <1>4, <1>5, <2>7, <2>8, <3>1
    <3>3. eliminated' \subseteq Var
      BY <1>4, <2>3, <2>8
    <3> QED
      BY <1>1, <1>8, <2>6, <2>8, <3>2, <3>3 DEF IInv, Types
  <2>11. Control'
    <3>1. ~(loaded' < Len(formula'))
      BY <1>1, LoadedIs
    <3> QED
      BY <1>8, <3>1 DEF Control, NothingLeftOver
  <2>12. AnswerIsRight'
    <3>1. pc' \notin {"thaw", "idle"}
      BY <1>8
    <3>2. AnswerIsRight
      BY DEF IInv
    <3>3. formula' = formula /\ result' = result /\ cube' = cube
      BY <1>1
    <3> QED
      BY <3>1, <3>2, <3>3, AnswerLater
  <2> QED
    BY <2>9, <2>10, <2>11, <2>12 DEF IInv
<1> QED
  BY <1>2, <1>3, <1>7, <1>8

LEMMA LearnStep ==
    ASSUME IInv, learnClause
    PROVE  IInv'
<1>1. PICK c \in Learnable[formula] : /\ learnts' = learnts \cup {c}
                                      /\ db' = Propagate(db, learnts \cup {c})
  BY DEF learnClause
<1>2. /\ formula' = formula /\ loaded' = loaded /\ bwdsub_assigns' = bwdsub_assigns
      /\ eliminated' = eliminated /\ elimclauses' = elimclauses /\ pc' = pc /\ pc = "search"
      /\ ret' = ret /\ cube' = cube /\ result' = result /\ model' = model /\ frozen' = frozen
  BY DEF learnClause, elimVars, callVars
<1>3. c \in SUBSET Lit /\ \A a \in Models : a \cap c # {}
  BY <1>1 DEF Learnable, Models, IInv, Types
<1>4. PICK L : L = learnts \cup {c}
  OBVIOUS
<1>5. PICK e : e = Propagate(db, L)
  OBVIOUS
<1>6. /\ Right(db, eliminated) /\ db \in DBase /\ L \subseteq SUBSET Lit
      /\ Len(db.trail) \in Nat /\ bwdsub_assigns \in 0..Len(db.trail)
  BY <1>3, <1>4, DbFacts
<1>7. Grows(db, e) /\ Entails(db, e, L)
  BY <1>5, <1>6, Propagated
<1>8. db' = e /\ learnts' = L
  BY <1>1, <1>4, <1>5
<1>9. e \in DBase /\ e.ca = db.ca /\ e.queue = db.queue /\ Facts(db) \subseteq Facts(e)
      /\ Len(db.trail) <= Len(e.trail) /\ (e.ok => db.ok) /\ Refs(e) = Refs(db)
  BY <1>7, SameClauses DEF Grows
<1>10. Right(db, eliminated)'
  <2>1. Wf(db)'
    BY <1>6, <1>8, <1>9 DEF Right, Wf
  <2>2. Refs(db)' = Refs(e) /\ Facts(db)' = Facts(e)
    BY <1>8 DEF Refs, Facts
  <2>3. Free(db, eliminated)'
    BY <1>2, <1>6, <1>8, <1>9, <2>2 DEF Right, Free
  <2>4. Sound(db)'
    <3>1. Models' = Models
      BY <1>2 DEF Models
    <3>2. Clauses(db, learnts)' = Clauses(e, L)
      BY <1>8, <2>2 DEF Clauses
    <3>3. ASSUME NEW a \in Models PROVE e.ok /\ Holds(e, L, a)
      <4>1. db.ok /\ Holds(db, learnts, a)
        BY <1>6 DEF Right, Sound
      <4>2. Clauses(db, L) = Clauses(db, learnts) \cup {c}
        BY <1>4 DEF Clauses
      <4>3. Holds(db, L, a)
        BY <1>3, <4>1, <4>2 DEF Holds
      <4> QED
        BY <1>7, <4>1, <4>3 DEF Entails
    <3> QED
      BY <1>8, <2>2, <3>1, <3>2, <3>3 DEF Sound, Holds
  <2> QED
    BY <2>1, <2>3, <2>4 DEF Right
<1>11. Extends(db, eliminated, elimclauses)'
  <2>1. Keeps(db, e, eliminated)
    BY <1>9 DEF Keeps, Good
  <2>2. Extends(e, eliminated, elimclauses)
    BY <2>1, ExtendsOn DEF IInv, DbInv
  <2> QED
    BY <1>2, <1>8, <2>2, ExtendsLater
<1>12. Types'
  <2>1. Len(e.trail) \in Nat
    BY <1>9, Fields
  <2>2. bwdsub_assigns' \in 0..Len(db'.trail)
    BY <1>2, <1>6, <1>8, <1>9, <2>1
  <2> QED
    BY <1>2, <1>6, <1>8, <2>2 DEF IInv, Types
<1>13. Control'
  BY <1>2 DEF IInv, Control, NothingLeftOver
<1>14. AnswerIsRight'
  BY <1>2, AnswerLater DEF IInv
<1> QED
  BY <1>10, <1>11, <1>12, <1>13, <1>14 DEF IInv, DbInv

\* A model satisfies what is left, and what an assignment with these literals needs.
LEMMA ModelFound ==
    ASSUME IInv, db.ok, NEW a \in Models, NEW A, A \subseteq a
    PROVE  a \in Found(A)
<1>1. Right(db, eliminated) /\ learnts \subseteq SUBSET Lit
  BY DbFacts
<1>2. a \in Assignments /\ Facts(db) \subseteq a /\ \A c \in Clauses(db, learnts) : c \cap a # {}
  BY <1>1 DEF Right, Sound, Holds
<1>3. /\ a \subseteq Lit /\ \A l \in Lit : l \notin a \/ -l \notin a
      /\ \A l \in Lit : l \in a \/ -l \in a
  BY <1>2, Opposite
<1>4. \A v \in Var : v \in Lit
  BY LitFacts
<1>5. \A c \in learnts : \E l \in c : -l \notin a
  BY <1>1, <1>2, <1>3 DEF Clauses
<1>6. \A cr \in Refs(db) : db.ca[cr].lits \cap a # {}
  BY <1>2 DEF Clauses
<1> QED
  BY <1>2, <1>3, <1>4, <1>5, <1>6 DEF Found

\* What the search ends with satisfies what is left.
LEMMA FoundGood ==
    ASSUME IInv, NEW A, NEW a \in Found(A)
    PROVE  Good(db, eliminated, a) /\ A \subseteq a /\ a \subseteq Lit
<1>1. /\ a \subseteq Lit /\ Facts(db) \subseteq a /\ A \subseteq a
      /\ \A v \in Var : v \notin a \/ -v \notin a
      /\ \A v \in Var \ eliminated : v \in a \/ -v \in a
      /\ \A cr \in Refs(db) : db.ca[cr].lits \cap a # {}
  BY DEF Found
<1>2. ASSUME NEW l \in Lit
      PROVE  /\ l \notin a \/ -l \notin a
             /\ abs(l) \notin eliminated => l \in a \/ -l \in a
  <2>1. abs(l) \in Var /\ (l = abs(l) \/ l = -abs(l)) /\ -(-l) = l
    BY LitFacts
  <2>2. abs(l) \notin a \/ -abs(l) \notin a
    BY <1>1, <2>1
  <2>3. CASE l = abs(l)
    BY <1>1, <2>1, <2>2, <2>3
  <2>4. CASE l = -abs(l)
    <3>1. -l = abs(l)
      <4>1. abs(l) \in Lit /\ -(-abs(l)) = abs(l)
        BY <2>1, LitFacts
      <4> QED
        BY <2>4, <4>1
    <3> QED
      BY <1>1, <2>1, <2>2, <2>4, <3>1
  <2> QED
    BY <2>1, <2>3, <2>4
<1> QED
  BY <1>1, <1>2 DEF Good

\* A model of what is left becomes one of the formula.
LEMMA ExtendedIsModel ==
    ASSUME IInv, db.ok, loaded = Len(formula), NEW a, Good(db, eliminated, a), a \subseteq Lit
    PROVE  /\ extendModel(a) \in Models
           /\ \A l \in Lit : abs(l) \notin eliminated => (l \in extendModel(a) <=> l \in a)
<1>1. PICK m : m = extendModel(a)
  OBVIOUS
<1>2. Replayed(elimclauses, a, m)
  BY <1>1, DbFacts, ModelReplayed
<1>3. /\ m \in Assignments
      /\ \A n \in 1..loaded : formula[n] \cap m # {}
      /\ \A l \in Lit : abs(l) \notin eliminated => (l \in m <=> l \in a)
  BY <1>2 DEF IInv, DbInv, Extends
<1>4. m \in Models
  BY <1>3, FormulaIs DEF IInv, Types
<1> QED
  BY <1>1, <1>3, <1>4

LEMMA SearchStep ==
    ASSUME IInv, search
    PROVE  IInv'
<1>1. /\ formula' = formula /\ loaded' = loaded /\ bwdsub_assigns' = bwdsub_assigns
      /\ eliminated' = eliminated /\ elimclauses' = elimclauses /\ pc' = "thaw" /\ pc = "search"
      /\ ret' = ret /\ cube' = cube /\ frozen' = frozen /\ learnts' = learnts
  BY DEF search, elimVars
<1>2. Models' = Models
  BY <1>1 DEF Models
<1>3. loaded = Len(formula) /\ Len(formula) \in Nat
  BY <1>1, LoadedIs
<1>4. /\ Right(db, eliminated) /\ db \in DBase
      /\ Len(db.trail) \in Nat /\ bwdsub_assigns \in 0..Len(db.trail)
  BY DbFacts
<1>5. ASSUME db' = db PROVE DbInv'
  <2>1. Step(db, db, eliminated)
    BY <1>4, NoStep
  <2> QED
    BY <1>1, <1>5, <2>1, DbStep DEF elimVars
<1>6. ASSUME db'.trail = db.trail PROVE Types'
  BY <1>1, <1>6 DEF IInv, Types
<1>7. Control'
  BY <1>1, <1>3 DEF Control, NothingLeftOver
<1>8. CASE result' = "UNKNOWN" /\ db' = db
  <2>1. AnswerIsRight'
    BY <1>8 DEF AnswerIsRight
  <2> QED
    BY <1>5, <1>6, <1>7, <1>8, <2>1 DEF IInv
<1>9. CASE /\ db.ok /\ result' = "SAT" /\ db' = db
           /\ \E a \in Found(cube) : model' = extendModel(a)
  <2>1. PICK a \in Found(cube) : model' = extendModel(a)
    BY <1>9
  <2>2. Good(db, eliminated, a) /\ cube \subseteq a /\ a \subseteq Lit
    BY FoundGood
  <2>3. /\ model' \in Models
        /\ \A l \in Lit : abs(l) \notin eliminated => (l \in model' <=> l \in a)
    BY <1>3, <1>9, <2>1, <2>2, ExtendedIsModel
  <2>4. {l \in cube : abs(l) \notin eliminated} \subseteq model'
    BY <2>2, <2>3
  <2>5. AnswerIsRight'
    BY <1>1, <1>2, <1>9, <2>3, <2>4 DEF AnswerIsRight
  <2> QED
    BY <1>5, <1>6, <1>7, <1>9, <2>5 DEF IInv
<1>10. CASE /\ db.ok => Found(cube) = {}
            /\ result' = "UNSAT"
            /\ \/ cube # {} /\ db' = db
               \/ Found({}) = {} /\ db' = [db EXCEPT !.ok = FALSE]
  <2>1. AnswerIsRight'
    <3>1. ASSUME NEW a \in Models, cube \subseteq a PROVE FALSE
      <4>1. db.ok
        BY <1>4 DEF Right, Sound
      <4>2. a \in Found(cube)
        BY <3>1, <4>1, ModelFound
      <4> QED
        BY <1>10, <4>1, <4>2
    <3> QED
      BY <1>1, <1>2, <1>10, <3>1 DEF AnswerIsRight
  <2>2. CASE db' = db
    BY <1>5, <1>6, <1>7, <2>1, <2>2 DEF IInv
  <2>3. CASE Found({}) = {} /\ db' = [db EXCEPT !.ok = FALSE]
    <3>1. Models = {}
      <4>1. ASSUME NEW a \in Models PROVE FALSE
        <5>1. db.ok
          BY <1>4 DEF Right, Sound
        <5>2. a \in Found({})
          BY <5>1, ModelFound
        <5> QED
          BY <2>3, <5>2
      <4> QED
        BY <4>1
    <3>2. PICK e : e = [db EXCEPT !.ok = FALSE]
      OBVIOUS
    <3>3. /\ e \in DBase /\ e.ca = db.ca /\ e.trail = db.trail /\ e.queue = db.queue
          /\ e.ok = FALSE
      BY <1>4, <3>2 DEF DBase
    <3>4. Right(e, eliminated)
      <4>1. Wf(e)
        BY <1>4, <3>3 DEF Right, Wf
      <4>2. Free(e, eliminated)
        BY <1>4, <3>3, SameClauses DEF Right, Free
      <4>3. Sound(e)
        BY <3>1 DEF Sound
      <4> QED
        BY <4>1, <4>2, <4>3 DEF Right
    <3>5. Extends(e, eliminated, elimclauses)
      BY <3>3 DEF Extends
    <3>6. db' = e
      BY <2>3, <3>2
    <3>7. DbInv'
      BY <1>1, <3>4, <3>5, <3>6, RightLater, ExtendsLater DEF DbInv
    <3>8. db'.trail = db.trail
      BY <3>3, <3>6
    <3> QED
      BY <1>6, <1>7, <2>1, <3>7, <3>8 DEF IInv
  <2> QED
    BY <1>10, <2>2, <2>3
<1> QED
  BY <1>8, <1>9, <1>10 DEF search

LEMMA ThawStep ==
    ASSUME IInv, thaw
    PROVE  IInv'
<1>1. /\ formula' = formula /\ loaded' = loaded /\ bwdsub_assigns' = bwdsub_assigns
      /\ eliminated' = eliminated /\ elimclauses' = elimclauses /\ pc' = "idle" /\ pc = "thaw"
      /\ ret' = ret /\ cube' = cube /\ frozen' = {} /\ learnts' = learnts
      /\ result' = result /\ model' = model
  BY DEF thaw, elimVars
<1>2. PICK h : h = db.heap \cup (VarsOf(cube) \ (eliminated \cup Assigned(db)))
  OBVIOUS
<1>3. PICK e : e = [db EXCEPT !.heap = h]
  OBVIOUS
<1>4. db' = e
  BY <1>2, <1>3 DEF thaw
<1>5. h \subseteq Var
  BY <1>2, DbFacts, Fields, VarsOfLits DEF IInv, Types
<1>6. /\ e \in DBase /\ e.ca = db.ca /\ e.trail = db.trail /\ e.ok = db.ok
      /\ e.queue = db.queue
  BY <1>3, <1>5, DbFacts DEF DBase
<1>7. Step(db, e, eliminated)
  BY <1>6, DbFacts, SameRest
<1>8. Right(e, eliminated) /\ Extends(e, eliminated, elimclauses)
  BY <1>7, ExtendsOn DEF IInv, DbInv, Step
<1>9. DbInv'
  BY <1>1, <1>4, <1>8, RightLater, ExtendsLater DEF DbInv
<1>10. Types'
  BY <1>1, <1>4, <1>6 DEF IInv, Types
<1>11. Control'
  BY <1>1, LoadedIs DEF Control, NothingLeftOver
<1>12. Models' = Models
  BY <1>1 DEF Models
<1>13. AnswerIsRight'
  BY <1>1, <1>12 DEF IInv, AnswerIsRight
<1> QED
  BY <1>9, <1>10, <1>11, <1>13 DEF IInv

\* The database, the answer and the position stay.
LEMMA Stays ==
    ASSUME IInv,
           UNCHANGED <<formula, loaded, db, bwdsub_assigns, elimVars, learnts, pc, ret, callVars>>
    PROVE  IInv'
<1>1. /\ formula' = formula /\ loaded' = loaded /\ db' = db
      /\ bwdsub_assigns' = bwdsub_assigns
      /\ eliminated' = eliminated /\ elimclauses' = elimclauses /\ learnts' = learnts
      /\ pc' = pc /\ ret' = ret /\ cube' = cube /\ result' = result /\ model' = model
      /\ frozen' = frozen
  BY DEF elimVars, callVars
<1>2. DbInv'
  BY <1>1, RightLater, ExtendsLater DEF IInv, DbInv
<1>3. Types'
  BY <1>1 DEF IInv, Types
<1>4. Control'
  BY <1>1 DEF IInv, Control, NothingLeftOver
<1>5. AnswerIsRight'
  BY <1>1, AnswerLater DEF IInv
<1> QED
  BY <1>2, <1>3, <1>4, <1>5 DEF IInv

-----------------------------------------------------------------------------
(* The theorems *)

\* At every step, wherever a stopped simplification left off: types and references are right,
\* no clause mentions an eliminated variable, models of the formula satisfy what is left,
\* replaying the saved clauses makes of a model of what is left one of the formula, and the
\* last answer was right.
THEOREM Invariance == Spec => []IInv
<1>1. Init => IInv
  BY Start
<1>2. IInv /\ [Next]_vars => IInv'
  <2> SUFFICES ASSUME IInv, [Next]_vars PROVE IInv'
    OBVIOUS
  <2>1. CASE UNCHANGED vars
    BY <2>1, Stays DEF vars
  <2>2. CASE addClause
    BY <2>2, AddClauseStep
  <2>3. CASE solve
    BY <2>3, SolveStep
  <2>4. CASE mainLoop
    BY <2>4, MainLoopStep
  <2>5. CASE bwdInterrupted
    BY <2>5, BwdInterruptedStep
  <2>6. CASE bwdDone
    BY <2>6, BwdDoneStep
  <2>7. CASE backwardSubsumptionCheck
    BY <2>7, SubsumptionStep
  <2>8. CASE checkInterrupt
    BY <2>8, CheckInterruptStep
  <2>9. CASE eliminateVar
    BY <2>9, EliminateStep
  <2>10. CASE heapEmpty
    BY <2>10, HeapEmptyStep
  <2>11. CASE learnClause
    BY <2>11, LearnStep
  <2>12. CASE search
    BY <2>12, SearchStep
  <2>13. CASE thaw
    BY <2>13, ThawStep
  <2>14. CASE interrupt
    BY <2>14, Stays DEF interrupt
  <2> QED
    BY <2>1, <2>2, <2>3, <2>4, <2>5, <2>6, <2>7, <2>8, <2>9, <2>10, <2>11, <2>12, <2>13, <2>14
       DEF Next, solveStep
<1> QED
  BY <1>1, <1>2, PTL DEF Spec

\* The assertions of addClause_ and of eliminate on a request to stop (SimpSolver.cc) hold, in
\* every call of solve_.
THEOREM Assertions == Spec => []AssertionsHold
<1>1. IInv => AssertionsHold
  <2> SUFFICES ASSUME IInv PROVE AssertionsHold
    OBVIOUS
  <2>1. /\ Right(db, eliminated) /\ db \in DBase /\ ToSet(db.queue) \subseteq DOMAIN db.ca
    BY DbFacts
  <2>2. /\ \A cr \in DOMAIN db.ca : db.ca[cr].lits \subseteq Lit /\ db.ca[cr].live \in BOOLEAN
        /\ Facts(db) \subseteq Lit /\ db.touched \subseteq Var /\ db.heap \subseteq Var
        /\ db.ok \in BOOLEAN
    BY <2>1, Fields
  <2>3. TypeOK
    BY <2>1, <2>2 DEF TypeOK, IInv, Types
  <2>4. NoEliminatedOccurs
    BY <2>1 DEF NoEliminatedOccurs, Right, Free
  <2>5. NothingLeftOver
    BY DEF IInv, Control
  <2> QED
    BY <2>3, <2>4, <2>5 DEF AssertionsHold
<1> QED
  BY <1>1, Invariance, PTL

\* Every answer of solve_ is right: an extended model satisfies the whole formula, a refuted
\* cube has none.
THEOREM Answers == Spec => []AnswerIsRight
<1>1. IInv => AnswerIsRight
  BY DEF IInv
<1> QED
  BY <1>1, Invariance, PTL

\* Eliminating, subsuming and strengthening in any order, stopped anywhere, loses no solution
\* of the formula and adds none: on the variables that are left, the clauses that are left
\* have the same solutions.
THEOREM Projection == Spec => []ReducedIsProjection
<1>1. ASSUME IInv PROVE ReducedIsProjection
  <2> DEFINE kept == Var \ eliminated
             on(a) == {l \in a : abs(l) \in kept}
             clauses == {c \in Reduced : VarsOf(c) \subseteq kept}
             Sols == {b \in Assignments : \A c \in clauses : c \cap b # {}}
  <2>1. Right(db, eliminated) /\ db \in DBase
    BY <1>1, DbFacts
  <2>2. CASE ~db.ok
    BY <2>1, <2>2 DEF Right, Sound, ReducedIsProjection
  <2>3. CASE db.ok /\ loaded # Len(formula)
    BY <2>3 DEF ReducedIsProjection
  <2>4. CASE db.ok /\ loaded = Len(formula)
    <3>1. ASSUME NEW a \in Models PROVE a \in Sols
      <4>1. a \in Assignments /\ Facts(db) \subseteq a /\ \A c \in Clauses(db, learnts) : c \cap a # {}
        BY <2>1 DEF Right, Sound, Holds
      <4>2. ASSUME NEW c \in Reduced PROVE c \cap a # {}
        <5>1. CASE \E cr \in Refs(db) : c = db.ca[cr].lits
          BY <4>1, <5>1 DEF Clauses
        <5>2. CASE \E l \in Facts(db) : c = {l}
          BY <4>1, <5>2
        <5> QED
          BY <5>1, <5>2 DEF Reduced
      <4> QED
        BY <4>1, <4>2
    <3>2. ASSUME NEW b \in Sols PROVE \E m \in Models : on(m) = on(b)
      <4>1. /\ b \in Assignments /\ b \subseteq Lit
            /\ \A l \in Lit : l \notin b \/ -l \notin b
            /\ \A l \in Lit : l \in b \/ -l \in b
        <5>1. b \in Assignments
          OBVIOUS
        <5> QED
          BY <5>1, Opposite
      <4>2. \A c \in Reduced : VarsOf(c) \subseteq kept => c \cap b # {}
        OBVIOUS
      <4>3. ASSUME NEW cr \in Refs(db) PROVE db.ca[cr].lits \cap b # {}
        <5>1. db.ca[cr].lits \in Reduced
          BY DEF Reduced
        <5>2. VarsOf(db.ca[cr].lits) \cap eliminated = {}
          BY <2>1 DEF Right, Free
        <5>3. VarsOf(db.ca[cr].lits) \subseteq Var
          BY <2>1, Fields, VarsOfLits
        <5> QED
          BY <4>2, <5>1, <5>2, <5>3
      <4>4. ASSUME NEW l \in Facts(db), abs(l) \notin eliminated PROVE l \in b
        <5>1. {l} \in Reduced
          BY DEF Reduced
        <5>2. l \in Lit /\ abs(l) \in Var
          BY <2>1, Fields, LitFacts
        <5>3. VarsOf({l}) \subseteq kept
          BY <4>4, <5>2 DEF VarsOf
        <5> QED
          BY <4>2, <5>1, <5>3
      <4> HIDE DEF Sols, clauses
      <4>5. Good(db, eliminated, b)
        BY <4>1, <4>3, <4>4 DEF Good
      <4>6. PICK m : m = extendModel(b)
        OBVIOUS
      <4>7. m \in Models /\ \A l \in Lit : abs(l) \notin eliminated => (l \in m <=> l \in b)
        BY <1>1, <2>4, <4>1, <4>5, <4>6, ExtendedIsModel
      <4>8. m \subseteq Lit
        BY <1>1, <4>7, FormulaIs DEF IInv, Types, Assignments
      <4>9. on(m) = on(b)
        BY <4>1, <4>7, <4>8
      <4> QED
        BY <4>7, <4>9
    <3> HIDE DEF Sols, clauses, on
    <3>3. {on(a) : a \in Models} = {on(b) : b \in Sols}
      BY <3>1, <3>2
    <3> USE DEF Sols, clauses, on
    <3> QED
      BY <2>4, <3>3 DEF ReducedIsProjection
  <2> QED
    BY <2>2, <2>3, <2>4
<1>2. IInv => ReducedIsProjection
  BY <1>1
<1> QED
  BY <1>2, Invariance, PTL
=============================================================================
