---------------------------- MODULE SharingProofs ----------------------------
(***************************************************************************)
(* The safety of Sharing, for every command line and all bounds: clauses   *)
(* and solvers are counted right (ControlInv, SolverInv, MemoryInv), every *)
(* clause a sharer handles comes from a producer that may share it         *)
(* (Producing, OriginInv), and a database selects greedily.                *)
(***************************************************************************)
EXTENDS Sharing, ListTheorems, FiniteSetTheorems, FunctionTheorems, TLAPS

-----------------------------------------------------------------------------
(* Sums *)

Sums(part, f, n) ==
    /\ part \in [0..n -> Int] /\ part[0] = 0
    /\ \A k \in 1..n : part[k] = part[k - 1] + f[k]
    /\ \A k \in 0..n : Total(f, k) = part[k]

\* Total adds one term after the other.
LEMMA TotalIs ==
    ASSUME NEW n \in Nat, NEW f, \A k \in 1..n : f[k] \in Int
    PROVE  \E part : Sums(part, f, n)
<1> DEFINE step == [k \in 1..n |-> [x \in Int |-> x + f[k]]]
<1>1. step \in [1..n -> [Int -> Int]]
  OBVIOUS
<1>2. PICK p : Chain(p, n, Int, 0, step)
  <2> HIDE DEF step
  <2>1. 0 \in Int
    OBVIOUS
  <2> QED
    BY <1>1, <2>1, Recursion
<1>3. p \in [0..n -> Int] /\ p[0] = 0 /\ \A k \in 1..n : p[k] = p[k - 1] + f[k]
  <2>1. p \in [0..n -> Int] /\ p[0] = 0 /\ \A k \in 1..n : p[k] = step[k][p[k - 1]]
    BY <1>2 DEF Chain
  <2>2. ASSUME NEW k \in 1..n PROVE step[k][p[k - 1]] = p[k - 1] + f[k]
    <3>1. k - 1 \in 0..n /\ p[k - 1] \in Int
      BY <2>1
    <3> QED
      BY <3>1
  <2> QED
    BY <2>1, <2>2
<1>4. ASSUME NEW m \in 0..n PROVE Total(f, m) = p[m]
  <2> DEFINE Eq(g) == g = [k \in 0..m |-> IF k = 0 THEN 0 ELSE g[k - 1] + f[k]]
             q == [k \in 0..m |-> p[k]]
             c == CHOOSE g : Eq(g)
  <2>1. Eq(q)
    <3>1. ASSUME NEW k \in 0..m PROVE q[k] = IF k = 0 THEN 0 ELSE q[k - 1] + f[k]
      <4>1. CASE k = 0
        BY <1>3, <4>1
      <4>2. CASE k # 0
        <5>1. k \in 1..n /\ k - 1 \in 0..m
          BY <4>2
        <5> QED
          BY <1>3, <4>2, <5>1
      <4> QED
        BY <4>1, <4>2
    <3> QED
      BY <3>1
  <2>2. Eq(c)
    BY <2>1
  <2>3. Total(f, m) = c[m]
    BY DEF Total
  <2> HIDE DEF c
  <2>4. \A k \in 0..m : k \in {x \in 0..m : c[x] = p[x]}
    <3> DEFINE K == {x \in 0..m : c[x] = p[x]}
    <3>1. 0 \in K
      BY <1>3, <2>2
    <3>2. ASSUME NEW k \in 1..m, k - 1 \in K PROVE k \in K
      <4>1. c[k] = c[k - 1] + f[k] /\ c[k - 1] = p[k - 1] /\ k \in 1..n
        BY <2>2, <3>2
      <4> QED
        BY <1>3, <4>1
    <3> HIDE DEF K
    <3>3. m \in Nat
      OBVIOUS
    <3>4. \A k \in 0..m : k \in K
      BY <3>1, <3>2, <3>3, Upwards
    <3> QED
      BY <3>4 DEF K
  <2>5. c[m] = p[m]
    BY <2>4
  <2> QED
    BY <2>3, <2>5
<1> QED
  BY <1>3, <1>4 DEF Sums

\* The sum of no terms, and of one more.
LEMMA TotalStep ==
    ASSUME NEW n \in Nat, NEW f, \A k \in 1..n : f[k] \in Int
    PROVE  /\ Total(f, 0) = 0
           /\ \A k \in 0..n : Total(f, k) \in Int
           /\ \A k \in 1..n : Total(f, k) = Total(f, k - 1) + f[k]
<1>1. PICK part : Sums(part, f, n)
  BY TotalIs
<1>2. \A k \in 1..n : k - 1 \in 0..n /\ k \in 0..n
  OBVIOUS
<1> QED
  BY <1>1, <1>2 DEF Sums

\* Two sums term by term.
LEMMA TotalAdd ==
    ASSUME NEW n \in Nat, NEW f, NEW g, NEW h,
           \A k \in 1..n : f[k] \in Int /\ g[k] \in Int /\ h[k] = f[k] + g[k]
    PROVE  Total(h, n) = Total(f, n) + Total(g, n)
<1> DEFINE K == {k \in 0..n : Total(h, k) = Total(f, k) + Total(g, k)}
<1>1. \A k \in 1..n : h[k] \in Int /\ h[k] = f[k] + g[k] /\ f[k] \in Int /\ g[k] \in Int
  OBVIOUS
<1>2. /\ Total(f, 0) = 0 /\ Total(g, 0) = 0 /\ Total(h, 0) = 0
      /\ \A k \in 0..n : Total(f, k) \in Int /\ Total(g, k) \in Int
      /\ \A k \in 1..n : /\ Total(f, k) = Total(f, k - 1) + f[k]
                         /\ Total(g, k) = Total(g, k - 1) + g[k]
                         /\ Total(h, k) = Total(h, k - 1) + h[k]
  BY <1>1, TotalStep
<1>3. 0 \in K
  BY <1>2
<1>4. ASSUME NEW k \in 1..n, k - 1 \in K PROVE k \in K
  <2>1. k - 1 \in 0..n /\ Total(h, k - 1) = Total(f, k - 1) + Total(g, k - 1)
    BY <1>4
  <2> QED
    BY <1>1, <1>2, <2>1
<1> HIDE DEF K
<1>5. n \in K
  BY <1>3, <1>4, Upwards, SMTT(40)
<1> QED
  BY <1>5 DEF K

\* The same terms.
LEMMA TotalSame ==
    ASSUME NEW n \in Nat, NEW f, NEW g, \A k \in 1..n : f[k] \in Int /\ f[k] = g[k]
    PROVE  Total(f, n) = Total(g, n)
<1> DEFINE z == [k \in 1..n |-> 0]
           K == {k \in 0..n : Total(f, k) = Total(g, k)}
<1>1. \A k \in 1..n : f[k] \in Int /\ g[k] \in Int /\ f[k] = g[k]
  OBVIOUS
<1>2. /\ Total(f, 0) = 0 /\ Total(g, 0) = 0
      /\ \A k \in 1..n : /\ Total(f, k) = Total(f, k - 1) + f[k]
                         /\ Total(g, k) = Total(g, k - 1) + g[k]
  BY <1>1, TotalStep
<1>3. 0 \in K
  BY <1>2
<1>4. ASSUME NEW k \in 1..n, k - 1 \in K PROVE k \in K
  BY <1>1, <1>2, <1>4
<1> HIDE DEF K
<1>5. n \in K
  BY <1>3, <1>4, Upwards
<1> QED
  BY <1>5 DEF K

\* Nothing and something.
LEMMA TotalZero ==
    ASSUME NEW n \in Nat, NEW f, \A k \in 1..n : f[k] = 0
    PROVE  Total(f, n) = 0
<1>1. \A k \in 1..n : f[k] \in Int /\ f[k] = f[k] + f[k]
  OBVIOUS
<1>2. Total(f, n) = Total(f, n) + Total(f, n)
  BY <1>1, TotalAdd
<1>3. n \in 0..n /\ Total(f, n) \in Int
  BY <1>1, TotalStep
<1>4. PICK x : x = Total(f, n)
  OBVIOUS
<1>5. x \in Int /\ x = x + x
  BY <1>2, <1>3, <1>4
<1>6. x = 0
  BY <1>5
<1> QED
  BY <1>4, <1>6

\* A sum of natural numbers is one, and no less than a term.
LEMMA TotalNat ==
    ASSUME NEW n \in Nat, NEW f, \A k \in 1..n : f[k] \in Nat
    PROVE  Total(f, n) \in Nat /\ \A k \in 1..n : f[k] <= Total(f, n)
<1> DEFINE K == {m \in 0..n : Total(f, m) \in Nat /\ \A k \in 1..m : f[k] <= Total(f, m)}
<1>1. \A k \in 1..n : f[k] \in Int
  OBVIOUS
<1>2. /\ Total(f, 0) = 0
      /\ \A k \in 1..n : Total(f, k) = Total(f, k - 1) + f[k]
  BY <1>1, TotalStep
<1>3. 0 \in K
  BY <1>2
<1>4. ASSUME NEW m \in 1..n, m - 1 \in K PROVE m \in K
  <2>1. Total(f, m - 1) \in Nat /\ \A k \in 1..(m - 1) : f[k] <= Total(f, m - 1)
    BY <1>4
  <2>2. Total(f, m) = Total(f, m - 1) + f[m] /\ f[m] \in Nat
    BY <1>2
  <2>3. ASSUME NEW k \in 1..m PROVE f[k] <= Total(f, m)
    <3>1. CASE k = m
      BY <2>1, <2>2, <3>1
    <3>2. CASE k # m
      <4>1. k \in 1..(m - 1) /\ k \in 1..n
        BY <3>2
      <4>2. f[k] <= Total(f, m - 1) /\ f[k] \in Nat
        BY <2>1, <4>1
      <4> QED
        BY <2>1, <2>2, <4>2
    <3> QED
      BY <3>1, <3>2
  <2> QED
    BY <2>1, <2>2, <2>3
<1> HIDE DEF K
<1>5. n \in K
  BY <1>3, <1>4, Upwards
<1> QED
  BY <1>5 DEF K

\* One term changes.
LEMMA TotalChange ==
    ASSUME NEW n \in Nat, NEW f, NEW g, NEW m \in 1..n,
           \A k \in 1..n : f[k] \in Int /\ g[k] \in Int /\ (k # m => f[k] = g[k])
    PROVE  Total(g, n) = Total(f, n) + g[m] - f[m]
<1> DEFINE K == {k \in 0..n : Total(g, k) = Total(f, k) + IF k < m THEN 0 ELSE g[m] - f[m]}
<1>1. \A k \in 1..n : f[k] \in Int /\ g[k] \in Int
  OBVIOUS
<1>2. /\ Total(f, 0) = 0 /\ Total(g, 0) = 0
      /\ \A k \in 0..n : Total(f, k) \in Int /\ Total(g, k) \in Int
      /\ \A k \in 1..n : /\ Total(f, k) = Total(f, k - 1) + f[k]
                         /\ Total(g, k) = Total(g, k - 1) + g[k]
  BY <1>1, TotalStep
<1>3. 0 \in K
  BY <1>2
<1>4. ASSUME NEW k \in 1..n, k - 1 \in K PROVE k \in K
  <2>1. Total(g, k - 1) = Total(f, k - 1) + IF k - 1 < m THEN 0 ELSE g[m] - f[m]
    BY <1>4
  <2>2. /\ Total(f, k) = Total(f, k - 1) + f[k] /\ Total(g, k) = Total(g, k - 1) + g[k]
        /\ Total(f, k - 1) \in Int /\ Total(g, k - 1) \in Int /\ f[k] \in Int /\ g[k] \in Int
    BY <1>1, <1>2
  <2>3. f[m] \in Int /\ g[m] \in Int
    BY <1>1
  <2>4. CASE k < m
    <3>1. f[k] = g[k]
      BY <2>4
    <3> QED
      BY <2>1, <2>2, <2>4, <3>1
  <2>5. CASE k = m
    BY <2>1, <2>2, <2>3, <2>5
  <2>6. CASE k > m
    <3>1. f[k] = g[k]
      BY <2>6
    <3> QED
      BY <2>1, <2>2, <2>3, <2>6, <3>1
  <2> QED
    BY <2>4, <2>5, <2>6
<1> HIDE DEF K
<1>5. n \in K
  BY <1>3, <1>4, Upwards
<1>6. Total(g, n) = Total(f, n) + (g[m] - f[m])
  BY <1>5 DEF K
<1>7. Total(f, n) \in Int /\ f[m] \in Int /\ g[m] \in Int
  BY <1>2
<1> QED
  BY <1>6, <1>7

-----------------------------------------------------------------------------
(* Counting in sequences *)

Places1(q, x) == {n \in 1..Len(q) : q[n] = x}

\* As many on one side as on the other.
LEMMA SameNumber ==
    ASSUME NEW A, NEW B, IsFiniteSet(A), NEW f \in [A -> B],
           \A x, y \in A : f[x] = f[y] => x = y, \A y \in B : \E x \in A : f[x] = y
    PROVE  IsFiniteSet(B) /\ Cardinality(B) = Cardinality(A)
<1>1. f \in Bijection(A, B)
  BY Fun_IsBij
<1>2. ExistsBijection(A, B)
  BY <1>1 DEF ExistsBijection
<1> QED
  BY <1>2, FS_Bijection

\* Count is a number, positive for the elements.
LEMMA CountOf ==
    ASSUME NEW S, NEW q \in Seq(S), NEW x
    PROVE  /\ IsFiniteSet(Places1(q, x)) /\ Count(q, x) = Cardinality(Places1(q, x))
           /\ Count(q, x) \in Nat
           /\ Count(q, x) > 0 <=> x \in Set(q)
           /\ Set(q) = {q[n] : n \in 1..Len(q)} /\ Set(q) \subseteq S
<1>1. Len(q) \in Nat /\ DOMAIN q = 1..Len(q) /\ \A n \in 1..Len(q) : q[n] \in S
  OBVIOUS
<1>2. IsFiniteSet(1..Len(q))
  BY <1>1, FS_Interval
<1>3. Places1(q, x) \subseteq 1..Len(q)
  BY DEF Places1
<1>4. IsFiniteSet(Places1(q, x))
  BY <1>2, <1>3, FS_Subset
<1>5. Count(q, x) = Cardinality(Places1(q, x))
  BY <1>1 DEF Count, Places1
<1>6. Count(q, x) \in Nat
  BY <1>4, <1>5, FS_CardinalityType
<1>7. Cardinality(Places1(q, x)) = 0 <=> Places1(q, x) = {}
  BY <1>4, FS_EmptySet
<1>8. Set(q) = {q[n] : n \in 1..Len(q)}
  BY <1>1 DEF Set
<1>9. x \in Set(q) <=> Places1(q, x) # {}
  BY <1>8 DEF Places1
<1> QED
  BY <1>1, <1>4, <1>5, <1>6, <1>7, <1>8, <1>9

\* No element; one element.
LEMMA CountNone ==
    /\ \A x : Count(<<>>, x) = 0
    /\ \A x, y : Count(<<y>>, x) = IF x = y THEN 1 ELSE 0
<1>1. ASSUME NEW x PROVE Count(<<>>, x) = 0
  <2>1. {n \in DOMAIN <<>> : <<>>[n] = x} = {}
    OBVIOUS
  <2> QED
    BY <2>1, FS_EmptySet DEF Count
<1>2. ASSUME NEW x, NEW y PROVE Count(<<y>>, x) = IF x = y THEN 1 ELSE 0
  <2>1. DOMAIN <<y>> = {1} /\ <<y>>[1] = y
    OBVIOUS
  <2>2. CASE x = y
    <3>1. {n \in DOMAIN <<y>> : <<y>>[n] = x} = {1}
      BY <2>1, <2>2
    <3> QED
      BY <2>2, <3>1, FS_Singleton DEF Count
  <2>3. CASE x # y
    <3>1. {n \in DOMAIN <<y>> : <<y>>[n] = x} = {}
      BY <2>1, <2>3
    <3> QED
      BY <2>3, <3>1, FS_EmptySet DEF Count
  <2> QED
    BY <2>2, <2>3
<1> QED
  BY <1>1, <1>2

\* u holds what q and r hold.
Joins(u, q, r) == \A x : Count(u, x) = Count(q, x) + Count(r, x)

\* One sequence after another.
LEMMA CountConcat ==
    ASSUME NEW S, NEW q \in Seq(S), NEW r \in Seq(S)
    PROVE  q \o r \in Seq(S) /\ Joins(q \o r, q, r)
<1> DEFINE u == q \o r
<1> HIDE DEF u
<1> SUFFICES ASSUME NEW x PROVE u \in Seq(S) /\ Count(u, x) = Count(q, x) + Count(r, x)
  BY DEF Joins, u
<1> DEFINE A == Places1(q, x)
           B == Places1(r, x)
           C == {n + Len(q) : n \in B}
<1>1. /\ u \in Seq(S) /\ Len(u) = Len(q) + Len(r) /\ Len(q) \in Nat /\ Len(r) \in Nat
      /\ \A n \in 1..(Len(q) + Len(r)) : u[n] = IF n <= Len(q) THEN q[n] ELSE r[n - Len(q)]
  BY ConcatProperties DEF u
<1>2. IsFiniteSet(A) /\ IsFiniteSet(B) /\ Count(q, x) = Cardinality(A) /\ Count(r, x) = Cardinality(B)
      /\ Count(u, x) = Cardinality(Places1(u, x))
      /\ Count(q, x) \in Nat /\ Count(r, x) \in Nat
  BY <1>1, CountOf
<1>3. IsFiniteSet(C) /\ Cardinality(C) = Cardinality(B)
  <2> DEFINE f == [n \in B |-> n + Len(q)]
  <2>1. B \subseteq Nat
    BY DEF Places1
  <2>2. f \in [B -> C] /\ \A y \in C : \E n \in B : f[n] = y
    OBVIOUS
  <2>3. \A m, n \in B : f[m] = f[n] => m = n
    BY <1>1, <2>1
  <2> HIDE DEF f, B, C
  <2> QED
    BY <1>2, <2>2, <2>3, SameNumber
<1>4. Places1(u, x) = A \cup C
  <2>1. ASSUME NEW n \in Places1(u, x) PROVE n \in A \cup C
    <3>1. n \in 1..(Len(q) + Len(r)) /\ u[n] = x
      BY <1>1 DEF Places1
    <3>2. CASE n <= Len(q)
      BY <1>1, <3>1, <3>2 DEF Places1
    <3>3. CASE ~(n <= Len(q))
      <4>1. n - Len(q) \in 1..Len(r) /\ r[n - Len(q)] = x /\ n = (n - Len(q)) + Len(q)
        BY <1>1, <3>1, <3>3
      <4>2. n - Len(q) \in B
        BY <4>1 DEF Places1
      <4> QED
        BY <4>1, <4>2
    <3> QED
      BY <3>2, <3>3
  <2>2. ASSUME NEW n \in A PROVE n \in Places1(u, x)
    BY <1>1 DEF Places1
  <2>3. ASSUME NEW n \in B PROVE n + Len(q) \in Places1(u, x)
    <3>1. n \in 1..Len(r) /\ r[n] = x
      BY DEF Places1
    <3>2. n + Len(q) \in 1..(Len(q) + Len(r)) /\ ~(n + Len(q) <= Len(q)) /\ n + Len(q) - Len(q) = n
      BY <1>1, <3>1
    <3> QED
      BY <1>1, <3>1, <3>2 DEF Places1
  <2> QED
    BY <2>1, <2>2, <2>3
<1>5. A \cap C = {}
  BY <1>1 DEF Places1
<1> HIDE DEF A, C
<1>6. Cardinality(A \cup C) = Cardinality(A) + Cardinality(C) - Cardinality(A \cap C)
  BY <1>2, <1>3, FS_Union
<1>7. Cardinality(A \cap C) = 0
  BY <1>5, FS_EmptySet
<1>8. Count(u, x) = Count(q, x) + Count(r, x)
  BY <1>2, <1>3, <1>4, <1>6, <1>7
<1> QED
  BY <1>1, <1>8

\* An element at the end.
LEMMA CountAppend ==
    ASSUME NEW S, NEW q \in Seq(S), NEW e \in S, NEW x
    PROVE  /\ Append(q, e) \in Seq(S)
           /\ Count(Append(q, e), x) = Count(q, x) + IF x = e THEN 1 ELSE 0
<1>1. <<e>> \in Seq(S) /\ Append(q, e) = q \o <<e>>
  BY AppendIsConcat
<1>2. Joins(Append(q, e), q, <<e>>) /\ Append(q, e) \in Seq(S)
  BY <1>1, CountConcat
<1>3. Count(<<e>>, x) = IF x = e THEN 1 ELSE 0
  BY CountNone
<1>4. Count(Append(q, e), x) = Count(q, x) + Count(<<e>>, x)
  BY <1>2 DEF Joins
<1> QED
  BY <1>2, <1>3, <1>4

\* The first element.
LEMMA CountTail ==
    ASSUME NEW S, NEW q \in Seq(S), q # <<>>, NEW x
    PROVE  /\ Head(q) \in S /\ Tail(q) \in Seq(S) /\ <<Head(q)>> \in Seq(S)
           /\ Count(q, x) = Count(<<Head(q)>>, x) + Count(Tail(q), x)
<1>1. Head(q) \in S /\ Tail(q) \in Seq(S) /\ <<Head(q)>> \in Seq(S)
  BY HeadTailProperties
<1>2. q = <<Head(q)>> \o Tail(q)
  <2>1. Len(q) \in Nat /\ Len(q) > 0 /\ Head(q) = q[1]
    BY EmptySeq
  <2>2. /\ <<Head(q)>> \o Tail(q) \in Seq(S) /\ Len(<<Head(q)>> \o Tail(q)) = 1 + Len(Tail(q))
        /\ \A n \in 1..(1 + Len(Tail(q))) : (<<Head(q)>> \o Tail(q))[n] =
                IF n <= 1 THEN <<Head(q)>>[n] ELSE Tail(q)[n - 1]
    <3>1. Len(<<Head(q)>>) = 1
      OBVIOUS
    <3> QED
      BY <1>1, <3>1, ConcatProperties
  <2>3. Len(Tail(q)) = Len(q) - 1 /\ \A n \in 1..Len(Tail(q)) : Tail(q)[n] = q[n + 1]
    BY HeadTailProperties
  <2>4. ASSUME NEW n \in 1..Len(q) PROVE q[n] = (<<Head(q)>> \o Tail(q))[n]
    <3>1. CASE n = 1
      BY <2>1, <2>2, <2>3, <3>1
    <3>2. CASE n # 1
      <4>1. n - 1 \in 1..Len(Tail(q)) /\ n \in 1..(1 + Len(Tail(q))) /\ ~(n <= 1) /\ n - 1 + 1 = n
        BY <2>1, <2>3, <3>2
      <4> QED
        BY <2>2, <2>3, <4>1
    <3> QED
      BY <3>1, <3>2
  <2> HIDE <1>1
  <2> QED
    BY <2>1, <2>2, <2>3, <2>4, SeqEqual
<1>3. Joins(q, <<Head(q)>>, Tail(q))
  BY <1>1, <1>2, CountConcat
<1> QED
  BY <1>1, <1>3 DEF Joins

\* What getClauses takes, drops and leaves.
LEMMA CountGot ==
    ASSUME NEW S, NEW q \in Seq(S), NEW k \in 0..Len(q), NEW x
    PROVE  /\ Got(q, k) \in Seq(S) /\ Dropped(q, k) \in Seq(S) /\ Left(q, k) \in Seq(S)
           /\ Count(q, x) = Count(Got(q, k), x) + Count(Dropped(q, k), x) + Count(Left(q, k), x)
<1>1. Len(q) \in Nat /\ k \in Nat /\ \A n \in 1..Len(q) : q[n] \in S
  OBVIOUS
<1>2. PICK m : m = Min({k + 1, Len(q)})
  OBVIOUS
<1>3. m = IF k + 1 <= Len(q) THEN k + 1 ELSE Len(q)
  BY <1>1, <1>2 DEF Min
<1>4. m \in k..Len(q)
  BY <1>1, <1>3
<1>5. /\ SubSeq(q, 1, k) \in Seq(S) /\ SubSeq(q, k + 1, m) \in Seq(S)
      /\ SubSeq(q, m + 1, Len(q)) \in Seq(S) /\ SubSeq(q, k + 1, Len(q)) \in Seq(S)
  BY <1>1, <1>4, SubSeqProperties
<1>6. Left(q, k) = SubSeq(q, m + 1, Len(q))
  <2>1. CASE k + 1 <= Len(q)
    <3>1. m + 1 = k + 2
      BY <1>1, <1>3, <2>1
    <3> QED
      BY <3>1 DEF Left
  <2>2. CASE ~(k + 1 <= Len(q))
    <3>1. m = Len(q) /\ k + 2 \in Int /\ m + 1 \in Int /\ Len(q) < k + 2 /\ Len(q) < m + 1
      BY <1>1, <1>3, <2>2
    <3>2. SubSeq(q, k + 2, Len(q)) = <<>> /\ SubSeq(q, m + 1, Len(q)) = <<>>
      BY <1>1, <3>1, SubSeqEmpty
    <3> QED
      BY <3>2 DEF Left
  <2> QED
    BY <2>1, <2>2
<1>7. Got(q, k) = SubSeq(q, 1, k) /\ Dropped(q, k) = SubSeq(q, k + 1, m)
  BY <1>2 DEF Got, Dropped
<1>8. SubSeq(q, 1, k) \o SubSeq(q, k + 1, Len(q)) = q
  <2>1. 1 \in 1..(Len(q) + 1) /\ k \in (1 - 1)..Len(q) /\ Len(q) \in k..Len(q)
    BY <1>1
  <2>2. SubSeq(q, 1, k) \o SubSeq(q, k + 1, Len(q)) = SubSeq(q, 1, Len(q))
    BY <2>1, ConcatAdjacentSubSeq
  <2> QED
    BY <2>2, SubSeqFull
<1>9. SubSeq(q, k + 1, m) \o SubSeq(q, m + 1, Len(q)) = SubSeq(q, k + 1, Len(q))
  <2>1. k + 1 \in 1..(Len(q) + 1) /\ m \in ((k + 1) - 1)..Len(q) /\ Len(q) \in m..Len(q)
    BY <1>1, <1>4
  <2> QED
    BY <2>1, ConcatAdjacentSubSeq
<1>10. Joins(q, SubSeq(q, 1, k), SubSeq(q, k + 1, Len(q)))
  BY <1>5, <1>8, CountConcat
<1>11. Joins(SubSeq(q, k + 1, Len(q)), SubSeq(q, k + 1, m), SubSeq(q, m + 1, Len(q)))
  BY <1>5, <1>9, CountConcat
<1>12. /\ Count(SubSeq(q, 1, k), x) \in Nat /\ Count(SubSeq(q, k + 1, m), x) \in Nat
       /\ Count(SubSeq(q, m + 1, Len(q)), x) \in Nat
  BY <1>5, CountOf
<1>13. Count(q, x) = Count(SubSeq(q, 1, k), x) + Count(SubSeq(q, k + 1, m), x) + Count(SubSeq(q, m + 1, Len(q)), x)
  BY <1>10, <1>11, <1>12 DEF Joins
<1> QED
  BY <1>5, <1>6, <1>7, <1>13

\* In the opposite order.
LEMMA CountReverse ==
    ASSUME NEW S, NEW q \in Seq(S), NEW x
    PROVE  Reverse(q) \in Seq(S) /\ Count(Reverse(q), x) = Count(q, x)
<1> DEFINE r == Reverse(q)
           A == Places1(q, x)
           B == Places1(r, x)
<1>1. Len(q) \in Nat /\ \A n \in 1..Len(q) : q[n] \in S /\ Len(q) - n + 1 \in 1..Len(q)
  OBVIOUS
<1>2. r = [n \in 1..Len(q) |-> q[(Len(q) - n) + 1]]
  BY DEF Reverse
<1>3. r \in [1..Len(q) -> S]
  BY <1>1, <1>2
<1>4. r \in Seq(S) /\ Len(r) = Len(q)
  <2> HIDE DEF r
  <2> QED
    BY <1>1, <1>3, SeqDef
<1> HIDE DEF r
<1>5. /\ Count(q, x) = Cardinality(A) /\ Count(r, x) = Cardinality(B) /\ IsFiniteSet(A)
  BY <1>4, CountOf
<1> DEFINE f == [n \in A |-> Len(q) - n + 1]
<1>6. f \in [A -> B]
  <2>1. ASSUME NEW n \in A PROVE Len(q) - n + 1 \in B
    <3>1. n \in 1..Len(q) /\ q[n] = x
      BY DEF Places1
    <3>2. Len(q) - n + 1 \in 1..Len(q) /\ (Len(q) - (Len(q) - n + 1)) + 1 = n
      BY <1>1, <3>1
    <3> QED
      BY <1>2, <1>4, <3>1, <3>2 DEF Places1
  <2> QED
    BY <2>1
<1>7. ASSUME NEW y \in B PROVE \E n \in A : f[n] = y
  <2>1. y \in 1..Len(q) /\ q[(Len(q) - y) + 1] = x
    BY <1>2, <1>4 DEF Places1
  <2>2. Len(q) - y + 1 \in 1..Len(q) /\ Len(q) - (Len(q) - y + 1) + 1 = y
    BY <1>1, <2>1
  <2>3. Len(q) - y + 1 \in A
    BY <2>1, <2>2 DEF Places1
  <2>4. f[Len(q) - y + 1] = Len(q) - (Len(q) - y + 1) + 1
    BY <2>3
  <2> QED
    BY <2>2, <2>3, <2>4
<1>8. \A m, n \in A : f[m] = f[n] => m = n
  BY <1>1 DEF Places1
<1> HIDE DEF f, A, B
<1>9. Cardinality(B) = Cardinality(A)
  BY <1>5, <1>6, <1>7, <1>8, SameNumber
<1> QED
  BY <1>4, <1>5, <1>9 DEF r

\* One element more of a sequence.
LEMMA CountPrefix ==
    ASSUME NEW S, NEW q \in Seq(S)
    PROVE  /\ SubSeq(q, 1, 0) = <<>> /\ SubSeq(q, 1, Len(q)) = q
           /\ \A n \in 0..Len(q) : SubSeq(q, 1, n) \in Seq(S)
           /\ \A n \in 1..Len(q) : /\ q[n] \in S
                                   /\ Joins(SubSeq(q, 1, n), SubSeq(q, 1, n - 1), <<q[n]>>)
<1>1. Len(q) \in Nat /\ \A n \in 1..Len(q) : q[n] \in S
  OBVIOUS
<1>2. SubSeq(q, 1, 0) = <<>>
  BY SubSeqEmpty
<1>3. SubSeq(q, 1, Len(q)) = q
  BY SubSeqFull
<1>4. ASSUME NEW n \in 0..Len(q) PROVE SubSeq(q, 1, n) \in Seq(S)
  BY <1>1, SubSeqProperties
<1>5. ASSUME NEW n \in 1..Len(q) PROVE Joins(SubSeq(q, 1, n), SubSeq(q, 1, n - 1), <<q[n]>>)
  <2>1. n - 1 \in 0..Len(q) /\ n \in 0..Len(q) /\ n \in Nat
    BY <1>1
  <2>2. SubSeq(q, 1, n) = Append(SubSeq(q, 1, n - 1), q[n])
    <3>1. SubSeq(q, 1, n) \in Seq(S) /\ SubSeq(q, 1, n - 1) \in Seq(S)
      BY <1>4, <2>1
    <3>2. /\ Len(SubSeq(q, 1, n)) = n /\ Len(SubSeq(q, 1, n - 1)) = n - 1
          /\ \A m \in 1..n : SubSeq(q, 1, n)[m] = q[m]
          /\ \A m \in 1..(n - 1) : SubSeq(q, 1, n - 1)[m] = q[m]
      BY <1>1, <2>1
    <3> QED
      BY <1>1, <3>1, <3>2, AppendProperties, SeqEqual
  <2>3. <<q[n]>> \in Seq(S) /\ SubSeq(q, 1, n - 1) \in Seq(S) /\ q[n] \in S
    BY <1>1, <1>4, <2>1
  <2>4. SubSeq(q, 1, n) = SubSeq(q, 1, n - 1) \o <<q[n]>>
    BY <2>2, <2>3, AppendIsConcat
  <2> QED
    BY <2>3, <2>4, CountConcat
<1> QED
  BY <1>1, <1>2, <1>3, <1>4, <1>5

\* u holds of q what is in S.
Filters(u, q, S) == \A x : Count(u, x) = IF x \in S THEN Count(q, x) ELSE 0

\* Filter keeps what is in S.
LEMMA FilterIs ==
    ASSUME NEW W, NEW q \in Seq(W), NEW S
    PROVE  Filter(q, S) \in Seq(W) /\ Filters(Filter(q, S), q, S)
<1>1. PICK N : N = Len(q) /\ N \in Nat /\ \A n \in 1..N : q[n] \in W /\ n - 1 \in 0..N
  <2>1. Len(q) \in Nat /\ \A n \in 1..Len(q) : q[n] \in W /\ n - 1 \in 0..Len(q)
    OBVIOUS
  <2> QED
    BY <2>1
<1> DEFINE pre(n) == SubSeq(q, 1, n)
           step == [n \in 1..N |-> [t \in Seq(W) |-> IF q[n] \in S THEN Append(t, q[n]) ELSE t]]
           Eq(g) == g = [n \in 0..N |-> IF n = 0 THEN <<>>
                                        ELSE IF q[n] \in S THEN Append(g[n - 1], q[n]) ELSE g[n - 1]]
           c == CHOOSE g : Eq(g)
<1>2. step \in [1..N -> [Seq(W) -> Seq(W)]]
  <2>1. ASSUME NEW n \in 1..N, NEW t \in Seq(W) PROVE Append(t, q[n]) \in Seq(W)
    BY <1>1
  <2> QED
    BY <2>1
<1>3. PICK p : Chain(p, N, Seq(W), <<>>, step)
  <2> HIDE DEF step
  <2>1. <<>> \in Seq(W)
    OBVIOUS
  <2> QED
    BY <1>1, <1>2, <2>1, Recursion
<1>4. /\ p \in [0..N -> Seq(W)] /\ p[0] = <<>>
      /\ \A n \in 1..N : p[n] = IF q[n] \in S THEN Append(p[n - 1], q[n]) ELSE p[n - 1]
  <2>1. p \in [0..N -> Seq(W)] /\ p[0] = <<>> /\ \A n \in 1..N : p[n] = step[n][p[n - 1]]
    BY <1>3 DEF Chain
  <2>2. ASSUME NEW n \in 1..N
        PROVE  step[n][p[n - 1]] = IF q[n] \in S THEN Append(p[n - 1], q[n]) ELSE p[n - 1]
    <3>1. n - 1 \in 0..N /\ p[n - 1] \in Seq(W)
      BY <1>1, <2>1
    <3> QED
      BY <3>1
  <2> QED
    BY <2>1, <2>2
<1>5. Eq(p)
  <2>1. ASSUME NEW n \in 0..N
        PROVE  p[n] = IF n = 0 THEN <<>> ELSE IF q[n] \in S THEN Append(p[n - 1], q[n]) ELSE p[n - 1]
    <3>1. CASE n = 0
      BY <1>4, <3>1
    <3>2. CASE n # 0
      <4>1. n \in 1..N
        BY <1>1, <3>2
      <4> QED
        BY <1>4, <3>2, <4>1
    <3> QED
      BY <3>1, <3>2
  <2> QED
    BY <1>4, <2>1
<1>6. Eq(c)
  BY <1>5
<1>7. Filter(q, S) = c[N]
  BY <1>1 DEF Filter
<1> HIDE DEF c, step
<1>8. c = p
  <2> DEFINE K == {n \in 0..N : c[n] = p[n]}
  <2>1. 0 \in K
    BY <1>1, <1>4, <1>6
  <2>2. ASSUME NEW n \in 1..N, n - 1 \in K PROVE n \in K
    <3>1. c[n] = IF q[n] \in S THEN Append(c[n - 1], q[n]) ELSE c[n - 1]
      <4>1. n \in 0..N /\ n # 0
        BY <1>1
      <4> QED
        BY <1>6, <4>1
    <3>2. c[n - 1] = p[n - 1]
      BY <2>2
    <3> QED
      BY <1>4, <3>1, <3>2
  <2> HIDE DEF K
  <2>3. \A n \in 0..N : n \in K
    BY <1>1, <2>1, <2>2, Upwards
  <2>4. \A n \in 0..N : c[n] = p[n]
    BY <2>3 DEF K
  <2> QED
    BY <1>5, <1>6, <2>4
<1>9. ASSUME NEW x PROVE Count(p[N], x) = IF x \in S THEN Count(q, x) ELSE 0
  <2> DEFINE K == {n \in 0..N : Count(p[n], x) = IF x \in S THEN Count(pre(n), x) ELSE 0}
  <2> HIDE DEF pre
  <2>1. 0 \in K
    <3>1. Count(<<>>, x) = 0 /\ p[0] = <<>> /\ pre(0) = <<>>
      BY <1>4, CountNone, CountPrefix DEF pre
    <3> QED
      BY <1>1, <3>1
  <2>2. ASSUME NEW n \in 1..N, n - 1 \in K PROVE n \in K
    <3>1. n - 1 \in 0..N /\ Count(p[n - 1], x) = IF x \in S THEN Count(pre(n - 1), x) ELSE 0
      BY <2>2
    <3>2. p[n - 1] \in Seq(W) /\ q[n] \in W
      BY <1>1, <1>4, <3>1
    <3>3. Count(Append(p[n - 1], q[n]), x) = Count(p[n - 1], x) + IF x = q[n] THEN 1 ELSE 0
      BY <3>2, CountAppend
    <3>4. Count(pre(n), x) = Count(pre(n - 1), x) + Count(<<q[n]>>, x)
      <4>1. Joins(pre(n), pre(n - 1), <<q[n]>>)
        BY <1>1, CountPrefix DEF pre
      <4> QED
        BY <4>1 DEF Joins
    <3>5. Count(<<q[n]>>, x) = IF x = q[n] THEN 1 ELSE 0
      BY CountNone
    <3>6. p[n] = IF q[n] \in S THEN Append(p[n - 1], q[n]) ELSE p[n - 1]
      BY <1>4
    <3>7. Count(pre(n - 1), x) \in Nat
      <4>1. pre(n - 1) \in Seq(W)
        BY <1>1, <3>1, CountPrefix DEF pre
      <4> QED
        BY <4>1, CountOf
    <3>8. Count(p[n], x) = IF x \in S THEN Count(pre(n), x) ELSE 0
      <4>1. CASE q[n] \in S
        <5>1. Count(p[n], x) = Count(p[n - 1], x) + IF x = q[n] THEN 1 ELSE 0
          BY <3>3, <3>6, <4>1
        <5> QED
          BY <3>1, <3>4, <3>5, <3>7, <4>1, <5>1
      <4>2. CASE q[n] \notin S
        <5>1. Count(p[n], x) = Count(p[n - 1], x)
          BY <3>6, <4>2
        <5> QED
          BY <3>1, <3>4, <3>5, <3>7, <4>2, <5>1
      <4> QED
        BY <4>1, <4>2
    <3> QED
      BY <3>8
  <2> HIDE DEF K
  <2>3. \A n \in 0..N : n \in K
    BY <1>1, <2>1, <2>2, Upwards
  <2>4. pre(N) = q
    BY <1>1, CountPrefix DEF pre
  <2>5. N \in K
    BY <1>1, <2>3
  <2> QED
    BY <2>4, <2>5 DEF K
<1>10. p[N] \in Seq(W)
  BY <1>1, <1>4
<1> QED
  BY <1>7, <1>8, <1>9, <1>10 DEF Filters

\* What is left of the elements.
LEMMA FilterSet ==
    ASSUME NEW W, NEW q \in Seq(W), NEW S
    PROVE  Set(Filter(q, S)) = Set(q) \cap S
<1>1. Filter(q, S) \in Seq(W) /\ Filters(Filter(q, S), q, S)
  BY FilterIs
<1>2. ASSUME NEW x PROVE x \in Set(Filter(q, S)) <=> x \in Set(q) \cap S
  <2>1. Count(Filter(q, S), x) = IF x \in S THEN Count(q, x) ELSE 0
    BY <1>1 DEF Filters
  <2>2. Count(q, x) > 0 <=> x \in Set(q)
    BY CountOf
  <2>3. Count(Filter(q, S), x) > 0 <=> x \in Set(Filter(q, S))
    BY <1>1, CountOf
  <2> QED
    BY <2>1, <2>2, <2>3
<1> QED
  BY <1>2

-----------------------------------------------------------------------------
(* The memory *)

Cell == [size : 1..MaxSize, from : Id, nbRefs : Nat \ {0}, lost : Nat]
Memory == [Addr -> Cell \cup {NoClause}]
Live(v) == IF v = NoClause THEN 0 ELSE v.nbRefs - v.lost

\* The memory becomes g, where delta[a] more references to a clause are in use, and
\* no clause becomes another.
Becomes(g, delta) ==
    /\ g \in Memory
    /\ \A a \in Addr :
          /\ Live(g[a]) = Live(heap[a]) + delta[a]
          /\ g[a] # NoClause =>
                heap[a] # NoClause /\ g[a].size = heap[a].size /\ g[a].from = heap[a].from

LEMMA CellIsNot ==
    ASSUME SharingAssumption
    PROVE  NoClause \notin Cell
<1>1. Cell \subseteq [size : Nat, from : Nat, nbRefs : Nat, lost : Nat]
  BY DEF Cell, Id, SharingAssumption
<1> QED
  BY <1>1 DEF SharingAssumption

\* References are counted.
LEMMA IncreaseIs ==
    ASSUME heap \in Memory, SharingAssumption,
           NEW q \in Seq(Addr), NEW delta,
           \A a \in Set(q) : heap[a] # NoClause, \A a \in Addr : delta[a] = Count(q, a)
    PROVE  Becomes(increaseClauses(q), delta)
<1> DEFINE g == increaseClauses(q)
<1>1. ASSUME NEW a \in Addr
      PROVE  /\ g[a] \in Cell \cup {NoClause} /\ Live(g[a]) = Live(heap[a]) + delta[a]
             /\ g[a] # NoClause => /\ heap[a] # NoClause
                                   /\ g[a].size = heap[a].size /\ g[a].from = heap[a].from
  <2>1. Count(q, a) \in Nat /\ (Count(q, a) > 0 <=> a \in Set(q)) /\ delta[a] = Count(q, a)
    BY CountOf
  <2>2. heap[a] \in Cell \cup {NoClause}
    BY DEF Memory
  <2>3. CASE a \in Set(q)
    <3>1. heap[a] # NoClause /\ heap[a] \in Cell
      BY <2>2, <2>3
    <3>2. g[a] = [heap[a] EXCEPT !.nbRefs = @ + Count(q, a)]
      BY <2>3 DEF increaseClauses
    <3>3. g[a] \in Cell /\ g[a].nbRefs = heap[a].nbRefs + Count(q, a) /\ g[a].lost = heap[a].lost
          /\ g[a].size = heap[a].size /\ g[a].from = heap[a].from
          /\ heap[a].nbRefs \in Nat /\ heap[a].lost \in Nat
      BY <2>1, <3>1, <3>2, SMTT(40) DEF Cell
    <3>4. g[a] # NoClause
      BY <3>3, CellIsNot
    <3> HIDE DEF g
    <3> QED
      BY <2>1, <3>1, <3>3, <3>4 DEF Live
  <2>4. CASE a \notin Set(q)
    <3>1. g[a] = heap[a] /\ Count(q, a) = 0
      BY <2>1, <2>4 DEF increaseClauses
    <3>2. Live(heap[a]) \in Int
      BY <2>2 DEF Live, Cell
    <3> QED
      BY <2>1, <2>2, <3>1, <3>2
  <2> QED
    BY <2>3, <2>4
<1>2. g = [a \in Addr |-> g[a]]
  BY DEF increaseClauses
<1> HIDE DEF g
<1>3. g \in Memory
  BY <1>1, <1>2 DEF Memory
<1> QED
  BY <1>1, <1>3 DEF Becomes, g

\* References are released and lost.
LEMMA ReleaseIs ==
    ASSUME heap \in Memory, SharingAssumption, NEW freed, NEW lost, NEW delta,
           \A a \in Addr : /\ freed[a] \in Nat /\ lost[a] \in Nat /\ delta[a] = 0 - freed[a] - lost[a]
                           /\ freed[a] + lost[a] <= Live(heap[a])
    PROVE  Becomes(releaseClauses(freed, lost), delta)
<1> DEFINE g == releaseClauses(freed, lost)
<1>1. ASSUME NEW a \in Addr
      PROVE  /\ g[a] \in Cell \cup {NoClause} /\ Live(g[a]) = Live(heap[a]) + delta[a]
             /\ g[a] # NoClause => /\ heap[a] # NoClause
                                   /\ g[a].size = heap[a].size /\ g[a].from = heap[a].from
  <2>1. heap[a] \in Cell \cup {NoClause} /\ NoClause \notin Cell
    BY CellIsNot DEF Memory
  <2>2. PICK x, y : x = freed[a] /\ y = lost[a]
    OBVIOUS
  <2>3. x \in Nat /\ y \in Nat /\ delta[a] = 0 - x - y /\ x + y <= Live(heap[a])
    BY <2>2
  <2>4. g[a] = IF x > 0 /\ heap[a].nbRefs - x <= 0 THEN NoClause
               ELSE IF x + y > 0 THEN [heap[a] EXCEPT !.nbRefs = @ - x, !.lost = @ + y]
               ELSE heap[a]
    BY <2>2 DEF releaseClauses
  <2> HIDE DEF g
  <2>5. CASE heap[a] = NoClause
    <3>1. x = 0 /\ y = 0 /\ g[a] = heap[a] /\ delta[a] = 0
      BY <2>3, <2>4, <2>5 DEF Live
    <3> QED
      BY <2>5, <3>1 DEF Live
  <2>6. CASE heap[a] # NoClause
    <3>1. heap[a] \in Cell
      BY <2>1, <2>6
    <3>2. PICK m, l : m = heap[a].nbRefs /\ l = heap[a].lost
      OBVIOUS
    <3>3. m \in Nat \ {0} /\ l \in Nat
      BY <3>1, <3>2 DEF Cell
    <3>4. Live(heap[a]) = m - l
      BY <2>6, <3>2 DEF Live
    <3>5. CASE x > 0 /\ m - x <= 0
      <4>1. g[a] = NoClause
        BY <2>4, <3>2, <3>5
      <4>2. x = m /\ y = 0 /\ l = 0
        BY <2>3, <3>3, <3>4, <3>5
      <4>3. Live(heap[a]) + delta[a] = 0
        BY <2>3, <3>3, <3>4, <4>2
      <4> QED
        BY <4>1, <4>3 DEF Live
    <3>6. CASE ~(x > 0 /\ m - x <= 0) /\ x + y > 0
      <4>1. g[a] = [heap[a] EXCEPT !.nbRefs = @ - x, !.lost = @ + y]
        BY <2>4, <3>2, <3>6
      <4>2. /\ g[a].nbRefs = m - x /\ g[a].lost = l + y
            /\ g[a].size = heap[a].size /\ g[a].from = heap[a].from
            /\ g[a] = [size |-> heap[a].size, from |-> heap[a].from, nbRefs |-> m - x, lost |-> l + y]
        BY <3>1, <3>2, <4>1 DEF Cell
      <4>3. m - x \in Nat \ {0} /\ l + y \in Nat
        BY <2>3, <3>3, <3>6
      <4>4. g[a] \in Cell
        BY <3>1, <4>2, <4>3 DEF Cell
      <4>5. g[a] # NoClause
        BY <2>1, <4>4
      <4>6. Live(g[a]) = (m - x) - (l + y)
        BY <4>2, <4>5 DEF Live
      <4>7. (m - x) - (l + y) = (m - l) + (0 - x - y)
        BY <2>3, <3>3
      <4> QED
        BY <2>3, <2>6, <3>4, <4>2, <4>4, <4>6, <4>7
    <3>7. CASE ~(x > 0 /\ m - x <= 0) /\ ~(x + y > 0)
      <4>1. g[a] = heap[a] /\ delta[a] = 0
        BY <2>3, <2>4, <3>2, <3>7
      <4>2. Live(heap[a]) + 0 = Live(heap[a])
        BY <3>3, <3>4
      <4> QED
        BY <2>6, <3>1, <4>1, <4>2
    <3> QED
      BY <3>5, <3>6, <3>7
  <2> QED
    BY <2>5, <2>6
<1>2. g = [a \in Addr |-> g[a]]
  BY DEF releaseClauses
<1> HIDE DEF g
<1>3. g \in Memory
  BY <1>1, <1>2 DEF Memory
<1> QED
  BY <1>1, <1>3 DEF Becomes, g

-----------------------------------------------------------------------------
(* ClauseDatabase *)

DB == [1..MaxSize -> Seq(Addr)]
DbCount(db, a) == Total([z \in 1..MaxSize |-> Count(db[z], a)], MaxSize)

\* The clauses of a database are counted.
LEMMA DbCountOf ==
    ASSUME SharingAssumption, NEW db \in DB, NEW a
    PROVE  /\ MaxSize \in Nat \ {0}
           /\ DbCount(db, a) \in Nat
           /\ \A z \in 1..MaxSize : db[z] \in Seq(Addr) /\ Count(db[z], a) \in Nat
                                    /\ Count(db[z], a) <= DbCount(db, a)
<1> DEFINE f == [z \in 1..MaxSize |-> Count(db[z], a)]
<1>1. MaxSize \in Nat \ {0}
  BY DEF SharingAssumption
<1>2. ASSUME NEW z \in 1..MaxSize PROVE db[z] \in Seq(Addr) /\ Count(db[z], a) \in Nat
  <2>1. db[z] \in Seq(Addr)
    BY DEF DB
  <2> QED
    BY <2>1, CountOf
<1>3. \A z \in 1..MaxSize : f[z] = Count(db[z], a)
  OBVIOUS
<1>4. DbCount(db, a) = Total(f, MaxSize)
  BY DEF DbCount
<1> HIDE DEF f
<1>5. MaxSize \in Nat /\ \A z \in 1..MaxSize : f[z] \in Nat
  BY <1>1, <1>2, <1>3
<1>6. Total(f, MaxSize) \in Nat /\ \A z \in 1..MaxSize : f[z] <= Total(f, MaxSize)
  BY <1>5, TotalNat
<1> QED
  BY <1>1, <1>2, <1>3, <1>4, <1>6

DbDiffer(e, db, z) == \A a : DbCount(e, a) = DbCount(db, a) + Count(e[z], a) - Count(db[z], a)

\* Databases that differ in the clauses of one size.
LEMMA DbChange ==
    ASSUME SharingAssumption, NEW db \in DB, NEW e \in DB, NEW z \in 1..MaxSize,
           \A y \in 1..MaxSize : y # z => e[y] = db[y]
    PROVE  DbDiffer(e, db, z)
<1> SUFFICES ASSUME NEW a
             PROVE  DbCount(e, a) = DbCount(db, a) + Count(e[z], a) - Count(db[z], a)
  BY DEF DbDiffer
<1> DEFINE f == [y \in 1..MaxSize |-> Count(db[y], a)]
           g == [y \in 1..MaxSize |-> Count(e[y], a)]
<1>1. MaxSize \in Nat
  BY DEF SharingAssumption
<1>2. \A y \in 1..MaxSize : Count(db[y], a) \in Nat /\ Count(e[y], a) \in Nat
  BY DbCountOf
<1>3. \A y \in 1..MaxSize : f[y] = Count(db[y], a) /\ g[y] = Count(e[y], a)
  OBVIOUS
<1>4. DbCount(db, a) = Total(f, MaxSize) /\ DbCount(e, a) = Total(g, MaxSize)
  BY DEF DbCount
<1> HIDE DEF f, g
<1>5. ASSUME NEW y \in 1..MaxSize PROVE f[y] \in Int /\ g[y] \in Int /\ (y # z => f[y] = g[y])
  BY <1>2, <1>3
<1>6. Total(g, MaxSize) = Total(f, MaxSize) + g[z] - f[z]
  BY <1>1, <1>5, TotalChange
<1> QED
  BY <1>3, <1>4, <1>6

Box == [db : DB, full : Seq(Addr)]

\* r is what box becomes when the clauses of q are added.
Stored(r, box, q) ==
    /\ r \in Box
    /\ \A a \in Addr : DbCount(r.db, a) + Count(r.full, a)
                          = DbCount(box.db, a) + Count(box.full, a) + Count(q, a)
    /\ \A z \in 1..MaxSize : \A a \in Set(r.db[z]) :
          a \in Set(box.db[z]) \/ (a \in Set(q) /\ heap[a].size = z)
    /\ Set(r.full) \subseteq Set(box.full) \cup Set(q)

\* A clause is stored or dropped.
LEMMA AddClauseIs ==
    ASSUME SharingAssumption, NEW box \in Box, NEW e \in Addr, heap[e] \in Cell
    PROVE  Stored(addClause(box, e), box, <<e>>)
<1>1. PICK z \in 1..MaxSize : z = heap[e].size
  BY DEF Cell
<1>2. PICK r : r = addClause(box, e)
  OBVIOUS
<1>3. PICK db \in DB, full \in Seq(Addr) : db = box.db /\ full = box.full /\ box = [db |-> db, full |-> full]
  BY DEF Box
<1>4. db[z] \in Seq(Addr)
  BY <1>3 DEF DB
<1>5. PICK u : u = Append(db[z], e)
  OBVIOUS
<1>6. PICK w : w = Append(full, e)
  OBVIOUS
<1>7. r = [db |-> [db EXCEPT ![z] = u], full |-> full] \/ r = [db |-> db, full |-> w]
  BY <1>1, <1>2, <1>3, <1>5, <1>6 DEF addClause, DB
<1>8. /\ u \in Seq(Addr) /\ w \in Seq(Addr)
      /\ \A x : Count(u, x) = Count(db[z], x) + Count(<<e>>, x)
      /\ \A x : Count(w, x) = Count(full, x) + Count(<<e>>, x)
  <2>1. ASSUME NEW x
        PROVE  /\ Count(Append(db[z], e), x) = Count(db[z], x) + IF x = e THEN 1 ELSE 0
               /\ Count(Append(full, e), x) = Count(full, x) + IF x = e THEN 1 ELSE 0
    BY <1>4, CountAppend
  <2>2. Append(db[z], e) \in Seq(Addr) /\ Append(full, e) \in Seq(Addr)
    BY <1>4
  <2>3. \A x : Count(<<e>>, x) = IF x = e THEN 1 ELSE 0
    BY CountNone
  <2> QED
    BY <1>5, <1>6, <2>1, <2>2, <2>3
<1>9. Set(<<e>>) = {e} /\ Set(u) = Set(db[z]) \cup {e} /\ Set(w) = Set(full) \cup {e}
  <2>1. Set(<<e>>) = {e}
    BY DEF Set
  <2>2. ASSUME NEW x PROVE /\ x \in Set(u) <=> x \in Set(db[z]) \/ x = e
                           /\ x \in Set(w) <=> x \in Set(full) \/ x = e
    <3>1. /\ Count(u, x) \in Nat /\ (Count(u, x) > 0 <=> x \in Set(u))
          /\ Count(w, x) \in Nat /\ (Count(w, x) > 0 <=> x \in Set(w))
          /\ Count(full, x) \in Nat /\ (Count(full, x) > 0 <=> x \in Set(full))
          /\ Count(db[z], x) \in Nat /\ (Count(db[z], x) > 0 <=> x \in Set(db[z]))
      BY <1>4, <1>8, CountOf
    <3>2. Count(<<e>>, x) = IF x = e THEN 1 ELSE 0
      BY CountNone
    <3> QED
      BY <1>8, <3>1, <3>2, SMTT(40)
  <2> QED
    BY <2>1, <2>2
<1>10. CASE r = [db |-> [db EXCEPT ![z] = u], full |-> full]
  <2>1. PICK d : d = [db EXCEPT ![z] = u]
    OBVIOUS
  <2>2. d \in DB /\ d[z] = u /\ (\A y \in 1..MaxSize : y # z => d[y] = db[y]) /\ r.db = d /\ r.full = full
        /\ r \in Box
    BY <1>8, <1>10, <2>1 DEF DB, Box
  <2>3. ASSUME NEW a \in Addr
        PROVE  DbCount(d, a) + Count(full, a) = DbCount(db, a) + Count(full, a) + Count(<<e>>, a)
    <3>1. DbCount(d, a) = DbCount(db, a) + Count(d[z], a) - Count(db[z], a)
      <4>1. DbDiffer(d, db, z)
        BY <2>2, DbChange
      <4> QED
        BY <4>1 DEF DbDiffer
    <3>2. Count(u, a) = Count(db[z], a) + Count(<<e>>, a)
      BY <1>8
    <3>3. Count(full, a) \in Nat /\ Count(db[z], a) \in Nat /\ Count(<<e>>, a) \in Nat /\ DbCount(db, a) \in Nat
      BY <1>4, CountOf, CountNone, DbCountOf
    <3> QED
      BY <2>2, <3>1, <3>2, <3>3
  <2>4. ASSUME NEW y \in 1..MaxSize, NEW a \in Set(d[y])
        PROVE  a \in Set(db[y]) \/ (a \in Set(<<e>>) /\ heap[a].size = y)
    BY <1>1, <1>9, <2>2
  <2> QED
    BY <1>2, <1>3, <2>2, <2>3, <2>4 DEF Stored
<1>11. CASE r = [db |-> db, full |-> w]
  <2>1. r.db = db /\ r.full = w /\ r \in Box
    BY <1>8, <1>11 DEF Box
  <2>2. ASSUME NEW a \in Addr
        PROVE  DbCount(db, a) + Count(w, a) = DbCount(db, a) + Count(full, a) + Count(<<e>>, a)
    <3>1. Count(w, a) = Count(full, a) + Count(<<e>>, a)
      BY <1>8
    <3>2. Count(full, a) \in Nat /\ Count(<<e>>, a) \in Nat /\ DbCount(db, a) \in Nat
      BY CountOf, CountNone, DbCountOf
    <3> QED
      BY <3>1, <3>2
  <2> QED
    BY <1>2, <1>3, <1>9, <2>1, <2>2 DEF Stored
<1> QED
  BY <1>7, <1>10, <1>11

\* The clauses of a sequence are stored or dropped.
LEMMA AddClausesIs ==
    ASSUME SharingAssumption, NEW db \in DB, NEW q \in Seq(Addr), \A a \in Set(q) : heap[a] \in Cell
    PROVE  Stored(addClauses(db, q), [db |-> db, full |-> <<>>], q)
<1>1. PICK N : N = Len(q) /\ N \in Nat /\ \A n \in 1..N : q[n] \in Addr /\ n - 1 \in 0..N /\ n \in 0..N /\ n # 0
  <2>1. Len(q) \in Nat
        /\ \A n \in 1..Len(q) : q[n] \in Addr /\ n - 1 \in 0..Len(q) /\ n \in 0..Len(q) /\ n # 0
    OBVIOUS
  <2> QED
    BY <2>1
<1>2. PICK t0 : t0 = [db |-> db, full |-> <<>>]
  OBVIOUS
<1>3. t0 \in Box /\ t0.db = db /\ t0.full = <<>>
  BY <1>2 DEF Box
<1> DEFINE pre(n) == SubSeq(q, 1, n)
           step == [n \in 1..N |-> [t \in Box |-> addClause(t, q[n])]]
           Eq(g) == g = [n \in 0..N |-> IF n = 0 THEN t0 ELSE addClause(g[n - 1], q[n])]
           c == CHOOSE g : Eq(g)
<1>4. ASSUME NEW n \in 1..N, NEW t \in Box PROVE Stored(addClause(t, q[n]), t, <<q[n]>>)
  <2>1. q[n] \in Set(q)
    BY <1>1, CountOf
  <2> QED
    BY <1>1, <2>1, AddClauseIs
<1>5. PICK p : Chain(p, N, Box, t0, step)
  <2>1. step \in [1..N -> [Box -> Box]]
    <3>1. ASSUME NEW n \in 1..N, NEW t \in Box PROVE addClause(t, q[n]) \in Box
      BY <1>4 DEF Stored
    <3> QED
      BY <3>1
  <2> HIDE DEF step
  <2> QED
    BY <1>1, <1>3, <2>1, Recursion
<1>6. p \in [0..N -> Box] /\ p[0] = t0 /\ \A n \in 1..N : p[n] = addClause(p[n - 1], q[n])
  <2>1. p \in [0..N -> Box] /\ p[0] = t0 /\ \A n \in 1..N : p[n] = step[n][p[n - 1]]
    BY <1>5 DEF Chain
  <2>2. ASSUME NEW n \in 1..N PROVE step[n][p[n - 1]] = addClause(p[n - 1], q[n])
    <3>1. p[n - 1] \in Box
      BY <1>1, <2>1
    <3> QED
      BY <3>1
  <2> QED
    BY <2>1, <2>2
<1> HIDE DEF step
<1>7. Eq(p)
  <2>1. ASSUME NEW n \in 0..N PROVE p[n] = IF n = 0 THEN t0 ELSE addClause(p[n - 1], q[n])
    <3>1. n # 0 => n \in 1..N
      BY <1>1
    <3> QED
      BY <1>6, <3>1
  <2> QED
    BY <1>6, <2>1
<1>8. Eq(c)
  BY <1>7
<1>9. addClauses(db, q) = c[N]
  BY <1>1, <1>2 DEF addClauses
<1> HIDE DEF c
<1>10. c[N] = p[N]
  <2> DEFINE K == {n \in 0..N : c[n] = p[n]}
  <2>1. 0 \in K
    BY <1>1, <1>6, <1>8
  <2>2. ASSUME NEW n \in 1..N, n - 1 \in K PROVE n \in K
    <3>1. c[n] = addClause(c[n - 1], q[n])
      BY <1>1, <1>8
    <3>2. c[n - 1] = p[n - 1]
      BY <2>2
    <3> QED
      BY <1>1, <1>6, <3>1, <3>2
  <2> HIDE DEF K
  <2>3. \A n \in 0..N : n \in K
    BY <1>1, <2>1, <2>2, Upwards
  <2> QED
    BY <1>1, <2>3 DEF K
<1>11. /\ pre(0) = <<>> /\ pre(N) = q
       /\ \A n \in 0..N : pre(n) \in Seq(Addr)
       /\ \A n \in 1..N : Joins(pre(n), pre(n - 1), <<q[n]>>)
  BY <1>1, CountPrefix
<1> HIDE DEF pre
<1>12. Stored(p[N], t0, q)
  <2> DEFINE K == {n \in 0..N : Stored(p[n], t0, pre(n))}
  <2>1. 0 \in K
    <3>1. \A a : Count(<<>>, a) = 0
      BY CountNone
    <3>2. \A a : DbCount(db, a) \in Nat
      BY DbCountOf
    <3> QED
      BY <1>1, <1>3, <1>6, <1>11, <3>1, <3>2 DEF Stored
  <2>2. ASSUME NEW n \in 1..N, n - 1 \in K PROVE n \in K
    <3>1. PICK r, s, u, v, e : /\ r = p[n - 1] /\ s = p[n] /\ u = pre(n - 1) /\ v = pre(n)
                               /\ e = q[n]
      OBVIOUS
    <3>2. Stored(r, t0, u)
      BY <2>2, <3>1
    <3>3. Stored(s, r, <<e>>)
      BY <1>1, <1>4, <1>6, <3>1
    <3>4. u \in Seq(Addr) /\ v \in Seq(Addr) /\ Joins(v, u, <<e>>) /\ e \in Addr
      BY <1>1, <1>11, <3>1
    <3>5. Set(v) = Set(u) \cup {e} /\ Set(<<e>>) = {e}
      <4>1. ASSUME NEW x PROVE x \in Set(v) <=> x \in Set(u) \/ x = e
        <5>1. Count(v, x) = Count(u, x) + Count(<<e>>, x)
          BY <3>4 DEF Joins
        <5>2. Count(<<e>>, x) = IF x = e THEN 1 ELSE 0
          BY CountNone
        <5>3. /\ Count(u, x) \in Nat /\ (Count(u, x) > 0 <=> x \in Set(u))
              /\ Count(v, x) \in Nat /\ (Count(v, x) > 0 <=> x \in Set(v))
          BY <3>4, CountOf
        <5> QED
          BY <5>1, <5>2, <5>3
      <4>2. Set(<<e>>) = {e}
        BY DEF Set
      <4> QED
        BY <4>1, <4>2
    <3>6. ASSUME NEW a \in Addr
          PROVE  DbCount(s.db, a) + Count(s.full, a) = DbCount(t0.db, a) + Count(t0.full, a) + Count(v, a)
      <4>1. /\ DbCount(s.db, a) + Count(s.full, a) = DbCount(r.db, a) + Count(r.full, a) + Count(<<e>>, a)
            /\ DbCount(r.db, a) + Count(r.full, a) = DbCount(t0.db, a) + Count(t0.full, a) + Count(u, a)
        BY <3>2, <3>3 DEF Stored
      <4>2. Count(v, a) = Count(u, a) + Count(<<e>>, a)
        BY <3>4 DEF Joins
      <4>3. Count(u, a) \in Nat /\ Count(<<e>>, a) \in Nat /\ DbCount(t0.db, a) \in Nat /\ Count(t0.full, a) \in Nat
        BY <1>3, <3>4, CountOf, CountNone, DbCountOf
      <4> QED
        BY <4>1, <4>2, <4>3
    <3>7. ASSUME NEW z \in 1..MaxSize, NEW a \in Set(s.db[z])
          PROVE  a \in Set(t0.db[z]) \/ (a \in Set(v) /\ heap[a].size = z)
      BY <3>2, <3>3, <3>5 DEF Stored
    <3>8. Set(s.full) \subseteq Set(t0.full) \cup Set(v) /\ s \in Box
      BY <3>2, <3>3, <3>5 DEF Stored
    <3>9. Stored(s, t0, v)
      BY <3>6, <3>7, <3>8 DEF Stored
    <3> QED
      BY <1>1, <3>1, <3>9
  <2> HIDE DEF K
  <2>3. \A n \in 0..N : n \in K
    BY <1>1, <2>1, <2>2, Upwards
  <2> QED
    BY <1>1, <1>11, <2>3 DEF K
<1> QED
  BY <1>2, <1>9, <1>10, <1>12

-----------------------------------------------------------------------------
(* giveSelection *)

\* The terms of h are m terms of f and n of g.
Follow(h, f, m, g, n) ==
    /\ \A k \in 1..m : f[k] \in Int /\ h[k] = f[k]
    /\ \A k \in 1..n : g[k] \in Int /\ h[m + k] = g[k]

IsSum(x, y, z) == x = y + z

\* A sum after another.
LEMMA TotalConcat ==
    ASSUME NEW m \in Nat, NEW n \in Nat, NEW f, NEW g, NEW h, Follow(h, f, m, g, n),
           NEW l, l = m + n
    PROVE  IsSum(Total(h, l), Total(f, m), Total(g, n))
<1>0. /\ \A k \in 1..m : f[k] \in Int /\ h[k] = f[k]
      /\ \A k \in 1..n : g[k] \in Int /\ h[m + k] = g[k]
  BY DEF Follow
<1> DEFINE K == {k \in 0..n : Total(h, m + k) = Total(f, m) + Total(g, k)}
<1>1. m + n \in Nat
  OBVIOUS
<1>2. ASSUME NEW k \in 1..(m + n) PROVE h[k] \in Int
  <2>1. CASE k <= m
    BY <1>0, <2>1
  <2>2. CASE k > m
    <3>1. k - m \in 1..n /\ m + (k - m) = k
      BY <2>2
    <3> QED
      BY <1>0, <3>1
  <2> QED
    BY <2>1, <2>2
<1>3. /\ \A k \in 1..(m + n) : Total(h, k) = Total(h, k - 1) + h[k]
      /\ \A k \in 0..(m + n) : Total(h, k) \in Int
  BY <1>1, <1>2, TotalStep
<1>4. /\ Total(g, 0) = 0 /\ \A k \in 0..n : Total(g, k) \in Int
      /\ \A k \in 1..n : Total(g, k) = Total(g, k - 1) + g[k]
  BY <1>0, TotalStep
<1>5. Total(h, m) = Total(f, m) /\ Total(f, m) \in Int
  <2>1. \A k \in 1..m : f[k] \in Int /\ f[k] = h[k]
    BY <1>0
  <2>2. m \in 0..m
    OBVIOUS
  <2> QED
    BY <2>1, <2>2, TotalSame, TotalStep
<1>6. 0 \in K
  BY <1>4, <1>5
<1>7. ASSUME NEW k \in 1..n, k - 1 \in K PROVE k \in K
  <2>1. Total(h, m + (k - 1)) = Total(f, m) + Total(g, k - 1)
    BY <1>7
  <2>2. m + k \in 1..(m + n) /\ (m + k) - 1 = m + (k - 1) /\ k - 1 \in 0..n
    OBVIOUS
  <2>3. Total(h, m + k) = Total(h, m + (k - 1)) + h[m + k]
    BY <1>3, <2>2
  <2>4. Total(g, k) = Total(g, k - 1) + g[k] /\ h[m + k] = g[k] /\ g[k] \in Int /\ Total(g, k - 1) \in Int
    BY <1>0, <1>4, <2>2
  <2> QED
    BY <1>5, <2>1, <2>3, <2>4
<1> HIDE DEF K
<1>8. n \in K
  BY <1>6, <1>7, Upwards
<1> QED
  BY <1>8 DEF K, IsSum

\* A sum of equal terms.
LEMMA TotalConst ==
    ASSUME NEW n \in Nat, NEW f, NEW z \in Nat, \A k \in 1..n : f[k] = z
    PROVE  Total(f, n) = z * n
<1> DEFINE K == {k \in 0..n : Total(f, k) = z * k}
<1>1. \A k \in 1..n : f[k] \in Int
  OBVIOUS
<1>2. Total(f, 0) = 0 /\ \A k \in 1..n : Total(f, k) = Total(f, k - 1) + f[k]
  BY <1>1, TotalStep
<1>3. 0 \in K
  BY <1>2
<1>4. ASSUME NEW k \in 1..n, k - 1 \in K PROVE k \in K
  <2>1. Total(f, k) = z * (k - 1) + z
    BY <1>2, <1>4
  <2>2. z * k = z * (k - 1) + z
    OBVIOUS
  <2> QED
    BY <2>1, <2>2
<1> HIDE DEF K
<1>5. n \in K
  BY <1>3, <1>4, Upwards
<1> QED
  BY <1>5 DEF K

Sizes(q) == [n \in DOMAIN q |-> heap[q[n]].size]
SizeSum(q) == Total(Sizes(q), Len(q))

\* The literals of a sequence of clauses.
LEMMA SizeSumOf ==
    ASSUME NEW q \in Seq(Addr), \A a \in Set(q) : heap[a] \in Cell
    PROVE  /\ Len(q) \in Nat
           /\ \A n \in 1..Len(q) : Sizes(q)[n] \in Nat /\ Sizes(q)[n] = heap[q[n]].size /\ q[n] \in Set(q)
           /\ SizeSum(q) \in Nat
<1>1. Len(q) \in Nat /\ DOMAIN q = 1..Len(q)
  OBVIOUS
<1>2. ASSUME NEW n \in 1..Len(q)
      PROVE  Sizes(q)[n] \in Nat /\ Sizes(q)[n] = heap[q[n]].size /\ q[n] \in Set(q)
  BY <1>1 DEF Sizes, Cell, Set
<1>3. Total(Sizes(q), Len(q)) \in Nat
  BY <1>1, <1>2, TotalNat
<1> QED
  BY <1>1, <1>2, <1>3 DEF SizeSum

\* ... of two, and of equally long ones.
LEMMA SizeSumConcat ==
    ASSUME NEW q \in Seq(Addr), NEW r \in Seq(Addr), NEW z \in Nat,
           \A a \in Set(q) : heap[a] \in Cell, \A a \in Set(r) : heap[a] \in Cell /\ heap[a].size = z
    PROVE  /\ Set(q \o r) = Set(q) \cup Set(r)
           /\ SizeSum(q \o r) = SizeSum(q) + z * Len(r)
<1>1. PICK u : u = q \o r
  OBVIOUS
<1>2. /\ u \in Seq(Addr) /\ Len(u) = Len(q) + Len(r) /\ Len(q) \in Nat /\ Len(r) \in Nat
      /\ \A n \in 1..(Len(q) + Len(r)) : u[n] = IF n <= Len(q) THEN q[n] ELSE r[n - Len(q)]
  BY <1>1, ConcatProperties
<1>3. Set(u) = Set(q) \cup Set(r)
  <2>1. ASSUME NEW x PROVE x \in Set(u) <=> x \in Set(q) \/ x \in Set(r)
    <3>1. Joins(u, q, r)
      BY <1>1, CountConcat
    <3>2. Count(u, x) = Count(q, x) + Count(r, x)
      BY <3>1 DEF Joins
    <3>3. /\ Count(u, x) \in Nat /\ (Count(u, x) > 0 <=> x \in Set(u))
          /\ Count(q, x) \in Nat /\ (Count(q, x) > 0 <=> x \in Set(q))
          /\ Count(r, x) \in Nat /\ (Count(r, x) > 0 <=> x \in Set(r))
      BY <1>2, CountOf
    <3> QED
      BY <3>2, <3>3
  <2> QED
    BY <2>1
<1>4. \A n \in 1..Len(q) : Sizes(q)[n] \in Int /\ Sizes(q)[n] = heap[q[n]].size
  BY SizeSumOf
<1>5. \A n \in 1..Len(r) : Sizes(r)[n] \in Int /\ Sizes(r)[n] = heap[r[n]].size /\ r[n] \in Set(r)
  BY SizeSumOf
<1>6. \A a \in Set(u) : heap[a] \in Cell
  BY <1>3
<1>7. \A n \in 1..(Len(q) + Len(r)) : Sizes(u)[n] = heap[u[n]].size
  BY <1>2, <1>6, SizeSumOf
<1>8. ASSUME NEW n \in 1..Len(q) PROVE Sizes(u)[n] = Sizes(q)[n]
  <2>1. n \in 1..(Len(q) + Len(r)) /\ u[n] = q[n]
    BY <1>2
  <2> QED
    BY <1>4, <1>7, <2>1
<1>9. ASSUME NEW n \in 1..Len(r) PROVE Sizes(u)[Len(q) + n] = Sizes(r)[n]
  <2>1. Len(q) + n \in 1..(Len(q) + Len(r)) /\ ~(Len(q) + n <= Len(q)) /\ (Len(q) + n) - Len(q) = n
    BY <1>2
  <2>2. u[Len(q) + n] = r[n]
    BY <1>2, <2>1
  <2> QED
    BY <1>5, <1>7, <2>1, <2>2
<1>10. PICK f, g, h, m, n : f = Sizes(q) /\ g = Sizes(r) /\ h = Sizes(u) /\ m = Len(q) /\ n = Len(r)
  OBVIOUS
<1>11. PICK l : l = m + n
  OBVIOUS
<1>12. IsSum(Total(h, l), Total(f, m), Total(g, n))
  <2>1. m \in Nat /\ n \in Nat
    BY <1>2, <1>10
  <2>2. \A k \in 1..m : f[k] \in Int /\ h[k] = f[k]
    BY <1>4, <1>8, <1>10
  <2>3. \A k \in 1..n : g[k] \in Int /\ h[m + k] = g[k]
    BY <1>5, <1>9, <1>10
  <2>4. Follow(h, f, m, g, n)
    BY <2>2, <2>3 DEF Follow
  <2> QED
    BY <1>11, <2>1, <2>4, TotalConcat
<1>13. Total(g, n) = z * n
  <2>1. \A k \in 1..n : g[k] = z
    BY <1>5, <1>10
  <2> QED
    BY <1>2, <1>10, <2>1, TotalConst
<1>14. SizeSum(u) = Total(h, l) /\ SizeSum(q) = Total(f, m)
  BY <1>2, <1>10, <1>11 DEF SizeSum
<1> QED
  BY <1>1, <1>3, <1>10, <1>12, <1>13, <1>14 DEF IsSum

Pick == [db : DB, selected : Seq(Addr), used : Nat]

\* r is what box becomes when clauses of z literals are selected; box is none other
\* when there is no place for one.
Selects(r, box, z) ==
    /\ r \in Pick
    /\ \A a \in Addr : DbCount(r.db, a) + Count(r.selected, a)
                          = DbCount(box.db, a) + Count(box.selected, a)
    /\ \A y \in 1..MaxSize : /\ Set(r.db[y]) \subseteq Set(box.db[y])
                             /\ y # z => r.db[y] = box.db[y]
    /\ Set(r.selected) \subseteq Set(box.selected) \cup Set(box.db[z])
    /\ box.used = SizeSum(box.selected) => r.used = SizeSum(r.selected)
    /\ box.used <= LiteralPerRound => r.used <= LiteralPerRound
    /\ r.db[z] # <<>> => r.used + z > LiteralPerRound
    /\ box.used + z > LiteralPerRound => r = box

\* A split of a sequence.
LEMMA CutIs ==
    ASSUME NEW q \in Seq(Addr), NEW n \in 0..Len(q)
    PROVE  /\ SubSeq(q, 1, Len(q) - n) \in Seq(Addr) /\ Len(SubSeq(q, 1, Len(q) - n)) = Len(q) - n
           /\ SubSeq(q, Len(q) - n + 1, Len(q)) \in Seq(Addr)
           /\ Len(SubSeq(q, Len(q) - n + 1, Len(q))) = n
           /\ Joins(q, SubSeq(q, 1, Len(q) - n), SubSeq(q, Len(q) - n + 1, Len(q)))
<1>1. PICK m : m = Len(q) - n
  OBVIOUS
<1>2. Len(q) \in Nat /\ m \in 0..Len(q) /\ \A k \in 1..Len(q) : q[k] \in Addr
  BY <1>1
<1>3. SubSeq(q, 1, m) \in Seq(Addr) /\ Len(SubSeq(q, 1, m)) = m
  BY <1>2, SubSeqProperties
<1>4. SubSeq(q, m + 1, Len(q)) \in Seq(Addr) /\ Len(SubSeq(q, m + 1, Len(q))) = n
  <2>1. \A k \in (m + 1)..Len(q) : q[k] \in Addr
    BY <1>2
  <2>2. /\ SubSeq(q, m + 1, Len(q)) \in Seq(Addr)
        /\ Len(SubSeq(q, m + 1, Len(q))) = IF m + 1 <= Len(q) THEN Len(q) - (m + 1) + 1 ELSE 0
    BY <1>2, <2>1, SubSeqProperties
  <2>3. (IF m + 1 <= Len(q) THEN Len(q) - (m + 1) + 1 ELSE 0) = n
    BY <1>1, <1>2
  <2> QED
    BY <2>2, <2>3
<1>5. SubSeq(q, 1, m) \o SubSeq(q, m + 1, Len(q)) = q
  <2>1. 1 \in 1..(Len(q) + 1) /\ m \in (1 - 1)..Len(q) /\ Len(q) \in m..Len(q)
    BY <1>2
  <2>2. SubSeq(q, 1, m) \o SubSeq(q, m + 1, Len(q)) = SubSeq(q, 1, Len(q))
    BY <2>1, ConcatAdjacentSubSeq
  <2> QED
    BY <2>2, SubSeqFull
<1>6. Joins(q, SubSeq(q, 1, m), SubSeq(q, m + 1, Len(q)))
  BY <1>3, <1>4, <1>5, CountConcat
<1> QED
  BY <1>1, <1>3, <1>4, <1>6

\* All the clauses of z literals are selected, the last n of them, or none.
LEMMA GiveClausesIs ==
    ASSUME SharingAssumption, LiteralPerRound \in Nat, NEW box \in Pick, NEW z \in 1..MaxSize,
           \A a \in Set(box.selected) : heap[a] \in Cell,
           \A a \in Set(box.db[z]) : heap[a] \in Cell /\ heap[a].size = z,
           box.used <= LiteralPerRound
    PROVE  Selects(giveClauses(box, z), box, z)
<1>1. PICK r : r = giveClauses(box, z)
  OBVIOUS
<1>2. PICK db \in DB, sel \in Seq(Addr), used \in Nat :
          /\ db = box.db /\ sel = box.selected /\ used = box.used
          /\ box = [db |-> db, selected |-> sel, used |-> used]
  BY DEF Pick
<1>3. PICK q : q = db[z]
  OBVIOUS
<1>4. PICK left : left = LiteralPerRound - used
  OBVIOUS
<1>5. PICK n : n = left \div z
  OBVIOUS
<1>6. /\ q \in Seq(Addr) /\ Len(q) \in Nat /\ left \in Nat /\ z \in Nat \ {0} /\ LiteralPerRound \in Nat
      /\ MaxSize \in Nat
  <2>1. q \in Seq(Addr)
    BY <1>3 DEF DB
  <2>2. MaxSize \in Nat
    BY DEF SharingAssumption
  <2>3. left \in Nat
    BY <1>2, <1>4
  <2> QED
    BY <2>1, <2>2, <2>3
<1>7. n \in Nat /\ z * n <= left /\ left < z * n + z /\ (left < z * Len(q) => n < Len(q))
  BY <1>5, <1>6, SMTT(40)
<1>8. /\ \A a \in Set(sel) : heap[a] \in Cell
      /\ \A a \in Set(q) : heap[a] \in Cell /\ heap[a].size = z
      /\ used <= LiteralPerRound
  BY <1>2, <1>3
<1>9. CASE left < z
  <2>1. r = box
    BY <1>1, <1>2, <1>4, <1>9 DEF giveClauses
  <2>2. used + z > LiteralPerRound
    BY <1>4, <1>6, <1>9
  <2>3. Selects(box, box, z)
    BY <1>2, <2>2 DEF Selects
  <2> QED
    BY <1>1, <2>1, <2>3
<1>10. ASSUME ~(left < z),
              NEW e \in Seq(Addr), NEW s \in Seq(Addr), NEW m \in Nat,
              r = [db |-> [db EXCEPT ![z] = e], selected |-> sel \o s, used |-> used + z * m],
              m = Len(s), \A a : Count(q, a) = Count(e, a) + Count(s, a),
              z * m <= left, e # <<>> => left < z * m + z
       PROVE  Selects(r, box, z)
  <2>1. PICK d : d = [db EXCEPT ![z] = e]
    OBVIOUS
  <2>2. PICK t : t = sel \o s
    OBVIOUS
  <2>3. PICK x : x = z * m
    OBVIOUS
  <2>4. d \in DB /\ d[z] = e /\ \A y \in 1..MaxSize : y # z => d[y] = db[y]
    BY <2>1 DEF DB
  <2>5. x \in Nat /\ x <= left /\ (e # <<>> => left < x + z)
    BY <1>6, <1>10, <2>3
  <2>6. t \in Seq(Addr) /\ Joins(t, sel, s)
    BY <2>2, CountConcat
  <2>7. r.db = d /\ r.selected = t /\ r.used = used + x /\ r \in Pick
    <3>1. r = [db |-> d, selected |-> t, used |-> used + x]
      BY <1>10, <2>1, <2>2, <2>3
    <3>2. used + x \in Nat
      BY <2>5
    <3> QED
      BY <2>4, <2>6, <3>1, <3>2 DEF Pick
  <2>8. Set(e) \subseteq Set(q) /\ Set(s) \subseteq Set(q)
    <3>1. ASSUME NEW a PROVE (a \in Set(e) \/ a \in Set(s)) => a \in Set(q)
      <4>1. /\ Count(q, a) \in Nat /\ (Count(q, a) > 0 <=> a \in Set(q))
            /\ Count(e, a) \in Nat /\ (Count(e, a) > 0 <=> a \in Set(e))
            /\ Count(s, a) \in Nat /\ (Count(s, a) > 0 <=> a \in Set(s))
        BY <1>6, CountOf
      <4>2. Count(q, a) = Count(e, a) + Count(s, a)
        BY <1>10
      <4> QED
        BY <4>1, <4>2
    <3> QED
      BY <3>1
  <2>9. Set(t) = Set(sel) \cup Set(s) /\ SizeSum(t) = SizeSum(sel) + x
    <3>1. \A a \in Set(s) : heap[a] \in Cell /\ heap[a].size = z
      BY <1>8, <2>8
    <3>2. /\ Set(sel \o s) = Set(sel) \cup Set(s)
          /\ SizeSum(sel \o s) = SizeSum(sel) + z * Len(s)
      BY <1>6, <1>8, <3>1, SizeSumConcat
    <3> QED
      BY <1>10, <2>2, <2>3, <3>2
  <2>10. ASSUME NEW a \in Addr PROVE DbCount(d, a) + Count(t, a) = DbCount(db, a) + Count(sel, a)
    <3>1. DbCount(d, a) = DbCount(db, a) + Count(d[z], a) - Count(db[z], a)
      <4>1. DbDiffer(d, db, z)
        BY <2>4, DbChange
      <4> QED
        BY <4>1 DEF DbDiffer
    <3>2. Count(t, a) = Count(sel, a) + Count(s, a)
      BY <2>6 DEF Joins
    <3>3. /\ Count(q, a) \in Nat /\ Count(e, a) \in Nat /\ Count(s, a) \in Nat
          /\ Count(sel, a) \in Nat /\ DbCount(db, a) \in Nat
      BY <1>6, CountOf, DbCountOf
    <3>4. Count(q, a) = Count(e, a) + Count(s, a)
      BY <1>10
    <3>5. DbCount(d, a) = DbCount(db, a) + Count(e, a) - Count(q, a)
      BY <1>3, <2>4, <3>1
    <3> QED
      BY <3>2, <3>3, <3>4, <3>5, SMTT(40)
  <2>11. ASSUME NEW y \in 1..MaxSize
         PROVE  Set(d[y]) \subseteq Set(db[y]) /\ (y # z => d[y] = db[y])
    BY <1>3, <2>4, <2>8
  <2>12. used + x <= LiteralPerRound /\ (e # <<>> => used + x + z > LiteralPerRound)
         /\ ~(used + z > LiteralPerRound)
    BY <1>4, <1>6, <1>10, <2>5
  <2>13. Set(t) \subseteq Set(sel) \cup Set(db[z])
    BY <1>3, <2>8, <2>9
  <2> QED
    BY <1>2, <2>4, <2>7, <2>9, <2>10, <2>11, <2>12, <2>13 DEF Selects
<1>11. CASE ~(left < z) /\ left >= z * Len(q)
  <2>1. r = [db |-> [db EXCEPT ![z] = <<>>], selected |-> sel \o q, used |-> used + z * Len(q)]
    BY <1>1, <1>2, <1>3, <1>4, <1>11 DEF giveClauses
  <2>2. \A a : Count(q, a) = Count(<<>>, a) + Count(q, a)
    <3>1. \A a : Count(q, a) \in Nat /\ Count(<<>>, a) = 0
      BY <1>6, CountNone, CountOf
    <3> QED
      BY <3>1
  <2>3. <<>> \in Seq(Addr) /\ z * Len(q) <= left
    BY <1>6, <1>11
  <2>4. Selects(r, box, z)
    BY <1>6, <1>10, <1>11, <2>1, <2>2, <2>3
  <2> QED
    BY <1>1, <2>4
<1>12. CASE ~(left < z) /\ left < z * Len(q)
  <2>1. PICK e, b : e = SubSeq(q, 1, Len(q) - n) /\ b = SubSeq(q, Len(q) - n + 1, Len(q))
    OBVIOUS
  <2>2. PICK s : s = Reverse(b)
    OBVIOUS
  <2>3. n \in 0..Len(q)
    BY <1>6, <1>7, <1>12
  <2>4. e \in Seq(Addr) /\ b \in Seq(Addr) /\ Len(b) = n /\ Joins(q, e, b)
    BY <1>6, <2>1, <2>3, CutIs
  <2>5. r = [db |-> [db EXCEPT ![z] = e], selected |-> sel \o s, used |-> used + z * n]
    <3>1. ~(left >= z * Len(q))
      BY <1>6, <1>12
    <3> QED
      BY <1>1, <1>2, <1>3, <1>4, <1>5, <1>12, <2>1, <2>2, <3>1 DEF giveClauses
  <2>6. s \in Seq(Addr) /\ \A a : Count(s, a) = Count(b, a)
    BY <2>2, <2>4, CountReverse
  <2>7. Len(s) = n
    BY <2>2, <2>4 DEF Reverse
  <2>8. \A a : Count(q, a) = Count(e, a) + Count(s, a)
    BY <2>4, <2>6 DEF Joins
  <2>9. Selects(r, box, z)
    BY <1>7, <1>10, <1>12, <2>4, <2>5, <2>6, <2>7, <2>8
  <2> QED
    BY <1>1, <2>9
<1> QED
  BY <1>6, <1>9, <1>11, <1>12

\* Every clause of a database is where its size says.
Filed(db) == \A z \in 1..MaxSize : \A a \in Set(db[z]) : heap[a] \in Cell /\ heap[a].size = z

\* r is a selection from db that goes up to the clauses of m literals.
Selected(r, db, m) ==
    /\ r \in Pick
    /\ \A a \in Addr : DbCount(r.db, a) + Count(r.selected, a) = DbCount(db, a)
    /\ \A y \in 1..MaxSize : /\ Set(r.db[y]) \subseteq Set(db[y])
                             /\ y > m => r.db[y] = db[y]
    /\ \A a \in Set(r.selected) : heap[a] \in Cell /\ heap[a].size \in 1..m
                                  /\ a \in Set(db[heap[a].size])
    /\ r.used = SizeSum(r.selected) /\ r.used <= LiteralPerRound
    /\ \A y \in 1..m : r.db[y] # <<>> =>
          r.used + y > LiteralPerRound /\ \A a \in Set(r.selected) : heap[a].size <= y

LEMMA SelectedStep ==
    ASSUME SharingAssumption, LiteralPerRound \in Nat, NEW db \in DB, Filed(db),
           NEW m \in 1..MaxSize, NEW b, NEW l, l = m - 1, Selected(b, db, l),
           NEW r, r = giveClauses(b, m)
    PROVE  Selected(r, db, m)
<1>1. MaxSize \in Nat /\ l \in Nat /\ m \in Nat
  BY DEF SharingAssumption
<1>2. b \in Pick /\ b.used <= LiteralPerRound /\ b.db \in DB /\ b.used \in Nat /\ b.used = SizeSum(b.selected)
  BY DEF Selected, Pick
<1>3. \A a \in Set(b.selected) : heap[a] \in Cell /\ heap[a].size \in 1..l /\ a \in Set(db[heap[a].size])
  BY DEF Selected
<1>4. b.db[m] = db[m]
  <2>1. m > l
    BY <1>1
  <2> QED
    BY <2>1 DEF Selected
<1>5. \A a \in Set(db[m]) : heap[a] \in Cell /\ heap[a].size = m
  BY DEF Filed
<1>6. Selects(r, b, m)
  BY <1>2, <1>3, <1>4, <1>5, GiveClausesIs
<1>7. /\ r \in Pick /\ r.db \in DB /\ r.used \in Nat
      /\ \A a \in Addr : DbCount(r.db, a) + Count(r.selected, a) = DbCount(b.db, a) + Count(b.selected, a)
      /\ \A y \in 1..MaxSize : Set(r.db[y]) \subseteq Set(b.db[y]) /\ (y # m => r.db[y] = b.db[y])
      /\ Set(r.selected) \subseteq Set(b.selected) \cup Set(b.db[m])
      /\ r.used = SizeSum(r.selected) /\ r.used <= LiteralPerRound
      /\ r.db[m] # <<>> => r.used + m > LiteralPerRound
      /\ b.used + m > LiteralPerRound => r = b
  BY <1>2, <1>6 DEF Selects, Pick
<1>8. \A a \in Addr : DbCount(r.db, a) + Count(r.selected, a) = DbCount(db, a)
  <2>1. \A a \in Addr : DbCount(b.db, a) + Count(b.selected, a) = DbCount(db, a)
    BY DEF Selected
  <2> QED
    BY <1>7, <2>1
<1>9. ASSUME NEW y \in 1..MaxSize
      PROVE  Set(r.db[y]) \subseteq Set(db[y]) /\ (y > m => r.db[y] = db[y])
  <2>1. Set(b.db[y]) \subseteq Set(db[y]) /\ (y > l => b.db[y] = db[y])
    BY DEF Selected
  <2>2. y > m => y > l /\ y # m
    BY <1>1
  <2> QED
    BY <1>7, <2>1, <2>2
<1>10. ASSUME NEW a \in Set(r.selected)
       PROVE  heap[a] \in Cell /\ heap[a].size \in 1..m /\ a \in Set(db[heap[a].size])
  <2>1. a \in Set(b.selected) \/ a \in Set(db[m])
    BY <1>4, <1>7
  <2>2. ASSUME NEW k \in 1..l PROVE k \in 1..m
    BY <1>1
  <2>3. m \in 1..m
    BY <1>1
  <2> QED
    BY <1>3, <1>5, <2>1, <2>2, <2>3
<1>11. ASSUME NEW y \in 1..m, r.db[y] # <<>>
       PROVE  r.used + y > LiteralPerRound /\ \A a \in Set(r.selected) : heap[a].size <= y
  <2>1. CASE b.used + m > LiteralPerRound
    <3>1. r = b
      BY <1>7, <2>1
    <3>2. CASE y = m
      <4>1. \A a \in Set(r.selected) : heap[a].size <= m
        BY <1>10
      <4> QED
        BY <2>1, <3>1, <3>2, <4>1
    <3>3. CASE y # m
      <4>1. y \in 1..l
        BY <1>1, <3>3
      <4> QED
        BY <1>11, <3>1, <4>1 DEF Selected
    <3> QED
      BY <3>2, <3>3
  <2>2. CASE ~(b.used + m > LiteralPerRound)
    <3>1. y = m
      <4> SUFFICES ASSUME y # m PROVE FALSE
        OBVIOUS
      <4>1. y \in 1..l /\ y \in 1..MaxSize
        BY <1>1
      <4>2. b.db[y] # <<>>
        BY <1>7, <1>11, <4>1
      <4>3. b.used + y > LiteralPerRound
        BY <4>1, <4>2 DEF Selected
      <4> QED
        BY <1>1, <1>2, <2>2, <4>1, <4>3
    <3>2. \A a \in Set(r.selected) : heap[a].size <= m
      BY <1>10
    <3> QED
      BY <1>7, <1>11, <3>1, <3>2
  <2> QED
    BY <2>1, <2>2
<1> QED
  BY <1>7, <1>8, <1>9, <1>10, <1>11 DEF Selected

\* The whole selection.
LEMMA GiveSelectionIs ==
    ASSUME SharingAssumption, LiteralPerRound \in Nat, NEW db \in DB, Filed(db)
    PROVE  Selected(giveSelection(db), db, MaxSize)
<1>1. PICK N : N = MaxSize /\ N \in Nat /\ \A n \in 1..N : n - 1 \in 0..N /\ n \in 0..N /\ n # 0
  BY DEF SharingAssumption
<1>2. PICK t0 : t0 = [db |-> db, selected |-> <<>>, used |-> 0]
  OBVIOUS
<1>3. t0.db = db /\ t0.selected = <<>> /\ t0.used = 0 /\ t0 \in Pick
  BY <1>2 DEF Pick
<1>6. Selected(t0, db, 0)
  <2>1. \A a \in Addr : DbCount(db, a) \in Nat /\ Count(<<>>, a) = 0
    BY DbCountOf, CountNone
  <2>2. Set(<<>>) = {} /\ Len(<<>>) = 0 /\ <<>> \in Seq(Addr)
    BY DEF Set
  <2>3. SizeSum(<<>>) = 0
    <3>1. \A k \in 1..0 : Sizes(<<>>)[k] \in Int
      OBVIOUS
    <3>2. Total(Sizes(<<>>), 0) = 0
      BY <3>1, TotalStep
    <3> QED
      BY <2>2, <3>2 DEF SizeSum
  <2>4. \A a \in Addr : DbCount(t0.db, a) + Count(t0.selected, a) = DbCount(db, a)
    BY <1>3, <2>1
  <2> QED
    BY <1>3, <2>2, <2>3, <2>4 DEF Selected
<1>7. ASSUME NEW n \in 1..N, NEW b, Selected(b, db, n - 1) PROVE Selected(giveClauses(b, n), db, n)
  BY <1>1, <1>7, SelectedStep
<1> DEFINE B == {x \in (0..N) \X Pick : Selected(x[2], db, x[1])}
           step == [n \in 1..N |-> [x \in B |->
                       IF x[1] = n - 1 THEN <<n, giveClauses(x[2], n)>> ELSE x]]
           Eq(g) == g = [n \in 0..N |-> IF n = 0 THEN t0 ELSE giveClauses(g[n - 1], n)]
           c == CHOOSE g : Eq(g)
<1>8. ASSUME NEW n \in 0..N, NEW b, Selected(b, db, n) PROVE <<n, b>> \in B
  BY <1>8 DEF Selected
<1>9. ASSUME NEW x \in B PROVE x = <<x[1], x[2]>> /\ x[1] \in 0..N /\ Selected(x[2], db, x[1])
  OBVIOUS
<1>10. PICK p : Chain(p, N, B, <<0, t0>>, step)
  <2>1. step \in [1..N -> [B -> B]]
    <3>1. ASSUME NEW n \in 1..N, NEW x \in B
          PROVE  (IF x[1] = n - 1 THEN <<n, giveClauses(x[2], n)>> ELSE x) \in B
      BY <1>1, <1>7, <1>8, <1>9
    <3> HIDE DEF B
    <3> QED
      BY <3>1
  <2>2. <<0, t0>> \in B
    BY <1>1, <1>6, <1>8
  <2> HIDE DEF step, B
  <2> QED
    BY <1>1, <2>1, <2>2, Recursion
<1>11. /\ p[0] = <<0, t0>> /\ \A n \in 0..N : p[n] \in B
       /\ \A n \in 1..N : p[n] = IF p[n - 1][1] = n - 1 THEN <<n, giveClauses(p[n - 1][2], n)>> ELSE p[n - 1]
  <2>1. p \in [0..N -> B] /\ p[0] = <<0, t0>> /\ \A n \in 1..N : p[n] = step[n][p[n - 1]]
    BY <1>10 DEF Chain
  <2> HIDE DEF B
  <2>2. ASSUME NEW n \in 1..N
        PROVE  step[n][p[n - 1]] = IF p[n - 1][1] = n - 1 THEN <<n, giveClauses(p[n - 1][2], n)>> ELSE p[n - 1]
    <3>1. p[n - 1] \in B
      BY <1>1, <2>1
    <3> QED
      BY <3>1
  <2> QED
    BY <2>1, <2>2
<1> HIDE DEF step
<1>12. \A n \in 0..N : p[n][1] = n
  <2> DEFINE K == {n \in 0..N : p[n][1] = n}
  <2>1. 0 \in K
    BY <1>1, <1>11
  <2>2. ASSUME NEW n \in 1..N, n - 1 \in K PROVE n \in K
    <3>1. p[n - 1][1] = n - 1
      BY <2>2
    <3>2. p[n] = <<n, giveClauses(p[n - 1][2], n)>>
      BY <1>11, <3>1
    <3> QED
      BY <1>1, <3>2
  <2> HIDE DEF K
  <2>3. \A n \in 0..N : n \in K
    BY <1>1, <2>1, <2>2, Upwards
  <2> QED
    BY <2>3 DEF K
<1> DEFINE d == [n \in 0..N |-> p[n][2]]
<1>13. d[0] = t0 /\ \A n \in 1..N : d[n] = giveClauses(d[n - 1], n)
  <2>1. ASSUME NEW n \in 1..N PROVE p[n][2] = giveClauses(p[n - 1][2], n)
    <3>1. p[n - 1][1] = n - 1
      BY <1>1, <1>12
    <3>2. p[n] = <<n, giveClauses(p[n - 1][2], n)>>
      BY <1>11, <3>1
    <3> QED
      BY <3>2
  <2> QED
    BY <1>1, <1>11, <2>1
<1>14. Eq(d)
  <2>1. ASSUME NEW n \in 0..N PROVE d[n] = IF n = 0 THEN t0 ELSE giveClauses(d[n - 1], n)
    <3>1. n # 0 => n \in 1..N
      BY <1>1
    <3> HIDE DEF d
    <3> QED
      BY <1>13, <3>1
  <2> QED
    BY <2>1
<1>15. Eq(c)
  BY <1>14
<1>16. giveSelection(db) = c[N]
  BY <1>1, <1>2 DEF giveSelection
<1>17. Selected(d[N], db, N)
  <2>1. N \in 0..N
    BY <1>1
  <2>2. p[N] \in B /\ p[N][1] = N
    BY <1>11, <1>12, <2>1
  <2>3. Selected(p[N][2], db, N)
    BY <1>9, <2>2
  <2> QED
    BY <2>1, <2>3
<1> HIDE DEF c, d
<1>18. c[N] = d[N]
  <2> DEFINE K == {n \in 0..N : c[n] = d[n]}
  <2>1. 0 \in K
    BY <1>1, <1>13, <1>15
  <2>2. ASSUME NEW n \in 1..N, n - 1 \in K PROVE n \in K
    <3>1. c[n] = giveClauses(c[n - 1], n)
      BY <1>1, <1>15
    <3>2. c[n - 1] = d[n - 1]
      BY <2>2
    <3> QED
      BY <1>1, <1>13, <3>1, <3>2
  <2> HIDE DEF K
  <2>3. \A n \in 0..N : n \in K
    BY <1>1, <2>1, <2>2, Upwards
  <2> QED
    BY <1>1, <2>3 DEF K
<1> QED
  BY <1>1, <1>16, <1>17, <1>18

-----------------------------------------------------------------------------
(* The command line *)

\* A sharer, of n solvers; it serves all of them, as producers too if all.
SharerOf(r, n, all) ==
    /\ r.from \in Seq(Id) /\ r.to \in Seq(Id)
    /\ Set(r.to) = 1..n /\ Set(r.from) \subseteq 1..n
    /\ all => Set(r.from) = 1..n

LEMMA SharersAre ==
    ASSUME SharingAssumption, ConfigsAssumption, NEW c \in Configs
    PROVE  /\ Len(SharersOf(c)) \in Nat /\ DOMAIN SharersOf(c) = 1..Len(SharersOf(c))
           /\ \A h \in DOMAIN SharersOf(c) : SharerOf(SharersOf(c)[h], Len(c.solvers), c.wkr = 4)
           /\ Len(c.solvers) \in Nat /\ \A s \in 1..Len(c.solvers) : s \in Id /\ c.solvers[s] \in Kind
           /\ c.limit \in 0..MaxSize /\ c.shrLit \in Nat \ {0} /\ c.wkr \in 1..4
<1>1. /\ c.solvers \in Seq(Kind) /\ Len(c.solvers) \in 1..MaxId
      /\ c.wkr \in 1..4 /\ c.shr \in 1..4
      /\ c.shr = 2 => c.wkr = 1 \/ Len(c.solvers) = 1
      /\ c.shr = 4 => c.wkr = 3
      /\ c.limit \in 0..MaxSize /\ c.shrLit \in Nat \ {0}
      /\ MaxId \in Nat
  BY DEF ConfigsAssumption, SharingAssumption
<1>2. PICK n : n = Len(c.solvers) /\ n \in Nat \ {0} /\ n <= MaxId
  BY <1>1, SMTT(40)
<1>3. PICK all : all = [m \in 1..n |-> m]
  OBVIOUS
<1> DEFINE every == [m \in 1..Len(c.solvers) |-> m]
           one(str, from) == [strategy |-> str, from |-> from, to |-> every]
<1>a. every = all
  BY <1>2, <1>3
<1>4. all \in Seq(Id) /\ Len(all) = n /\ Set(all) = 1..n
  <2>1. all \in [1..n -> Id]
    BY <1>1, <1>2, <1>3 DEF Id
  <2>2. all \in Seq(Id)
    <3>1. \E m \in Nat : all \in [1..m -> Id]
      BY <1>2, <2>1
    <3> QED
      BY <3>1, SeqDef
  <2>3. Len(all) = n
    <3>1. DOMAIN all = 1..Len(all) /\ DOMAIN all = 1..n /\ Len(all) \in Nat
      BY <2>1, <2>2
    <3> QED
      BY <1>2, <3>1
  <2> QED
    BY <1>3, <2>2, <2>3 DEF Set
<1>5. PICK r1, r3 : /\ r1 = [strategy |-> "simple", from |-> all, to |-> all]
                    /\ r3 = [strategy |-> "horde", from |-> all, to |-> all]
  OBVIOUS
<1>6. SharerOf(r1, n, TRUE) /\ SharerOf(r3, n, TRUE)
  BY <1>4, <1>5 DEF SharerOf
<1>7. CASE c.shr = 1
  <2>0. SharersOf(c) = <<one("simple", every)>>
    <3>1. ~(c.shr = 2) /\ ~(c.shr = 3) /\ ~(c.shr = 4)
      BY <1>7
    <3> QED
      BY <1>7, <3>1, Zenon DEF SharersOf
  <2>1. SharersOf(c) = <<r1>>
    BY <1>5, <1>a, <2>0
  <2>2. SharerOf(r1, n, c.wkr = 4)
    BY <1>6 DEF SharerOf
  <2> QED
    BY <1>1, <1>2, <2>1, <2>2 DEF Id
<1>8. CASE c.shr = 3
  <2>0. SharersOf(c) = <<one("horde", every)>>
    <3>1. ~(c.shr = 1) /\ ~(c.shr = 2) /\ ~(c.shr = 4)
      BY <1>8
    <3> QED
      BY <1>8, <3>1, Zenon DEF SharersOf
  <2>1. SharersOf(c) = <<r3>>
    BY <1>5, <1>a, <2>0
  <2>2. SharerOf(r3, n, c.wkr = 4)
    BY <1>6 DEF SharerOf
  <2> QED
    BY <1>1, <1>2, <2>1, <2>2 DEF Id
<1>9. CASE c.shr = 2
  <2>1. PICK sh : sh = [m \in 1..n |-> [strategy |-> "horde", from |-> <<m>>, to |-> all]]
    OBVIOUS
  <2>2. SharersOf(c) = sh
    BY <1>2, <1>3, <1>4, <1>9, <2>1 DEF SharersOf
  <2>3. DOMAIN sh = 1..n /\ Len(sh) = n
    <3>1. sh \in [1..n -> {sh[m] : m \in 1..n}]
      BY <2>1
    <3>2. sh \in Seq({sh[m] : m \in 1..n})
      <4> HIDE <2>1
      <4>1. \E m \in Nat : sh \in [1..m -> {sh[k] : k \in 1..n}]
        BY <1>2, <3>1
      <4> QED
        BY <4>1, SeqDef
    <3> QED
      BY <1>2, <2>1, <3>2
  <2>4. ASSUME NEW h \in 1..n PROVE SharerOf(sh[h], n, c.wkr = 4)
    <3>1. sh[h].from = <<h>> /\ sh[h].to = all /\ h \in Id
      BY <1>1, <1>2, <2>1 DEF Id
    <3>2. <<h>> \in Seq(Id) /\ Set(<<h>>) = {h}
      BY <3>1 DEF Set
    <3>3. c.wkr = 4 => Set(<<h>>) = 1..n
      <4>1. c.wkr = 4 => n = 1
        BY <1>1, <1>2, <1>9
      <4>2. n = 1 => h = 1 /\ 1..n = {1}
        OBVIOUS
      <4> QED
        BY <3>2, <4>1, <4>2
    <3> QED
      BY <1>4, <3>1, <3>2, <3>3 DEF SharerOf
  <2> QED
    BY <1>1, <1>2, <2>2, <2>3, <2>4 DEF Id
<1>10. CASE c.shr = 4
  <2>1. PICK f : f = SubSeq(all, 1, n - 1)
    OBVIOUS
  <2>2. PICK ra, rb : /\ ra = [strategy |-> "simple", from |-> f, to |-> all]
                      /\ rb = [strategy |-> "horde", from |-> <<n>>, to |-> all]
    OBVIOUS
  <2>0. SharersOf(c) = <<one("simple", SubSeq(every, 1, Len(every) - 1)), one("horde", <<Len(every)>>)>>
    <3>1. ~(c.shr = 1) /\ ~(c.shr = 2) /\ ~(c.shr = 3)
      BY <1>10
    <3> QED
      BY <1>10, <3>1, Zenon DEF SharersOf
  <2>3. SharersOf(c) = <<ra, rb>>
    BY <1>4, <1>a, <2>0, <2>1, <2>2
  <2>4. f \in Seq(Id) /\ Set(f) \subseteq 1..n
    <3>1. f \in Seq(Id) /\ Len(f) = n - 1 /\ \A m \in 1..(n - 1) : f[m] = all[m]
      BY <1>2, <1>4, <2>1, SubSeqProperties
    <3>2. \A m \in 1..(n - 1) : f[m] \in 1..n
      <4> SUFFICES ASSUME NEW m \in 1..(n - 1) PROVE f[m] \in 1..n
        OBVIOUS
      <4>1. m \in 1..n /\ all[m] = m
        BY <1>2, <1>3
      <4> QED
        BY <3>1, <4>1
    <3>3. DOMAIN f = 1..(n - 1)
      BY <3>1
    <3> QED
      BY <3>1, <3>2, <3>3 DEF Set
  <2>5. <<n>> \in Seq(Id) /\ Set(<<n>>) = {n} /\ n \in 1..n /\ c.wkr # 4
    BY <1>1, <1>2, <1>10 DEF Set, Id
  <2>6. SharerOf(ra, n, c.wkr = 4) /\ SharerOf(rb, n, c.wkr = 4)
    BY <1>4, <2>2, <2>4, <2>5 DEF SharerOf
  <2> QED
    BY <1>1, <1>2, <2>3, <2>6 DEF Id
<1> QED
  BY <1>1, <1>7, <1>8, <1>9, <1>10

-----------------------------------------------------------------------------
(* The invariant *)

Ops == {"addConsumer", "addProducer", "removeConsumer", "removeProducer", "release"}
Phases == {"sleep", "collect", "send", "put", "ended", "deleted"}

\* What the threads keep of themselves.
ControlInv ==
    /\ conf \in Configs
    /\ kind \in [Id -> Kind \cup {"none"}]
    /\ nRefs \in [Id -> Int]
    /\ limit \in [Id -> 0..MaxSize]
    /\ held \subseteq Id
    /\ todo \in [Id -> Seq(Ops \X Nat)]
    /\ pc \in [Sharers -> Phases]
    /\ producers \in [Sharers -> Seq(Id)] /\ consumers \in [Sharers -> Seq(Id)]
    /\ addProducers \in [Sharers -> Seq(Id)] /\ addConsumers \in [Sharers -> Seq(Id)]
    /\ removeProducers \in [Sharers -> Seq(Id)] /\ removeConsumers \in [Sharers -> Seq(Id)]
    /\ i \in [Sharers -> Nat \ {0}] /\ j \in [Sharers -> Nat \ {0}]
    /\ globalEnding \in BOOLEAN

\* The worker is still adding its solver, or giving it up.
Adds(s) == \A n \in 1..Len(todo[s]) : todo[s][n][1] \in {"addConsumer", "addProducer"}
Leaves(s) ==
    /\ todo[s] # <<>> /\ todo[s][Len(todo[s])] = <<"release", 0>>
    /\ \A n \in 1..(Len(todo[s]) - 1) : todo[s][n][1] \in {"removeConsumer", "removeProducer"}

CallsOf(s) ==
    /\ Adds(s) \/ Leaves(s)
    /\ NoRepeat(todo[s])
    /\ \A n \in 1..Len(todo[s]) : todo[s][n][1] # "release" => todo[s][n][2] \in Sharers
    /\ todo[s] # <<>> => s \in held
    /\ s \in held => kind[s] # "none"

\* A removal has overtaken the addition of solver s to sharer h.
OverP(h, s) == <<"producer", h, s>> \in overtaken
OverC(h, s) == <<"consumer", h, s>> \in overtaken

\* A solver of which nobody knows yet.
Unknown(s, h) ==
    /\ s \notin Set(producers[h]) \cup Set(consumers[h])
    /\ s \notin Set(addProducers[h]) \cup Set(addConsumers[h])
    /\ s \notin Set(removeProducers[h]) \cup Set(removeConsumers[h])
    /\ ~OverP(h, s) /\ ~OverC(h, s)

\* The solvers whose worker adds them or works with them.
Adding == {s \in held : Adds(s)}

\* A solver is removed from a vector of a sharer once, and only when it is there, or
\* waits to be taken in; a solver in A is there or waits (if M has the sharer), or it is
\* yet to be added.  T are the calls still made for it; over: it was removed too early.
Fit(s, h, T, A, M, add, remove, in, new, gone, over) ==
    /\ Count(gone, s) <= 1
    /\ s \in Set(gone) => (s \in Set(in) \/ s \in Set(new)) /\ ~over
    /\ <<remove, h>> \in T => (s \in Set(in) \/ s \in Set(new)) /\ s \notin Set(gone) /\ ~over
    /\ s \in A => /\ s \notin Set(gone) /\ ~over
                  /\ h \in M => <<add, h>> \in T \/ s \in Set(in) \/ s \in Set(new)

Produces(s, h) ==
    Fit(s, h, Set(todo[s]), Adding, IF conf.wkr = 4 THEN Sharers ELSE {}, "addProducer",
        "removeProducer", producers[h], addProducers[h], removeProducers[h], OverP(h, s))
Consumes(s, h) ==
    Fit(s, h, Set(todo[s]), Adding, Sharers, "addConsumer",
        "removeConsumer", consumers[h], addConsumers[h], removeConsumers[h], OverC(h, s))

\* The references to a solver that the sharers have.
RefSum(s) == Total([h \in Sharers |-> SharerRefs(h, s)], Len(SharersOf(conf)))
Enough(s) == nRefs[s] >= (IF s \in held THEN 1 ELSE 0) + RefSum(s)

SolverInv ==
    /\ \A s \in Id : CallsOf(s)
    /\ \A s \in 1..Len(conf.solvers) : kind[s] # "none"
    /\ \A s \in Id : kind[s] = "none" => \A h \in Sharers : Unknown(s, h)
    /\ \A s \in Id : \A h \in Sharers : Produces(s, h) /\ Consumes(s, h)
    /\ \A s \in Id : Enough(s)

\* A sharer uses a deleted solver only if it has handled a removal too early.
HistoryInv ==
    /\ overtaken \subseteq {"producer", "consumer"} \X Sharers \X Id
    /\ dangling \in BOOLEAN
    /\ dangling => overtaken # {}

\* The places of a clause: in the queues e, u and c of solver s and of all, and with
\* sharer h and all n, which have q and d and are at p.
QueueTerm(e, u, c, s, a) == Count(e[s], a) + Count(u[s], a) + Count(c[s], a)
QueueSum(e, u, c, a) == Total([s \in Id |-> QueueTerm(e, u, c, s, a)], MaxId)
SharerTerm(p, q, d, h, a) == (IF p[h] = "put" THEN 2 ELSE 1) * Count(q[h], a) + DbCount(d[h], a)
SharerSum(p, q, d, n, a) == Total([h \in 1..n |-> SharerTerm(p, q, d, h, a)], n)

\* A round of a sharer.
Round(h) ==
    /\ pc[h] \notin {"send", "put"} => tmp[h] = <<>>
    /\ pc[h] \in {"send", "put"} => i[h] <= Len(producers[h])
    /\ pc[h] = "put" => j[h] <= Len(consumers[h]) /\ producers[h][i[h]] # consumers[h][j[h]]

MemoryInv ==
    /\ heap \in Memory
    /\ clausesToExport \in [Id -> Seq(Addr)]
    /\ unitsToImport \in [Id -> Seq(Addr)]
    /\ clausesToImport \in [Id -> Seq(Addr)]
    /\ tmp \in [Sharers -> Seq(Addr)]
    /\ database \in [Sharers -> DB]
    /\ \A h \in Sharers : Round(h) /\ Filed(database[h])
    /\ RefsAreCounted

\* Sharers of HordeSat have one producer each.
Alone == \A h \in Sharers : Strategy(h) = "horde" => Len(SharersOf(conf)[h].from) = 1 /\ conf.wkr # 4

\* Only DivideAndConquer has clones produce.
Producing ==
    conf.wkr # 4 =>
       /\ \A h \in Sharers : Set(producers[h]) \subseteq Set(SharersOf(conf)[h].from)
                             /\ addProducers[h] = <<>>
       /\ \A s \in Id : \A n \in 1..Len(todo[s]) : todo[s][n][1] # "addProducer"

\* A clause that a sharer has from producer s, and one for a consumer s.
Passes(a, s) == heap[a] # NoClause => ~Restricted(heap[a].from) /\ (Alone => heap[a].from = s)
Arrives(a, s) == heap[a] # NoClause => ~Restricted(heap[a].from) /\ (Alone => heap[a].from # s)

\* Where the clauses come from.
OriginInv ==
    /\ \A s \in Id : \A a \in Set(clausesToExport[s]) : heap[a] # NoClause => heap[a].from = s
    /\ \A h \in Sharers : \A z \in 1..MaxSize : \A a \in Set(database[h][z]) :
          Passes(a, SharersOf(conf)[h].from[1])
    /\ \A h \in Sharers : \A a \in Set(tmp[h]) : Passes(a, producers[h][i[h]])
    /\ \A s \in Id : \A a \in Set(unitsToImport[s]) \cup Set(clausesToImport[s]) : Arrives(a, s)

-----------------------------------------------------------------------------
(* The control *)

\* Calls(ops) is every call of ops on every sharer, once.
CallsAre(q, ops) ==
    /\ q \in Seq(Set(ops) \X Sharers) /\ NoRepeat(q)
    /\ \A o \in Set(ops) : \A h \in Sharers : <<o, h>> \in Set(q)

LEMMA CallsIs ==
    ASSUME NEW K \in Nat, Len(SharersOf(conf)) = K, Sharers = 1..K,
           NEW ops, NEW L \in {1, 2}, ops \in Seq(Ops), Len(ops) = L, L = 2 => ops[1] # ops[2]
    PROVE  CallsAre(Calls(ops), ops)
<1>1. PICK q : q = Calls(ops)
  OBVIOUS
<1>2. q = [n \in 1..(L * K) |-> <<ops[((n - 1) % L) + 1], ((n - 1) \div L) + 1>>]
  BY <1>1 DEF Calls
<1>3. L * K \in Nat
  OBVIOUS
<1>4. Set(ops) = {ops[m] : m \in 1..L}
  BY DEF Set
<1>5. ASSUME NEW n \in 1..(L * K)
      PROVE  /\ ((n - 1) % L) + 1 \in 1..L /\ ((n - 1) \div L) + 1 \in 1..K
             /\ n = L * (((n - 1) \div L) + 1 - 1) + (((n - 1) % L) + 1)
  <2>1. CASE L = 1
    BY <2>1
  <2>2. CASE L = 2
    BY <2>2
  <2> QED
    BY <2>1, <2>2
<1>6. ASSUME NEW m \in 1..L, NEW h \in 1..K
      PROVE  \E n \in 1..(L * K) : ((n - 1) % L) + 1 = m /\ ((n - 1) \div L) + 1 = h
  <2>1. CASE L = 1
    <3>1. h \in 1..(L * K) /\ ((h - 1) % L) + 1 = m /\ ((h - 1) \div L) + 1 = h
      BY <2>1
    <3> QED
      BY <3>1
  <2>2. CASE L = 2
    <3>1. 2 * (h - 1) + m \in 1..(L * K)
      BY <2>2
    <3>2. (((2 * (h - 1) + m) - 1) % L) + 1 = m /\ (((2 * (h - 1) + m) - 1) \div L) + 1 = h
      BY <2>2
    <3> QED
      BY <3>1, <3>2
  <2> QED
    BY <2>1, <2>2
<1>7. q \in Seq(Set(ops) \X Sharers)
  <2>1. q \in [1..(L * K) -> Set(ops) \X Sharers]
    <3>1. ASSUME NEW n \in 1..(L * K)
          PROVE  <<ops[((n - 1) % L) + 1], ((n - 1) \div L) + 1>> \in Set(ops) \X Sharers
      BY <1>4, <1>5
    <3> QED
      BY <1>2, <3>1
  <2>2. PICK N : N = L * K /\ N \in Nat
    BY <1>3
  <2>3. q \in [1..N -> Set(ops) \X Sharers]
    BY <2>1, <2>2
  <2> QED
    BY <2>2, <2>3, SeqDef
<1>8. Len(q) = L * K /\ DOMAIN q = 1..(L * K)
  BY <1>2, <1>3, <1>7
<1>9. ASSUME NEW n \in 1..(L * K), NEW m \in 1..(L * K), q[n] = q[m] PROVE n = m
  <2>1. PICK a, b, e, d : /\ a = ((n - 1) % L) + 1 /\ b = ((n - 1) \div L) + 1
                          /\ e = ((m - 1) % L) + 1 /\ d = ((m - 1) \div L) + 1
    OBVIOUS
  <2>2. a \in 1..L /\ e \in 1..L /\ b \in 1..K /\ d \in 1..K
        /\ n = L * (b - 1) + a /\ m = L * (d - 1) + e
    BY <1>5, <2>1
  <2>3. ops[a] = ops[e] /\ b = d
    BY <1>2, <1>9, <2>1
  <2>4. a = e
    BY <2>2, <2>3
  <2> QED
    BY <2>2, <2>3, <2>4
<1>10. ASSUME NEW o \in Set(ops), NEW h \in Sharers PROVE <<o, h>> \in Set(q)
  <2>1. PICK m \in 1..L : o = ops[m]
    BY <1>4
  <2>2. PICK n \in 1..(L * K) : ((n - 1) % L) + 1 = m /\ ((n - 1) \div L) + 1 = h
    BY <1>6
  <2>3. q[n] = <<o, h>>
    BY <1>2, <2>1, <2>2
  <2> QED
    BY <1>8, <2>3 DEF Set
<1> QED
  BY <1>1, <1>7, <1>8, <1>9, <1>10 DEF CallsAre, NoRepeat

\* What a worker does for a new solver, and for one that it gives up.
AddOps == IF conf.wkr = 4 THEN {"addConsumer", "addProducer"} ELSE {"addConsumer"}
RemoveOps == IF conf.wkr = 4 THEN {"removeConsumer", "removeProducer"} ELSE {"removeConsumer"}

Setting ==
    /\ Len(SharersOf(conf)) \in Nat /\ Sharers = 1..Len(SharersOf(conf))
    /\ \A h \in Sharers : SharerOf(SharersOf(conf)[h], Len(conf.solvers), conf.wkr = 4)
    /\ Len(conf.solvers) \in Nat /\ \A s \in 1..Len(conf.solvers) : s \in Id /\ conf.solvers[s] \in Kind
    /\ conf.limit \in 0..MaxSize /\ LiteralPerRound \in Nat \ {0} /\ conf.wkr \in 1..4
    /\ addCalls \in Seq(AddOps \X Sharers) /\ NoRepeat(addCalls)
    /\ \A o \in AddOps : \A h \in Sharers : <<o, h>> \in Set(addCalls)
    /\ removeCalls \in Seq(RemoveOps \X Sharers) /\ NoRepeat(removeCalls)

LEMMA SettingIs ==
    ASSUME SharingAssumption, ConfigsAssumption, conf \in Configs
    PROVE  Setting
<1>1. PICK K : K = Len(SharersOf(conf))
  OBVIOUS
<1>2. /\ K \in Nat /\ Sharers = 1..K
      /\ \A h \in Sharers : SharerOf(SharersOf(conf)[h], Len(conf.solvers), conf.wkr = 4)
      /\ Len(conf.solvers) \in Nat /\ \A s \in 1..Len(conf.solvers) : s \in Id /\ conf.solvers[s] \in Kind
      /\ conf.limit \in 0..MaxSize /\ conf.shrLit \in Nat \ {0} /\ conf.wkr \in 1..4
  BY <1>1, SharersAre DEF Sharers
<1>3. /\ <<"addConsumer", "addProducer">> \in Seq(Ops) /\ Len(<<"addConsumer", "addProducer">>) = 2
      /\ <<"addConsumer">> \in Seq(Ops) /\ Len(<<"addConsumer">>) = 1
      /\ <<"removeConsumer", "removeProducer">> \in Seq(Ops) /\ Len(<<"removeConsumer", "removeProducer">>) = 2
      /\ <<"removeConsumer">> \in Seq(Ops) /\ Len(<<"removeConsumer">>) = 1
  BY DEF Ops
<1>4. /\ Set(<<"addConsumer", "addProducer">>) = {"addConsumer", "addProducer"}
      /\ Set(<<"removeConsumer", "removeProducer">>) = {"removeConsumer", "removeProducer"}
      /\ Set(<<"addConsumer">>) = {"addConsumer"} /\ Set(<<"removeConsumer">>) = {"removeConsumer"}
  BY DEF Set
<1>5. /\ CallsAre(Calls(<<"addConsumer", "addProducer">>), <<"addConsumer", "addProducer">>)
      /\ CallsAre(Calls(<<"removeConsumer", "removeProducer">>), <<"removeConsumer", "removeProducer">>)
  <2>1. PICK a, r : a = <<"addConsumer", "addProducer">> /\ r = <<"removeConsumer", "removeProducer">>
    OBVIOUS
  <2>2. /\ a \in Seq(Ops) /\ Len(a) = 2 /\ a[1] # a[2]
        /\ r \in Seq(Ops) /\ Len(r) = 2 /\ r[1] # r[2]
    BY <1>3, <2>1
  <2>3. CallsAre(Calls(a), a) /\ CallsAre(Calls(r), r)
    BY <1>1, <1>2, <2>2, CallsIs
  <2> QED
    BY <2>1, <2>3
<1>6. /\ CallsAre(Calls(<<"addConsumer">>), <<"addConsumer">>)
      /\ CallsAre(Calls(<<"removeConsumer">>), <<"removeConsumer">>)
  <2>1. PICK a, r : a = <<"addConsumer">> /\ r = <<"removeConsumer">>
    OBVIOUS
  <2>2. /\ a \in Seq(Ops) /\ Len(a) = 1 /\ r \in Seq(Ops) /\ Len(r) = 1
        /\ 1 \in {1, 2} /\ (1 = 2 => a[1] # a[2]) /\ (1 = 2 => r[1] # r[2])
    BY <1>3, <2>1
  <2>3. CallsAre(Calls(a), a) /\ CallsAre(Calls(r), r)
    BY <1>1, <1>2, <2>2, CallsIs
  <2> QED
    BY <2>1, <2>3
<1>7. CASE conf.wkr = 4
  <2>1. addCalls = Calls(<<"addConsumer", "addProducer">>) /\ removeCalls = Calls(<<"removeConsumer", "removeProducer">>)
    BY <1>7 DEF addCalls, removeCalls
  <2>2. AddOps = Set(<<"addConsumer", "addProducer">>) /\ RemoveOps = Set(<<"removeConsumer", "removeProducer">>)
    BY <1>4, <1>7 DEF AddOps, RemoveOps
  <2> QED
    BY <1>1, <1>2, <1>5, <2>1, <2>2 DEF CallsAre, Setting, LiteralPerRound
<1>8. CASE conf.wkr # 4
  <2>1. addCalls = Calls(<<"addConsumer">>) /\ removeCalls = Calls(<<"removeConsumer">>)
    BY <1>8 DEF addCalls, removeCalls
  <2>2. AddOps = Set(<<"addConsumer">>) /\ RemoveOps = Set(<<"removeConsumer">>)
    BY <1>4, <1>8 DEF AddOps, RemoveOps
  <2> QED
    BY <1>1, <1>2, <1>6, <2>1, <2>2 DEF CallsAre, Setting, LiteralPerRound
<1> QED
  BY <1>7, <1>8

LEMMA ControlInit ==
    ASSUME SharingAssumption, ConfigsAssumption, Init
    PROVE  ControlInv
<1>1. PICK c \in Configs : conf = c
  BY DEF Init
<1>2. Setting
  BY <1>1, SettingIs
<1>3. conf \in Configs /\ Sharers = DOMAIN SharersOf(c) /\ MaxSize \in Nat
  BY <1>1 DEF Sharers, SharingAssumption
<1>4. /\ kind = [s \in Id |-> IF s <= Len(c.solvers) THEN c.solvers[s] ELSE "none"]
      /\ nRefs = [s \in Id |->
            IF s > Len(c.solvers) THEN 0
            ELSE 1 + Total([h \in Sharers |-> Count(SharersOf(c)[h].from, s) + Count(SharersOf(c)[h].to, s)],
                           Len(SharersOf(c)))]
      /\ limit = [s \in Id |-> c.limit]
      /\ held = 1..Len(c.solvers)
      /\ todo = [s \in Id |-> <<>>]
      /\ pc = [h \in Sharers |-> "sleep"]
      /\ producers = [h \in Sharers |-> SharersOf(c)[h].from]
      /\ consumers = [h \in Sharers |-> SharersOf(c)[h].to]
      /\ addProducers = [h \in Sharers |-> <<>>] /\ addConsumers = [h \in Sharers |-> <<>>]
      /\ removeProducers = [h \in Sharers |-> <<>>] /\ removeConsumers = [h \in Sharers |-> <<>>]
      /\ i = [h \in Sharers |-> 1] /\ j = [h \in Sharers |-> 1]
      /\ globalEnding = FALSE
  <2> HIDE DEF Sharers
  <2> QED
    BY <1>1, <1>3 DEF Init
<1>5. kind \in [Id -> Kind \cup {"none"}]
  <2>1. ASSUME NEW s \in Id PROVE kind[s] \in Kind \cup {"none"}
    <3>1. s \in Nat \ {0}
      BY DEF Id
    <3> QED
      BY <1>1, <1>2, <1>4, <3>1 DEF Setting
  <2> QED
    BY <1>4, <2>1
<1>6. nRefs \in [Id -> Int]
  <2>1. ASSUME NEW s \in Id PROVE nRefs[s] \in Int
    <3>1. PICK f, n : /\ f = [h \in Sharers |-> Count(SharersOf(c)[h].from, s) + Count(SharersOf(c)[h].to, s)]
                      /\ n = Len(SharersOf(c))
      OBVIOUS
    <3>2. n \in Nat /\ \A h \in 1..n : f[h] \in Int
      <4>1. n \in Nat /\ Sharers = 1..n
        BY <1>1, <1>2, <3>1 DEF Setting
      <4>2. ASSUME NEW h \in Sharers PROVE f[h] \in Int
        <5>1. SharersOf(c)[h].from \in Seq(Id) /\ SharersOf(c)[h].to \in Seq(Id)
          BY <1>1, <1>2 DEF Setting, SharerOf
        <5>2. Count(SharersOf(c)[h].from, s) \in Nat /\ Count(SharersOf(c)[h].to, s) \in Nat
          BY <5>1, CountOf
        <5> QED
          BY <3>1, <5>2
      <4> QED
        BY <4>1, <4>2
    <3>3. Total(f, n) \in Int
      <4>1. \A k \in 0..n : Total(f, k) \in Int
        BY <3>2, TotalStep
      <4> QED
        BY <3>2, <4>1
    <3> QED
      BY <1>4, <3>1, <3>3
  <2> QED
    BY <1>4, <2>1
<1>7. limit \in [Id -> 0..MaxSize]
  BY <1>1, <1>2, <1>4 DEF Setting
<1>8. held \subseteq Id /\ todo \in [Id -> Seq(Ops \X Nat)]
  BY <1>1, <1>2, <1>4 DEF Setting
<1>9. producers \in [Sharers -> Seq(Id)] /\ consumers \in [Sharers -> Seq(Id)]
  <2>1. \A h \in Sharers : SharersOf(c)[h].from \in Seq(Id) /\ SharersOf(c)[h].to \in Seq(Id)
    BY <1>1, <1>2 DEF Setting, SharerOf
  <2> QED
    BY <1>4, <2>1
<1>10. pc \in [Sharers -> Phases] /\ globalEnding \in BOOLEAN
  BY <1>4 DEF Phases
<1>11. /\ addProducers \in [Sharers -> Seq(Id)] /\ addConsumers \in [Sharers -> Seq(Id)]
       /\ removeProducers \in [Sharers -> Seq(Id)] /\ removeConsumers \in [Sharers -> Seq(Id)]
       /\ i \in [Sharers -> Nat \ {0}] /\ j \in [Sharers -> Nat \ {0}]
  BY <1>4
<1> QED
  BY <1>3, <1>5, <1>6, <1>7, <1>8, <1>9, <1>10, <1>11 DEF ControlInv

\* References of solvers are released.
LEMMA ReleaseTyped ==
    ASSUME nRefs \in [Id -> Int], NEW q \in Seq(Id), release(q)
    PROVE  nRefs' \in [Id -> Int] /\ \A s \in Id : nRefs'[s] = nRefs[s] - Count(q, s) /\ Count(q, s) \in Nat
<1>1. nRefs' = [s \in Id |-> nRefs[s] - Count(q, s)]
  BY DEF release
<1>2. \A s \in Id : Count(q, s) \in Nat
  BY CountOf
<1> QED
  BY <1>1, <1>2

LEMMA ControlStep ==
    ASSUME SharingAssumption, ConfigsAssumption, ControlInv, Next
    PROVE  ControlInv'
<1>1. Setting
  BY SettingIs DEF ControlInv
<1>2. ASSUME conf' = conf PROVE Sharers' = Sharers
  BY <1>2 DEF Sharers
<1>3. CASE UNCHANGED <<conf, solverVars, pc, listVars, i, j, globalEnding>>
  BY <1>2, <1>3 DEF ControlInv, solverVars, listVars
<1>a. ASSUME UNCHANGED <<conf, kind, nRefs, limit, held, todo, listVars, globalEnding>>,
              pc' \in [Sharers -> Phases],
              i' \in [Sharers -> Nat \ {0}], j' \in [Sharers -> Nat \ {0}]
      PROVE  ControlInv'
  BY <1>2, <1>a DEF ControlInv, listVars
<1>b. /\ pc \in [Sharers -> Phases] /\ i \in [Sharers -> Nat \ {0}] /\ j \in [Sharers -> Nat \ {0}]
      /\ \A h \in Sharers, p \in Phases : [pc EXCEPT ![h] = p] \in [Sharers -> Phases]
      /\ \A h \in Sharers : /\ [i EXCEPT ![h] = 1] \in [Sharers -> Nat \ {0}]
                             /\ [i EXCEPT ![h] = @ + 1] \in [Sharers -> Nat \ {0}]
                             /\ [j EXCEPT ![h] = 1] \in [Sharers -> Nat \ {0}]
                             /\ [j EXCEPT ![h] = @ + 1] \in [Sharers -> Nat \ {0}]
      /\ {"sleep", "collect", "send", "put", "ended", "deleted"} = Phases
  <2>1. pc \in [Sharers -> Phases] /\ i \in [Sharers -> Nat \ {0}] /\ j \in [Sharers -> Nat \ {0}]
    BY DEF ControlInv
  <2>2. \A h \in Sharers, p \in Phases : [pc EXCEPT ![h] = p] \in [Sharers -> Phases]
    BY <2>1
  <2>3. ASSUME NEW h \in Sharers
        PROVE  /\ [i EXCEPT ![h] = 1] \in [Sharers -> Nat \ {0}]
               /\ [i EXCEPT ![h] = @ + 1] \in [Sharers -> Nat \ {0}]
               /\ [j EXCEPT ![h] = 1] \in [Sharers -> Nat \ {0}]
               /\ [j EXCEPT ![h] = @ + 1] \in [Sharers -> Nat \ {0}]
    BY <2>1
  <2> QED
    BY <2>1, <2>2, <2>3 DEF Phases
<1>4. ASSUME NEW h \in Sharers, Wake(h) PROVE ControlInv'
  <2>1. producers[h] \o addProducers[h] \in Seq(Id) /\ consumers[h] \o addConsumers[h] \in Seq(Id)
    BY DEF ControlInv
  <2>2. CASE UNCHANGED <<listVars, i>>
    <3>1. /\ UNCHANGED <<conf, kind, nRefs, limit, held, todo, globalEnding, j>>
          /\ pc' = [pc EXCEPT ![h] = "ended"] \/ pc' = [pc EXCEPT ![h] = "collect"]
      BY <1>4 DEF Wake, solverVars
    <3> QED
      BY <1>a, <1>b, <2>2, <3>1
  <2>3. CASE ~UNCHANGED <<listVars, i>>
    <3>1. /\ UNCHANGED <<conf, kind, nRefs, limit, held, todo, globalEnding, j, removeProducers, removeConsumers>>
          /\ pc' = [pc EXCEPT ![h] = "collect"]
          /\ producers' = [producers EXCEPT ![h] = @ \o addProducers[h]]
          /\ consumers' = [consumers EXCEPT ![h] = @ \o addConsumers[h]]
          /\ addProducers' = [addProducers EXCEPT ![h] = <<>>]
          /\ addConsumers' = [addConsumers EXCEPT ![h] = <<>>]
          /\ i' = [i EXCEPT ![h] = 1]
      BY <1>4, <2>3 DEF Wake, solverVars
    <3>2. /\ pc \in [Sharers -> Phases] /\ i \in [Sharers -> Nat \ {0}]
          /\ producers \in [Sharers -> Seq(Id)] /\ consumers \in [Sharers -> Seq(Id)]
          /\ addProducers \in [Sharers -> Seq(Id)] /\ addConsumers \in [Sharers -> Seq(Id)]
          /\ <<>> \in Seq(Id) /\ "collect" \in Phases
      BY DEF ControlInv, Phases
    <3>3. pc' \in [Sharers -> Phases] /\ i' \in [Sharers -> Nat \ {0}]
      BY <3>1, <3>2
    <3>4. producers' \in [Sharers -> Seq(Id)] /\ consumers' \in [Sharers -> Seq(Id)]
      BY <2>1, <3>1, <3>2
    <3>5. addProducers' \in [Sharers -> Seq(Id)] /\ addConsumers' \in [Sharers -> Seq(Id)]
      BY <3>1, <3>2
    <3> QED
      BY <1>2, <3>1, <3>3, <3>4, <3>5 DEF ControlInv
  <2> QED
    BY <2>2, <2>3
<1>5. ASSUME NEW h \in Sharers, CollectSimple(h) PROVE ControlInv'
  <2>1. /\ UNCHANGED <<conf, kind, nRefs, limit, held, todo, listVars, globalEnding, i>>
        /\ pc' = [pc EXCEPT ![h] = "send"] /\ j' = [j EXCEPT ![h] = 1]
    BY <1>5 DEF CollectSimple, solverVars
  <2> QED
    BY <1>a, <1>b, <2>1
<1>6. ASSUME NEW h \in Sharers, CollectHorde(h) PROVE ControlInv'
  <2>1. ASSUME NEW s \in Id PROVE increaseClauseProduction(s) \in [Id -> 0..MaxSize]
    <3>1. limit \in [Id -> 0..MaxSize] /\ MaxSize \in Nat
      BY DEF ControlInv, SharingAssumption
    <3>2. PICK m : m = Min({limit[s] + 1, MaxSize})
      OBVIOUS
    <3>3. m = IF limit[s] + 1 <= MaxSize THEN limit[s] + 1 ELSE MaxSize
      BY <3>1, <3>2 DEF Min
    <3>4. m \in 0..MaxSize
      BY <3>1, <3>3, SMTT(40)
    <3> QED
      BY <3>1, <3>2, <3>4 DEF increaseClauseProduction
  <2>2. PICK s : s = producers[h][i[h]] /\ i[h] <= Len(producers[h])
    BY <1>6 DEF CollectHorde
  <2>3. s \in Id
    <3>1. producers[h] \in Seq(Id) /\ i[h] \in Nat \ {0}
      BY DEF ControlInv
    <3> QED
      BY <2>2, <3>1
  <2>4. limit' = increaseClauseProduction(s) \/ limit' = limit
    BY <1>6, <2>2, Zenon DEF CollectHorde
  <2>5. limit' \in [Id -> 0..MaxSize]
    BY <2>1, <2>3, <2>4, SMTT(40) DEF ControlInv
  <2>6. /\ UNCHANGED <<conf, kind, nRefs, held, todo, listVars, i, globalEnding>>
        /\ j' = [j EXCEPT ![h] = 1] /\ pc' = [pc EXCEPT ![h] = "send"]
    BY <1>6 DEF CollectHorde
  <2>7. pc' \in [Sharers -> Phases] /\ j' \in [Sharers -> Nat \ {0}]
    BY <1>b, <2>6
  <2>8. UNCHANGED <<producers, consumers, addProducers, addConsumers, removeProducers, removeConsumers>>
    BY <2>6 DEF listVars
  <2> QED
    BY <1>2, <2>5, <2>6, <2>7, <2>8 DEF ControlInv
<1>7. ASSUME NEW h \in Sharers, CountRefs(h) PROVE ControlInv'
  <2>1. /\ UNCHANGED <<conf, kind, nRefs, limit, held, todo, listVars, globalEnding, i>>
        /\ pc' = pc \/ pc' = [pc EXCEPT ![h] = "put"]
        /\ j' = j \/ j' = [j EXCEPT ![h] = @ + 1]
    BY <1>7 DEF CountRefs, solverVars
  <2>2. pc' \in [Sharers -> Phases]
    BY <1>b, <2>1
  <2>3. j' \in [Sharers -> Nat \ {0}]
    BY <1>b, <2>1, SMTT(40)
  <2> QED
    BY <1>a, <1>b, <2>1, <2>2, <2>3
<1>8. ASSUME NEW h \in Sharers, Put(h) PROVE ControlInv'
  <2>1. /\ UNCHANGED <<conf, kind, nRefs, limit, held, todo, listVars, globalEnding, i>>
        /\ pc' = [pc EXCEPT ![h] = "send"] /\ j' = [j EXCEPT ![h] = @ + 1]
    BY <1>8 DEF Put, solverVars
  <2> QED
    BY <1>a, <1>b, <2>1
<1>9. ASSUME NEW h \in Sharers, ReleaseOwn(h) PROVE ControlInv'
  <2>1. /\ UNCHANGED <<conf, kind, nRefs, limit, held, todo, listVars, globalEnding, j>>
        /\ pc' = [pc EXCEPT ![h] = "collect"] /\ i' = [i EXCEPT ![h] = @ + 1]
    BY <1>9 DEF ReleaseOwn, solverVars
  <2> QED
    BY <1>a, <1>b, <2>1
<1>10. ASSUME NEW h \in Sharers, RemoveSolvers(h) PROVE ControlInv'
  <2>1. PICK q : q = removeProducers[h] \o removeConsumers[h]
    OBVIOUS
  <2>2. q \in Seq(Id) /\ release(q)
    BY <1>10, <2>1 DEF RemoveSolvers, ControlInv
  <2>3. nRefs' \in [Id -> Int]
    BY <2>2, ReleaseTyped DEF ControlInv
  <2>4. PICK p, c : /\ p = Filter(producers[h], Id \ Set(removeProducers[h]))
                    /\ c = Filter(consumers[h], Id \ Set(removeConsumers[h]))
    OBVIOUS
  <2>5. p \in Seq(Id) /\ c \in Seq(Id)
    <3>1. producers[h] \in Seq(Id) /\ consumers[h] \in Seq(Id)
      BY DEF ControlInv
    <3> QED
      BY <2>4, <3>1, FilterIs
  <2>6. /\ producers' = [producers EXCEPT ![h] = p] /\ consumers' = [consumers EXCEPT ![h] = c]
        /\ removeProducers' = [removeProducers EXCEPT ![h] = <<>>]
        /\ removeConsumers' = [removeConsumers EXCEPT ![h] = <<>>]
        /\ pc' = [pc EXCEPT ![h] = IF globalEnding THEN "ended" ELSE "sleep"]
        /\ UNCHANGED <<conf, kind, limit, held, todo, addProducers, addConsumers, i, j, globalEnding>>
    BY <1>10, <2>4 DEF RemoveSolvers, roundVars
  <2>7. pc' \in [Sharers -> Phases]
    BY <1>b, <2>6
  <2>8. /\ producers' \in [Sharers -> Seq(Id)] /\ consumers' \in [Sharers -> Seq(Id)]
        /\ removeProducers' \in [Sharers -> Seq(Id)] /\ removeConsumers' \in [Sharers -> Seq(Id)]
    BY <2>5, <2>6, SMTT(40) DEF ControlInv
  <2> QED
    BY <1>2, <2>3, <2>6, <2>7, <2>8 DEF ControlInv
<1>11. ASSUME NEW h \in Sharers, DeleteSharer(h) PROVE ControlInv'
  <2>1. PICK q : q = removeProducers[h] \o removeConsumers[h]
    OBVIOUS
  <2>2. q \in Seq(Id) /\ release(q)
    BY <1>11, <2>1 DEF DeleteSharer, ControlInv
  <2>3. nRefs' \in [Id -> Int]
    BY <2>2, ReleaseTyped DEF ControlInv
  <2>4. /\ UNCHANGED <<conf, kind, limit, held, todo, listVars, i, j, globalEnding>>
        /\ pc' = [pc EXCEPT ![h] = "deleted"]
    BY <1>11 DEF DeleteSharer, roundVars
  <2> QED
    BY <1>2, <2>3, <2>4 DEF ControlInv, Phases, listVars
<1>12. ASSUME NEW s \in Id, DeleteWorker(s) PROVE ControlInv'
  <2>1. <<s>> \in Seq(Id) /\ release(<<s>>)
    BY <1>12 DEF DeleteWorker
  <2>2. nRefs' \in [Id -> Int]
    BY <2>1, ReleaseTyped DEF ControlInv
  <2>3. /\ UNCHANGED <<conf, kind, limit, todo, pc, listVars, i, j, globalEnding>>
        /\ held' = held \ {s}
    BY <1>12 DEF DeleteWorker, roundVars
  <2> QED
    BY <1>2, <2>2, <2>3 DEF ControlInv, listVars
<1>13. ASSUME NEW s \in Id, NEW z \in 1..MaxSize, Export(s, z) PROVE ControlInv'
  BY <1>3, <1>13 DEF Export, roundVars
<1>14. ASSUME NEW s \in Id, Import(s) PROVE ControlInv'
  BY <1>3, <1>14 DEF Import, roundVars
<1>15. ASSUME NEW s \in Id, cloneSolver(s) PROVE ControlInv'
  <2>1. kind[Len(conf.solvers)] \in Kind \cup {"none"}
    <3>1. Len(conf.solvers) \in 1..MaxId
      BY DEF ControlInv, ConfigsAssumption
    <3> QED
      BY <3>1 DEF ControlInv, Id
  <2>2. addCalls \in Seq(Ops \X Nat)
    <3>1. AddOps \X Sharers \subseteq Ops \X Nat
      BY <1>1 DEF AddOps, Ops, Setting
    <3> QED
      BY <1>1, <3>1 DEF Setting
  <2>3. /\ kind' = [kind EXCEPT ![s] = kind[Len(conf.solvers)]]
        /\ nRefs' = [nRefs EXCEPT ![s] = 1]
        /\ held' = held \cup {s}
        /\ todo' = [todo EXCEPT ![s] = addCalls]
        /\ UNCHANGED <<conf, limit, pc, listVars, i, j, globalEnding>>
    BY <1>15 DEF cloneSolver, roundVars
  <2> QED
    BY <1>2, <2>1, <2>2, <2>3, SMTT(40) DEF ControlInv, listVars
<1>16. ASSUME NEW s \in Id, GiveUp(s) PROVE ControlInv'
  <2>1. PICK q : q = Append(removeCalls, <<"release", 0>>)
    OBVIOUS
  <2>2. q \in Seq(Ops \X Nat)
    <3>1. RemoveOps \X Sharers \subseteq Ops \X Nat
      BY <1>1 DEF RemoveOps, Ops, Setting
    <3>2. removeCalls \in Seq(Ops \X Nat)
      BY <1>1, <3>1 DEF Setting
    <3>3. <<"release", 0>> \in Ops \X Nat
      BY DEF Ops
    <3> QED
      BY <2>1, <3>2, <3>3, AppendProperties
  <2>3. /\ todo' = [todo EXCEPT ![s] = q]
        /\ UNCHANGED <<conf, kind, nRefs, limit, held, pc, listVars, i, j, globalEnding>>
    BY <1>16, <2>1 DEF GiveUp, roundVars
  <2> QED
    BY <1>2, <2>2, <2>3 DEF ControlInv, listVars
<1>17. ASSUME NEW s \in Id, Call(s) PROVE ControlInv'
  <2>1. PICK op, h : op = Head(todo[s])[1] /\ h = Head(todo[s])[2]
    OBVIOUS
  <2>2. /\ Tail(todo[s]) \in Seq(Ops \X Nat)
        /\ todo' = [todo EXCEPT ![s] = Tail(@)]
        /\ UNCHANGED <<conf, kind, limit, pc, producers, consumers, i, j, globalEnding>>
    BY <1>17 DEF Call, ControlInv, roundVars
  <2>3. ASSUME NEW lists \in [Sharers -> Seq(Id)]
        PROVE  [lists EXCEPT ![h] = Append(@, s)] \in [Sharers -> Seq(Id)]
    <3>1. h \in Sharers => Append(lists[h], s) \in Seq(Id)
      OBVIOUS
    <3> QED
      BY <3>1
  <2>4. nRefs \in [Id -> Int] /\ [nRefs EXCEPT ![s] = @ + 1] \in [Id -> Int] /\ held \subseteq Id
    BY DEF ControlInv
  <2>5. /\ nRefs' \in [Id -> Int] /\ held' \subseteq Id
        /\ addProducers' \in [Sharers -> Seq(Id)] /\ addConsumers' \in [Sharers -> Seq(Id)]
        /\ removeProducers' \in [Sharers -> Seq(Id)] /\ removeConsumers' \in [Sharers -> Seq(Id)]
    <3>1. /\ addProducers \in [Sharers -> Seq(Id)] /\ addConsumers \in [Sharers -> Seq(Id)]
          /\ removeProducers \in [Sharers -> Seq(Id)] /\ removeConsumers \in [Sharers -> Seq(Id)]
      BY DEF ControlInv
    <3>2. CASE addConsumer(s, h)
      BY <2>3, <2>4, <3>1, <3>2 DEF addConsumer
    <3>3. CASE addProducer(s, h)
      BY <2>3, <2>4, <3>1, <3>3 DEF addProducer
    <3>4. CASE removeConsumer(s, h)
      BY <2>3, <2>4, <3>1, <3>4 DEF removeConsumer
    <3>5. CASE removeProducer(s, h)
      BY <2>3, <2>4, <3>1, <3>5 DEF removeProducer
    <3>6. CASE /\ release(<<s>>) /\ held' = held \ {s}
               /\ UNCHANGED <<addProducers, addConsumers, removeProducers, removeConsumers>>
      <4>1. <<s>> \in Seq(Id)
        OBVIOUS
      <4>2. nRefs' \in [Id -> Int]
        BY <2>4, <3>6, <4>1, ReleaseTyped
      <4> QED
        BY <2>4, <3>1, <3>6, <4>2
    <3> QED
      BY <1>17, <2>1, <3>2, <3>3, <3>4, <3>5, <3>6 DEF Call
  <2> QED
    BY <1>2, <2>2, <2>5 DEF ControlInv
<1>18. ASSUME End PROVE ControlInv'
  BY <1>2, <1>18 DEF End, ControlInv, solverVars, listVars, roundVars
<1>19. ASSUME NEW h \in Sharers, UseDeleted(h) PROVE ControlInv'
  BY <1>3, <1>19 DEF UseDeleted, roundVars
<1> QED
  BY <1>4, <1>5, <1>6, <1>7, <1>8, <1>9, <1>10, <1>11, <1>12, <1>13, <1>14, <1>15, <1>16, <1>17, <1>18, <1>19
     DEF Next, SharerStep, SolverStep

-----------------------------------------------------------------------------
(* The references of solvers *)

\* What the elements of two sequences are.
LEMMA SetConcat ==
    ASSUME NEW S, NEW q \in Seq(S), NEW r \in Seq(S)
    PROVE  Set(q \o r) = Set(q) \cup Set(r)
<1>1. PICK u : u = q \o r
  OBVIOUS
<1>2. Joins(u, q, r) /\ u \in Seq(S)
  BY <1>1, CountConcat
<1>3. ASSUME NEW x PROVE x \in Set(u) <=> x \in Set(q) \/ x \in Set(r)
  <2>1. Count(u, x) = Count(q, x) + Count(r, x)
    BY <1>2 DEF Joins
  <2>2. /\ Count(u, x) \in Nat /\ (Count(u, x) > 0 <=> x \in Set(u))
        /\ Count(q, x) \in Nat /\ (Count(q, x) > 0 <=> x \in Set(q))
        /\ Count(r, x) \in Nat /\ (Count(r, x) > 0 <=> x \in Set(r))
    BY <1>2, CountOf
  <2> QED
    BY <2>1, <2>2
<1> QED
  BY <1>1, <1>3

LEMMA SetAppend ==
    ASSUME NEW S, NEW q \in Seq(S), NEW e \in S
    PROVE  Set(Append(q, e)) = Set(q) \cup {e}
<1>1. PICK r : r = <<e>>
  OBVIOUS
<1>2. r \in Seq(S) /\ Append(q, e) = q \o r /\ Set(r) = {e}
  BY <1>1, AppendIsConcat DEF Set
<1>3. Set(q \o r) = Set(q) \cup Set(r)
  BY <1>2, SetConcat
<1> QED
  BY <1>2, <1>3

\* The references that sharer h has, when its vectors are p, c, a and b.
Counts(n, deleted, p, c, a, b, s, h, over) ==
    n = IF deleted = "deleted" THEN 0
        ELSE (IF <<"producer", h, s>> \in over THEN 0 ELSE Count(p, s) + Count(a, s))
             + (IF <<"consumer", h, s>> \in over THEN 0 ELSE Count(c, s) + Count(b, s))

LEMMA SharerRefsIs ==
    ASSUME NEW h \in Sharers, NEW s, NEW p, NEW c, NEW a, NEW b,
           p = producers[h], c = consumers[h], a = addProducers[h], b = addConsumers[h],
           p \in Seq(Id), c \in Seq(Id), a \in Seq(Id), b \in Seq(Id)
    PROVE  /\ Counts(SharerRefs(h, s), pc[h], p, c, a, b, s, h, overtaken)
           /\ SharerRefs(h, s) \in Nat
<1>1. PICK u, v : u = p \o a /\ v = c \o b
  OBVIOUS
<1>2. Joins(u, p, a) /\ Joins(v, c, b)
  BY <1>1, CountConcat
<1>3. Count(u, s) = Count(p, s) + Count(a, s) /\ Count(v, s) = Count(c, s) + Count(b, s)
  BY <1>2 DEF Joins
<1>4. SharerRefs(h, s) = IF pc[h] = "deleted" THEN 0
                         ELSE (IF OverP(h, s) THEN 0 ELSE Count(u, s))
                              + (IF OverC(h, s) THEN 0 ELSE Count(v, s))
  BY <1>1 DEF SharerRefs, OverP, OverC
<1>5. Count(p, s) \in Nat /\ Count(c, s) \in Nat /\ Count(a, s) \in Nat /\ Count(b, s) \in Nat
  BY CountOf
<1> QED
  BY <1>3, <1>4, <1>5 DEF Counts, OverP, OverC

LEMMA NextSharerRefsIs ==
    ASSUME NEW h \in Sharers, NEW s, NEW p, NEW c, NEW a, NEW b,
           p = producers'[h], c = consumers'[h], a = addProducers'[h], b = addConsumers'[h],
           p \in Seq(Id), c \in Seq(Id), a \in Seq(Id), b \in Seq(Id)
    PROVE  /\ Counts(SharerRefs(h, s)', pc'[h], p, c, a, b, s, h, overtaken')
           /\ SharerRefs(h, s)' \in Nat
<1>1. PICK u, v : u = p \o a /\ v = c \o b
  OBVIOUS
<1>2. Joins(u, p, a) /\ Joins(v, c, b)
  BY <1>1, CountConcat
<1>3. Count(u, s) = Count(p, s) + Count(a, s) /\ Count(v, s) = Count(c, s) + Count(b, s)
  BY <1>2 DEF Joins
<1>4. SharerRefs(h, s)' = IF pc'[h] = "deleted" THEN 0
                          ELSE (IF OverP(h, s)' THEN 0 ELSE Count(u, s))
                               + (IF OverC(h, s)' THEN 0 ELSE Count(v, s))
  BY <1>1 DEF SharerRefs, OverP, OverC
<1>5. Count(p, s) \in Nat /\ Count(c, s) \in Nat /\ Count(a, s) \in Nat /\ Count(b, s) \in Nat
  BY CountOf
<1> QED
  BY <1>3, <1>4, <1>5 DEF Counts, OverP, OverC

\* A step that changes what one sharer has.
LEMMA RefSumMove ==
    ASSUME Setting, conf' = conf, NEW h \in Sharers, NEW s,
           \A g \in Sharers : /\ SharerRefs(g, s) \in Nat /\ SharerRefs(g, s)' \in Nat
                              /\ g # h => SharerRefs(g, s)' = SharerRefs(g, s)
    PROVE  /\ RefSum(s) \in Nat /\ RefSum(s)' \in Nat
           /\ RefSum(s)' = RefSum(s) + SharerRefs(h, s)' - SharerRefs(h, s)
<1>1. PICK n, f, g : /\ n = Len(SharersOf(conf))
                     /\ f = [k \in Sharers |-> SharerRefs(k, s)] /\ g = [k \in Sharers |-> SharerRefs(k, s)']
  OBVIOUS
<1>2. n \in Nat /\ Sharers = 1..n
  BY <1>1 DEF Setting
<1>3. RefSum(s) = Total(f, n)
  BY <1>1 DEF RefSum
<1>4. RefSum(s)' = Total(g, n)
  <2>1. Sharers' = Sharers /\ Len(SharersOf(conf))' = n
    BY <1>1 DEF Sharers
  <2> QED
    BY <1>1, <2>1 DEF RefSum
<1>5. \A k \in 1..n : /\ f[k] \in Nat /\ g[k] \in Nat /\ f[k] = SharerRefs(k, s) /\ g[k] = SharerRefs(k, s)'
                      /\ k # h => f[k] = g[k]
  BY <1>1, <1>2
<1>6. Total(f, n) \in Nat /\ Total(g, n) \in Nat
  BY <1>2, <1>5, TotalNat
<1>7. Total(g, n) = Total(f, n) + g[h] - f[h]
  <2>1. h \in 1..n /\ \A k \in 1..n : f[k] \in Int /\ g[k] \in Int /\ (k # h => f[k] = g[k])
    BY <1>2, <1>5
  <2> QED
    BY <1>2, <2>1, TotalChange
<1> QED
  BY <1>2, <1>3, <1>4, <1>5, <1>6, <1>7

\* The conjuncts of ControlInv on the vectors, by element.
LEMMA ListsTyped ==
    ASSUME ControlInv
    PROVE  \A h \in Sharers :
              /\ producers[h] \in Seq(Id) /\ consumers[h] \in Seq(Id)
              /\ addProducers[h] \in Seq(Id) /\ addConsumers[h] \in Seq(Id)
              /\ removeProducers[h] \in Seq(Id) /\ removeConsumers[h] \in Seq(Id)
  BY DEF ControlInv

\* ... as functions, and the counters.
LEMMA ListFunctions ==
    ASSUME ControlInv
    PROVE  /\ addProducers \in [Sharers -> Seq(Id)] /\ addConsumers \in [Sharers -> Seq(Id)]
           /\ removeProducers \in [Sharers -> Seq(Id)] /\ removeConsumers \in [Sharers -> Seq(Id)]
           /\ nRefs \in [Id -> Int]
  BY DEF ControlInv

\* The vectors of one sharer change: h and no other.
OnlyLists(h) ==
    /\ conf' = conf
    /\ \A g \in Sharers : g # h =>
          /\ producers'[g] = producers[g] /\ consumers'[g] = consumers[g]
          /\ addProducers'[g] = addProducers[g] /\ addConsumers'[g] = addConsumers[g]
          /\ removeProducers'[g] = removeProducers[g] /\ removeConsumers'[g] = removeConsumers[g]
          /\ pc'[g] = pc[g]
          /\ \A s : (OverP(g, s)' <=> OverP(g, s)) /\ (OverC(g, s)' <=> OverC(g, s))

\* delta more references to solver s are counted than h has more.
LEMMA EnoughMove ==
    ASSUME SharingAssumption, ConfigsAssumption, ControlInv, ControlInv',
           NEW h \in Sharers, OnlyLists(h), NEW s \in Id, Enough(s),
           nRefs'[s] - (IF s \in held' THEN 1 ELSE 0) - SharerRefs(h, s)'
              >= nRefs[s] - (IF s \in held THEN 1 ELSE 0) - SharerRefs(h, s)
    PROVE  Enough(s)'
<1>1. Setting /\ Sharers' = Sharers /\ conf' = conf
  BY SettingIs DEF ControlInv, OnlyLists, Sharers
<1>2. \A g \in Sharers :
              /\ producers'[g] \in Seq(Id) /\ consumers'[g] \in Seq(Id)
              /\ addProducers'[g] \in Seq(Id) /\ addConsumers'[g] \in Seq(Id)
  BY <1>1 DEF ControlInv
<1>3. ASSUME NEW g \in Sharers
      PROVE  /\ SharerRefs(g, s) \in Nat /\ SharerRefs(g, s)' \in Nat
             /\ g # h => SharerRefs(g, s)' = SharerRefs(g, s)
  <2>1. SharerRefs(g, s) \in Nat
    <3>1. PICK p, c, a, b : /\ p = producers[g] /\ c = consumers[g]
                            /\ a = addProducers[g] /\ b = addConsumers[g]
      OBVIOUS
    <3>2. p \in Seq(Id) /\ c \in Seq(Id) /\ a \in Seq(Id) /\ b \in Seq(Id)
      BY <3>1, ListsTyped
    <3> QED
      BY <3>1, <3>2, SharerRefsIs
  <2>2. SharerRefs(g, s)' \in Nat
    <3>1. PICK p, c, a, b : /\ p = producers'[g] /\ c = consumers'[g]
                            /\ a = addProducers'[g] /\ b = addConsumers'[g]
      OBVIOUS
    <3>2. p \in Seq(Id) /\ c \in Seq(Id) /\ a \in Seq(Id) /\ b \in Seq(Id)
      BY <1>2, <3>1
    <3> QED
      BY <3>1, <3>2, NextSharerRefsIs
  <2>3. ASSUME g # h PROVE SharerRefs(g, s)' = SharerRefs(g, s)
    BY <2>3 DEF OnlyLists, SharerRefs, OverP, OverC
  <2> QED
    BY <2>1, <2>2, <2>3
<1>4. /\ RefSum(s) \in Nat /\ RefSum(s)' \in Nat
      /\ RefSum(s)' = RefSum(s) + SharerRefs(h, s)' - SharerRefs(h, s)
  BY <1>1, <1>3, RefSumMove
<1>5. nRefs[s] >= (IF s \in held THEN 1 ELSE 0) + RefSum(s)
  BY DEF Enough
<1>6. nRefs[s] \in Int /\ nRefs'[s] \in Int /\ SharerRefs(h, s) \in Nat /\ SharerRefs(h, s)' \in Nat
  BY <1>3 DEF ControlInv
<1>7. PICK x, y, m, n, t, u, v, w :
         /\ x = IF s \in held THEN 1 ELSE 0
         /\ y = IF s \in held' THEN 1 ELSE 0
         /\ m = nRefs[s] /\ n = nRefs'[s] /\ t = SharerRefs(h, s) /\ u = SharerRefs(h, s)'
         /\ v = RefSum(s) /\ w = RefSum(s)'
  OBVIOUS
<1>8. x \in Int /\ y \in Int
  BY <1>7
<1>9. n >= y + w
  <2>1. /\ m \in Int /\ n \in Int /\ t \in Int /\ u \in Int /\ v \in Int /\ w \in Int
        /\ w = v + u - t /\ m >= x + v
    BY <1>4, <1>5, <1>6, <1>7
  <2>2. n - y - u >= m - x - t
    BY <1>7
  <2> QED
    BY <1>8, <2>1, <2>2
<1> QED
  BY <1>7, <1>9 DEF Enough

\* Nothing about solvers changes.
SameSolvers ==
    /\ UNCHANGED <<conf, kind, nRefs, held, todo, listVars, overtaken>>
    /\ \A h \in Sharers : pc'[h] = "deleted" <=> pc[h] = "deleted"

LEMMA SolverSame ==
    ASSUME SolverInv, SameSolvers
    PROVE  SolverInv'
<1>1. /\ UNCHANGED <<conf, kind, nRefs, held, todo, producers, consumers, overtaken>>
      /\ UNCHANGED <<addProducers, addConsumers, removeProducers, removeConsumers>>
      /\ Sharers' = Sharers
  BY DEF SameSolvers, listVars, Sharers
<1>2. ASSUME NEW s \in Id PROVE Enough(s)'
  <2>1. Enough(s)
    BY DEF SolverInv
  <2>2. ASSUME NEW h \in Sharers PROVE SharerRefs(h, s)' = SharerRefs(h, s)
    BY <1>1 DEF SharerRefs, SameSolvers
  <2>3. [h \in Sharers |-> SharerRefs(h, s)]' = [h \in Sharers |-> SharerRefs(h, s)]
    BY <1>1, <2>2
  <2>4. RefSum(s)' = RefSum(s)
    BY <1>1, <2>3 DEF RefSum
  <2> QED
    BY <1>1, <2>1, <2>4 DEF Enough
<1>3. \A s \in Id : CallsOf(s)'
  BY <1>1 DEF SolverInv, CallsOf, Adds, Leaves
<1>4. \A s \in Id : Adds(s)' <=> Adds(s)
  BY <1>1 DEF Adds
<1>5. Adding' = Adding
  BY <1>1, <1>4 DEF Adding, Adds
<1>6. \A s \in Id : \A h \in Sharers : Produces(s, h)' /\ Consumes(s, h)'
  BY <1>1, <1>5 DEF SolverInv, Produces, Consumes, OverP, OverC
<1>7. \A s \in Id : kind'[s] = "none" => \A h \in Sharers : Unknown(s, h)'
  BY <1>1 DEF SolverInv, Unknown, OverP, OverC
<1> QED
  BY <1>1, <1>2, <1>3, <1>6, <1>7 DEF SolverInv

\* The vectors of one sharer change, and no solver is added or given up.
LEMMA SolverMove ==
    ASSUME SharingAssumption, ConfigsAssumption, ControlInv, ControlInv', SolverInv,
           NEW h \in Sharers, OnlyLists(h), UNCHANGED <<kind, held, todo>>,
           \A s \in Id :
              /\ Produces(s, h)' /\ Consumes(s, h)'
              /\ Unknown(s, h) => Unknown(s, h)'
              /\ nRefs'[s] - (IF s \in held' THEN 1 ELSE 0) - SharerRefs(h, s)'
                    >= nRefs[s] - (IF s \in held THEN 1 ELSE 0) - SharerRefs(h, s)
    PROVE  SolverInv'
<1>1. conf' = conf /\ Sharers' = Sharers
  BY DEF OnlyLists, Sharers
<1>2. \A s \in Id : CallsOf(s)'
  BY <1>1 DEF SolverInv, CallsOf, Adds, Leaves
<1>3. \A s \in 1..Len(conf'.solvers) : kind'[s] # "none"
  BY <1>1 DEF SolverInv
<1>4. Adding' = Adding
  BY DEF Adding, Adds
<1>5. ASSUME NEW s \in Id, NEW g \in Sharers
      PROVE  Produces(s, g)' /\ Consumes(s, g)' /\ (kind'[s] = "none" => Unknown(s, g)')
  <2>1. Produces(s, g) /\ Consumes(s, g) /\ (kind[s] = "none" => Unknown(s, g))
    BY DEF SolverInv
  <2>2. CASE g = h
    BY <2>1, <2>2
  <2>3. CASE g # h
    <3>1. /\ producers'[g] = producers[g] /\ consumers'[g] = consumers[g]
          /\ addProducers'[g] = addProducers[g] /\ addConsumers'[g] = addConsumers[g]
          /\ removeProducers'[g] = removeProducers[g] /\ removeConsumers'[g] = removeConsumers[g]
          /\ (OverP(g, s)' <=> OverP(g, s)) /\ (OverC(g, s)' <=> OverC(g, s))
      BY <2>3 DEF OnlyLists
    <3>2. Produces(s, g)'
      BY <1>1, <1>4, <2>1, <3>1 DEF Produces, Fit
    <3>3. Consumes(s, g)'
      BY <1>1, <1>4, <2>1, <3>1 DEF Consumes, Fit
    <3> QED
      BY <2>1, <3>1, <3>2, <3>3 DEF Unknown
  <2> QED
    BY <2>2, <2>3
<1>6. ASSUME NEW s \in Id PROVE Enough(s)'
  <2>1. Enough(s)
    BY DEF SolverInv
  <2> QED
    BY <2>1, EnoughMove
<1> QED
  BY <1>1, <1>2, <1>3, <1>5, <1>6 DEF SolverInv

LEMMA SolverWake ==
    ASSUME SharingAssumption, ConfigsAssumption, ControlInv, ControlInv', SolverInv,
           NEW h \in Sharers, Wake(h)
    PROVE  SolverInv'
<1>0. pc \in [Sharers -> Phases]
  BY DEF ControlInv
<1>1. CASE UNCHANGED listVars
  <2>1. /\ UNCHANGED <<conf, kind, nRefs, held, todo, overtaken>> /\ pc[h] = "sleep"
        /\ pc' = [pc EXCEPT ![h] = "ended"] \/ pc' = [pc EXCEPT ![h] = "collect"]
    BY DEF Wake, solverVars, history
  <2>2. \A g \in Sharers : pc'[g] = "deleted" <=> pc[g] = "deleted"
    BY <1>0, <2>1
  <2> QED
    BY <1>1, <2>1, <2>2, SolverSame DEF SameSolvers
<1>2. CASE ~UNCHANGED listVars
  <2>1. PICK p, c, a, b, m, n : /\ p = producers[h] /\ c = consumers[h]
                                /\ a = addProducers[h] /\ b = addConsumers[h]
                                /\ m = removeProducers[h] /\ n = removeConsumers[h]
    OBVIOUS
  <2>2. /\ p \in Seq(Id) /\ c \in Seq(Id) /\ a \in Seq(Id) /\ b \in Seq(Id)
        /\ m \in Seq(Id) /\ n \in Seq(Id)
    BY <2>1, ListsTyped
  <2>3. /\ UNCHANGED <<conf, kind, nRefs, held, todo, removeProducers, removeConsumers, overtaken>>
        /\ pc[h] = "sleep" /\ pc' = [pc EXCEPT ![h] = "collect"]
        /\ producers' = [producers EXCEPT ![h] = p \o a]
        /\ consumers' = [consumers EXCEPT ![h] = c \o b]
        /\ addProducers' = [addProducers EXCEPT ![h] = <<>>]
        /\ addConsumers' = [addConsumers EXCEPT ![h] = <<>>]
    BY <1>2, <2>1 DEF Wake, solverVars, history
  <2>4. PICK u, v, e : u = p \o a /\ v = c \o b /\ e = <<>>
    OBVIOUS
  <2>5. /\ u \in Seq(Id) /\ v \in Seq(Id) /\ e \in Seq(Id)
        /\ Set(u) = Set(p) \cup Set(a) /\ Set(v) = Set(c) \cup Set(b) /\ Set(e) = {}
    <3>1. u \in Seq(Id) /\ v \in Seq(Id) /\ e \in Seq(Id)
      BY <2>2, <2>4
    <3>2. Set(u) = Set(p) \cup Set(a) /\ Set(v) = Set(c) \cup Set(b)
      BY <2>2, <2>4, SetConcat
    <3>3. Set(e) = {}
      BY <2>4 DEF Set
    <3> QED
      BY <3>1, <3>2, <3>3
  <2>6. /\ producers'[h] = u /\ consumers'[h] = v /\ addProducers'[h] = e /\ addConsumers'[h] = e
        /\ removeProducers'[h] = m /\ removeConsumers'[h] = n
        /\ pc'[h] # "deleted" /\ pc[h] # "deleted"
    <3>1. /\ producers \in [Sharers -> Seq(Id)] /\ consumers \in [Sharers -> Seq(Id)]
          /\ addProducers \in [Sharers -> Seq(Id)] /\ addConsumers \in [Sharers -> Seq(Id)]
      BY DEF ControlInv
    <3> QED
      BY <1>0, <2>1, <2>3, <2>4, <3>1
  <2>7. OnlyLists(h)
    BY <1>0, <2>3 DEF OnlyLists, ControlInv, OverP, OverC
  <2>8. Adding' = Adding /\ Sharers' = Sharers
    BY <2>3 DEF Adding, Adds, Sharers
  <2>9. ASSUME NEW s \in Id
        PROVE  /\ Produces(s, h)' /\ Consumes(s, h)'
               /\ Unknown(s, h) => Unknown(s, h)'
               /\ nRefs'[s] - (IF s \in held' THEN 1 ELSE 0) - SharerRefs(h, s)'
                     >= nRefs[s] - (IF s \in held THEN 1 ELSE 0) - SharerRefs(h, s)
    <3>1. /\ Fit(s, h, Set(todo[s]), Adding, IF conf.wkr = 4 THEN Sharers ELSE {}, "addProducer",
                 "removeProducer", p, a, m, OverP(h, s))
          /\ Fit(s, h, Set(todo[s]), Adding, Sharers, "addConsumer", "removeConsumer", c, b, n, OverC(h, s))
      BY <2>1 DEF SolverInv, Produces, Consumes
    <3>2. /\ Fit(s, h, Set(todo[s]), Adding, IF conf.wkr = 4 THEN Sharers ELSE {}, "addProducer",
                 "removeProducer", u, e, m, OverP(h, s))
          /\ Fit(s, h, Set(todo[s]), Adding, Sharers, "addConsumer", "removeConsumer", v, e, n, OverC(h, s))
      BY <2>5, <3>1 DEF Fit
    <3>3. Produces(s, h)' /\ Consumes(s, h)'
      BY <2>3, <2>6, <2>8, <3>2 DEF Produces, Consumes, OverP, OverC
    <3>4. Unknown(s, h) => Unknown(s, h)'
      BY <2>1, <2>3, <2>5, <2>6 DEF Unknown, OverP, OverC
    <3>5. /\ Counts(SharerRefs(h, s), pc[h], p, c, a, b, s, h, overtaken) /\ SharerRefs(h, s) \in Nat
          /\ Counts(SharerRefs(h, s)', pc'[h], u, v, e, e, s, h, overtaken) /\ SharerRefs(h, s)' \in Nat
      <4>1. Counts(SharerRefs(h, s), pc[h], p, c, a, b, s, h, overtaken) /\ SharerRefs(h, s) \in Nat
        BY <2>1, <2>2, SharerRefsIs
      <4>2. Counts(SharerRefs(h, s)', pc'[h], u, v, e, e, s, h, overtaken') /\ SharerRefs(h, s)' \in Nat
        BY <2>5, <2>6, NextSharerRefsIs
      <4>3. overtaken' = overtaken
        BY <2>3
      <4> QED
        BY <4>1, <4>2, <4>3
    <3>6. /\ Count(u, s) = Count(p, s) + Count(a, s) /\ Count(v, s) = Count(c, s) + Count(b, s)
          /\ Count(e, s) = 0
      BY <2>2, <2>4, CountConcat, CountNone DEF Joins
    <3>7. /\ Count(p, s) \in Nat /\ Count(c, s) \in Nat /\ Count(a, s) \in Nat /\ Count(b, s) \in Nat
      BY <2>2, CountOf
    <3>8. SharerRefs(h, s)' = SharerRefs(h, s)
      BY <2>6, <3>5, <3>6, <3>7 DEF Counts, OverP, OverC
    <3>9. nRefs[s] \in Int
      BY DEF ControlInv
    <3>10. PICK x, y, z : /\ x = nRefs[s] /\ y = (IF s \in held THEN 1 ELSE 0) /\ z = SharerRefs(h, s)
      OBVIOUS
    <3>11. /\ x \in Int /\ y \in Int /\ z \in Int
           /\ x = nRefs'[s] /\ y = (IF s \in held' THEN 1 ELSE 0) /\ z = SharerRefs(h, s)'
      BY <2>3, <3>5, <3>8, <3>9, <3>10
    <3>12. x - y - z >= x - y - z
      BY <3>11
    <3> QED
      BY <3>3, <3>4, <3>10, <3>11, <3>12
  <2> QED
    BY <2>3, <2>7, <2>9, SolverMove
<1> QED
  BY <1>1, <1>2

\* Two lists that lose what is taken from them.
LEMMA BothTake ==
    ASSUME NEW x \in Nat, NEW y \in Nat, NEW d \in Nat, NEW z \in Nat, NEW w \in Nat, NEW f \in Nat,
           y + d <= x, w + f <= z
    PROVE  (y + w) + d + f <= x + z
  OBVIOUS

\* The places x of a solver become y when d of its removals are handled; it had f places
\* among the vectors and o after that, and k are waiting.
LEMMA RemovalTakes ==
    ASSUME NEW d \in Nat, d <= 1, NEW f \in Nat, NEW k \in Nat, NEW o \in Nat,
           NEW x \in Nat, NEW y \in Nat,
           \/ x = 0 /\ y = 0 /\ d = 0
           \/ x = f + k /\ y = 0 /\ k > 0
           \/ x = f + k /\ y = o + k /\ (d > 0 => f > 0 /\ o = 0) /\ (d = 0 => o = f)
    PROVE  y + d <= x
OBVIOUS

\* References are released: what a solver has left.
LEMMA ReleaseLeaves ==
    ASSUME ControlInv, NEW m \in Seq(Id), NEW n \in Seq(Id), release(m \o n), NEW s \in Id
    PROVE  nRefs[s] \in Int /\ nRefs'[s] = nRefs[s] - Count(m, s) - Count(n, s)
<1>1. PICK q : q = m \o n
  OBVIOUS
<1>2. q \in Seq(Id) /\ Joins(q, m, n)
  BY <1>1, CountConcat
<1>3. nRefs \in [Id -> Int] /\ release(q)
  BY <1>1 DEF ControlInv
<1>4. nRefs'[s] = nRefs[s] - Count(q, s)
  BY <1>2, <1>3, ReleaseTyped
<1>5. Count(q, s) = Count(m, s) + Count(n, s) /\ Count(m, s) \in Nat /\ Count(n, s) \in Nat
  BY <1>2, CountOf DEF Joins
<1> QED
  BY <1>3, <1>4, <1>5

LEMMA SolverRemove ==
    ASSUME SharingAssumption, ConfigsAssumption, ControlInv, ControlInv', SolverInv,
           NEW h \in Sharers, RemoveSolvers(h)
    PROVE  SolverInv'
<1>0. pc \in [Sharers -> Phases]
  BY DEF ControlInv
<1>1. PICK p, c, a, b, m, n : /\ p = producers[h] /\ c = consumers[h]
                              /\ a = addProducers[h] /\ b = addConsumers[h]
                              /\ m = removeProducers[h] /\ n = removeConsumers[h]
  OBVIOUS
<1>2. /\ p \in Seq(Id) /\ c \in Seq(Id) /\ a \in Seq(Id) /\ b \in Seq(Id)
      /\ m \in Seq(Id) /\ n \in Seq(Id)
  BY <1>1, ListsTyped
<1>3. PICK u, v, e : u = Filter(p, Id \ Set(m)) /\ v = Filter(c, Id \ Set(n)) /\ e = <<>>
  OBVIOUS
<1>4. /\ UNCHANGED <<conf, kind, held, todo, addProducers, addConsumers>>
      /\ pc[h] = "collect" /\ pc' = [pc EXCEPT ![h] = IF globalEnding THEN "ended" ELSE "sleep"]
      /\ producers' = [producers EXCEPT ![h] = u] /\ consumers' = [consumers EXCEPT ![h] = v]
      /\ removeProducers' = [removeProducers EXCEPT ![h] = e]
      /\ removeConsumers' = [removeConsumers EXCEPT ![h] = e]
      /\ release(m \o n)
      /\ overtaken' = overtaken \cup Overtaken(h)
  BY <1>1, <1>3 DEF RemoveSolvers
<1>5. u \in Seq(Id) /\ v \in Seq(Id) /\ e \in Seq(Id)
  BY <1>2, <1>3, FilterIs
<1>6. Set(u) = Set(p) \cap (Id \ Set(m)) /\ Set(v) = Set(c) \cap (Id \ Set(n))
  BY <1>2, <1>3, FilterSet
<1>7. Set(e) = {} /\ \A s : Count(e, s) = 0
  BY <1>3, CountNone DEF Set
<1>8. Filters(u, p, Id \ Set(m)) /\ Filters(v, c, Id \ Set(n))
  BY <1>2, <1>3, FilterIs
<1>9. /\ producers'[h] = u /\ consumers'[h] = v /\ addProducers'[h] = a /\ addConsumers'[h] = b
      /\ removeProducers'[h] = e /\ removeConsumers'[h] = e
      /\ pc'[h] # "deleted" /\ pc[h] # "deleted"
  <2>1. /\ producers \in [Sharers -> Seq(Id)] /\ consumers \in [Sharers -> Seq(Id)]
        /\ removeProducers \in [Sharers -> Seq(Id)] /\ removeConsumers \in [Sharers -> Seq(Id)]
    BY DEF ControlInv
  <2> QED
    BY <1>0, <1>1, <1>4, <2>1
<1>a. \A g, s : /\ OverP(g, s)' <=> (OverP(g, s) \/ (g = h /\ s \in Set(m) /\ s \in Set(a)))
                /\ OverC(g, s)' <=> (OverC(g, s) \/ (g = h /\ s \in Set(n) /\ s \in Set(b)))
  BY <1>1, <1>4 DEF Overtaken, OverP, OverC
<1>10. OnlyLists(h)
  <2>1. \A g \in Sharers : g # h =>
           \A s : (OverP(g, s)' <=> OverP(g, s)) /\ (OverC(g, s)' <=> OverC(g, s))
    BY <1>a
  <2> QED
    BY <1>0, <1>4, <2>1 DEF OnlyLists, ControlInv
<1>11. Adding' = Adding /\ Sharers' = Sharers
  BY <1>4 DEF Adding, Adds, Sharers
<1>12. ASSUME NEW s \in Id
       PROVE  /\ Produces(s, h)' /\ Consumes(s, h)'
              /\ Unknown(s, h) => Unknown(s, h)'
              /\ nRefs'[s] - (IF s \in held' THEN 1 ELSE 0) - SharerRefs(h, s)'
                    >= nRefs[s] - (IF s \in held THEN 1 ELSE 0) - SharerRefs(h, s)
  <2>1. /\ Fit(s, h, Set(todo[s]), Adding, IF conf.wkr = 4 THEN Sharers ELSE {}, "addProducer",
               "removeProducer", p, a, m, OverP(h, s))
        /\ Fit(s, h, Set(todo[s]), Adding, Sharers, "addConsumer", "removeConsumer", c, b, n, OverC(h, s))
    BY <1>1 DEF SolverInv, Produces, Consumes
  <2>2. /\ Fit(s, h, Set(todo[s]), Adding, IF conf.wkr = 4 THEN Sharers ELSE {}, "addProducer",
               "removeProducer", u, a, e, OverP(h, s)')
        /\ Fit(s, h, Set(todo[s]), Adding, Sharers, "addConsumer", "removeConsumer", v, b, e, OverC(h, s)')
    BY <1>6, <1>7, <1>a, <2>1 DEF Fit
  <2>3. Produces(s, h)' /\ Consumes(s, h)'
    BY <1>4, <1>9, <1>11, <2>2 DEF Produces, Consumes
  <2>4. Unknown(s, h) => Unknown(s, h)'
    BY <1>1, <1>6, <1>7, <1>9, <1>a DEF Unknown
  <2>5. /\ Counts(SharerRefs(h, s), pc[h], p, c, a, b, s, h, overtaken) /\ SharerRefs(h, s) \in Nat
        /\ Counts(SharerRefs(h, s)', pc'[h], u, v, a, b, s, h, overtaken') /\ SharerRefs(h, s)' \in Nat
    BY <1>1, <1>2, <1>5, <1>9, SharerRefsIs, NextSharerRefsIs
  <2>6. /\ Count(u, s) = IF s \in Set(m) THEN 0 ELSE Count(p, s)
        /\ Count(v, s) = IF s \in Set(n) THEN 0 ELSE Count(c, s)
    BY <1>8 DEF Filters
  <2>7. /\ Count(p, s) \in Nat /\ Count(c, s) \in Nat /\ Count(a, s) \in Nat /\ Count(b, s) \in Nat
        /\ Count(m, s) \in Nat /\ Count(n, s) \in Nat
        /\ (Count(p, s) > 0 <=> s \in Set(p)) /\ (Count(c, s) > 0 <=> s \in Set(c))
        /\ (Count(m, s) > 0 <=> s \in Set(m)) /\ (Count(n, s) > 0 <=> s \in Set(n))
    BY <1>2, CountOf
  <2>8. nRefs[s] \in Int /\ nRefs'[s] = nRefs[s] - Count(m, s) - Count(n, s)
    BY <1>2, <1>4, ReleaseLeaves
  <2>9. /\ Count(m, s) <= 1 /\ (s \in Set(m) => (s \in Set(p) \/ s \in Set(a)) /\ ~OverP(h, s))
        /\ Count(n, s) <= 1 /\ (s \in Set(n) => (s \in Set(c) \/ s \in Set(b)) /\ ~OverC(h, s))
    BY <2>1 DEF Fit
  <2>10. Count(a, s) > 0 <=> s \in Set(a)
    BY <1>2, CountOf
  <2>11. Count(b, s) > 0 <=> s \in Set(b)
    BY <1>2, CountOf
  <2>a. Count(u, s) \in Nat /\ Count(v, s) \in Nat
    BY <1>5, CountOf
  <2>b. PICK d, f, k, o : d = Count(m, s) /\ f = Count(p, s) /\ k = Count(a, s) /\ o = Count(u, s)
    OBVIOUS
  <2>c. PICK x, y : /\ x = IF OverP(h, s) THEN 0 ELSE f + k
                    /\ y = IF OverP(h, s)' THEN 0 ELSE o + k
    OBVIOUS
  <2>d. PICK d2, f2, k2, o2 : d2 = Count(n, s) /\ f2 = Count(c, s) /\ k2 = Count(b, s) /\ o2 = Count(v, s)
    OBVIOUS
  <2>e. PICK x2, y2 : /\ x2 = IF OverC(h, s) THEN 0 ELSE f2 + k2
                      /\ y2 = IF OverC(h, s)' THEN 0 ELSE o2 + k2
    OBVIOUS
  <2>f. /\ d \in Nat /\ d <= 1 /\ f \in Nat /\ k \in Nat /\ o \in Nat /\ x \in Nat /\ y \in Nat
        /\ d2 \in Nat /\ d2 <= 1 /\ f2 \in Nat /\ k2 \in Nat /\ o2 \in Nat /\ x2 \in Nat /\ y2 \in Nat
    <3>1. d \in Nat /\ d <= 1 /\ f \in Nat /\ k \in Nat /\ o \in Nat
      BY <2>7, <2>9, <2>a, <2>b
    <3>2. d2 \in Nat /\ d2 <= 1 /\ f2 \in Nat /\ k2 \in Nat /\ o2 \in Nat
      BY <2>7, <2>9, <2>a, <2>d
    <3>3. x \in Nat /\ y \in Nat
      BY <2>c, <3>1
    <3>4. x2 \in Nat /\ y2 \in Nat
      BY <2>e, <3>2
    <3> QED
      BY <3>1, <3>2, <3>3, <3>4
  <2>g. y + d <= x
    <3>1. CASE OverP(h, s)
      <4>1. x = 0 /\ y = 0 /\ s \notin Set(m)
        BY <1>a, <2>9, <2>c, <3>1
      <4>2. d = 0
        BY <2>7, <2>b, <2>f, <4>1
      <4> QED
        BY <4>1, <4>2
    <3>2. CASE ~OverP(h, s) /\ OverP(h, s)'
      <4>1. x = f + k /\ y = 0 /\ k > 0
        BY <1>a, <2>10, <2>b, <2>c, <3>2
      <4> QED
        BY <2>f, <4>1, RemovalTakes
    <3>3. CASE ~OverP(h, s) /\ ~OverP(h, s)'
      <4>1. x = f + k /\ y = o + k /\ (s \notin Set(m) \/ s \notin Set(a))
        BY <1>a, <2>c, <3>3
      <4>2. d > 0 => f > 0 /\ o = 0
        BY <2>6, <2>7, <2>9, <2>b, <4>1
      <4>3. d = 0 => o = f
        BY <2>6, <2>7, <2>b
      <4> QED
        BY <2>f, <4>1, <4>2, <4>3, RemovalTakes
    <3> QED
      BY <3>1, <3>2, <3>3
  <2>h. y2 + d2 <= x2
    <3>1. CASE OverC(h, s)
      <4>1. x2 = 0 /\ y2 = 0 /\ s \notin Set(n)
        BY <1>a, <2>9, <2>e, <3>1
      <4>2. d2 = 0
        BY <2>7, <2>d, <2>f, <4>1
      <4> QED
        BY <4>1, <4>2
    <3>2. CASE ~OverC(h, s) /\ OverC(h, s)'
      <4>1. x2 = f2 + k2 /\ y2 = 0 /\ k2 > 0
        BY <1>a, <2>11, <2>d, <2>e, <3>2
      <4> QED
        BY <2>f, <4>1, RemovalTakes
    <3>3. CASE ~OverC(h, s) /\ ~OverC(h, s)'
      <4>1. x2 = f2 + k2 /\ y2 = o2 + k2 /\ (s \notin Set(n) \/ s \notin Set(b))
        BY <1>a, <2>e, <3>3
      <4>2. d2 > 0 => f2 > 0 /\ o2 = 0
        BY <2>6, <2>7, <2>9, <2>d, <4>1
      <4>3. d2 = 0 => o2 = f2
        BY <2>6, <2>7, <2>d
      <4> QED
        BY <2>f, <4>1, <4>2, <4>3, RemovalTakes
    <3> QED
      BY <3>1, <3>2, <3>3
  <2>12. SharerRefs(h, s)' + Count(m, s) + Count(n, s) <= SharerRefs(h, s)
    <3>1. SharerRefs(h, s) = x + x2
      BY <1>9, <2>5, <2>b, <2>c, <2>d, <2>e DEF Counts, OverP, OverC
    <3>2. SharerRefs(h, s)' = y + y2
      <4>1. SharerRefs(h, s)' = (IF OverP(h, s)' THEN 0 ELSE Count(u, s) + Count(a, s))
                                + (IF OverC(h, s)' THEN 0 ELSE Count(v, s) + Count(b, s))
        BY <1>9, <2>5 DEF Counts, OverP, OverC
      <4> QED
        BY <2>b, <2>c, <2>d, <2>e, <4>1
    <3>3. /\ x \in Nat /\ x2 \in Nat /\ y \in Nat /\ y2 \in Nat /\ d \in Nat /\ d2 \in Nat
          /\ y + d <= x /\ y2 + d2 <= x2
      BY <2>f, <2>g, <2>h, Zenon
    <3>4. SharerRefs(h, s)' + d + d2 <= SharerRefs(h, s)
      BY <3>1, <3>2, <3>3, BothTake
    <3> QED
      BY <2>b, <2>d, <3>4
  <2>13. PICK w, r, z, t, l : /\ w = nRefs[s] /\ r = (IF s \in held THEN 1 ELSE 0) /\ z = SharerRefs(h, s)
                              /\ t = SharerRefs(h, s)' /\ l = Count(m, s) + Count(n, s)
    OBVIOUS
  <2>14. /\ w \in Int /\ r \in Int /\ z \in Int /\ t \in Int /\ l \in Int /\ t + l <= z
         /\ nRefs'[s] = w - l /\ r = (IF s \in held' THEN 1 ELSE 0)
    <3>1. w \in Int /\ l \in Int /\ nRefs'[s] = w - l
      BY <2>7, <2>8, <2>13, SMTT(40)
    <3>2. r \in Int /\ r = (IF s \in held' THEN 1 ELSE 0)
      BY <1>4, <2>13
    <3>3. z \in Int /\ t \in Int
      BY <2>5, <2>13
    <3>4. t + l <= z
      <4>1. PICK d1, e1 : d1 = Count(m, s) /\ e1 = Count(n, s)
        OBVIOUS
      <4>2. d1 \in Nat /\ e1 \in Nat /\ l = d1 + e1 /\ t + d1 + e1 <= z
        BY <2>7, <2>12, <2>13, <4>1
      <4> QED
        BY <3>3, <4>2
    <3> QED
      BY <3>1, <3>2, <3>3, <3>4
  <2>15. (w - l) - r - t >= w - r - z
    BY <2>14
  <2> QED
    BY <2>3, <2>4, <2>13, <2>14, <2>15
<1> QED
  BY <1>4, <1>10, <1>12, SolverMove

LEMMA SolverDelete ==
    ASSUME SharingAssumption, ConfigsAssumption, ControlInv, ControlInv', SolverInv,
           NEW h \in Sharers, DeleteSharer(h)
    PROVE  SolverInv'
<1>0. pc \in [Sharers -> Phases]
  BY DEF ControlInv
<1>1. PICK p, c, a, b, m, n : /\ p = producers[h] /\ c = consumers[h]
                              /\ a = addProducers[h] /\ b = addConsumers[h]
                              /\ m = removeProducers[h] /\ n = removeConsumers[h]
  OBVIOUS
<1>2. /\ p \in Seq(Id) /\ c \in Seq(Id) /\ a \in Seq(Id) /\ b \in Seq(Id)
      /\ m \in Seq(Id) /\ n \in Seq(Id)
  BY <1>1, ListsTyped
<1>3. /\ UNCHANGED <<conf, kind, held, todo, listVars>>
      /\ pc[h] = "ended" /\ pc' = [pc EXCEPT ![h] = "deleted"]
      /\ release(m \o n) /\ overtaken' = overtaken
  BY <1>1 DEF DeleteSharer, history
<1>4. UNCHANGED <<producers, consumers, addProducers, addConsumers, removeProducers, removeConsumers>>
  BY <1>3 DEF listVars
<1>5. OnlyLists(h) /\ pc'[h] = "deleted"
  BY <1>0, <1>3, <1>4 DEF OnlyLists, OverP, OverC
<1>6. Adding' = Adding /\ Sharers' = Sharers
  BY <1>3 DEF Adding, Adds, Sharers
<1>7. ASSUME NEW s \in Id
      PROVE  /\ Produces(s, h)' /\ Consumes(s, h)'
             /\ Unknown(s, h) => Unknown(s, h)'
             /\ nRefs'[s] - (IF s \in held' THEN 1 ELSE 0) - SharerRefs(h, s)'
                   >= nRefs[s] - (IF s \in held THEN 1 ELSE 0) - SharerRefs(h, s)
  <2>1. Produces(s, h) /\ Consumes(s, h)
    BY DEF SolverInv
  <2>2. Produces(s, h)' /\ Consumes(s, h)' /\ (Unknown(s, h) => Unknown(s, h)')
    BY <1>3, <1>4, <1>6, <2>1 DEF Produces, Consumes, Unknown, OverP, OverC
  <2>3. /\ Counts(SharerRefs(h, s), pc[h], p, c, a, b, s, h, overtaken) /\ SharerRefs(h, s) \in Nat
    BY <1>1, <1>2, SharerRefsIs
  <2>4. SharerRefs(h, s)' = 0
    BY <1>5 DEF SharerRefs
  <2>5. /\ Count(p, s) \in Nat /\ Count(c, s) \in Nat /\ Count(a, s) \in Nat /\ Count(b, s) \in Nat
        /\ Count(m, s) \in Nat /\ Count(n, s) \in Nat
        /\ (Count(p, s) > 0 <=> s \in Set(p)) /\ (Count(c, s) > 0 <=> s \in Set(c))
        /\ (Count(m, s) > 0 <=> s \in Set(m)) /\ (Count(n, s) > 0 <=> s \in Set(n))
    BY <1>2, CountOf
  <2>6. nRefs[s] \in Int /\ nRefs'[s] = nRefs[s] - Count(m, s) - Count(n, s)
    BY <1>2, <1>3, ReleaseLeaves
  <2>7. /\ Count(m, s) <= 1 /\ (s \in Set(m) => (s \in Set(p) \/ s \in Set(a)) /\ ~OverP(h, s))
        /\ Count(n, s) <= 1 /\ (s \in Set(n) => (s \in Set(c) \/ s \in Set(b)) /\ ~OverC(h, s))
    BY <1>1, <2>1 DEF Produces, Consumes, Fit
  <2>8. (Count(a, s) > 0 <=> s \in Set(a)) /\ (Count(b, s) > 0 <=> s \in Set(b))
    BY <1>2, CountOf
  <2>9. Count(m, s) + Count(n, s) <= SharerRefs(h, s)
    <3>1. PICK x, y : /\ x = IF OverP(h, s) THEN 0 ELSE Count(p, s) + Count(a, s)
                      /\ y = IF OverC(h, s) THEN 0 ELSE Count(c, s) + Count(b, s)
      OBVIOUS
    <3>2. SharerRefs(h, s) = x + y
      BY <1>3, <2>3, <3>1 DEF Counts, OverP, OverC
    <3>3. Count(m, s) <= x /\ x \in Nat
      <4>1. CASE s \in Set(m)
        BY <2>5, <2>7, <2>8, <3>1, <4>1
      <4>2. CASE s \notin Set(m)
        BY <2>5, <3>1, <4>2
      <4> QED
        BY <4>1, <4>2
    <3>4. Count(n, s) <= y /\ y \in Nat
      <4>1. CASE s \in Set(n)
        BY <2>5, <2>7, <2>8, <3>1, <4>1
      <4>2. CASE s \notin Set(n)
        BY <2>5, <3>1, <4>2
      <4> QED
        BY <4>1, <4>2
    <3> QED
      BY <2>5, <3>2, <3>3, <3>4
  <2>10. PICK x, y, z, t, k : /\ x = nRefs[s] /\ y = (IF s \in held THEN 1 ELSE 0) /\ z = SharerRefs(h, s)
                              /\ t = SharerRefs(h, s)' /\ k = Count(m, s) + Count(n, s)
    OBVIOUS
  <2>11. /\ x \in Int /\ y \in Int /\ z \in Int /\ t = 0 /\ k \in Int /\ k <= z
         /\ nRefs'[s] = x - k /\ y = (IF s \in held' THEN 1 ELSE 0)
    BY <1>3, <2>3, <2>4, <2>5, <2>6, <2>9, <2>10, SMTT(40)
  <2>12. (x - k) - y - t >= x - y - z
    BY <2>11
  <2> QED
    BY <2>2, <2>10, <2>11, <2>12
<1> QED
  BY <1>3, <1>5, <1>7, SolverMove

\* Elements of a sequence and of Set.
LEMMA InSet ==
    ASSUME NEW S, NEW q \in Seq(S)
    PROVE  /\ \A n \in 1..Len(q) : q[n] \in Set(q)
           /\ \A e \in Set(q) : \E n \in 1..Len(q) : q[n] = e
           /\ q = <<>> => Set(q) = {}
           /\ Set(q) = ToSet(q)
<1>1. Set(q) = {q[n] : n \in 1..Len(q)} /\ DOMAIN q = 1..Len(q)
  BY CountOf
<1>2. ToSet(q) = {q[n] : n \in 1..Len(q)}
  BY ToSetOf
<1>3. q = <<>> => Set(q) = {}
  BY DEF Set
<1> QED
  BY <1>1, <1>2, <1>3

\* The references that the sharers have do not change.
LEMMA RefSumSame ==
    ASSUME UNCHANGED <<conf, pc, listVars, overtaken>>, NEW s
    PROVE  RefSum(s)' = RefSum(s)
<1>1. Sharers' = Sharers
  BY DEF Sharers
<1>2. \A h \in Sharers : SharerRefs(h, s)' = SharerRefs(h, s)
  BY DEF SharerRefs, listVars
<1>3. [h \in Sharers |-> SharerRefs(h, s)]' = [h \in Sharers |-> SharerRefs(h, s)]
  BY <1>1, <1>2
<1> QED
  BY <1>1, <1>3 DEF RefSum

\* One solver is added or given up, and no vector changes.
LEMMA SolverTurn ==
    ASSUME Setting, ControlInv, SolverInv, UNCHANGED <<conf, pc, listVars, overtaken>>, NEW t \in Id,
           \A s \in Id : s # t => /\ todo'[s] = todo[s] /\ nRefs'[s] = nRefs[s]
                                  /\ kind'[s] = kind[s] /\ (s \in held' <=> s \in held),
           CallsOf(t)', Enough(t)', kind'[t] # "none",
           \A h \in Sharers : Produces(t, h)' /\ Consumes(t, h)'
    PROVE  SolverInv'
<1>1. Sharers' = Sharers
  BY DEF Sharers
<1>2. ASSUME NEW s \in Id PROVE CallsOf(s)'
  <2>1. CallsOf(s)
    BY DEF SolverInv
  <2>2. CASE s # t
    BY <1>1, <2>1, <2>2 DEF CallsOf, Adds, Leaves
  <2> QED
    BY <2>2
<1>3. ASSUME NEW s \in 1..Len(conf'.solvers) PROVE kind'[s] # "none"
  <2>1. kind[s] # "none" /\ s \in 1..Len(conf.solvers)
    BY <1>3 DEF SolverInv
  <2>2. CASE s = t
    BY <2>2
  <2>3. CASE s # t
    <3>1. s \in Id
      BY <2>1 DEF Setting
    <3> QED
      BY <2>1, <2>3, <3>1
  <2> QED
    BY <2>2, <2>3
<1>4. ASSUME NEW s \in Id, kind'[s] = "none", NEW h \in Sharers PROVE Unknown(s, h)'
  <2>1. s # t /\ kind[s] = "none"
    BY <1>4
  <2>2. Unknown(s, h)
    BY <2>1 DEF SolverInv
  <2> QED
    BY <2>2 DEF Unknown, listVars, OverP, OverC
<1>5. ASSUME NEW s \in Id, NEW h \in Sharers PROVE Produces(s, h)' /\ Consumes(s, h)'
  <2>1. CASE s # t
    <3>1. s \in Adding' <=> s \in Adding
      BY <2>1 DEF Adding, Adds
    <3>2. Produces(s, h) /\ Consumes(s, h) /\ todo'[s] = todo[s]
      BY <2>1 DEF SolverInv
    <3> QED
      BY <1>1, <3>1, <3>2 DEF Produces, Consumes, Fit, listVars, OverP, OverC
  <2> QED
    BY <2>1
<1>6. ASSUME NEW s \in Id PROVE Enough(s)'
  <2>1. CASE s # t
    BY <2>1, RefSumSame DEF SolverInv, Enough
  <2> QED
    BY <2>1
<1> QED
  BY <1>1, <1>2, <1>3, <1>4, <1>5, <1>6 DEF SolverInv

LEMMA SolverClone ==
    ASSUME SharingAssumption, ConfigsAssumption, ControlInv, SolverInv,
           NEW t \in Id, cloneSolver(t)
    PROVE  SolverInv'
<1>1. Setting
  BY SettingIs DEF ControlInv
<1>2. /\ kind[Len(conf.solvers)] \in Kind
      /\ UNCHANGED <<conf, pc, listVars, overtaken>> /\ kind[t] = "none"
      /\ kind' = [kind EXCEPT ![t] = kind[Len(conf.solvers)]]
      /\ nRefs' = [nRefs EXCEPT ![t] = 1]
      /\ held' = held \cup {t}
      /\ todo' = [todo EXCEPT ![t] = addCalls]
  <2>1. Len(conf.solvers) \in 1..MaxId /\ MaxId \in Nat
    BY DEF ControlInv, ConfigsAssumption, SharingAssumption
  <2>2. Len(conf.solvers) \in 1..Len(conf.solvers) /\ Len(conf.solvers) \in Id
    BY <2>1 DEF Id
  <2>3. kind[Len(conf.solvers)] # "none" /\ kind[Len(conf.solvers)] \in Kind \cup {"none"}
    BY <2>2 DEF SolverInv, ControlInv
  <2> QED
    BY <2>3 DEF cloneSolver, history
<1>3. /\ kind \in [Id -> Kind \cup {"none"}] /\ nRefs \in [Id -> Int]
      /\ todo \in [Id -> Seq(Ops \X Nat)] /\ "none" \notin Kind
  BY DEF ControlInv, Kind
<1>4. /\ kind'[t] # "none" /\ nRefs'[t] = 1 /\ t \in held' /\ todo'[t] = addCalls
      /\ \A s \in Id : s # t => /\ todo'[s] = todo[s] /\ nRefs'[s] = nRefs[s]
                                /\ kind'[s] = kind[s] /\ (s \in held' <=> s \in held)
  BY <1>2, <1>3
<1>5. \A h \in Sharers : Unknown(t, h)
  BY <1>2 DEF SolverInv
<1>6. PICK q : q = addCalls
  OBVIOUS
<1>7. /\ q \in Seq(AddOps \X Sharers) /\ NoRepeat(q)
      /\ \A o \in AddOps : \A h \in Sharers : <<o, h>> \in Set(q)
  BY <1>1, <1>6 DEF Setting
<1>8. /\ \A n \in 1..Len(q) : q[n] \in AddOps \X Sharers
      /\ Set(q) \subseteq AddOps \X Sharers
  BY <1>7, CountOf
<1>9. AddOps \subseteq {"addConsumer", "addProducer"}
  BY DEF AddOps
<1>10. \A n \in 1..Len(q) : q[n][1] \in {"addConsumer", "addProducer"} /\ q[n][2] \in Sharers
  <2>1. ASSUME NEW n \in 1..Len(q) PROVE q[n][1] \in {"addConsumer", "addProducer"} /\ q[n][2] \in Sharers
    <3>1. q[n] \in AddOps \X Sharers
      BY <1>8
    <3>2. q[n][1] \in AddOps /\ q[n][2] \in Sharers
      BY <3>1
    <3> QED
      BY <1>9, <3>2
  <2> QED
    BY <2>1
<1>11. Sharers' = Sharers /\ todo'[t] = q
  BY <1>2, <1>4, <1>6 DEF Sharers
<1>12. Adds(t)' /\ t \in Adding'
  BY <1>4, <1>10, <1>11 DEF Adds, Adding
<1>13. CallsOf(t)'
  BY <1>4, <1>7, <1>10, <1>11, <1>12 DEF CallsOf
<1>14. Enough(t)'
  <2>1. ASSUME NEW h \in Sharers PROVE SharerRefs(h, t) = 0
    <3>1. PICK p, c, a, b : /\ p = producers[h] /\ c = consumers[h]
                            /\ a = addProducers[h] /\ b = addConsumers[h]
      OBVIOUS
    <3>2. p \in Seq(Id) /\ c \in Seq(Id) /\ a \in Seq(Id) /\ b \in Seq(Id)
      BY <3>1, ListsTyped
    <3>3. t \notin Set(p) /\ t \notin Set(c) /\ t \notin Set(a) /\ t \notin Set(b)
      BY <1>5, <3>1 DEF Unknown
    <3>4. Count(p, t) = 0 /\ Count(c, t) = 0 /\ Count(a, t) = 0 /\ Count(b, t) = 0
      <4>1. \A x \in {p, c, a, b} : Count(x, t) \in Nat /\ (Count(x, t) > 0 <=> t \in Set(x))
        BY <3>2, CountOf
      <4> QED
        BY <3>3, <4>1
    <3>5. Counts(SharerRefs(h, t), pc[h], p, c, a, b, t, h, overtaken)
      BY <3>1, <3>2, SharerRefsIs
    <3> QED
      BY <3>4, <3>5 DEF Counts, OverP, OverC
  <2>2. PICK n, f : n = Len(SharersOf(conf)) /\ f = [h \in Sharers |-> SharerRefs(h, t)]
    OBVIOUS
  <2>3. n \in Nat /\ Sharers = 1..n
    BY <1>1, <2>2 DEF Setting
  <2>4. \A k \in 1..n : f[k] = 0
    BY <2>1, <2>2, <2>3
  <2>5. Total(f, n) = 0
    BY <2>3, <2>4, TotalZero
  <2>6. RefSum(t) = 0
    BY <2>2, <2>5 DEF RefSum
  <2>7. RefSum(t)' = 0
    BY <1>2, <2>6, RefSumSame
  <2> QED
    BY <1>4, <2>7 DEF Enough
<1>15. ASSUME NEW h \in Sharers PROVE Produces(t, h)' /\ Consumes(t, h)'
  <2>1. PICK p, c, a, b, m, n : /\ p = producers[h] /\ c = consumers[h]
                                /\ a = addProducers[h] /\ b = addConsumers[h]
                                /\ m = removeProducers[h] /\ n = removeConsumers[h]
    OBVIOUS
  <2>2. m \in Seq(Id) /\ n \in Seq(Id)
    BY <2>1, ListsTyped
  <2>3. t \notin Set(m) /\ t \notin Set(n) /\ ~OverP(h, t) /\ ~OverC(h, t)
    BY <1>5, <2>1 DEF Unknown
  <2>4. Count(m, t) <= 1 /\ Count(n, t) <= 1
    <3>1. \A x \in {m, n} : Count(x, t) \in Nat /\ (Count(x, t) > 0 <=> t \in Set(x))
      BY <2>2, CountOf
    <3> QED
      BY <2>3, <3>1
  <2>5. <<"removeProducer", h>> \notin Set(q) /\ <<"removeConsumer", h>> \notin Set(q)
    <3>1. \A x \in Set(q) : x[1] \in AddOps
      BY <1>8
    <3>2. <<"removeProducer", h>>[1] \notin AddOps /\ <<"removeConsumer", h>>[1] \notin AddOps
      BY <1>9
    <3> QED
      BY <3>1, <3>2
  <2>6. /\ <<"addConsumer", h>> \in Set(q)
        /\ conf.wkr = 4 => <<"addProducer", h>> \in Set(q)
    BY <1>7 DEF AddOps
  <2>7. /\ Fit(t, h, Set(q), Adding', IF conf.wkr = 4 THEN Sharers ELSE {}, "addProducer",
               "removeProducer", p, a, m, OverP(h, t))
        /\ Fit(t, h, Set(q), Adding', Sharers, "addConsumer", "removeConsumer", c, b, n, OverC(h, t))
    BY <2>3, <2>4, <2>5, <2>6 DEF Fit
  <2>8. /\ p = producers'[h] /\ c = consumers'[h] /\ a = addProducers'[h] /\ b = addConsumers'[h]
        /\ m = removeProducers'[h] /\ n = removeConsumers'[h] /\ conf' = conf
    BY <1>2, <2>1 DEF listVars
  <2> QED
    BY <1>2, <1>11, <2>7, <2>8 DEF Produces, Consumes, OverP, OverC
<1> QED
  BY <1>1, <1>2, <1>4, <1>13, <1>14, <1>15, SolverTurn

LEMMA SolverGiveUp ==
    ASSUME SharingAssumption, ConfigsAssumption, ControlInv, SolverInv,
           NEW t \in Id, GiveUp(t)
    PROVE  SolverInv'
<1>1. Setting
  BY SettingIs DEF ControlInv
<1>2. PICK r, q : r = removeCalls /\ q = Append(r, <<"release", 0>>)
  OBVIOUS
<1>3. /\ UNCHANGED <<conf, kind, nRefs, held, pc, listVars, overtaken>>
      /\ t \in held /\ todo[t] = <<>>
      /\ todo' = [todo EXCEPT ![t] = q]
  BY <1>2 DEF GiveUp, Runs, history
<1>4. todo'[t] = q /\ \A s \in Id : s # t => todo'[s] = todo[s]
  BY <1>3 DEF ControlInv
<1>5. r \in Seq(RemoveOps \X Sharers) /\ NoRepeat(r)
  BY <1>1, <1>2 DEF Setting
<1>6. RemoveOps \subseteq {"removeConsumer", "removeProducer"}
  BY DEF RemoveOps
<1>7. /\ Len(q) = Len(r) + 1 /\ q[Len(q)] = <<"release", 0>> /\ Len(r) \in Nat
      /\ \A n \in 1..Len(r) : q[n] = r[n]
  BY <1>2, <1>5
<1>8. ASSUME NEW n \in 1..Len(r) PROVE r[n][1] \in {"removeConsumer", "removeProducer"} /\ r[n][2] \in Sharers
  <2>1. r[n] \in RemoveOps \X Sharers
    BY <1>5
  <2>2. r[n][1] \in RemoveOps /\ r[n][2] \in Sharers
    BY <2>1
  <2> QED
    BY <1>6, <2>2
<1>9. Sharers' = Sharers
  BY <1>3 DEF Sharers
<1>10. Leaves(t)' /\ ~Adds(t)'
  <2>1. q # <<>> /\ Len(q) \in 1..Len(q) /\ Len(q) - 1 = Len(r)
    BY <1>7
  <2>2. \A n \in 1..Len(r) : q[n][1] \in {"removeConsumer", "removeProducer"}
    BY <1>7, <1>8
  <2>3. Leaves(t)'
    BY <1>4, <1>7, <2>1, <2>2 DEF Leaves
  <2>4. q[Len(q)][1] = "release"
    BY <1>7
  <2>5. ~Adds(t)'
    BY <1>4, <2>1, <2>4 DEF Adds
  <2> QED
    BY <2>3, <2>5
<1>11. CallsOf(t)'
  <2>1. NoRepeat(q)
    <3>1. \A n \in 1..Len(r) : q[n] # q[Len(q)]
      <4>1. ASSUME NEW n \in 1..Len(r) PROVE q[n] # q[Len(q)]
        <5>1. q[n][1] \in {"removeConsumer", "removeProducer"} /\ q[Len(q)][1] = "release"
          BY <1>7, <1>8
        <5> QED
          BY <5>1
      <4> QED
        BY <4>1
    <3>2. \A n \in 1..Len(q) : n \in 1..Len(r) \/ n = Len(q)
      BY <1>7
    <3>3. ASSUME NEW n \in 1..Len(q), NEW o \in 1..Len(q), q[n] = q[o] PROVE n = o
      <4>1. CASE n \in 1..Len(r) /\ o \in 1..Len(r)
        <5>1. r[n] = r[o]
          BY <1>7, <3>3, <4>1
        <5> QED
          BY <1>5, <4>1, <5>1 DEF NoRepeat
      <4> QED
        BY <3>1, <3>2, <3>3, <4>1
    <3> QED
      BY <3>3 DEF NoRepeat
  <2>2. \A n \in 1..Len(q) : q[n][1] # "release" => q[n][2] \in Sharers
    <3>1. ASSUME NEW n \in 1..Len(q), q[n][1] # "release" PROVE q[n][2] \in Sharers
      <4>1. n # Len(q)
        BY <1>7, <3>1
      <4>2. n \in 1..Len(r) /\ q[n] = r[n]
        BY <1>7, <4>1
      <4> QED
        BY <1>8, <4>2
    <3> QED
      BY <3>1
  <2>3. kind[t] # "none"
    BY <1>3 DEF SolverInv, CallsOf
  <2> QED
    BY <1>3, <1>4, <1>9, <1>10, <2>1, <2>2, <2>3 DEF CallsOf
<1>12. Enough(t)'
  BY <1>3, RefSumSame DEF SolverInv, Enough
<1>13. ASSUME NEW h \in Sharers PROVE Produces(t, h)' /\ Consumes(t, h)'
  <2>1. PICK p, c, a, b, m, n : /\ p = producers[h] /\ c = consumers[h]
                                /\ a = addProducers[h] /\ b = addConsumers[h]
                                /\ m = removeProducers[h] /\ n = removeConsumers[h]
    OBVIOUS
  <2>4. Set(todo[t]) = {} /\ t \in Adding
    <3>1. Set(todo[t]) = {}
      BY <1>3 DEF Set
    <3>2. Adds(t)
      BY <1>3 DEF Adds
    <3> QED
      BY <1>3, <3>1, <3>2 DEF Adding
  <2>5. /\ Fit(t, h, {}, Adding, IF conf.wkr = 4 THEN Sharers ELSE {}, "addProducer",
               "removeProducer", p, a, m, OverP(h, t))
        /\ Fit(t, h, {}, Adding, Sharers, "addConsumer", "removeConsumer", c, b, n, OverC(h, t))
    BY <2>1, <2>4 DEF SolverInv, Produces, Consumes
  <2>6. conf.wkr = 4 \/ <<"removeProducer", h>> \notin Set(q)
    <3>1. ASSUME conf.wkr # 4, <<"removeProducer", h>> \in Set(q) PROVE FALSE
      <4>1. PICK k \in 1..Len(q) : q[k] = <<"removeProducer", h>>
        <5>1. DOMAIN q = 1..Len(q)
          BY <1>2, <1>5
        <5> QED
          BY <3>1, <5>1 DEF Set
      <4>2. q[k][1] = "removeProducer"
        BY <4>1
      <4>3. k \in 1..Len(r) /\ q[k] = r[k]
        BY <1>7, <4>2
      <4>4. r[k][1] \in RemoveOps
        BY <1>5, <4>3
      <4> QED
        BY <3>1, <4>2, <4>3, <4>4 DEF RemoveOps
    <3> QED
      BY <3>1
  <2>7. t \notin Adding'
    BY <1>10 DEF Adding
  <2>8. Fit(t, h, Set(q), Adding', Sharers, "addConsumer", "removeConsumer", c, b, n, OverC(h, t))
    BY <2>4, <2>5, <2>7 DEF Fit
  <2>9. Fit(t, h, Set(q), Adding', IF conf.wkr = 4 THEN Sharers ELSE {}, "addProducer",
            "removeProducer", p, a, m, OverP(h, t))
    <3>1. CASE conf.wkr = 4
      BY <2>4, <2>5, <2>7, <3>1 DEF Fit
    <3>2. CASE conf.wkr # 4
      BY <2>5, <2>6, <2>7, <3>2 DEF Fit
    <3> QED
      BY <3>1, <3>2
  <2>10. /\ p = producers'[h] /\ c = consumers'[h] /\ a = addProducers'[h] /\ b = addConsumers'[h]
         /\ m = removeProducers'[h] /\ n = removeConsumers'[h] /\ conf' = conf
    BY <1>3, <2>1 DEF listVars
  <2> QED
    BY <1>3, <1>4, <1>9, <2>8, <2>9, <2>10 DEF Produces, Consumes, OverP, OverC
<1>14. kind'[t] # "none"
  BY <1>3 DEF SolverInv, CallsOf
<1> QED
  BY <1>1, <1>3, <1>4, <1>11, <1>12, <1>13, <1>14, SolverTurn

\* A call of op on sharer h is made for solver t.
MadeCall(t, op, h) ==
    /\ kind' = kind /\ held' = held /\ Adding' = Adding
    /\ \A s \in Id : s # t => todo'[s] = todo[s]
    /\ CallsOf(t)' /\ kind[t] # "none"
    /\ Set(todo'[t]) = Set(todo[t]) \ {<<op, h>>}

LEMMA SolverCalled ==
    ASSUME SharingAssumption, ConfigsAssumption, ControlInv, ControlInv', SolverInv,
           NEW h \in Sharers, OnlyLists(h), NEW t \in Id, NEW op, MadeCall(t, op, h),
           \A s \in Id :
              /\ Produces(s, h)' /\ Consumes(s, h)'
              /\ s # t /\ Unknown(s, h) => Unknown(s, h)'
              /\ nRefs'[s] - (IF s \in held' THEN 1 ELSE 0) - SharerRefs(h, s)'
                    >= nRefs[s] - (IF s \in held THEN 1 ELSE 0) - SharerRefs(h, s)
    PROVE  SolverInv'
<1>0. /\ kind' = kind /\ held' = held /\ Adding' = Adding
      /\ \A s \in Id : s # t => todo'[s] = todo[s]
      /\ CallsOf(t)' /\ kind[t] # "none"
      /\ Set(todo'[t]) = Set(todo[t]) \ {<<op, h>>}
  BY DEF MadeCall
<1>1. conf' = conf /\ Sharers' = Sharers
  BY DEF OnlyLists, Sharers
<1>2. ASSUME NEW s \in Id PROVE CallsOf(s)'
  <2>1. CASE s # t
    BY <1>0, <1>1, <2>1, SMTT(40) DEF SolverInv, CallsOf, Adds, Leaves
  <2> QED
    BY <1>0, <2>1
<1>3. \A s \in 1..Len(conf'.solvers) : kind'[s] # "none"
  BY <1>0, <1>1 DEF SolverInv
<1>4. ASSUME NEW s \in Id, NEW g \in Sharers
      PROVE  Produces(s, g)' /\ Consumes(s, g)' /\ (kind'[s] = "none" => Unknown(s, g)')
  <2>1. Produces(s, g) /\ Consumes(s, g) /\ (kind[s] = "none" => Unknown(s, g))
    BY DEF SolverInv
  <2>2. CASE g = h
    BY <1>0, <2>1, <2>2
  <2>3. CASE g # h /\ s # t
    <3>1. /\ producers'[g] = producers[g] /\ consumers'[g] = consumers[g]
          /\ addProducers'[g] = addProducers[g] /\ addConsumers'[g] = addConsumers[g]
          /\ removeProducers'[g] = removeProducers[g] /\ removeConsumers'[g] = removeConsumers[g]
          /\ (OverP(g, s)' <=> OverP(g, s)) /\ (OverC(g, s)' <=> OverC(g, s))
      BY <2>3 DEF OnlyLists
    <3>2. todo'[s] = todo[s]
      BY <1>0, <2>3
    <3>3. Produces(s, g)'
      BY <1>0, <1>1, <2>1, <3>1, <3>2 DEF Produces, Fit
    <3>4. Consumes(s, g)'
      BY <1>0, <1>1, <2>1, <3>1, <3>2 DEF Consumes, Fit
    <3> QED
      BY <1>0, <2>1, <3>1, <3>3, <3>4 DEF Unknown
  <2>4. CASE g # h /\ s = t
    <3>1. \A o : <<o, g>> \in Set(todo'[t]) <=> <<o, g>> \in Set(todo[t])
      BY <1>0, <2>4
    <3>2. /\ producers'[g] = producers[g] /\ consumers'[g] = consumers[g]
          /\ addProducers'[g] = addProducers[g] /\ addConsumers'[g] = addConsumers[g]
          /\ removeProducers'[g] = removeProducers[g] /\ removeConsumers'[g] = removeConsumers[g]
      BY <2>4 DEF OnlyLists
    <3>0. (OverP(g, t)' <=> OverP(g, t)) /\ (OverC(g, t)' <=> OverC(g, t))
      BY <2>4 DEF OnlyLists
    <3>3. Produces(t, g)'
      <4>1. Produces(t, g)
        BY <2>1, <2>4
      <4> QED
        BY <1>0, <1>1, <3>1, <3>2, <3>0, <4>1 DEF Produces, Fit
    <3>4. Consumes(t, g)'
      <4>1. Consumes(t, g)
        BY <2>1, <2>4
      <4> QED
        BY <1>0, <1>1, <3>1, <3>2, <3>0, <4>1 DEF Consumes, Fit
    <3> QED
      BY <1>0, <2>4, <3>3, <3>4
  <2> QED
    BY <2>2, <2>3, <2>4
<1>5. ASSUME NEW s \in Id PROVE Enough(s)'
  <2>1. Enough(s)
    BY DEF SolverInv
  <2> QED
    BY <2>1, EnoughMove
<1> QED
  BY <1>1, <1>2, <1>3, <1>4, <1>5 DEF SolverInv

\* What is left of the calls for t, and which the next one may be.
LEMMA NextCall ==
    ASSUME ControlInv, SolverInv, NEW t \in Id, todo[t] # <<>>, conf' = conf, kind' = kind,
           todo' = [todo EXCEPT ![t] = Tail(@)],
           NEW op, NEW h, op = Head(todo[t])[1], h = Head(todo[t])[2]
    PROVE  /\ t \in held /\ kind[t] # "none" /\ Adding \subseteq held
           /\ \A s \in Id : s # t => todo'[s] = todo[s]
           /\ <<op, h>> \in Set(todo[t]) /\ Set(todo'[t]) = Set(todo[t]) \ {<<op, h>>}
           /\ op # "release" => h \in Sharers
           /\ op = "release" => todo'[t] = <<>>
           /\ op # "release" /\ held' = held => CallsOf(t)' /\ Adding' = Adding
           /\ op \in {"removeConsumer", "removeProducer"} => t \notin Adding
<1>1. PICK q, r : q = todo[t] /\ r = Tail(q)
  OBVIOUS
<1>2. q \in Seq(Ops \X Nat) /\ todo \in [Id -> Seq(Ops \X Nat)]
  BY <1>1 DEF ControlInv
<1>3. /\ r \in Seq(Ops \X Nat) /\ Len(r) = Len(q) - 1 /\ Len(q) \in Nat \ {0}
      /\ Head(q) = q[1] /\ \A n \in 1..Len(r) : r[n] = q[n + 1]
  BY <1>1, <1>2
<1>4. q[1] \in Ops \X Nat /\ q[1] = <<op, h>>
  <2>1. q[1] \in Ops \X Nat
    BY <1>2, <1>3
  <2> QED
    BY <1>1, <1>3, <2>1
<1>5. todo'[t] = r /\ \A s \in Id : s # t => todo'[s] = todo[s]
  BY <1>1, <1>2
<1>6. CallsOf(t)
  BY DEF SolverInv
<1>7. NoRepeat(q) /\ t \in held /\ kind[t] # "none"
  BY <1>1, <1>6 DEF CallsOf
<1>8. Set(r) = Set(q) \ {<<op, h>>} /\ <<op, h>> \in Set(q) /\ NoRepeat(r)
  <2>1. Set(q) = ToSet(q) /\ Set(r) = ToSet(r)
    BY <1>2, <1>3, InSet
  <2>2. ToSet(r) = ToSet(q) \ {Head(q)} /\ Head(q) \in ToSet(q) /\ NoRepeat(r)
    BY <1>1, <1>2, <1>7, TailOf
  <2> QED
    BY <1>3, <1>4, <2>1, <2>2
<1>9. op # "release" => h \in Sharers
  <2>1. 1 \in 1..Len(q) /\ q[1][1] = op /\ q[1][2] = h
    BY <1>3, <1>4
  <2> QED
    BY <1>1, <1>6, <2>1 DEF CallsOf
<1>10. 1 \in 1..Len(q) /\ q[1][1] = op
  BY <1>3, <1>4
<1>11. Adds(t) => op \in {"addConsumer", "addProducer"} /\ Adds(t)'
  <2>1. ASSUME Adds(t) PROVE op \in {"addConsumer", "addProducer"} /\ Adds(t)'
    <3>1. \A n \in 1..Len(q) : q[n][1] \in {"addConsumer", "addProducer"}
      BY <1>1, <2>1 DEF Adds
    <3>2. \A n \in 1..Len(r) : r[n][1] \in {"addConsumer", "addProducer"}
      <4>1. \A n \in 1..Len(r) : n + 1 \in 1..Len(q)
        BY <1>3
      <4> QED
        BY <1>3, <3>1, <4>1
    <3> QED
      BY <1>5, <1>10, <3>1, <3>2 DEF Adds
  <2> QED
    BY <2>1
<1>12. Leaves(t) => \/ op = "release" /\ r = <<>>
                    \/ op \in {"removeConsumer", "removeProducer"} /\ Leaves(t)'
  <2>1. ASSUME Leaves(t)
        PROVE  \/ op = "release" /\ r = <<>>
               \/ op \in {"removeConsumer", "removeProducer"} /\ Leaves(t)'
    <3>1. /\ q[Len(q)] = <<"release", 0>>
          /\ \A n \in 1..(Len(q) - 1) : q[n][1] \in {"removeConsumer", "removeProducer"}
      BY <1>1, <2>1 DEF Leaves
    <3>2. CASE Len(q) = 1
      <4>1. op = "release"
        BY <1>10, <3>1, <3>2
      <4>2. r = <<>>
        BY <1>3, <3>2
      <4> QED
        BY <4>1, <4>2
    <3>3. CASE Len(q) # 1
      <4>1. 1 \in 1..(Len(q) - 1) /\ Len(r) \in Nat \ {0} /\ Len(r) + 1 = Len(q)
        BY <1>3, <3>3
      <4>2. op \in {"removeConsumer", "removeProducer"}
        BY <1>10, <3>1, <4>1
      <4>3. r # <<>> /\ r[Len(r)] = <<"release", 0>>
        BY <1>3, <3>1, <4>1
      <4>4. \A n \in 1..(Len(r) - 1) : n + 1 \in 1..(Len(q) - 1) /\ r[n] = q[n + 1]
        BY <1>3, <4>1, SMTT(40)
      <4>5. \A n \in 1..(Len(r) - 1) : r[n][1] \in {"removeConsumer", "removeProducer"}
        BY <3>1, <4>4
      <4> QED
        BY <1>5, <4>2, <4>3, <4>5 DEF Leaves
    <3> QED
      BY <3>2, <3>3
  <2> QED
    BY <2>1
<1>13. Adds(t) \/ Leaves(t)
  BY <1>6 DEF CallsOf
<1>14. Leaves(t)' => ~Adds(t)'
  <2>1. ASSUME Leaves(t)', Adds(t)' PROVE FALSE
    <3>1. r # <<>> /\ r[Len(r)] = <<"release", 0>>
      BY <1>5, <2>1 DEF Leaves
    <3>2. Len(r) \in 1..Len(r)
      BY <1>3, <3>1
    <3>3. r[Len(r)][1] \in {"addConsumer", "addProducer"}
      BY <1>5, <2>1, <3>2 DEF Adds
    <3> QED
      BY <3>1, <3>3
  <2> QED
    BY <2>1
<1>15. op = "release" => r = <<>>
  BY <1>11, <1>12, <1>13
<1>16. op \in {"removeConsumer", "removeProducer"} => t \notin Adding
  BY <1>11 DEF Adding
<1>17. ASSUME op # "release", held' = held PROVE CallsOf(t)' /\ Adding' = Adding
  <2>1. \/ Adds(t) /\ Adds(t)'
        \/ Leaves(t)' /\ ~Adds(t) /\ ~Adds(t)'
    <3>1. CASE Adds(t)
      BY <1>11, <3>1
    <3>2. CASE ~Adds(t)
      <4>1. Leaves(t)
        BY <1>13, <3>2
      <4>2. Leaves(t)'
        BY <1>12, <1>17, <4>1
      <4> QED
        BY <1>14, <3>2, <4>2
    <3> QED
      BY <3>1, <3>2
  <2>2. Sharers' = Sharers
    BY DEF Sharers
  <2>3. \A n \in 1..Len(r) : r[n][1] # "release" => r[n][2] \in Sharers
    <3>1. \A n \in 1..Len(q) : q[n][1] # "release" => q[n][2] \in Sharers
      BY <1>1, <1>6 DEF CallsOf
    <3>2. \A n \in 1..Len(r) : n + 1 \in 1..Len(q) /\ r[n] = q[n + 1]
      BY <1>3
    <3> QED
      BY <3>1, <3>2
  <2>4. CallsOf(t)'
    BY <1>5, <1>7, <1>8, <1>17, <2>1, <2>2, <2>3 DEF CallsOf
  <2>5. \A s \in Id : Adds(s)' <=> Adds(s)
    <3>1. \A s \in Id : s # t => (Adds(s)' <=> Adds(s))
      BY <1>5 DEF Adds
    <3> QED
      BY <2>1, <3>1
  <2>6. held \subseteq Id
    BY DEF ControlInv
  <2>7. Adding' = Adding
    BY <1>17, <2>5, <2>6 DEF Adding
  <2> QED
    BY <2>4, <2>7
<1> QED
  BY <1>1, <1>5, <1>7, <1>8, <1>9, <1>15, <1>16, <1>17 DEF Adding

\* A call that adds: its solver has one more reference, and one more place.
Grows(h, t, p, c, a, b, e, f) ==
    /\ p \in Seq(Id) /\ c \in Seq(Id) /\ a \in Seq(Id) /\ b \in Seq(Id) /\ e \in Seq(Id) /\ f \in Seq(Id)
    /\ p = producers[h] /\ c = consumers[h] /\ a = addProducers[h] /\ b = addConsumers[h]
    /\ p = producers'[h] /\ c = consumers'[h] /\ e = addProducers'[h] /\ f = addConsumers'[h]
    /\ pc'[h] = pc[h] /\ overtaken' = overtaken
    /\ (e = Append(a, t) /\ f = b) \/ (e = a /\ f = Append(b, t))

LEMMA OneMore ==
    ASSUME NEW h \in Sharers, NEW s \in Id, NEW t \in Id, nRefs \in [Id -> Int], held' = held,
           nRefs' = [nRefs EXCEPT ![t] = @ + 1],
           NEW p, NEW c, NEW a, NEW b, NEW e, NEW f, Grows(h, t, p, c, a, b, e, f)
    PROVE  nRefs'[s] - (IF s \in held' THEN 1 ELSE 0) - SharerRefs(h, s)'
              >= nRefs[s] - (IF s \in held THEN 1 ELSE 0) - SharerRefs(h, s)
<1>0. /\ p \in Seq(Id) /\ c \in Seq(Id) /\ a \in Seq(Id) /\ b \in Seq(Id) /\ e \in Seq(Id) /\ f \in Seq(Id)
      /\ p = producers[h] /\ c = consumers[h] /\ a = addProducers[h] /\ b = addConsumers[h]
      /\ p = producers'[h] /\ c = consumers'[h] /\ e = addProducers'[h] /\ f = addConsumers'[h]
      /\ pc'[h] = pc[h] /\ overtaken' = overtaken
      /\ (e = Append(a, t) /\ f = b) \/ (e = a /\ f = Append(b, t))
  BY DEF Grows
<1>1. PICK d : d = IF s = t THEN 1 ELSE 0
  OBVIOUS
<1>2. nRefs'[s] = nRefs[s] + d /\ nRefs[s] \in Int /\ d \in {0, 1}
  BY <1>1
<1>3. /\ Counts(SharerRefs(h, s), pc[h], p, c, a, b, s, h, overtaken) /\ SharerRefs(h, s) \in Nat
      /\ Counts(SharerRefs(h, s)', pc'[h], p, c, e, f, s, h, overtaken) /\ SharerRefs(h, s)' \in Nat
  BY <1>0, SharerRefsIs, NextSharerRefsIs
<1>4. \/ Count(e, s) = Count(a, s) + d /\ Count(f, s) = Count(b, s)
      \/ Count(e, s) = Count(a, s) /\ Count(f, s) = Count(b, s) + d
  <2>1. CASE e = Append(a, t) /\ f = b
    <3>1. Count(Append(a, t), s) = Count(a, s) + IF s = t THEN 1 ELSE 0
      BY <1>0, CountAppend, SMTT(40)
    <3> QED
      BY <1>1, <2>1, <3>1
  <2>2. CASE e = a /\ f = Append(b, t)
    <3>1. Count(Append(b, t), s) = Count(b, s) + IF s = t THEN 1 ELSE 0
      BY <1>0, CountAppend, SMTT(40)
    <3> QED
      BY <1>1, <2>2, <3>1
  <2> QED
    BY <1>0, <2>1, <2>2
<1>5. PICK k, l, m, n, o, q :
         /\ k = Count(p, s) /\ l = Count(c, s) /\ m = Count(a, s) /\ n = Count(b, s)
         /\ o = Count(e, s) /\ q = Count(f, s)
  OBVIOUS
<1>6. /\ k \in Nat /\ l \in Nat /\ m \in Nat /\ n \in Nat /\ o \in Nat /\ q \in Nat
      /\ (o = m + d /\ q = n) \/ (o = m /\ q = n + d)
  BY <1>0, <1>4, <1>5, CountOf
<1>7. PICK x, y, z, v : /\ x = nRefs[s] /\ y = (IF s \in held THEN 1 ELSE 0) /\ z = SharerRefs(h, s)
                        /\ v = SharerRefs(h, s)'
  OBVIOUS
<1>8. /\ x \in Int /\ y \in Int /\ z \in Nat /\ v \in Nat /\ nRefs'[s] = x + d
      /\ y = (IF s \in held' THEN 1 ELSE 0)
  BY <1>2, <1>3, <1>7
<1>9. v <= z + d
  <2>1. CASE pc[h] = "deleted"
    <3>1. v = 0
      BY <1>0, <1>3, <1>7, <2>1 DEF Counts, OverP, OverC
    <3> QED
      BY <1>2, <1>8, <3>1
  <2>2. CASE pc[h] # "deleted"
    <3>1. PICK x1, x2, y1, y2 :
             /\ x1 = (IF OverP(h, s) THEN 0 ELSE k + m) /\ x2 = (IF OverC(h, s) THEN 0 ELSE l + n)
             /\ y1 = (IF OverP(h, s) THEN 0 ELSE k + o) /\ y2 = (IF OverC(h, s) THEN 0 ELSE l + q)
      OBVIOUS
    <3>2. z = x1 + x2 /\ v = y1 + y2
      BY <1>0, <1>3, <1>5, <1>7, <2>2, <3>1 DEF Counts, OverP, OverC
    <3>3. /\ x1 \in Nat /\ x2 \in Nat /\ y1 \in Nat /\ y2 \in Nat
          /\ (y1 <= x1 + d /\ y2 = x2) \/ (y1 = x1 /\ y2 <= x2 + d)
      BY <1>2, <1>6, <3>1
    <3> QED
      BY <1>2, <3>2, <3>3
  <2> QED
    BY <2>1, <2>2
<1>10. (x + d) - y - v >= x - y - z
  BY <1>2, <1>8, <1>9
<1> QED
  BY <1>7, <1>8, <1>10

LEMMA SolverCallAdd ==
    ASSUME SharingAssumption, ConfigsAssumption, ControlInv, ControlInv', SolverInv,
           NEW t \in Id, todo[t] # <<>>, UNCHANGED <<conf, kind, pc, producers, consumers, overtaken>>,
           todo' = [todo EXCEPT ![t] = Tail(@)],
           NEW op, NEW h, op = Head(todo[t])[1], h = Head(todo[t])[2],
           \/ op = "addConsumer" /\ addConsumer(t, h)
           \/ op = "addProducer" /\ addProducer(t, h)
    PROVE  SolverInv'
<1>1. /\ held' = held /\ UNCHANGED <<removeProducers, removeConsumers>>
      /\ nRefs' = [nRefs EXCEPT ![t] = @ + 1]
      /\ op # "release" /\ op # "removeConsumer" /\ op # "removeProducer"
      /\ \/ op = "addConsumer" /\ addConsumers' = [addConsumers EXCEPT ![h] = Append(@, t)]
                               /\ addProducers' = addProducers
         \/ op = "addProducer" /\ addProducers' = [addProducers EXCEPT ![h] = Append(@, t)]
                               /\ addConsumers' = addConsumers
  BY ZenonT(60) DEF addConsumer, addProducer
<1>2. /\ t \in held /\ kind[t] # "none"
      /\ \A s \in Id : s # t => todo'[s] = todo[s]
      /\ Set(todo'[t]) = Set(todo[t]) \ {<<op, h>>}
      /\ h \in Sharers /\ CallsOf(t)' /\ Adding' = Adding
  BY <1>1, NextCall, ZenonT(60)
<1>3. PICK p, c, a, b, m, n, e, f :
         /\ p = producers[h] /\ c = consumers[h] /\ a = addProducers[h] /\ b = addConsumers[h]
         /\ m = removeProducers[h] /\ n = removeConsumers[h]
         /\ e = addProducers'[h] /\ f = addConsumers'[h]
  OBVIOUS
<1>4. /\ p \in Seq(Id) /\ c \in Seq(Id) /\ a \in Seq(Id) /\ b \in Seq(Id)
      /\ m \in Seq(Id) /\ n \in Seq(Id)
  BY <1>2, <1>3, ListsTyped
<1>5. Sharers' = Sharers /\ conf' = conf
  BY DEF Sharers
<1>6. e \in Seq(Id) /\ f \in Seq(Id)
  BY <1>2, <1>3, <1>5, SMTT(40) DEF ControlInv
<1>7. \/ op = "addConsumer" /\ e = a /\ f = Append(b, t)
      \/ op = "addProducer" /\ e = Append(a, t) /\ f = b
  <2>1. addConsumers \in [Sharers -> Seq(Id)] /\ addProducers \in [Sharers -> Seq(Id)]
    BY ListFunctions, ZenonT(60)
  <2>2. CASE op = "addConsumer"
    BY <1>1, <1>2, <1>3, <2>1, <2>2, ZenonT(60)
  <2>3. CASE op = "addProducer"
    BY <1>1, <1>2, <1>3, <2>1, <2>3
  <2> QED
    BY <1>1, <2>2, <2>3
<1>8. /\ p = producers'[h] /\ c = consumers'[h] /\ m = removeProducers'[h] /\ n = removeConsumers'[h]
      /\ pc'[h] = pc[h]
  BY <1>1, <1>3, ZenonT(60)
<1>9. OnlyLists(h)
  <2>1. addConsumers \in [Sharers -> Seq(Id)] /\ addProducers \in [Sharers -> Seq(Id)]
    BY ListFunctions, ZenonT(60)
  <2>2. \A g \in Sharers : g # h => addProducers'[g] = addProducers[g] /\ addConsumers'[g] = addConsumers[g]
    BY <1>1, <2>1
  <2> QED
    BY <1>1, <2>2, ZenonT(60) DEF OnlyLists, OverP, OverC
<1>10. ASSUME NEW s \in Id
       PROVE  /\ Produces(s, h)' /\ Consumes(s, h)'
              /\ s # t /\ Unknown(s, h) => Unknown(s, h)'
              /\ nRefs'[s] - (IF s \in held' THEN 1 ELSE 0) - SharerRefs(h, s)'
                    >= nRefs[s] - (IF s \in held THEN 1 ELSE 0) - SharerRefs(h, s)
  <2>1. /\ Fit(s, h, Set(todo[s]), Adding, IF conf.wkr = 4 THEN Sharers ELSE {}, "addProducer",
               "removeProducer", p, a, m, OverP(h, s))
        /\ Fit(s, h, Set(todo[s]), Adding, Sharers, "addConsumer", "removeConsumer", c, b, n, OverC(h, s))
    BY <1>2, <1>3 DEF SolverInv, Produces, Consumes
  <2>2. /\ Set(e) = IF op = "addProducer" THEN Set(a) \cup {t} ELSE Set(a)
        /\ Set(f) = IF op = "addConsumer" THEN Set(b) \cup {t} ELSE Set(b)
    <3>1. Set(Append(a, t)) = Set(a) \cup {t} /\ Set(Append(b, t)) = Set(b) \cup {t}
      BY <1>4, SetAppend
    <3> QED
      BY <1>7, <3>1
  <2>3. /\ Set(todo'[s]) \subseteq Set(todo[s])
        /\ s # t => Set(todo'[s]) = Set(todo[s])
        /\ op # "addProducer" /\ <<"addProducer", h>> \in Set(todo[s]) => <<"addProducer", h>> \in Set(todo'[s])
        /\ op # "addConsumer" /\ <<"addConsumer", h>> \in Set(todo[s]) => <<"addConsumer", h>> \in Set(todo'[s])
    <3>1. CASE s = t
      <4>1. op # "addProducer" => <<"addProducer", h>> # <<op, h>>
        OBVIOUS
      <4>2. op # "addConsumer" => <<"addConsumer", h>> # <<op, h>>
        OBVIOUS
      <4> QED
        BY <1>2, <3>1, <4>1, <4>2
    <3>2. CASE s # t
      BY <1>2, <3>2
    <3> QED
      BY <3>1, <3>2
  <2>4. /\ Fit(s, h, Set(todo'[s]), Adding, IF conf.wkr = 4 THEN Sharers ELSE {}, "addProducer",
               "removeProducer", p, e, m, OverP(h, s))
    BY <2>1, <2>2, <2>3 DEF Fit
  <2>5. Fit(s, h, Set(todo'[s]), Adding, Sharers, "addConsumer", "removeConsumer", c, f, n, OverC(h, s))
    BY <2>1, <2>2, <2>3, SMTT(40) DEF Fit
  <2>6. Produces(s, h)' /\ Consumes(s, h)'
    BY <1>2, <1>3, <1>5, <1>8, <2>4, <2>5 DEF Produces, Consumes, OverP, OverC
  <2>7. s # t /\ Unknown(s, h) => Unknown(s, h)'
    BY <1>3, <1>8, <2>2 DEF Unknown, OverP, OverC
  <2>8. nRefs \in [Id -> Int]
    BY ListFunctions, ZenonT(60)
  <2>9. nRefs'[s] - (IF s \in held' THEN 1 ELSE 0) - SharerRefs(h, s)'
                    >= nRefs[s] - (IF s \in held THEN 1 ELSE 0) - SharerRefs(h, s)
    <3>1. (e = Append(a, t) /\ f = b) \/ (e = a /\ f = Append(b, t))
      BY <1>7
    <3>2. Grows(h, t, p, c, a, b, e, f)
      BY <1>3, <1>4, <1>6, <1>8, <3>1, ZenonT(60) DEF Grows
    <3> QED
      BY <1>1, <1>2, <2>8, <3>2, OneMore
  <2> QED
    BY <2>6, <2>7, <2>9
<1>11. MadeCall(t, op, h)
  BY <1>1, <1>2 DEF MadeCall
<1> QED
  BY <1>2, <1>9, <1>10, <1>11, SolverCalled, SMTT(40)

LEMMA SolverCallRemove ==
    ASSUME SharingAssumption, ConfigsAssumption, ControlInv, ControlInv', SolverInv,
           NEW t \in Id, todo[t] # <<>>, UNCHANGED <<conf, kind, pc, producers, consumers, overtaken>>,
           todo' = [todo EXCEPT ![t] = Tail(@)],
           NEW op, NEW h, op = Head(todo[t])[1], h = Head(todo[t])[2],
           \/ op = "removeConsumer" /\ removeConsumer(t, h)
           \/ op = "removeProducer" /\ removeProducer(t, h)
    PROVE  SolverInv'
<1>1. /\ held' = held /\ nRefs' = nRefs /\ UNCHANGED <<addProducers, addConsumers>>
      /\ op # "release" /\ op # "addConsumer" /\ op # "addProducer"
      /\ op \in {"removeConsumer", "removeProducer"}
      /\ \/ op = "removeConsumer" /\ removeConsumers' = [removeConsumers EXCEPT ![h] = Append(@, t)]
                                  /\ removeProducers' = removeProducers
         \/ op = "removeProducer" /\ removeProducers' = [removeProducers EXCEPT ![h] = Append(@, t)]
                                  /\ removeConsumers' = removeConsumers
  BY DEF removeConsumer, removeProducer
<1>2. /\ t \in held /\ kind[t] # "none" /\ t \notin Adding
      /\ \A s \in Id : s # t => todo'[s] = todo[s]
      /\ <<op, h>> \in Set(todo[t]) /\ Set(todo'[t]) = Set(todo[t]) \ {<<op, h>>}
      /\ h \in Sharers /\ CallsOf(t)' /\ Adding' = Adding
  BY <1>1, NextCall, ZenonT(60)
<1>3. PICK p, c, a, b, m, n, e, f :
         /\ p = producers[h] /\ c = consumers[h] /\ a = addProducers[h] /\ b = addConsumers[h]
         /\ m = removeProducers[h] /\ n = removeConsumers[h]
         /\ e = removeProducers'[h] /\ f = removeConsumers'[h]
  OBVIOUS
<1>4. /\ p \in Seq(Id) /\ c \in Seq(Id) /\ a \in Seq(Id) /\ b \in Seq(Id)
      /\ m \in Seq(Id) /\ n \in Seq(Id)
  BY <1>2, <1>3, ListsTyped
<1>5. Sharers' = Sharers /\ conf' = conf
  BY DEF Sharers
<1>6. /\ removeConsumers \in [Sharers -> Seq(Id)] /\ removeProducers \in [Sharers -> Seq(Id)]
  BY ListFunctions, ZenonT(60)
<1>7. \/ op = "removeConsumer" /\ e = m /\ f = Append(n, t)
      \/ op = "removeProducer" /\ e = Append(m, t) /\ f = n
  <2>1. CASE op = "removeConsumer"
    BY <1>1, <1>2, <1>3, <1>6, <2>1, ZenonT(60)
  <2>2. CASE op = "removeProducer"
    BY <1>1, <1>2, <1>3, <1>6, <2>2
  <2> QED
    BY <1>1, <2>1, <2>2, ZenonT(60)
<1>8. /\ p = producers'[h] /\ c = consumers'[h] /\ a = addProducers'[h] /\ b = addConsumers'[h]
      /\ pc'[h] = pc[h]
  BY <1>1, <1>3, ZenonT(60)
<1>9. OnlyLists(h)
  <2>1. \A g \in Sharers : g # h => /\ removeProducers'[g] = removeProducers[g]
                                    /\ removeConsumers'[g] = removeConsumers[g]
    BY <1>1, <1>6, ZenonT(60)
  <2> QED
    BY <1>1, <2>1, ZenonT(60) DEF OnlyLists, OverP, OverC
<1>10. MadeCall(t, op, h)
  BY <1>1, <1>2 DEF MadeCall
<1>11. ASSUME NEW s \in Id
       PROVE  /\ Produces(s, h)' /\ Consumes(s, h)'
              /\ s # t /\ Unknown(s, h) => Unknown(s, h)'
              /\ nRefs'[s] - (IF s \in held' THEN 1 ELSE 0) - SharerRefs(h, s)'
                    >= nRefs[s] - (IF s \in held THEN 1 ELSE 0) - SharerRefs(h, s)
  <2>1. /\ Fit(s, h, Set(todo[s]), Adding, IF conf.wkr = 4 THEN Sharers ELSE {}, "addProducer",
               "removeProducer", p, a, m, OverP(h, s))
        /\ Fit(s, h, Set(todo[s]), Adding, Sharers, "addConsumer", "removeConsumer", c, b, n, OverC(h, s))
    BY <1>2, <1>3, SMTT(40) DEF SolverInv, Produces, Consumes
  <2>2. /\ Set(e) = IF op = "removeProducer" THEN Set(m) \cup {t} ELSE Set(m)
        /\ Set(f) = IF op = "removeConsumer" THEN Set(n) \cup {t} ELSE Set(n)
        /\ Count(e, s) = IF op = "removeProducer" /\ s = t THEN Count(m, s) + 1 ELSE Count(m, s)
        /\ Count(f, s) = IF op = "removeConsumer" /\ s = t THEN Count(n, s) + 1 ELSE Count(n, s)
    <3>1. Set(Append(m, t)) = Set(m) \cup {t} /\ Set(Append(n, t)) = Set(n) \cup {t}
      BY <1>4, SetAppend
    <3>2. /\ Count(Append(m, t), s) = Count(m, s) + IF s = t THEN 1 ELSE 0
          /\ Count(Append(n, t), s) = Count(n, s) + IF s = t THEN 1 ELSE 0
      BY <1>4, CountAppend
    <3>3. Count(m, s) \in Nat /\ Count(n, s) \in Nat
      BY <1>4, CountOf
    <3>4. CASE op = "removeConsumer"
      <4>1. e = m /\ f = Append(n, t)
        BY <1>7, <3>4
      <4>2. Set(e) = Set(m) /\ Set(f) = Set(n) \cup {t} /\ Count(e, s) = Count(m, s)
        BY <3>1, <4>1
      <4>3. Count(f, s) = IF s = t THEN Count(n, s) + 1 ELSE Count(n, s)
        BY <3>2, <3>3, <4>1
      <4> QED
        BY <3>4, <4>2, <4>3
    <3>5. CASE op = "removeProducer"
      <4>1. e = Append(m, t) /\ f = n
        BY <1>7, <3>5
      <4>2. Set(e) = Set(m) \cup {t} /\ Set(f) = Set(n) /\ Count(f, s) = Count(n, s)
        BY <3>1, <4>1
      <4>3. Count(e, s) = IF s = t THEN Count(m, s) + 1 ELSE Count(m, s)
        BY <3>2, <3>3, <4>1
      <4> QED
        BY <3>5, <4>2, <4>3
    <3> QED
      BY <1>1, <3>4, <3>5
  <2>3. /\ Set(todo'[s]) \subseteq Set(todo[s])
        /\ s # t => Set(todo'[s]) = Set(todo[s])
        /\ s = t => <<op, h>> \notin Set(todo'[s]) /\ <<op, h>> \in Set(todo[s])
    <3>1. CASE s = t
      BY <1>2, <3>1
    <3>2. CASE s # t
      BY <1>2, <3>2
    <3> QED
      BY <3>1, <3>2
  <2>4. s = t => s \notin Adding
    BY <1>2
  <2>5. s # t => \A o : <<o, h>> \in Set(todo'[s]) <=> <<o, h>> \in Set(todo[s])
    BY <2>3
  <2>6. /\ Count(m, s) \in Nat /\ (Count(m, s) > 0 <=> s \in Set(m))
        /\ Count(n, s) \in Nat /\ (Count(n, s) > 0 <=> s \in Set(n))
    BY <1>4, CountOf
  <2>7. Fit(s, h, Set(todo'[s]), Adding, IF conf.wkr = 4 THEN Sharers ELSE {}, "addProducer",
            "removeProducer", p, a, e, OverP(h, s))
    <3>1. CASE s # t
      BY <2>1, <2>2, <2>5, <3>1 DEF Fit
    <3>2. CASE s = t /\ op = "removeProducer"
      <4>1. (s \in Set(p) \/ s \in Set(a)) /\ s \notin Set(m) /\ ~OverP(h, s)
        BY <2>1, <2>3, <3>2 DEF Fit
      <4>2. Count(e, s) <= 1
        BY <2>2, <2>6, <3>2, <4>1
      <4> QED
        BY <2>3, <2>4, <3>2, <4>1, <4>2 DEF Fit
    <3>3. CASE s = t /\ op # "removeProducer"
      BY <2>1, <2>2, <2>3, <2>4, <3>3 DEF Fit
    <3> QED
      BY <3>1, <3>2, <3>3
  <2>8. Fit(s, h, Set(todo'[s]), Adding, Sharers, "addConsumer", "removeConsumer", c, b, f, OverC(h, s))
    <3>1. CASE s # t
      BY <2>1, <2>2, <2>5, <3>1 DEF Fit
    <3>2. CASE s = t /\ op = "removeConsumer"
      <4>1. (s \in Set(c) \/ s \in Set(b)) /\ s \notin Set(n) /\ ~OverC(h, s)
        BY <2>1, <2>3, <3>2 DEF Fit
      <4>2. Count(f, s) <= 1
        BY <2>2, <2>6, <3>2, <4>1
      <4> QED
        BY <2>3, <2>4, <3>2, <4>1, <4>2 DEF Fit
    <3>3. CASE s = t /\ op # "removeConsumer"
      <4>1. Set(f) = Set(n) /\ Count(f, s) = Count(n, s)
        BY <2>2, <3>3
      <4>2. /\ Set(todo'[s]) \subseteq Set(todo[s]) /\ s \notin Adding
        BY <2>3, <2>4, <3>3
      <4> QED
        BY <2>1, <4>1, <4>2 DEF Fit
    <3> QED
      BY <3>1, <3>2, <3>3
  <2>9. Produces(s, h)' /\ Consumes(s, h)'
    BY <1>2, <1>3, <1>5, <1>8, <2>7, <2>8 DEF Produces, Consumes, OverP, OverC
  <2>10. s # t /\ Unknown(s, h) => Unknown(s, h)'
    BY <1>3, <1>8, <2>2 DEF Unknown, OverP, OverC
  <2>11. SharerRefs(h, s)' = SharerRefs(h, s)
    BY <1>3, <1>8 DEF SharerRefs, OverP, OverC
  <2>12. SharerRefs(h, s) \in Nat
    BY <1>2, <1>3, <1>4, SharerRefsIs
  <2>13. PICK x, y, z : /\ x = nRefs[s] /\ y = (IF s \in held THEN 1 ELSE 0) /\ z = SharerRefs(h, s)
    OBVIOUS
  <2>14. x \in Int /\ y \in Int /\ z \in Int
    BY <2>12, <2>13 DEF ControlInv
  <2>15. /\ x = nRefs'[s] /\ y = (IF s \in held' THEN 1 ELSE 0) /\ z = SharerRefs(h, s)'
    BY <1>1, <2>11, <2>13
  <2>16. x - y - z >= x - y - z
    BY <2>14
  <2> QED
    BY <2>9, <2>10, <2>13, <2>15, <2>16
<1> QED
  BY <1>2, <1>9, <1>10, <1>11, SolverCalled, SMTT(40)

\* The sum of the references is a number.
LEMMA RefSumOf ==
    ASSUME Setting, ControlInv, NEW s \in Id
    PROVE  RefSum(s) \in Nat
<1>1. ASSUME NEW h \in Sharers PROVE SharerRefs(h, s) \in Nat
  <2>1. PICK p, c, a, b : /\ p = producers[h] /\ c = consumers[h]
                          /\ a = addProducers[h] /\ b = addConsumers[h]
    OBVIOUS
  <2>2. p \in Seq(Id) /\ c \in Seq(Id) /\ a \in Seq(Id) /\ b \in Seq(Id)
    BY <2>1, ListsTyped
  <2> QED
    BY <2>1, <2>2, SharerRefsIs
<1>2. PICK n, f : n = Len(SharersOf(conf)) /\ f = [h \in Sharers |-> SharerRefs(h, s)]
  OBVIOUS
<1>3. n \in Nat /\ Sharers = 1..n
  BY <1>2 DEF Setting
<1>4. \A k \in 1..n : f[k] \in Nat
  BY <1>1, <1>2, <1>3
<1>5. Total(f, n) \in Nat
  BY <1>3, <1>4, TotalNat
<1> QED
  BY <1>2, <1>5 DEF RefSum

\* A worker lets its solver go.
LEMMA SolverGone ==
    ASSUME SharingAssumption, ConfigsAssumption, ControlInv, SolverInv,
           NEW t \in Id, UNCHANGED <<conf, kind, pc, listVars, overtaken>>, t \in held,
           held' = held \ {t}, release(<<t>>), todo'[t] = <<>>,
           \A s \in Id : s # t => todo'[s] = todo[s]
    PROVE  SolverInv'
<1>1. Setting
  BY SettingIs DEF ControlInv
<1>3. \A s \in Id : nRefs[s] \in Int /\ nRefs'[s] = nRefs[s] - IF s = t THEN 1 ELSE 0
  <2>1. PICK q : q = <<t>>
    OBVIOUS
  <2>2. q \in Seq(Id) /\ release(q) /\ nRefs \in [Id -> Int]
    BY <2>1 DEF ControlInv
  <2>3. \A s \in Id : nRefs'[s] = nRefs[s] - Count(q, s)
    BY <2>2, ReleaseTyped
  <2> QED
    BY <2>1, <2>2, <2>3, CountNone
<1>4. Sharers' = Sharers
  BY DEF Sharers
<1>5. kind[t] # "none"
  BY DEF SolverInv, CallsOf
<1>6. CallsOf(t)'
  <2>1. Adds(t)'
    BY DEF Adds
  <2>2. NoRepeat(todo'[t])
    BY DEF NoRepeat
  <2> QED
    BY <1>4, <1>5, <2>1, <2>2 DEF CallsOf
<1>7. Enough(t)'
  <2>1. nRefs[t] >= 1 + RefSum(t)
    BY DEF SolverInv, Enough
  <2>2. RefSum(t)' = RefSum(t)
    BY RefSumSame
  <2>3. t \notin held' /\ nRefs'[t] = nRefs[t] - 1
    BY <1>3
  <2>4. RefSum(t) \in Nat
    BY <1>1, RefSumOf
  <2>5. PICK x, y : x = nRefs[t] /\ y = RefSum(t)
    OBVIOUS
  <2>6. x - 1 >= 0 + y
    BY <1>3, <2>1, <2>4, <2>5
  <2> QED
    BY <2>2, <2>3, <2>5, <2>6 DEF Enough
<1>8. ASSUME NEW h \in Sharers PROVE Produces(t, h)' /\ Consumes(t, h)'
  <2>1. Produces(t, h) /\ Consumes(t, h) /\ t \notin Adding' /\ Set(todo'[t]) = {}
    BY DEF SolverInv, Adding, Set
  <2> QED
    BY <1>4, <2>1 DEF Produces, Consumes, Fit, listVars, OverP, OverC
<1>9. \A s \in Id : s # t => nRefs'[s] = nRefs[s] /\ (s \in held' <=> s \in held)
  BY <1>3
<1> QED
  BY <1>1, <1>5, <1>6, <1>7, <1>8, <1>9, SolverTurn

LEMMA SolverCall ==
    ASSUME SharingAssumption, ConfigsAssumption, ControlInv, ControlInv', SolverInv,
           NEW t \in Id, Call(t)
    PROVE  SolverInv'
<1>1. PICK op, h : op = Head(todo[t])[1] /\ h = Head(todo[t])[2]
  OBVIOUS
<1>2. /\ todo[t] # <<>> /\ UNCHANGED <<conf, kind, pc, producers, consumers, overtaken>>
      /\ todo' = [todo EXCEPT ![t] = Tail(@)]
  BY DEF Call, history
<1>3. CASE \/ op = "addConsumer" /\ addConsumer(t, h)
           \/ op = "addProducer" /\ addProducer(t, h)
  BY <1>1, <1>2, <1>3, SolverCallAdd
<1>4. CASE \/ op = "removeConsumer" /\ removeConsumer(t, h)
           \/ op = "removeProducer" /\ removeProducer(t, h)
  BY <1>1, <1>2, <1>4, SolverCallRemove
<1>5. CASE /\ op = "release" /\ release(<<t>>) /\ held' = held \ {t}
           /\ UNCHANGED <<addProducers, addConsumers, removeProducers, removeConsumers>>
  <2>1. /\ t \in held /\ todo'[t] = <<>>
        /\ \A s \in Id : s # t => todo'[s] = todo[s]
    BY <1>1, <1>2, <1>5, NextCall
  <2>2. UNCHANGED <<conf, kind, pc, listVars, overtaken>>
    BY <1>2, <1>5 DEF listVars
  <2> QED
    BY <1>5, <2>1, <2>2, SolverGone
<1> QED
  BY <1>1, <1>3, <1>4, <1>5 DEF Call

LEMMA SolverStepIs ==
    ASSUME SharingAssumption, ConfigsAssumption, ControlInv, SolverInv, Next
    PROVE  SolverInv'
<1>1. ControlInv'
  BY ControlStep
<1>2. pc \in [Sharers -> Phases]
  BY DEF ControlInv
<1>3. ASSUME UNCHANGED <<conf, kind, nRefs, held, todo, listVars, overtaken>>,
             NEW h \in Sharers, NEW x, x # "deleted", pc[h] # "deleted",
             pc' = [pc EXCEPT ![h] = x] \/ pc' = pc
      PROVE  SolverInv'
  <2>1. \A g \in Sharers : pc'[g] = "deleted" <=> pc[g] = "deleted"
    BY <1>2, <1>3
  <2> QED
    BY <1>3, <2>1, SolverSame DEF SameSolvers
<1>4. ASSUME NEW h \in Sharers, Wake(h) PROVE SolverInv'
  BY <1>1, <1>4, SolverWake
<1>5. ASSUME NEW h \in Sharers, CollectSimple(h) PROVE SolverInv'
  <2>1. /\ UNCHANGED <<conf, kind, nRefs, held, todo, listVars, overtaken>>
        /\ pc[h] = "collect" /\ pc' = [pc EXCEPT ![h] = "send"]
    BY <1>5 DEF CollectSimple, solverVars, history
  <2> QED
    BY <1>3, <2>1
<1>6. ASSUME NEW h \in Sharers, CollectHorde(h) PROVE SolverInv'
  <2>1. /\ UNCHANGED <<conf, kind, nRefs, held, todo, listVars, overtaken>>
        /\ pc[h] = "collect" /\ pc' = [pc EXCEPT ![h] = "send"]
    BY <1>6 DEF CollectHorde, history
  <2> QED
    BY <1>3, <2>1
<1>7. ASSUME NEW h \in Sharers, CountRefs(h) PROVE SolverInv'
  <2>1. /\ UNCHANGED <<conf, kind, nRefs, held, todo, listVars, overtaken>>
        /\ pc[h] = "send" /\ (pc' = [pc EXCEPT ![h] = "put"] \/ pc' = pc)
    BY <1>7 DEF CountRefs, solverVars, history
  <2> QED
    BY <1>3, <2>1
<1>8. ASSUME NEW h \in Sharers, Put(h) PROVE SolverInv'
  <2>1. /\ UNCHANGED <<conf, kind, nRefs, held, todo, listVars, overtaken>>
        /\ pc[h] = "put" /\ pc' = [pc EXCEPT ![h] = "send"]
    BY <1>8 DEF Put, solverVars, history
  <2> QED
    BY <1>3, <2>1
<1>9. ASSUME NEW h \in Sharers, ReleaseOwn(h) PROVE SolverInv'
  <2>1. /\ UNCHANGED <<conf, kind, nRefs, held, todo, listVars, overtaken>>
        /\ pc[h] = "send" /\ pc' = [pc EXCEPT ![h] = "collect"]
    BY <1>9 DEF ReleaseOwn, solverVars, history
  <2> QED
    BY <1>3, <2>1
<1>10. ASSUME NEW h \in Sharers, RemoveSolvers(h) PROVE SolverInv'
  BY <1>1, <1>10, SolverRemove
<1>11. ASSUME NEW h \in Sharers, DeleteSharer(h) PROVE SolverInv'
  BY <1>1, <1>11, SolverDelete
<1>12. ASSUME UNCHANGED <<conf, solverVars, pc, listVars, overtaken>> PROVE SolverInv'
  BY <1>12, SolverSame DEF SameSolvers, solverVars
<1>13. ASSUME NEW s \in Id, NEW z \in 1..MaxSize, Export(s, z) PROVE SolverInv'
  BY <1>12, <1>13 DEF Export, history
<1>14. ASSUME NEW s \in Id, Import(s) PROVE SolverInv'
  BY <1>12, <1>14 DEF Import, history
<1>15. ASSUME NEW s \in Id, cloneSolver(s) PROVE SolverInv'
  BY <1>15, SolverClone
<1>16. ASSUME NEW s \in Id, GiveUp(s) PROVE SolverInv'
  BY <1>16, SolverGiveUp
<1>17. ASSUME NEW s \in Id, Call(s) PROVE SolverInv'
  BY <1>1, <1>17, SolverCall
<1>18. ASSUME NEW s \in Id, DeleteWorker(s) PROVE SolverInv'
  <2>1. /\ UNCHANGED <<conf, kind, pc, listVars, overtaken>> /\ s \in held /\ held' = held \ {s}
        /\ release(<<s>>) /\ todo'[s] = <<>> /\ \A t \in Id : t # s => todo'[t] = todo[t]
    BY <1>18 DEF DeleteWorker, Runs, history
  <2> QED
    BY <2>1, SolverGone
<1>19. ASSUME End PROVE SolverInv'
  BY <1>12, <1>19 DEF End, history
<1>20. ASSUME NEW h \in Sharers, UseDeleted(h) PROVE SolverInv'
  BY <1>12, <1>20 DEF UseDeleted
<1> QED
  BY <1>4, <1>5, <1>6, <1>7, <1>8, <1>9, <1>10, <1>11, <1>13, <1>14, <1>15, <1>16, <1>17, <1>18, <1>19,
     <1>20
     DEF Next, SharerStep, SolverStep

LEMMA SolverInit ==
    ASSUME SharingAssumption, ConfigsAssumption, Init
    PROVE  SolverInv
<1>1. PICK c \in Configs : conf = c
  BY DEF Init
<1>2. Setting /\ ControlInv
  BY <1>1, SettingIs, ControlInit
<1>3. Sharers = DOMAIN SharersOf(c)
  BY <1>1 DEF Sharers
<1>4. /\ kind = [s \in Id |-> IF s <= Len(c.solvers) THEN c.solvers[s] ELSE "none"]
      /\ nRefs = [s \in Id |->
            IF s > Len(c.solvers) THEN 0
            ELSE 1 + Total([h \in Sharers |-> Count(SharersOf(c)[h].from, s) + Count(SharersOf(c)[h].to, s)],
                           Len(SharersOf(c)))]
      /\ held = 1..Len(c.solvers)
      /\ todo = [s \in Id |-> <<>>]
      /\ pc = [h \in Sharers |-> "sleep"]
      /\ producers = [h \in Sharers |-> SharersOf(c)[h].from]
      /\ consumers = [h \in Sharers |-> SharersOf(c)[h].to]
      /\ addProducers = [h \in Sharers |-> <<>>] /\ addConsumers = [h \in Sharers |-> <<>>]
      /\ removeProducers = [h \in Sharers |-> <<>>] /\ removeConsumers = [h \in Sharers |-> <<>>]
      /\ overtaken = {}
  <2> HIDE DEF Sharers
  <2> QED
    BY <1>1, <1>3 DEF Init
<1>5. /\ Len(c.solvers) \in Nat
      /\ \A s \in 1..Len(c.solvers) : s \in Id /\ c.solvers[s] \in Kind
      /\ \A h \in Sharers : SharerOf(SharersOf(c)[h], Len(c.solvers), c.wkr = 4)
      /\ Len(SharersOf(c)) \in Nat /\ Sharers = 1..Len(SharersOf(c))
  BY <1>1, <1>2 DEF Setting
<1>6. \A s \in 1..Len(c.solvers) : kind[s] # "none" /\ s \in held
  <2>1. ASSUME NEW s \in 1..Len(c.solvers) PROVE kind[s] # "none" /\ s \in held
    <3>1. s \in Id /\ c.solvers[s] \in Kind /\ s <= Len(c.solvers)
      BY <1>5
    <3>2. kind[s] = c.solvers[s]
      BY <1>4, <3>1
    <3> QED
      BY <1>4, <3>1, <3>2 DEF Kind
  <2> QED
    BY <2>1
<1>7. ASSUME NEW s \in Id PROVE CallsOf(s)
  <2>1. todo[s] = <<>>
    BY <1>4
  <2>2. Adds(s) /\ NoRepeat(todo[s])
    BY <2>1 DEF Adds, NoRepeat
  <2>3. s \in held => kind[s] # "none"
    BY <1>4, <1>6
  <2> QED
    BY <2>1, <2>2, <2>3 DEF CallsOf
<1>8. ASSUME NEW h \in Sharers
      PROVE  /\ producers[h] = SharersOf(c)[h].from /\ consumers[h] = SharersOf(c)[h].to
             /\ addProducers[h] = <<>> /\ addConsumers[h] = <<>>
             /\ removeProducers[h] = <<>> /\ removeConsumers[h] = <<>> /\ pc[h] = "sleep"
             /\ Set(addProducers[h]) = {} /\ Set(addConsumers[h]) = {}
             /\ Set(removeProducers[h]) = {} /\ Set(removeConsumers[h]) = {}
             /\ Set(consumers[h]) = 1..Len(c.solvers) /\ Set(producers[h]) \subseteq 1..Len(c.solvers)
             /\ c.wkr = 4 => Set(producers[h]) = 1..Len(c.solvers)
             /\ producers[h] \in Seq(Id) /\ consumers[h] \in Seq(Id)
  <2>1. /\ producers[h] = SharersOf(c)[h].from /\ consumers[h] = SharersOf(c)[h].to
        /\ addProducers[h] = <<>> /\ addConsumers[h] = <<>>
        /\ removeProducers[h] = <<>> /\ removeConsumers[h] = <<>> /\ pc[h] = "sleep"
    BY <1>4
  <2>2. Set(<<>>) = {}
    BY DEF Set
  <2>3. /\ Set(SharersOf(c)[h].to) = 1..Len(c.solvers) /\ Set(SharersOf(c)[h].from) \subseteq 1..Len(c.solvers)
        /\ c.wkr = 4 => Set(SharersOf(c)[h].from) = 1..Len(c.solvers)
        /\ SharersOf(c)[h].to \in Seq(Id) /\ SharersOf(c)[h].from \in Seq(Id)
    BY <1>5 DEF SharerOf
  <2> QED
    BY <2>1, <2>2, <2>3
<1>9. ASSUME NEW s \in Id, NEW h \in Sharers
      PROVE  /\ kind[s] = "none" => Unknown(s, h)
             /\ Produces(s, h) /\ Consumes(s, h)
  <2>1. kind[s] = "none" => s \notin 1..Len(c.solvers)
    BY <1>6
  <2>2. Count(removeProducers[h], s) = 0 /\ Count(removeConsumers[h], s) = 0
    BY <1>8, CountNone
  <2>3. Set(todo[s]) = {}
    BY <1>4 DEF Set
  <2>4. s \in Adding => s \in 1..Len(c.solvers)
    BY <1>4 DEF Adding
  <2>5. kind[s] = "none" => Unknown(s, h)
    BY <1>4, <1>8, <2>1 DEF Unknown, OverP, OverC
  <2>6. PICK p, d, a, b, m, n :
           /\ p = producers[h] /\ d = consumers[h] /\ a = addProducers[h] /\ b = addConsumers[h]
           /\ m = removeProducers[h] /\ n = removeConsumers[h]
    OBVIOUS
  <2>7. /\ Set(m) = {} /\ Set(n) = {} /\ Count(m, s) = 0 /\ Count(n, s) = 0
        /\ Set(d) = 1..Len(c.solvers) /\ (c.wkr = 4 => Set(p) = 1..Len(c.solvers))
        /\ ~OverP(h, s) /\ ~OverC(h, s)
    BY <1>4, <1>8, <2>2, <2>6 DEF OverP, OverC
  <2>8. Fit(s, h, {}, Adding, Sharers, "addConsumer", "removeConsumer", d, b, n, OverC(h, s))
    BY <2>4, <2>7 DEF Fit
  <2>9. Fit(s, h, {}, Adding, IF c.wkr = 4 THEN Sharers ELSE {}, "addProducer", "removeProducer", p, a, m, OverP(h, s))
    <3>1. CASE c.wkr = 4
      BY <2>4, <2>7, <3>1 DEF Fit
    <3>2. CASE c.wkr # 4
      BY <2>4, <2>7, <3>2 DEF Fit
    <3> QED
      BY <3>1, <3>2
  <2>10. Produces(s, h)
    BY <1>1, <2>3, <2>6, <2>9 DEF Produces
  <2>11. Consumes(s, h)
    BY <1>1, <2>3, <2>6, <2>8 DEF Consumes
  <2> QED
    BY <2>5, <2>10, <2>11
<1>10. ASSUME NEW s \in Id PROVE Enough(s)
  <2>1. PICK n, f, g : /\ n = Len(SharersOf(c)) /\ f = [h \in Sharers |-> SharerRefs(h, s)]
                       /\ g = [h \in Sharers |-> Count(SharersOf(c)[h].from, s) + Count(SharersOf(c)[h].to, s)]
    OBVIOUS
  <2>2. n \in Nat /\ Sharers = 1..n
    BY <1>5, <2>1
  <2>3. ASSUME NEW k \in 1..n
        PROVE  f[k] \in Int /\ f[k] = g[k] /\ (s \notin 1..Len(c.solvers) => f[k] = 0)
    <3>1. PICK p, d, e : p = producers[k] /\ d = consumers[k] /\ e = <<>>
      OBVIOUS
    <3>2. k \in Sharers
      BY <2>2
    <3>3. p \in Seq(Id) /\ d \in Seq(Id) /\ e \in Seq(Id) /\ e = addProducers[k] /\ e = addConsumers[k]
      BY <1>8, <3>1, <3>2
    <3>4. Counts(SharerRefs(k, s), pc[k], p, d, e, e, s, k, overtaken) /\ SharerRefs(k, s) \in Nat
      BY <3>1, <3>2, <3>3, SharerRefsIs
    <3>5. /\ Count(p, s) \in Nat /\ (Count(p, s) > 0 <=> s \in Set(p))
          /\ Count(d, s) \in Nat /\ (Count(d, s) > 0 <=> s \in Set(d)) /\ Count(e, s) = 0
      BY <3>1, <3>3, CountOf, CountNone
    <3>6. SharerRefs(k, s) = Count(p, s) + Count(d, s)
      BY <1>4, <1>8, <3>2, <3>4, <3>5 DEF Counts, OverP, OverC
    <3>7. g[k] = Count(p, s) + Count(d, s)
      BY <1>8, <2>1, <3>1, <3>2
    <3>8. Set(p) \subseteq 1..Len(c.solvers) /\ Set(d) \subseteq 1..Len(c.solvers)
      BY <1>8, <3>1, <3>2
    <3>9. f[k] = SharerRefs(k, s)
      BY <2>1, <3>2
    <3> QED
      BY <3>4, <3>5, <3>6, <3>7, <3>8, <3>9
  <2>4. RefSum(s) = Total(f, n)
    BY <1>1, <2>1 DEF RefSum
  <2>5. CASE s \in 1..Len(c.solvers)
    <3>1. nRefs[s] = 1 + Total(g, n)
      BY <1>4, <1>5, <2>1, <2>5
    <3>2. Total(f, n) = Total(g, n)
      BY <2>2, <2>3, TotalSame
    <3>3. s \in held
      BY <1>6, <2>5
    <3>4. Total(f, n) \in Int
      <4>1. \A k \in 0..n : Total(f, k) \in Int
        BY <2>2, <2>3, TotalStep
      <4> QED
        BY <2>2, <4>1
    <3> QED
      BY <2>4, <3>1, <3>2, <3>3, <3>4 DEF Enough
  <2>6. CASE s \notin 1..Len(c.solvers)
    <3>1. s > Len(c.solvers)
      BY <1>5, <2>6 DEF Id
    <3>2. nRefs[s] = 0
      BY <1>4, <3>1
    <3>3. Total(f, n) = 0
      BY <2>2, <2>3, <2>6, TotalZero
    <3>4. s \notin held
      BY <1>4, <2>6
    <3> QED
      BY <2>4, <3>2, <3>3, <3>4 DEF Enough
  <2> QED
    BY <2>5, <2>6
<1> QED
  BY <1>1, <1>6, <1>7, <1>9, <1>10 DEF SolverInv

\* A deleted solver that a sharer still has in its vectors has been overtaken.
LEMMA UsedIsOvertaken ==
    ASSUME Setting, ControlInv, SolverInv, NEW h \in Sharers, pc[h] # "deleted",
           NEW s \in DeletedSolvers, s \in Set(producers[h]) \cup Set(consumers[h])
    PROVE  overtaken # {}
<1>1. s \in Id /\ nRefs[s] = 0
  BY DEF DeletedSolvers
<1>2. ASSUME NEW g \in Sharers PROVE SharerRefs(g, s) \in Nat
  <2>1. PICK p, c, a, b : /\ p = producers[g] /\ c = consumers[g]
                          /\ a = addProducers[g] /\ b = addConsumers[g]
    OBVIOUS
  <2>2. p \in Seq(Id) /\ c \in Seq(Id) /\ a \in Seq(Id) /\ b \in Seq(Id)
    BY <2>1, ListsTyped
  <2> QED
    BY <2>1, <2>2, SharerRefsIs
<1>3. SharerRefs(h, s) = 0
  <2>1. PICK n, f : n = Len(SharersOf(conf)) /\ f = [g \in Sharers |-> SharerRefs(g, s)]
    OBVIOUS
  <2>2. n \in Nat /\ Sharers = 1..n
    BY <2>1 DEF Setting
  <2>3. \A k \in 1..n : f[k] \in Nat
    BY <1>2, <2>1, <2>2
  <2>4. Total(f, n) \in Nat /\ f[h] <= Total(f, n)
    BY <2>2, <2>3, TotalNat
  <2>5. 0 >= (IF s \in held THEN 1 ELSE 0) + Total(f, n)
    BY <1>1, <2>1 DEF SolverInv, Enough, RefSum
  <2>6. Total(f, n) = 0
    BY <2>4, <2>5
  <2>7. f[h] \in Nat /\ f[h] = SharerRefs(h, s)
    BY <1>2, <2>1
  <2> QED
    BY <2>4, <2>6, <2>7
<1>4. PICK p, c, a, b : /\ p = producers[h] /\ c = consumers[h]
                        /\ a = addProducers[h] /\ b = addConsumers[h]
  OBVIOUS
<1>5. p \in Seq(Id) /\ c \in Seq(Id) /\ a \in Seq(Id) /\ b \in Seq(Id)
  BY <1>4, ListsTyped
<1>6. Counts(SharerRefs(h, s), pc[h], p, c, a, b, s, h, overtaken)
  BY <1>4, <1>5, SharerRefsIs
<1>7. /\ Count(p, s) \in Nat /\ Count(c, s) \in Nat /\ Count(a, s) \in Nat /\ Count(b, s) \in Nat
      /\ Count(p, s) > 0 \/ Count(c, s) > 0
  BY <1>4, <1>5, CountOf
<1>8. OverP(h, s) \/ OverC(h, s)
  BY <1>3, <1>6, <1>7 DEF Counts, OverP, OverC
<1> QED
  BY <1>8 DEF OverP, OverC

LEMMA HistoryStep ==
    ASSUME SharingAssumption, ConfigsAssumption, ControlInv, MemoryInv, SolverInv, HistoryInv, Next
    PROVE  HistoryInv'
<1>0. Setting
  BY SettingIs DEF ControlInv
<1>1. conf' = conf /\ Sharers' = Sharers
  BY DEF Next, SharerStep, SolverStep, UseDeleted, Wake, CollectSimple, CollectHorde, CountRefs, Put,
         ReleaseOwn, RemoveSolvers, DeleteSharer, Export, Import, cloneSolver, GiveUp, Call, DeleteWorker,
         End, Sharers
<1>2. ASSUME UNCHANGED history PROVE HistoryInv'
  BY <1>1, <1>2 DEF history, HistoryInv
<1>3. ASSUME NEW h \in Sharers, UseDeleted(h) PROVE HistoryInv'
  <2>1. overtaken' = overtaken /\ dangling' = TRUE
    BY <1>3 DEF UseDeleted
  <2>2. PICK s \in DeletedSolvers : s \in Set(producers[h]) \cup Set(consumers[h])
    <3>1. /\ pc[h] \in {"send", "put"} => i[h] <= Len(producers[h])
          /\ pc[h] = "put" => j[h] <= Len(consumers[h])
      BY DEF MemoryInv, Round
    <3>2. producers[h] \in Seq(Id) /\ consumers[h] \in Seq(Id) /\ i[h] \in Nat \ {0} /\ j[h] \in Nat \ {0}
      BY DEF ControlInv
    <3>3. /\ i[h] <= Len(producers[h]) => producers[h][i[h]] \in Set(producers[h])
          /\ j[h] <= Len(consumers[h]) => consumers[h][j[h]] \in Set(consumers[h])
      <4>1. PICK p, c, k, l : p = producers[h] /\ c = consumers[h] /\ k = i[h] /\ l = j[h]
        OBVIOUS
      <4>2. (k <= Len(p) => k \in 1..Len(p)) /\ (l <= Len(c) => l \in 1..Len(c))
        BY <3>2, <4>1
      <4>3. p \in Seq(Id) /\ c \in Seq(Id)
        BY <3>2, <4>1
      <4>4. (\A n \in 1..Len(p) : p[n] \in Set(p)) /\ (\A n \in 1..Len(c) : c[n] \in Set(c))
        BY <4>3, InSet
      <4> QED
        BY <4>1, <4>2, <4>4
    <3> QED
      BY <1>3, <3>1, <3>3 DEF UseDeleted
  <2>3. pc[h] # "deleted"
    BY <1>3 DEF UseDeleted
  <2>4. overtaken # {}
    BY <1>0, <2>2, <2>3, UsedIsOvertaken
  <2> QED
    BY <1>1, <2>1, <2>4 DEF HistoryInv
<1>4. ASSUME NEW h \in Sharers, RemoveSolvers(h) PROVE HistoryInv'
  <2>1. overtaken' = overtaken \cup Overtaken(h) /\ dangling' = dangling
    BY <1>4 DEF RemoveSolvers
  <2>2. Set(removeProducers[h]) \subseteq Id /\ Set(removeConsumers[h]) \subseteq Id
    BY ListsTyped, CountOf
  <2>3. Overtaken(h) \subseteq {"producer", "consumer"} \X Sharers \X Id
    BY <2>2 DEF Overtaken
  <2> QED
    BY <1>1, <2>1, <2>3 DEF HistoryInv
<1>5. ASSUME NEW h \in Sharers,
             \/ Wake(h) \/ CollectSimple(h) \/ CollectHorde(h) \/ CountRefs(h) \/ Put(h)
             \/ ReleaseOwn(h) \/ DeleteSharer(h)
      PROVE  UNCHANGED history
  BY <1>5 DEF Wake, CollectSimple, CollectHorde, CountRefs, Put, ReleaseOwn, DeleteSharer
<1>6. ASSUME NEW s \in Id, SolverStep(s) \/ cloneSolver(s) \/ GiveUp(s) \/ Call(s) \/ DeleteWorker(s)
      PROVE  UNCHANGED history
  BY <1>6 DEF SolverStep, Export, Import, cloneSolver, GiveUp, Call, DeleteWorker
<1>7. ASSUME End PROVE UNCHANGED history
  BY <1>7 DEF End
<1> QED
  BY <1>2, <1>3, <1>4, <1>5, <1>6, <1>7 DEF Next, SharerStep

-----------------------------------------------------------------------------
(* The references of clauses *)

Queues == [Id -> Seq(Addr)]

\* TotalChange, as a relation of sums.
Changes(f, g, n, m) == Total(g, n) = Total(f, n) + g[m] - f[m]

LEMMA TotalChanges ==
    ASSUME NEW n \in Nat, NEW f, NEW g, NEW m \in 1..n,
           \A k \in 1..n : f[k] \in Int /\ g[k] \in Int /\ (k # m => f[k] = g[k])
    PROVE  Changes(f, g, n, m)
  BY TotalChange DEF Changes

\* The places of a clause in the queues.
LEMMA QueueSumOf ==
    ASSUME SharingAssumption, NEW e \in Queues, NEW u \in Queues, NEW c \in Queues, NEW a
    PROVE  /\ QueueSum(e, u, c, a) \in Nat
           /\ \A s \in Id : /\ QueueTerm(e, u, c, s, a) \in Nat
                            /\ QueueTerm(e, u, c, s, a) <= QueueSum(e, u, c, a)
                            /\ Count(e[s], a) \in Nat /\ Count(u[s], a) \in Nat /\ Count(c[s], a) \in Nat
<1>1. MaxId \in Nat /\ Id = 1..MaxId
  BY DEF SharingAssumption, Id
<1>2. ASSUME NEW s \in Id
      PROVE  /\ Count(e[s], a) \in Nat /\ Count(u[s], a) \in Nat /\ Count(c[s], a) \in Nat
             /\ QueueTerm(e, u, c, s, a) \in Nat
  <2>1. e[s] \in Seq(Addr) /\ u[s] \in Seq(Addr) /\ c[s] \in Seq(Addr)
    BY DEF Queues
  <2>2. Count(e[s], a) \in Nat /\ Count(u[s], a) \in Nat /\ Count(c[s], a) \in Nat
    BY <2>1, CountOf
  <2> QED
    BY <2>2 DEF QueueTerm
<1>3. PICK f : f = [s \in Id |-> QueueTerm(e, u, c, s, a)]
  OBVIOUS
<1>4. \A k \in 1..MaxId : f[k] \in Nat /\ f[k] = QueueTerm(e, u, c, k, a)
  BY <1>1, <1>2, <1>3
<1>5. Total(f, MaxId) \in Nat /\ \A k \in 1..MaxId : f[k] <= Total(f, MaxId)
  BY <1>1, <1>4, TotalNat
<1> QED
  BY <1>1, <1>2, <1>3, <1>4, <1>5 DEF QueueSum

\* The queues of solver t become what they are in f, v and d.
QueueMoves(e, u, c, f, v, d, t) ==
    \A a : QueueSum(f, v, d, a) = QueueSum(e, u, c, a) + QueueTerm(f, v, d, t, a) - QueueTerm(e, u, c, t, a)

LEMMA QueueMove ==
    ASSUME SharingAssumption, NEW e \in Queues, NEW u \in Queues, NEW c \in Queues,
           NEW f \in Queues, NEW v \in Queues, NEW d \in Queues, NEW t \in Id,
           \A s \in Id : s # t => f[s] = e[s] /\ v[s] = u[s] /\ d[s] = c[s]
    PROVE  QueueMoves(e, u, c, f, v, d, t)
<1>1. ASSUME NEW a
      PROVE  QueueSum(f, v, d, a) = QueueSum(e, u, c, a) + QueueTerm(f, v, d, t, a) - QueueTerm(e, u, c, t, a)
  <2>1. MaxId \in Nat /\ Id = 1..MaxId
    BY DEF SharingAssumption, Id
  <2>2. PICK x, y : /\ x = [s \in Id |-> QueueTerm(e, u, c, s, a)]
                    /\ y = [s \in Id |-> QueueTerm(f, v, d, s, a)]
    OBVIOUS
  <2>3. QueueSum(e, u, c, a) = Total(x, MaxId) /\ QueueSum(f, v, d, a) = Total(y, MaxId)
    BY <2>2 DEF QueueSum
  <2>4. \A k \in 1..MaxId : x[k] \in Int /\ y[k] \in Int
    <3>1. \A k \in Id : /\ QueueTerm(e, u, c, k, a) \in Nat
                         /\ QueueTerm(f, v, d, k, a) \in Nat
      BY QueueSumOf
    <3> QED
      BY <2>1, <2>2, <3>1
  <2>5. \A k \in 1..MaxId : k # t => x[k] = y[k]
    BY <2>1, <2>2 DEF QueueTerm
  <2>6. t \in 1..MaxId /\ x[t] = QueueTerm(e, u, c, t, a) /\ y[t] = QueueTerm(f, v, d, t, a)
    BY <2>1, <2>2
  <2>7. Total(y, MaxId) = Total(x, MaxId) + y[t] - x[t]
    <3>1. \A k \in 1..MaxId : x[k] \in Int /\ y[k] \in Int /\ (k # t => x[k] = y[k])
      BY <2>4, <2>5
    <3>2. Changes(x, y, MaxId, t)
      BY <2>1, <2>6, <3>1, TotalChanges
    <3> QED
      BY <3>2 DEF Changes
  <2> QED
    BY <2>3, <2>6, <2>7
<1> QED
  BY <1>1 DEF QueueMoves

\* The places of a clause with the sharers; n is their number.
Holdings(n, q, d) == n \in Nat /\ q \in [1..n -> Seq(Addr)] /\ d \in [1..n -> DB]

LEMMA SharerSumOf ==
    ASSUME SharingAssumption, NEW n, NEW p, NEW q, NEW d, Holdings(n, q, d), NEW a
    PROVE  /\ SharerSum(p, q, d, n, a) \in Nat
           /\ \A h \in 1..n : /\ SharerTerm(p, q, d, h, a) \in Nat
                              /\ SharerTerm(p, q, d, h, a) <= SharerSum(p, q, d, n, a)
                              /\ Count(q[h], a) \in Nat /\ DbCount(d[h], a) \in Nat
<1>1. n \in Nat /\ q \in [1..n -> Seq(Addr)] /\ d \in [1..n -> DB]
  BY DEF Holdings
<1>2. ASSUME NEW h \in 1..n
      PROVE  SharerTerm(p, q, d, h, a) \in Nat /\ Count(q[h], a) \in Nat /\ DbCount(d[h], a) \in Nat
  <2>1. q[h] \in Seq(Addr) /\ d[h] \in DB
    BY <1>1
  <2>2. Count(q[h], a) \in Nat /\ DbCount(d[h], a) \in Nat
    BY <2>1, CountOf, DbCountOf
  <2> QED
    BY <2>2 DEF SharerTerm
<1>3. PICK f : f = [h \in 1..n |-> SharerTerm(p, q, d, h, a)]
  OBVIOUS
<1>4. \A k \in 1..n : f[k] \in Nat /\ f[k] = SharerTerm(p, q, d, k, a)
  BY <1>2, <1>3
<1>5. Total(f, n) \in Nat /\ \A k \in 1..n : f[k] <= Total(f, n)
  BY <1>1, <1>4, TotalNat
<1> QED
  BY <1>2, <1>3, <1>4, <1>5 DEF SharerSum

\* What sharer h has becomes what it has in q, r and e.
SharerMoves(n, o, p, d, q, r, e, h) ==
    \A a : SharerSum(q, r, e, n, a) = SharerSum(o, p, d, n, a) + SharerTerm(q, r, e, h, a) - SharerTerm(o, p, d, h, a)

LEMMA SharerMove ==
    ASSUME SharingAssumption, NEW n, NEW o, NEW p, NEW d, NEW q, NEW r, NEW e,
           Holdings(n, p, d), Holdings(n, r, e), NEW h \in 1..n,
           \A g \in 1..n : g # h => (q[g] = "put" <=> o[g] = "put") /\ r[g] = p[g] /\ e[g] = d[g]
    PROVE  SharerMoves(n, o, p, d, q, r, e, h)
<1>1. ASSUME NEW a
      PROVE  SharerSum(q, r, e, n, a) = SharerSum(o, p, d, n, a) + SharerTerm(q, r, e, h, a) - SharerTerm(o, p, d, h, a)
  <2>1. n \in Nat
    BY DEF Holdings
  <2>2. PICK x, y : /\ x = [g \in 1..n |-> SharerTerm(o, p, d, g, a)]
                    /\ y = [g \in 1..n |-> SharerTerm(q, r, e, g, a)]
    OBVIOUS
  <2>3. SharerSum(o, p, d, n, a) = Total(x, n) /\ SharerSum(q, r, e, n, a) = Total(y, n)
    BY <2>2 DEF SharerSum
  <2>4. \A k \in 1..n : x[k] \in Int /\ y[k] \in Int
    <3>1. \A k \in 1..n : SharerTerm(o, p, d, k, a) \in Nat /\ SharerTerm(q, r, e, k, a) \in Nat
      BY SharerSumOf
    <3> QED
      BY <2>2, <3>1
  <2>5. \A k \in 1..n : k # h => x[k] = y[k]
    BY <2>2 DEF SharerTerm
  <2>6. x[h] = SharerTerm(o, p, d, h, a) /\ y[h] = SharerTerm(q, r, e, h, a)
    BY <2>2
  <2>7. Total(y, n) = Total(x, n) + y[h] - x[h]
    <3>1. \A k \in 1..n : x[k] \in Int /\ y[k] \in Int /\ (k # h => x[k] = y[k])
      BY <2>4, <2>5
    <3>2. Changes(x, y, n, h)
      BY <2>1, <3>1, TotalChanges
    <3> QED
      BY <3>2 DEF Changes
  <2> QED
    BY <2>3, <2>6, <2>7
<1> QED
  BY <1>1 DEF SharerMoves

\* The sharers have the same.
LEMMA SharerSame ==
    ASSUME NEW n, NEW o, NEW q, NEW p, NEW d, \A g \in 1..n : q[g] = "put" <=> o[g] = "put", NEW a
    PROVE  SharerSum(q, p, d, n, a) = SharerSum(o, p, d, n, a)
<1>1. \A g \in 1..n : SharerTerm(q, p, d, g, a) = SharerTerm(o, p, d, g, a)
  BY DEF SharerTerm
<1>2. [g \in 1..n |-> SharerTerm(q, p, d, g, a)] = [g \in 1..n |-> SharerTerm(o, p, d, g, a)]
  BY <1>1
<1> QED
  BY <1>2 DEF SharerSum

\* All the places of a clause, now and after a step.
InQueues(a) == QueueSum(clausesToExport, unitsToImport, clausesToImport, a)
InSharers(a) == SharerSum(pc, tmp, database, Len(SharersOf(conf)), a)

LEMMA PlacesAre ==
    ASSUME Setting, NEW a
    PROVE  Places(a) = InQueues(a) + InSharers(a)
<1>1. [s \in Id |-> QueueTerm(clausesToExport, unitsToImport, clausesToImport, s, a)]
        = [s \in Id |-> Count(clausesToExport[s], a) + Count(unitsToImport[s], a)
                           + Count(clausesToImport[s], a)]
  BY DEF QueueTerm
<1>2. [h \in 1..Len(SharersOf(conf)) |-> SharerTerm(pc, tmp, database, h, a)]
        = [h \in Sharers |-> (IF pc[h] = "put" THEN 2 ELSE 1) * Count(tmp[h], a)
                    + Total([z \in 1..MaxSize |-> Count(database[h][z], a)], MaxSize)]
  BY DEF SharerTerm, DbCount, Setting
<1> QED
  BY <1>1, <1>2 DEF Places, InQueues, InSharers, QueueSum, SharerSum

LEMMA NextPlacesAre ==
    ASSUME Setting, conf' = conf, NEW a
    PROVE  Places(a)' = InQueues(a)' + InSharers(a)'
<1>0. Sharers' = 1..Len(SharersOf(conf))
  BY DEF Setting, Sharers
<1>1. [s \in Id |-> QueueTerm(clausesToExport, unitsToImport, clausesToImport, s, a)]'
        = [s \in Id |-> Count(clausesToExport[s], a) + Count(unitsToImport[s], a)
                           + Count(clausesToImport[s], a)]'
  BY DEF QueueTerm
<1>2. [h \in 1..Len(SharersOf(conf)) |-> SharerTerm(pc, tmp, database, h, a)]'
        = [h \in Sharers |-> (IF pc[h] = "put" THEN 2 ELSE 1) * Count(tmp[h], a)
                    + Total([z \in 1..MaxSize |-> Count(database[h][z], a)], MaxSize)]'
  BY <1>0 DEF SharerTerm, DbCount
<1> QED
  BY <1>1, <1>2 DEF Places, InQueues, InSharers, QueueSum, SharerSum

\* What MemoryInv says of the sums.
LEMMA SumsOf ==
    ASSUME SharingAssumption, Setting, MemoryInv
    PROVE  /\ clausesToExport \in Queues /\ unitsToImport \in Queues /\ clausesToImport \in Queues
           /\ Holdings(Len(SharersOf(conf)), tmp, database) /\ Sharers = 1..Len(SharersOf(conf))
           /\ \A a : InQueues(a) \in Nat /\ InSharers(a) \in Nat
           /\ \A a \in Addr : InQueues(a) + InSharers(a) = Live(heap[a])
<1>1. clausesToExport \in Queues /\ unitsToImport \in Queues /\ clausesToImport \in Queues
  BY DEF MemoryInv, Queues
<1>2. Holdings(Len(SharersOf(conf)), tmp, database) /\ Sharers = 1..Len(SharersOf(conf))
  BY DEF MemoryInv, Holdings, Setting
<1>3. \A a : InQueues(a) \in Nat /\ InSharers(a) \in Nat
  BY <1>1, <1>2, QueueSumOf, SharerSumOf DEF InQueues, InSharers
<1>4. ASSUME NEW a \in Addr PROVE InQueues(a) + InSharers(a) = Live(heap[a])
  <2>1. Places(a) = InQueues(a) + InSharers(a)
    BY PlacesAre
  <2>2. Places(a) = Live(heap[a])
    BY DEF MemoryInv, RefsAreCounted, Live
  <2> QED
    BY <2>1, <2>2
<1> QED
  BY <1>1, <1>2, <1>3, <1>4

\* A clause that is somewhere is in memory, with a reference for every place.
LEMMA QueuedIsLive ==
    ASSUME SharingAssumption, Setting, MemoryInv, NEW s \in Id, NEW a \in Addr
    PROVE  /\ Count(clausesToExport[s], a) \in Nat /\ Count(unitsToImport[s], a) \in Nat
           /\ Count(clausesToImport[s], a) \in Nat
           /\ Count(clausesToExport[s], a) <= Live(heap[a]) /\ Count(unitsToImport[s], a) <= Live(heap[a])
           /\ Count(clausesToImport[s], a) <= Live(heap[a])
<1>1. /\ clausesToExport \in Queues /\ unitsToImport \in Queues /\ clausesToImport \in Queues
      /\ InQueues(a) \in Nat /\ InSharers(a) \in Nat /\ InQueues(a) + InSharers(a) = Live(heap[a])
  BY SumsOf
<1>2. PICK x, y, z, t, u, v :
         /\ x = Count(clausesToExport[s], a) /\ y = Count(unitsToImport[s], a)
         /\ z = Count(clausesToImport[s], a) /\ u = InQueues(a) /\ v = InSharers(a)
         /\ t = QueueTerm(clausesToExport, unitsToImport, clausesToImport, s, a)
  OBVIOUS
<1>3. x \in Nat /\ y \in Nat /\ z \in Nat /\ t \in Nat /\ t <= u
  BY <1>1, <1>2, QueueSumOf DEF InQueues
<1>4. t = x + y + z
  BY <1>2 DEF QueueTerm
<1>5. u \in Nat /\ v \in Nat /\ Live(heap[a]) = u + v
  BY <1>1, <1>2
<1>6. x <= u + v /\ y <= u + v /\ z <= u + v
  BY <1>3, <1>4, <1>5
<1> QED
  BY <1>2, <1>3, <1>5, <1>6

LEMMA KeptIsLive ==
    ASSUME SharingAssumption, Setting, MemoryInv, NEW h \in Sharers, NEW a \in Addr
    PROVE  /\ Count(tmp[h], a) \in Nat /\ DbCount(database[h], a) \in Nat
           /\ Count(tmp[h], a) <= Live(heap[a])
           /\ DbCount(database[h], a) <= Live(heap[a])
<1>1. /\ Holdings(Len(SharersOf(conf)), tmp, database) /\ h \in 1..Len(SharersOf(conf))
      /\ InQueues(a) \in Nat /\ InSharers(a) \in Nat /\ InQueues(a) + InSharers(a) = Live(heap[a])
  BY SumsOf
<1>2. PICK x, y, t, u, v :
         /\ x = Count(tmp[h], a) /\ y = DbCount(database[h], a) /\ u = InQueues(a) /\ v = InSharers(a)
         /\ t = SharerTerm(pc, tmp, database, h, a)
  OBVIOUS
<1>3. x \in Nat /\ y \in Nat /\ t \in Nat /\ t <= v
  BY <1>1, <1>2, SharerSumOf DEF InSharers
<1>4. t = 2 * x + y \/ t = 1 * x + y
  BY <1>2 DEF SharerTerm
<1>5. u \in Nat /\ v \in Nat /\ Live(heap[a]) = u + v
  BY <1>1, <1>2
<1>6. x <= u + v /\ y <= u + v
  BY <1>3, <1>4, <1>5
<1> QED
  BY <1>2, <1>3, <1>5, <1>6

\* The cell of a clause to which there is a reference.
LEMMA LiveIsCell ==
    ASSUME heap \in Memory, NEW a \in Addr, NEW n \in Nat, n > 0, n <= Live(heap[a])
    PROVE  heap[a] \in Cell /\ heap[a] # NoClause
<1>1. heap[a] \in Cell \cup {NoClause}
  BY DEF Memory
<1>2. CASE heap[a] = NoClause
  <2>1. Live(heap[a]) = 0
    BY <1>2 DEF Live
  <2> QED
    BY <2>1
<1> QED
  BY <1>1, <1>2

LEMMA UsedIsCell ==
    ASSUME SharingAssumption, Setting, MemoryInv
    PROVE  /\ \A s \in Id : \A a \in Set(clausesToExport[s]) : a \in Addr /\ heap[a] \in Cell /\ heap[a] # NoClause
           /\ \A s \in Id : \A a \in Set(unitsToImport[s]) : a \in Addr /\ heap[a] \in Cell /\ heap[a] # NoClause
           /\ \A s \in Id : \A a \in Set(clausesToImport[s]) : a \in Addr /\ heap[a] \in Cell /\ heap[a] # NoClause
           /\ \A h \in Sharers : \A a \in Set(tmp[h]) : a \in Addr /\ heap[a] \in Cell /\ heap[a] # NoClause
           /\ \A h \in Sharers : \A z \in 1..MaxSize : \A a \in Set(database[h][z]) :
                 a \in Addr /\ heap[a] \in Cell /\ heap[a] # NoClause /\ heap[a].size = z
<1>0. heap \in Memory
  BY DEF MemoryInv
<1>1. ASSUME NEW s \in Id, NEW q \in {clausesToExport[s], unitsToImport[s], clausesToImport[s]}, NEW a \in Set(q)
      PROVE  a \in Addr /\ heap[a] \in Cell /\ heap[a] # NoClause
  <2>1. q \in Seq(Addr)
    BY <1>1 DEF MemoryInv
  <2>2. a \in Addr /\ Count(q, a) \in Nat /\ Count(q, a) > 0
    BY <2>1, CountOf
  <2>3. Count(q, a) <= Live(heap[a])
    BY <2>2, QueuedIsLive
  <2> QED
    BY <1>0, <2>2, <2>3, LiveIsCell
<1>2. ASSUME NEW h \in Sharers, NEW a \in Set(tmp[h])
      PROVE  a \in Addr /\ heap[a] \in Cell /\ heap[a] # NoClause
  <2>1. tmp[h] \in Seq(Addr)
    BY DEF MemoryInv
  <2>2. a \in Addr /\ Count(tmp[h], a) \in Nat /\ Count(tmp[h], a) > 0
    BY <2>1, CountOf
  <2>3. Count(tmp[h], a) <= Live(heap[a])
    BY <2>2, KeptIsLive
  <2> QED
    BY <1>0, <2>2, <2>3, LiveIsCell
<1>3. ASSUME NEW h \in Sharers, NEW z \in 1..MaxSize, NEW a \in Set(database[h][z])
      PROVE  a \in Addr /\ heap[a] \in Cell /\ heap[a] # NoClause /\ heap[a].size = z
  <2>1. database[h] \in DB /\ Filed(database[h])
    BY DEF MemoryInv
  <2>2. database[h][z] \in Seq(Addr)
    BY <2>1 DEF DB
  <2>3. a \in Addr
    BY <2>2, CountOf
  <2>4. heap[a] \in Cell /\ heap[a].size = z
    BY <2>1 DEF Filed
  <2> QED
    BY <2>3, <2>4, CellIsNot
<1> QED
  BY <1>1, <1>2, <1>3

\* A step keeps MemoryInv when it counts every reference that it makes or takes; a
\* clause in a database is filed under its size.
LEMMA MemoryNext ==
    ASSUME SharingAssumption, Setting, MemoryInv, conf' = conf, heap' \in Memory,
           clausesToExport' \in Queues, unitsToImport' \in Queues, clausesToImport' \in Queues,
           tmp' \in [Sharers -> Seq(Addr)], database' \in [Sharers -> DB],
           \A h \in Sharers : Round(h)',
           \A h \in Sharers : \A z \in 1..MaxSize : \A a \in Set(database'[h][z]) :
              heap'[a] # NoClause => heap'[a].size = z,
           \A a \in Addr : InQueues(a)' + InSharers(a)' - InQueues(a) - InSharers(a)
                              = Live(heap'[a]) - Live(heap[a])
    PROVE  MemoryInv'
<1>1. Sharers' = Sharers /\ Sharers = 1..Len(SharersOf(conf))
  BY DEF Setting, Sharers
<1>2. Holdings(Len(SharersOf(conf)), tmp', database')
  BY <1>1 DEF Holdings, Setting
<1>3. \A a : InQueues(a)' \in Nat /\ InSharers(a)' \in Nat
  BY <1>2, QueueSumOf, SharerSumOf DEF InQueues, InSharers
<1>4. ASSUME NEW a \in Addr
      PROVE  Places(a)' = Live(heap'[a]) /\ InQueues(a)' + InSharers(a)' = Live(heap'[a])
  <2>1. InQueues(a) \in Nat /\ InSharers(a) \in Nat /\ InQueues(a) + InSharers(a) = Live(heap[a])
    BY SumsOf
  <2>2. Live(heap'[a]) \in Int
    <3>1. heap'[a] \in Cell \cup {NoClause}
      BY DEF Memory
    <3> QED
      BY <3>1 DEF Live, Cell
  <2>3. PICK k, l, m, n, o, p : /\ k = InQueues(a)' /\ l = InSharers(a)' /\ m = InQueues(a) /\ n = InSharers(a)
                                /\ o = Live(heap'[a]) /\ p = Live(heap[a])
    OBVIOUS
  <2>4. /\ k \in Nat /\ l \in Nat /\ m \in Nat /\ n \in Nat /\ o \in Int /\ p = m + n
        /\ k + l - m - n = o - p
    BY <1>3, <2>1, <2>2, <2>3
  <2>5. k + l = o
    BY <2>4
  <2>6. Places(a)' = InQueues(a)' + InSharers(a)'
    BY NextPlacesAre
  <2> QED
    BY <2>3, <2>5, <2>6
<1>5. RefsAreCounted'
  BY <1>4 DEF RefsAreCounted, Live
<1>6. ASSUME NEW h \in Sharers PROVE Filed(database[h])'
  <2>1. ASSUME NEW z \in 1..MaxSize, NEW a \in Set(database'[h][z])
        PROVE  heap'[a] \in Cell /\ heap'[a].size = z
    <3>1. database'[h] \in DB
      OBVIOUS
    <3>2. database'[h][z] \in Seq(Addr)
      BY <3>1 DEF DB
    <3>3. a \in Addr /\ Count(database'[h][z], a) \in Nat /\ Count(database'[h][z], a) > 0
      BY <3>2, CountOf
    <3>4. PICK x, y, t, u, v :
             /\ x = Count(tmp'[h], a) /\ y = DbCount(database'[h], a) /\ u = InQueues(a)' /\ v = InSharers(a)'
             /\ t = SharerTerm(pc', tmp', database', h, a)
      OBVIOUS
    <3>5. x \in Nat /\ y \in Nat /\ t \in Nat /\ t <= v
      <4>1. v = SharerSum(pc', tmp', database', Len(SharersOf(conf)), a)
        BY <3>4 DEF InSharers
      <4> QED
        BY <1>1, <1>2, <3>4, <4>1, SharerSumOf, SMTT(40)
    <3>6. t = 2 * x + y \/ t = 1 * x + y
      BY <3>4 DEF SharerTerm
    <3>7. Count(database'[h][z], a) <= y
      BY <3>1, <3>4, DbCountOf
    <3>8. u \in Nat /\ v \in Nat /\ u + v = Live(heap'[a])
      BY <1>3, <1>4, <3>3, <3>4
    <3>9. Live(heap'[a]) > 0
      BY <3>3, <3>5, <3>6, <3>7, <3>8
    <3>10. heap'[a] # NoClause
      BY <3>9 DEF Live
    <3>11. heap'[a] \in Cell
      BY <3>3, <3>10 DEF Memory
    <3> QED
      BY <3>10, <3>11
  <2> QED
    BY <2>1 DEF Filed
<1> QED
  BY <1>1, <1>5, <1>6 DEF MemoryInv, Queues

\* A round that goes on as it was.
SameRound(g) ==
    /\ pc'[g] = pc[g] /\ tmp'[g] = tmp[g] /\ i'[g] = i[g] /\ j'[g] = j[g]
    /\ producers'[g] = producers[g] /\ consumers'[g] = consumers[g]

LEMMA RoundKept ==
    ASSUME MemoryInv, NEW g \in Sharers, SameRound(g)
    PROVE  Round(g)'
  BY DEF MemoryInv, Round, SameRound

\* In the queues, with the sharers: how many more places than before.
QueuesMove(s) ==
    \A a : InQueues(a)' = InQueues(a)
              + QueueTerm(clausesToExport', unitsToImport', clausesToImport', s, a)
              - QueueTerm(clausesToExport, unitsToImport, clausesToImport, s, a)

LEMMA QueuesMoveIs ==
    ASSUME SharingAssumption, Setting, MemoryInv, NEW s \in Id,
           clausesToExport' \in Queues, unitsToImport' \in Queues, clausesToImport' \in Queues,
           \A t \in Id : t # s => /\ clausesToExport'[t] = clausesToExport[t]
                                  /\ unitsToImport'[t] = unitsToImport[t]
                                  /\ clausesToImport'[t] = clausesToImport[t]
    PROVE  QueuesMove(s)
<1>1. clausesToExport \in Queues /\ unitsToImport \in Queues /\ clausesToImport \in Queues
  BY SumsOf
<1>2. QueueMoves(clausesToExport, unitsToImport, clausesToImport,
                 clausesToExport', unitsToImport', clausesToImport', s)
  BY <1>1, QueueMove
<1> QED
  BY <1>2 DEF QueueMoves, QueuesMove, InQueues

SharersMove(h) ==
    \A a : InSharers(a)' = InSharers(a)
              + SharerTerm(pc', tmp', database', h, a) - SharerTerm(pc, tmp, database, h, a)

LEMMA SharersMoveIs ==
    ASSUME SharingAssumption, Setting, MemoryInv, conf' = conf, NEW h \in Sharers,
           tmp' \in [Sharers -> Seq(Addr)], database' \in [Sharers -> DB],
           \A g \in Sharers : g # h => /\ pc'[g] = pc[g] /\ tmp'[g] = tmp[g]
                                       /\ database'[g] = database[g]
    PROVE  SharersMove(h)
<1>1. Holdings(Len(SharersOf(conf)), tmp, database) /\ Sharers = 1..Len(SharersOf(conf))
  BY SumsOf
<1>2. Holdings(Len(SharersOf(conf)), tmp', database')
  BY <1>1 DEF Holdings
<1>3. SharerMoves(Len(SharersOf(conf)), pc, tmp, database, pc', tmp', database', h)
  BY <1>1, <1>2, SharerMove
<1> QED
  BY <1>3 DEF SharerMoves, SharersMove, InSharers

\* No clause becomes another.
HeapStays ==
    \A a \in Addr : heap'[a] # NoClause =>
       heap[a] # NoClause /\ heap'[a].size = heap[a].size /\ heap'[a].from = heap[a].from

\* A step on the queues of one solver and on what one sharer has.
LEMMA MemoryMove ==
    ASSUME SharingAssumption, Setting, MemoryInv, conf' = conf, NEW s \in Id, NEW h \in Sharers,
           NEW delta, Becomes(heap', delta), QueuesMove(s), SharersMove(h),
           clausesToExport' \in Queues, unitsToImport' \in Queues, clausesToImport' \in Queues,
           tmp' \in [Sharers -> Seq(Addr)], database' \in [Sharers -> DB],
           \A g \in Sharers : g # h => database'[g] = database[g] /\ SameRound(g),
           Round(h)',
           \A z \in 1..MaxSize : Set(database'[h][z]) \subseteq {a \in Addr : heap[a] \in Cell /\ heap[a].size = z},
           \A a \in Addr :
              delta[a] = QueueTerm(clausesToExport', unitsToImport', clausesToImport', s, a)
                            - QueueTerm(clausesToExport, unitsToImport, clausesToImport, s, a)
                            + SharerTerm(pc', tmp', database', h, a) - SharerTerm(pc, tmp, database, h, a)
    PROVE  MemoryInv' /\ HeapStays
<1>0. /\ clausesToExport \in Queues /\ unitsToImport \in Queues /\ clausesToImport \in Queues
      /\ Holdings(Len(SharersOf(conf)), tmp, database) /\ Sharers = 1..Len(SharersOf(conf))
      /\ \A a : InQueues(a) \in Nat /\ InSharers(a) \in Nat
      /\ \A a \in Addr : InQueues(a) + InSharers(a) = Live(heap[a])
  BY SumsOf
<1>1. \A g \in Sharers : Round(g)'
  BY RoundKept
<1>2. Holdings(Len(SharersOf(conf)), tmp', database')
  BY <1>0 DEF Holdings
<1>3. ASSUME NEW a \in Addr
      PROVE  InQueues(a)' + InSharers(a)' - InQueues(a) - InSharers(a) = Live(heap'[a]) - Live(heap[a])
  <2>1. PICK k, l, m, n, o, p, q, r, t, u :
            /\ k = InQueues(a)' /\ l = InSharers(a)' /\ m = InQueues(a) /\ n = InSharers(a)
            /\ o = Live(heap'[a]) /\ p = Live(heap[a])
            /\ q = QueueTerm(clausesToExport', unitsToImport', clausesToImport', s, a)
            /\ r = QueueTerm(clausesToExport, unitsToImport, clausesToImport, s, a)
            /\ t = SharerTerm(pc', tmp', database', h, a)
            /\ u = SharerTerm(pc, tmp, database, h, a)
    OBVIOUS
  <2>2. k = m + q - r
    BY <2>1 DEF QueuesMove
  <2>3. l = n + t - u
    BY <2>1 DEF SharersMove
  <2>4. q \in Nat /\ r \in Nat
    BY <1>0, <2>1, QueueSumOf
  <2>5. t \in Nat /\ u \in Nat
    BY <1>0, <1>2, <2>1, SharerSumOf
  <2>6. o = p + (q - r + t - u)
    BY <2>1 DEF Becomes
  <2>7. m \in Nat /\ n \in Nat /\ p = m + n
    BY <1>0, <2>1
  <2>8. k + l - m - n = o - p
    BY <2>2, <2>3, <2>4, <2>5, <2>6, <2>7
  <2> QED
    BY <2>1, <2>8
<1>4. heap' \in Memory
  BY DEF Becomes
<1>5. ASSUME NEW g \in Sharers, NEW z \in 1..MaxSize, NEW a \in Set(database'[g][z]), heap'[a] # NoClause
      PROVE  heap'[a].size = z
  <2>1. a \in Addr /\ heap[a] \in Cell /\ heap[a].size = z
    <3>1. CASE g = h
      BY <1>5, <3>1
    <3>2. CASE g # h
      BY <1>5, <3>2, UsedIsCell, SMTT(40)
    <3> QED
      BY <3>1, <3>2
  <2> QED
    BY <1>5, <2>1 DEF Becomes
<1> QED
  <2>1. HeapStays
    BY DEF HeapStays, Becomes
  <2> QED
    BY <2>1, <1>1, <1>3, <1>4, <1>5, MemoryNext

\* A step on the queues of one solver.
LEMMA MemoryQueue ==
    ASSUME SharingAssumption, Setting, MemoryInv, conf' = conf, NEW s \in Id,
           NEW g, NEW delta, Becomes(g, delta), heap' = g, QueuesMove(s),
           clausesToExport' \in Queues, unitsToImport' \in Queues, clausesToImport' \in Queues,
           UNCHANGED <<pc, listVars, roundVars>>,
           \A a \in Addr :
              delta[a] = QueueTerm(clausesToExport', unitsToImport', clausesToImport', s, a)
                            - QueueTerm(clausesToExport, unitsToImport, clausesToImport, s, a)
    PROVE  MemoryInv' /\ HeapStays
<1>0. /\ clausesToExport \in Queues /\ unitsToImport \in Queues /\ clausesToImport \in Queues
      /\ Sharers = 1..Len(SharersOf(conf))
      /\ \A a : InQueues(a) \in Nat /\ InSharers(a) \in Nat
      /\ \A a \in Addr : InQueues(a) + InSharers(a) = Live(heap[a])
  BY SumsOf
<1>1. tmp' = tmp /\ database' = database /\ pc' = pc
  BY DEF roundVars
<1>2. \A h \in Sharers : Round(h)'
  BY RoundKept DEF SameRound, roundVars, listVars
<1>3. ASSUME NEW a \in Addr
      PROVE  InQueues(a)' + InSharers(a)' - InQueues(a) - InSharers(a) = Live(heap'[a]) - Live(heap[a])
  <2>1. PICK k, l, m, n, o, p, q, r :
            /\ k = InQueues(a)' /\ l = InSharers(a)' /\ m = InQueues(a) /\ n = InSharers(a)
            /\ o = Live(heap'[a]) /\ p = Live(heap[a])
            /\ q = QueueTerm(clausesToExport', unitsToImport', clausesToImport', s, a)
            /\ r = QueueTerm(clausesToExport, unitsToImport, clausesToImport, s, a)
    OBVIOUS
  <2>2. k = m + q - r
    BY <2>1 DEF QueuesMove
  <2>3. l = n
    BY <1>1, <2>1 DEF InSharers
  <2>4. q \in Nat /\ r \in Nat
    BY <1>0, <2>1, QueueSumOf
  <2>6. o = p + (q - r)
    BY <2>1 DEF Becomes
  <2>7. m \in Nat /\ n \in Nat /\ p = m + n
    BY <1>0, <2>1
  <2>8. k + l - m - n = o - p
    BY <2>2, <2>3, <2>4, <2>6, <2>7
  <2> QED
    BY <2>1, <2>8
<1>4. heap' \in Memory
  BY DEF Becomes
<1>5. ASSUME NEW h \in Sharers, NEW z \in 1..MaxSize, NEW a \in Set(database'[h][z]), heap'[a] # NoClause
      PROVE  heap'[a].size = z
  <2>1. a \in Addr /\ heap[a] \in Cell /\ heap[a].size = z
    BY <1>1, <1>5, UsedIsCell
  <2> QED
    BY <1>5, <2>1 DEF Becomes
<1>6. tmp' \in [Sharers -> Seq(Addr)] /\ database' \in [Sharers -> DB]
  BY <1>1 DEF MemoryInv
<1> QED
  <2>1. HeapStays
    BY DEF HeapStays, Becomes
  <2> QED
    BY <2>1, <1>2, <1>3, <1>4, <1>5, <1>6, MemoryNext

\* A step that moves no clause.
LEMMA MemorySame ==
    ASSUME SharingAssumption, Setting, MemoryInv, UNCHANGED <<conf, heap, queueVars, tmp, database>>,
           \A h \in Sharers : Round(h)',
           \A h \in Sharers : pc'[h] = "put" <=> pc[h] = "put"
    PROVE  MemoryInv' /\ HeapStays
<1>1. Sharers = 1..Len(SharersOf(conf)) /\ \A a \in Addr : InQueues(a) \in Nat /\ InSharers(a) \in Nat
  BY SumsOf
<1>2. /\ clausesToExport' = clausesToExport /\ unitsToImport' = unitsToImport
      /\ clausesToImport' = clausesToImport /\ conf' = conf /\ tmp' = tmp /\ database' = database /\ heap' = heap
  BY DEF queueVars
<1>3. ASSUME NEW a \in Addr
      PROVE  InQueues(a)' + InSharers(a)' - InQueues(a) - InSharers(a) = Live(heap'[a]) - Live(heap[a])
  <2>1. InQueues(a)' = InQueues(a)
    BY <1>2 DEF InQueues
  <2>2. SharerSum(pc', tmp, database, Len(SharersOf(conf)), a)
          = SharerSum(pc, tmp, database, Len(SharersOf(conf)), a)
    BY <1>1, SharerSame
  <2>3. InSharers(a)' = InSharers(a)
    BY <1>2, <2>2 DEF InSharers
  <2>4. InQueues(a) + InSharers(a) = Live(heap[a])
    BY SumsOf
  <2> QED
    BY <1>1, <1>2, <2>1, <2>3, <2>4
<1>4. /\ heap \in Memory /\ tmp \in [Sharers -> Seq(Addr)] /\ database \in [Sharers -> DB]
      /\ clausesToExport \in Queues /\ unitsToImport \in Queues /\ clausesToImport \in Queues
  BY DEF MemoryInv, Queues
<1>5. \A h \in Sharers : \A z \in 1..MaxSize : \A a \in Set(database'[h][z]) :
              heap'[a] # NoClause => heap'[a].size = z
  BY <1>2, UsedIsCell
<1> QED
  <2>1. HeapStays
    BY <1>2 DEF HeapStays, Becomes
  <2> QED
    BY <2>1, <1>2, <1>3, <1>4, <1>5, MemoryNext

\* The steps of a sharer.
LEMMA MemoryWake ==
    ASSUME SharingAssumption, Setting, ControlInv, MemoryInv, NEW h \in Sharers, Wake(h)
    PROVE  MemoryInv' /\ HeapStays
<1>1. /\ pc[h] = "sleep" /\ pc'[h] \in {"ended", "collect"}
      /\ \A g \in Sharers : g # h => SameRound(g)
      /\ UNCHANGED <<conf, heap, queueVars, tmp, database>>
  BY DEF Wake, SameRound, ControlInv, listVars
<1>2. Round(h)'
  BY <1>1 DEF Round, MemoryInv
<1>3. \A g \in Sharers : Round(g)'
  BY <1>1, <1>2, RoundKept
<1>4. \A g \in Sharers : pc'[g] = "put" <=> pc[g] = "put"
  BY <1>1 DEF SameRound
<1> QED
  BY <1>1, <1>3, <1>4, MemorySame

\* The empty sequence.
LEMMA CountEmpty ==
    ASSUME NEW S, NEW a
    PROVE  <<>> \in Seq(S) /\ Count(<<>>, a) = 0 /\ Set(<<>>) = {}
<1>1. Set(<<>>) = {} /\ <<>> \in Seq(S)
  BY DEF Set
<1> QED
  BY <1>1, CountNone

\* The clauses of a producer are collected.
LEMMA MemoryCollectSimple ==
    ASSUME SharingAssumption, Setting, ControlInv, MemoryInv, NEW h \in Sharers, CollectSimple(h)
    PROVE  MemoryInv' /\ HeapStays
<1>1. PICK s : s = producers[h][i[h]]
  OBVIOUS
<1>2. s \in Id /\ i[h] <= Len(producers[h]) /\ pc[h] = "collect"
  <2>1. producers[h] \in Seq(Id) /\ i[h] \in Nat \ {0} /\ i[h] <= Len(producers[h]) /\ pc[h] = "collect"
    BY DEF CollectSimple, ControlInv
  <2> QED
    BY <1>1, <2>1
<1>3. PICK k \in 0..Len(clausesToExport[s]) :
              /\ tmp' = [tmp EXCEPT ![h] = Got(clausesToExport[s], k)]
              /\ heap' = releaseClauses(Occurrences(<<>>), Occurrences(Dropped(clausesToExport[s], k)))
              /\ clausesToExport' = [clausesToExport EXCEPT ![s] = Left(@, k)]
  BY <1>1 DEF CollectSimple
<1>4. /\ conf' = conf /\ unitsToImport' = unitsToImport /\ clausesToImport' = clausesToImport
      /\ database' = database /\ i' = i /\ producers' = producers /\ consumers' = consumers
      /\ j' = [j EXCEPT ![h] = 1] /\ pc' = [pc EXCEPT ![h] = "send"]
  BY DEF CollectSimple, listVars
<1>5. PICK q, g, d, l : /\ q = clausesToExport[s] /\ g = Got(q, k) /\ d = Dropped(q, k) /\ l = Left(q, k)
  OBVIOUS
<1>6. /\ clausesToExport \in Queues /\ unitsToImport \in Queues /\ clausesToImport \in Queues
      /\ tmp \in [Sharers -> Seq(Addr)] /\ database \in [Sharers -> DB] /\ heap \in Memory
      /\ pc \in [Sharers -> Phases] /\ q \in Seq(Addr) /\ tmp[h] = <<>> /\ k \in 0..Len(q)
      /\ j \in [Sharers -> Nat \ {0}]
  BY <1>2, <1>3, <1>5 DEF MemoryInv, Queues, ControlInv, Round
<1>7. /\ g \in Seq(Addr) /\ d \in Seq(Addr) /\ l \in Seq(Addr)
      /\ \A a : Count(q, a) = Count(g, a) + Count(d, a) + Count(l, a)
  <2>1. Got(q, k) \in Seq(Addr) /\ Dropped(q, k) \in Seq(Addr) /\ Left(q, k) \in Seq(Addr)
    BY <1>6, CountGot
  <2>2. \A a : Count(q, a) = Count(Got(q, k), a) + Count(Dropped(q, k), a) + Count(Left(q, k), a)
    BY <1>6, CountGot
  <2> QED
    BY <1>5, <2>1, <2>2
<1>8. /\ clausesToExport' \in Queues /\ tmp' \in [Sharers -> Seq(Addr)]
      /\ clausesToExport'[s] = l /\ tmp'[h] = g
      /\ \A t \in Id : t # s => clausesToExport'[t] = clausesToExport[t]
      /\ \A f \in Sharers : f # h => tmp'[f] = tmp[f]
  BY <1>2, <1>3, <1>5, <1>6, <1>7 DEF Queues
<1>9. QueuesMove(s)
  BY <1>2, <1>4, <1>6, <1>8, QueuesMoveIs
<1>10. SharersMove(h)
  <2>1. \A f \in Sharers : f # h => pc'[f] = pc[f]
    BY <1>4, <1>6
  <2> QED
    BY <1>4, <1>6, <1>8, <2>1, SharersMoveIs
<1>11. \A f \in Sharers : f # h => database'[f] = database[f] /\ SameRound(f)
  BY <1>4, <1>6, <1>8 DEF SameRound
<1>12. Round(h)'
  BY <1>2, <1>4, <1>6 DEF Round
<1>13. PICK delta : delta = [a \in Addr |-> 0 - Count(<<>>, a) - Count(d, a)]
  OBVIOUS
<1>14. ASSUME NEW a \in Addr
       PROVE  /\ Count(<<>>, a) = 0 /\ Count(d, a) \in Nat /\ Count(l, a) \in Nat /\ Count(g, a) \in Nat
              /\ delta[a] = 0 - Count(d, a) /\ Count(d, a) <= Live(heap[a])
  <2>1. PICK x, y, z, w, v : /\ x = Count(q, a) /\ y = Count(g, a) /\ z = Count(d, a) /\ w = Count(l, a)
                             /\ v = Live(heap[a])
    OBVIOUS
  <2>2. x \in Nat /\ y \in Nat /\ z \in Nat /\ w \in Nat
    BY <1>6, <1>7, <2>1, CountOf
  <2>3. x <= v
    BY <1>2, <1>5, <2>1, QueuedIsLive
  <2>4. x = y + z + w
    BY <1>7, <2>1
  <2>5. v \in Int
    BY <1>6, <2>1 DEF Memory, Live, Cell
  <2>6. Count(<<>>, a) = 0
    BY CountEmpty
  <2>7. delta[a] = 0 - z
    BY <1>13, <2>1, <2>2, <2>6
  <2>8. z <= v
    BY <2>2, <2>3, <2>4, <2>5
  <2> QED
    BY <2>1, <2>2, <2>6, <2>7, <2>8
<1>15. Becomes(heap', delta)
  <2>1. PICK x, y : x = Occurrences(<<>>) /\ y = Occurrences(d)
    OBVIOUS
  <2>2. \A a \in Addr : x[a] = 0 /\ y[a] = Count(d, a)
    BY <1>14, <2>1 DEF Occurrences
  <2>3. \A a \in Addr : x[a] \in Nat /\ y[a] \in Nat /\ delta[a] = 0 - x[a] - y[a] /\ x[a] + y[a] <= Live(heap[a])
    BY <1>14, <2>2
  <2>4. heap' = releaseClauses(x, y)
    BY <1>3, <1>5, <2>1
  <2> QED
    BY <1>6, <2>3, <2>4, ReleaseIs
<1>16. \A z \in 1..MaxSize : Set(database'[h][z]) \subseteq {a \in Addr : heap[a] \in Cell /\ heap[a].size = z}
  BY <1>4, UsedIsCell
<1>17. ASSUME NEW a \in Addr
       PROVE  delta[a] = QueueTerm(clausesToExport', unitsToImport', clausesToImport', s, a)
                            - QueueTerm(clausesToExport, unitsToImport, clausesToImport, s, a)
                            + SharerTerm(pc', tmp', database', h, a) - SharerTerm(pc, tmp, database, h, a)
  <2>1. PICK x, y, z, w, m, n, b : /\ x = Count(q, a) /\ y = Count(g, a) /\ z = Count(d, a) /\ w = Count(l, a)
                     /\ m = Count(unitsToImport[s], a) /\ n = Count(clausesToImport[s], a)
                     /\ b = DbCount(database[h], a)
    OBVIOUS
  <2>2. x \in Nat /\ y \in Nat /\ z \in Nat /\ w \in Nat /\ x = y + z + w
    BY <1>6, <1>7, <1>14, <2>1, CountOf
  <2>3. m \in Nat /\ n \in Nat /\ b \in Nat
    BY <1>2, <2>1, QueuedIsLive, KeptIsLive
  <2>4. QueueTerm(clausesToExport', unitsToImport', clausesToImport', s, a) = w + m + n
    BY <1>4, <1>8, <2>1 DEF QueueTerm
  <2>5. QueueTerm(clausesToExport, unitsToImport, clausesToImport, s, a) = x + m + n
    BY <1>5, <2>1 DEF QueueTerm
  <2>6. SharerTerm(pc', tmp', database', h, a) = 1 * y + b
    BY <1>4, <1>6, <1>8, <2>1 DEF SharerTerm
  <2>7. SharerTerm(pc, tmp, database, h, a) = 1 * 0 + b
    BY <1>2, <1>6, <1>14, <2>1 DEF SharerTerm
  <2>8. delta[a] = 0 - z
    BY <1>14, <2>1
  <2>9. 1 * y + b = y + b /\ 1 * 0 + b = b
    BY <2>2, <2>3
  <2>10. 0 - z = (w + m + n) - (x + m + n) + (y + b) - b
    BY <2>2, <2>3
  <2> QED
    BY <2>4, <2>5, <2>6, <2>7, <2>8, <2>9, <2>10
<1>18. unitsToImport' \in Queues /\ clausesToImport' \in Queues /\ database' \in [Sharers -> DB]
  BY <1>4, <1>6
<1> QED
  BY <1>2, <1>4, <1>8, <1>9, <1>10, <1>11, <1>12, <1>15, <1>16, <1>17, <1>18, MemoryMove

\* The places in a queue and in a database are different ones.
LEMMA BothAreLive ==
    ASSUME SharingAssumption, Setting, MemoryInv, NEW s \in Id, NEW h \in Sharers, NEW a \in Addr
    PROVE  Count(clausesToExport[s], a) + DbCount(database[h], a) <= Live(heap[a])
<1>1. /\ clausesToExport \in Queues /\ unitsToImport \in Queues /\ clausesToImport \in Queues
      /\ Holdings(Len(SharersOf(conf)), tmp, database) /\ h \in 1..Len(SharersOf(conf))
      /\ InQueues(a) \in Nat /\ InSharers(a) \in Nat /\ InQueues(a) + InSharers(a) = Live(heap[a])
  BY SumsOf
<1>2. PICK x, y, z, r, t, u, v, c, d :
         /\ x = Count(clausesToExport[s], a) /\ y = Count(unitsToImport[s], a)
         /\ z = Count(clausesToImport[s], a) /\ u = InQueues(a) /\ v = InSharers(a)
         /\ t = QueueTerm(clausesToExport, unitsToImport, clausesToImport, s, a)
         /\ c = Count(tmp[h], a) /\ d = DbCount(database[h], a)
         /\ r = SharerTerm(pc, tmp, database, h, a)
  OBVIOUS
<1>3. x \in Nat /\ y \in Nat /\ z \in Nat /\ t \in Nat /\ t <= u
  BY <1>1, <1>2, QueueSumOf DEF InQueues
<1>4. t = x + y + z
  BY <1>2 DEF QueueTerm
<1>5. u \in Nat /\ v \in Nat /\ Live(heap[a]) = u + v
  BY <1>1, <1>2
<1>6. c \in Nat /\ d \in Nat /\ r \in Nat /\ r <= v
  BY <1>1, <1>2, SharerSumOf DEF InSharers
<1>7. r = 2 * c + d \/ r = 1 * c + d
  BY <1>2 DEF SharerTerm
<1>8. x + d <= u + v
  BY <1>3, <1>4, <1>5, <1>6, <1>7, SMTT(40)
<1> QED
  BY <1>2, <1>5, <1>8

\* What HordeSat makes of its database: b is the outcome of adding the clauses g,
\* r the selection from it.
Kept(h, g, b, r) ==
    /\ b.full \in Seq(Addr) /\ r.selected \in Seq(Addr) /\ r.db \in DB
    /\ \A a \in Addr :
          /\ DbCount(r.db, a) \in Nat /\ Count(b.full, a) \in Nat
          /\ Count(r.selected, a) \in Nat /\ DbCount(database[h], a) \in Nat
          /\ DbCount(r.db, a) + Count(r.selected, a) + Count(b.full, a)
                = DbCount(database[h], a) + Count(g, a)
    /\ \A z \in 1..MaxSize : Set(r.db[z]) \subseteq {a \in Addr : heap[a] \in Cell /\ heap[a].size = z}
    /\ \A z \in 1..MaxSize : Set(r.db[z]) \subseteq Set(database[h][z]) \cup Set(g)
    /\ \A a \in Set(r.selected) : a \in Set(g) \/ \E z \in 1..MaxSize : a \in Set(database[h][z])
    /\ \A a \in Set(r.selected) : heap[a] \in Cell
    /\ r.used = SizeSum(r.selected) /\ r.used <= LiteralPerRound
    /\ \A y \in 1..MaxSize : r.db[y] # <<>> =>
          r.used + y > LiteralPerRound /\ \A a \in Set(r.selected) : heap[a].size <= y

LEMMA KeptIs ==
    ASSUME SharingAssumption, Setting, MemoryInv, NEW h \in Sharers,
           NEW g \in Seq(Addr), \A a \in Set(g) : heap[a] \in Cell,
           NEW b, b = addClauses(database[h], g), NEW r, r = giveSelection(b.db)
    PROVE  Kept(h, g, b, r)
<1>1. PICK db : db = database[h]
  OBVIOUS
<1>2. db \in DB
  BY <1>1 DEF MemoryInv
<1>3. PICK box : box = [db |-> db, full |-> <<>>]
  OBVIOUS
<1>4. Stored(b, box, g)
  BY <1>1, <1>2, <1>3, AddClausesIs
<1>5. /\ b \in Box /\ box.db = db /\ box.full = <<>>
      /\ \A a \in Addr : DbCount(b.db, a) + Count(b.full, a) = DbCount(db, a) + Count(<<>>, a) + Count(g, a)
      /\ \A z \in 1..MaxSize : \A a \in Set(b.db[z]) : a \in Set(db[z]) \/ (a \in Set(g) /\ heap[a].size = z)
  BY <1>3, <1>4 DEF Stored
<1>6. b.db \in DB /\ b.full \in Seq(Addr)
  BY <1>5 DEF Box
<1>7. ASSUME NEW z \in 1..MaxSize, NEW a \in Set(b.db[z])
      PROVE  a \in Addr /\ heap[a] \in Cell /\ heap[a].size = z
  <2>1. b.db[z] \in Seq(Addr)
    BY <1>6 DEF DB
  <2>2. a \in Addr
    BY <2>1, CountOf
  <2>3. CASE a \in Set(db[z])
    BY <1>1, <2>2, <2>3, UsedIsCell
  <2>4. CASE a \in Set(g) /\ heap[a].size = z
    BY <2>2, <2>4
  <2> QED
    BY <1>5, <2>3, <2>4
<1>8. Filed(b.db)
  BY <1>7 DEF Filed
<1>9. LiteralPerRound \in Nat
  BY DEF Setting
<1>10. Selected(r, b.db, MaxSize)
  BY <1>6, <1>8, <1>9, GiveSelectionIs
<1>11. /\ r \in Pick
       /\ \A a \in Addr : DbCount(r.db, a) + Count(r.selected, a) = DbCount(b.db, a)
       /\ \A y \in 1..MaxSize : Set(r.db[y]) \subseteq Set(b.db[y])
       /\ \A a \in Set(r.selected) : heap[a] \in Cell /\ heap[a].size \in 1..MaxSize
                                  /\ a \in Set(b.db[heap[a].size])
       /\ r.used = SizeSum(r.selected) /\ r.used <= LiteralPerRound
       /\ \A y \in 1..MaxSize : r.db[y] # <<>> =>
          r.used + y > LiteralPerRound /\ \A a \in Set(r.selected) : heap[a].size <= y
  BY <1>10 DEF Selected
<1>12. r.db \in DB /\ r.selected \in Seq(Addr)
  BY <1>11 DEF Pick
<1>13. ASSUME NEW a \in Addr
       PROVE  /\ DbCount(r.db, a) \in Nat /\ Count(b.full, a) \in Nat
              /\ Count(r.selected, a) \in Nat /\ DbCount(database[h], a) \in Nat
              /\ DbCount(r.db, a) + Count(r.selected, a) + Count(b.full, a)
                    = DbCount(database[h], a) + Count(g, a)
  <2>1. PICK x, y, z, u, v, w, e : /\ x = DbCount(r.db, a) /\ y = Count(r.selected, a) /\ z = Count(b.full, a)
                                   /\ u = DbCount(b.db, a) /\ v = DbCount(db, a) /\ w = Count(g, a)
                                   /\ e = Count(<<>>, a)
    OBVIOUS
  <2>2. x \in Nat /\ u \in Nat /\ v \in Nat
    BY <1>2, <1>6, <1>12, <2>1, DbCountOf
  <2>3. y \in Nat /\ z \in Nat /\ w \in Nat
    BY <1>6, <1>12, <2>1, CountOf
  <2>4. e = 0
    BY <2>1, CountEmpty
  <2>5. u + z = v + e + w
    BY <1>5, <2>1
  <2>6. x + y = u
    BY <1>11, <2>1
  <2>7. x + y + z = v + w
    BY <2>2, <2>3, <2>4, <2>5, <2>6
  <2> QED
    BY <1>1, <2>1, <2>2, <2>3, <2>7
<1>14. ASSUME NEW z \in 1..MaxSize
       PROVE  /\ Set(r.db[z]) \subseteq {a \in Addr : heap[a] \in Cell /\ heap[a].size = z}
              /\ Set(r.db[z]) \subseteq Set(database[h][z]) \cup Set(g)
  BY <1>1, <1>5, <1>7, <1>11
<1>15. ASSUME NEW a \in Set(r.selected)
       PROVE  a \in Set(g) \/ \E z \in 1..MaxSize : a \in Set(database[h][z])
  <2>1. PICK z : z = heap[a].size
    OBVIOUS
  <2>2. z \in 1..MaxSize /\ a \in Set(b.db[z])
    BY <1>11, <2>1, SMTT(40)
  <2> QED
    BY <1>1, <1>5, <2>2
<1> QED
  BY <1>6, <1>11, <1>12, <1>13, <1>14, <1>15 DEF Kept

\* HordeSat collects.
Gathers(h, s, k, b, r) ==
    /\ b = addClauses(database[h], Got(clausesToExport[s], k)) /\ r = giveSelection(b.db)
    /\ tmp' = [tmp EXCEPT ![h] = r.selected]
    /\ database' = [database EXCEPT ![h] = r.db]
    /\ heap' = releaseClauses(Occurrences(b.full), Occurrences(Dropped(clausesToExport[s], k)))
    /\ clausesToExport' = [clausesToExport EXCEPT ![s] = Left(@, k)]

LEMMA CollectHordeIs ==
    ASSUME Setting, ControlInv, NEW h \in Sharers, CollectHorde(h)
    PROVE  /\ i[h] \in 1..Len(producers[h]) /\ producers[h][i[h]] \in Id /\ pc[h] = "collect"
           /\ \E k \in 0..Len(clausesToExport[producers[h][i[h]]]) :
                 \E b, r : Gathers(h, producers[h][i[h]], k, b, r)
           /\ conf' = conf /\ unitsToImport' = unitsToImport /\ clausesToImport' = clausesToImport
           /\ i' = i /\ producers' = producers /\ consumers' = consumers
           /\ j' = [j EXCEPT ![h] = 1] /\ pc' = [pc EXCEPT ![h] = "send"]
<1>1. /\ producers[h] \in Seq(Id) /\ i[h] \in Nat \ {0} /\ i[h] <= Len(producers[h]) /\ pc[h] = "collect"
  BY DEF CollectHorde, ControlInv
<1>2. i[h] \in 1..Len(producers[h]) /\ producers[h][i[h]] \in Id
  BY <1>1, SMTT(40)
<1>3. \E k \in 0..Len(clausesToExport[producers[h][i[h]]]) : \E b, r : Gathers(h, producers[h][i[h]], k, b, r)
  BY DEF CollectHorde, Gathers
<1> QED
  BY <1>1, <1>2, <1>3, ZenonT(60) DEF CollectHorde, listVars
LEMMA MemoryCollectHorde ==
    ASSUME SharingAssumption, Setting, ControlInv, MemoryInv, NEW h \in Sharers, CollectHorde(h)
    PROVE  MemoryInv' /\ HeapStays
<1>1. PICK s : s = producers[h][i[h]]
  OBVIOUS
<1>2. s \in Id /\ i[h] \in 1..Len(producers[h]) /\ pc[h] = "collect"
  BY <1>1, CollectHordeIs
<1>30. PICK k \in 0..Len(clausesToExport[s]) : \E b, r : Gathers(h, s, k, b, r)
  BY <1>1, CollectHordeIs
<1>3. PICK b, r : k \in 0..Len(clausesToExport[s]) /\ Gathers(h, s, k, b, r)
  BY <1>30
<1>4. /\ conf' = conf /\ unitsToImport' = unitsToImport /\ clausesToImport' = clausesToImport
      /\ i' = i /\ producers' = producers /\ consumers' = consumers
      /\ j' = [j EXCEPT ![h] = 1] /\ pc' = [pc EXCEPT ![h] = "send"]
  BY CollectHordeIs
<1>5. PICK q, g, d, l : /\ q = clausesToExport[s] /\ g = Got(q, k) /\ d = Dropped(q, k) /\ l = Left(q, k)
  OBVIOUS
<1>6. /\ clausesToExport \in Queues /\ unitsToImport \in Queues /\ clausesToImport \in Queues
      /\ tmp \in [Sharers -> Seq(Addr)] /\ database \in [Sharers -> DB] /\ heap \in Memory
      /\ pc \in [Sharers -> Phases] /\ q \in Seq(Addr) /\ tmp[h] = <<>> /\ k \in 0..Len(q)
      /\ j \in [Sharers -> Nat \ {0}]
  BY <1>2, <1>3, <1>5 DEF MemoryInv, Queues, ControlInv, Round
<1>7. /\ g \in Seq(Addr) /\ d \in Seq(Addr) /\ l \in Seq(Addr)
      /\ \A a : Count(q, a) = Count(g, a) + Count(d, a) + Count(l, a)
  <2>1. Got(q, k) \in Seq(Addr) /\ Dropped(q, k) \in Seq(Addr) /\ Left(q, k) \in Seq(Addr)
    BY <1>6, CountGot
  <2>2. \A a : Count(q, a) = Count(Got(q, k), a) + Count(Dropped(q, k), a) + Count(Left(q, k), a)
    BY <1>6, CountGot
  <2> QED
    BY <1>5, <2>1, <2>2
<1>20. \A a \in Set(g) : heap[a] \in Cell
  <2>1. ASSUME NEW a \in Set(g) PROVE a \in Set(q)
    <3>1. a \in Addr /\ Count(g, a) \in Nat /\ Count(g, a) > 0 /\ Count(d, a) \in Nat /\ Count(l, a) \in Nat
          /\ Count(q, a) = Count(g, a) + Count(d, a) + Count(l, a)
      BY <1>7, CountOf
    <3>2. Count(q, a) > 0
      BY <3>1
    <3> QED
      BY <1>6, <3>2, CountOf
  <2> QED
    BY <1>2, <1>5, <2>1, UsedIsCell
<1>21. Kept(h, g, b, r)
  <2>1. b = addClauses(database[h], g) /\ r = giveSelection(b.db)
    BY <1>3, <1>5 DEF Gathers
  <2> QED
    BY <1>7, <1>20, <2>1, KeptIs
<1>22. PICK f, t, db : f = b.full /\ t = r.selected /\ db = r.db
  OBVIOUS
<1>23. f \in Seq(Addr) /\ t \in Seq(Addr) /\ db \in DB
  BY <1>21, <1>22 DEF Kept
<1>8. /\ clausesToExport' \in Queues /\ tmp' \in [Sharers -> Seq(Addr)] /\ database' \in [Sharers -> DB]
      /\ clausesToExport'[s] = l /\ tmp'[h] = t /\ database'[h] = db
      /\ \A o \in Id : o # s => clausesToExport'[o] = clausesToExport[o]
      /\ \A o \in Sharers : o # h => tmp'[o] = tmp[o] /\ database'[o] = database[o]
  BY <1>2, <1>3, <1>5, <1>6, <1>7, <1>22, <1>23 DEF Queues, Gathers
<1>9. QueuesMove(s)
  BY <1>2, <1>4, <1>6, <1>8, QueuesMoveIs
<1>10. SharersMove(h)
  <2>1. \A o \in Sharers : o # h => pc'[o] = pc[o]
    BY <1>4, <1>6
  <2> QED
    BY <1>4, <1>6, <1>8, <2>1, SharersMoveIs
<1>11. \A o \in Sharers : o # h => database'[o] = database[o] /\ SameRound(o)
  BY <1>4, <1>6, <1>8 DEF SameRound
<1>12. Round(h)'
  BY <1>2, <1>4, <1>6 DEF Round
<1>13. PICK delta : delta = [a \in Addr |-> 0 - Count(f, a) - Count(d, a)]
  OBVIOUS
<1>14. ASSUME NEW a \in Addr
       PROVE  /\ Count(f, a) \in Nat /\ Count(d, a) \in Nat /\ Count(l, a) \in Nat /\ Count(g, a) \in Nat
              /\ DbCount(db, a) \in Nat /\ Count(t, a) \in Nat /\ DbCount(database[h], a) \in Nat
              /\ DbCount(db, a) + Count(t, a) + Count(f, a) = DbCount(database[h], a) + Count(g, a)
              /\ delta[a] = 0 - Count(f, a) - Count(d, a) /\ Count(f, a) + Count(d, a) <= Live(heap[a])
  <2>1. PICK x, y, z, w, v, m, n, o, p :
           /\ x = Count(q, a) /\ y = Count(g, a) /\ z = Count(d, a) /\ w = Count(l, a)
           /\ v = Live(heap[a]) /\ m = DbCount(db, a) /\ n = Count(t, a) /\ o = Count(f, a)
           /\ p = DbCount(database[h], a)
    OBVIOUS
  <2>2. x \in Nat /\ y \in Nat /\ z \in Nat /\ w \in Nat
    BY <1>6, <1>7, <2>1, CountOf
  <2>3. x + p <= v
    BY <1>2, <1>5, <2>1, BothAreLive
  <2>4. x = y + z + w
    BY <1>7, <2>1
  <2>5. v \in Int
    BY <1>6, <2>1 DEF Memory, Live, Cell
  <2>6. m \in Nat /\ n \in Nat /\ o \in Nat /\ p \in Nat /\ m + n + o = p + y
    BY <1>21, <1>22, <2>1 DEF Kept
  <2>7. delta[a] = 0 - o - z
    BY <1>13, <2>1
  <2>8. o + z <= v
    BY <2>2, <2>3, <2>4, <2>5, <2>6, SMTT(40)
  <2> QED
    BY <2>1, <2>2, <2>6, <2>7, <2>8
<1>15. Becomes(heap', delta)
  <2>1. PICK x, y : x = Occurrences(f) /\ y = Occurrences(d)
    OBVIOUS
  <2>2. \A a \in Addr : x[a] = Count(f, a) /\ y[a] = Count(d, a)
    BY <2>1 DEF Occurrences
  <2>3. \A a \in Addr : x[a] \in Nat /\ y[a] \in Nat /\ delta[a] = 0 - x[a] - y[a] /\ x[a] + y[a] <= Live(heap[a])
    BY <1>14, <2>2
  <2>4. heap' = releaseClauses(x, y)
    BY <1>3, <1>5, <1>22, <2>1 DEF Gathers
  <2> QED
    BY <1>6, <2>3, <2>4, ReleaseIs
<1>16. \A z \in 1..MaxSize : Set(database'[h][z]) \subseteq {a \in Addr : heap[a] \in Cell /\ heap[a].size = z}
  BY <1>8, <1>21, <1>22 DEF Kept
<1>17. ASSUME NEW a \in Addr
       PROVE  delta[a] = QueueTerm(clausesToExport', unitsToImport', clausesToImport', s, a)
                            - QueueTerm(clausesToExport, unitsToImport, clausesToImport, s, a)
                            + SharerTerm(pc', tmp', database', h, a) - SharerTerm(pc, tmp, database, h, a)
  <2>1. PICK x, y, z, w, m, n, c, e, p, u :
                     /\ x = Count(q, a) /\ y = Count(g, a) /\ z = Count(d, a) /\ w = Count(l, a)
                     /\ m = Count(unitsToImport[s], a) /\ n = Count(clausesToImport[s], a)
                     /\ c = DbCount(database[h], a) /\ e = DbCount(db, a) /\ p = Count(t, a) /\ u = Count(f, a)
    OBVIOUS
  <2>2. x \in Nat /\ y \in Nat /\ z \in Nat /\ w \in Nat /\ x = y + z + w
    BY <1>6, <1>7, <1>14, <2>1, CountOf
  <2>3. m \in Nat /\ n \in Nat
    BY <1>2, <2>1, QueuedIsLive
  <2>11. c \in Nat /\ e \in Nat /\ p \in Nat /\ u \in Nat /\ e + p + u = c + y
    BY <1>14, <2>1
  <2>4. QueueTerm(clausesToExport', unitsToImport', clausesToImport', s, a) = w + m + n
    BY <1>4, <1>8, <2>1 DEF QueueTerm
  <2>5. QueueTerm(clausesToExport, unitsToImport, clausesToImport, s, a) = x + m + n
    BY <1>5, <2>1 DEF QueueTerm
  <2>6. SharerTerm(pc', tmp', database', h, a) = 1 * p + e
    BY <1>4, <1>6, <1>8, <2>1 DEF SharerTerm
  <2>7. SharerTerm(pc, tmp, database, h, a) = 1 * 0 + c
    <3>1. Count(tmp[h], a) = 0
      BY <1>6, CountEmpty
    <3> QED
      BY <1>2, <2>1, <3>1 DEF SharerTerm
  <2>8. delta[a] = 0 - u - z
    BY <1>14, <2>1
  <2>9. 1 * p + e = p + e /\ 1 * 0 + c = c
    BY <2>2, <2>11
  <2>10. 0 - u - z = (w + m + n) - (x + m + n) + (p + e) - c
    BY <2>2, <2>3, <2>11
  <2> QED
    BY <2>4, <2>5, <2>6, <2>7, <2>8, <2>9, <2>10
<1>18. unitsToImport' \in Queues /\ clausesToImport' \in Queues
  BY <1>4, <1>6
<1> QED
  BY <1>2, <1>4, <1>8, <1>9, <1>10, <1>11, <1>12, <1>15, <1>16, <1>17, <1>18, MemoryMove

\* A step on what one sharer has.
LEMMA MemorySharer ==
    ASSUME SharingAssumption, Setting, MemoryInv, UNCHANGED <<conf, queueVars>>, NEW h \in Sharers,
           NEW g, NEW delta, Becomes(g, delta), heap' = g,
           tmp' \in [Sharers -> Seq(Addr)], database' = database,
           \A o \in Sharers : o # h => SameRound(o),
           Round(h)',
           \A a \in Addr :
              delta[a] = SharerTerm(pc', tmp', database', h, a) - SharerTerm(pc, tmp, database, h, a)
    PROVE  MemoryInv' /\ HeapStays
<1>1. PICK s : s \in Id
  BY DEF Id, SharingAssumption
<1>2. /\ clausesToExport' = clausesToExport /\ unitsToImport' = unitsToImport
      /\ clausesToImport' = clausesToImport /\ conf' = conf
  BY DEF queueVars
<1>3. /\ clausesToExport \in Queues /\ unitsToImport \in Queues /\ clausesToImport \in Queues
      /\ database \in [Sharers -> DB]
  BY DEF MemoryInv, Queues
<1>4. QueuesMove(s)
  BY <1>1, <1>2, <1>3, QueuesMoveIs
<1>5. \A o \in Sharers : o # h => pc'[o] = pc[o] /\ tmp'[o] = tmp[o] /\ database'[o] = database[o]
  BY DEF SameRound
<1>6. SharersMove(h)
  BY <1>2, <1>3, <1>5, SharersMoveIs
<1>7. ASSUME NEW a \in Addr
      PROVE  delta[a] = QueueTerm(clausesToExport', unitsToImport', clausesToImport', s, a)
                            - QueueTerm(clausesToExport, unitsToImport, clausesToImport, s, a)
                            + SharerTerm(pc', tmp', database', h, a) - SharerTerm(pc, tmp, database, h, a)
  <2>1. PICK q, t, u : /\ q = QueueTerm(clausesToExport, unitsToImport, clausesToImport, s, a)
                       /\ t = SharerTerm(pc', tmp', database', h, a) /\ u = SharerTerm(pc, tmp, database, h, a)
    OBVIOUS
  <2>2. q \in Nat
    BY <1>1, <1>3, <2>1, QueueSumOf
  <2>3. Holdings(Len(SharersOf(conf)), tmp, database) /\ h \in 1..Len(SharersOf(conf))
    BY SumsOf
  <2>4. Holdings(Len(SharersOf(conf)), tmp', database')
    BY <1>3, <2>3, SumsOf DEF Holdings
  <2>5. t \in Nat /\ u \in Nat
    BY <2>1, <2>3, <2>4, SharerSumOf
  <2>6. delta[a] = t - u /\ t - u = (q - q) + (t - u)
    BY <2>1, <2>2, <2>5, SMTT(40)
  <2> QED
    BY <1>2, <2>1, <2>6
<1>8. \A z \in 1..MaxSize : Set(database'[h][z]) \subseteq {a \in Addr : heap[a] \in Cell /\ heap[a].size = z}
  BY UsedIsCell
<1>9. Becomes(heap', delta)
  OBVIOUS
<1> QED
  BY <1>1, <1>2, <1>3, <1>4, <1>5, <1>6, <1>7, <1>8, <1>9, MemoryMove

\* The references of a consumer are counted.
LEMMA MemoryCountRefs ==
    ASSUME SharingAssumption, Setting, ControlInv, MemoryInv, NEW h \in Sharers, CountRefs(h)
    PROVE  MemoryInv' /\ HeapStays
<1>1. /\ pc[h] = "send" /\ j[h] <= Len(consumers[h]) /\ conf' = conf
      /\ queueVars' = queueVars /\ tmp' = tmp /\ database' = database
      /\ i' = i /\ producers' = producers /\ consumers' = consumers
  BY DEF CountRefs, listVars
<1>2. /\ tmp \in [Sharers -> Seq(Addr)] /\ heap \in Memory /\ j \in [Sharers -> Nat \ {0}]
      /\ pc \in [Sharers -> Phases] /\ i[h] <= Len(producers[h])
  BY <1>1 DEF MemoryInv, ControlInv, Round
<1>3. CASE producers[h][i[h]] = consumers[h][j[h]]
  <2>1. j' = [j EXCEPT ![h] = @ + 1] /\ pc' = pc /\ heap' = heap
    BY <1>3 DEF CountRefs
  <2>2. \A g \in Sharers : g # h => SameRound(g)
    BY <1>1, <1>2, <2>1 DEF SameRound
  <2>3. Round(h)'
    BY <1>1, <1>2, <2>1 DEF Round
  <2>4. \A g \in Sharers : Round(g)'
    BY <2>2, <2>3, RoundKept
  <2> QED
    BY <1>1, <2>1, <2>4, MemorySame
<1>4. CASE producers[h][i[h]] # consumers[h][j[h]]
  <2>1. heap' = increaseClauses(tmp[h]) /\ pc' = [pc EXCEPT ![h] = "put"] /\ j' = j
    BY <1>4 DEF CountRefs
  <2>2. \A g \in Sharers : g # h => SameRound(g)
    BY <1>1, <1>2, <2>1 DEF SameRound
  <2>3. Round(h)'
    BY <1>1, <1>2, <1>4, <2>1 DEF Round
  <2>4. PICK q : q = tmp[h]
    OBVIOUS
  <2>5. q \in Seq(Addr) /\ \A a \in Set(q) : heap[a] # NoClause
    BY <1>2, <2>4, UsedIsCell
  <2>6. PICK delta : delta = [a \in Addr |-> Count(q, a)]
    OBVIOUS
  <2>7. PICK g : g = increaseClauses(q)
    OBVIOUS
  <2>8. Becomes(g, delta) /\ heap' = g
    <3>1. \A a \in Addr : delta[a] = Count(q, a)
      BY <2>6
    <3>2. Becomes(increaseClauses(q), delta)
      BY <1>2, <2>5, <3>1, IncreaseIs
    <3> QED
      BY <2>1, <2>4, <2>7, <3>2
  <2>9. ASSUME NEW a \in Addr
        PROVE  delta[a] = SharerTerm(pc', tmp', database', h, a) - SharerTerm(pc, tmp, database, h, a)
    <3>1. PICK x, y : x = Count(q, a) /\ y = DbCount(database[h], a)
      OBVIOUS
    <3>2. x \in Nat /\ y \in Nat
      BY <2>4, <3>1, KeptIsLive
    <3>3. SharerTerm(pc', tmp', database', h, a) = 2 * x + y
      BY <1>1, <1>2, <2>1, <2>4, <3>1 DEF SharerTerm
    <3>4. SharerTerm(pc, tmp, database, h, a) = 1 * x + y
      BY <1>1, <2>4, <3>1 DEF SharerTerm
    <3>5. x = (2 * x + y) - (1 * x + y)
      BY <3>2
    <3> QED
      BY <2>6, <3>1, <3>3, <3>4, <3>5
  <2>10. tmp' \in [Sharers -> Seq(Addr)]
    BY <1>1, <1>2
  <2> QED
    BY <1>1, <2>2, <2>3, <2>8, <2>9, <2>10, MemorySharer
<1> QED
  BY <1>3, <1>4

\* The sharer's own references go.
LEMMA MemoryReleaseOwn ==
    ASSUME SharingAssumption, Setting, ControlInv, MemoryInv, NEW h \in Sharers, ReleaseOwn(h)
    PROVE  MemoryInv' /\ HeapStays
<1>1. /\ pc[h] = "send" /\ conf' = conf
      /\ queueVars' = queueVars /\ tmp' = [tmp EXCEPT ![h] = <<>>] /\ database' = database
      /\ i' = [i EXCEPT ![h] = @ + 1] /\ j' = j /\ producers' = producers /\ consumers' = consumers
      /\ pc' = [pc EXCEPT ![h] = "collect"]
      /\ heap' = releaseClauses(Occurrences(tmp[h]), Occurrences(<<>>))
  BY DEF ReleaseOwn, listVars
<1>2. /\ tmp \in [Sharers -> Seq(Addr)] /\ heap \in Memory /\ i \in [Sharers -> Nat \ {0}]
      /\ pc \in [Sharers -> Phases]
  BY <1>1 DEF MemoryInv, ControlInv
<1>3. \A g \in Sharers : g # h => SameRound(g)
  BY <1>1, <1>2 DEF SameRound
<1>4. tmp' \in [Sharers -> Seq(Addr)] /\ tmp'[h] = <<>> /\ pc'[h] = "collect"
  BY <1>1, <1>2
<1>5. Round(h)'
  BY <1>4 DEF Round
<1>6. PICK x, y, g, delta : /\ x = Occurrences(tmp[h]) /\ y = Occurrences(<<>>) /\ g = releaseClauses(x, y)
                            /\ delta = [a \in Addr |-> 0 - Count(tmp[h], a)]
  OBVIOUS
<1>7. ASSUME NEW a \in Addr
      PROVE  /\ x[a] = Count(tmp[h], a) /\ y[a] = 0
             /\ x[a] \in Nat /\ y[a] \in Nat /\ delta[a] = 0 - x[a] - y[a] /\ x[a] + y[a] <= Live(heap[a])
  <2>1. x[a] = Count(tmp[h], a) /\ y[a] = 0
    BY <1>6, CountEmpty DEF Occurrences
  <2>2. PICK v, w : v = Count(tmp[h], a) /\ w = Live(heap[a])
    OBVIOUS
  <2>3. v \in Nat /\ v <= w
    BY <2>2, KeptIsLive
  <2>4. delta[a] = 0 - v /\ 0 - v = 0 - v - 0 /\ v + 0 = v
    BY <1>6, <2>2, <2>3
  <2> QED
    BY <2>1, <2>2, <2>3, <2>4
<1>8. Becomes(g, delta) /\ heap' = g
  <2>1. Becomes(releaseClauses(x, y), delta)
    BY <1>2, <1>7, ReleaseIs
  <2> QED
    BY <1>1, <1>6, <2>1
<1>9. ASSUME NEW a \in Addr
      PROVE  delta[a] = SharerTerm(pc', tmp', database', h, a) - SharerTerm(pc, tmp, database, h, a)
  <2>1. PICK v, w : v = Count(tmp[h], a) /\ w = DbCount(database[h], a)
    OBVIOUS
  <2>2. v \in Nat /\ w \in Nat
    BY <2>1, KeptIsLive
  <2>3. SharerTerm(pc', tmp', database', h, a) = 1 * 0 + w
    <3>1. Count(tmp'[h], a) = 0
      BY <1>4, CountEmpty
    <3> QED
      BY <1>1, <1>4, <2>1, <3>1 DEF SharerTerm
  <2>4. SharerTerm(pc, tmp, database, h, a) = 1 * v + w
    BY <1>1, <2>1 DEF SharerTerm
  <2>5. 0 - v = (1 * 0 + w) - (1 * v + w)
    BY <2>2
  <2> QED
    BY <1>6, <2>1, <2>3, <2>4, <2>5
<1> QED
  BY <1>1, <1>3, <1>4, <1>5, <1>8, <1>9, MemorySharer

\* A sequence is split by the sizes of its clauses.
Splits(q, u, v) ==
    /\ u \in Seq(Addr) /\ v \in Seq(Addr) /\ Set(u) \subseteq Set(q) /\ Set(v) \subseteq Set(q)
    /\ \A a : Count(q, a) = Count(u, a) + Count(v, a)

LEMMA SplitIs ==
    ASSUME NEW q \in Seq(Addr), NEW u, u = Filter(q, {a \in Set(q) : heap[a].size = 1}),
           NEW v, v = Filter(q, {a \in Set(q) : heap[a].size # 1})
    PROVE  Splits(q, u, v)
<1>1. PICK A, B : A = {a \in Set(q) : heap[a].size = 1} /\ B = {a \in Set(q) : heap[a].size # 1}
  OBVIOUS
<1>2. u \in Seq(Addr) /\ Filters(u, q, A) /\ v \in Seq(Addr) /\ Filters(v, q, B)
  BY <1>1, FilterIs
<1>3. Set(u) = Set(q) \cap A /\ Set(v) = Set(q) \cap B
  BY <1>1, FilterSet
<1>4. ASSUME NEW a PROVE Count(q, a) = Count(u, a) + Count(v, a)
  <2>1. PICK x, y, z : x = Count(q, a) /\ y = Count(u, a) /\ z = Count(v, a)
    OBVIOUS
  <2>2. x \in Nat /\ (x > 0 <=> a \in Set(q))
    BY <2>1, CountOf
  <2>3. y = (IF a \in A THEN x ELSE 0) /\ z = (IF a \in B THEN x ELSE 0)
    BY <1>2, <2>1 DEF Filters
  <2>4. CASE a \in Set(q)
    BY <1>1, <2>1, <2>2, <2>3, <2>4
  <2>5. CASE a \notin Set(q)
    <3>1. a \notin A /\ a \notin B
      BY <1>1, <2>5
    <3>2. x = 0
      BY <2>2, <2>5
    <3> QED
      BY <2>1, <2>3, <3>1, <3>2
  <2> QED
    BY <2>4, <2>5
<1> QED
  BY <1>2, <1>3, <1>4 DEF Splits

\* A sharer hands its clauses over.
LEMMA MemoryPut ==
    ASSUME SharingAssumption, Setting, ControlInv, MemoryInv, NEW h \in Sharers, Put(h)
    PROVE  MemoryInv' /\ HeapStays
<1>1. PICK s, q : s = consumers[h][j[h]] /\ q = tmp[h]
  OBVIOUS
<1>2. PICK v, w : /\ v = Filter(q, {a \in Set(q) : heap[a].size = 1})
                  /\ w = Filter(q, {a \in Set(q) : heap[a].size # 1})
  OBVIOUS
<1>3. /\ pc[h] = "put" /\ conf' = conf /\ heap' = heap /\ clausesToExport' = clausesToExport
      /\ unitsToImport' = [unitsToImport EXCEPT ![s] = @ \o v]
      /\ clausesToImport' = [clausesToImport EXCEPT ![s] = @ \o w]
      /\ tmp' = tmp /\ database' = database
      /\ i' = i /\ j' = [j EXCEPT ![h] = @ + 1] /\ producers' = producers /\ consumers' = consumers
      /\ pc' = [pc EXCEPT ![h] = "send"]
  BY <1>1, <1>2 DEF Put, addLearnedClauses, listVars
<1>4. /\ clausesToExport \in Queues /\ unitsToImport \in Queues /\ clausesToImport \in Queues
      /\ tmp \in [Sharers -> Seq(Addr)] /\ database \in [Sharers -> DB] /\ heap \in Memory
      /\ pc \in [Sharers -> Phases] /\ j \in [Sharers -> Nat \ {0}] /\ q \in Seq(Addr)
      /\ consumers[h] \in Seq(Id) /\ j[h] \in Nat \ {0}
      /\ j[h] <= Len(consumers[h]) /\ i[h] <= Len(producers[h])
  BY <1>1, <1>3 DEF MemoryInv, Queues, ControlInv, Round
<1>5. s \in Id
  BY <1>1, <1>4
<1>6. v \in Seq(Addr) /\ w \in Seq(Addr) /\ \A a : Count(q, a) = Count(v, a) + Count(w, a)
  <2>1. Splits(q, v, w)
    BY <1>2, <1>4, SplitIs
  <2> QED
    BY <2>1 DEF Splits
<1>7. PICK u, c : u = unitsToImport[s] /\ c = clausesToImport[s]
  OBVIOUS
<1>8. u \in Seq(Addr) /\ c \in Seq(Addr)
  BY <1>4, <1>5, <1>7 DEF Queues
<1>9. u \o v \in Seq(Addr) /\ c \o w \in Seq(Addr) /\ Joins(u \o v, u, v) /\ Joins(c \o w, c, w)
  BY <1>6, <1>8, CountConcat
<1>10. /\ unitsToImport' \in Queues /\ clausesToImport' \in Queues
       /\ unitsToImport'[s] = u \o v /\ clausesToImport'[s] = c \o w
       /\ \A t \in Id : t # s => /\ unitsToImport'[t] = unitsToImport[t]
                                  /\ clausesToImport'[t] = clausesToImport[t]
  BY <1>3, <1>4, <1>5, <1>7, <1>9 DEF Queues
<1>11. QueuesMove(s)
  BY <1>3, <1>4, <1>5, <1>10, QueuesMoveIs
<1>12. \A g \in Sharers : g # h => pc'[g] = pc[g] /\ SameRound(g)
  BY <1>3, <1>4 DEF SameRound
<1>13. SharersMove(h)
  BY <1>3, <1>4, <1>12, SharersMoveIs
<1>14. Round(h)'
  BY <1>3, <1>4 DEF Round
<1>15. PICK delta : delta = [a \in Addr |-> 0]
  OBVIOUS
<1>16. Becomes(heap', delta)
  <2>1. ASSUME NEW a \in Addr PROVE Live(heap[a]) = Live(heap[a]) + delta[a]
    <3>1. heap[a] \in Cell \cup {NoClause}
      BY <1>4 DEF Memory
    <3>2. Live(heap[a]) \in Int
      BY <3>1 DEF Live, Cell
    <3> QED
      BY <1>15, <3>2
  <2> QED
    BY <1>3, <1>4, <2>1 DEF Becomes
<1>17. ASSUME NEW a \in Addr
       PROVE  delta[a] = QueueTerm(clausesToExport', unitsToImport', clausesToImport', s, a)
                            - QueueTerm(clausesToExport, unitsToImport, clausesToImport, s, a)
                            + SharerTerm(pc', tmp', database', h, a) - SharerTerm(pc, tmp, database, h, a)
  <2>1. PICK x, y, z, k, l, m, b : /\ x = Count(clausesToExport[s], a) /\ y = Count(u, a) /\ z = Count(c, a)
                     /\ k = Count(q, a) /\ l = Count(v, a) /\ m = Count(w, a) /\ b = DbCount(database[h], a)
    OBVIOUS
  <2>2. x \in Nat /\ y \in Nat /\ z \in Nat /\ k \in Nat /\ b \in Nat
    BY <1>1, <1>5, <1>7, <2>1, QueuedIsLive, KeptIsLive
  <2>3. l \in Nat /\ m \in Nat /\ k = l + m
    BY <1>6, <2>1, CountOf
  <2>4. QueueTerm(clausesToExport', unitsToImport', clausesToImport', s, a) = x + (y + l) + (z + m)
    <3>1. Count(u \o v, a) = y + l /\ Count(c \o w, a) = z + m
      BY <1>9, <2>1 DEF Joins
    <3> QED
      BY <1>3, <1>10, <2>1, <3>1 DEF QueueTerm
  <2>5. QueueTerm(clausesToExport, unitsToImport, clausesToImport, s, a) = x + y + z
    BY <1>7, <2>1 DEF QueueTerm
  <2>6. SharerTerm(pc', tmp', database', h, a) = 1 * k + b
    BY <1>1, <1>3, <1>4, <2>1 DEF SharerTerm
  <2>7. SharerTerm(pc, tmp, database, h, a) = 2 * k + b
    BY <1>1, <1>3, <2>1 DEF SharerTerm
  <2>8. 0 = (x + (y + l) + (z + m)) - (x + y + z) + (1 * k + b) - (2 * k + b)
    BY <2>2, <2>3
  <2> QED
    BY <1>15, <2>4, <2>5, <2>6, <2>7, <2>8
<1>18. \A z \in 1..MaxSize : Set(database'[h][z]) \subseteq {a \in Addr : heap[a] \in Cell /\ heap[a].size = z}
  BY <1>3, UsedIsCell
<1>19. /\ clausesToExport' \in Queues /\ tmp' \in [Sharers -> Seq(Addr)] /\ database' \in [Sharers -> DB]
       /\ \A g \in Sharers : g # h => database'[g] = database[g] /\ SameRound(g)
  BY <1>3, <1>4, <1>12
<1> QED
  BY <1>3, <1>5, <1>10, <1>11, <1>13, <1>14, <1>16, <1>17, <1>18, <1>19, MemoryMove

\* A clause is learned.
LEMMA MemoryExport ==
    ASSUME SharingAssumption, ConfigsAssumption, Setting, ControlInv, MemoryInv,
           NEW s \in Id, NEW z \in 1..MaxSize, Export(s, z)
    PROVE  MemoryInv'
<1>1. PICK a \in Addr : /\ allocClause(a, z, s)
                        /\ clausesToExport' = [clausesToExport EXCEPT ![s] = Append(@, a)]
  BY DEF Export
<1>2. /\ conf' = conf /\ unitsToImport' = unitsToImport /\ clausesToImport' = clausesToImport
      /\ pc' = pc /\ listVars' = listVars /\ roundVars' = roundVars
  BY DEF Export
<1>3. PICK v : v = [size |-> z, from |-> s, nbRefs |-> 1, lost |-> 0]
  OBVIOUS
<1>4. heap[a] = NoClause /\ heap' = [heap EXCEPT ![a] = v] /\ v \in Cell /\ Live(v) = 1
  <2>1. v \in Cell
    BY <1>3 DEF Cell
  <2>2. v # NoClause
    BY <2>1, CellIsNot
  <2> QED
    BY <1>1, <1>3, <2>1, <2>2 DEF allocClause, Live
<1>5. /\ clausesToExport \in Queues /\ unitsToImport \in Queues /\ clausesToImport \in Queues
      /\ heap \in Memory
  BY DEF MemoryInv, Queues
<1>6. PICK q : q = clausesToExport[s]
  OBVIOUS
<1>7. q \in Seq(Addr)
  BY <1>5, <1>6 DEF Queues
<1>8. Append(q, a) \in Seq(Addr) /\ \A x : Count(Append(q, a), x) = Count(q, x) + IF x = a THEN 1 ELSE 0
  BY <1>7, CountAppend
<1>9. /\ clausesToExport' \in Queues /\ clausesToExport'[s] = Append(q, a)
      /\ \A t \in Id : t # s => clausesToExport'[t] = clausesToExport[t]
  BY <1>1, <1>5, <1>6, <1>8 DEF Queues
<1>10. QueuesMove(s)
  BY <1>2, <1>5, <1>9, QueuesMoveIs
<1>11. heap' \in Memory /\ heap'[a] = v /\ \A b \in Addr : b # a => heap'[b] = heap[b]
  BY <1>4, <1>5 DEF Memory
<1>12. ASSUME NEW b \in Addr
       PROVE  Live(heap'[b]) - Live(heap[b]) = (IF b = a THEN 1 ELSE 0) /\ Live(heap[b]) \in Int
  <2>1. heap[b] \in Cell \cup {NoClause}
    BY <1>5 DEF Memory
  <2>2. Live(heap[b]) \in Int
    BY <2>1 DEF Live, Cell
  <2>3. CASE b = a
    <3>1. Live(heap[b]) = 0 /\ Live(heap'[b]) = 1
      BY <1>4, <1>11, <2>3 DEF Live
    <3> QED
      BY <2>2, <2>3, <3>1
  <2>4. CASE b # a
    BY <1>11, <2>2, <2>4
  <2> QED
    BY <2>3, <2>4
<1>13. tmp' = tmp /\ database' = database /\ \A h \in Sharers : SameRound(h)
  BY <1>2 DEF roundVars, listVars, SameRound
<1>14. ASSUME NEW b \in Addr
       PROVE  InQueues(b)' + InSharers(b)' - InQueues(b) - InSharers(b) = Live(heap'[b]) - Live(heap[b])
  <2>1. PICK x, y, m, n, k, l, t, u, e :
           /\ x = Count(q, b) /\ y = Count(Append(q, a), b)
           /\ m = Count(unitsToImport[s], b) /\ n = Count(clausesToImport[s], b)
           /\ k = InQueues(b) /\ l = InSharers(b) /\ e = IF b = a THEN 1 ELSE 0
           /\ t = QueueTerm(clausesToExport', unitsToImport', clausesToImport', s, b)
           /\ u = QueueTerm(clausesToExport, unitsToImport, clausesToImport, s, b)
    OBVIOUS
  <2>2. x \in Nat /\ m \in Nat /\ n \in Nat /\ e \in Nat
    BY <1>6, <2>1, QueuedIsLive
  <2>3. y = x + e
    BY <1>8, <2>1
  <2>4. t = y + m + n /\ u = x + m + n
    BY <1>2, <1>6, <1>9, <2>1 DEF QueueTerm
  <2>5. InQueues(b)' = k + t - u
    BY <1>10, <2>1 DEF QueuesMove
  <2>6. InSharers(b)' = l
    BY <1>2, <1>13, <2>1 DEF InSharers
  <2>7. k \in Nat /\ l \in Nat
    BY <2>1, SumsOf
  <2>8. Live(heap'[b]) - Live(heap[b]) = e
    BY <1>12, <2>1
  <2>9. (k + t - u) + l - k - l = e
    BY <2>2, <2>3, <2>4, <2>7
  <2> QED
    BY <2>1, <2>5, <2>6, <2>8, <2>9
<1>15. \A h \in Sharers : Round(h)'
  BY <1>13, RoundKept
<1>16. ASSUME NEW h \in Sharers, NEW y \in 1..MaxSize, NEW b \in Set(database'[h][y]), heap'[b] # NoClause
       PROVE  heap'[b].size = y
  <2>1. b \in Addr /\ heap[b] # NoClause /\ heap[b].size = y
    BY <1>13, <1>16, UsedIsCell
  <2> QED
    BY <1>4, <1>11, <2>1
<1>17. tmp' \in [Sharers -> Seq(Addr)] /\ database' \in [Sharers -> DB]
  BY <1>13 DEF MemoryInv
<1>18. unitsToImport' \in Queues /\ clausesToImport' \in Queues
  BY <1>2, <1>5
<1> QED
  BY <1>2, <1>9, <1>11, <1>14, <1>15, <1>16, <1>17, <1>18, MemoryNext
\* A solver takes clauses in: g and d of what it has go, l stays.
Takes(q, g, d, l) ==
    /\ g \in Seq(Addr) /\ d \in Seq(Addr) /\ l \in Seq(Addr)
    /\ \A a : Count(q, a) = Count(g, a) + Count(d, a) + Count(l, a)

LEMMA TakesLive ==
    ASSUME SharingAssumption, Setting, MemoryInv, NEW s \in Id,
           NEW q \in {unitsToImport[s], clausesToImport[s]}, NEW g, NEW d, NEW l, Takes(q, g, d, l),
           NEW m, m = releaseClauses(Occurrences(g), Occurrences(d)),
           NEW delta, delta = [a \in Addr |-> Count(l, a) - Count(q, a)]
    PROVE  Becomes(m, delta)
<1>1. g \in Seq(Addr) /\ d \in Seq(Addr) /\ l \in Seq(Addr)
  BY DEF Takes
<1>2. PICK x, y : x = Occurrences(g) /\ y = Occurrences(d)
  OBVIOUS
<1>3. ASSUME NEW a \in Addr
      PROVE  x[a] \in Nat /\ y[a] \in Nat /\ delta[a] = 0 - x[a] - y[a] /\ x[a] + y[a] <= Live(heap[a])
  <2>1. PICK k, e, f, n, v : /\ k = Count(q, a) /\ e = Count(g, a) /\ f = Count(d, a) /\ n = Count(l, a)
                             /\ v = Live(heap[a])
    OBVIOUS
  <2>2. k = e + f + n
    BY <2>1 DEF Takes
  <2>3. e \in Nat /\ f \in Nat /\ n \in Nat
    BY <1>1, <2>1, CountOf
  <2>4. k <= v /\ v \in Int
    <3>1. heap[a] \in Cell \cup {NoClause}
      BY DEF MemoryInv, Memory
    <3>2. v \in Int
      BY <2>1, <3>1 DEF Live, Cell
    <3> QED
      BY <2>1, <3>2, QueuedIsLive
  <2>5. delta[a] = n - k /\ x[a] = e /\ y[a] = f
    BY <1>2, <2>1 DEF Occurrences
  <2>6. n - k = 0 - e - f /\ e + f <= v
    BY <2>2, <2>3, <2>4
  <2> QED
    BY <2>1, <2>3, <2>5, <2>6
<1>4. heap \in Memory
  BY DEF MemoryInv
<1>5. Becomes(releaseClauses(x, y), delta)
  BY <1>3, <1>4, ReleaseIs
<1> QED
  BY <1>2, <1>5

LEMMA HeadTakes ==
    ASSUME NEW q \in Seq(Addr), q # <<>>
    PROVE  Takes(q, <<Head(q)>>, <<>>, Tail(q))
<1>1. Head(q) \in Addr /\ Tail(q) \in Seq(Addr) /\ <<Head(q)>> \in Seq(Addr) /\ <<>> \in Seq(Addr)
  BY CountTail, CountEmpty
<1>2. ASSUME NEW a PROVE Count(q, a) = Count(<<Head(q)>>, a) + Count(<<>>, a) + Count(Tail(q), a)
  <2>1. PICK x, y, z, e : x = Count(q, a) /\ y = Count(<<Head(q)>>, a) /\ z = Count(Tail(q), a) /\ e = Count(<<>>, a)
    OBVIOUS
  <2>2. y \in Nat /\ z \in Nat /\ e = 0
    BY <1>1, <2>1, CountOf, CountEmpty
  <2>3. x = y + z
    BY <2>1, CountTail
  <2> QED
    BY <2>1, <2>2, <2>3
<1> QED
  BY <1>1, <1>2 DEF Takes

\* The queue that a step takes clauses from.
TakesUnits(s, g, d, l) ==
    /\ Takes(unitsToImport[s], g, d, l)
    /\ heap' = releaseClauses(Occurrences(g), Occurrences(d))
    /\ unitsToImport' = [unitsToImport EXCEPT ![s] = l]
    /\ clausesToImport' = clausesToImport
TakesClauses(s, g, d, l) ==
    /\ Takes(clausesToImport[s], g, d, l)
    /\ heap' = releaseClauses(Occurrences(g), Occurrences(d))
    /\ clausesToImport' = [clausesToImport EXCEPT ![s] = l]
    /\ unitsToImport' = unitsToImport

LEMMA ImportTakes ==
    ASSUME MemoryInv, NEW s \in Id, Import(s)
    PROVE  \E g, d, l : TakesUnits(s, g, d, l) \/ TakesClauses(s, g, d, l)
<1>1. unitsToImport[s] \in Seq(Addr) /\ clausesToImport[s] \in Seq(Addr)
  BY DEF MemoryInv
<1>2. CASE ImportUnit(s)
  <2>1. PICK q : q = unitsToImport[s]
    OBVIOUS
  <2>2. Takes(q, <<Head(q)>>, <<>>, Tail(q))
    BY <1>1, <1>2, <2>1, HeadTakes DEF ImportUnit
  <2>3. TakesUnits(s, <<Head(q)>>, <<>>, Tail(q))
    BY <1>2, <2>1, <2>2 DEF ImportUnit, TakesUnits
  <2> QED
    BY <2>3
<1>3. CASE ImportClause(s)
  <2>1. PICK q : q = clausesToImport[s]
    OBVIOUS
  <2>2. Takes(q, <<Head(q)>>, <<>>, Tail(q))
    BY <1>1, <1>3, <2>1, HeadTakes DEF ImportClause
  <2>3. TakesClauses(s, <<Head(q)>>, <<>>, Tail(q))
    BY <1>3, <2>1, <2>2 DEF ImportClause, TakesClauses
  <2> QED
    BY <2>3
<1>4. CASE consumeUnits(s)
  <2>1. PICK q : q = unitsToImport[s]
    OBVIOUS
  <2>2. PICK k \in 0..Len(q) :
          /\ heap' = releaseClauses(Occurrences(Got(q, k)), Occurrences(Dropped(q, k)))
          /\ unitsToImport' = [unitsToImport EXCEPT ![s] = Left(q, k)]
    BY <1>4, <2>1 DEF consumeUnits
  <2>3. q \in Seq(Addr)
    BY <1>1, <2>1
  <2>4. \A a : /\ Got(q, k) \in Seq(Addr) /\ Dropped(q, k) \in Seq(Addr) /\ Left(q, k) \in Seq(Addr)
               /\ Count(q, a) = Count(Got(q, k), a) + Count(Dropped(q, k), a) + Count(Left(q, k), a)
    BY <2>3, CountGot
  <2>5. Takes(q, Got(q, k), Dropped(q, k), Left(q, k))
    BY <2>4 DEF Takes
  <2>6. TakesUnits(s, Got(q, k), Dropped(q, k), Left(q, k))
    BY <1>4, <2>1, <2>2, <2>5 DEF consumeUnits, TakesUnits
  <2> QED
    BY <2>6
<1> QED
  BY <1>2, <1>3, <1>4 DEF Import, minisatImport, glucoseImport, mapleImport, consumeCls

LEMMA MemoryImport ==
    ASSUME SharingAssumption, Setting, ControlInv, MemoryInv, NEW s \in Id, Import(s)
    PROVE  MemoryInv' /\ HeapStays
<1>1. /\ conf' = conf /\ clausesToExport' = clausesToExport /\ pc' = pc
      /\ UNCHANGED <<pc, listVars, roundVars>>
  BY DEF Import
<1>2. PICK g, d, l : TakesUnits(s, g, d, l) \/ TakesClauses(s, g, d, l)
  BY ImportTakes
<1>3. /\ clausesToExport \in Queues /\ unitsToImport \in Queues /\ clausesToImport \in Queues
      /\ l \in Seq(Addr)
  BY <1>2 DEF MemoryInv, Queues, TakesUnits, TakesClauses, Takes
<1>4. PICK m : m = releaseClauses(Occurrences(g), Occurrences(d))
  OBVIOUS
<1>5. CASE TakesUnits(s, g, d, l)
  <2>1. /\ Takes(unitsToImport[s], g, d, l) /\ heap' = m
        /\ unitsToImport' = [unitsToImport EXCEPT ![s] = l] /\ clausesToImport' = clausesToImport
    BY <1>4, <1>5 DEF TakesUnits
  <2>2. PICK q : q = unitsToImport[s]
    OBVIOUS
  <2>3. PICK delta : delta = [a \in Addr |-> Count(l, a) - Count(q, a)]
    OBVIOUS
  <2>4. Becomes(m, delta)
    BY <1>4, <2>1, <2>2, <2>3, TakesLive
  <2>5. /\ clausesToExport' \in Queues /\ unitsToImport' \in Queues /\ clausesToImport' \in Queues
        /\ unitsToImport'[s] = l /\ \A t \in Id : t # s => unitsToImport'[t] = unitsToImport[t]
    BY <1>1, <1>3, <2>1 DEF Queues
  <2>6. QueuesMove(s)
    BY <1>1, <2>1, <2>5, QueuesMoveIs
  <2>7. ASSUME NEW a \in Addr
        PROVE  delta[a] = QueueTerm(clausesToExport', unitsToImport', clausesToImport', s, a)
                            - QueueTerm(clausesToExport, unitsToImport, clausesToImport, s, a)
    <3>1. PICK x, y, z, w : /\ x = Count(clausesToExport[s], a) /\ y = Count(q, a)
                            /\ z = Count(clausesToImport[s], a) /\ w = Count(l, a)
      OBVIOUS
    <3>2. x \in Nat /\ y \in Nat /\ z \in Nat
      BY <2>2, <3>1, QueuedIsLive
    <3>3. w \in Nat
      BY <1>3, <3>1, CountOf
    <3>4. QueueTerm(clausesToExport', unitsToImport', clausesToImport', s, a) = x + w + z
      BY <1>1, <2>1, <2>5, <3>1 DEF QueueTerm
    <3>5. QueueTerm(clausesToExport, unitsToImport, clausesToImport, s, a) = x + y + z
      BY <2>2, <3>1 DEF QueueTerm
    <3>6. w - y = (x + w + z) - (x + y + z)
      BY <3>2, <3>3
    <3> QED
      BY <2>3, <3>1, <3>4, <3>5, <3>6
  <2> QED
    BY <1>1, <2>1, <2>4, <2>5, <2>6, <2>7, MemoryQueue
<1>6. CASE TakesClauses(s, g, d, l)
  <2>1. /\ Takes(clausesToImport[s], g, d, l) /\ heap' = m
        /\ clausesToImport' = [clausesToImport EXCEPT ![s] = l] /\ unitsToImport' = unitsToImport
    BY <1>4, <1>6 DEF TakesClauses
  <2>2. PICK q : q = clausesToImport[s]
    OBVIOUS
  <2>3. PICK delta : delta = [a \in Addr |-> Count(l, a) - Count(q, a)]
    OBVIOUS
  <2>4. Becomes(m, delta)
    BY <1>4, <2>1, <2>2, <2>3, TakesLive
  <2>5. /\ clausesToExport' \in Queues /\ unitsToImport' \in Queues /\ clausesToImport' \in Queues
        /\ clausesToImport'[s] = l /\ \A t \in Id : t # s => clausesToImport'[t] = clausesToImport[t]
    BY <1>1, <1>3, <2>1 DEF Queues
  <2>6. QueuesMove(s)
    BY <1>1, <2>1, <2>5, QueuesMoveIs
  <2>7. ASSUME NEW a \in Addr
        PROVE  delta[a] = QueueTerm(clausesToExport', unitsToImport', clausesToImport', s, a)
                            - QueueTerm(clausesToExport, unitsToImport, clausesToImport, s, a)
    <3>1. PICK x, y, z, w : /\ x = Count(clausesToExport[s], a) /\ y = Count(q, a)
                            /\ z = Count(unitsToImport[s], a) /\ w = Count(l, a)
      OBVIOUS
    <3>2. x \in Nat /\ y \in Nat /\ z \in Nat
      BY <2>2, <3>1, QueuedIsLive
    <3>3. w \in Nat
      BY <1>3, <3>1, CountOf
    <3>4. QueueTerm(clausesToExport', unitsToImport', clausesToImport', s, a) = x + z + w
      BY <1>1, <2>1, <2>5, <3>1 DEF QueueTerm
    <3>5. QueueTerm(clausesToExport, unitsToImport, clausesToImport, s, a) = x + z + y
      BY <2>2, <3>1 DEF QueueTerm
    <3>6. w - y = (x + z + w) - (x + z + y)
      BY <3>2, <3>3
    <3> QED
      BY <2>3, <3>1, <3>4, <3>5, <3>6
  <2> QED
    BY <1>1, <2>1, <2>4, <2>5, <2>6, <2>7, MemoryQueue
<1> QED
  BY <1>2, <1>5, <1>6

\* The queues of deleted solvers: what the places of a clause in them add up to.
DeletedTerm(S, a) ==
    [s \in Id |-> IF s \in S THEN Count(clausesToExport[s] \o unitsToImport[s] \o clausesToImport[s], a) ELSE 0]
DeletedSum(S, a) == Total(DeletedTerm(S, a), MaxId)

LEMMA ContentIs ==
    ASSUME MemoryInv, NEW s \in Id, NEW a
    PROVE  Count(clausesToExport[s] \o unitsToImport[s] \o clausesToImport[s], a)
              = QueueTerm(clausesToExport, unitsToImport, clausesToImport, s, a)
<1>1. PICK e, u, c : e = clausesToExport[s] /\ u = unitsToImport[s] /\ c = clausesToImport[s]
  OBVIOUS
<1>2. e \in Seq(Addr) /\ u \in Seq(Addr) /\ c \in Seq(Addr)
  BY <1>1 DEF MemoryInv
<1>3. PICK v : v = e \o u
  OBVIOUS
<1>4. v \in Seq(Addr) /\ Joins(v, e, u)
  BY <1>2, <1>3, CountConcat
<1>5. Joins(v \o c, v, c)
  BY <1>2, <1>4, CountConcat
<1>6. Count(v \o c, a) = Count(v, a) + Count(c, a) /\ Count(v, a) = Count(e, a) + Count(u, a)
  BY <1>4, <1>5 DEF Joins
<1> QED
  BY <1>1, <1>3, <1>6 DEF QueueTerm

Deleted(f, v, d, G, L, a) ==
    /\ f \in Queues /\ v \in Queues /\ d \in Queues
    /\ DeletedSum(G, a) \in Nat /\ DeletedSum(L, a) \in Nat
    /\ InQueues(a) = QueueSum(f, v, d, a) + (DeletedSum(G, a) + DeletedSum(L, a))

\* What is left in the queues, and what was in those of the deleted solvers.
LEMMA DeletedIs ==
    ASSUME SharingAssumption, Setting, MemoryInv, NEW gone, NEW G, NEW L,
           G \cup L = gone, G \cap L = {}, NEW f, NEW v, NEW d,
           f = [s \in Id |-> IF s \in gone THEN <<>> ELSE clausesToExport[s]],
           v = [s \in Id |-> IF s \in gone THEN <<>> ELSE unitsToImport[s]],
           d = [s \in Id |-> IF s \in gone THEN <<>> ELSE clausesToImport[s]], NEW a
    PROVE  Deleted(f, v, d, G, L, a)
<1>1. /\ clausesToExport \in Queues /\ unitsToImport \in Queues /\ clausesToImport \in Queues
      /\ MaxId \in Nat /\ Id = 1..MaxId
  BY SumsOf DEF SharingAssumption, Id
<1>2. f \in Queues /\ v \in Queues /\ d \in Queues
  BY <1>1, CountEmpty DEF Queues
<1>3. PICK x, y, g, l : /\ x = [s \in Id |-> QueueTerm(clausesToExport, unitsToImport, clausesToImport, s, a)]
                        /\ y = [s \in Id |-> QueueTerm(f, v, d, s, a)]
                        /\ g = DeletedTerm(G, a) /\ l = DeletedTerm(L, a)
  OBVIOUS
<1>8. PICK z : z = [s \in Id |-> g[s] + l[s]]
  OBVIOUS
<1>4. ASSUME NEW s \in Id
      PROVE  /\ x[s] \in Nat /\ y[s] \in Nat /\ g[s] \in Nat /\ l[s] \in Nat /\ z[s] = g[s] + l[s]
             /\ x[s] = y[s] + z[s]
  <2>1. PICK t, c : t = QueueTerm(clausesToExport, unitsToImport, clausesToImport, s, a)
                    /\ c = QueueTerm(f, v, d, s, a)
    OBVIOUS
  <2>2. t \in Nat /\ c \in Nat
    BY <1>1, <1>2, <2>1, QueueSumOf
  <2>3. /\ g[s] = IF s \in G THEN t ELSE 0
        /\ l[s] = IF s \in L THEN t ELSE 0
    BY <1>3, <2>1, ContentIs DEF DeletedTerm
  <2>4. CASE s \in gone
    <3>1. f[s] = <<>> /\ v[s] = <<>> /\ d[s] = <<>>
      BY <2>4
    <3>2. Count(<<>>, a) = 0
      BY CountEmpty
    <3>3. c = 0
      BY <2>1, <3>1, <3>2 DEF QueueTerm
    <3>4. (s \in G /\ s \notin L) \/ (s \notin G /\ s \in L)
      BY <2>4
    <3>5. x[s] = t /\ y[s] = 0 /\ z[s] = g[s] + l[s]
      BY <1>3, <1>8, <2>1, <3>3
    <3> QED
      BY <2>2, <2>3, <3>4, <3>5
  <2>5. CASE s \notin gone
    <3>1. f[s] = clausesToExport[s] /\ v[s] = unitsToImport[s] /\ d[s] = clausesToImport[s]
      BY <2>5
    <3>3. c = t
      BY <2>1, <3>1 DEF QueueTerm
    <3>4. s \notin G /\ s \notin L
      BY <2>5
    <3>5. x[s] = t /\ y[s] = t /\ z[s] = g[s] + l[s]
      BY <1>3, <1>8, <2>1, <3>3
    <3> QED
      BY <2>2, <2>3, <3>4, <3>5
  <2> QED
    BY <2>4, <2>5
<1>5. Total(g, MaxId) \in Nat /\ Total(l, MaxId) \in Nat
  BY <1>1, <1>4, TotalNat
<1>6. Total(z, MaxId) = Total(g, MaxId) + Total(l, MaxId)
  <2>1. \A k \in 1..MaxId : g[k] \in Int /\ l[k] \in Int /\ z[k] = g[k] + l[k]
    BY <1>1, <1>4
  <2> QED
    BY <1>1, <2>1, TotalAdd
<1>7. Total(x, MaxId) = Total(y, MaxId) + Total(z, MaxId)
  <2>1. \A k \in Id : y[k] \in Int /\ z[k] \in Int /\ x[k] = y[k] + z[k]
    <3>1. ASSUME NEW k \in Id PROVE y[k] \in Int /\ z[k] \in Int
      <4>1. g[k] \in Nat /\ l[k] \in Nat /\ z[k] = g[k] + l[k] /\ y[k] \in Nat
        BY <1>4
      <4> QED
        BY <4>1
    <3> QED
      BY <1>4, <3>1
  <2>2. \A k \in 1..MaxId : y[k] \in Int /\ z[k] \in Int /\ x[k] = y[k] + z[k]
    BY <1>1, <2>1
  <2> QED
    BY <1>1, <2>2, TotalAdd
<1> QED
  BY <1>2, <1>3, <1>5, <1>6, <1>7 DEF InQueues, QueueSum, DeletedSum, Deleted

\* Solvers are deleted.
LEMMA MemoryGone ==
    ASSUME SharingAssumption, Setting, MemoryInv, conf' = conf, NEW gone, deleteSolvers(gone),
           tmp' = tmp, database' = database, \A h \in Sharers : Round(h)',
           \A h \in Sharers : pc'[h] = "put" <=> pc[h] = "put"
    PROVE  MemoryInv' /\ HeapStays
<1>1. PICK G, L : G = {s \in gone : kind[s] = "glucose"} /\ L = {s \in gone : kind[s] # "glucose"}
  OBVIOUS
<1>2. G \cup L = gone /\ G \cap L = {}
  BY <1>1
<1>3. PICK x, y : x = [a \in Addr |-> DeletedSum(G, a)] /\ y = [a \in Addr |-> DeletedSum(L, a)]
  OBVIOUS
<1>4. /\ heap' = releaseClauses(x, y)
      /\ clausesToExport' = [s \in Id |-> IF s \in gone THEN <<>> ELSE clausesToExport[s]]
      /\ unitsToImport' = [s \in Id |-> IF s \in gone THEN <<>> ELSE unitsToImport[s]]
      /\ clausesToImport' = [s \in Id |-> IF s \in gone THEN <<>> ELSE clausesToImport[s]]
  BY <1>1, <1>3 DEF deleteSolvers, DeletedSum, DeletedTerm
<1>5. /\ clausesToExport' \in Queues /\ unitsToImport' \in Queues /\ clausesToImport' \in Queues
      /\ \A a : /\ DeletedSum(G, a) \in Nat /\ DeletedSum(L, a) \in Nat
                /\ InQueues(a) = InQueues(a)' + (DeletedSum(G, a) + DeletedSum(L, a))
  <2>1. \A a : Deleted(clausesToExport', unitsToImport', clausesToImport', G, L, a)
    BY <1>2, <1>4, DeletedIs, ZenonT(60)
  <2> QED
    BY <2>1 DEF Deleted, InQueues
<1>6. PICK delta : delta = [a \in Addr |-> 0 - DeletedSum(G, a) - DeletedSum(L, a)]
  OBVIOUS
<1>7. heap \in Memory
  BY DEF MemoryInv
<1>8. ASSUME NEW a \in Addr
      PROVE  /\ x[a] \in Nat /\ y[a] \in Nat /\ delta[a] = 0 - x[a] - y[a] /\ x[a] + y[a] <= Live(heap[a])
             /\ InQueues(a)' - InQueues(a) = delta[a] /\ InQueues(a) \in Nat
             /\ InQueues(a)' \in Nat /\ InSharers(a) \in Nat
  <2>1. PICK k, l, m, n, o : /\ k = DeletedSum(G, a) /\ l = DeletedSum(L, a) /\ m = InQueues(a)
                             /\ n = InQueues(a)' /\ o = InSharers(a)
    OBVIOUS
  <2>2. k \in Nat /\ l \in Nat /\ m = n + (k + l)
    BY <1>5, <2>1
  <2>3. m \in Nat /\ o \in Nat /\ Live(heap[a]) = m + o
    BY <2>1, SumsOf
  <2>4. n \in Nat
    BY <1>5, <2>1, QueueSumOf DEF InQueues
  <2>5. x[a] = k /\ y[a] = l /\ delta[a] = 0 - k - l
    BY <1>3, <1>6, <2>1
  <2>6. k + l <= m + o /\ n - m = 0 - k - l
    BY <2>2, <2>3, <2>4
  <2> QED
    BY <2>1, <2>2, <2>3, <2>4, <2>5, <2>6
<1>9. Becomes(releaseClauses(x, y), delta)
  BY <1>7, <1>8, ReleaseIs
<1>10. PICK g : g = releaseClauses(x, y)
  OBVIOUS
<1>11. heap' = g /\ Becomes(g, delta)
  BY <1>4, <1>9, <1>10
<1>12. ASSUME NEW a \in Addr
       PROVE  InQueues(a)' + InSharers(a)' - InQueues(a) - InSharers(a) = Live(heap'[a]) - Live(heap[a])
  <2>1. SharerSum(pc', tmp, database, Len(SharersOf(conf)), a)
          = SharerSum(pc, tmp, database, Len(SharersOf(conf)), a)
    BY SharerSame DEF Setting
  <2>2. InSharers(a)' = InSharers(a)
    BY <2>1 DEF InSharers
  <2>3. Live(heap'[a]) = Live(heap[a]) + delta[a]
    BY <1>11 DEF Becomes
  <2>4. PICK k, l, m, d, p : /\ k = InQueues(a)' /\ l = InSharers(a) /\ m = InQueues(a) /\ d = delta[a]
                             /\ p = Live(heap[a])
    OBVIOUS
  <2>5. k \in Nat /\ l \in Nat /\ m \in Nat /\ k - m = d /\ p = m + l
    BY <1>8, <2>4, SumsOf
  <2>6. k + l - m - l = (p + d) - p
    BY <2>5
  <2> QED
    BY <2>2, <2>3, <2>4, <2>6
<1>13. ASSUME NEW h \in Sharers, NEW z \in 1..MaxSize, NEW a \in Set(database'[h][z]), heap'[a] # NoClause
       PROVE  heap'[a].size = z
  <2>1. a \in Addr /\ heap[a].size = z
    BY <1>13, UsedIsCell
  <2> QED
    BY <1>11, <1>13, <2>1 DEF Becomes
<1>14. tmp' \in [Sharers -> Seq(Addr)] /\ database' \in [Sharers -> DB] /\ heap' \in Memory
  BY <1>11 DEF MemoryInv, Becomes
<1> QED
  <2>1. HeapStays
    BY <1>11 DEF HeapStays, Becomes
  <2> QED
    BY <2>1, <1>5, <1>12, <1>13, <1>14, MemoryNext

\* The steps that move no clause.
LEMMA MemoryStill ==
    ASSUME SharingAssumption, Setting, MemoryInv,
           UNCHANGED <<conf, heap, queueVars, pc, producers, consumers, roundVars>>
    PROVE  MemoryInv' /\ HeapStays
<1>1. tmp' = tmp /\ database' = database /\ pc' = pc
  BY DEF roundVars
<1>2. \A h \in Sharers : Round(h)'
  BY RoundKept DEF roundVars, SameRound
<1> QED
  BY <1>1, <1>2, MemorySame

\* The steps that release solvers.
LEMMA MemoryRelease ==
    ASSUME SharingAssumption, Setting, MemoryInv, conf' = conf, NEW q, release(q),
           pc' = pc, producers' = producers, consumers' = consumers, roundVars' = roundVars
    PROVE  MemoryInv' /\ HeapStays
<1>1. PICK gone : deleteSolvers(gone)
  BY DEF release
<1>2. tmp' = tmp /\ database' = database
  BY DEF roundVars
<1>3. \A h \in Sharers : Round(h)'
  BY RoundKept DEF roundVars, SameRound
<1> QED
  BY <1>1, <1>2, <1>3, MemoryGone

LEMMA MemoryRemove ==
    ASSUME SharingAssumption, Setting, ControlInv, MemoryInv, NEW h \in Sharers, RemoveSolvers(h)
    PROVE  MemoryInv' /\ HeapStays
<1>1. /\ pc[h] = "collect" /\ pc' = [pc EXCEPT ![h] = IF globalEnding THEN "ended" ELSE "sleep"]
      /\ conf' = conf /\ tmp' = tmp /\ database' = database /\ i' = i /\ j' = j
      /\ \E q : producers' = [producers EXCEPT ![h] = q]
      /\ \E q : consumers' = [consumers EXCEPT ![h] = q]
  BY DEF RemoveSolvers, roundVars
<1>2. PICK gone : deleteSolvers(gone)
  BY DEF RemoveSolvers, release
<1>3. pc \in [Sharers -> Phases] /\ producers \in [Sharers -> Seq(Id)] /\ consumers \in [Sharers -> Seq(Id)]
  BY DEF ControlInv
<1>4. \A g \in Sharers : g # h => SameRound(g)
  BY <1>1, <1>3 DEF SameRound
<1>5. Round(h)'
  BY <1>1, <1>3 DEF Round, MemoryInv
<1>6. \A g \in Sharers : Round(g)'
  BY <1>4, <1>5, RoundKept
<1>7. \A g \in Sharers : pc'[g] = "put" <=> pc[g] = "put"
  BY <1>1, <1>3
<1> QED
  BY <1>1, <1>2, <1>6, <1>7, MemoryGone

LEMMA MemoryDeleteSharer ==
    ASSUME SharingAssumption, Setting, ControlInv, MemoryInv, NEW h \in Sharers, DeleteSharer(h)
    PROVE  MemoryInv' /\ HeapStays
<1>1. /\ pc[h] = "ended" /\ pc' = [pc EXCEPT ![h] = "deleted"]
      /\ conf' = conf /\ tmp' = tmp /\ database' = database /\ i' = i /\ j' = j
      /\ producers' = producers /\ consumers' = consumers
  BY DEF DeleteSharer, roundVars, listVars
<1>2. PICK gone : deleteSolvers(gone)
  BY DEF DeleteSharer, release
<1>3. pc \in [Sharers -> Phases]
  BY DEF ControlInv
<1>4. \A g \in Sharers : g # h => SameRound(g)
  BY <1>1, <1>3 DEF SameRound
<1>5. Round(h)'
  BY <1>1, <1>3 DEF Round, MemoryInv
<1>6. \A g \in Sharers : Round(g)'
  BY <1>4, <1>5, RoundKept
<1>7. \A g \in Sharers : pc'[g] = "put" <=> pc[g] = "put"
  BY <1>1, <1>3
<1> QED
  BY <1>1, <1>2, <1>6, <1>7, MemoryGone

LEMMA MemoryCall ==
    ASSUME SharingAssumption, Setting, MemoryInv, NEW s \in Id, Call(s)
    PROVE  MemoryInv' /\ HeapStays
<1>1. /\ conf' = conf /\ pc' = pc /\ producers' = producers /\ consumers' = consumers
      /\ roundVars' = roundVars
      /\ release(<<s>>) \/ (heap' = heap /\ queueVars' = queueVars)
  BY DEF Call, addConsumer, addProducer, removeConsumer, removeProducer
<1>2. CASE release(<<s>>)
  BY <1>1, <1>2, MemoryRelease
<1>3. CASE heap' = heap /\ queueVars' = queueVars
  BY <1>1, <1>3, MemoryStill
<1> QED
  BY <1>1, <1>2, <1>3, SMTT(40)

\* Every step keeps the references of the clauses.
LEMMA MemoryStep ==
    ASSUME SharingAssumption, ConfigsAssumption, ControlInv, MemoryInv, Next
    PROVE  MemoryInv'
<1>0. Setting
  BY SettingIs DEF ControlInv
<1>a. ASSUME NEW h \in Sharers, UseDeleted(h)
      PROVE  MemoryInv'
  BY <1>0, <1>a, MemoryStill DEF UseDeleted, listVars
<1>1. ASSUME NEW h \in Sharers, SharerStep(h) \/ DeleteSharer(h)
      PROVE  MemoryInv'
  BY <1>0, <1>1, <1>a, MemoryWake, MemoryCollectSimple, MemoryCollectHorde, MemoryCountRefs, MemoryPut,
     MemoryReleaseOwn, MemoryRemove, MemoryDeleteSharer DEF SharerStep
<1>2. ASSUME NEW s \in Id, SolverStep(s)
      PROVE  MemoryInv'
  BY <1>0, <1>2, MemoryExport, MemoryImport DEF SolverStep
<1>3. ASSUME NEW s \in Id, cloneSolver(s) \/ GiveUp(s) \/ End
      PROVE  MemoryInv'
  <2>1. UNCHANGED <<conf, heap, queueVars, pc, producers, consumers, roundVars>>
    BY <1>3 DEF cloneSolver, GiveUp, End, listVars
  <2> QED
    BY <1>0, <2>1, MemoryStill
<1>4. ASSUME NEW s \in Id, Call(s)
      PROVE  MemoryInv'
  BY <1>0, <1>4, MemoryCall
<1>5. ASSUME NEW s \in Id, DeleteWorker(s)
      PROVE  MemoryInv'
  <2>1. /\ release(<<s>>) /\ conf' = conf /\ pc' = pc /\ producers' = producers /\ consumers' = consumers
        /\ roundVars' = roundVars
    BY <1>5 DEF DeleteWorker, listVars
  <2> QED
    BY <1>0, <2>1, MemoryRelease
<1>6. ASSUME End
      PROVE  MemoryInv'
  <2>1. \E s : s \in Id
    BY DEF Id, SharingAssumption
  <2> QED
    BY <1>3, <1>6, <2>1
<1> QED
  BY <1>1, <1>2, <1>3, <1>4, <1>5, <1>6 DEF Next

\* At the start there is no clause.
LEMMA MemoryInit ==
    ASSUME SharingAssumption, ConfigsAssumption, Init
    PROVE  MemoryInv
<1>1. /\ heap = [a \in Addr |-> NoClause]
      /\ clausesToExport = [s \in Id |-> <<>>] /\ unitsToImport = [s \in Id |-> <<>>]
      /\ clausesToImport = [s \in Id |-> <<>>]
      /\ pc = [h \in Sharers |-> "sleep"] /\ tmp = [h \in Sharers |-> <<>>]
      /\ database = [h \in Sharers |-> [z \in 1..MaxSize |-> <<>>]]
      /\ conf \in Configs
  BY DEF Init, Sharers
<1>2. Setting
  BY <1>1, SettingIs
<1>3. <<>> \in Seq(Addr) /\ Set(<<>>) = {} /\ \A a : Count(<<>>, a) = 0
  BY CountEmpty
<1>4. /\ heap \in Memory /\ clausesToExport \in [Id -> Seq(Addr)] /\ unitsToImport \in [Id -> Seq(Addr)]
      /\ clausesToImport \in [Id -> Seq(Addr)] /\ tmp \in [Sharers -> Seq(Addr)]
      /\ database \in [Sharers -> DB] /\ \A h \in Sharers : Round(h) /\ Filed(database[h])
  BY <1>1, <1>3 DEF Memory, DB, Round, Filed
<1>5. ASSUME NEW a \in Addr
      PROVE  Places(a) = 0 /\ heap[a] = NoClause
  <2>1. PICK x, y : /\ x = [s \in Id |-> QueueTerm(clausesToExport, unitsToImport, clausesToImport, s, a)]
                    /\ y = [h \in 1..Len(SharersOf(conf)) |-> SharerTerm(pc, tmp, database, h, a)]
    OBVIOUS
  <2>2. \A s \in Id : x[s] = 0
    BY <1>1, <1>3, <2>1 DEF QueueTerm
  <2>3. MaxId \in Nat /\ Id = 1..MaxId /\ MaxSize \in Nat
    BY DEF SharingAssumption, Id
  <2>4. Total(x, MaxId) = 0
    BY <2>2, <2>3, TotalZero
  <2>5. ASSUME NEW h \in Sharers PROVE DbCount(database[h], a) = 0
    <3>1. PICK f : f = [z \in 1..MaxSize |-> Count(database[h][z], a)]
      OBVIOUS
    <3>2. \A z \in 1..MaxSize : f[z] = 0
      BY <1>1, <1>3, <3>1
    <3>3. Total(f, MaxSize) = 0
      BY <2>3, <3>2, TotalZero
    <3> QED
      BY <3>1, <3>3 DEF DbCount
  <2>6. Len(SharersOf(conf)) \in Nat /\ Sharers = 1..Len(SharersOf(conf))
    BY <1>2 DEF Setting
  <2>7. \A h \in 1..Len(SharersOf(conf)) : y[h] = 0
    <3>1. \A h \in Sharers : SharerTerm(pc, tmp, database, h, a) = 1 * 0 + 0
      BY <1>1, <1>3, <2>5 DEF SharerTerm
    <3>2. 1 * 0 + 0 = 0
      OBVIOUS
    <3> QED
      BY <2>1, <2>6, <3>1, <3>2
  <2>8. Total(y, Len(SharersOf(conf))) = 0
    BY <2>6, <2>7, TotalZero
  <2>9. InQueues(a) = 0 /\ InSharers(a) = 0
    BY <2>1, <2>4, <2>8 DEF InQueues, InSharers, QueueSum, SharerSum
  <2> QED
    BY <1>1, <1>2, <2>9, PlacesAre
<1> QED
  BY <1>4, <1>5 DEF MemoryInv, RefsAreCounted

LEMMA ProducingStep ==
    ASSUME SharingAssumption, ConfigsAssumption, ControlInv, Producing, Next
    PROVE  Producing'
<1>0. Setting
  BY SettingIs DEF ControlInv
<1>1. conf' = conf /\ Sharers' = Sharers
  BY DEF Next, SharerStep, SolverStep, UseDeleted, Wake, CollectSimple, CollectHorde, CountRefs, Put, ReleaseOwn,
         RemoveSolvers, DeleteSharer, Export, Import, cloneSolver, GiveUp, Call, DeleteWorker, End, Sharers
<1> SUFFICES ASSUME conf.wkr # 4
             PROVE  /\ \A h \in Sharers : Set(producers'[h]) \subseteq Set(SharersOf(conf)[h].from)
                                          /\ addProducers'[h] = <<>>
                    /\ \A s \in Id : \A n \in 1..Len(todo'[s]) : todo'[s][n][1] # "addProducer"
  BY <1>1 DEF Producing
<1>2. /\ \A h \in Sharers : Set(producers[h]) \subseteq Set(SharersOf(conf)[h].from)
                            /\ addProducers[h] = <<>>
      /\ \A s \in Id : \A n \in 1..Len(todo[s]) : todo[s][n][1] # "addProducer"
  BY DEF Producing
<1>3. /\ producers \in [Sharers -> Seq(Id)] /\ addProducers \in [Sharers -> Seq(Id)]
      /\ todo \in [Id -> Seq(Ops \X Nat)]
  BY DEF ControlInv
<1>4. CASE UNCHANGED <<producers, addProducers, todo>>
  BY <1>2, <1>4
<1>5. ASSUME NEW h \in Sharers, Wake(h)
      PROVE  Producing'
  <2>1. todo' = todo /\ (UNCHANGED <<producers, addProducers>>
                          \/ (/\ producers' = [producers EXCEPT ![h] = @ \o addProducers[h]]
                              /\ addProducers' = [addProducers EXCEPT ![h] = <<>>]))
    BY <1>5 DEF Wake, listVars, solverVars
  <2>2. producers[h] \o <<>> = producers[h] /\ addProducers[h] = <<>>
    BY <1>2, <1>3
  <2>3. \A g \in Sharers : producers'[g] = producers[g] /\ addProducers'[g] = addProducers[g]
    BY <1>3, <2>1, <2>2
  <2> QED
    BY <1>1, <1>2, <2>1, <2>3 DEF Producing
<1>6. ASSUME NEW h \in Sharers, RemoveSolvers(h)
      PROVE  Producing'
  <2>1. PICK S : S = Id \ Set(removeProducers[h])
    OBVIOUS
  <2>2. todo' = todo /\ addProducers' = addProducers /\ producers' = [producers EXCEPT ![h] = Filter(@, S)]
    BY <1>6, <2>1 DEF RemoveSolvers
  <2>3. Set(Filter(producers[h], S)) \subseteq Set(producers[h])
    <3>1. Set(Filter(producers[h], S)) = Set(producers[h]) \cap S
      BY <1>3, FilterSet
    <3> QED
      BY <3>1
  <2>4. \A g \in Sharers : Set(producers'[g]) \subseteq Set(producers[g])
    BY <1>3, <2>2, <2>3
  <2> QED
    BY <1>1, <1>2, <2>2, <2>4 DEF Producing
<1>7. ASSUME NEW s \in Id, cloneSolver(s)
      PROVE  Producing'
  <2>1. PICK q : q = addCalls
    OBVIOUS
  <2>2. q \in Seq({"addConsumer"} \X Sharers)
    BY <1>0, <2>1 DEF Setting, AddOps
  <2>3. \A n \in 1..Len(q) : q[n][1] = "addConsumer"
    BY <2>2
  <2>4. todo' = [todo EXCEPT ![s] = q] /\ UNCHANGED <<producers, addProducers>>
    BY <1>7, <2>1 DEF cloneSolver, listVars
  <2>5. \A t \in Id : todo'[t] = IF t = s THEN q ELSE todo[t]
    BY <1>3, <2>4
  <2>6. \A t \in Id : \A n \in 1..Len(todo'[t]) : todo'[t][n][1] # "addProducer"
    BY <1>2, <2>3, <2>5
  <2> QED
    BY <1>1, <1>2, <2>4, <2>6 DEF Producing
<1>8. ASSUME NEW s \in Id, GiveUp(s)
      PROVE  Producing'
  <2>1. PICK r, q : r = removeCalls /\ q = Append(r, <<"release", 0>>)
    OBVIOUS
  <2>2. r \in Seq({"removeConsumer"} \X Sharers)
    BY <1>0, <2>1 DEF Setting, RemoveOps
  <2>3. /\ Len(q) = Len(r) + 1 /\ Len(r) \in Nat /\ q[Len(r) + 1] = <<"release", 0>>
        /\ \A n \in 1..Len(r) : q[n] = r[n]
    BY <2>1, <2>2, AppendProperties
  <2>4. \A n \in 1..Len(r) : r[n][1] = "removeConsumer"
    BY <2>2
  <2>5. ASSUME NEW n \in 1..Len(q) PROVE q[n][1] # "addProducer"
    <3>1. n = Len(r) + 1 \/ n \in 1..Len(r)
      BY <2>3
    <3> QED
      BY <2>3, <2>4, <3>1
  <2>6. todo' = [todo EXCEPT ![s] = q] /\ UNCHANGED <<producers, addProducers>>
    BY <1>8, <2>1 DEF GiveUp, listVars
  <2>7. \A t \in Id : todo'[t] = IF t = s THEN q ELSE todo[t]
    BY <1>3, <2>6
  <2>8. \A t \in Id : \A n \in 1..Len(todo'[t]) : todo'[t][n][1] # "addProducer"
    BY <1>2, <2>5, <2>7
  <2> QED
    BY <1>1, <1>2, <2>6, <2>8 DEF Producing
<1>9. ASSUME NEW s \in Id, Call(s)
      PROVE  Producing'
  <2>1. PICK q, r : q = todo[s] /\ r = Tail(q)
    OBVIOUS
  <2>2. q \in Seq(Ops \X Nat) /\ q # <<>> /\ \A n \in 1..Len(q) : q[n][1] # "addProducer"
    BY <1>2, <1>3, <1>9, <2>1 DEF Call
  <2>3. /\ Head(q) = q[1] /\ Len(q) >= 1 /\ Len(q) \in Nat /\ r \in Seq(Ops \X Nat) /\ Len(r) = Len(q) - 1
        /\ \A n \in 1..Len(r) : r[n] = q[n + 1]
    BY <2>1, <2>2, HeadTailProperties, SMTT(40)
  <2>4. ASSUME NEW n \in 1..Len(r) PROVE r[n][1] # "addProducer"
    <3>1. n + 1 \in 1..Len(q) /\ r[n] = q[n + 1]
      BY <2>3
    <3> QED
      BY <2>2, <3>1
  <2>5. Head(q)[1] # "addProducer"
    BY <2>2, <2>3, SMTT(40)
  <2>6. todo' = [todo EXCEPT ![s] = r] /\ producers' = producers /\ addProducers' = addProducers
    BY <1>9, <2>1, <2>5 DEF Call, addConsumer, removeConsumer, removeProducer
  <2>7. \A t \in Id : todo'[t] = IF t = s THEN r ELSE todo[t]
    BY <1>3, <2>6, SMTT(40)
  <2>8. \A t \in Id : \A n \in 1..Len(todo'[t]) : todo'[t][n][1] # "addProducer"
    BY <1>2, <2>4, <2>7
  <2> QED
    BY <1>1, <1>2, <2>6, <2>8 DEF Producing
<1>10. ASSUME NEW h \in Sharers,
              \/ UseDeleted(h) \/ CollectSimple(h) \/ CollectHorde(h) \/ CountRefs(h)
              \/ Put(h) \/ ReleaseOwn(h) \/ DeleteSharer(h)
       PROVE  UNCHANGED <<producers, addProducers, todo>>
  BY <1>10 DEF UseDeleted, CollectSimple, CollectHorde, CountRefs, Put, ReleaseOwn, DeleteSharer, listVars, solverVars
<1>11. ASSUME NEW s \in Id, SolverStep(s) \/ DeleteWorker(s)
       PROVE  UNCHANGED <<producers, addProducers, todo>>
  BY <1>11 DEF SolverStep, Export, Import, DeleteWorker, listVars, solverVars
<1>12. ASSUME End PROVE UNCHANGED <<producers, addProducers, todo>>
  BY <1>12 DEF End, listVars, solverVars
<1> QED
  BY <1>1, <1>4, <1>5, <1>6, <1>7, <1>8, <1>9, <1>10, <1>11, <1>12 DEF Next, SharerStep, Producing

\* A step that brings no clause to an import queue.
LEMMA OriginNext ==
    ASSUME Setting, MemoryInv, OriginInv, conf' = conf, HeapStays,
           \A s \in Id : Set(clausesToExport'[s]) \subseteq Set(clausesToExport[s]),
           \A h \in Sharers : \A z \in 1..MaxSize : \A a \in Set(database'[h][z]) :
              a \in Addr /\ Passes(a, SharersOf(conf)[h].from[1]),
           \A h \in Sharers : \A a \in Set(tmp'[h]) : a \in Addr /\ Passes(a, producers'[h][i'[h]]),
           \A s \in Id : \A a \in Set(unitsToImport'[s]) \cup Set(clausesToImport'[s]) :
              a \in Addr /\ Arrives(a, s)
    PROVE  OriginInv'
<1>1. Sharers' = Sharers /\ (Alone' <=> Alone) /\ \A s : Restricted(s)' <=> Restricted(s)
  BY DEF Sharers, Alone, Strategy, Restricted
<1>2. ASSUME NEW s \in Id, NEW a \in Set(clausesToExport'[s]), heap'[a] # NoClause
      PROVE  heap'[a].from = s
  <2>1. a \in Set(clausesToExport[s]) /\ clausesToExport[s] \in Seq(Addr)
    BY DEF MemoryInv
  <2>2. a \in Addr
    BY <2>1, CountOf
  <2>3. heap[a] # NoClause /\ heap'[a].from = heap[a].from
    BY <1>2, <2>2 DEF HeapStays
  <2> QED
    BY <2>1, <2>3 DEF OriginInv
<1>3. ASSUME NEW a \in Addr, NEW s, Passes(a, s), heap'[a] # NoClause
      PROVE  ~Restricted(heap'[a].from) /\ (Alone => heap'[a].from = s)
  BY <1>3 DEF Passes, HeapStays
<1>4. ASSUME NEW a \in Addr, NEW s, Arrives(a, s), heap'[a] # NoClause
      PROVE  ~Restricted(heap'[a].from) /\ (Alone => heap'[a].from # s)
  BY <1>4 DEF Arrives, HeapStays
<1>5. ASSUME NEW h \in Sharers, NEW z \in 1..MaxSize, NEW a \in Set(database'[h][z])
      PROVE  Passes(a, SharersOf(conf)[h].from[1])'
  <2>1. a \in Addr /\ Passes(a, SharersOf(conf)[h].from[1])
    OBVIOUS
  <2>2. heap'[a] # NoClause => ~Restricted(heap'[a].from) /\ (Alone => heap'[a].from = SharersOf(conf)[h].from[1])
    BY <1>3, <2>1
  <2> QED
    BY <1>1, <2>2 DEF Passes
<1>6. ASSUME NEW h \in Sharers, NEW a \in Set(tmp'[h])
      PROVE  Passes(a, producers[h][i[h]])'
  <2>1. a \in Addr /\ Passes(a, producers'[h][i'[h]])
    OBVIOUS
  <2>2. heap'[a] # NoClause => ~Restricted(heap'[a].from) /\ (Alone => heap'[a].from = producers'[h][i'[h]])
    BY <1>3, <2>1
  <2> QED
    BY <1>1, <2>2 DEF Passes
<1>7. ASSUME NEW s \in Id, NEW a \in Set(unitsToImport'[s]) \cup Set(clausesToImport'[s])
      PROVE  Arrives(a, s)'
  <2>1. a \in Addr /\ Arrives(a, s)
    OBVIOUS
  <2>2. heap'[a] # NoClause => ~Restricted(heap'[a].from) /\ (Alone => heap'[a].from # s)
    BY <1>4, <2>1
  <2> QED
    BY <1>1, <2>2 DEF Arrives
<1> QED
  BY <1>1, <1>2, <1>5, <1>6, <1>7 DEF OriginInv

\* A step after which there is nothing new anywhere.
LEMMA OriginShrinks ==
    ASSUME SharingAssumption, Setting, MemoryInv, OriginInv, conf' = conf, HeapStays, database' = database,
           \A s \in Id : /\ Set(clausesToExport'[s]) \subseteq Set(clausesToExport[s])
                         /\ Set(unitsToImport'[s]) \subseteq Set(unitsToImport[s])
                         /\ Set(clausesToImport'[s]) \subseteq Set(clausesToImport[s]),
           \A h \in Sharers : tmp'[h] = <<>>
                              \/ (tmp'[h] = tmp[h] /\ producers'[h][i'[h]] = producers[h][i[h]])
    PROVE  OriginInv'
<1>1. ASSUME NEW h \in Sharers, NEW a \in Set(tmp'[h])
      PROVE  a \in Addr /\ Passes(a, producers'[h][i'[h]])
  <2>1. Set(<<>>) = {}
    BY CountEmpty
  <2>2. tmp'[h] = tmp[h] /\ producers'[h][i'[h]] = producers[h][i[h]]
    BY <2>1
  <2>3. a \in Set(tmp[h])
    BY <2>2
  <2> QED
    BY <2>2, <2>3, UsedIsCell DEF OriginInv
<1>2. ASSUME NEW s \in Id, NEW a \in Set(unitsToImport'[s]) \cup Set(clausesToImport'[s])
      PROVE  a \in Addr /\ Arrives(a, s)
  <2>1. a \in Set(unitsToImport[s]) \cup Set(clausesToImport[s])
    OBVIOUS
  <2> QED
    BY <2>1, UsedIsCell DEF OriginInv
<1>3. ASSUME NEW h \in Sharers, NEW z \in 1..MaxSize, NEW a \in Set(database'[h][z])
      PROVE  a \in Addr /\ Passes(a, SharersOf(conf)[h].from[1])
  BY UsedIsCell DEF OriginInv
<1> QED
  BY <1>1, <1>2, <1>3, OriginNext

\* Where the clauses of a producer are from.
LEMMA ProducedBy ==
    ASSUME Setting, ControlInv, Producing, NEW h \in Sharers, NEW s, s \in Set(producers[h])
    PROVE  /\ ~Restricted(s)
           /\ Alone /\ Strategy(h) = "horde" => s = SharersOf(conf)[h].from[1]
<1>1. SharerOf(SharersOf(conf)[h], Len(conf.solvers), conf.wkr = 4)
  BY DEF Setting
<1>2. PICK q : q = SharersOf(conf)[h].from
  OBVIOUS
<1>3. q \in Seq(Id) /\ Set(q) \subseteq 1..Len(conf.solvers)
  BY <1>1, <1>2 DEF SharerOf
<1>4. conf.wkr # 4 => s \in Set(q)
  BY <1>2 DEF Producing
<1>5. ~Restricted(s)
  BY <1>3, <1>4 DEF Restricted, Setting
<1>6. ASSUME Alone, Strategy(h) = "horde" PROVE s = q[1]
  <2>1. Len(q) = 1 /\ conf.wkr # 4
    BY <1>2, <1>6 DEF Alone
  <2>2. s \in Set(q)
    BY <1>4, <2>1
  <2> QED
    BY <1>3, <2>1, <2>2 DEF Set
<1> QED
  BY <1>2, <1>5, <1>6

\* What getClauses takes and leaves was in the queue.
LEMMA GotSet ==
    ASSUME NEW S, NEW q \in Seq(S), NEW k \in 0..Len(q)
    PROVE  Set(Got(q, k)) \subseteq Set(q) /\ Set(Left(q, k)) \subseteq Set(q)
<1>1. PICK g, d, l : g = Got(q, k) /\ d = Dropped(q, k) /\ l = Left(q, k)
  OBVIOUS
<1>2. /\ g \in Seq(S) /\ d \in Seq(S) /\ l \in Seq(S)
      /\ \A a : Count(q, a) = Count(g, a) + Count(d, a) + Count(l, a)
  BY <1>1, CountGot
<1>3. ASSUME NEW a, a \in Set(g) \/ a \in Set(l) PROVE a \in Set(q)
  <2>1. PICK x, y, z, w : x = Count(q, a) /\ y = Count(g, a) /\ z = Count(d, a) /\ w = Count(l, a)
    OBVIOUS
  <2>2. x = y + z + w
    BY <1>2, <2>1
  <2>3. x \in Nat /\ y \in Nat /\ z \in Nat /\ w \in Nat
    BY <1>2, <2>1, CountOf
  <2>4. y > 0 \/ w > 0
    BY <1>2, <1>3, <2>1, CountOf
  <2>5. x > 0
    BY <2>2, <2>3, <2>4
  <2> QED
    BY <2>1, <2>5, CountOf
<1> QED
  BY <1>1, <1>3

LEMMA OriginCollectSimple ==
    ASSUME SharingAssumption, Setting, ControlInv, MemoryInv, Producing, OriginInv,
           NEW h \in Sharers, CollectSimple(h)
    PROVE  OriginInv'
<1>1. HeapStays
  BY MemoryCollectSimple
<1>2. PICK s : s = producers[h][i[h]]
  OBVIOUS
<1>3. s \in Id /\ s \in Set(producers[h]) /\ producers[h] \in Seq(Id) /\ i[h] \in 1..Len(producers[h])
  <2>1. producers[h] \in Seq(Id) /\ i[h] \in Nat \ {0} /\ i[h] <= Len(producers[h])
    BY DEF CollectSimple, ControlInv
  <2> QED
    BY <1>2, <2>1 DEF Set
<1>4. PICK k \in 0..Len(clausesToExport[s]) :
              /\ tmp' = [tmp EXCEPT ![h] = Got(clausesToExport[s], k)]
              /\ clausesToExport' = [clausesToExport EXCEPT ![s] = Left(@, k)]
  BY <1>2 DEF CollectSimple
<1>5. /\ conf' = conf /\ unitsToImport' = unitsToImport /\ clausesToImport' = clausesToImport
      /\ database' = database /\ i' = i /\ producers' = producers
  BY DEF CollectSimple, listVars
<1>6. clausesToExport \in [Id -> Seq(Addr)] /\ tmp \in [Sharers -> Seq(Addr)]
  BY DEF MemoryInv
<1>7. PICK g, l : g = Got(clausesToExport[s], k) /\ l = Left(clausesToExport[s], k)
  OBVIOUS
<1>8. Set(g) \subseteq Set(clausesToExport[s]) /\ Set(l) \subseteq Set(clausesToExport[s])
  BY <1>3, <1>6, <1>7, GotSet
<1>9. \A t \in Id : Set(clausesToExport'[t]) \subseteq Set(clausesToExport[t])
  BY <1>4, <1>6, <1>7, <1>8
<1>10. ASSUME NEW f \in Sharers, NEW a \in Set(tmp'[f])
       PROVE  a \in Addr /\ Passes(a, producers'[f][i'[f]])
  <2>1. CASE f = h
    <3>1. a \in Set(clausesToExport[s])
      BY <1>4, <1>6, <1>7, <1>8, <1>10, <2>1
    <3>2. a \in Addr /\ (heap[a] # NoClause => heap[a].from = s)
      BY <1>3, <3>1, UsedIsCell DEF OriginInv
    <3>3. ~Restricted(s)
      BY <1>3, ProducedBy
    <3> QED
      BY <1>2, <1>5, <2>1, <3>2, <3>3 DEF Passes
  <2>2. CASE f # h
    <3>1. a \in Set(tmp[f])
      BY <1>4, <1>6, <1>10, <2>2
    <3> QED
      BY <1>5, <3>1, UsedIsCell DEF OriginInv
  <2> QED
    BY <2>1, <2>2
<1>11. ASSUME NEW t \in Id, NEW a \in Set(unitsToImport'[t]) \cup Set(clausesToImport'[t])
       PROVE  a \in Addr /\ Arrives(a, t)
  BY <1>5, UsedIsCell DEF OriginInv
<1>12. ASSUME NEW f \in Sharers, NEW z \in 1..MaxSize, NEW a \in Set(database'[f][z])
       PROVE  a \in Addr /\ Passes(a, SharersOf(conf)[f].from[1])
  BY <1>5, UsedIsCell DEF OriginInv
<1> QED
  BY <1>1, <1>5, <1>9, <1>10, <1>11, <1>12, OriginNext

\* What HordeSat makes of what it has collected.
LEMMA GathersKept ==
    ASSUME SharingAssumption, Setting, MemoryInv, NEW h \in Sharers, NEW s \in Id,
           NEW k \in 0..Len(clausesToExport[s]), NEW b, NEW r, Gathers(h, s, k, b, r)
    PROVE  /\ Kept(h, Got(clausesToExport[s], k), b, r)
           /\ Set(Got(clausesToExport[s], k)) \subseteq Set(clausesToExport[s])
           /\ Set(Left(clausesToExport[s], k)) \subseteq Set(clausesToExport[s])
<1>1. PICK q, g, l : q = clausesToExport[s] /\ g = Got(q, k) /\ l = Left(q, k)
  OBVIOUS
<1>2. q \in Seq(Addr) /\ k \in 0..Len(q)
  BY <1>1 DEF MemoryInv
<1>3. g \in Seq(Addr)
  BY <1>1, <1>2, CountGot
<1>4. Set(g) \subseteq Set(q) /\ Set(l) \subseteq Set(q)
  BY <1>1, <1>2, GotSet
<1>5. \A a \in Set(g) : heap[a] \in Cell
  BY <1>1, <1>4, UsedIsCell
<1>6. b = addClauses(database[h], g) /\ r = giveSelection(b.db)
  BY <1>1 DEF Gathers
<1>7. Kept(h, g, b, r)
  BY <1>3, <1>5, <1>6, KeptIs
<1> QED
  BY <1>1, <1>4, <1>7

LEMMA OriginCollectHorde ==
    ASSUME SharingAssumption, Setting, ControlInv, MemoryInv, Producing, OriginInv,
           NEW h \in Sharers, CollectHorde(h)
    PROVE  OriginInv'
<1>1. HeapStays
  BY MemoryCollectHorde
<1>2. PICK s : s = producers[h][i[h]]
  OBVIOUS
<1>3. s \in Id /\ s \in Set(producers[h]) /\ i[h] \in 1..Len(producers[h])
  <2>1. producers[h] \in Seq(Id) /\ i[h] \in 1..Len(producers[h]) /\ producers[h][i[h]] \in Id
    BY CollectHordeIs DEF ControlInv
  <2> QED
    BY <1>2, <2>1 DEF Set
<1>40. PICK k \in 0..Len(clausesToExport[s]) : \E b, r : Gathers(h, s, k, b, r)
  BY <1>2, CollectHordeIs
<1>4. PICK b, r : k \in 0..Len(clausesToExport[s]) /\ Gathers(h, s, k, b, r)
  BY <1>40
<1>5. /\ conf' = conf /\ unitsToImport' = unitsToImport /\ clausesToImport' = clausesToImport
      /\ i' = i /\ producers' = producers
  BY CollectHordeIs
<1>6. /\ clausesToExport \in [Id -> Seq(Addr)] /\ tmp \in [Sharers -> Seq(Addr)] /\ database \in [Sharers -> DB]
  BY DEF MemoryInv
<1>7. PICK g, l, t, db : /\ g = Got(clausesToExport[s], k) /\ l = Left(clausesToExport[s], k)
                         /\ t = r.selected /\ db = r.db
  OBVIOUS
<1>8. Kept(h, g, b, r) /\ Set(g) \subseteq Set(clausesToExport[s]) /\ Set(l) \subseteq Set(clausesToExport[s])
  BY <1>3, <1>4, <1>7, GathersKept
<1>9. /\ tmp' = [tmp EXCEPT ![h] = t] /\ database' = [database EXCEPT ![h] = db]
      /\ clausesToExport' = [clausesToExport EXCEPT ![s] = l]
  BY <1>4, <1>7 DEF Gathers
<1>10. \A o \in Id : Set(clausesToExport'[o]) \subseteq Set(clausesToExport[o])
  BY <1>6, <1>8, <1>9
<1>11. Strategy(h) = "horde" /\ ~Restricted(s) /\ (Alone => s = SharersOf(conf)[h].from[1])
  <2>1. Strategy(h) = "horde"
    BY DEF CollectHorde
  <2> QED
    BY <1>3, <2>1, ProducedBy
<1>12. ASSUME NEW a, a \in Set(g) \/ \E z \in 1..MaxSize : a \in Set(database[h][z])
       PROVE  a \in Addr /\ Passes(a, s)
  <2>1. CASE a \in Set(g)
    <3>1. a \in Addr /\ (heap[a] # NoClause => heap[a].from = s)
      BY <1>3, <1>8, <2>1, UsedIsCell DEF OriginInv
    <3> QED
      BY <1>11, <3>1 DEF Passes
  <2>2. CASE \E z \in 1..MaxSize : a \in Set(database[h][z])
    <3>1. a \in Addr /\ Passes(a, SharersOf(conf)[h].from[1])
      BY <2>2, UsedIsCell DEF OriginInv
    <3> QED
      BY <1>11, <3>1 DEF Passes
  <2> QED
    BY <1>12, <2>1, <2>2
<1>13. ASSUME NEW f \in Sharers, NEW a \in Set(tmp'[f])
       PROVE  a \in Addr /\ Passes(a, producers'[f][i'[f]])
  <2>1. CASE f = h
    <3>1. a \in Set(t)
      BY <1>6, <1>9, <1>13, <2>1
    <3>2. a \in Set(g) \/ \E z \in 1..MaxSize : a \in Set(database[h][z])
      BY <1>7, <1>8, <3>1 DEF Kept
    <3>3. a \in Addr /\ Passes(a, s)
      BY <1>12, <3>2
    <3> QED
      BY <1>2, <1>5, <2>1, <3>3
  <2>2. CASE f # h
    <3>1. a \in Set(tmp[f])
      BY <1>6, <1>9, <1>13, <2>2
    <3> QED
      BY <1>5, <3>1, UsedIsCell DEF OriginInv
  <2> QED
    BY <2>1, <2>2
<1>14. ASSUME NEW o \in Id, NEW a \in Set(unitsToImport'[o]) \cup Set(clausesToImport'[o])
       PROVE  a \in Addr /\ Arrives(a, o)
  BY <1>5, UsedIsCell DEF OriginInv
<1>15. ASSUME NEW f \in Sharers, NEW z \in 1..MaxSize, NEW a \in Set(database'[f][z])
       PROVE  a \in Addr /\ Passes(a, SharersOf(conf)[f].from[1])
  <2>1. CASE f = h
    <3>1. a \in Set(db[z])
      BY <1>6, <1>9, <1>15, <2>1
    <3>2. a \in Set(g) \/ \E y \in 1..MaxSize : a \in Set(database[h][y])
      BY <1>7, <1>8, <3>1 DEF Kept
    <3>3. a \in Addr /\ Passes(a, s)
      BY <1>12, <3>2
    <3> QED
      BY <1>11, <2>1, <3>3 DEF Passes
  <2>2. CASE f # h
    <3>1. a \in Set(database[f][z])
      BY <1>6, <1>9, <1>15, <2>2
    <3> QED
      BY <3>1, UsedIsCell DEF OriginInv
  <2> QED
    BY <2>1, <2>2
<1> QED
  BY <1>1, <1>5, <1>10, <1>13, <1>14, <1>15, OriginNext

LEMMA OriginPut ==
    ASSUME SharingAssumption, Setting, ControlInv, MemoryInv, OriginInv, NEW h \in Sharers, Put(h)
    PROVE  OriginInv'
<1>1. HeapStays
  BY MemoryPut
<1>2. PICK s, q, p : s = consumers[h][j[h]] /\ q = tmp[h] /\ p = producers[h][i[h]]
  OBVIOUS
<1>3. PICK v, w : /\ v = Filter(q, {a \in Set(q) : heap[a].size = 1})
                  /\ w = Filter(q, {a \in Set(q) : heap[a].size # 1})
  OBVIOUS
<1>4. /\ pc[h] = "put" /\ conf' = conf /\ clausesToExport' = clausesToExport
      /\ unitsToImport' = [unitsToImport EXCEPT ![s] = @ \o v]
      /\ clausesToImport' = [clausesToImport EXCEPT ![s] = @ \o w]
      /\ tmp' = tmp /\ database' = database /\ i' = i /\ producers' = producers
  BY <1>2, <1>3 DEF Put, addLearnedClauses, listVars
<1>5. /\ unitsToImport \in [Id -> Seq(Addr)] /\ clausesToImport \in [Id -> Seq(Addr)]
      /\ q \in Seq(Addr) /\ p # s
      /\ consumers[h] \in Seq(Id) /\ j[h] \in Nat \ {0} /\ j[h] <= Len(consumers[h])
  BY <1>2, <1>4 DEF MemoryInv, ControlInv, Round
<1>6. s \in Id
  BY <1>2, <1>5
<1>7. v \in Seq(Addr) /\ w \in Seq(Addr) /\ Set(v) \subseteq Set(q) /\ Set(w) \subseteq Set(q)
  <2>1. Splits(q, v, w)
    BY <1>3, <1>5, SplitIs
  <2> QED
    BY <2>1 DEF Splits
<1>8. ASSUME NEW a \in Set(q) PROVE a \in Addr /\ Arrives(a, s)
  <2>1. a \in Addr /\ Passes(a, p)
    BY <1>2, UsedIsCell DEF OriginInv
  <2> QED
    BY <1>5, <2>1 DEF Passes, Arrives
<1>9. PICK u, c : u = unitsToImport[s] /\ c = clausesToImport[s]
  OBVIOUS
<1>10. u \in Seq(Addr) /\ c \in Seq(Addr)
  BY <1>5, <1>6, <1>9
<1>11. Set(u \o v) = Set(u) \cup Set(v) /\ Set(c \o w) = Set(c) \cup Set(w)
  BY <1>7, <1>10, SetConcat
<1>12. ASSUME NEW t \in Id, NEW a \in Set(unitsToImport'[t]) \cup Set(clausesToImport'[t])
       PROVE  a \in Addr /\ Arrives(a, t)
  <2>1. CASE t = s
    <3>1. unitsToImport'[t] = u \o v /\ clausesToImport'[t] = c \o w
      BY <1>4, <1>5, <1>6, <1>9, <2>1
    <3>2. a \in Set(u) \cup Set(v) \cup Set(c) \cup Set(w)
      BY <1>11, <1>12, <3>1
    <3>3. CASE a \in Set(v) \cup Set(w)
      BY <1>7, <1>8, <2>1, <3>3
    <3>4. CASE a \in Set(u) \cup Set(c)
      BY <1>6, <1>9, <2>1, <3>4, UsedIsCell DEF OriginInv
    <3> QED
      BY <3>2, <3>3, <3>4
  <2>2. CASE t # s
    <3>1. unitsToImport'[t] = unitsToImport[t] /\ clausesToImport'[t] = clausesToImport[t]
      BY <1>4, <1>5, <2>2
    <3>2. a \in Set(unitsToImport[t]) \cup Set(clausesToImport[t])
      BY <3>1
    <3> QED
      BY <3>2, UsedIsCell DEF OriginInv
  <2> QED
    BY <2>1, <2>2
<1>13. ASSUME NEW f \in Sharers, NEW a \in Set(tmp'[f])
       PROVE  a \in Addr /\ Passes(a, producers'[f][i'[f]])
  BY <1>4, UsedIsCell DEF OriginInv
<1>14. ASSUME NEW f \in Sharers, NEW z \in 1..MaxSize, NEW a \in Set(database'[f][z])
       PROVE  a \in Addr /\ Passes(a, SharersOf(conf)[f].from[1])
  BY <1>4, UsedIsCell DEF OriginInv
<1> QED
  BY <1>1, <1>4, <1>12, <1>13, <1>14, OriginNext

\* A learned clause: what was in memory stays as it is.
LEMMA ExportIs ==
    ASSUME MemoryInv, NEW s \in Id, NEW z \in 1..MaxSize, Export(s, z)
    PROVE  \E a \in Addr :
              /\ heap[a] = NoClause /\ \A b \in Addr : b # a => heap'[b] = heap[b]
              /\ heap'[a].from = s
              /\ clausesToExport' = [clausesToExport EXCEPT ![s] = Append(@, a)]
<1>1. PICK a \in Addr : /\ allocClause(a, z, s)
                        /\ clausesToExport' = [clausesToExport EXCEPT ![s] = Append(@, a)]
  BY DEF Export
<1>2. heap \in Memory
  BY DEF MemoryInv
<1>3. /\ heap[a] = NoClause
      /\ heap' = [heap EXCEPT ![a] = [size |-> z, from |-> s, nbRefs |-> 1, lost |-> 0]]
  BY <1>1 DEF allocClause
<1>4. heap'[a].from = s /\ \A b \in Addr : b # a => heap'[b] = heap[b]
  BY <1>2, <1>3 DEF Memory
<1> QED
  BY <1>1, <1>3, <1>4

LEMMA OriginExport ==
    ASSUME SharingAssumption, Setting, MemoryInv, OriginInv,
           NEW s \in Id, NEW z \in 1..MaxSize, Export(s, z)
    PROVE  OriginInv'
<1>1. PICK a \in Addr :
              /\ heap[a] = NoClause /\ \A b \in Addr : b # a => heap'[b] = heap[b]
              /\ heap'[a].from = s
              /\ clausesToExport' = [clausesToExport EXCEPT ![s] = Append(@, a)]
  BY ExportIs
<1>2. /\ conf' = conf /\ unitsToImport' = unitsToImport /\ clausesToImport' = clausesToImport
      /\ database' = database /\ tmp' = tmp /\ i' = i /\ producers' = producers
  BY DEF Export, roundVars, listVars
<1>3. Sharers' = Sharers /\ (Alone' <=> Alone) /\ \A t : Restricted(t)' <=> Restricted(t)
  BY <1>2 DEF Sharers, Alone, Strategy, Restricted
<1>4. clausesToExport \in [Id -> Seq(Addr)]
  BY DEF MemoryInv
<1>5. Set(Append(clausesToExport[s], a)) = Set(clausesToExport[s]) \cup {a}
  BY <1>4, SetAppend
<1>6. ASSUME NEW t \in Id, NEW b \in Set(clausesToExport'[t]), heap'[b] # NoClause
      PROVE  heap'[b].from = t
  <2>1. CASE b \in Set(clausesToExport[t])
    <3>1. b \in Addr /\ heap[b] # NoClause
      BY <2>1, UsedIsCell
    <3>2. heap'[b] = heap[b]
      BY <1>1, <3>1
    <3> QED
      BY <2>1, <3>1, <3>2 DEF OriginInv
  <2>2. CASE b \notin Set(clausesToExport[t])
    <3>1. t = s
      BY <1>1, <1>4, <1>6, <2>2
    <3>2. clausesToExport'[s] = Append(clausesToExport[s], a)
      BY <1>1, <1>4
    <3>3. b = a
      BY <1>5, <1>6, <2>2, <3>1, <3>2
    <3> QED
      BY <1>1, <3>1, <3>3
  <2> QED
    BY <2>1, <2>2
<1>7. ASSUME NEW b, b \in Addr, heap[b] # NoClause
      PROVE  heap'[b] = heap[b]
  BY <1>1, <1>7
<1>8. ASSUME NEW h \in Sharers, NEW y \in 1..MaxSize, NEW b \in Set(database'[h][y])
      PROVE  Passes(b, SharersOf(conf)[h].from[1])'
  <2>1. b \in Addr /\ heap[b] # NoClause /\ Passes(b, SharersOf(conf)[h].from[1])
    BY <1>2, UsedIsCell DEF OriginInv
  <2>2. heap'[b] = heap[b]
    BY <1>7, <2>1
  <2> QED
    BY <1>2, <1>3, <2>1, <2>2 DEF Passes
<1>9. ASSUME NEW h \in Sharers, NEW b \in Set(tmp'[h])
      PROVE  Passes(b, producers[h][i[h]])'
  <2>1. b \in Addr /\ heap[b] # NoClause /\ Passes(b, producers[h][i[h]])
    BY <1>2, UsedIsCell DEF OriginInv
  <2>2. heap'[b] = heap[b]
    BY <1>7, <2>1
  <2> QED
    BY <1>2, <1>3, <2>1, <2>2 DEF Passes
<1>10. ASSUME NEW t \in Id, NEW b \in Set(unitsToImport'[t]) \cup Set(clausesToImport'[t])
       PROVE  Arrives(b, t)'
  <2>1. b \in Addr /\ heap[b] # NoClause /\ Arrives(b, t)
    BY <1>2, UsedIsCell DEF OriginInv
  <2>2. heap'[b] = heap[b]
    BY <1>7, <2>1
  <2> QED
    BY <1>3, <2>1, <2>2 DEF Arrives
<1> QED
  BY <1>3, <1>6, <1>8, <1>9, <1>10 DEF OriginInv

LEMMA OriginImport ==
    ASSUME SharingAssumption, Setting, ControlInv, MemoryInv, OriginInv, NEW s \in Id, Import(s)
    PROVE  OriginInv'
<1>1. HeapStays
  BY MemoryImport
<1>2. /\ conf' = conf /\ clausesToExport' = clausesToExport
      /\ database' = database /\ tmp' = tmp /\ i' = i /\ producers' = producers
  BY DEF Import, roundVars, listVars
<1>3. PICK g, d, l : TakesUnits(s, g, d, l) \/ TakesClauses(s, g, d, l)
  BY ImportTakes
<1>4. unitsToImport \in [Id -> Seq(Addr)] /\ clausesToImport \in [Id -> Seq(Addr)]
  BY DEF MemoryInv
<1>5. ASSUME NEW q, Takes(q, g, d, l), q \in Seq(Addr)
      PROVE  Set(l) \subseteq Set(q)
  <2>1. ASSUME NEW a \in Set(l) PROVE a \in Set(q)
    <3>1. PICK x, y, z, w : x = Count(q, a) /\ y = Count(g, a) /\ z = Count(d, a) /\ w = Count(l, a)
      OBVIOUS
    <3>2. x = y + z + w /\ g \in Seq(Addr) /\ d \in Seq(Addr) /\ l \in Seq(Addr)
      BY <1>5, <3>1 DEF Takes
    <3>3. x \in Nat /\ y \in Nat /\ z \in Nat /\ w \in Nat /\ w > 0
      <4>1. x \in Nat
        BY <1>5, <3>1, CountOf
      <4>2. y \in Nat
        BY <3>1, <3>2, CountOf
      <4>3. z \in Nat
        BY <3>1, <3>2, CountOf
      <4>4. w \in Nat /\ w > 0
        BY <2>1, <3>1, <3>2, CountOf
      <4> QED
        BY <4>1, <4>2, <4>3, <4>4
    <3>4. x > 0
      BY <3>2, <3>3
    <3> QED
      BY <1>5, <3>1, <3>4, CountOf
  <2> QED
    BY <2>1
<1>6. \A t \in Id : /\ Set(unitsToImport'[t]) \subseteq Set(unitsToImport[t])
                    /\ Set(clausesToImport'[t]) \subseteq Set(clausesToImport[t])
  <2>1. CASE TakesUnits(s, g, d, l)
    <3>1. /\ Takes(unitsToImport[s], g, d, l) /\ clausesToImport' = clausesToImport
          /\ unitsToImport' = [unitsToImport EXCEPT ![s] = l]
      BY <2>1 DEF TakesUnits
    <3>2. Set(l) \subseteq Set(unitsToImport[s])
      BY <1>4, <1>5, <3>1
    <3> QED
      BY <1>4, <3>1, <3>2
  <2>2. CASE TakesClauses(s, g, d, l)
    <3>1. /\ Takes(clausesToImport[s], g, d, l) /\ unitsToImport' = unitsToImport
          /\ clausesToImport' = [clausesToImport EXCEPT ![s] = l]
      BY <2>2 DEF TakesClauses
    <3>2. Set(l) \subseteq Set(clausesToImport[s])
      BY <1>4, <1>5, <3>1
    <3> QED
      BY <1>4, <3>1, <3>2
  <2> QED
    BY <1>3, <2>1, <2>2
<1> QED
  BY <1>1, <1>2, <1>6, OriginShrinks

\* The queues of deleted solvers are emptied.
LEMMA GoneShrinks ==
    ASSUME MemoryInv, NEW gone, deleteSolvers(gone)
    PROVE  \A s \in Id : /\ Set(clausesToExport'[s]) \subseteq Set(clausesToExport[s])
                         /\ Set(unitsToImport'[s]) \subseteq Set(unitsToImport[s])
                         /\ Set(clausesToImport'[s]) \subseteq Set(clausesToImport[s])
<1>1. Set(<<>>) = {}
  BY CountEmpty
<1>2. /\ clausesToExport' = [s \in Id |-> IF s \in gone THEN <<>> ELSE clausesToExport[s]]
      /\ unitsToImport' = [s \in Id |-> IF s \in gone THEN <<>> ELSE unitsToImport[s]]
      /\ clausesToImport' = [s \in Id |-> IF s \in gone THEN <<>> ELSE clausesToImport[s]]
  BY DEF deleteSolvers
<1>3. ASSUME NEW s \in Id
      PROVE  /\ Set(clausesToExport'[s]) \subseteq Set(clausesToExport[s])
             /\ Set(unitsToImport'[s]) \subseteq Set(unitsToImport[s])
             /\ Set(clausesToImport'[s]) \subseteq Set(clausesToImport[s])
  <2>1. CASE s \in gone
    BY <1>1, <1>2, <2>1
  <2>2. CASE s \notin gone
    BY <1>2, <2>2
  <2> QED
    BY <2>1, <2>2
<1> QED
  BY <1>3

\* Every step keeps to where the clauses come from.
LEMMA OriginStep ==
    ASSUME SharingAssumption, ConfigsAssumption, ControlInv, MemoryInv, Producing, OriginInv, Next
    PROVE  OriginInv'
<1>0. Setting
  BY SettingIs DEF ControlInv
<1>1. /\ pc \in [Sharers -> Phases] /\ tmp \in [Sharers -> Seq(Addr)]
      /\ \A h \in Sharers : pc[h] \notin {"send", "put"} => tmp[h] = <<>>
  BY DEF ControlInv, MemoryInv, Round
<1>2. ASSUME UNCHANGED <<conf, queueVars, tmp, database>>, HeapStays,
             \A h \in Sharers : tmp[h] = <<>> \/ producers'[h][i'[h]] = producers[h][i[h]]
      PROVE  OriginInv'
  BY <1>0, <1>2, OriginShrinks DEF queueVars
<1>3. ASSUME UNCHANGED <<conf, tmp, database>>, HeapStays, NEW gone, deleteSolvers(gone),
             \A h \in Sharers : tmp[h] = <<>> \/ producers'[h][i'[h]] = producers[h][i[h]]
      PROVE  OriginInv'
  <2>1. \A s \in Id : /\ Set(clausesToExport'[s]) \subseteq Set(clausesToExport[s])
                      /\ Set(unitsToImport'[s]) \subseteq Set(unitsToImport[s])
                      /\ Set(clausesToImport'[s]) \subseteq Set(clausesToImport[s])
    BY <1>3, GoneShrinks
  <2> QED
    BY <1>0, <1>3, <2>1, OriginShrinks
<1>4. ASSUME NEW h \in Sharers, Wake(h) PROVE OriginInv'
  <2>1. /\ UNCHANGED <<conf, queueVars, tmp, database>> /\ pc[h] = "sleep"
        /\ \A g \in Sharers : g # h => producers'[g] = producers[g] /\ i'[g] = i[g]
    BY <1>4 DEF Wake, listVars, ControlInv
  <2>2. tmp[h] = <<>>
    BY <1>1, <2>1
  <2>3. HeapStays
    BY <1>0, <1>4, MemoryWake
  <2>4. \A g \in Sharers : tmp[g] = <<>> \/ producers'[g][i'[g]] = producers[g][i[g]]
    BY <2>1, <2>2
  <2> QED
    BY <1>2, <2>1, <2>3, <2>4
<1>5. ASSUME NEW h \in Sharers, CountRefs(h) PROVE OriginInv'
  <2>1. UNCHANGED <<conf, queueVars, tmp, database>> /\ producers' = producers /\ i' = i
    BY <1>5 DEF CountRefs, listVars
  <2>2. HeapStays
    BY <1>0, <1>5, MemoryCountRefs
  <2> QED
    BY <1>2, <2>1, <2>2
<1>6. ASSUME NEW h \in Sharers, ReleaseOwn(h) PROVE OriginInv'
  <2>1. /\ conf' = conf /\ database' = database /\ clausesToExport' = clausesToExport
        /\ unitsToImport' = unitsToImport /\ clausesToImport' = clausesToImport
        /\ tmp' = [tmp EXCEPT ![h] = <<>>] /\ i' = [i EXCEPT ![h] = @ + 1] /\ producers' = producers
    BY <1>6 DEF ReleaseOwn, listVars, queueVars
  <2>2. HeapStays
    BY <1>0, <1>6, MemoryReleaseOwn
  <2>3. \A g \in Sharers : g # h => tmp'[g] = tmp[g] /\ i'[g] = i[g]
    BY <1>1, <2>1 DEF ControlInv
  <2>4. tmp'[h] = <<>>
    BY <1>1, <2>1
  <2> QED
    BY <1>0, <2>1, <2>2, <2>3, <2>4, OriginShrinks
<1>7. ASSUME NEW h \in Sharers, RemoveSolvers(h) PROVE OriginInv'
  <2>1. /\ UNCHANGED <<conf, tmp, database>> /\ pc[h] = "collect" /\ i' = i
        /\ \E q : producers' = [producers EXCEPT ![h] = q]
    BY <1>7 DEF RemoveSolvers, roundVars
  <2>2. tmp[h] = <<>> /\ \A g \in Sharers : g # h => producers'[g] = producers[g]
    BY <1>1, <2>1 DEF ControlInv
  <2>3. PICK gone : deleteSolvers(gone)
    BY <1>7 DEF RemoveSolvers, release
  <2>4. HeapStays
    BY <1>0, <1>7, MemoryRemove
  <2>5. \A g \in Sharers : tmp[g] = <<>> \/ producers'[g][i'[g]] = producers[g][i[g]]
    BY <2>1, <2>2
  <2> QED
    BY <1>3, <2>1, <2>3, <2>4, <2>5
<1>8. ASSUME NEW h \in Sharers, DeleteSharer(h) PROVE OriginInv'
  <2>1. UNCHANGED <<conf, tmp, database>> /\ i' = i /\ producers' = producers
    BY <1>8 DEF DeleteSharer, roundVars, listVars
  <2>2. PICK gone : deleteSolvers(gone)
    BY <1>8 DEF DeleteSharer, release
  <2>3. HeapStays
    BY <1>0, <1>8, MemoryDeleteSharer
  <2> QED
    BY <1>3, <2>1, <2>2, <2>3
<1>9. ASSUME UNCHANGED <<conf, heap, queueVars, pc, producers, consumers, roundVars>> PROVE OriginInv'
  <2>1. HeapStays
    BY <1>9 DEF HeapStays
  <2> QED
    BY <1>2, <1>9, <2>1 DEF roundVars
<1>10. ASSUME NEW q, release(q), UNCHANGED <<conf, pc, producers, consumers, roundVars>> PROVE OriginInv'
  <2>1. HeapStays
    BY <1>0, <1>10, MemoryRelease
  <2>2. PICK gone : deleteSolvers(gone)
    BY <1>10 DEF release
  <2>3. UNCHANGED <<conf, tmp, database>> /\ i' = i /\ producers' = producers
    BY <1>10 DEF roundVars
  <2> QED
    BY <1>3, <2>1, <2>2, <2>3
<1>11. ASSUME NEW s \in Id, cloneSolver(s) \/ GiveUp(s) PROVE OriginInv'
  <2>1. UNCHANGED <<conf, heap, queueVars, pc, producers, consumers, roundVars>>
    BY <1>11 DEF cloneSolver, GiveUp, listVars
  <2> QED
    BY <1>9, <2>1
<1>12. ASSUME End PROVE OriginInv'
  <2>1. UNCHANGED <<conf, heap, queueVars, pc, producers, consumers, roundVars>>
    BY <1>12 DEF End, listVars
  <2> QED
    BY <1>9, <2>1
<1>13. ASSUME NEW s \in Id, Call(s) PROVE OriginInv'
  <2>1. /\ UNCHANGED <<conf, pc, producers, consumers, roundVars>>
        /\ release(<<s>>) \/ (heap' = heap /\ queueVars' = queueVars)
    BY <1>13 DEF Call, addConsumer, addProducer, removeConsumer, removeProducer
  <2> QED
    BY <1>9, <1>10, <2>1, SMTT(40)
<1>14. ASSUME NEW s \in Id, DeleteWorker(s) PROVE OriginInv'
  <2>1. release(<<s>>) /\ UNCHANGED <<conf, pc, producers, consumers, roundVars>>
    BY <1>14 DEF DeleteWorker, listVars
  <2> QED
    BY <1>10, <2>1
<1>15. ASSUME NEW h \in Sharers, CollectSimple(h) \/ CollectHorde(h) \/ Put(h) PROVE OriginInv'
  BY <1>0, <1>15, OriginCollectSimple, OriginCollectHorde, OriginPut
<1>16. ASSUME NEW s \in Id, SolverStep(s) PROVE OriginInv'
  BY <1>0, <1>16, OriginExport, OriginImport DEF SolverStep
<1>17. ASSUME NEW h \in Sharers, UseDeleted(h) PROVE OriginInv'
  BY <1>2, <1>17 DEF UseDeleted, listVars, roundVars, HeapStays
<1> QED
  BY <1>17, <1>4, <1>5, <1>6, <1>7, <1>8, <1>11, <1>12, <1>13, <1>14, <1>15, <1>16 DEF Next, SharerStep

LEMMA OriginInit ==
    ASSUME SharingAssumption, ConfigsAssumption, Init
    PROVE  Producing /\ OriginInv
<1>1. /\ clausesToExport = [s \in Id |-> <<>>] /\ unitsToImport = [s \in Id |-> <<>>]
      /\ clausesToImport = [s \in Id |-> <<>>] /\ todo = [s \in Id |-> <<>>]
      /\ tmp = [h \in Sharers |-> <<>>]
      /\ database = [h \in Sharers |-> [z \in 1..MaxSize |-> <<>>]]
      /\ producers = [h \in Sharers |-> SharersOf(conf)[h].from]
      /\ addProducers = [h \in Sharers |-> <<>>]
  BY DEF Init, Sharers
<1>2. Set(<<>>) = {} /\ Len(<<>>) = 0
  BY CountEmpty
<1>3. Producing
  BY <1>1, <1>2 DEF Producing
<1>4. OriginInv
  BY <1>1, <1>2 DEF OriginInv
<1> QED
  BY <1>3, <1>4

\* What the invariant means for the import queues.
LEMMA OriginMeans ==
    ASSUME SharingAssumption, ConfigsAssumption, ControlInv, MemoryInv, OriginInv
    PROVE  ClausesMayBeShared
<1>1. ASSUME NEW s \in Id, NEW a \in Set(unitsToImport[s] \o clausesToImport[s])
      PROVE  Arrives(a, s)
  <2>1. unitsToImport[s] \in Seq(Addr) /\ clausesToImport[s] \in Seq(Addr)
    BY DEF MemoryInv
  <2>2. a \in Set(unitsToImport[s]) \cup Set(clausesToImport[s])
    BY <2>1, SetConcat
  <2> QED
    BY <2>2 DEF OriginInv
<1> QED
  BY <1>1 DEF ClausesMayBeShared, SharedClausesAreImplied, NoEcho, Arrives, Alone

\* The clauses that a sharer passes on are in memory.
InMemory == \A h \in Sharers : \A a \in Set(tmp[h]) : a \in Addr /\ heap[a] \in Cell /\ heap[a] # NoClause

LEMMA PassedIsCell == ControlInv /\ MemoryInv => InMemory
<1> SUFFICES ASSUME ControlInv, MemoryInv PROVE InMemory
  OBVIOUS
<1>1. Setting
  BY SharingAssumption, ConfigsAssumption, SettingIs DEF ControlInv
<1> QED
  BY <1>1, SharingAssumption, UsedIsCell DEF InMemory

LEMMA PassedIsCellNext == ControlInv' /\ MemoryInv' => InMemory'
  BY PassedIsCell, PTL

\* Sharer h has selected and passed nothing on; its selection q, by the sizes in the
\* memory m, and what is left in d.
Sends(h) == pc[h] = "send" /\ j[h] = 1 /\ Strategy(h) = "horde"
Greedy(m, q, d) ==
    LET used == Total([n \in DOMAIN q |-> m[q[n]].size], Len(q))
    IN  /\ used <= LiteralPerRound
        /\ \A z \in 1..MaxSize : d[z] # <<>> =>
              used + z > LiteralPerRound /\ \A a \in Set(q) : m[a].size <= z

\* The same sizes.
LEMMA GreedyKept ==
    ASSUME NEW m, NEW g, NEW q \in Seq(Addr), NEW d, Greedy(m, q, d), \A a \in Set(q) : g[a].size = m[a].size
    PROVE  Greedy(g, q, d)
<1>1. \A n \in DOMAIN q : q[n] \in Set(q)
  BY DEF Set
<1>2. [n \in DOMAIN q |-> g[q[n]].size] = [n \in DOMAIN q |-> m[q[n]].size]
  BY <1>1
<1> QED
  BY <1>2 DEF Greedy

\* The clauses in memory keep their sizes.
LEMMA SizesKept ==
    ASSUME ControlInv', MemoryInv', Sharers' = Sharers, HeapStays, NEW h \in Sharers
    PROVE  \A a \in Set(tmp'[h]) : heap'[a].size = heap[a].size
<1>1. InMemory'
  BY PassedIsCellNext
<1>2. ASSUME NEW a \in Set(tmp'[h]) PROVE a \in Addr /\ heap'[a] # NoClause
  BY <1>1 DEF InMemory
<1> QED
  BY <1>2 DEF HeapStays

LEMMA GreedyNext ==
    ASSUME conf' = conf, SelectionIsGreedy,
           \A h \in Sharers : Sends(h)' =>
              \/ Sends(h) /\ tmp[h] \in Seq(Addr) /\ tmp'[h] = tmp[h] /\ database'[h] = database[h]
                 /\ \A a \in Set(tmp[h]) : heap'[a].size = heap[a].size
              \/ Greedy(heap', tmp'[h], database'[h])
    PROVE  SelectionIsGreedy'
<1>1. Sharers' = Sharers /\ LiteralPerRound' = LiteralPerRound /\ \A h : Strategy(h)' = Strategy(h)
  BY DEF Sharers, LiteralPerRound, Strategy
<1>2. ASSUME NEW h \in Sharers, Sends(h)' PROVE Greedy(heap', tmp'[h], database'[h])
  <2>1. CASE Sends(h) /\ tmp[h] \in Seq(Addr) /\ tmp'[h] = tmp[h] /\ database'[h] = database[h]
             /\ \A a \in Set(tmp[h]) : heap'[a].size = heap[a].size
    <3>1. Greedy(heap, tmp[h], database[h])
      BY <2>1 DEF SelectionIsGreedy, Greedy, Sends
    <3>2. Greedy(heap', tmp[h], database[h])
      BY <2>1, <3>1, GreedyKept
    <3> QED
      BY <2>1, <3>2
  <2> QED
    BY <1>2, <2>1
<1>3. ASSUME NEW h \in Sharers, pc'[h] = "send" /\ j'[h] = 1 /\ Strategy(h) = "horde"
      PROVE  Greedy(heap', tmp'[h], database'[h])
  <2>1. Sends(h)'
    BY <1>1, <1>3 DEF Sends
  <2> QED
    BY <1>2, <2>1
<1> QED
  BY <1>1, <1>3 DEF SelectionIsGreedy, Greedy

\* A selection is greedy when it is made.
LEMMA GreedyCollect ==
    ASSUME SharingAssumption, Setting, ControlInv, MemoryInv, ControlInv', MemoryInv',
           NEW h \in Sharers, CollectHorde(h)
    PROVE  Greedy(heap', tmp'[h], database'[h])
<1>1. HeapStays /\ conf' = conf
  BY MemoryCollectHorde, CollectHordeIs
<1>2. PICK s : s = producers[h][i[h]]
  OBVIOUS
<1>3. s \in Id
  BY <1>2, CollectHordeIs
<1>40. PICK k \in 0..Len(clausesToExport[s]) : \E b, r : Gathers(h, s, k, b, r)
  BY <1>2, CollectHordeIs
<1>4. PICK b, r : k \in 0..Len(clausesToExport[s]) /\ Gathers(h, s, k, b, r)
  BY <1>40
<1>5. PICK g : g = Got(clausesToExport[s], k)
  OBVIOUS
<1>6. Kept(h, g, b, r)
  BY <1>3, <1>4, <1>5, GathersKept
<1>7. PICK t, db : t = r.selected /\ db = r.db
  OBVIOUS
<1>8. tmp'[h] = t /\ database'[h] = db
  BY <1>4, <1>7 DEF Gathers, MemoryInv
<1>9. Greedy(heap, t, db)
  <2>1. /\ r.used = SizeSum(t) /\ r.used <= LiteralPerRound
        /\ \A y \in 1..MaxSize : db[y] # <<>> =>
              r.used + y > LiteralPerRound /\ \A a \in Set(t) : heap[a].size <= y
    BY <1>6, <1>7 DEF Kept
  <2>2. SizeSum(t) = Total([n \in DOMAIN t |-> heap[t[n]].size], Len(t))
    BY DEF SizeSum, Sizes
  <2> QED
    BY <2>1, <2>2 DEF Greedy
<1>10. \A a \in Set(t) : heap'[a].size = heap[a].size
  <2>1. Sharers' = Sharers
    BY <1>1 DEF Sharers
  <2> QED
    BY <1>1, <1>8, <2>1, SizesKept
<1>11. t \in Seq(Addr)
  BY <1>6, <1>7 DEF Kept
<1> QED
  BY <1>8, <1>9, <1>10, <1>11, GreedyKept

\* A step that makes no selection; only of h it has to be said that it does not send.
LEMMA GreedyQuiet ==
    ASSUME MemoryInv, ControlInv', MemoryInv', SelectionIsGreedy, HeapStays,
           conf' = conf, database' = database,
           \A g \in Sharers : \/ pc'[g] = pc[g] /\ j'[g] = j[g] /\ tmp'[g] = tmp[g]
                              \/ pc'[g] # "send" \/ j'[g] # 1
    PROVE  SelectionIsGreedy'
<1>1. Sharers' = Sharers /\ \A h : Strategy(h)' = Strategy(h)
  BY DEF Sharers, Strategy
<1>2. ASSUME NEW g \in Sharers, Sends(g)'
      PROVE  /\ Sends(g) /\ tmp[g] \in Seq(Addr) /\ tmp'[g] = tmp[g] /\ database'[g] = database[g]
             /\ \A a \in Set(tmp[g]) : heap'[a].size = heap[a].size
  <2>1. pc'[g] = "send" /\ j'[g] = 1 /\ Strategy(g) = "horde"
    BY <1>1, <1>2 DEF Sends
  <2>2. pc'[g] = pc[g] /\ j'[g] = j[g] /\ tmp'[g] = tmp[g]
    BY <2>1
  <2>3. \A a \in Set(tmp'[g]) : heap'[a].size = heap[a].size
    BY <1>1, SizesKept
  <2> QED
    BY <2>1, <2>2, <2>3 DEF Sends, MemoryInv
<1> QED
  BY <1>2, GreedyNext

LEMMA GreedyStep ==
    ASSUME SharingAssumption, ConfigsAssumption, ControlInv, MemoryInv, ControlInv', MemoryInv',
           SelectionIsGreedy, Next
    PROVE  SelectionIsGreedy'
<1>0. Setting
  BY SettingIs DEF ControlInv
<1>1. /\ pc \in [Sharers -> Phases] /\ j \in [Sharers -> Nat \ {0}] /\ tmp \in [Sharers -> Seq(Addr)]
      /\ database \in [Sharers -> DB]
  BY DEF ControlInv, MemoryInv
<1>2. ASSUME UNCHANGED <<conf, pc, roundVars>>, HeapStays PROVE SelectionIsGreedy'
  BY <1>2, GreedyQuiet DEF roundVars
<1>3. ASSUME NEW h \in Sharers, Wake(h) PROVE SelectionIsGreedy'
  <2>1. /\ conf' = conf /\ database' = database /\ j' = j /\ tmp' = tmp
        /\ \E p \in {"ended", "collect"} : pc' = [pc EXCEPT ![h] = p]
    BY <1>3 DEF Wake
  <2>2. HeapStays
    BY <1>0, <1>3, MemoryWake
  <2>3. \A g \in Sharers : pc'[g] = pc[g] \/ pc'[g] # "send"
    BY <1>1, <2>1
  <2> QED
    BY <2>1, <2>2, <2>3, GreedyQuiet
<1>4. ASSUME NEW h \in Sharers, CollectSimple(h) PROVE SelectionIsGreedy'
  <2>1. /\ conf' = conf /\ database' = database /\ j' = [j EXCEPT ![h] = 1] /\ Strategy(h) = "simple"
        /\ pc' = [pc EXCEPT ![h] = "send"] /\ \E q : tmp' = [tmp EXCEPT ![h] = q]
    BY <1>4 DEF CollectSimple
  <2>2. HeapStays
    BY <1>0, <1>4, MemoryCollectSimple
  <2>3. ASSUME NEW g \in Sharers, Sends(g)'
        PROVE  /\ Sends(g) /\ tmp[g] \in Seq(Addr) /\ tmp'[g] = tmp[g] /\ database'[g] = database[g]
               /\ \A a \in Set(tmp[g]) : heap'[a].size = heap[a].size
    <3>1. g # h /\ pc'[g] = "send" /\ j'[g] = 1 /\ Strategy(g) = "horde"
      BY <2>1, <2>3 DEF Sends, Strategy
    <3>2. tmp'[g] = tmp[g] /\ pc'[g] = pc[g] /\ j'[g] = j[g]
      BY <1>1, <2>1, <3>1
    <3>3. \A a \in Set(tmp'[g]) : heap'[a].size = heap[a].size
      BY <2>1, <2>2, SizesKept DEF Sharers
    <3> QED
      BY <1>1, <2>1, <3>1, <3>2, <3>3 DEF Sends
  <2> QED
    BY <2>1, <2>3, GreedyNext
<1>5. ASSUME NEW h \in Sharers, CollectHorde(h) PROVE SelectionIsGreedy'
  <2>1. /\ conf' = conf /\ j' = [j EXCEPT ![h] = 1] /\ pc' = [pc EXCEPT ![h] = "send"]
        /\ (\E q : tmp' = [tmp EXCEPT ![h] = q]) /\ (\E d : database' = [database EXCEPT ![h] = d])
    BY <1>5 DEF CollectHorde
  <2>2. HeapStays
    BY <1>0, <1>5, MemoryCollectHorde
  <2>3. ASSUME NEW g \in Sharers, g # h, Sends(g)'
        PROVE  /\ Sends(g) /\ tmp[g] \in Seq(Addr) /\ tmp'[g] = tmp[g] /\ database'[g] = database[g]
               /\ \A a \in Set(tmp[g]) : heap'[a].size = heap[a].size
    <3>1. pc'[g] = "send" /\ j'[g] = 1 /\ Strategy(g) = "horde"
      BY <2>1, <2>3 DEF Sends, Strategy
    <3>2. tmp'[g] = tmp[g] /\ pc'[g] = pc[g] /\ j'[g] = j[g] /\ database'[g] = database[g]
      BY <1>1, <2>1, <2>3
    <3>3. \A a \in Set(tmp'[g]) : heap'[a].size = heap[a].size
      BY <2>1, <2>2, SizesKept DEF Sharers
    <3> QED
      BY <1>1, <3>1, <3>2, <3>3 DEF Sends
  <2>4. Greedy(heap', tmp'[h], database'[h])
    BY <1>0, <1>5, GreedyCollect
  <2> QED
    BY <2>1, <2>3, <2>4, GreedyNext, SMTT(40)
<1>6. ASSUME NEW h \in Sharers, CountRefs(h) PROVE SelectionIsGreedy'
  <2>1. /\ conf' = conf /\ database' = database /\ tmp' = tmp
        /\ (j' = [j EXCEPT ![h] = @ + 1] /\ pc' = pc) \/ (j' = j /\ pc' = [pc EXCEPT ![h] = "put"])
    BY <1>6 DEF CountRefs
  <2>2. HeapStays
    BY <1>0, <1>6, MemoryCountRefs
  <2>3. ASSUME NEW g \in Sharers
        PROVE  (pc'[g] = pc[g] /\ j'[g] = j[g]) \/ pc'[g] # "send" \/ j'[g] # 1
    <3>1. j[h] \in Nat /\ j[h] # 0 /\ j[h] + 1 # 1
      BY <1>1
    <3> QED
      BY <1>1, <2>1, <3>1
  <2> QED
    BY <2>1, <2>2, <2>3, GreedyQuiet
<1>7. ASSUME NEW h \in Sharers, Put(h) PROVE SelectionIsGreedy'
  <2>1. /\ conf' = conf /\ database' = database /\ tmp' = tmp
        /\ j' = [j EXCEPT ![h] = @ + 1] /\ pc' = [pc EXCEPT ![h] = "send"]
    BY <1>7 DEF Put
  <2>2. HeapStays
    BY <1>0, <1>7, MemoryPut
  <2>3. ASSUME NEW g \in Sharers
        PROVE  (pc'[g] = pc[g] /\ j'[g] = j[g]) \/ pc'[g] # "send" \/ j'[g] # 1
    <3>1. j[h] \in Nat /\ j[h] # 0 /\ j[h] + 1 # 1
      BY <1>1
    <3> QED
      BY <1>1, <2>1, <3>1
  <2> QED
    BY <2>1, <2>2, <2>3, GreedyQuiet
<1>8. ASSUME NEW h \in Sharers, ReleaseOwn(h) PROVE SelectionIsGreedy'
  <2>1. /\ conf' = conf /\ database' = database /\ tmp' = [tmp EXCEPT ![h] = <<>>]
        /\ j' = j /\ pc' = [pc EXCEPT ![h] = "collect"]
    BY <1>8 DEF ReleaseOwn
  <2>2. HeapStays
    BY <1>0, <1>8, MemoryReleaseOwn
  <2>3. \A g \in Sharers : (pc'[g] = pc[g] /\ tmp'[g] = tmp[g]) \/ pc'[g] # "send"
    BY <1>1, <2>1
  <2> QED
    BY <2>1, <2>2, <2>3, GreedyQuiet
<1>9. ASSUME NEW h \in Sharers, RemoveSolvers(h) \/ DeleteSharer(h) PROVE SelectionIsGreedy'
  <2>1. /\ conf' = conf /\ database' = database /\ tmp' = tmp /\ j' = j
        /\ \E p \in {"ended", "sleep", "deleted"} : pc' = [pc EXCEPT ![h] = p]
    BY <1>9 DEF RemoveSolvers, DeleteSharer, roundVars
  <2>2. HeapStays
    BY <1>0, <1>9, MemoryRemove, MemoryDeleteSharer
  <2>3. \A g \in Sharers : pc'[g] = pc[g] \/ pc'[g] # "send"
    BY <1>1, <2>1, SMTT(40)
  <2> QED
    BY <2>1, <2>2, <2>3, GreedyQuiet
<1>10. ASSUME NEW s \in Id, cloneSolver(s) \/ GiveUp(s) \/ Call(s) \/ DeleteWorker(s)
       PROVE  SelectionIsGreedy'
  <2>1. UNCHANGED <<conf, pc, roundVars>>
    BY <1>10 DEF cloneSolver, GiveUp, Call, DeleteWorker
  <2>2. CASE heap' = heap
    BY <1>2, <2>1, <2>2 DEF HeapStays
  <2>3. CASE release(<<s>>)
    <3>1. conf' = conf /\ pc' = pc /\ roundVars' = roundVars /\ producers' = producers /\ consumers' = consumers
      BY <1>10 DEF cloneSolver, GiveUp, Call, DeleteWorker, listVars
    <3> QED
      BY <1>0, <1>2, <2>1, <2>3, <3>1, MemoryRelease
  <2> QED
    BY <1>10, <2>2, <2>3 DEF cloneSolver, GiveUp, Call, DeleteWorker,
                             addConsumer, addProducer, removeConsumer, removeProducer
<1>11. ASSUME NEW s \in Id, NEW z \in 1..MaxSize, Export(s, z) PROVE SelectionIsGreedy'
  <2>1. UNCHANGED <<conf, pc, roundVars>>
    BY <1>11 DEF Export
  <2>2. PICK a \in Addr : heap[a] = NoClause /\ \A b \in Addr : b # a => heap'[b] = heap[b]
    BY <1>11, ExportIs
  <2>3. ASSUME NEW g \in Sharers, Sends(g)'
        PROVE  /\ Sends(g) /\ tmp[g] \in Seq(Addr) /\ tmp'[g] = tmp[g] /\ database'[g] = database[g]
               /\ \A b \in Set(tmp[g]) : heap'[b].size = heap[b].size
    <3>1. \A b \in Set(tmp[g]) : b \in Addr /\ heap[b] # NoClause
      BY <1>0, UsedIsCell
    <3>2. \A b \in Set(tmp[g]) : heap'[b] = heap[b]
      BY <2>2, <3>1
    <3> QED
      BY <1>1, <2>1, <2>3, <3>2 DEF Sends, Strategy, roundVars
  <2> QED
    BY <2>1, <2>3, GreedyNext
<1>12. ASSUME NEW s \in Id, Import(s) PROVE SelectionIsGreedy'
  <2>1. UNCHANGED <<conf, pc, roundVars>>
    BY <1>12 DEF Import
  <2> QED
    BY <1>0, <1>2, <1>12, <2>1, MemoryImport
<1>13. ASSUME End PROVE SelectionIsGreedy'
  <2>1. UNCHANGED <<conf, pc, roundVars>> /\ heap' = heap
    BY <1>13 DEF End
  <2> QED
    BY <1>2, <2>1 DEF HeapStays
<1>14. ASSUME NEW h \in Sharers, UseDeleted(h) PROVE SelectionIsGreedy'
  BY <1>2, <1>14 DEF UseDeleted, HeapStays
<1> QED
  BY <1>14, <1>3, <1>4, <1>5, <1>6, <1>7, <1>8, <1>9, <1>10, <1>11, <1>12, <1>13 DEF Next, SharerStep, SolverStep

LEMMA GreedyInit ==
    ASSUME Init
    PROVE  SelectionIsGreedy
<1>1. pc = [h \in Sharers |-> "sleep"]
  BY DEF Init, Sharers
<1> QED
  BY <1>1 DEF SelectionIsGreedy

-----------------------------------------------------------------------------
(* The theorems *)

\* A step in which nothing happens.
LEMMA StutterKeeps ==
    ASSUME SharingAssumption, ConfigsAssumption, ControlInv, MemoryInv, UNCHANGED vars
    PROVE  /\ ControlInv' /\ MemoryInv'
           /\ SolverInv => SolverInv'
           /\ HistoryInv => HistoryInv'
           /\ Producing /\ OriginInv => Producing' /\ OriginInv'
           /\ SelectionIsGreedy => SelectionIsGreedy'
<1>0. Setting
  BY SettingIs DEF ControlInv
<1>1. /\ UNCHANGED <<conf, kind, nRefs, limit, held, todo, heap, pc, i, j, tmp, database, globalEnding, overtaken, dangling>>
      /\ UNCHANGED <<clausesToExport, unitsToImport, clausesToImport, listVars>>
      /\ UNCHANGED <<producers, consumers, addProducers, addConsumers, removeProducers, removeConsumers>>
      /\ HeapStays
  BY DEF vars, solverVars, queueVars, listVars, roundVars, history, HeapStays
<1>2. ControlInv' /\ Sharers' = Sharers
  BY <1>1 DEF ControlInv, Sharers
<1>3. MemoryInv'
  BY <1>0, <1>1, MemoryStill DEF queueVars, roundVars
<1>4. SolverInv => SolverInv'
  BY <1>1, SolverSame DEF SameSolvers
<1>5. Producing => Producing'
  BY <1>1, <1>2 DEF Producing
<1>6. OriginInv => OriginInv'
  BY <1>0, <1>1, OriginShrinks
<1>7. SelectionIsGreedy => SelectionIsGreedy'
  BY <1>1, <1>2, <1>3, GreedyQuiet
<1>8. HistoryInv => HistoryInv'
  BY <1>1, <1>2 DEF HistoryInv
<1> QED
  BY <1>2, <1>3, <1>4, <1>5, <1>6, <1>7, <1>8

\* The control and the references of clauses, whatever the sharers' timing.
THEOREM ControlAndMemory == Spec => [](ControlInv /\ MemoryInv)
<1> USE SharingAssumption, ConfigsAssumption
<1>1. Init => ControlInv /\ MemoryInv
  BY ControlInit, MemoryInit
<1>2. ControlInv /\ MemoryInv /\ [Next]_vars => ControlInv' /\ MemoryInv'
  BY ControlStep, MemoryStep, StutterKeeps
<1> QED
  BY <1>1, <1>2, PTL DEF Spec

\* ClauseExchange::nbRefs counts the places of a clause exactly, at every step of
\* every thread and for every timing of the sharers: no clause in a queue, a database
\* or a sharer's vector has been freed, and none is freed twice.
THEOREM ClauseReferencesAreExact == Spec => []RefsAreCounted
<1>1. MemoryInv => RefsAreCounted
  BY DEF MemoryInv
<1> QED
  BY <1>1, ControlAndMemory, PTL

\* What the two invariants of the references mean.
LEMMA CountedIs ==
    ASSUME SharingAssumption, ConfigsAssumption, ControlInv, MemoryInv, SolverInv, HistoryInv
    PROVE  ReferencesAreCounted
<1>0. Setting
  BY SettingIs DEF ControlInv
<1>1. ASSUME NEW s \in Id
      PROVE  nRefs[s] \in Nat /\ nRefs[s] >= (IF s \in held THEN 1 ELSE 0) + RefSum(s)
  <2>1. PICK x, y, z : x = nRefs[s] /\ y = RefSum(s) /\ z = IF s \in held THEN 1 ELSE 0
    OBVIOUS
  <2>2. x \in Int /\ y \in Nat /\ z \in Nat
    BY <1>0, <2>1, RefSumOf DEF ControlInv
  <2>3. x >= z + y
    BY <2>1 DEF SolverInv, Enough
  <2>4. x \in Nat
    BY <2>2, <2>3
  <2> QED
    BY <2>1, <2>3, <2>4
<1>2. SolverRefsCounted
  BY <1>1 DEF SolverRefsCounted, RefSum
<1>3. nRefs \in [Id -> Nat]
  BY <1>1 DEF ControlInv
<1>4. ASSUME NEW S, NEW q \in Seq(S) PROVE Set(q) \subseteq S
  BY DEF Set
<1>5. \A q \in {clausesToExport, unitsToImport, clausesToImport} :
          DOMAIN q = Id /\ \A s \in Id : Set(q[s]) \subseteq Addr
  <2>1. ASSUME NEW q \in [Id -> Seq(Addr)], NEW s \in Id PROVE Set(q[s]) \subseteq Addr
    BY <1>4
  <2> QED
    BY <2>1 DEF MemoryInv
<1>6. \A q \in {producers, consumers, addProducers, addConsumers, removeProducers, removeConsumers} :
          DOMAIN q = Sharers /\ \A h \in Sharers : Set(q[h]) \subseteq Id
  <2>1. ASSUME NEW q \in [Sharers -> Seq(Id)], NEW h \in Sharers PROVE Set(q[h]) \subseteq Id
    BY <1>4
  <2> QED
    BY <2>1 DEF ControlInv
<1>7. \A a \in Addr : heap[a] # NoClause =>
          heap[a] \in [size : 1..MaxSize, from : Id, nbRefs : Nat \ {0}, lost : Nat]
  BY DEF MemoryInv, Memory, Cell
<1>8. TypeOK
  BY <1>3, <1>5, <1>6, <1>7 DEF TypeOK, ControlInv, Phases, HistoryInv
<1> QED
  BY <1>2, <1>8 DEF ReferencesAreCounted, MemoryInv, HistoryInv

\* No solver is deleted that a sharer works on, or that a worker holds, as long as no
\* sharer has handled its removal before its addition, and none is deleted twice:
\* SolverInterface::nRefs covers all of them; nor is any clause.
THEOREM ReferencesCounted == Spec => []ReferencesAreCounted
<1> USE SharingAssumption, ConfigsAssumption
<1>1. Init => SolverInv /\ HistoryInv
  BY SolverInit DEF Init, HistoryInv
<1>2. (SolverInv /\ HistoryInv) /\ (ControlInv /\ MemoryInv) /\ [Next]_vars => (SolverInv /\ HistoryInv)'
  BY SolverStepIs, HistoryStep, StutterKeeps
<1>3. (SolverInv /\ HistoryInv) /\ (ControlInv /\ MemoryInv) => ReferencesAreCounted
  BY CountedIs
<1> QED
  BY <1>1, <1>2, <1>3, ControlAndMemory, PTL DEF Spec

\* A clause in an import queue may be used by its solver: it is implied by the whole
\* formula (it does not come from a clone of CubeAndConquer, which works under a
\* cube), and it is not handed back to the solver that learned it.
THEOREM OnlySharedClauses == Spec => []ClausesMayBeShared
<1> USE SharingAssumption, ConfigsAssumption
<1>1. Init => Producing /\ OriginInv
  BY OriginInit
<1>2. (Producing /\ OriginInv) /\ (ControlInv /\ MemoryInv) /\ [Next]_vars => (Producing /\ OriginInv)'
  BY ProducingStep, OriginStep, StutterKeeps
<1>3. (Producing /\ OriginInv) /\ (ControlInv /\ MemoryInv) => ClausesMayBeShared
  BY OriginMeans
<1> QED
  BY <1>1, <1>2, <1>3, ControlAndMemory, PTL DEF Spec

\* What HordeSatSharing sends keeps within the budget of literals, and nothing that
\* stays in its database is shorter or would still fit.
THEOREM SelectionsAreGreedy == Spec => []SelectionIsGreedy
<1> USE SharingAssumption, ConfigsAssumption
<1>1. Init => SelectionIsGreedy
  BY GreedyInit
<1>2. SelectionIsGreedy /\ (ControlInv /\ MemoryInv) /\ (ControlInv /\ MemoryInv)' /\ [Next]_vars
        => SelectionIsGreedy'
  BY GreedyStep, StutterKeeps
<1> QED
  BY <1>1, <1>2, ControlAndMemory, PTL DEF Spec

=============================================================================
