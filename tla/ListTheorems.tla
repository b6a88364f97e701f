---------------------------- MODULE ListTheorems ----------------------------
(***************************************************************************)
(* What the operations on lists of slaves keep: lists that hold nothing    *)
(* twice, as the sets of their elements.                                   *)
(***************************************************************************)
EXTENDS SequencesExt, Integers, Sorting, SequenceTheorems, FiniteSetTheorems, WellFoundedInduction, TLAPS

\* A list that holds nothing twice.
NoRepeat(s) == \A i, j \in 1..Len(s) : s[i] = s[j] => i = j

\* The elements of a list.
LEMMA ToSetOf ==
    ASSUME NEW S, NEW s \in Seq(S)
    PROVE  /\ ToSet(s) = {s[i] : i \in 1..Len(s)}
           /\ ToSet(s) \subseteq S
           /\ \A e : Contains(s, e) <=> e \in ToSet(s)
           /\ s = <<>> <=> ToSet(s) = {}
<1>1. DOMAIN s = 1..Len(s) /\ Len(s) \in Nat /\ \A i \in 1..Len(s) : s[i] \in S
  OBVIOUS
<1>2. ToSet(s) = {s[i] : i \in 1..Len(s)} /\ ToSet(s) \subseteq S
  BY <1>1 DEF ToSet
<1>3. \A e : Contains(s, e) <=> e \in ToSet(s)
  BY <1>2 DEF Contains
<1>4. s = <<>> => ToSet(s) = {}
  BY <1>1, <1>2
<1>5. s # <<>> => s[1] \in ToSet(s)
  BY <1>1, <1>2, EmptySeq
<1> QED
  BY <1>2, <1>3, <1>4, <1>5

\* ... by their places.
LEMMA PlaceOf ==
    ASSUME NEW S, NEW s \in Seq(S)
    PROVE  /\ \A i \in 1..Len(s) : s[i] \in ToSet(s)
           /\ \A e \in ToSet(s) : \E i \in 1..Len(s) : s[i] = e
<1>1. ToSet(s) = {s[i] : i \in 1..Len(s)}
  BY ToSetOf
<1> QED
  BY <1>1

\* Removing the head.
LEMMA TailOf ==
    ASSUME NEW S, NEW s \in Seq(S), NoRepeat(s), s # <<>>
    PROVE  /\ Head(s) \in ToSet(s) /\ Head(s) \in S
           /\ Tail(s) \in Seq(S)
           /\ NoRepeat(Tail(s))
           /\ ToSet(Tail(s)) = ToSet(s) \ {Head(s)}
           /\ Len(Tail(s)) = Len(s) - 1
<1> DEFINE t == Tail(s)
<1>1. Len(s) \in Nat \ {0} /\ Head(s) = s[1]
  OBVIOUS
<1>2. /\ t \in Seq(S) /\ Len(t) = Len(s) - 1
      /\ \A i \in 1..Len(t) : t[i] = s[i + 1]
  BY HeadTailProperties
<1>3. NoRepeat(t)
  BY <1>1, <1>2 DEF NoRepeat
<1>4. ASSUME NEW e \in ToSet(t) PROVE e \in ToSet(s) \ {Head(s)}
  <2>1. PICK i \in 1..Len(t) : e = t[i]
    BY <1>2 DEF ToSet
  <2>2. i + 1 \in 1..Len(s) /\ e = s[i + 1] /\ i + 1 # 1
    BY <1>1, <1>2, <2>1
  <2> QED
    BY <1>1, <2>2 DEF ToSet, NoRepeat
<1>5. ASSUME NEW e \in ToSet(s), e # Head(s) PROVE e \in ToSet(t)
  <2>1. PICK i \in 1..Len(s) : e = s[i]
    BY DEF ToSet
  <2>2. i - 1 \in 1..Len(t) /\ t[i - 1] = e
    BY <1>1, <1>2, <1>5, <2>1
  <2> QED
    <3>1. t[i - 1] \in ToSet(t)
      BY <1>2, <2>2, PlaceOf
    <3> QED
      BY <2>2, <3>1
<1>6. Head(s) \in ToSet(s) /\ Head(s) \in S
  BY <1>1 DEF ToSet
<1> QED
  BY <1>2, <1>3, <1>4, <1>5, <1>6

\* One list after another.
LEMMA ConcatOf ==
    ASSUME NEW S, NEW s \in Seq(S), NEW t \in Seq(S)
    PROVE  /\ s \o t \in Seq(S)
           /\ Len(s \o t) = Len(s) + Len(t)
           /\ ToSet(s \o t) = ToSet(s) \cup ToSet(t)
           /\ NoRepeat(s) /\ NoRepeat(t) /\ ToSet(s) \cap ToSet(t) = {} => NoRepeat(s \o t)
<1> DEFINE u == s \o t
<1>1. /\ u \in Seq(S) /\ Len(u) = Len(s) + Len(t)
      /\ Len(s) \in Nat /\ Len(t) \in Nat
      /\ \A i \in 1..Len(s) + Len(t) : u[i] = IF i <= Len(s) THEN s[i] ELSE t[i - Len(s)]
  BY ConcatProperties
<1> HIDE DEF u
<1>2. /\ \A i \in 1..Len(s) : i \in 1..Len(u) /\ u[i] = s[i]
      /\ \A i \in 1..Len(t) : i + Len(s) \in 1..Len(u) /\ u[i + Len(s)] = t[i]
  <2>1. \A i \in 1..Len(s) : i \in 1..Len(u) /\ u[i] = s[i]
    BY <1>1
  <2>2. ASSUME NEW i \in 1..Len(t) PROVE i + Len(s) \in 1..Len(u) /\ u[i + Len(s)] = t[i]
    <3>1. i + Len(s) \in 1..(Len(s) + Len(t)) /\ ~(i + Len(s) <= Len(s)) /\ i + Len(s) - Len(s) = i
      BY <1>1
    <3> QED
      BY <1>1, <3>1
  <2> QED
    BY <2>1, <2>2
<1>3. \A i \in 1..Len(u) : \/ i \in 1..Len(s) /\ u[i] = s[i]
                           \/ i - Len(s) \in 1..Len(t) /\ u[i] = t[i - Len(s)] /\ i > Len(s)
  BY <1>1
<1>4. ToSet(u) = ToSet(s) \cup ToSet(t)
  <2>0. /\ ToSet(u) = {u[i] : i \in 1..Len(u)}
        /\ ToSet(s) = {s[i] : i \in 1..Len(s)}
        /\ ToSet(t) = {t[i] : i \in 1..Len(t)}
    BY <1>1, ToSetOf
  <2>1. ToSet(u) \subseteq ToSet(s) \cup ToSet(t)
    BY <2>0, <1>3
  <2>2. ToSet(s) \subseteq ToSet(u)
    BY <2>0, <1>2
  <2>3. ToSet(t) \subseteq ToSet(u)
    BY <2>0, <1>2
  <2> QED
    BY <2>1, <2>2, <2>3
<1>5. ASSUME NoRepeat(s), NoRepeat(t), ToSet(s) \cap ToSet(t) = {} PROVE NoRepeat(u)
  <2> SUFFICES ASSUME NEW i \in 1..Len(u), NEW j \in 1..Len(u), u[i] = u[j] PROVE i = j
    BY DEF NoRepeat
  <2>1. \A k \in 1..Len(s), l \in 1..Len(t) : s[k] # t[l]
    <3>1. \A k \in 1..Len(s) : s[k] \in ToSet(s)
      BY PlaceOf
    <3>2. \A k \in 1..Len(t) : t[k] \in ToSet(t)
      BY PlaceOf
    <3> QED
      BY <1>5, <3>1, <3>2
  <2>2. CASE i <= Len(s) /\ j <= Len(s)
    BY <1>1, <1>3, <1>5, <2>2, SMTT(40) DEF NoRepeat
  <2>3. CASE i > Len(s) /\ j > Len(s)
    <3>1. i - Len(s) = j - Len(s)
      BY <1>1, <1>3, <1>5, <2>3 DEF NoRepeat
    <3> QED
      BY <1>1, <3>1
  <2>4. CASE (i <= Len(s) /\ j > Len(s)) \/ (j <= Len(s) /\ i > Len(s))
    <3>1. ASSUME NEW k \in 1..Len(u), NEW l \in 1..Len(u), k <= Len(s), l > Len(s)
          PROVE  u[k] # u[l]
      <4>1. k \in 1..Len(s) /\ l - Len(s) \in 1..Len(t)
        BY <1>1, <3>1
      <4>2. u[k] = s[k] /\ u[l] = t[l - Len(s)]
        BY <1>1, <1>3, <3>1
      <4> QED
        BY <2>1, <4>1, <4>2
    <3> QED
      BY <2>4, <3>1
  <2> QED
    BY <1>1, <2>2, <2>3, <2>4
<1> QED
  BY <1>1, <1>4, <1>5 DEF u

\* An element after the others.
LEMMA AppendOf ==
    ASSUME NEW S, NEW s \in Seq(S), NEW e \in S
    PROVE  /\ Append(s, e) \in Seq(S)
           /\ Len(Append(s, e)) = Len(s) + 1
           /\ ToSet(Append(s, e)) = ToSet(s) \cup {e}
           /\ \A k \in 1..Len(s) : Append(s, e)[k] = s[k]
<1> DEFINE u == Append(s, e)
<1>1. /\ u \in Seq(S) /\ Len(u) = Len(s) + 1 /\ Len(s) \in Nat
      /\ \A k \in 1..Len(s) : u[k] = s[k]
      /\ u[Len(s) + 1] = e
  BY AppendProperties
<1> HIDE DEF u
<1>2. ToSet(u) = {u[k] : k \in 1..Len(u)} /\ ToSet(s) = {s[k] : k \in 1..Len(s)}
  BY <1>1, ToSetOf
<1>3. \A k \in 1..Len(u) : k \in 1..Len(s) \/ k = Len(s) + 1
  BY <1>1
<1>4. (\A k \in 1..Len(s) : k \in 1..Len(u)) /\ Len(s) + 1 \in 1..Len(u)
  BY <1>1
<1>5. ToSet(u) = ToSet(s) \cup {e}
  BY <1>1, <1>2, <1>3, <1>4
<1> QED
  BY <1>1, <1>5 DEF u

\* A list of one element, and of two.
LEMMA ShortLists ==
    ASSUME NEW S, NEW a \in S, NEW b \in S
    PROVE  /\ <<a>> \in Seq(S) /\ Len(<<a>>) = 1 /\ ToSet(<<a>>) = {a} /\ NoRepeat(<<a>>)
           /\ <<a, b>> \in Seq(S) /\ Len(<<a, b>>) = 2 /\ ToSet(<<a, b>>) = {a, b}
           /\ a # b => NoRepeat(<<a, b>>)
  BY DEF ToSet, NoRepeat

\* Removing the element at a place.
LEMMA RemoveAtOf ==
    ASSUME NEW S, NEW s \in Seq(S), NoRepeat(s), NEW i \in 1..Len(s)
    PROVE  /\ RemoveAt(s, i) \in Seq(S)
           /\ NoRepeat(RemoveAt(s, i))
           /\ ToSet(RemoveAt(s, i)) = ToSet(s) \ {s[i]}
           /\ Len(RemoveAt(s, i)) = Len(s) - 1
<1> DEFINE a == SubSeq(s, 1, i - 1)
           b == SubSeq(s, i + 1, Len(s))
<1>1. Len(s) \in Nat /\ i \in Int /\ \A k \in 1..Len(s) : s[k] \in S
  OBVIOUS
<1>2. /\ a \in Seq(S) /\ Len(a) = i - 1
      /\ \A k \in 1..(i - 1) : a[k] = s[k]
  BY <1>1, SubSeqProperties
<1>3. /\ b \in Seq(S) /\ Len(b) = Len(s) - i
      /\ \A k \in 1..(Len(s) - i) : b[k] = s[k + i]
  <2>1. \A k \in (i + 1)..Len(s) : s[k] \in S
    BY <1>1
  <2>2. /\ b \in Seq(S) /\ Len(b) = IF i + 1 <= Len(s) THEN Len(s) - (i + 1) + 1 ELSE 0
        /\ \A k \in 1..(Len(s) - (i + 1) + 1) : b[k] = s[(i + 1) + k - 1]
    BY <1>1, <2>1, SubSeqProperties
  <2> HIDE DEF b
  <2>3. Len(b) = Len(s) - i
    BY <1>1, <2>2
  <2>4. ASSUME NEW k \in 1..(Len(s) - i) PROVE b[k] = s[k + i]
    <3>1. k \in 1..(Len(s) - (i + 1) + 1) /\ (i + 1) + k - 1 = k + i
      BY <1>1
    <3> QED
      BY <2>2, <3>1
  <2> QED
    BY <2>2, <2>3, <2>4
<1> HIDE DEF a, b
<1>4. NoRepeat(a)
  BY <1>1, <1>2 DEF NoRepeat
<1>5. NoRepeat(b)
  <2> SUFFICES ASSUME NEW k \in 1..Len(b), NEW l \in 1..Len(b), b[k] = b[l] PROVE k = l
    BY DEF NoRepeat
  <2>1. k + i \in 1..Len(s) /\ l + i \in 1..Len(s) /\ s[k + i] = s[l + i]
    BY <1>1, <1>3
  <2>2. k + i = l + i
    BY <2>1 DEF NoRepeat
  <2> QED
    BY <1>1, <2>2
<1>6. ToSet(a) \subseteq ToSet(s) \ {s[i]}
  <2> SUFFICES ASSUME NEW k \in 1..Len(a) PROVE a[k] \in ToSet(s) \ {s[i]}
    BY <1>2, PlaceOf
  <2>1. k \in 1..Len(s) /\ k # i /\ a[k] = s[k]
    BY <1>1, <1>2
  <2> QED
    BY <2>1, PlaceOf DEF NoRepeat
<1>7. ToSet(b) \subseteq ToSet(s) \ {s[i]}
  <2> SUFFICES ASSUME NEW k \in 1..Len(b) PROVE b[k] \in ToSet(s) \ {s[i]}
    BY <1>3, PlaceOf
  <2>1. k + i \in 1..Len(s) /\ k + i # i /\ b[k] = s[k + i]
    BY <1>1, <1>3
  <2> QED
    BY <2>1, PlaceOf DEF NoRepeat
<1>8. ASSUME NEW k \in 1..Len(s), k # i PROVE s[k] \in ToSet(a) \cup ToSet(b)
  <2>1. CASE k < i
    <3>1. k \in 1..Len(a) /\ a[k] = s[k]
      BY <1>1, <1>2, <2>1
    <3>2. a[k] \in ToSet(a)
      BY <3>1, <1>2, PlaceOf
    <3> QED
      BY <3>1, <3>2
  <2>2. CASE k > i
    <3>1. k - i \in 1..Len(b) /\ (k - i) + i = k
      BY <1>1, <1>3, <2>2
    <3>2. b[k - i] = s[k]
      BY <3>1, <1>3
    <3>3. b[k - i] \in ToSet(b)
      BY <3>1, <1>3, PlaceOf
    <3> QED
      BY <3>2, <3>3
  <2> QED
    BY <1>1, <1>8, <2>1, <2>2
<1>9. ToSet(a) \cup ToSet(b) = ToSet(s) \ {s[i]}
  <2>1. ASSUME NEW e \in ToSet(s), e # s[i] PROVE e \in ToSet(a) \cup ToSet(b)
    <3>1. PICK k \in 1..Len(s) : s[k] = e
      BY PlaceOf
    <3> QED
      BY <1>8, <2>1, <3>1
  <2> QED
    BY <1>6, <1>7, <2>1
<1>10. ToSet(a) \cap ToSet(b) = {}
  <2> SUFFICES ASSUME NEW k \in 1..Len(a), NEW l \in 1..Len(b) PROVE a[k] # b[l]
    <3>1. \A e \in ToSet(a) : \E k \in 1..Len(a) : a[k] = e
      BY <1>2, PlaceOf
    <3>2. \A e \in ToSet(b) : \E k \in 1..Len(b) : b[k] = e
      BY <1>3, PlaceOf
    <3> QED
      BY <3>1, <3>2
  <2>1. k \in 1..Len(s) /\ l + i \in 1..Len(s) /\ k # l + i /\ a[k] = s[k] /\ b[l] = s[l + i]
    BY <1>1, <1>2, <1>3
  <2> QED
    BY <2>1 DEF NoRepeat
<1>11. RemoveAt(s, i) = a \o b
  BY DEF RemoveAt, a, b
<1>12. /\ a \o b \in Seq(S) /\ NoRepeat(a \o b) /\ ToSet(a \o b) = ToSet(a) \cup ToSet(b)
       /\ Len(a \o b) = Len(a) + Len(b)
  <2>1. a \in Seq(S) /\ b \in Seq(S)
    BY <1>2, <1>3
  <2> QED
    BY <2>1, <1>4, <1>5, <1>10, ConcatOf, ZenonT(60)
<1>13. Len(a) + Len(b) = Len(s) - 1
  BY <1>1, <1>2, <1>3
<1> QED
  BY <1>9, <1>11, <1>12, <1>13

\* std::list::remove of an element, which is there once at most.
LEMMA RemoveFirstOf ==
    ASSUME NEW S, NEW s \in Seq(S), NoRepeat(s), NEW e
    PROVE  /\ RemoveFirst(s, e) \in Seq(S)
           /\ NoRepeat(RemoveFirst(s, e))
           /\ ToSet(RemoveFirst(s, e)) = ToSet(s) \ {e}
           /\ e \in ToSet(s) => Len(RemoveFirst(s, e)) = Len(s) - 1
<1>1. CASE e \notin ToSet(s)
  <2>1. RemoveFirst(s, e) = s
    BY <1>1, PlaceOf DEF RemoveFirst
  <2> QED
    BY <1>1, <2>1
<1>2. CASE e \in ToSet(s)
  <2>1. PICK i \in 1..Len(s) : s[i] = e
    BY <1>2, PlaceOf
  <2>2. {k \in 1..Len(s) : s[k] = e} = {i}
    BY <2>1 DEF NoRepeat
  <2>3. Min({i}) = i
    BY DEF Min
  <2>4. RemoveFirst(s, e) = RemoveAt(s, i)
    BY <2>1, <2>2, <2>3 DEF RemoveFirst, SelectInSeq
  <2> QED
    BY <2>1, <2>4, RemoveAtOf
<1> QED
  BY <1>1, <1>2

\* A set of natural numbers has a least element.
LEMMA LeastElement ==
    ASSUME NEW T, T \subseteq Nat, T # {}
    PROVE  \E x \in T : \A y \in T : x <= y
<1>1. PICK x \in T : \A y \in T : ~(<<y, x>> \in OpToRel(<, Nat))
  BY NatLessThanWellFounded, WFMin
<1>2. \A y \in T : ~(y < x)
  BY <1>1 DEF OpToRel
<1> QED
  BY <1>2

\* What is left of a list when an element is removed, be it there twice.
LEMMA RemoveFirstType ==
    ASSUME NEW S, NEW s \in Seq(S), NEW e
    PROVE  RemoveFirst(s, e) \in Seq(S)
<1> DEFINE I == {k \in 1..Len(s) : s[k] = e}
<1>1. CASE I = {}
  BY <1>1 DEF RemoveFirst
<1>2. CASE I # {}
  <2>1. I \subseteq Nat
    OBVIOUS
  <2>2. \E i \in I : \A k \in I : i <= k
    BY <1>2, <2>1, LeastElement
  <2>3. Min(I) \in I
    BY <2>2 DEF Min
  <2>4. PICK i \in 1..Len(s) : i = Min(I)
    BY <2>3
  <2>5. RemoveFirst(s, e) = RemoveAt(s, i)
    BY <1>2, <2>4 DEF RemoveFirst, SelectInSeq
  <2>6. SubSeq(s, 1, i - 1) \in Seq(S)
    BY SubSeqProperties
  <2>7. SubSeq(s, i + 1, Len(s)) \in Seq(S)
    BY SubSeqProperties
  <2> QED
    BY <2>5, <2>6, <2>7, ConcatProperties DEF RemoveAt
<1> QED
  BY <1>1, <1>2

-----------------------------------------------------------------------------
(* Recursion and induction over a number *)

Chain(f, N, T, t0, step) ==
    /\ f \in [0..N -> T] /\ f[0] = t0
    /\ \A n \in 1..N : f[n] = step[n][f[n - 1]]

\* A recursion that goes up from 0 defines a function.
LEMMA Recursion ==
    ASSUME NEW N \in Nat, NEW T, NEW t0 \in T, NEW step \in [1..N -> [T -> T]]
    PROVE  \E f : Chain(f, N, T, t0, step)
<1> DEFINE Good(m) == \E f \in [0..m -> T] : f[0] = t0 /\ \A n \in 1..m : f[n] = step[n][f[n - 1]]
           K == {m \in 0..N : ~Good(m)}
<1>1. Good(0)
  <2>1. [i \in 0..0 |-> t0] \in [0..0 -> T] /\ [i \in 0..0 |-> t0][0] = t0 /\ \A n \in 1..0 : FALSE
    OBVIOUS
  <2> QED
    BY <2>1
<1>2. ASSUME NEW m \in 1..N, Good(m - 1) PROVE Good(m)
  <2>1. PICK f \in [0..(m - 1) -> T] : f[0] = t0 /\ \A n \in 1..(m - 1) : f[n] = step[n][f[n - 1]]
    BY <1>2
  <2>2. m - 1 \in 0..(m - 1) /\ f[m - 1] \in T /\ step[m][f[m - 1]] \in T
    BY <2>1
  <2> DEFINE g == [i \in 0..m |-> IF i = m THEN step[m][f[m - 1]] ELSE f[i]]
  <2>3. g \in [0..m -> T]
    BY <2>1, <2>2
  <2>4. g[0] = t0 /\ g[m] = step[m][f[m - 1]] /\ \A i \in 0..(m - 1) : g[i] = f[i]
    BY <2>1
  <2> HIDE DEF g
  <2>5. ASSUME NEW n \in 1..m PROVE g[n] = step[n][g[n - 1]]
    <3>1. CASE n = m
      BY <2>2, <2>4, <3>1
    <3>2. CASE n # m
      <4>1. n \in 1..(m - 1) /\ n \in 0..(m - 1) /\ n - 1 \in 0..(m - 1)
        BY <3>2
      <4> QED
        BY <2>1, <2>4, <4>1
    <3> QED
      BY <3>1, <3>2
  <2> QED
    BY <2>3, <2>4, <2>5
<1> HIDE DEF Good
<1>3. K = {}
  <2> SUFFICES ASSUME K # {} PROVE FALSE
    OBVIOUS
  <2>1. K \subseteq Nat
    OBVIOUS
  <2>2. PICK x \in K : \A y \in K : x <= y
    BY <2>1, LeastElement
  <2>3. x \in 0..N /\ ~Good(x)
    BY <2>2
  <2>4. x # 0
    BY <1>1, <2>3
  <2>5. x \in 1..N /\ x - 1 \in 0..N /\ ~(x <= x - 1)
    BY <2>3, <2>4
  <2>6. x - 1 \notin K
    BY <2>2, <2>5
  <2>7. Good(x - 1)
    BY <2>5, <2>6
  <2> QED
    BY <1>2, <2>3, <2>5, <2>7
<1>4. Good(N)
  BY <1>3
<1> QED
  BY <1>4 DEF Good, Chain

\* What holds of 0, and of a number if of the one before, holds of all.
LEMMA Upwards ==
    ASSUME NEW n \in Nat, NEW K, 0 \in K, \A k \in 1..n : k - 1 \in K => k \in K
    PROVE  \A k \in 0..n : k \in K
<1> DEFINE B == {k \in 0..n : k \notin K}
<1> SUFFICES ASSUME B # {} PROVE FALSE
  OBVIOUS
<1>1. B \subseteq Nat
  OBVIOUS
<1>2. PICK x \in B : \A y \in B : x <= y
  BY <1>1, LeastElement
<1>3. x \in 1..n /\ x - 1 \in 0..n /\ ~(x <= x - 1)
  BY <1>2
<1>4. x - 1 \in K
  BY <1>2, <1>3
<1> QED
  BY <1>2, <1>3, <1>4

\* Elements that can be told apart by their keys.
Keyed(S, key) ==
    /\ IsFiniteSet(S) /\ \A x \in S : key[x] \in Int
    /\ \A x, y \in S : key[x] = key[y] => x = y

\* The elements of a lesser key.
Below(x, S, key) == {y \in S : key[y] < key[x]}

\* Sorting lists every element once; an element stands behind those of a lesser key.
LEMMA SortedOf ==
    ASSUME NEW S, NEW key, Keyed(S, key)
    PROVE  /\ Sorted(S, key) \in Seq(S) /\ Len(Sorted(S, key)) = Cardinality(S)
           /\ NoRepeat(Sorted(S, key)) /\ ToSet(Sorted(S, key)) = S
           /\ \A x \in S : /\ Cardinality(Below(x, S, key)) + 1 \in 1..Len(Sorted(S, key))
                          /\ Sorted(S, key)[Cardinality(Below(x, S, key)) + 1] = x
<1> DEFINE below(x) == {y \in S : key[y] < key[x]}
           rank == [x \in S |-> Cardinality(below(x)) + 1]
           q == Sorted(S, key)
<1>0. /\ IsFiniteSet(S) /\ \A x \in S : key[x] \in Int
      /\ \A x, y \in S : key[x] = key[y] => x = y
  BY DEF Keyed
<1>1. PICK n \in Nat : n = Cardinality(S)
  BY <1>0, FS_CardinalityType
<1>2. \A x \in S : rank[x] \in 1..n
  <2> SUFFICES ASSUME NEW x \in S PROVE Cardinality(below(x)) + 1 \in 1..n
    OBVIOUS
  <2>1. IsFiniteSet(below(x)) /\ Cardinality(below(x)) \in Nat
    BY <1>0, FS_Subset, FS_CardinalityType
  <2>2. x \notin below(x)
    BY <1>0
  <2>3. Cardinality(below(x) \cup {x}) = Cardinality(below(x)) + 1
    BY <2>1, <2>2, FS_AddElement
  <2>4. below(x) \cup {x} \subseteq S
    OBVIOUS
  <2>5. Cardinality(below(x) \cup {x}) <= Cardinality(S)
    BY <1>0, <2>4, FS_Subset
  <2> QED
    BY <1>1, <2>1, <2>3, <2>5
<1>3. \A x, y \in S : key[x] < key[y] => rank[x] < rank[y]
  <2> SUFFICES ASSUME NEW x \in S, NEW y \in S, key[x] < key[y]
               PROVE  Cardinality(below(x)) + 1 < Cardinality(below(y)) + 1
    OBVIOUS
  <2>1. IsFiniteSet(below(x)) /\ Cardinality(below(x)) \in Nat /\ IsFiniteSet(below(y))
        /\ Cardinality(below(y)) \in Nat
    BY <1>0, FS_Subset, FS_CardinalityType
  <2>2. x \notin below(x)
    BY <1>0
  <2>3. Cardinality(below(x) \cup {x}) = Cardinality(below(x)) + 1
    BY <2>1, <2>2, FS_AddElement
  <2>4. below(x) \cup {x} \subseteq below(y)
    BY <1>0
  <2>5. Cardinality(below(x) \cup {x}) <= Cardinality(below(y))
    BY <2>1, <2>4, FS_Subset
  <2> QED
    BY <2>1, <2>3, <2>5
<1>4. \A x, y \in S : rank[x] = rank[y] => x = y
  <2> SUFFICES ASSUME NEW x \in S, NEW y \in S, rank[x] = rank[y] PROVE key[x] = key[y]
    BY <1>0
  <2>1. rank[x] \in Int
    BY <1>1, <1>2
  <2>2. ~(key[x] < key[y]) /\ ~(key[y] < key[x])
    BY <1>3, <2>1
  <2> QED
    BY <1>0, <2>2
<1>5. rank \in Injection(S, 1..n)
  <2>1. rank \in [S -> 1..n]
    BY <1>2
  <2> HIDE DEF rank
  <2> QED
    BY <1>4, <2>1 DEF Injection, IsInjective
<1>6. IsFiniteSet(1..n) /\ Cardinality(1..n) = n
  BY <1>1, FS_Interval
<1>7. rank \in Surjection(S, 1..n)
  BY <1>1, <1>5, <1>6, FS_Injection
<1>8. \A i \in 1..n : \E x \in S : rank[x] = i
  BY <1>7 DEF Surjection
<1>9. q = [i \in 1..n |-> CHOOSE x \in S : Cardinality(below(x)) = i - 1]
  BY <1>1 DEF Sorted
<1>10. \A i \in 1..n : q[i] \in S /\ rank[q[i]] = i
  <2> SUFFICES ASSUME NEW i \in 1..n PROVE q[i] \in S /\ rank[q[i]] = i
    OBVIOUS
  <2>1. q[i] = CHOOSE x \in S : Cardinality(below(x)) = i - 1
    BY <1>9
  <2>2. \E x \in S : Cardinality(below(x)) = i - 1
    <3>1. PICK x \in S : rank[x] = i
      BY <1>8
    <3>2. Cardinality(below(x)) \in Nat
      BY <1>0, FS_Subset, FS_CardinalityType
    <3>3. Cardinality(below(x)) = i - 1
      BY <3>1, <3>2
    <3> QED
      BY <3>3
  <2>3. q[i] \in S /\ Cardinality(below(q[i])) = i - 1
    BY <2>1, <2>2, Zenon
  <2> QED
    BY <2>3
<1>11. q \in Seq(S) /\ Len(q) = n
  <2>1. q \in [1..n -> S]
    BY <1>9, <1>10
  <2> QED
    BY <1>1, <2>1, SeqDef
<1>12. \A x \in S : rank[x] \in 1..n /\ q[rank[x]] = x
  BY <1>2, <1>4, <1>10
<1> HIDE DEF q
<1>13. NoRepeat(q)
  <2> SUFFICES ASSUME NEW i \in 1..n, NEW j \in 1..n, q[i] = q[j] PROVE i = j
    BY <1>11 DEF NoRepeat
  <2> QED
    BY <1>10
<1>14. ToSet(q) = S
  <2>1. ASSUME NEW x \in S PROVE x \in ToSet(q)
    <3>1. rank[x] \in 1..Len(q) /\ q[rank[x]] = x
      BY <1>11, <1>12
    <3> QED
      BY <1>11, <3>1, ToSetOf
  <2> QED
    BY <1>11, <2>1, ToSetOf
<1>15. \A x \in S : Cardinality(below(x)) + 1 \in 1..Len(q) /\ q[Cardinality(below(x)) + 1] = x
  BY <1>11, <1>12
<1> QED
  BY <1>1, <1>11, <1>13, <1>14, <1>15 DEF q, Below

=============================================================================
