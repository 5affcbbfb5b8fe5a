---------------------------- MODULE PkgBuildProofs ----------------------------
(***************************************************************************)
(* Proofs about pkg-build for any repository, any requests, any state that *)
(* failures of earlier ones have left, and any order of the packages.      *)
(*                                                                         *)
(* A plan that pkg-build refines is "fine": each of its entries keeps to   *)
(* what the user has asked for.  Its simulation goes from one good         *)
(* database to the next, and the execution takes the same steps, until it  *)
(* is aborted or reaches the database by which the plan has been judged.   *)
(*                                                                         *)
(* What the model folds over a list, or does to the depth of a recursion,  *)
(* is a function on 0 .. n; such a function exists, and its last value is  *)
(* where the steps lead, because there would be a least number at which    *)
(* that fails.                                                             *)
(***************************************************************************)
EXTENDS PkgBuild, FiniteSetTheorems, SequenceTheorems, WellFoundedInduction, TLAPS
-----------------------------------------------------------------------------
(***************************************************************************)
(* Induction over the naturals, with sets for predicates.                  *)
(***************************************************************************)

\* Every set of naturals has a least element.
LEMMA LeastElement ==
    ASSUME NEW T \in SUBSET Nat, T # {}
    PROVE  \E x \in T : \A y \in T : x <= y
<1>. DEFINE Less == {p \in Nat \X Nat : p[1] < p[2]}
<1>1. IsWellFoundedOn(Less, Nat)
  BY NatLessThanWellFounded DEF OpToRel
<1>2. \E x \in T : \A y \in T : <<y, x>> \notin Less
  BY <1>1, WFMin
<1>3. PICK x \in T : \A y \in T : <<y, x>> \notin Less
  BY <1>2
<1>4. ASSUME NEW y \in T PROVE x <= y
  <2>1. x \in Nat /\ y \in Nat
    OBVIOUS
  <2>2. ~(y < x)
    BY <1>3, <2>1
  <2>. QED BY <2>1, <2>2
<1>. QED BY <1>4

\* A set that has 0 and is closed under successor up to n has all of 0 .. n.
LEMMA InductionUpTo ==
    ASSUME NEW n \in Nat, NEW T, 0 \in T, \A k \in 1 .. n : k - 1 \in T => k \in T
    PROVE  \A k \in 0 .. n : k \in T
<1>. DEFINE Bad == {k \in 0 .. n : k \notin T}
<1>. SUFFICES ASSUME Bad # {} PROVE FALSE
  OBVIOUS
<1>. Bad \in SUBSET Nat
  OBVIOUS
<1>1. PICK k \in Bad : \A m \in Bad : k <= m
  BY LeastElement
<1>2. k \in 1 .. n
  OBVIOUS
<1>3. k - 1 \in 0 .. n /\ k - 1 \notin Bad
  BY <1>1, <1>2
<1>. QED BY <1>2, <1>3

-----------------------------------------------------------------------------
(***************************************************************************)
(* Fold: the values on its way exist, and lead to it.                      *)
(***************************************************************************)
IsWay(w, F, s, seq) == w[0] = s /\ \A i \in 1 .. Len(seq) : w[i] = F[seq[i]][w[i - 1]]

\* There is such a way.
LEMMA WayExists ==
    ASSUME NEW F, NEW s, NEW E, NEW seq \in Seq(E)
    PROVE  \E f : f = [i \in 0 .. Len(seq) |-> f[i]] /\ IsWay(f, F, s, seq)
<1>. DEFINE n == Len(seq)
            Good(k, f) == f[0] = s /\ \A i \in 1 .. k : f[i] = F[seq[i]][f[i - 1]]
            Upto(k, f) == f = [i \in 0 .. k |-> f[i]]
            T == {k \in 0 .. n : \E f : Upto(k, f) /\ Good(k, f)}
<1>0. n \in Nat
  OBVIOUS
<1>1. 0 \in T
  <2>. DEFINE f == [i \in 0 .. 0 |-> s]
  <2>1. Upto(0, f) /\ Good(0, f)
    OBVIOUS
  <2>2. 0 \in 0 .. n
    BY <1>0
  <2>. HIDE DEF f, Good, Upto
  <2>. QED BY <2>1, <2>2
<1>. HIDE DEF n
<1>2. ASSUME NEW k \in 1 .. n, k - 1 \in T PROVE k \in T
  <2>1. PICK f : Upto(k - 1, f) /\ Good(k - 1, f)
    <3>. HIDE DEF Upto, Good
    <3>. QED BY <1>2
  <2>. DEFINE g == [i \in 0 .. k |-> IF i = k THEN F[seq[k]][f[k - 1]] ELSE f[i]]
  <2>0. k \in Nat /\ k > 0 /\ k <= n
    BY <1>0
  <2>3. Upto(k, g)
    OBVIOUS
  <2>4. g[0] = s
    BY <2>0, <2>1
  <2>5. ASSUME NEW i \in 1 .. k PROVE g[i] = F[seq[i]][g[i - 1]]
    <3>1. i - 1 \in 0 .. k /\ i - 1 # k /\ g[i - 1] = f[i - 1]
      BY <2>0
    <3>2. CASE i = k
      BY <3>1, <3>2
    <3>3. CASE i # k
      <4>1. i \in 1 .. k - 1
        BY <2>0, <3>3
      <4>2. i \in 0 .. k /\ g[i] = f[i]
        BY <2>0, <3>3
      <4>3. f[i] = F[seq[i]][f[i - 1]]
        BY <2>1, <4>1
      <4>. QED BY <3>1, <4>2, <4>3
    <3>. QED BY <3>2, <3>3
  <2>6. Good(k, g)
    BY <2>4, <2>5
  <2>. HIDE DEF g, Good, Upto
  <2>7. k \in 0 .. n
    BY <2>0, <1>0
  <2>. QED BY <2>3, <2>6, <2>7
<1>. HIDE DEF T
<1>3. \A k \in 1 .. n : k - 1 \in T => k \in T
  BY <1>2
<1>4. \A k \in 0 .. n : k \in T
  BY <1>0, <1>1, <1>3, InductionUpTo
<1>5. n \in T
  BY <1>0, <1>4
<1>. QED BY <1>5 DEF T, n, IsWay

\* The fold is the end of it.
LEMMA FoldWay ==
    ASSUME NEW F, NEW s, NEW E, NEW seq \in Seq(E)
    PROVE  \E w : IsWay(w, F, s, seq) /\ Fold(F, s, seq) = w[Len(seq)]
<1>. DEFINE n == Len(seq)
            Right(w) == w = [i \in 0 .. n |-> IF i = 0 THEN s ELSE F[seq[i]][w[i - 1]]]
<1>1. n \in Nat
  OBVIOUS
<1>2. PICK f : f = [i \in 0 .. n |-> f[i]] /\ IsWay(f, F, s, seq)
  BY WayExists
<1>3. \A i \in 1 .. n : f[i] = F[seq[i]][f[i - 1]]
  BY <1>2 DEF IsWay
<1>4. Right(f)
  <2>1. \A i \in 0 .. n : i = 0 \/ i \in 1 .. n
    BY <1>1
  <2>2. \A i \in 0 .. n : f[i] = IF i = 0 THEN s ELSE F[seq[i]][f[i - 1]]
    BY <1>2, <1>3, <2>1 DEF IsWay
  <2>. QED BY <1>2, <2>2
<1>. DEFINE w == CHOOSE v : Right(v)
<1>5. Right(w)
  BY <1>4
<1>6. Fold(F, s, seq) = w[n]
  BY DEF Fold
<1>. HIDE DEF w
<1>7. IsWay(w, F, s, seq)
  <2>1. 0 \in 0 .. n /\ \A i \in 1 .. n : i \in 0 .. n /\ i # 0
    BY <1>1
  <2>. QED BY <1>5, <2>1 DEF IsWay
<1>. QED BY <1>6, <1>7

\* If the steps lead from each of the sets to the next, the fold leads to the last.
LEMMA FoldReaches ==
    ASSUME NEW F, NEW s, NEW E, NEW seq \in Seq(E), NEW Q, s \in Q[0],
           \A i \in 1 .. Len(seq) : \A t \in Q[i - 1] : F[seq[i]][t] \in Q[i]
    PROVE  Fold(F, s, seq) \in Q[Len(seq)]
<1>1. PICK w : IsWay(w, F, s, seq) /\ Fold(F, s, seq) = w[Len(seq)]
  BY FoldWay
<1>. DEFINE n == Len(seq)
            T == {i \in 0 .. n : w[i] \in Q[i]}
<1>2. n \in Nat
  OBVIOUS
<1>3. 0 \in T
  BY <1>1, <1>2 DEF IsWay
<1>4. ASSUME NEW i \in 1 .. n, i - 1 \in T PROVE i \in T
  <2>1. w[i - 1] \in Q[i - 1] /\ i \in 0 .. n
    BY <1>2, <1>4
  <2>2. w[i] = F[seq[i]][w[i - 1]]
    BY <1>1 DEF IsWay
  <2>. QED BY <2>1, <2>2
<1>. HIDE DEF T
<1>. HIDE DEF n
<1>5. \A i \in 1 .. n : i - 1 \in T => i \in T
  BY <1>4
<1>6. \A i \in 0 .. n : i \in T
  BY <1>2, <1>3, <1>5, InductionUpTo
<1>7. n \in T
  BY <1>2, <1>6
<1>8. Fold(F, s, seq) = w[n]
  BY <1>1 DEF n
<1>. QED BY <1>7, <1>8 DEF T, n

\* If the steps keep to a set, so does the fold.
LEMMA FoldStays ==
    ASSUME NEW F, NEW P, NEW s \in P, NEW E, NEW seq \in Seq(E),
           \A i \in 1 .. Len(seq) : \A t \in P : F[seq[i]][t] \in P
    PROVE  Fold(F, s, seq) \in P
<1>. DEFINE Q == [i \in 0 .. Len(seq) |-> P]
<1>1. Len(seq) \in Nat
  OBVIOUS
<1>2. Q[0] = P /\ Q[Len(seq)] = P /\ \A i \in 1 .. Len(seq) : Q[i] = P /\ Q[i - 1] = P
  BY <1>1
<1>. HIDE DEF Q
<1>3. \A i \in 1 .. Len(seq) : \A t \in Q[i - 1] : F[seq[i]][t] \in Q[i]
  BY <1>2
<1>4. Fold(F, s, seq) \in Q[Len(seq)]
  BY ONLY seq \in Seq(E), s \in P, <1>2, <1>3, FoldReaches
<1>. QED BY <1>2, <1>4
-----------------------------------------------------------------------------
(***************************************************************************)
(* Extrema, and operations on sequences.                                   *)
(***************************************************************************)

\* The maximum of a finite set of naturals.
LEMMA MaxOf ==
    ASSUME NEW T \in SUBSET Nat, IsFiniteSet(T), T # {}
    PROVE  Max(T) \in T /\ \A y \in T : Max(T) >= y
<1>1. PICK seq \in Seq(T) : \A y \in T : \E n \in 1 .. Len(seq) : seq[n] = y
  BY DEF IsFiniteSet
<1>. DEFINE Bounded == {k \in 0 .. Len(seq) : \E b \in T : \A i \in 1 .. k : seq[i] <= b}
<1>2. Len(seq) \in Nat /\ \A i \in 1 .. Len(seq) : seq[i] \in T /\ seq[i] \in Nat
  BY ElementOfSeq, LenProperties
<1>3. 0 \in Bounded
  <2>1. 0 \in 0 .. Len(seq)
    BY <1>2
  <2>2. PICK b \in T : TRUE
    OBVIOUS
  <2>3. \A i \in 1 .. 0 : seq[i] <= b
    OBVIOUS
  <2>. QED BY <2>1, <2>3
<1>4. ASSUME NEW k \in 1 .. Len(seq), k - 1 \in Bounded PROVE k \in Bounded
  <2>1. PICK b \in T : \A i \in 1 .. k - 1 : seq[i] <= b
    BY <1>4
  <2>2. k \in Nat /\ k \in 0 .. Len(seq) /\ \A i \in 1 .. k : i = k \/ i \in 1 .. k - 1
    BY <1>2
  <2>3. CASE b >= seq[k]
    <3>1. \A i \in 1 .. k : seq[i] <= b
      BY <1>2, <2>1, <2>2, <2>3
    <3>. QED BY <2>2, <3>1
  <2>4. CASE ~(b >= seq[k])
    <3>1. seq[k] \in T /\ \A i \in 1 .. k : seq[i] <= seq[k]
      BY <1>2, <2>1, <2>2, <2>4
    <3>. QED BY <2>2, <3>1
  <2>. QED BY <2>3, <2>4
<1>. HIDE DEF Bounded
<1>5. \A k \in 1 .. Len(seq) : k - 1 \in Bounded => k \in Bounded
  BY <1>4
<1>6. \A k \in 0 .. Len(seq) : k \in Bounded
  BY <1>2, <1>3, <1>5, InductionUpTo
<1>7. Len(seq) \in Bounded
  BY <1>2, <1>6
<1>8. \E b \in T : \A y \in T : b >= y
  BY <1>1, <1>2, <1>7 DEF Bounded
<1>. QED BY <1>8 DEF Max

\* The maximum of two numbers.
LEMMA MaxOfTwo ==
    ASSUME NEW a \in Nat, NEW b \in Nat
    PROVE  Max({a, b}) = IF a >= b THEN a ELSE b
BY DEF Max

\* The minimum of a set of naturals.
LEMMA MinOf ==
    ASSUME NEW T \in SUBSET Nat, T # {}
    PROVE  Min(T) \in T /\ \A y \in T : Min(T) <= y
BY LeastElement DEF Min

\* The range of a sequence.
LEMMA RangeOf ==
    ASSUME NEW S, NEW seq \in Seq(S)
    PROVE  /\ Range(seq) \subseteq S
           /\ \A x : x \in Range(seq) <=> \E i \in 1 .. Len(seq) : x = seq[i]
BY DEF Range

\* The position of a name is on the list, or just behind it, and it is the
\* name's.
LEMMA PositionIn ==
    ASSUME NEW S, NEW list \in Seq(S), NEW n
    PROVE  /\ Position(list, n) \in 1 .. Len(list) + 1
           /\ n \in Range(list) =>
                Position(list, n) \in 1 .. Len(list) /\ list[Position(list, n)] = n
<1>. DEFINE T == {Len(list) + 1} \cup {i \in DOMAIN list : list[i] = n}
<1>1. Len(list) \in Nat /\ DOMAIN list = 1 .. Len(list)
  OBVIOUS
<1>2. T \in SUBSET Nat /\ T # {} /\ T \subseteq 1 .. Len(list) + 1
  BY <1>1
<1>3. n \in Range(list) => \E i \in T : i \in 1 .. Len(list)
  BY <1>1, RangeOf
<1>4. \A i \in T : i \in 1 .. Len(list) => list[i] = n
  BY <1>1
<1>5. Position(list, n) = Min(T)
  BY DEF Position
<1>. HIDE DEF T
<1>6. Min(T) \in T /\ \A y \in T : Min(T) <= y
  BY <1>2, MinOf
<1>7. ASSUME n \in Range(list) PROVE Min(T) \in 1 .. Len(list)
  <2>1. PICK i \in T : i \in 1 .. Len(list)
    BY <1>3, <1>7
  <2>2. Min(T) <= i /\ Min(T) \in 1 .. Len(list) + 1
    BY <1>2, <1>6, <2>1
  <2>. QED BY <1>1, <2>1, <2>2
<1>. QED BY <1>2, <1>4, <1>5, <1>6, <1>7

\* A name is inserted, or taken out.
LEMMA InsertBeforeIn ==
    ASSUME NEW S, NEW list \in Seq(S), NEW n \in S, NEW i \in 1 .. Len(list) + 1
    PROVE  /\ InsertBefore(list, n, i) \in Seq(S)
           /\ Range(InsertBefore(list, n, i)) = Range(list) \cup {n}
<1>. DEFINE a == SubSeq(list, 1, i - 1)
            c == SubSeq(list, i, Len(list))
            ab == a \o <<n>>
            l == ab \o c
<1>0. Len(list) \in Nat /\ i \in Nat /\ i >= 1 /\ i <= Len(list) + 1
  OBVIOUS
<1>1. a \in Seq(S) /\ Len(a) = i - 1 /\ \A j \in 1 .. i - 1 : a[j] = list[j]
  BY <1>0
<1>2. c \in Seq(S) /\ Len(c) = Len(list) - i + 1 /\ \A j \in 1 .. Len(list) - i + 1 : c[j] = list[i + j - 1]
  BY <1>0
<1>3. InsertBefore(list, n, i) = l
  BY DEF InsertBefore
<1>. HIDE DEF a, c
<1>4. ab \in Seq(S) /\ Len(ab) = i /\ ab[i] = n /\ \A j \in 1 .. i - 1 : ab[j] = list[j]
  BY <1>0, <1>1
<1>. HIDE DEF ab
<1>5. l \in Seq(S) /\ Len(l) = Len(list) + 1 /\ \A j \in 1 .. Len(list) + 1 :
           l[j] = IF j <= i THEN ab[j] ELSE c[j - i]
  <2>1. l \in Seq(S) /\ Len(l) = Len(ab) + Len(c)
        /\ \A j \in 1 .. Len(ab) + Len(c) : l[j] = IF j <= Len(ab) THEN ab[j] ELSE c[j - Len(ab)]
    BY ONLY <1>2, <1>4
  <2>2. Len(ab) = i /\ Len(ab) + Len(c) = Len(list) + 1
    BY ONLY <1>0, <1>2, <1>4
  <2>. QED BY ONLY <2>1, <2>2
<1>. HIDE DEF l
<1>6. \A j \in 1 .. Len(list) + 1 : l[j] = IF j < i THEN list[j] ELSE IF j = i THEN n ELSE list[j - 1]
  <2>1. ASSUME NEW j \in 1 .. Len(list) + 1 PROVE l[j] = IF j < i THEN list[j] ELSE IF j = i THEN n ELSE list[j - 1]
    <3>1. CASE j < i
      BY <1>0, <1>4, <1>5, <3>1
    <3>2. CASE j = i
      BY <1>0, <1>4, <1>5, <3>2
    <3>3. CASE j > i
      <4>1. j - i \in 1 .. Len(list) - i + 1 /\ i + (j - i) - 1 = j - 1
        BY <1>0, <3>3
      <4>2. c[j - i] = list[j - 1]
        BY <1>2, <4>1
      <4>. QED BY <1>0, <1>5, <3>3, <4>2
    <3>. QED BY <1>0, <3>1, <3>2, <3>3
  <2>. QED BY <2>1
<1>7. ASSUME NEW x PROVE x \in Range(l) <=> x \in Range(list) \cup {n}
  <2>1. ASSUME x \in Range(l) PROVE x \in Range(list) \cup {n}
    <3>1. PICK j \in 1 .. Len(list) + 1 : x = l[j]
      BY <1>5, <2>1, RangeOf
    <3>2. (j < i => j \in 1 .. Len(list)) /\ (j > i => j - 1 \in 1 .. Len(list))
      BY <1>0
    <3>. QED BY <1>0, <1>6, <3>1, <3>2, RangeOf
  <2>2. ASSUME x \in Range(list) PROVE x \in Range(l)
    <3>1. PICK j \in 1 .. Len(list) : x = list[j]
      BY <2>2, RangeOf
    <3>2. CASE j < i
      BY <1>0, <1>5, <1>6, <3>1, <3>2, RangeOf
    <3>3. CASE j >= i
      <4>1. j + 1 \in 1 .. Len(list) + 1 /\ j + 1 > i /\ (j + 1) - 1 = j
        BY <1>0, <3>3
      <4>2. l[j + 1] = x
        BY <1>0, <1>6, <3>1, <4>1
      <4>. QED BY <1>5, <4>1, <4>2, RangeOf
    <3>. QED BY <1>0, <3>2, <3>3
  <2>3. n \in Range(l)
    BY <1>0, <1>5, <1>6, RangeOf
  <2>. QED BY <2>1, <2>2, <2>3
<1>. QED BY <1>3, <1>5, <1>7

\* Removing a name from a list removes at most this name.
LEMMA WithoutIn ==
    ASSUME NEW S, NEW list \in Seq(S), NEW n
    PROVE  /\ Without(list, n) \in Seq(S)
           /\ Range(Without(list, n)) \subseteq Range(list)
           /\ Range(list) \subseteq Range(Without(list, n)) \cup {n}
<1>1. CASE n \notin Range(list)
  BY <1>1 DEF Without
<1>2. CASE n \in Range(list)
  <2>. DEFINE i == Position(list, n)
              a == SubSeq(list, 1, i - 1)
              c == SubSeq(list, i + 1, Len(list))
              l == a \o c
  <2>0. Len(list) \in Nat /\ i \in Nat /\ i >= 1 /\ i <= Len(list) /\ list[i] = n
    BY <1>2, PositionIn
  <2>1. Without(list, n) = l
    BY <1>2 DEF Without, RemoveAt
  <2>. HIDE DEF i
  <2>2. a \in Seq(S) /\ Len(a) = i - 1 /\ \A j \in 1 .. i - 1 : a[j] = list[j]
    BY <2>0
  <2>3. c \in Seq(S) /\ Len(c) = Len(list) - i /\ \A j \in 1 .. Len(list) - i : c[j] = list[i + j]
    BY <2>0
  <2>. HIDE DEF a, c
  <2>4. l \in Seq(S) /\ Len(l) = Len(list) - 1 /\ \A j \in 1 .. Len(list) - 1 :
           l[j] = IF j <= i - 1 THEN a[j] ELSE c[j - (i - 1)]
    <3>1. /\ l \in Seq(S) /\ Len(l) = Len(a) + Len(c)
          /\ \A j \in 1 .. Len(a) + Len(c) : l[j] = IF j <= Len(a) THEN a[j] ELSE c[j - Len(a)]
      BY <2>2, <2>3, ConcatProperties
    <3>2. Len(a) + Len(c) = Len(list) - 1
      BY <2>0, <2>2, <2>3
    <3>. HIDE DEF l
    <3>. QED BY <2>2, <3>1, <3>2
  <2>. HIDE DEF l
  <2>5. \A j \in 1 .. Len(list) - 1 : l[j] = IF j < i THEN list[j] ELSE list[j + 1]
    <3>1. ASSUME NEW j \in 1 .. Len(list) - 1 PROVE l[j] = IF j < i THEN list[j] ELSE list[j + 1]
      <4>1. CASE j < i
        BY <2>0, <2>2, <2>4, <4>1
      <4>2. CASE j >= i
        <5>1. j - (i - 1) \in 1 .. Len(list) - i /\ i + (j - (i - 1)) = j + 1 /\ ~(j <= i - 1)
          BY <2>0, <4>2
        <5>. QED BY <2>0, <2>3, <2>4, <4>2, <5>1
      <4>. QED BY <2>0, <4>1, <4>2
    <3>. QED BY <3>1
  <2>6. ASSUME NEW x \in Range(l) PROVE x \in Range(list)
    <3>1. PICK j \in 1 .. Len(list) - 1 : x = l[j]
      BY <2>4, RangeOf
    <3>2. j \in 1 .. Len(list) /\ j + 1 \in 1 .. Len(list)
      BY <2>0
    <3>. QED BY <2>5, <3>1, <3>2, RangeOf
  <2>7. ASSUME NEW x \in Range(list), x # n PROVE x \in Range(l)
    <3>1. PICK j \in 1 .. Len(list) : x = list[j]
      BY RangeOf
    <3>2. CASE j < i
      <4>1. j \in 1 .. Len(list) - 1
        BY <2>0, <3>2
      <4>. QED BY <2>4, <2>5, <3>1, <3>2, <4>1, RangeOf
    <3>3. CASE j > i
      <4>1. j - 1 \in 1 .. Len(list) - 1 /\ ~(j - 1 < i) /\ (j - 1) + 1 = j
        BY <2>0, <3>3
      <4>2. l[j - 1] = x
        BY <2>5, <3>1, <4>1
      <4>. QED BY <2>4, <4>1, <4>2, RangeOf
    <3>4. j # i
      BY <2>0, <2>7, <3>1
    <3>. QED BY <2>0, <3>2, <3>3, <3>4
  <2>. QED BY <2>1, <2>4, <2>6, <2>7
<1>. QED BY <1>1, <1>2

\* A list that is turned round has the same elements, the last one first.
LEMMA ReverseIn ==
    ASSUME NEW S, NEW seq \in Seq(S)
    PROVE  /\ Reverse(seq) \in Seq(S) /\ Len(Reverse(seq)) = Len(seq)
           /\ Range(Reverse(seq)) = Range(seq)
           /\ \A i \in 1 .. Len(seq) : Reverse(seq)[i] = seq[Len(seq) - i + 1]
<1>0. Len(seq) \in Nat /\ \A i \in 1 .. Len(seq) : Len(seq) - i + 1 \in 1 .. Len(seq) /\ seq[Len(seq) - i + 1] \in S
  OBVIOUS
<1>. DEFINE r == [i \in 1 .. Len(seq) |-> seq[Len(seq) - i + 1]]
<1>1. r = Reverse(seq)
  BY DEF Reverse
<1>2. r \in Seq(S) /\ Len(r) = Len(seq) /\ \A i \in 1 .. Len(seq) : r[i] = seq[Len(seq) - i + 1]
  BY <1>0
<1>. HIDE DEF r
<1>3. ASSUME NEW x \in Range(r) PROVE x \in Range(seq)
  <2>1. PICK i \in 1 .. Len(seq) : x = r[i]
    BY <1>2, RangeOf
  <2>. QED BY <1>0, <1>2, <2>1, RangeOf
<1>4. ASSUME NEW x \in Range(seq) PROVE x \in Range(r)
  <2>1. PICK i \in 1 .. Len(seq) : x = seq[i]
    BY RangeOf
  <2>2. Len(seq) - i + 1 \in 1 .. Len(seq) /\ Len(seq) - (Len(seq) - i + 1) + 1 = i
    BY <1>0
  <2>3. r[Len(seq) - i + 1] = x
    BY <1>2, <2>1, <2>2
  <2>. QED BY <1>2, <2>2, <2>3, RangeOf
<1>. QED BY <1>1, <1>2, <1>3, <1>4

\* Those of the elements of a sequence that are in a set.
LEMMA ThoseIn ==
    ASSUME NEW E, NEW seq \in Seq(E), NEW set
    PROVE  /\ Those(seq, set) \in Seq(Range(seq)) /\ Those(seq, set) \in Seq(E)
           /\ Range(Those(seq, set)) = Range(seq) \cap set
<1>. DEFINE R == Range(seq)
            S == Seq(R)
            F == [e \in R |-> [t \in S |-> IF e \in set THEN Append(t, e) ELSE t]]
            First(i) == {seq[j] : j \in 1 .. i} \cap set
            Q == [i \in 0 .. Len(seq) |-> {t \in S : Range(t) = First(i)}]
<1>0. Len(seq) \in Nat /\ R \subseteq E /\ \A i \in 1 .. Len(seq) : seq[i] \in R
  BY RangeOf
<1>1. seq \in Seq(R)
  BY <1>0
<1>3. <<>> \in S /\ <<>> \in Q[0]
  <2>1. Range(<<>>) = {} /\ First(0) = {}
    BY DEF Range
  <2>. QED BY <1>0, <2>1
<1>4. ASSUME NEW i \in 1 .. Len(seq), NEW t \in Q[i - 1] PROVE F[seq[i]][t] \in Q[i]
  <2>1. i \in 0 .. Len(seq) /\ i - 1 \in 0 .. Len(seq) /\ seq[i] \in R
    BY <1>0
  <2>2. t \in S /\ Range(t) = First(i - 1)
    <3>. HIDE DEF S, First
    <3>. QED BY <1>4, <2>1
  <2>3. First(i) = First(i - 1) \cup ({seq[i]} \cap set)
    BY <1>0
  <2>4. F[seq[i]][t] = IF seq[i] \in set THEN Append(t, seq[i]) ELSE t
    BY <2>1, <2>2
  <2>5. Append(t, seq[i]) \in S /\ Range(Append(t, seq[i])) = Range(t) \cup {seq[i]}
    <3>1. Append(t, seq[i]) \in S /\ Len(Append(t, seq[i])) = Len(t) + 1 /\ Len(t) \in Nat
          /\ Append(t, seq[i])[Len(t) + 1] = seq[i] /\ \A j \in 1 .. Len(t) : Append(t, seq[i])[j] = t[j]
      BY <2>1, <2>2
    <3>2. \A x : x \in Range(Append(t, seq[i])) <=> x \in Range(t) \/ x = seq[i]
      <4>. DEFINE u == Append(t, seq[i])
      <4>1. \A x : x \in Range(t) <=> \E j \in 1 .. Len(t) : x = t[j]
        BY <2>2, RangeOf
      <4>2. \A x : x \in Range(u) <=> \E j \in 1 .. Len(u) : x = u[j]
        <5>1. u \in Seq(R)
          BY <3>1
        <5>. HIDE DEF u
        <5>. QED BY <5>1, RangeOf
      <4>3. \A j : j \in 1 .. Len(t) + 1 <=> j \in 1 .. Len(t) \/ j = Len(t) + 1
        BY <3>1
      <4>4. Len(u) = Len(t) + 1 /\ u[Len(t) + 1] = seq[i] /\ \A j \in 1 .. Len(t) : u[j] = t[j]
        BY <3>1
      <4>. HIDE DEF u
      <4>5. \A x : x \in Range(u) <=> x \in Range(t) \/ x = seq[i]
        <5>1. ASSUME NEW x \in Range(u) PROVE x \in Range(t) \/ x = seq[i]
          <6>1. PICK j \in 1 .. Len(u) : x = u[j]
            BY <4>2
          <6>2. j \in 1 .. Len(t) \/ j = Len(t) + 1
            BY <4>3, <4>4
          <6>. QED BY <4>1, <4>4, <6>1, <6>2
        <5>2. ASSUME NEW x \in Range(t) PROVE x \in Range(u)
          <6>1. PICK j \in 1 .. Len(t) : x = t[j]
            BY <4>1
          <6>. QED BY <4>2, <4>3, <4>4, <6>1
        <5>3. seq[i] \in Range(u)
          <6>1. Len(u) \in 1 .. Len(u) /\ u[Len(u)] = seq[i]
            BY <3>1, <4>4
          <6>. QED BY <4>2, <6>1
        <5>. QED BY <5>1, <5>2, <5>3
      <4>. QED BY <4>5 DEF u
    <3>. QED BY <3>1, <3>2
  <2>6. F[seq[i]][t] \in S /\ Range(F[seq[i]][t]) = First(i)
    <3>. HIDE DEF First, F, S
    <3>1. CASE seq[i] \in set
      BY <2>2, <2>3, <2>4, <2>5, <3>1
    <3>2. CASE seq[i] \notin set
      BY <2>2, <2>3, <2>4, <3>2
    <3>. QED BY <3>1, <3>2
  <2>. HIDE DEF First, F
  <2>. QED BY <2>1, <2>6
<1>5. Those(seq, set) = Fold(F, <<>>, seq)
  BY DEF Those
<1>. HIDE DEF F, Q, S
<1>6. \A i \in 1 .. Len(seq) : \A t \in Q[i - 1] : F[seq[i]][t] \in Q[i]
  BY <1>4
<1>7. Fold(F, <<>>, seq) \in Q[Len(seq)]
  BY ONLY <1>1, <1>3, <1>6, FoldReaches
<1>8. Range(Those(seq, set)) = First(Len(seq)) /\ Those(seq, set) \in S
  BY <1>0, <1>5, <1>7 DEF Q
<1>9. {seq[j] : j \in 1 .. Len(seq)} = Range(seq)
  BY RangeOf
<1>10. Seq(R) \subseteq Seq(E)
  BY <1>0
<1>. QED BY <1>5, <1>7, <1>8, <1>9, <1>10 DEF S
-----------------------------------------------------------------------------
(***************************************************************************)
(* The constants, and what is asked for.                                   *)
(***************************************************************************)
LEMMA ConstantFacts ==
    /\ Versions \subseteq Nat /\ 0 \notin Versions /\ IsFiniteSet(Versions)
    /\ Order \in Seq(Names) /\ Range(Order) = Names
    /\ \A n, v : DependenciesOf(n, v) \in Seq(Dependencies)
    /\ MaxDepth \in Nat
<1>1. ASSUME NEW n, NEW v PROVE DependenciesOf(n, v) \in Seq(Dependencies)
  BY PkgBuildAssumption DEF DependenciesOf
<1>2. Versions \subseteq Nat /\ 0 \notin Versions /\ IsFiniteSet(Versions) /\ Order \in Seq(Names)
      /\ MaxDepth \in Nat
  BY PkgBuildAssumption DEF Names
<1>. QED BY <1>1, <1>2 DEF Names

\* A dependency is a name and a constraint.
LEMMA DependencyIn ==
    ASSUME NEW d \in Dependencies
    PROVE  d = <<d[1], d[2]>> /\ d[1] \in Names /\ d[2] \subseteq Versions
BY DEF Dependencies

\* The names in a sequence of pairs.
LEMMA NamesInSeq ==
    ASSUME NEW E, NEW seq \in Seq(E), NEW S, \A e \in E : e[1] \in S
    PROVE  /\ NamesIn(seq) \in Seq(S) /\ Len(NamesIn(seq)) = Len(seq)
           /\ \A i \in 1 .. Len(seq) : NamesIn(seq)[i] = seq[i][1]
<1>1. Len(seq) \in Nat /\ DOMAIN seq = 1 .. Len(seq) /\ \A i \in 1 .. Len(seq) : seq[i][1] \in S
  OBVIOUS
<1>. QED BY <1>1 DEF NamesIn

\* The names of dependencies, one by one.
LEMMA NamesInDependencies ==
    ASSUME NEW seq \in Seq(Dependencies)
    PROVE  /\ NamesIn(seq) \in Seq(Names) /\ Len(NamesIn(seq)) = Len(seq)
           /\ \A i \in 1 .. Len(seq) : NamesIn(seq)[i] = seq[i][1]
BY DependencyIn, NamesInSeq

\* The names of a set, in the order of Order.
LEMMA InOrderIn ==
    ASSUME NEW names \in SUBSET Names
    PROVE  InOrder(names) \in Seq(Names) /\ Range(InOrder(names)) = names
<1>1. Order \in Seq(Names) /\ Range(Order) = Names
  BY ConstantFacts
<1>2. Those(Order, names) \in Seq(Names) /\ Range(Those(Order, names)) = Range(Order) \cap names
  BY <1>1, ThoseIn
<1>. QED BY <1>1, <1>2 DEF InOrder

\* The latest version that is available, and good enough.
LEMMA FindAvailableIn ==
    ASSUME NEW n, NEW constraint
    PROVE  /\ FindAvailable(n, constraint) \in Versions \cup {0}
           /\ FindAvailable(n, constraint) # 0 =>
                FindAvailable(n, constraint) \in Available(n) /\ FindAvailable(n, constraint) \in constraint
<1>. DEFINE T == {0} \cup (Available(n) \cap constraint)
<1>1. T \in SUBSET Nat /\ T # {} /\ T \subseteq Versions \cup {0}
  <2>1. Versions \subseteq Nat
    BY ConstantFacts
  <2>2. Available(n) \subseteq Versions
    BY DEF Available
  <2>3. 0 \in T
    OBVIOUS
  <2>4. T \subseteq Versions \cup {0}
    BY <2>2
  <2>5. Versions \cup {0} \subseteq Nat
    BY <2>1
  <2>. HIDE DEF T
  <2>. QED BY <2>3, <2>4, <2>5
<1>2. IsFiniteSet(Versions \cup {0})
  BY ConstantFacts, FS_AddElement
<1>3. IsFiniteSet(T)
  BY <1>1, <1>2, FS_Subset
<1>4. Max(T) \in T
  BY <1>1, <1>3, MaxOf
<1>. QED BY <1>1, <1>4 DEF FindAvailable

\* What a request asks for.
HoldNames(r) == Range(NamesIn(r.hold))
DepNames(r) == Range(NamesIn(r.dep))
Asked(r) == HoldNames(r) \cup DepNames(r)

\* It names no package twice.
ValidRequest(r) ==
    /\ r.hold \in Seq(Dependencies) /\ r.dep \in Seq(Dependencies)
    /\ HoldNames(r) \cap DepNames(r) = {}
    /\ \A i, j \in 1 .. Len(r.hold) : r.hold[i][1] = r.hold[j][1] => i = j
    /\ \A i, j \in 1 .. Len(r.dep) : r.dep[i][1] = r.dep[j][1] => i = j

\* The names in a request are those of its packages to hold and of its
\* dependencies.
LEMMA HoldNamesIn ==
    ASSUME NEW r, ValidRequest(r)
    PROVE  /\ HoldNames(r) \subseteq Names /\ DepNames(r) \subseteq Names
           /\ \A n : n \in HoldNames(r) <=> \E i \in 1 .. Len(r.hold) : n = r.hold[i][1]
           /\ \A n : n \in DepNames(r) <=> \E i \in 1 .. Len(r.dep) : n = r.dep[i][1]
<1>1. r.hold \in Seq(Dependencies) /\ r.dep \in Seq(Dependencies)
  BY DEF ValidRequest
<1>2. NamesIn(r.hold) \in Seq(Names) /\ NamesIn(r.dep) \in Seq(Names)
  BY <1>1, NamesInDependencies
<1>3. ASSUME NEW seq \in Seq(Dependencies)
      PROVE  /\ Range(NamesIn(seq)) \subseteq Names
             /\ \A n : n \in Range(NamesIn(seq)) <=> \E i \in 1 .. Len(seq) : n = seq[i][1]
  <2>. DEFINE names == NamesIn(seq)
  <2>1. names \in Seq(Names) /\ Len(names) = Len(seq) /\ \A i \in 1 .. Len(seq) : names[i] = seq[i][1]
    BY NamesInDependencies
  <2>. HIDE DEF names
  <2>2. Range(names) \subseteq Names /\ \A n : n \in Range(names) <=> \E i \in 1 .. Len(seq) : n = names[i]
    BY <2>1, RangeOf
  <2>3. \A n : n \in Range(names) <=> \E i \in 1 .. Len(seq) : n = seq[i][1]
    BY <2>1, <2>2
  <2>. QED BY <2>2, <2>3 DEF names
<1>. QED BY <1>1, <1>3 DEF HoldNames, DepNames

\* The requests that are made name no package twice, which the assumption says.
LEMMA RequestsAreValid ==
    /\ ValidRequest(NoRequest)
    /\ \A r \in Requests : ValidRequest(r)
<1>1. ValidRequest(NoRequest)
  BY DEF ValidRequest, NoRequest, HoldNames, DepNames, NamesIn, Range
<1>2. ASSUME NEW r \in Requests PROVE ValidRequest(r)
  <2>. DEFINE h == r.hold
              d == r.dep
              all == h \o d
  <2>1. /\ h \in Seq(Dependencies) /\ d \in Seq(Dependencies)
        /\ \A i, j \in DOMAIN all : all[i][1] = all[j][1] => i = j
    BY PkgBuildAssumption DEF RequestedBy
  <2>. HIDE DEF h, d
  <2>2. /\ Len(h) \in Nat /\ Len(d) \in Nat /\ DOMAIN all = 1 .. Len(h) + Len(d)
        /\ \A i \in 1 .. Len(h) : all[i] = h[i]
        /\ \A i \in 1 .. Len(d) : all[Len(h) + i] = d[i]
    BY <2>1
  <2>. HIDE DEF all
  <2>3. \A i, j \in 1 .. Len(h) : h[i][1] = h[j][1] => i = j
    <3>1. \A i \in 1 .. Len(h) : i \in DOMAIN all
      BY <2>2
    <3>. QED BY <2>1, <2>2, <3>1
  <2>4. ASSUME NEW i \in 1 .. Len(d), NEW j \in 1 .. Len(d), d[i][1] = d[j][1] PROVE i = j
    <3>1. Len(h) + i \in DOMAIN all /\ Len(h) + j \in DOMAIN all
      BY <2>2
    <3>2. all[Len(h) + i] = d[i] /\ all[Len(h) + j] = d[j]
      BY <2>2
    <3>3. Len(h) + i = Len(h) + j
      BY <2>1, <2>4, <3>1, <3>2
    <3>. QED BY <2>2, <3>3
  <2>5. ASSUME NEW n, n \in HoldNames(r), n \in DepNames(r) PROVE FALSE
    <3>1. NamesIn(h) \in Seq(Names) /\ NamesIn(d) \in Seq(Names)
      BY <2>1, NamesInDependencies
    <3>2. PICK i \in 1 .. Len(h) : n = h[i][1]
      <4>1. n \in Range(NamesIn(h))
        BY <2>5 DEF HoldNames, h
      <4>2. PICK i \in 1 .. Len(NamesIn(h)) : n = NamesIn(h)[i]
        BY <3>1, <4>1, RangeOf
      <4>. QED BY <2>1, <4>2, NamesInDependencies
    <3>3. PICK j \in 1 .. Len(d) : n = d[j][1]
      <4>1. n \in Range(NamesIn(d))
        BY <2>5 DEF DepNames, d
      <4>2. PICK j \in 1 .. Len(NamesIn(d)) : n = NamesIn(d)[j]
        BY <3>1, <4>1, RangeOf
      <4>. QED BY <2>1, <4>2, NamesInDependencies
    <3>4. i \in DOMAIN all /\ Len(h) + j \in DOMAIN all /\ i # Len(h) + j
      BY <2>2
    <3>5. all[i] = h[i] /\ all[Len(h) + j] = d[j]
      BY <2>2
    <3>. QED BY <2>1, <3>2, <3>3, <3>4, <3>5
  <2>. QED BY <2>1, <2>3, <2>4, <2>5 DEF ValidRequest, h, d
<1>. QED BY <1>1, <1>2
-----------------------------------------------------------------------------
(***************************************************************************)
(* Entries and plans.                                                      *)
(***************************************************************************)

\* The records of a package that there are: one that is not there is not held,
\* and only one that is configured has prerequisites.
GoodPackage(e) ==
    /\ e \in Packages
    /\ IF e.state = "none" THEN e = NotSelected ELSE e.version # 0
    /\ e.state # "configured" => e.prerequisites = {}

\* The databases that there are: they are of such records, and the configured
\* packages stand.
GoodDatabase(db) ==
    /\ db \in Databases
    /\ \A n \in Names : GoodPackage(db[n])
    /\ Standing(db)

\* A package that was not asked for: its version is not changed if it is held.
Bystander(db, n, e) ==
    /\ e.hold_package = Null /\ e.hold_version = Null
    /\ e.action = "build" /\ db[n].hold_version => e.available = db[n].version

\* A package that is to be held will have a version that was asked for.
WillHold(r, n, e) ==
    /\ e.action = "build" /\ e.hold_package = True
    /\ \A i \in 1 .. Len(r.hold) : r.hold[i][1] = n =>
          /\ e.available \in r.hold[i][2]
          /\ r.hold[i][2] = AnyVersion \/ r.hold[i][2] \in e.constraints

\* The entry e of n is fine, if D are the decisions, H the packages to be held
\* that have been collected so far, and U those to be unheld.
EntryFine(db, r, D, H, U, n, e) ==
    /\ e.action = "build" => e.available # 0
    /\ e.action = "drop" => <<n, 0>> \in D
    /\ n \notin Asked(r) => Bystander(db, n, e)
    /\ n \notin DepNames(r) => ~e.unhold /\ e.action # "entered"
    /\ n \in DepNames(r) => e.hold_package # True
    /\ n \in H => WillHold(r, n, e)
    /\ n \in U /\ db[n].hold_package => e.action = "drop" \/ e.unhold

\* The plans with such entries, unless they have failed; R are on the list.
Fine(db, r, D, H, U, R) ==
    {s \in Plans : s.status = "ok" =>
        /\ R \subseteq Range(s.list)
        /\ \A n \in Names : EntryFine(db, r, D, H, U, n, s.map[n])}

\* The plan that nothing has been collected for.
LEMMA NothingPlanned ==
    /\ Absent \in Entries /\ NoPackages \in Plans
    /\ NoPackages.status = "ok" /\ \A n \in Names : NoPackages.map[n] = Absent
<1>1. Absent \in Entries
  BY DEF Absent, Entries, Null, False, True
<1>2. <<>> \in Seq(Names)
  OBVIOUS
<1>. QED BY <1>1, <1>2 DEF NoPackages, Plans, Statuses

\* A plan that has stopped is one.
LEMMA StoppedIn ==
    ASSUME NEW s \in Plans, NEW status \in Statuses
    PROVE  Stopped(s, status) \in Plans /\ Stopped(s, status).status = status
BY DEF Stopped, Plans

\* Nothing is asked of a plan that has failed.
LEMMA StoppedFine ==
    ASSUME NEW s \in Plans, NEW status \in {"failed", "assertion", "endless"},
           NEW db, NEW r, NEW D, NEW H, NEW U, NEW R
    PROVE  Stopped(s, status) \in Fine(db, r, D, H, U, R)
BY StoppedIn DEF Statuses, Fine

\* Putting an entry into the map changes nothing else.
LEMMA PutIn ==
    ASSUME NEW s \in Plans, NEW n \in Names, NEW e \in Entries
    PROVE  /\ Put(s, n, e) \in Plans
           /\ Put(s, n, e).status = s.status /\ Put(s, n, e).list = s.list
           /\ \A m \in Names : Put(s, n, e).map[m] = IF m = n THEN e ELSE s.map[m]
BY DEF Put, Plans

\* The parts of a plan.
LEMMA PlanIn ==
    ASSUME NEW s \in Plans
    PROVE  /\ s.list \in Seq(Names) /\ s.status \in Statuses
           /\ \A n \in Names : s.map[n] \in Entries
BY DEF Plans

\* Replacing the list changes nothing else.
LEMMA ListIn ==
    ASSUME NEW s \in Plans, NEW l \in Seq(Names)
    PROVE  /\ [s EXCEPT !.list = l] \in Plans /\ [s EXCEPT !.list = l].list = l
           /\ [s EXCEPT !.list = l].status = s.status /\ [s EXCEPT !.list = l].map = s.map
BY DEF Plans

\* A plan stays fine if the entry that is put into its map is.
LEMMA PutFine ==
    ASSUME NEW db, NEW r, NEW D, NEW H, NEW U, NEW R, NEW s \in Fine(db, r, D, H, U, R),
           NEW n \in Names, NEW e \in Entries,
           s.status = "ok" => EntryFine(db, r, D, H, U, n, e)
    PROVE  Put(s, n, e) \in Fine(db, r, D, H, U, R)
BY PutIn DEF Fine

\* Entries are merged.
LEMMA MergeIn ==
    ASSUME NEW p \in Entries, NEW q \in Entries
    PROVE  /\ Merge(p, q) \in Entries
           /\ Merge(p, q).action = p.action /\ Merge(p, q).available = p.available
           /\ Merge(p, q).constraints = p.constraints \cup q.constraints
           /\ Merge(p, q).unhold <=> p.unhold \/ q.unhold
           /\ Merge(p, q).hold_package =
                IF p.hold_package >= q.hold_package THEN p.hold_package ELSE q.hold_package
           /\ Merge(p, q).hold_version =
                IF p.hold_version >= q.hold_version THEN p.hold_version ELSE q.hold_version
<1>1. /\ p.hold_package \in {0, 1, 2} /\ q.hold_package \in {0, 1, 2}
      /\ p.hold_version \in {0, 1, 2} /\ q.hold_version \in {0, 1, 2}
  BY DEF Entries, Null, False, True
<1>. DEFINE larger(a, b) == IF a >= b THEN a ELSE b
<1>2. /\ Max({p.hold_package, q.hold_package}) = larger(p.hold_package, q.hold_package)
      /\ Max({p.hold_version, q.hold_version}) = larger(p.hold_version, q.hold_version)
  BY <1>1, MaxOfTwo
<1>3. PICK hp \in {0, 1, 2} : hp = Max({p.hold_package, q.hold_package})
  BY <1>1, <1>2
<1>4. PICK hv \in {0, 1, 2} : hv = Max({p.hold_version, q.hold_version})
  BY <1>1, <1>2
<1>5. PICK c \in SUBSET SUBSET Versions : c = p.constraints \cup q.constraints
  BY DEF Entries
<1>6. PICK u \in BOOLEAN : u = (p.user \/ q.user)
  OBVIOUS
<1>7. PICK h \in BOOLEAN : h = (p.unhold \/ q.unhold)
  OBVIOUS
<1>8. PICK f \in BOOLEAN : f = (p.reconfigure \/ q.reconfigure)
  OBVIOUS
<1>9. Merge(p, q) = [p EXCEPT !.user = u, !.constraints = c, !.hold_package = hp, !.hold_version = hv,
                              !.unhold = h, !.reconfigure = f]
  BY <1>3, <1>4, <1>5, <1>6, <1>7, <1>8, Zenon DEF Merge
<1>10. PICK m : m = Merge(p, q)
  OBVIOUS
<1>11. m \in Entries
  <2>1. [p EXCEPT !.user = u, !.constraints = c, !.hold_package = hp, !.hold_version = hv,
                  !.unhold = h, !.reconfigure = f] \in Entries
    BY DEF Entries, Null, False, True
  <2>. QED BY <1>9, <1>10, <2>1
<1>12. /\ m.action = p.action /\ m.available = p.available /\ m.constraints = c
       /\ m.unhold = h /\ m.hold_package = hp /\ m.hold_version = hv
  BY ONLY p \in Entries, <1>9, <1>10 DEF Entries
<1>13. m.unhold <=> p.unhold \/ q.unhold
  BY <1>7, <1>12
<1>. QED BY <1>2, <1>3, <1>4, <1>5, <1>10, <1>11, <1>12, <1>13

\* Which of two entries is kept.
LEMMA PickIn ==
    ASSUME NEW old \in Entries, NEW new \in Entries
    PROVE  /\ Pick(old, new) \in {"new", "old", "conflict"}
           /\ Pick(old, new) # "new" => old.action = "build"
           /\ Pick(old, new) = "new" /\ old.action = "build" =>
                 new.available = old.available \/ Satisfies(new, old)
<1>1. CASE old.action # "build"
  BY <1>1 DEF Pick
<1>2. CASE old.action = "build" /\ old.available = new.available
  BY <1>2 DEF Pick
<1>3. CASE old.action = "build" /\ old.available # new.available
  <2>. DEFINE first == IF new.available > old.available THEN "new" ELSE "old"
              ok == [new |-> Satisfies(new, old), old |-> Satisfies(old, new)]
  <2>1. Pick(old, new) = IF ok[first] THEN first
             ELSE IF \E w \in {"new", "old"} : ok[w] THEN CHOOSE w \in {"new", "old"} : ok[w]
             ELSE "conflict"
    BY <1>3 DEF Pick
  <2>2. first \in {"new", "old"} /\ ok["new"] = Satisfies(new, old)
    OBVIOUS
  <2>. HIDE DEF first, ok
  <2>3. Pick(old, new) \in {"new", "old", "conflict"} /\ (Pick(old, new) = "new" => ok["new"])
    <3>1. CASE ok[first]
      BY <2>1, <2>2, <3>1
    <3>2. CASE ~ok[first] /\ \E w \in {"new", "old"} : ok[w]
      BY <2>1, <3>2
    <3>3. CASE ~ok[first] /\ ~\E w \in {"new", "old"} : ok[w]
      BY <2>1, <3>3
    <3>. QED BY <3>1, <3>2, <3>3
  <2>. QED BY <1>3, <2>2, <2>3
<1>. QED BY <1>1, <1>2, <1>3

\* collect_build() without the prerequisites.
LEMMA CollectIn ==
    ASSUME NEW s \in Plans, NEW n \in Names, NEW new \in Entries
    PROVE  Collect(s, n, new) \in Plans
<1>. DEFINE old == s.map[n]
<1>1. old \in Entries
  BY PlanIn
<1>. HIDE DEF old
<1>2. Merge(new, old) \in Entries /\ Merge(old, new) \in Entries
  BY <1>1, MergeIn
<1>3. Put(s, n, Merge(new, old)) \in Plans /\ Put(s, n, Merge(old, new)) \in Plans
  BY <1>2, PutIn
<1>4. Stopped(s, "assertion") \in Plans /\ Stopped(s, "failed") \in Plans
  BY StoppedIn DEF Statuses
<1>. QED BY <1>3, <1>4 DEF Collect, old

\* collect_build() keeps a plan fine: what it merges keeps the wishes of the
\* user, and a held version that was not asked for is not replaced.
LEMMA CollectFine ==
    ASSUME NEW db, NEW r, NEW D, NEW H, NEW U, NEW R, NEW s \in Fine(db, r, D, H, U, R),
           H \subseteq HoldNames(r), HoldNames(r) \cap DepNames(r) = {}, ValidRequest(r),
           NEW n \in Names, NEW new \in Entries, s.status = "ok",
           new.action = "build", new.available # 0, ~new.unhold,
           new.hold_package = Null, new.hold_version = Null,
           Pick(s.map[n], new) = "new" /\ n \notin Asked(r) /\ db[n].hold_version =>
               new.available = db[n].version
    PROVE  Collect(s, n, new) \in Fine(db, r, D, H, U, R)
<1>. DEFINE old == s.map[n]
<1>1. s \in Plans /\ old \in Entries /\ EntryFine(db, r, D, H, U, n, old)
  BY PlanIn DEF Fine
<1>2. Pick(s.map[n], new) = Pick(old, new)
  OBVIOUS
<1>3. Collect(s, n, new) =
        IF old.action = "drop" THEN Stopped(s, "assertion")
        ELSE IF Pick(old, new) = "conflict" THEN Stopped(s, "failed")
        ELSE Put(s, n, IF Pick(old, new) = "new" THEN Merge(new, old) ELSE Merge(old, new))
  BY DEF Collect
<1>. HIDE DEF old
<1>4. /\ old.hold_package \in {0, 1, 2} /\ old.hold_version \in {0, 1, 2} /\ old.unhold \in BOOLEAN
      /\ old.available \in Versions \cup {0} /\ new.available \in Versions \cup {0}
      /\ new.hold_package = 0 /\ new.hold_version = 0
  BY <1>1 DEF Entries, Null, False, True
<1>5. ASSUME Pick(old, new) = "new", old.action # "drop"
      PROVE  EntryFine(db, r, D, H, U, n, Merge(new, old))
  <2>. DEFINE m == Merge(new, old)
  <2>1. /\ m.action = "build" /\ m.available = new.available /\ (m.unhold <=> old.unhold)
        /\ m.constraints = new.constraints \cup old.constraints
        /\ m.hold_package = old.hold_package /\ m.hold_version = old.hold_version
    <3>1. /\ m.action = new.action /\ m.available = new.available
          /\ m.constraints = new.constraints \cup old.constraints
          /\ m.hold_package = IF 0 >= old.hold_package THEN 0 ELSE old.hold_package
          /\ m.hold_version = IF 0 >= old.hold_version THEN 0 ELSE old.hold_version
      BY <1>1, <1>4, MergeIn
    <3>2. m.unhold <=> new.unhold \/ old.unhold
      BY <1>1, MergeIn
    <3>. HIDE DEF m
    <3>3. m.hold_package = old.hold_package /\ m.hold_version = old.hold_version
      BY <1>4, <3>1
    <3>. QED BY <3>1, <3>2, <3>3
  <2>. HIDE DEF m
  <2>2. n \notin Asked(r) => Bystander(db, n, m)
    BY <1>1, <1>2, <1>5, <2>1 DEF EntryFine, Bystander
  <2>3. ASSUME n \in H PROVE WillHold(r, n, m)
    <3>1. WillHold(r, n, old)
      BY <1>1, <2>3 DEF EntryFine
    <3>2. ASSUME NEW i \in 1 .. Len(r.hold), r.hold[i][1] = n
          PROVE  /\ m.available \in r.hold[i][2]
                 /\ r.hold[i][2] = AnyVersion \/ r.hold[i][2] \in m.constraints
      <4>1. r.hold[i][2] = AnyVersion \/ r.hold[i][2] \in old.constraints
        BY <3>1, <3>2 DEF WillHold
      <4>2. old.action = "build" /\ old.available \in r.hold[i][2]
        BY <3>1, <3>2 DEF WillHold
      <4>3. new.available = old.available \/ Satisfies(new, old)
        BY <1>1, <1>5, <4>2, PickIn
      <4>4. new.available \in Versions
        BY <1>4
      <4>5. CASE r.hold[i][2] = AnyVersion
        BY <2>1, <4>4, <4>5 DEF AnyVersion
      <4>6. CASE r.hold[i][2] \in old.constraints
        BY <2>1, <4>2, <4>3, <4>6 DEF Satisfies
      <4>. QED BY <4>1, <4>5, <4>6
    <3>. QED BY <2>1, <3>1, <3>2 DEF WillHold
  <2>4. n \in U /\ db[n].hold_package => m.action = "drop" \/ m.unhold
    BY <1>1, <1>5, <2>1 DEF EntryFine
  <2>5. /\ n \notin DepNames(r) => ~m.unhold
        /\ n \in DepNames(r) => m.hold_package # True
    BY <1>1, <2>1 DEF EntryFine
  <2>. QED BY <2>1, <2>2, <2>3, <2>4, <2>5 DEF EntryFine, m
<1>6. ASSUME Pick(old, new) = "old", old.action # "drop"
      PROVE  EntryFine(db, r, D, H, U, n, Merge(old, new))
  <2>. DEFINE m == Merge(old, new)
  <2>1. /\ m.action = old.action /\ m.available = old.available /\ (m.unhold <=> old.unhold)
        /\ m.constraints = old.constraints \cup new.constraints
        /\ m.hold_package = old.hold_package /\ m.hold_version = old.hold_version
    <3>1. /\ m.action = old.action /\ m.available = old.available
          /\ m.constraints = old.constraints \cup new.constraints
          /\ m.hold_package = IF old.hold_package >= 0 THEN old.hold_package ELSE 0
          /\ m.hold_version = IF old.hold_version >= 0 THEN old.hold_version ELSE 0
      BY <1>1, <1>4, MergeIn
    <3>2. m.unhold <=> old.unhold \/ new.unhold
      BY <1>1, MergeIn
    <3>. HIDE DEF m
    <3>3. m.hold_package = old.hold_package /\ m.hold_version = old.hold_version
      BY <1>4, <3>1
    <3>. QED BY <3>1, <3>2, <3>3
  <2>. HIDE DEF m
  <2>2. n \notin Asked(r) => Bystander(db, n, m)
    BY <1>1, <2>1 DEF EntryFine, Bystander
  <2>3. n \in H => WillHold(r, n, m)
    BY <1>1, <2>1 DEF EntryFine, WillHold
  <2>4. n \in U /\ db[n].hold_package => m.action = "drop" \/ m.unhold
    BY <1>1, <2>1 DEF EntryFine
  <2>5. /\ m.action = "build" => m.available # 0
        /\ n \notin DepNames(r) => ~m.unhold /\ m.action # "entered"
        /\ n \in DepNames(r) => m.hold_package # True
    BY <1>1, <2>1 DEF EntryFine
  <2>. QED BY <1>6, <2>1, <2>2, <2>3, <2>4, <2>5 DEF EntryFine, m
<1>7. Merge(old, new) \in Entries /\ Merge(new, old) \in Entries
  BY <1>1, MergeIn
<1>8. CASE old.action = "drop"
  <2>1. Collect(s, n, new) = Stopped(s, "assertion")
    BY <1>3, <1>8
  <2>. QED BY <1>1, <2>1, StoppedFine
<1>9. CASE old.action # "drop" /\ Pick(old, new) = "conflict"
  <2>1. Collect(s, n, new) = Stopped(s, "failed")
    BY <1>3, <1>9
  <2>. QED BY <1>1, <2>1, StoppedFine
<1>10. CASE old.action # "drop" /\ Pick(old, new) = "new"
  <2>1. Collect(s, n, new) = Put(s, n, Merge(new, old))
    BY <1>3, <1>10
  <2>. QED BY <1>5, <1>7, <1>10, <2>1, PutFine
<1>11. CASE old.action # "drop" /\ Pick(old, new) = "old"
  <2>1. Collect(s, n, new) = Put(s, n, Merge(old, new))
    BY <1>3, <1>11
  <2>. QED BY <1>6, <1>7, <1>11, <2>1, PutFine
<1>12. Pick(old, new) \in {"new", "old", "conflict"}
  BY <1>1, PickIn
<1>. QED BY <1>8, <1>9, <1>10, <1>11, <1>12
-----------------------------------------------------------------------------
(***************************************************************************)
(* The collection keeps plans fine.                                        *)
(***************************************************************************)

\* Below leads from each of the plans to one of them.
Keeps(Below, P) == \A n \in Names : \A t \in P : Below[n][t] \in P

\* What the lemmas are about.
Context(db, r, H) == GoodDatabase(db) /\ ValidRequest(r) /\ H \subseteq HoldNames(r)

\* A recursion of fixed depth is one.
IsIteration(f, s, G, N) == f = [k \in 0 .. N |-> IF k = 0 THEN s ELSE G[f[k - 1]]]

\* The values of a recursion of fixed depth exist and are where its step leads:
\* the least number at which they would not be is zero or follows one at which
\* they are.
LEMMA IterationExists ==
    ASSUME NEW S, NEW s \in S, NEW G, \A b \in S : G[b] \in S, NEW N \in Nat
    PROVE  \E f : IsIteration(f, s, G, N) /\ \A k \in 0 .. N : f[k] \in S
<1>. DEFINE F == [k \in 1 .. N |-> G]
            seq == [k \in 1 .. N |-> k]
<1>1. seq \in Seq(1 .. N) /\ Len(seq) = N /\ \A k \in 1 .. N : F[seq[k]] = G
  OBVIOUS
<1>. HIDE DEF F, seq
<1>2. PICK f : f = [i \in 0 .. N |-> f[i]] /\ IsWay(f, F, s, seq)
  BY <1>1, WayExists
<1>3. f[0] = s /\ \A k \in 1 .. N : f[k] = G[f[k - 1]]
  BY <1>1, <1>2 DEF IsWay
<1>4. \A k \in 0 .. N : k = 0 \/ k \in 1 .. N
  OBVIOUS
<1>5. \A k \in 0 .. N : f[k] = IF k = 0 THEN s ELSE G[f[k - 1]]
  BY <1>3, <1>4
<1>. DEFINE T == {k \in 0 .. N : f[k] \in S}
<1>6. 0 \in T
  BY <1>3
<1>7. \A k \in 1 .. N : k - 1 \in T => k \in T
  BY <1>3
<1>. HIDE DEF T
<1>8. \A k \in 0 .. N : k \in T
  BY <1>6, <1>7, InductionUpTo
<1>. QED BY <1>2, <1>5, <1>8 DEF T, IsIteration

\* The recursion that is too deep stops the plan and leaves it fine.
LEMMA EndlessKeeps ==
    ASSUME NEW db, NEW r, NEW D, NEW H, NEW U, NEW R
    PROVE  /\ Endless \in [Names -> [Plans -> Plans]]
           /\ Keeps(Endless, Plans) /\ Keeps(Endless, Fine(db, r, D, H, U, R))
<1>1. \A s \in Plans : Stopped(s, "endless") \in Plans
  BY StoppedIn DEF Statuses
<1>2. Endless \in [Names -> [Plans -> Plans]]
  BY <1>1 DEF Endless
<1>3. Keeps(Endless, Plans)
  BY <1>2 DEF Keeps
<1>4. ASSUME NEW n \in Names, NEW t \in Fine(db, r, D, H, U, R)
      PROVE  Endless[n][t] \in Fine(db, r, D, H, U, R)
  <2>1. t \in Plans
    BY DEF Fine
  <2>2. Stopped(t, "endless") \in Fine(db, r, D, H, U, R)
    BY <2>1, StoppedFine
  <2>. QED BY <2>1, <2>2 DEF Endless
<1>. QED BY <1>2, <1>3, <1>4 DEF Keeps

\* What a dependent brings in.
NewDependency(d, v) == [Absent EXCEPT !.action = "build", !.constraints = {d[2]}, !.available = v]

\* It is an entry to build the version, with no wish of the user.
LEMMA NewDependencyIn ==
    ASSUME NEW d \in Dependencies, NEW v \in Versions \cup {0}
    PROVE  /\ NewDependency(d, v) \in Entries
           /\ NewDependency(d, v).action = "build" /\ NewDependency(d, v).available = v
           /\ NewDependency(d, v).hold_package = Null /\ NewDependency(d, v).hold_version = Null
           /\ ~NewDependency(d, v).unhold
<1>1. {d[2]} \in SUBSET SUBSET Versions
  BY DependencyIn
<1>2. NewDependency(d, v) \in Entries
  BY <1>1, NothingPlanned DEF NewDependency, Entries, Null, False, True
<1>. QED BY <1>2 DEF NewDependency, Absent, Entries, Null, False, True

\* The version for a dependency is one of the versions, or 0.
LEMMA DependencyVersionIn ==
    ASSUME NEW db, GoodDatabase(db), NEW n \in Names, NEW constraint
    PROVE  DependencyVersion(db, n, constraint) \in Versions \cup {0}
<1>1. db[n].version \in Versions \cup {0}
  BY DEF GoodDatabase, Databases, Packages
<1>. QED BY <1>1, FindAvailableIn DEF DependencyVersion

\* collect_build_prerequisites() for one dependency.
LEMMA CollectDependencyIn ==
    ASSUME NEW db, GoodDatabase(db), NEW Below, Keeps(Below, Plans), NEW s \in Plans,
           NEW d \in Dependencies
    PROVE  CollectDependency(Below, s, db, d) \in Plans
<1>. DEFINE old == s.map[d[1]]
            constrained == old.action = "entered" /\ old.hold_version = True
            user == CHOOSE c \in old.constraints : TRUE
            constraint == IF constrained THEN user ELSE d[2]
            version == DependencyVersion(db, d[1], constraint)
            new == NewDependency(d, version)
            collected == Below[d[1]][Collect(s, d[1], new)]
<1>1. d[1] \in Names
  BY DependencyIn
<1>2. version \in Versions \cup {0}
  BY <1>1, DependencyVersionIn
<1>3. new \in Entries
  BY <1>2, NewDependencyIn
<1>4. Collect(s, d[1], new) \in Plans
  BY <1>1, <1>3, CollectIn
<1>5. collected \in Plans
  BY <1>1, <1>4 DEF Keeps
<1>6. Stopped(s, "failed") \in Plans /\ Stopped(collected, "failed") \in Plans
  BY <1>5, StoppedIn DEF Statuses
<1>7. CollectDependency(Below, s, db, d) \in
          {s, Stopped(s, "failed"), Collect(s, d[1], new), Stopped(collected, "failed"), collected}
  BY DEF CollectDependency, NewDependency
<1>. HIDE DEF collected, new
<1>. QED BY <1>4, <1>5, <1>6, <1>7

\* Collecting a dependency keeps a plan fine if collecting what is below it
\* does.
LEMMA CollectDependencyFine ==
    ASSUME NEW db, NEW r, NEW H, Context(db, r, H), NEW D, NEW U, NEW R,
           NEW Below, Keeps(Below, Plans), Keeps(Below, Fine(db, r, D, H, U, R)),
           NEW s \in Fine(db, r, D, H, U, R), NEW d \in Dependencies
    PROVE  CollectDependency(Below, s, db, d) \in Fine(db, r, D, H, U, R)
<1>. DEFINE F == Fine(db, r, D, H, U, R)
            n == d[1]
            old == s.map[n]
            constrained == old.action = "entered" /\ old.hold_version = True
            user == CHOOSE c \in old.constraints : TRUE
            constraint == IF constrained THEN user ELSE d[2]
            version == DependencyVersion(db, n, constraint)
            new == NewDependency(d, version)
            added == Collect(s, n, new)
            collected == Below[n][added]
            result == CollectDependency(Below, s, db, d)
<1>0. GoodDatabase(db) /\ ValidRequest(r) /\ H \subseteq HoldNames(r) /\ HoldNames(r) \cap DepNames(r) = {}
  BY DEF Context, ValidRequest
<1>1. n \in Names /\ s \in Plans
  BY DependencyIn DEF Fine
<1>2. version \in Versions \cup {0}
  BY <1>0, <1>1, DependencyVersionIn
<1>3. /\ new \in Entries /\ new.action = "build" /\ new.available = version
      /\ new.hold_package = Null /\ new.hold_version = Null /\ ~new.unhold
  BY <1>2, NewDependencyIn
<1>4. result = IF s.status # "ok" THEN s
        ELSE IF (constrained /\ ~(user \subseteq d[2])) \/ new.available = 0 THEN Stopped(s, "failed")
        ELSE IF Pick(old, new) # "new" \/ old.action = "drop" THEN added
        ELSE IF Held(db, n, constraint) /\ old.action # "entered" /\ collected.status = "ok"
          THEN Stopped(collected, "failed")
        ELSE collected
  BY DEF CollectDependency, NewDependency
<1>5. added \in Plans /\ collected \in Plans
  BY <1>1, <1>3, CollectIn DEF Keeps
<1>. HIDE DEF result, new, collected, version
<1>6. CASE s.status # "ok"
  <2>1. result = s
    BY <1>4, <1>6
  <2>. QED BY <2>1 DEF result
<1>7. CASE s.status = "ok" /\ ((constrained /\ ~(user \subseteq d[2])) \/ new.available = 0)
  <2>1. result = Stopped(s, "failed")
    BY <1>4, <1>7
  <2>. QED BY <1>1, <2>1, StoppedFine DEF result
<1>8. CASE /\ s.status = "ok" /\ ~((constrained /\ ~(user \subseteq d[2])) \/ new.available = 0)
           /\ Pick(old, new) # "new" \/ old.action = "drop"
  <2>1. result = added
    BY <1>4, <1>8
  <2>2. CASE Pick(old, new) # "new"
    <3>1. added \in F
      BY <1>0, <1>1, <1>3, <1>8, <2>2, CollectFine
    <3>. QED BY <2>1, <3>1 DEF result
  <2>3. CASE old.action = "drop"
    <3>1. added = Stopped(s, "assertion")
      BY <2>3 DEF Collect
    <3>. QED BY <1>1, <2>1, <3>1, StoppedFine DEF result
  <2>. QED BY <1>8, <2>2, <2>3
<1>9. CASE /\ s.status = "ok" /\ ~((constrained /\ ~(user \subseteq d[2])) \/ new.available = 0)
           /\ Pick(old, new) = "new" /\ old.action # "drop"
           /\ Held(db, n, constraint) /\ old.action # "entered"
  <2>1. CASE collected.status = "ok"
    <3>1. result = Stopped(collected, "failed")
      BY <1>4, <1>9, <2>1
    <3>. QED BY <1>5, <3>1, StoppedFine DEF result
  <2>2. CASE collected.status # "ok"
    <3>1. result = collected
      BY <1>4, <1>9, <2>2
    <3>. QED BY <1>5, <2>2, <3>1 DEF Fine, result
  <2>. QED BY <2>1, <2>2
<1>10. CASE /\ s.status = "ok" /\ ~((constrained /\ ~(user \subseteq d[2])) \/ new.available = 0)
            /\ Pick(old, new) = "new" /\ old.action # "drop"
            /\ ~(Held(db, n, constraint) /\ old.action # "entered")
  <2>1. result = collected
    BY <1>4, <1>10
  <2>2. EntryFine(db, r, D, H, U, n, old)
    BY <1>1, <1>10 DEF Fine
  <2>3. ASSUME n \notin Asked(r), db[n].hold_version PROVE new.available = db[n].version
    <3>1. old.action # "entered"
      BY <2>2, <2>3 DEF EntryFine, Asked
    <3>2. constraint = d[2]
      BY <3>1
    <3>. HIDE DEF constraint
    <3>3. db[n].version \in d[2]
      BY <1>10, <2>3, <3>1, <3>2 DEF Held
    <3>4. db[n].state # "none"
      BY <1>0, <1>1, <2>3 DEF GoodDatabase, GoodPackage, NotSelected
    <3>. QED BY <1>3, <3>2, <3>3, <3>4 DEF version, DependencyVersion
  <2>4. added \in F
    BY <1>0, <1>1, <1>3, <1>10, <2>3, CollectFine
  <2>5. collected \in F
    BY <1>1, <2>4 DEF Keeps, collected
  <2>. QED BY <2>1, <2>5 DEF result
<1>. QED BY <1>6, <1>7, <1>8, <1>9, <1>10

\* One level of the recursion, and all of it.
LEMMA CollectLevelKeeps ==
    ASSUME NEW db, NEW r, NEW H, Context(db, r, H), NEW D, NEW U, NEW R,
           NEW Below, Keeps(Below, Plans)
    PROVE  /\ CollectLevel(Below, db) \in [Names -> [Plans -> Plans]]
           /\ Keeps(CollectLevel(Below, db), Plans)
           /\ Keeps(Below, Fine(db, r, D, H, U, R)) =>
                Keeps(CollectLevel(Below, db), Fine(db, r, D, H, U, R))
<1>0. GoodDatabase(db)
  BY DEF Context
<1>. DEFINE step == [d \in Dependencies |-> [t \in Plans |-> CollectDependency(Below, t, db, d)]]
            list(n, s) == DependenciesOf(n, s.map[n].available)
            level(n, s) == IF s.status # "ok" \/ Pruned(db, n, s.map[n]) THEN s ELSE Fold(step, s, list(n, s))
<1>1. \A d \in Dependencies : \A t \in Plans : step[d][t] = CollectDependency(Below, t, db, d)
  OBVIOUS
<1>2. CollectLevel(Below, db) = [n \in Names |-> [s \in Plans |-> level(n, s)]]
  BY DEF CollectLevel
<1>. HIDE DEF step
<1>3. ASSUME NEW n \in Names, NEW s \in Plans PROVE level(n, s) \in Plans
  <2>1. list(n, s) \in Seq(Dependencies)
    BY ConstantFacts
  <2>. HIDE DEF list
  <2>2. \A i \in 1 .. Len(list(n, s)) : list(n, s)[i] \in Dependencies
    BY <2>1
  <2>3. \A i \in 1 .. Len(list(n, s)) : \A t \in Plans : step[list(n, s)[i]][t] \in Plans
    BY <1>0, <1>1, <2>2, CollectDependencyIn
  <2>4. Fold(step, s, list(n, s)) \in Plans
    BY <2>1, <2>3, FoldStays
  <2>. QED BY <2>4
<1>4. ASSUME Keeps(Below, Fine(db, r, D, H, U, R)), NEW n \in Names, NEW s \in Fine(db, r, D, H, U, R)
      PROVE  level(n, s) \in Fine(db, r, D, H, U, R)
  <2>. DEFINE F == Fine(db, r, D, H, U, R)
  <2>1. list(n, s) \in Seq(Dependencies)
    BY ConstantFacts
  <2>. HIDE DEF list
  <2>2. \A i \in 1 .. Len(list(n, s)) : list(n, s)[i] \in Dependencies
    BY <2>1
  <2>3. \A t \in F : t \in Plans
    BY DEF Fine
  <2>4. \A i \in 1 .. Len(list(n, s)) : \A t \in F : step[list(n, s)[i]][t] \in F
    BY <1>1, <1>4, <2>2, <2>3, CollectDependencyFine
  <2>. HIDE DEF F
  <2>5. s \in F
    BY DEF F
  <2>6. Fold(step, s, list(n, s)) \in F
    BY <2>1, <2>4, <2>5, FoldStays
  <2>. QED BY <2>6 DEF F
<1>. HIDE DEF level
<1>5. CollectLevel(Below, db) \in [Names -> [Plans -> Plans]]
  BY <1>2, <1>3
<1>6. \A n \in Names : \A s \in Plans : CollectLevel(Below, db)[n][s] = level(n, s)
  BY <1>2
<1>7. \A s \in Fine(db, r, D, H, U, R) : s \in Plans
  BY DEF Fine
<1>8. Keeps(CollectLevel(Below, db), Plans)
  BY <1>3, <1>6 DEF Keeps
<1>9. ASSUME Keeps(Below, Fine(db, r, D, H, U, R))
      PROVE  Keeps(CollectLevel(Below, db), Fine(db, r, D, H, U, R))
  BY <1>4, <1>6, <1>7, <1>9 DEF Keeps
<1>. QED BY <1>5, <1>8, <1>9

\* collect_build_prerequisites() keeps a plan fine, to any depth.
LEMMA CollectPrerequisitesKeeps ==
    ASSUME NEW db, NEW r, NEW H, Context(db, r, H), NEW D, NEW U, NEW R
    PROVE  /\ Keeps(CollectPrerequisites(db), Plans)
           /\ Keeps(CollectPrerequisites(db), Fine(db, r, D, H, U, R))
<1>. DEFINE Steps == [Names -> [Plans -> Plans]]
            F == Fine(db, r, D, H, U, R)
            G == [b \in Steps |-> CollectLevel(b, db)]
            Right(c) == c = [k \in 0 .. MaxDepth |-> IF k = 0 THEN Endless ELSE CollectLevel(c[k - 1], db)]
            collect == CHOOSE c : Right(c)
<1>0. MaxDepth \in Nat
  BY ConstantFacts
<1>1. Endless \in Steps /\ Keeps(Endless, Plans) /\ Keeps(Endless, F)
  BY EndlessKeeps
<1>2. \A b \in Steps : Keeps(b, Plans)
  BY DEF Keeps
<1>3. \A b \in Steps : G[b] = CollectLevel(b, db) /\ G[b] \in Steps
  BY <1>2, CollectLevelKeeps
<1>. HIDE DEF G, Steps
<1>4. PICK f : IsIteration(f, Endless, G, MaxDepth) /\ \A k \in 0 .. MaxDepth : f[k] \in Steps
  BY <1>0, <1>1, <1>3, IterationExists
<1>5. Right(f)
  <2>1. \A k \in 0 .. MaxDepth : k # 0 => k - 1 \in 0 .. MaxDepth /\ G[f[k - 1]] = CollectLevel(f[k - 1], db)
    BY <1>0, <1>3, <1>4
  <2>2. [k \in 0 .. MaxDepth |-> IF k = 0 THEN Endless ELSE G[f[k - 1]]]
        = [k \in 0 .. MaxDepth |-> IF k = 0 THEN Endless ELSE CollectLevel(f[k - 1], db)]
    BY <2>1
  <2>. QED BY <1>4, <2>2 DEF IsIteration
<1>6. Right(collect)
  <2>. HIDE DEF Right
  <2>. QED BY <1>5
<1>7. CollectPrerequisites(db) = collect[MaxDepth]
  BY DEF CollectPrerequisites
<1>. HIDE DEF collect, F
<1>8. collect[0] = Endless /\ \A k \in 1 .. MaxDepth : collect[k] = CollectLevel(collect[k - 1], db)
  BY <1>0, <1>6
<1>. DEFINE T == {k \in 0 .. MaxDepth : Keeps(collect[k], Plans) /\ Keeps(collect[k], F)}
<1>9. 0 \in T
  BY <1>0, <1>1, <1>8
<1>10. ASSUME NEW k \in 1 .. MaxDepth, k - 1 \in T PROVE k \in T
  <2>1. Keeps(collect[k - 1], Plans) /\ Keeps(collect[k - 1], F)
    BY <1>10
  <2>2. Keeps(CollectLevel(collect[k - 1], db), Plans) /\ Keeps(CollectLevel(collect[k - 1], db), F)
    BY <2>1, CollectLevelKeeps DEF F
  <2>. QED BY <1>0, <1>8, <2>2
<1>. HIDE DEF T
<1>11. \A k \in 1 .. MaxDepth : k - 1 \in T => k \in T
  BY <1>10
<1>12. \A k \in 0 .. MaxDepth : k \in T
  BY <1>0, <1>9, <1>11, InductionUpTo
<1>. QED BY <1>0, <1>7, <1>12 DEF T, F

\* An entry is replaced, and now is one of those to be held or unheld.
LEMMA PutMoreFine ==
    ASSUME NEW db, NEW r, NEW D, NEW H, NEW U, NEW R, NEW s \in Fine(db, r, D, H, U, R),
           NEW n \in Names, NEW e \in Entries, NEW H2, H2 \subseteq H \cup {n},
           NEW U2, U2 \subseteq U \cup {n},
           s.status = "ok" => EntryFine(db, r, D, H2, U2, n, e)
    PROVE  Put(s, n, e) \in Fine(db, r, D, H2, U2, R)
<1>1. s \in Plans /\ Put(s, n, e) \in Plans /\ Put(s, n, e).status = s.status /\ Put(s, n, e).list = s.list
      /\ \A m \in Names : Put(s, n, e).map[m] = IF m = n THEN e ELSE s.map[m]
  BY PutIn DEF Fine
<1>2. ASSUME s.status = "ok", NEW m \in Names PROVE EntryFine(db, r, D, H2, U2, m, Put(s, n, e).map[m])
  <2>1. CASE m = n
    BY <1>1, <1>2, <2>1
  <2>2. CASE m # n
    <3>1. EntryFine(db, r, D, H, U, m, s.map[m])
      BY <1>2 DEF Fine
    <3>2. (m \in H2 => m \in H) /\ (m \in U2 => m \in U)
      BY <2>2
    <3>. QED BY <1>1, <2>2, <3>1, <3>2 DEF EntryFine
  <2>. QED BY <2>1, <2>2
<1>3. s.status = "ok" => R \subseteq Range(s.list)
  BY DEF Fine
<1>. QED BY <1>1, <1>2, <1>3 DEF Fine

\* The version of a package to hold.
LEMMA HoldVersionIn ==
    ASSUME NEW db, GoodDatabase(db), NEW h \in Dependencies
    PROVE  /\ HoldVersion(db, h) \in Versions \cup {0}
           /\ HoldVersion(db, h) # 0 => HoldVersion(db, h) \in h[2]
<1>. DEFINE v == FindAvailable(h[1], h[2])
            w == db[h[1]].version
<1>1. h[1] \in Names /\ Versions \subseteq Nat
  BY DependencyIn, ConstantFacts
<1>2. v \in Versions \cup {0} /\ (v # 0 => v \in h[2]) /\ w \in Versions \cup {0}
  BY <1>1, FindAvailableIn DEF GoodDatabase, Databases, Packages
<1>3. HoldVersion(db, h) = Max({v} \cup (IF h[2] = AnyVersion THEN {w} ELSE {}))
  BY DEF HoldVersion
<1>. HIDE DEF v, w
<1>4. v \in Nat /\ w \in Nat
  BY <1>1, <1>2
<1>5. CASE h[2] = AnyVersion
  <2>1. {v} \cup {w} = {v, w} /\ HoldVersion(db, h) = Max({v} \cup {w})
    BY <1>3, <1>5
  <2>2. HoldVersion(db, h) = v \/ HoldVersion(db, h) = w
    BY <1>4, <2>1, MaxOfTwo
  <2>. QED BY <1>2, <1>5, <2>2 DEF AnyVersion
<1>6. CASE h[2] # AnyVersion
  <2>1. {v} \cup {} = {v, v} /\ HoldVersion(db, h) = Max({v} \cup {})
    BY <1>3, <1>6
  <2>2. HoldVersion(db, h) = v
    BY <1>4, <2>1, MaxOfTwo
  <2>. QED BY <1>2, <2>2
<1>. QED BY <1>5, <1>6

\* What a package to hold is collected with.
NewHold(db, h) ==
    [Absent EXCEPT !.action = "build", !.available = HoldVersion(db, h), !.hold_package = True,
                   !.hold_version = IF h[2] = AnyVersion THEN False ELSE True,
                   !.constraints = IF h[2] = AnyVersion THEN {} ELSE {h[2]},
                   !.user = TRUE]

\* It is an entry to build and to hold the version.
LEMMA NewHoldIn ==
    ASSUME NEW db, GoodDatabase(db), NEW h \in Dependencies
    PROVE  /\ NewHold(db, h) \in Entries
           /\ NewHold(db, h).action = "build" /\ NewHold(db, h).available = HoldVersion(db, h)
           /\ NewHold(db, h).hold_package = True /\ ~NewHold(db, h).unhold
           /\ NewHold(db, h).constraints = IF h[2] = AnyVersion THEN {} ELSE {h[2]}
<1>1. PICK c \in SUBSET SUBSET Versions : c = IF h[2] = AnyVersion THEN {} ELSE {h[2]}
  BY DependencyIn
<1>2. PICK b \in {False, True} : b = IF h[2] = AnyVersion THEN False ELSE True
  OBVIOUS
<1>3. PICK v \in Versions \cup {0} : v = HoldVersion(db, h)
  BY HoldVersionIn
<1>4. NewHold(db, h) = [Absent EXCEPT !.action = "build", !.available = v, !.hold_package = True,
                                      !.hold_version = b, !.constraints = c, !.user = TRUE]
  BY <1>1, <1>2, <1>3 DEF NewHold
<1>5. [Absent EXCEPT !.action = "build", !.available = v, !.hold_package = True,
                     !.hold_version = b, !.constraints = c, !.user = TRUE] \in Entries
  BY DEF Absent, Entries, Null, False, True
<1>. QED BY <1>1, <1>3, <1>4, <1>5 DEF Absent

\* Collecting a package to hold makes it one that will be held.
LEMMA CollectHoldFine ==
    ASSUME NEW db, NEW r, NEW H, Context(db, r, H), NEW D, NEW R,
           NEW s \in Fine(db, r, D, H, {}, R), NEW i \in 1 .. Len(r.hold),
           s.status = "ok" => s.map[r.hold[i][1]].action # "build"
    PROVE  CollectHold(s, db, r.hold[i]) \in Fine(db, r, D, H \cup {r.hold[i][1]}, {}, R)
<1>0. /\ GoodDatabase(db) /\ ValidRequest(r) /\ HoldNames(r) \cap DepNames(r) = {}
      /\ r.hold \in Seq(Dependencies)
  BY DEF Context, ValidRequest
<1>. DEFINE h == r.hold[i]
            n == h[1]
            old == s.map[n]
            new == NewHold(db, h)
            m == Merge(new, old)
            result == CollectHold(s, db, h)
<1>1. h \in Dependencies /\ n \in Names /\ n \in HoldNames(r) /\ n \notin DepNames(r)
  <2>1. h \in Dependencies
    BY <1>0
  <2>2. n \in Names
    BY <2>1, DependencyIn
  <2>3. n \in HoldNames(r)
    BY <1>0, HoldNamesIn
  <2>. QED BY <1>0, <2>1, <2>2, <2>3
<1>. HIDE DEF h
<1>2. s \in Plans /\ old \in Entries
  BY <1>1, PlanIn DEF Fine
<1>3. /\ new \in Entries /\ new.action = "build" /\ new.available = HoldVersion(db, h)
      /\ new.hold_package = True /\ ~new.unhold
      /\ new.constraints = IF h[2] = AnyVersion THEN {} ELSE {h[2]}
  BY <1>0, <1>1, NewHoldIn
<1>4. result = IF HoldVersion(db, h) = 0 THEN Stopped(s, "failed") ELSE Collect(s, n, new)
  BY DEF CollectHold, NewHold
<1>5. Collect(s, n, new) =
        IF old.action = "drop" THEN Stopped(s, "assertion")
        ELSE IF Pick(old, new) = "conflict" THEN Stopped(s, "failed")
        ELSE Put(s, n, IF Pick(old, new) = "new" THEN Merge(new, old) ELSE Merge(old, new))
  BY DEF Collect
<1>. HIDE DEF result, new, old
<1>6. CASE HoldVersion(db, h) = 0
  <2>1. result = Stopped(s, "failed")
    BY <1>4, <1>6
  <2>. QED BY <1>2, <2>1, StoppedFine DEF result, h
<1>7. CASE HoldVersion(db, h) # 0 /\ s.status # "ok"
  <2>1. Collect(s, n, new) \in Plans
    BY <1>1, <1>2, <1>3, CollectIn
  <2>2. Collect(s, n, new).status # "ok"
    <3>1. Stopped(s, "assertion").status = "assertion" /\ Stopped(s, "failed").status = "failed"
      BY <1>2, StoppedIn DEF Statuses
    <3>2. Merge(new, old) \in Entries /\ Merge(old, new) \in Entries
      BY <1>2, <1>3, MergeIn
    <3>3. Put(s, n, Merge(new, old)).status = s.status /\ Put(s, n, Merge(old, new)).status = s.status
      BY <1>1, <1>2, <3>2, PutIn
    <3>. QED BY <1>5, <1>7, <3>1, <3>3
  <2>. QED BY <1>4, <1>7, <2>1, <2>2 DEF Fine, result, h
<1>8. CASE HoldVersion(db, h) # 0 /\ s.status = "ok" /\ old.action = "drop"
  <2>1. result = Stopped(s, "assertion")
    BY <1>4, <1>5, <1>8
  <2>. QED BY <1>2, <2>1, StoppedFine DEF result, h
<1>9. CASE HoldVersion(db, h) # 0 /\ s.status = "ok" /\ old.action # "drop"
  <2>1. old.action # "build"
    BY <1>9 DEF old, h
  <2>2. Pick(old, new) = "new"
    BY <2>1 DEF Pick
  <2>3. result = Put(s, n, m)
    BY <1>4, <1>5, <1>9, <2>2
  <2>4. EntryFine(db, r, D, H, {}, n, old)
    BY <1>1, <1>9 DEF Fine, old
  <2>5. ~old.unhold /\ old.hold_package \in {0, 1, 2}
    BY <1>1, <1>2, <2>4 DEF EntryFine, Entries, Null, False, True
  <2>6. /\ m \in Entries /\ m.action = "build" /\ m.available = HoldVersion(db, h)
        /\ m.constraints = new.constraints \cup old.constraints
    BY <1>2, <1>3, MergeIn
  <2>7. ~m.unhold
    BY <1>2, <1>3, <2>5, MergeIn
  <2>8. m.hold_package = True
    <3>1. m.hold_package = IF new.hold_package >= old.hold_package THEN new.hold_package ELSE old.hold_package
      BY <1>2, <1>3, MergeIn
    <3>. QED BY <1>3, <2>5, <3>1 DEF True
  <2>. HIDE DEF m
  <2>9. WillHold(r, n, m)
    <3>1. ASSUME NEW j \in 1 .. Len(r.hold), r.hold[j][1] = n
          PROVE  /\ m.available \in r.hold[j][2]
                 /\ r.hold[j][2] = AnyVersion \/ r.hold[j][2] \in m.constraints
      <4>1. j = i
        BY <1>0, <3>1 DEF ValidRequest, h
      <4>2. HoldVersion(db, h) \in h[2]
        BY <1>0, <1>1, <1>9, HoldVersionIn
      <4>3. h[2] = AnyVersion \/ h[2] \in m.constraints
        BY <1>3, <2>6
      <4>. QED BY <2>6, <4>1, <4>2, <4>3 DEF h
    <3>. QED BY <2>6, <2>8, <3>1 DEF WillHold
  <2>10. EntryFine(db, r, D, H \cup {n}, {}, n, m)
    BY <1>1, <1>9, <2>6, <2>7, <2>9 DEF EntryFine, Asked
  <2>11. Put(s, n, m) \in Fine(db, r, D, H \cup {n}, {}, R)
    BY <1>1, <2>6, <2>10, PutMoreFine
  <2>. QED BY <2>3, <2>11 DEF result, h
<1>. QED BY <1>6, <1>7, <1>8, <1>9

\* collect_unhold().
LEMMA CollectUnholdFine ==
    ASSUME NEW db, NEW r, NEW H, Context(db, r, H), NEW D, NEW U, NEW R,
           NEW s \in Fine(db, r, D, H, U, R), NEW i \in 1 .. Len(r.dep)
    PROVE  CollectUnhold(s, db, r.dep[i]) \in Fine(db, r, D, H, U \cup {r.dep[i][1]}, R)
<1>0. /\ GoodDatabase(db) /\ ValidRequest(r) /\ HoldNames(r) \cap DepNames(r) = {}
      /\ r.dep \in Seq(Dependencies) /\ H \subseteq HoldNames(r)
  BY DEF Context, ValidRequest
<1>. DEFINE n == r.dep[i][1]
            p == s.map[n]
            adjust == [Absent EXCEPT !.action = "adjust", !.unhold = TRUE]
            unheld == [p EXCEPT !.unhold = TRUE]
            m == Merge(adjust, p)
            result == CollectUnhold(s, db, r.dep[i])
<1>1. n \in Names /\ n \in DepNames(r) /\ n \notin H
  <2>1. r.dep[i] \in Dependencies
    BY <1>0
  <2>2. n \in Names
    BY <2>1, DependencyIn
  <2>3. n \in DepNames(r)
    BY <1>0, HoldNamesIn
  <2>. QED BY <1>0, <2>2, <2>3
<1>2. s \in Plans /\ p \in Entries
  BY <1>1, PlanIn DEF Fine
<1>3. /\ result = IF ~db[n].hold_package THEN s
                  ELSE Put(s, n, IF p.action = "entered" THEN m ELSE unheld)
  BY DEF CollectUnhold
<1>. HIDE DEF n
<1>4. CASE ~db[n].hold_package
  <2>1. result = s
    BY <1>3, <1>4
  <2>2. s.status = "ok" => \A k \in Names : EntryFine(db, r, D, H, U \cup {n}, k, s.map[k])
    BY <1>4 DEF Fine, EntryFine
  <2>. HIDE DEF result
  <2>. QED BY <2>1, <2>2 DEF Fine, result, n
<1>5. CASE db[n].hold_package
  <2>1. s.status = "ok" => EntryFine(db, r, D, H, U, n, p)
    BY <1>1 DEF Fine
  <2>. HIDE DEF p
  <2>2. CASE p.action = "entered"
    <3>1. adjust \in Entries /\ adjust.action = "adjust" /\ adjust.unhold /\ adjust.hold_package = 0
      BY DEF Absent, Entries, Null, False, True
    <3>. HIDE DEF adjust
    <3>2. m \in Entries /\ m.action = "adjust"
      BY <1>2, <3>1, MergeIn
    <3>3. m.unhold
      BY <1>2, <3>1, MergeIn
    <3>4. p.hold_package \in {0, 1, 2}
      BY <1>2 DEF Entries, Null, False, True
    <3>5. m.hold_package = p.hold_package
      <4>1. m.hold_package = IF 0 >= p.hold_package THEN 0 ELSE p.hold_package
        BY <1>2, <3>1, MergeIn
      <4>. QED BY <3>4, <4>1
    <3>. HIDE DEF m
    <3>6. s.status = "ok" => EntryFine(db, r, D, H, U \cup {n}, n, m)
      BY <1>1, <2>1, <3>2, <3>3, <3>5 DEF EntryFine, Asked
    <3>7. Put(s, n, m) \in Fine(db, r, D, H, U \cup {n}, R)
      BY <1>1, <3>2, <3>6, PutMoreFine
    <3>8. result = Put(s, n, m)
      BY <1>3, <1>5, <2>2
    <3>. HIDE DEF result
    <3>. QED BY <3>7, <3>8 DEF result, n
  <2>3. CASE p.action # "entered"
    <3>1. /\ unheld \in Entries /\ unheld.action = p.action /\ unheld.available = p.available
          /\ unheld.unhold /\ unheld.hold_package = p.hold_package
      BY <1>2 DEF Entries
    <3>. HIDE DEF unheld
    <3>6. s.status = "ok" => EntryFine(db, r, D, H, U \cup {n}, n, unheld)
      BY <1>1, <2>1, <3>1 DEF EntryFine, Asked
    <3>7. Put(s, n, unheld) \in Fine(db, r, D, H, U \cup {n}, R)
      BY <1>1, <3>1, <3>6, PutMoreFine
    <3>8. result = Put(s, n, unheld)
      BY <1>3, <1>5, <2>3
    <3>. HIDE DEF result
    <3>. QED BY <3>7, <3>8 DEF result, n
  <2>. QED BY <2>2, <2>3
<1>. QED BY <1>4, <1>5

\* A dependency is entered.
LEMMA EnterFine ==
    ASSUME NEW db, NEW r, ValidRequest(r), NEW D, NEW s \in Fine(db, r, D, {}, {}, {}),
           NEW i \in 1 .. Len(r.dep)
    PROVE  /\ Enter(s, r.dep[i]) \in Fine(db, r, D, {}, {}, {})
           /\ \A m \in Names \ DepNames(r) : Enter(s, r.dep[i]).map[m] = s.map[m]
<1>. DEFINE d == r.dep[i]
            n == d[1]
            e == [Absent EXCEPT !.action = "entered", !.hold_package = False,
                                !.hold_version = IF d[2] = AnyVersion THEN False ELSE True,
                                !.constraints = IF d[2] = AnyVersion THEN {} ELSE {d[2]},
                                !.user = TRUE]
<1>1. d \in Dependencies /\ n \in Names /\ n \in DepNames(r)
  <2>1. d \in Dependencies
    BY DEF ValidRequest
  <2>. HIDE DEF d
  <2>2. n \in Names
    BY <2>1, DependencyIn
  <2>3. n \in DepNames(r)
    BY HoldNamesIn DEF d
  <2>. QED BY <2>1, <2>2, <2>3
<1>2. Enter(s, d) = Put(s, n, e)
  BY DEF Enter
<1>. HIDE DEF d
<1>3. PICK c \in SUBSET SUBSET Versions : c = IF d[2] = AnyVersion THEN {} ELSE {d[2]}
  BY <1>1, DependencyIn
<1>4. PICK b \in {False, True} : b = IF d[2] = AnyVersion THEN False ELSE True
  OBVIOUS
<1>5. e = [Absent EXCEPT !.action = "entered", !.hold_package = False,
                         !.hold_version = b, !.constraints = c, !.user = TRUE]
  BY <1>3, <1>4
<1>6. [Absent EXCEPT !.action = "entered", !.hold_package = False,
                     !.hold_version = b, !.constraints = c, !.user = TRUE] \in Entries
  BY DEF Absent, Entries, Null, False, True
<1>7. e \in Entries /\ e.action = "entered" /\ e.hold_package = False
  BY <1>5, <1>6 DEF Absent
<1>. HIDE DEF e
<1>8. EntryFine(db, r, D, {}, {}, n, e)
  BY <1>1, <1>7 DEF EntryFine, Asked, False, True
<1>9. Put(s, n, e) \in Fine(db, r, D, {}, {}, {})
  BY <1>1, <1>7, <1>8, PutFine
<1>10. \A m \in Names \ DepNames(r) : Put(s, n, e).map[m] = s.map[m]
  <2>1. s \in Plans
    BY DEF Fine
  <2>. QED BY <1>1, <1>7, <2>1, PutIn
<1>. QED BY <1>2, <1>9, <1>10 DEF d

\* Only the entry of the package is touched.
LEMMA CollectOthers ==
    ASSUME NEW s \in Plans, NEW n \in Names, NEW new \in Entries, Collect(s, n, new).status = "ok"
    PROVE  s.status = "ok" /\ \A m \in Names : m # n => Collect(s, n, new).map[m] = s.map[m]
<1>. DEFINE e == IF Pick(s.map[n], new) = "new" THEN Merge(new, s.map[n]) ELSE Merge(s.map[n], new)
<1>1. Stopped(s, "assertion").status # "ok" /\ Stopped(s, "failed").status # "ok"
  BY StoppedIn DEF Statuses
<1>2. Collect(s, n, new) \in {Stopped(s, "assertion"), Stopped(s, "failed"), Put(s, n, e)}
  BY DEF Collect
<1>3. e \in Entries
  BY PlanIn, MergeIn
<1>. HIDE DEF e
<1>. QED BY <1>1, <1>2, <1>3, PutIn

\* Collecting a package to hold leaves all other entries alone.
LEMMA CollectHoldOthers ==
    ASSUME NEW db, GoodDatabase(db), NEW s \in Plans, NEW h \in Dependencies,
           CollectHold(s, db, h).status = "ok"
    PROVE  s.status = "ok" /\ \A m \in Names : m # h[1] => CollectHold(s, db, h).map[m] = s.map[m]
<1>1. CollectHold(s, db, h) =
        IF HoldVersion(db, h) = 0 THEN Stopped(s, "failed") ELSE Collect(s, h[1], NewHold(db, h))
  BY DEF CollectHold, NewHold
<1>2. Stopped(s, "failed").status # "ok"
  BY StoppedIn DEF Statuses
<1>3. h[1] \in Names /\ NewHold(db, h) \in Entries
  BY DependencyIn, NewHoldIn
<1>. QED BY <1>1, <1>2, <1>3, CollectOthers

\* The plan for the arguments.
LEMMA CollectRequestFine ==
    ASSUME NEW db, NEW r, Context(db, r, HoldNames(r)), NEW D
    PROVE  CollectRequest(db, r) \in Fine(db, r, D, HoldNames(r), DepNames(r), {})
<1>. DEFINE enter == [d \in Dependencies |-> [s \in Plans |-> Enter(s, d)]]
            hold == [h \in Dependencies |-> [s \in Plans |-> CollectHold(s, db, h)]]
            unhold == [d \in Dependencies |-> [s \in Plans |-> CollectUnhold(s, db, d)]]
            F(H, U) == Fine(db, r, D, H, U, {})
            s1 == Fold(enter, NoPackages, r.dep)
            s2 == Fold(hold, s1, r.hold)
            s3 == Fold(CollectPrerequisites(db), s2, NamesIn(r.hold))
            s4 == Fold(unhold, s3, r.dep)
<1>0. /\ GoodDatabase(db) /\ ValidRequest(r) /\ HoldNames(r) \cap DepNames(r) = {}
      /\ r.hold \in Seq(Dependencies) /\ r.dep \in Seq(Dependencies)
  BY DEF Context, ValidRequest
<1>1. CollectRequest(db, r) = s4
  BY DEF CollectRequest
<1>2. \A d \in Dependencies : \A s \in Plans :
        enter[d][s] = Enter(s, d) /\ hold[d][s] = CollectHold(s, db, d) /\ unhold[d][s] = CollectUnhold(s, db, d)
  OBVIOUS
<1>3. \A H, U : \A s \in F(H, U) : s \in Plans
  BY DEF Fine
<1>4. /\ Len(r.hold) \in Nat /\ Len(r.dep) \in Nat
      /\ \A i \in 1 .. Len(r.hold) : r.hold[i] \in Dependencies
      /\ \A i \in 1 .. Len(r.dep) : r.dep[i] \in Dependencies
  BY <1>0
<1>5. \A i \in 1 .. Len(r.hold) : r.hold[i][1] \in Names /\ r.hold[i][1] \notin DepNames(r)
  BY <1>0, <1>4, DependencyIn, HoldNamesIn
<1>. HIDE DEF enter, hold, unhold
\* The dependencies are entered.
<1>. DEFINE P1 == {s \in F({}, {}) : \A m \in Names \ DepNames(r) : s.map[m].action # "build"}
<1>6. NoPackages \in P1
  <2>1. \A n \in Names : EntryFine(db, r, D, {}, {}, n, Absent)
    BY DEF EntryFine, Absent, Bystander, Null, True
  <2>2. NoPackages \in F({}, {})
    BY <2>1, NothingPlanned DEF Fine
  <2>. QED BY <2>2, NothingPlanned DEF Absent
<1>7. ASSUME NEW i \in 1 .. Len(r.dep), NEW t \in P1 PROVE enter[r.dep[i]][t] \in P1
  <2>1. t \in Fine(db, r, D, {}, {}, {}) /\ \A m \in Names \ DepNames(r) : t.map[m].action # "build"
    OBVIOUS
  <2>2. enter[r.dep[i]][t] = Enter(t, r.dep[i])
    BY <1>2, <1>3, <1>4, <2>1
  <2>3. /\ Enter(t, r.dep[i]) \in Fine(db, r, D, {}, {}, {})
        /\ \A m \in Names \ DepNames(r) : Enter(t, r.dep[i]).map[m] = t.map[m]
    BY <1>0, <2>1, EnterFine
  <2>. QED BY <2>1, <2>2, <2>3
<1>. HIDE DEF P1, F
<1>8. s1 \in P1
  BY <1>0, <1>6, <1>7, FoldStays
<1>. HIDE DEF s1
\* The packages to hold are collected.
<1>. DEFINE First(i) == {r.hold[j][1] : j \in 1 .. i}
            Q == [i \in 0 .. Len(r.hold) |->
                    {s \in F(First(i), {}) : s.status = "ok" =>
                        \A j \in i + 1 .. Len(r.hold) : s.map[r.hold[j][1]].action # "build"}]
<1>9. s1 \in Q[0]
  <2>1. First(0) = {} /\ 0 \in 0 .. Len(r.hold)
    BY <1>4
  <2>2. \A j \in 0 + 1 .. Len(r.hold) : s1.map[r.hold[j][1]].action # "build"
    BY <1>5, <1>8 DEF P1
  <2>. HIDE DEF First
  <2>. QED BY <1>8, <2>1, <2>2 DEF P1
<1>10. ASSUME NEW i \in 1 .. Len(r.hold), NEW t \in Q[i - 1] PROVE hold[r.hold[i]][t] \in Q[i]
  <2>. DEFINE n == r.hold[i][1]
              u == CollectHold(t, db, r.hold[i])
  <2>1. i \in 0 .. Len(r.hold) /\ i - 1 \in 0 .. Len(r.hold) /\ i \in (i - 1) + 1 .. Len(r.hold)
    BY <1>4
  <2>2. First(i) = First(i - 1) \cup {n}
    <3>1. \A j : j \in 1 .. i <=> j \in 1 .. i - 1 \/ j = i
      BY <1>4
    <3>. QED BY <3>1
  <2>3. First(i) \subseteq HoldNames(r) /\ First(i - 1) \subseteq HoldNames(r)
    <3>1. \A j \in 1 .. i : j \in 1 .. Len(r.hold)
      BY <1>4
    <3>2. \A j \in 1 .. i - 1 : j \in 1 .. Len(r.hold)
      BY <1>4
    <3>. QED BY <1>0, <3>1, <3>2, HoldNamesIn
  <2>. HIDE DEF First
  <2>4. t \in F(First(i - 1), {}) /\ (t.status = "ok" =>
            \A j \in (i - 1) + 1 .. Len(r.hold) : t.map[r.hold[j][1]].action # "build")
    BY <2>1
  <2>. HIDE DEF Q
  <2>5. t \in Plans /\ hold[r.hold[i]][t] = u
    BY <1>2, <1>3, <1>4, <2>4
  <2>. HIDE DEF u
  <2>6. u \in F(First(i), {})
    <3>1. Context(db, r, First(i - 1))
      BY <1>0, <2>3 DEF Context
    <3>2. t.status = "ok" => t.map[r.hold[i][1]].action # "build"
      BY <2>1, <2>4
    <3>3. t \in Fine(db, r, D, First(i - 1), {}, {})
      BY <2>4 DEF F
    <3>4. u \in Fine(db, r, D, First(i - 1) \cup {r.hold[i][1]}, {}, {})
      BY <3>1, <3>2, <3>3, CollectHoldFine DEF u
    <3>. QED BY <2>2, <3>4 DEF F
  <2>7. ASSUME u.status = "ok", NEW j \in i + 1 .. Len(r.hold) PROVE u.map[r.hold[j][1]].action # "build"
    <3>1. j \in 1 .. Len(r.hold) /\ j # i /\ j \in (i - 1) + 1 .. Len(r.hold)
      BY <1>4
    <3>2. r.hold[j][1] # n /\ r.hold[j][1] \in Names
      BY <1>0, <1>5, <3>1 DEF ValidRequest
    <3>3. t.status = "ok" /\ u.map[r.hold[j][1]] = t.map[r.hold[j][1]]
      BY <1>0, <1>4, <2>5, <2>7, <3>2, CollectHoldOthers DEF u
    <3>. QED BY <2>4, <3>1, <3>3
  <2>. QED BY <2>1, <2>5, <2>6, <2>7 DEF Q
<1>. HIDE DEF Q
<1>11. s2 \in Q[Len(r.hold)]
  BY <1>0, <1>9, <1>10, FoldReaches
<1>12. s2 \in F(HoldNames(r), {})
  <2>1. First(Len(r.hold)) = HoldNames(r)
    <3>1. \A n : n \in HoldNames(r) <=> \E j \in 1 .. Len(r.hold) : n = r.hold[j][1]
      BY <1>0, HoldNamesIn
    <3>. QED BY <3>1
  <2>2. Len(r.hold) \in 0 .. Len(r.hold)
    BY <1>4
  <2>. HIDE DEF First, s2
  <2>. QED BY <1>11, <2>1, <2>2 DEF Q
<1>. HIDE DEF s2, First
\* And their prerequisites.
<1>13. s3 \in F(HoldNames(r), {})
  <2>1. NamesIn(r.hold) \in Seq(Names)
    BY <1>0, NamesInDependencies
  <2>2. Keeps(CollectPrerequisites(db), F(HoldNames(r), {}))
    BY CollectPrerequisitesKeeps DEF F
  <2>3. \A i \in 1 .. Len(NamesIn(r.hold)) : NamesIn(r.hold)[i] \in Names
    BY <2>1
  <2>4. \A i \in 1 .. Len(NamesIn(r.hold)) : \A t \in F(HoldNames(r), {}) :
            CollectPrerequisites(db)[NamesIn(r.hold)[i]][t] \in F(HoldNames(r), {})
    BY <2>2, <2>3 DEF Keeps
  <2>. QED BY <1>12, <2>1, <2>4, FoldStays
<1>. HIDE DEF s3
\* The dependencies are unheld.
<1>. DEFINE Past(i) == {r.dep[j][1] : j \in 1 .. i}
            Q2 == [i \in 0 .. Len(r.dep) |-> F(HoldNames(r), Past(i))]
<1>14. s3 \in Q2[0]
  <2>1. Past(0) = {} /\ 0 \in 0 .. Len(r.dep)
    BY <1>4
  <2>. HIDE DEF Past
  <2>. QED BY <1>13, <2>1
<1>15. ASSUME NEW i \in 1 .. Len(r.dep), NEW t \in Q2[i - 1] PROVE unhold[r.dep[i]][t] \in Q2[i]
  <2>1. i \in 0 .. Len(r.dep) /\ i - 1 \in 0 .. Len(r.dep)
    BY <1>4
  <2>2. Past(i) = Past(i - 1) \cup {r.dep[i][1]}
    <3>1. \A j : j \in 1 .. i <=> j \in 1 .. i - 1 \/ j = i
      BY <1>4
    <3>. QED BY <3>1
  <2>. HIDE DEF Past
  <2>3. t \in F(HoldNames(r), Past(i - 1))
    BY <2>1
  <2>4. unhold[r.dep[i]][t] = CollectUnhold(t, db, r.dep[i])
    BY <1>2, <1>3, <1>4, <2>3
  <2>5. CollectUnhold(t, db, r.dep[i]) \in F(HoldNames(r), Past(i - 1) \cup {r.dep[i][1]})
    BY <2>3, CollectUnholdFine DEF F
  <2>. QED BY <2>1, <2>2, <2>4, <2>5
<1>. HIDE DEF Q2
<1>16. s4 \in Q2[Len(r.dep)]
  BY <1>0, <1>14, <1>15, FoldReaches
<1>17. s4 \in F(HoldNames(r), DepNames(r))
  <2>1. Past(Len(r.dep)) = DepNames(r)
    <3>1. \A n : n \in DepNames(r) <=> \E j \in 1 .. Len(r.dep) : n = r.dep[j][1]
      BY <1>0, HoldNamesIn
    <3>. QED BY <3>1
  <2>2. Len(r.dep) \in 0 .. Len(r.dep)
    BY <1>4
  <2>. HIDE DEF Past, s4
  <2>. QED BY <1>16, <2>1, <2>2 DEF Q2
<1>. HIDE DEF s4
<1>. QED BY <1>1, <1>17 DEF F

\* A decision of an earlier iteration.
LEMMA CollectDecisionFine ==
    ASSUME NEW db, NEW r, NEW H, Context(db, r, H), NEW D, NEW U, NEW R,
           NEW d \in Decided, d \in D, d[2] # 0 => d[1] \in DepNames(r),
           NEW s \in Fine(db, r, D, H, U, R)
    PROVE  CollectDecision(s, db, d) \in Fine(db, r, D, H, U, R)
<1>. DEFINE n == d[1]
            new == [Absent EXCEPT !.action = "build", !.available = d[2], !.user = TRUE]
            drop == [Absent EXCEPT !.action = "drop"]
            result == CollectDecision(s, db, d)
<1>0. /\ GoodDatabase(db) /\ ValidRequest(r) /\ HoldNames(r) \cap DepNames(r) = {}
      /\ H \subseteq HoldNames(r) /\ s \in Plans
  BY DEF Context, ValidRequest, Fine
<1>1. n \in Names /\ d[2] \in Versions \cup {0} /\ d = <<n, d[2]>>
  BY DEF Decided
<1>2. /\ new \in Entries /\ new.action = "build" /\ new.available = d[2] /\ ~new.unhold
      /\ new.hold_package = Null /\ new.hold_version = Null
  BY <1>1 DEF Absent, Entries, Null, False, True
<1>3. /\ drop \in Entries /\ drop.action = "drop" /\ ~drop.unhold
      /\ drop.hold_package = Null /\ drop.hold_version = Null
  BY <1>1 DEF Absent, Entries, Null, False, True
<1>4. result = IF s.status # "ok" THEN s
        ELSE IF d[2] = 0
          THEN IF s.map[n].action = "build" THEN Stopped(s, "assertion") ELSE Put(s, n, drop)
        ELSE IF Pick(s.map[n], new) = "new" /\ s.map[n].action # "drop"
          THEN CollectPrerequisites(db)[n][Collect(s, n, new)]
        ELSE Collect(s, n, new)
  BY DEF CollectDecision
<1>. HIDE DEF new, drop, result
<1>5. CASE s.status # "ok"
  BY <1>4, <1>5 DEF result
<1>6. CASE s.status = "ok" /\ d[2] = 0
  <2>1. CASE s.map[n].action = "build"
    <3>1. result = Stopped(s, "assertion")
      BY <1>4, <1>6, <2>1
    <3>. QED BY <1>0, <3>1, StoppedFine DEF result
  <2>2. CASE s.map[n].action # "build"
    <3>1. EntryFine(db, r, D, H, U, n, s.map[n])
      BY <1>1, <1>6 DEF Fine
    <3>2. n \notin H
      BY <2>2, <3>1 DEF EntryFine, WillHold
    <3>3. EntryFine(db, r, D, H, U, n, drop)
      BY <1>1, <1>3, <1>6, <3>2 DEF EntryFine, Bystander, Null, True
    <3>4. Put(s, n, drop) \in Fine(db, r, D, H, U, R)
      BY <1>1, <1>3, <3>3, PutFine
    <3>. QED BY <1>4, <1>6, <2>2, <3>4 DEF result
  <2>. QED BY <2>1, <2>2
<1>7. CASE s.status = "ok" /\ d[2] # 0
  <2>1. n \in Asked(r)
    BY <1>7 DEF Asked
  <2>2. Collect(s, n, new) \in Fine(db, r, D, H, U, R)
    BY <1>0, <1>1, <1>2, <1>7, <2>1, CollectFine
  <2>3. CollectPrerequisites(db)[n][Collect(s, n, new)] \in Fine(db, r, D, H, U, R)
    BY <1>1, <2>2, CollectPrerequisitesKeeps DEF Keeps
  <2>. QED BY <1>4, <1>7, <2>2, <2>3 DEF result
<1>. QED BY <1>5, <1>6, <1>7
-----------------------------------------------------------------------------
(***************************************************************************)
(* Ordering changes nothing but the list, and loses none of it.            *)
(***************************************************************************)

\* The plans that ordering may lead to.
OrderedFrom(s) ==
    {t \in Plans : /\ t.map = s.map
                   /\ t.status = "ok" => s.status = "ok" /\ Range(s.list) \subseteq Range(t.list)}

\* order() for each chain, with and without reordering.
Orderings == [SUBSET Names -> [BOOLEAN -> [Names -> [Plans -> Plans]]]]

\* Below orders the package, and leaves the map and what is on the list alone.
Orders(B) ==
    \A chain \in SUBSET Names : \A reorder \in BOOLEAN : \A n \in Names : \A s \in Plans :
        /\ B[chain][reorder][n][s] \in OrderedFrom(s)
        /\ B[chain][reorder][n][s].status = "ok" => n \in Range(B[chain][reorder][n][s].list)

\* Doing nothing and stopping are ways to order.
LEMMA OrderedFromItself ==
    ASSUME NEW s \in Plans
    PROVE  /\ s \in OrderedFrom(s)
           /\ \A status \in {"failed", "assertion", "endless"} :
                 Stopped(s, status) \in OrderedFrom(s) /\ Stopped(s, status).status = status
<1>1. s \in OrderedFrom(s)
  BY DEF OrderedFrom
<1>2. ASSUME NEW status \in {"failed", "assertion", "endless"}
      PROVE  Stopped(s, status) \in OrderedFrom(s) /\ Stopped(s, status).status = status
  <2>1. Stopped(s, status) \in Plans /\ Stopped(s, status).status = status
    BY StoppedIn DEF Statuses
  <2>2. Stopped(s, status).map = s.map
    BY DEF Stopped, Plans
  <2>. QED BY <2>1, <2>2 DEF OrderedFrom
<1>. QED BY <1>1, <1>2

\* Ordering what has been ordered is ordering.
LEMMA OrderedFromTransitive ==
    ASSUME NEW s \in Plans, NEW t \in OrderedFrom(s), NEW u \in OrderedFrom(t)
    PROVE  u \in OrderedFrom(s)
BY DEF OrderedFrom

\* Prerequisites are packages.
LEMMA PrerequisitesIn ==
    ASSUME NEW db \in Databases, NEW n \in Names
    PROVE  PrerequisitesOf(db, n) \subseteq Names /\ db[n].prerequisites \subseteq Dependencies
<1>1. db[n].prerequisites \subseteq Dependencies
  BY DEF Databases, Packages
<1>. QED BY <1>1, DependencyIn DEF PrerequisitesOf

\* What is ordered before a package are packages.
LEMMA BeforeIn ==
    ASSUME NEW db \in Databases, NEW n \in Names, NEW s
    PROVE  Before(s, db, n) \in Seq(Names)
<1>. DEFINE p == s.map[n]
            kept == {m \in PrerequisitesOf(db, n) : s.map[m].action \notin {"absent", "entered"}}
            old == OldPrerequisites(s, db, n)
            new == NamesIn(DependenciesOf(n, p.available))
<1>1. kept \in SUBSET Names /\ old \in SUBSET Names
  BY PrerequisitesIn DEF OldPrerequisites
<1>2. InOrder(kept) \in Seq(Names) /\ InOrder(old) \in Seq(Names)
  BY <1>1, InOrderIn
<1>3. new \in Seq(Names)
  BY ConstantFacts, NamesInDependencies
<1>4. Reverse(new) \in Seq(Names) /\ <<>> \in Seq(Names)
  BY <1>3, ReverseIn
<1>5. Before(s, db, n) = IF p.action = "build" /\ Pruned(db, n, p) THEN InOrder(kept)
          ELSE (IF p.action = "build" THEN Reverse(new) ELSE <<>>) \o InOrder(old)
  BY DEF Before
<1>. HIDE DEF kept, old, new
<1>6. \A a \in Seq(Names) : a \o InOrder(old) \in Seq(Names)
  BY <1>2, ConcatProperties
<1>. QED BY <1>2, <1>4, <1>5, <1>6

\* A name is inserted before those that are on the list.
LEMMA InsertIn ==
    ASSUME NEW s \in Plans, NEW n \in Names, NEW names,
           s.status = "ok" => names \subseteq Range(s.list)
    PROVE  /\ Insert(n, names)[s] \in OrderedFrom(s)
           /\ Insert(n, names)[s].status = "ok" => n \in Range(Insert(n, names)[s].list)
<1>. DEFINE T == {Len(s.list) + 1} \cup {Position(s.list, m) : m \in names}
            l == InsertBefore(s.list, n, Min(T))
<1>1. Insert(n, names)[s] = IF s.status # "ok" THEN s ELSE [s EXCEPT !.list = l]
  BY DEF Insert
<1>2. s.list \in Seq(Names)
  BY PlanIn
<1>3. CASE s.status # "ok"
  BY <1>1, <1>3, OrderedFromItself
<1>4. CASE s.status = "ok"
  <2>1. \A m \in names : Position(s.list, m) \in 1 .. Len(s.list)
    BY <1>2, <1>4, PositionIn
  <2>2. Len(s.list) \in Nat
    BY <1>2
  <2>3. T \in SUBSET Nat /\ T # {} /\ T \subseteq 1 .. Len(s.list) + 1
    BY <2>1, <2>2
  <2>4. Min(T) \in 1 .. Len(s.list) + 1
    BY <2>3, MinOf
  <2>. HIDE DEF T
  <2>5. l \in Seq(Names) /\ Range(l) = Range(s.list) \cup {n}
    BY <1>2, <2>4, InsertBeforeIn
  <2>. HIDE DEF l
  <2>6. /\ [s EXCEPT !.list = l] \in Plans /\ [s EXCEPT !.list = l].list = l
        /\ [s EXCEPT !.list = l].status = s.status /\ [s EXCEPT !.list = l].map = s.map
    BY <2>5, ListIn
  <2>. QED BY <1>1, <1>4, <2>5, <2>6 DEF OrderedFrom
<1>. QED BY <1>3, <1>4

\* Names are ordered one after the other.
LEMMA FoldOrders ==
    ASSUME NEW B, NEW s \in Plans, NEW names \in Seq(Names),
           \A m \in Names : \A t \in Plans :
              B[m][t] \in OrderedFrom(t) /\ (B[m][t].status = "ok" => m \in Range(B[m][t].list))
    PROVE  /\ Fold(B, s, names) \in OrderedFrom(s)
           /\ Fold(B, s, names).status = "ok" => Range(names) \subseteq Range(Fold(B, s, names).list)
<1>. DEFINE Q == [i \in 0 .. Len(names) |->
                    {t \in OrderedFrom(s) : t.status = "ok" => \A j \in 1 .. i : names[j] \in Range(t.list)}]
<1>1. Len(names) \in Nat /\ \A i \in 1 .. Len(names) : names[i] \in Names
  OBVIOUS
<1>2. s \in Q[0]
  BY <1>1, OrderedFromItself
<1>3. ASSUME NEW i \in 1 .. Len(names), NEW t \in Q[i - 1] PROVE B[names[i]][t] \in Q[i]
  <2>. DEFINE u == B[names[i]][t]
  <2>1. i \in 0 .. Len(names) /\ i - 1 \in 0 .. Len(names) /\ names[i] \in Names
    BY <1>1
  <2>2. t \in OrderedFrom(s) /\ (t.status = "ok" => \A j \in 1 .. i - 1 : names[j] \in Range(t.list))
    BY <2>1
  <2>3. t \in Plans
    BY <2>2 DEF OrderedFrom
  <2>4. u \in OrderedFrom(t) /\ (u.status = "ok" => names[i] \in Range(u.list))
    BY <2>1, <2>3
  <2>. HIDE DEF u, Q
  <2>5. u \in OrderedFrom(s)
    BY <2>2, <2>4, OrderedFromTransitive
  <2>6. ASSUME u.status = "ok", NEW j \in 1 .. i PROVE names[j] \in Range(u.list)
    <3>1. j = i \/ j \in 1 .. i - 1
      BY <1>1
    <3>2. t.status = "ok" /\ Range(t.list) \subseteq Range(u.list)
      BY <2>4, <2>6 DEF OrderedFrom
    <3>. QED BY <2>2, <2>4, <2>6, <3>1, <3>2
  <2>. QED BY <2>1, <2>5, <2>6 DEF Q, u
<1>. HIDE DEF Q
<1>4. Fold(B, s, names) \in Q[Len(names)]
  BY <1>2, <1>3, FoldReaches
<1>5. /\ Fold(B, s, names) \in OrderedFrom(s)
      /\ Fold(B, s, names).status = "ok" => \A j \in 1 .. Len(names) : names[j] \in Range(Fold(B, s, names).list)
  BY <1>1, <1>4 DEF Q
<1>6. \A x : x \in Range(names) <=> \E i \in 1 .. Len(names) : x = names[i]
  BY RangeOf
<1>. QED BY <1>5, <1>6

\* One level of order().
LEMMA OrderLevelOrders ==
    ASSUME NEW db \in Databases, NEW B, Orders(B)
    PROVE  OrderLevel(B, db) \in Orderings /\ Orders(OrderLevel(B, db))
<1>. DEFINE level(chain, reorder, n, s) ==
                IF s.status # "ok" THEN s
                ELSE IF s.map[n].action \in {"absent", "entered"} THEN Stopped(s, "assertion")
                ELSE IF n \in chain THEN Stopped(s, "failed")
                ELSE IF n \in Range(s.list) /\ ~reorder THEN s
                ELSE Insert(n, Range(Before(s, db, n)))[
                         Fold(B[chain \cup {n}][FALSE], [s EXCEPT !.list = Without(@, n)], Before(s, db, n))]
<1>1. ASSUME NEW chain \in SUBSET Names, NEW reorder \in BOOLEAN, NEW n \in Names, NEW s \in Plans
      PROVE  /\ level(chain, reorder, n, s) \in OrderedFrom(s)
             /\ level(chain, reorder, n, s).status = "ok" => n \in Range(level(chain, reorder, n, s).list)
  <2>. DEFINE l == Without(s.list, n)
              s1 == [s EXCEPT !.list = l]
              before == Before(s, db, n)
              C == B[chain \cup {n}][FALSE]
              s2 == Fold(C, s1, before)
              s3 == Insert(n, Range(before))[s2]
  <2>1. s.list \in Seq(Names)
    BY PlanIn
  <2>2. l \in Seq(Names) /\ Range(s.list) \subseteq Range(l) \cup {n}
    BY <2>1, WithoutIn
  <2>. HIDE DEF l
  <2>3. s1 \in Plans /\ s1.list = l /\ s1.status = s.status /\ s1.map = s.map
    BY <2>2, ListIn
  <2>. HIDE DEF s1
  <2>4. before \in Seq(Names)
    BY BeforeIn
  <2>5. \A m \in Names : \A t \in Plans :
              C[m][t] \in OrderedFrom(t) /\ (C[m][t].status = "ok" => m \in Range(C[m][t].list))
    BY DEF Orders
  <2>. HIDE DEF C, before
  <2>6. s2 \in OrderedFrom(s1) /\ (s2.status = "ok" => Range(before) \subseteq Range(s2.list))
    BY <2>3, <2>4, <2>5, FoldOrders
  <2>. HIDE DEF s2
  <2>7. s2 \in Plans
    BY <2>6 DEF OrderedFrom
  <2>8. s3 \in OrderedFrom(s2) /\ (s3.status = "ok" => n \in Range(s3.list))
    BY <2>6, <2>7, InsertIn
  <2>. HIDE DEF s3
  <2>9. s3 \in OrderedFrom(s)
    <3>1. s3 \in OrderedFrom(s1)
      BY <2>3, <2>6, <2>8, OrderedFromTransitive
    <3>. QED BY <2>2, <2>3, <2>8, <3>1 DEF OrderedFrom
  <2>10. level(chain, reorder, n, s) =
                IF s.status # "ok" THEN s
                ELSE IF s.map[n].action \in {"absent", "entered"} THEN Stopped(s, "assertion")
                ELSE IF n \in chain THEN Stopped(s, "failed")
                ELSE IF n \in Range(s.list) /\ ~reorder THEN s
                ELSE s3
    BY DEF s3, s2, s1, l, before, C
  <2>. HIDE DEF level
  <2>11. /\ s \in OrderedFrom(s)
         /\ Stopped(s, "assertion") \in OrderedFrom(s) /\ Stopped(s, "assertion").status # "ok"
         /\ Stopped(s, "failed") \in OrderedFrom(s) /\ Stopped(s, "failed").status # "ok"
    BY OrderedFromItself
  <2>. QED BY <2>8, <2>9, <2>10, <2>11
<1>2. OrderLevel(B, db) =
        [chain \in SUBSET Names |-> [reorder \in BOOLEAN |-> [n \in Names |-> [s \in Plans |->
            level(chain, reorder, n, s)]]]]
  BY DEF OrderLevel
<1>. HIDE DEF level
<1>3. \A chain \in SUBSET Names : \A reorder \in BOOLEAN : \A n \in Names : \A s \in Plans :
         level(chain, reorder, n, s) \in Plans
  BY <1>1 DEF OrderedFrom
<1>4. OrderLevel(B, db) \in Orderings
  BY <1>2, <1>3 DEF Orderings
<1>5. \A chain \in SUBSET Names : \A reorder \in BOOLEAN : \A n \in Names : \A s \in Plans :
         OrderLevel(B, db)[chain][reorder][n][s] = level(chain, reorder, n, s)
  BY <1>2
<1>6. Orders(OrderLevel(B, db))
  BY <1>1, <1>5 DEF Orders
<1>. QED BY <1>4, <1>6

\* And all of it.
LEMMA OrderInOrders ==
    ASSUME NEW db \in Databases
    PROVE  Orders(OrderIn(db))
<1>. DEFINE N == Len(Order) + 1
            base == [chain \in SUBSET Names |-> [reorder \in BOOLEAN |-> Endless]]
            S == {b \in Orderings : Orders(b)}
            G == [b \in S |-> OrderLevel(b, db)]
            Right(c) == c = [k \in 0 .. N |-> IF k = 0 THEN base ELSE OrderLevel(c[k - 1], db)]
            order == CHOOSE c : Right(c)
<1>0. N \in Nat
  BY ConstantFacts
<1>1. base \in S
  <2>1. Endless \in [Names -> [Plans -> Plans]]
    BY EndlessKeeps
  <2>2. base \in Orderings
    BY <2>1 DEF Orderings
  <2>3. ASSUME NEW n \in Names, NEW s \in Plans
        PROVE  Endless[n][s] \in OrderedFrom(s) /\ (Endless[n][s].status = "ok" => n \in Range(Endless[n][s].list))
    <3>1. Endless[n][s] = IF s.status # "ok" THEN s ELSE Stopped(s, "endless")
      BY DEF Endless
    <3>. QED BY <3>1, OrderedFromItself
  <2>. QED BY <2>2, <2>3 DEF Orders
<1>2. \A b \in S : G[b] = OrderLevel(b, db) /\ G[b] \in S
  BY OrderLevelOrders
<1>. HIDE DEF G, S, base, N
<1>3. PICK f : IsIteration(f, base, G, N) /\ \A k \in 0 .. N : f[k] \in S
  BY <1>0, <1>1, <1>2, IterationExists
<1>4. Right(f)
  <2>1. \A k \in 0 .. N : k # 0 => k - 1 \in 0 .. N /\ G[f[k - 1]] = OrderLevel(f[k - 1], db)
    BY <1>0, <1>2, <1>3
  <2>2. [k \in 0 .. N |-> IF k = 0 THEN base ELSE G[f[k - 1]]]
        = [k \in 0 .. N |-> IF k = 0 THEN base ELSE OrderLevel(f[k - 1], db)]
    BY <2>1
  <2>. QED BY <1>3, <2>2 DEF IsIteration
<1>5. Right(order)
  <2>. HIDE DEF Right
  <2>. QED BY <1>4
<1>6. OrderIn(db) = order[N]
  BY DEF OrderIn, N, base
<1>. HIDE DEF order
<1>7. order[0] = base /\ \A k \in 1 .. N : order[k] = OrderLevel(order[k - 1], db)
  BY <1>0, <1>5
<1>. DEFINE T == {k \in 0 .. N : Orders(order[k])}
<1>8. 0 \in T
  BY <1>0, <1>1, <1>7 DEF S
<1>9. \A k \in 1 .. N : k - 1 \in T => k \in T
  BY <1>0, <1>7, OrderLevelOrders
<1>. HIDE DEF T
<1>10. \A k \in 0 .. N : k \in T
  BY <1>0, <1>8, <1>9, InductionUpTo
<1>. QED BY <1>0, <1>6, <1>10 DEF T
-----------------------------------------------------------------------------
(***************************************************************************)
(* The dependents.                                                         *)
(***************************************************************************)

\* A constraint is one.
LEMMA ConstraintIn ==
    ASSUME NEW db \in Databases, NEW n, NEW m \in Dependents(db, n)
    PROVE  m \in Names /\ ConstraintOf(db, m, n) \in SUBSET Versions
<1>1. m \in Names /\ \E d \in db[m].prerequisites : d[1] = n
  BY DEF Dependents, PrerequisitesOf
<1>2. db[m].prerequisites \subseteq Dependencies
  BY <1>1, PrerequisitesIn
<1>3. (CHOOSE d \in db[m].prerequisites : d[1] = n) \in Dependencies
  BY <1>1, <1>2
<1>. QED BY <1>1, <1>3, DependencyIn DEF ConstraintOf

\* Nothing on the list gets lost when a dependent is moved.
LEMMA MovedIn ==
    ASSUME NEW list \in Seq(Names), NEW m \in Names, NEW n
    PROVE  Moved(list, m, n) \in Seq(Names) /\ Range(list) \subseteq Range(Moved(list, m, n))
<1>. DEFINE l == Without(list, m)
            i == Position(l, n)
<1>1. l \in Seq(Names) /\ Range(list) \subseteq Range(l) \cup {m}
  BY WithoutIn
<1>. HIDE DEF l
<1>2. i \in 1 .. Len(l) + 1
  BY <1>1, PositionIn
<1>. HIDE DEF i
<1>3. InsertBefore(l, m, i) \in Seq(Names) /\ Range(InsertBefore(l, m, i)) = Range(l) \cup {m}
  BY <1>1, <1>2, InsertBeforeIn
<1>4. Moved(list, m, n) = list \/ Moved(list, m, n) = InsertBefore(l, m, i)
  BY DEF Moved, l, i
<1>. QED BY <1>1, <1>3, <1>4

\* The entry of a dependent is adjusted.
LEMMA AdjustedIn ==
    ASSUME NEW s \in Plans, NEW m \in Names
    PROVE  /\ Adjusted(s, m) \in Entries
           /\ \/ Adjusted(s, m).action = s.map[m].action /\ s.map[m].action = "build"
              \/ Adjusted(s, m).action = "adjust" /\ (s.map[m].action = "build" => m \notin Range(s.list))
           /\ Adjusted(s, m).action = "build" => Adjusted(s, m).available = s.map[m].available
           /\ Adjusted(s, m).constraints = s.map[m].constraints
           /\ Adjusted(s, m).unhold <=> s.map[m].unhold
           /\ Adjusted(s, m).hold_package = s.map[m].hold_package
           /\ Adjusted(s, m).hold_version = s.map[m].hold_version
<1>. DEFINE p == s.map[m]
            a == [Absent EXCEPT !.action = "adjust", !.reconfigure = TRUE]
<1>1. p \in Entries
  BY PlanIn
<1>2. /\ a \in Entries /\ a.action = "adjust" /\ ~a.unhold /\ a.constraints = {}
      /\ a.hold_package = 0 /\ a.hold_version = 0
  BY DEF Absent, Entries, Null, False, True
<1>3. Adjusted(s, m) = IF p.action = "build" /\ m \in Range(s.list) THEN [p EXCEPT !.reconfigure = TRUE]
                       ELSE Merge(a, p)
  BY DEF Adjusted
<1>. HIDE DEF a, p
<1>4. p.hold_package \in {0, 1, 2} /\ p.hold_version \in {0, 1, 2}
  BY <1>1 DEF Entries, Null, False, True
<1>5. CASE p.action = "build" /\ m \in Range(s.list)
  <2>. DEFINE q == [p EXCEPT !.reconfigure = TRUE]
  <2>1. q \in Entries
    BY <1>1 DEF Entries
  <2>2. /\ q.action = p.action /\ q.available = p.available /\ q.constraints = p.constraints
        /\ q.unhold = p.unhold /\ q.hold_package = p.hold_package /\ q.hold_version = p.hold_version
    BY <1>1 DEF Entries
  <2>3. Adjusted(s, m) = q
    BY <1>3, <1>5
  <2>. HIDE DEF q
  <2>. QED BY <1>5, <2>1, <2>2, <2>3 DEF p
<1>6. CASE ~(p.action = "build" /\ m \in Range(s.list))
  <2>. DEFINE q == Merge(a, p)
  <2>0. a \in Entries
    BY <1>2
  <2>1. /\ q \in Entries /\ q.action = a.action
        /\ q.constraints = a.constraints \cup p.constraints
        /\ q.hold_package = IF a.hold_package >= p.hold_package THEN a.hold_package ELSE p.hold_package
        /\ q.hold_version = IF a.hold_version >= p.hold_version THEN a.hold_version ELSE p.hold_version
    BY ONLY <1>1, <2>0, MergeIn
  <2>2. q.unhold <=> a.unhold \/ p.unhold
    BY <1>1, <1>2, MergeIn
  <2>3. Adjusted(s, m) = q
    BY <1>3, <1>6
  <2>. HIDE DEF q
  <2>4. q.hold_package = p.hold_package /\ q.hold_version = p.hold_version
    BY <1>2, <1>4, <2>1
  <2>5. q.constraints = p.constraints
    BY <1>2, <2>1
  <2>. QED BY <1>2, <1>6, <2>1, <2>2, <2>3, <2>4, <2>5 DEF p
<1>. QED BY <1>5, <1>6

\* The constraint of a dependent is added.
MoreConstraints(e, f) ==
    \E c \in SUBSET SUBSET Versions : e.constraints \subseteq c /\ f = [e EXCEPT !.constraints = c]

\* The constraint of a dependent is added to an entry, which changes nothing
\* else.
LEMMA AddedConstraintIn ==
    ASSUME NEW db \in Databases, NEW s \in Plans, NEW n \in Names, NEW m \in Dependents(db, n)
    PROVE  /\ AddedConstraint(s, db, m, n) \in Plans
           /\ AddedConstraint(s, db, m, n).status = s.status /\ AddedConstraint(s, db, m, n).list = s.list
           /\ \A o \in Names : MoreConstraints(s.map[o], AddedConstraint(s, db, m, n).map[o])
<1>. DEFINE e == s.map[n]
<1>1. PICK c \in SUBSET SUBSET Versions : c = e.constraints \cup {ConstraintOf(db, m, n)}
  <2>1. e \in Entries
    BY PlanIn
  <2>. HIDE DEF e
  <2>2. e.constraints \in SUBSET SUBSET Versions
    BY <2>1 DEF Entries
  <2>3. ConstraintOf(db, m, n) \in SUBSET Versions
    BY ConstraintIn
  <2>4. e.constraints \cup {ConstraintOf(db, m, n)} \in SUBSET SUBSET Versions
    BY <2>2, <2>3
  <2>. QED BY <2>4
<1>2. \A o \in Names : s.map[o] \in Entries /\ s.map[o] = [s.map[o] EXCEPT !.constraints = s.map[o].constraints]
                       /\ s.map[o].constraints \in SUBSET SUBSET Versions
  BY PlanIn DEF Entries
<1>3. CASE ~Stays(s, db, m, n)
  <2>1. AddedConstraint(s, db, m, n) = s
    BY <1>3 DEF AddedConstraint
  <2>. QED BY <1>2, <2>1 DEF MoreConstraints
<1>4. CASE Stays(s, db, m, n)
  <2>. DEFINE f == [e EXCEPT !.constraints = c]
              t == Put(s, n, f)
  <2>1. AddedConstraint(s, db, m, n) = t
    BY <1>1, <1>4 DEF AddedConstraint
  <2>2. f \in Entries
    BY <1>2 DEF Entries
  <2>. HIDE DEF f
  <2>4. /\ t \in Plans /\ t.status = s.status /\ t.list = s.list
        /\ \A o \in Names : t.map[o] = IF o = n THEN f ELSE s.map[o]
    BY <2>2, PutIn
  <2>. HIDE DEF t
  <2>5. t.map[n] = [s.map[n] EXCEPT !.constraints = c] /\ s.map[n].constraints \subseteq c
    BY <1>1, <2>4 DEF f
  <2>6. ASSUME NEW o \in Names
        PROVE  MoreConstraints(s.map[o], t.map[o])
    <3>1. CASE o = n
      BY <2>5, <3>1 DEF MoreConstraints
    <3>2. CASE o # n
      <4>1. t.map[o] = s.map[o]
        BY <2>4, <3>2
      <4>. QED BY <1>2, <4>1 DEF MoreConstraints
    <3>. QED BY <3>1, <3>2
  <2>. QED BY <2>1, <2>4, <2>6
<1>. QED BY <1>3, <1>4

\* More constraints leave an entry fine.
LEMMA MoreConstraintsFine ==
    ASSUME NEW db, NEW r, NEW D, NEW H, NEW U, NEW n, NEW e \in Entries,
           EntryFine(db, r, D, H, U, n, e), NEW c, e.constraints \subseteq c
    PROVE  EntryFine(db, r, D, H, U, n, [e EXCEPT !.constraints = c])
<1>. DEFINE f == [e EXCEPT !.constraints = c]
<1>1. /\ f.action = e.action /\ f.available = e.available /\ f.constraints = c
      /\ f.unhold = e.unhold /\ f.hold_package = e.hold_package /\ f.hold_version = e.hold_version
  BY DEF Entries
<1>. HIDE DEF f
<1>2. n \notin Asked(r) => Bystander(db, n, f)
  BY <1>1 DEF EntryFine, Bystander
<1>3. n \in H => WillHold(r, n, f)
  BY <1>1 DEF EntryFine, WillHold
<1>. QED BY <1>1, <1>2, <1>3 DEF EntryFine, f

\* A dependent that is to be reconfigured is fine: it is neither to be dropped
\* nor, not being on the list yet, to be held.
LEMMA AdjustedFine ==
    ASSUME NEW db, NEW r, NEW D, NEW H, NEW U, NEW s \in Plans, NEW m \in Names,
           s.map[m].action # "drop", m \in H => m \in Range(s.list),
           EntryFine(db, r, D, H, U, m, s.map[m])
    PROVE  EntryFine(db, r, D, H, U, m, Adjusted(s, m))
<1>. DEFINE p == s.map[m]
            q == Adjusted(s, m)
<1>1. /\ \/ q.action = p.action /\ p.action = "build"
         \/ q.action = "adjust" /\ (p.action = "build" => m \notin Range(s.list))
      /\ q.action = "build" => q.available = p.available
      /\ q.constraints = p.constraints
      /\ q.hold_package = p.hold_package
      /\ q.hold_version = p.hold_version
  BY AdjustedIn
<1>2. q.unhold <=> p.unhold
  BY AdjustedIn
<1>. HIDE DEF q
<1>3. m \notin Asked(r) => Bystander(db, m, q)
  BY <1>1 DEF EntryFine, Bystander
<1>4. m \in H => WillHold(r, m, q)
  BY <1>1 DEF EntryFine, WillHold
<1>. QED BY <1>1, <1>2, <1>3, <1>4 DEF EntryFine, q

\* What collect_order_dependents() is about: the packages to be held are on the list.
OrderContext(db, r, R) == Context(db, r, HoldNames(r)) /\ HoldNames(r) \subseteq R

\* collect_order_dependents() for one dependent.
LEMMA OrderDependentIn ==
    ASSUME NEW db \in Databases, NEW Below, Keeps(Below, Plans), NEW s \in Plans,
           NEW n \in Names, NEW m \in Dependents(db, n)
    PROVE  OrderDependent(Below, s, db, n, m) \in Plans
<1>. DEFINE t == AddedConstraint(s, db, m, n)
            l == Moved(s.list, m, n)
            e == Adjusted(s, m)
            u == [t EXCEPT !.map[m] = e, !.list = l]
<1>1. t \in Plans /\ m \in Names
  BY AddedConstraintIn, ConstraintIn
<1>2. l \in Seq(Names) /\ e \in Entries
  BY <1>1, PlanIn, MovedIn, AdjustedIn
<1>3. OrderDependent(Below, s, db, n, m) \in {s, Stopped(s, "failed"), t, Below[m][u]}
  BY DEF OrderDependent
<1>. HIDE DEF t, l, e
<1>4. u \in Plans
  BY <1>1, <1>2 DEF Plans
<1>. HIDE DEF u
<1>5. Below[m][u] \in Plans /\ Stopped(s, "failed") \in Plans
  BY <1>1, <1>4, StoppedIn DEF Keeps, Statuses
<1>. QED BY <1>1, <1>3, <1>5

\* Collecting a dependent keeps a plan fine if doing so for its dependents
\* does.
LEMMA OrderDependentFine ==
    ASSUME NEW db, NEW r, NEW R, OrderContext(db, r, R), NEW D, NEW U,
           NEW Below, Keeps(Below, Fine(db, r, D, HoldNames(r), U, R)),
           NEW s \in Fine(db, r, D, HoldNames(r), U, R),
           NEW n \in Names, NEW m \in Dependents(db, n)
    PROVE  OrderDependent(Below, s, db, n, m) \in Fine(db, r, D, HoldNames(r), U, R)
<1>. DEFINE H == HoldNames(r)
            F == Fine(db, r, D, H, U, R)
            t == AddedConstraint(s, db, m, n)
            l == Moved(s.list, m, n)
            e == Adjusted(s, m)
            u == [t EXCEPT !.map[m] = e, !.list = l]
<1>0. db \in Databases /\ H \subseteq R /\ s \in Plans
  BY DEF OrderContext, Context, GoodDatabase, Fine
<1>1. m \in Names
  BY <1>0, ConstraintIn
<1>2. /\ t \in Plans /\ t.status = s.status /\ t.list = s.list
      /\ \A o \in Names : MoreConstraints(s.map[o], t.map[o])
  BY <1>0, AddedConstraintIn
<1>3. l \in Seq(Names) /\ e \in Entries /\ Range(s.list) \subseteq Range(l)
  BY <1>0, <1>1, PlanIn, MovedIn, AdjustedIn
<1>4. OrderDependent(Below, s, db, n, m) =
        IF s.status # "ok" THEN s
        ELSE IF ~Accepts(s, db, m, n) THEN Stopped(s, "failed")
        ELSE IF s.map[m].action = "drop" THEN t
        ELSE Below[m][u]
  BY DEF OrderDependent
<1>5. Stopped(s, "failed") \in F
  BY <1>0, StoppedFine
<1>6. ASSUME s.status = "ok"
      PROVE  /\ R \subseteq Range(s.list)
             /\ \A o \in Names : EntryFine(db, r, D, H, U, o, s.map[o])
             /\ \A o \in Names : EntryFine(db, r, D, H, U, o, t.map[o])
  <2>1. R \subseteq Range(s.list) /\ \A o \in Names : EntryFine(db, r, D, H, U, o, s.map[o])
    BY <1>6 DEF Fine
  <2>2. ASSUME NEW o \in Names PROVE EntryFine(db, r, D, H, U, o, t.map[o])
    <3>1. PICK c : s.map[o].constraints \subseteq c /\ t.map[o] = [s.map[o] EXCEPT !.constraints = c]
      BY <1>2 DEF MoreConstraints
    <3>2. s.map[o] \in Entries /\ EntryFine(db, r, D, H, U, o, s.map[o])
      BY <1>0, <2>1, PlanIn
    <3>. QED BY <3>1, <3>2, MoreConstraintsFine
  <2>. QED BY <2>1, <2>2
<1>7. t \in F
  BY <1>2, <1>6 DEF Fine
<1>8. ASSUME s.status = "ok", s.map[m].action # "drop"
      PROVE  EntryFine(db, r, D, H, U, m, e)
  <2>1. EntryFine(db, r, D, H, U, m, s.map[m]) /\ (m \in H => m \in Range(s.list))
    BY <1>0, <1>1, <1>6, <1>8
  <2>. QED BY <1>0, <1>1, <1>8, <2>1, AdjustedFine
<1>. HIDE DEF t, l, e
<1>9. /\ u \in Plans /\ u.status = t.status /\ u.list = l
      /\ \A o \in Names : u.map[o] = IF o = m THEN e ELSE t.map[o]
  BY <1>1, <1>2, <1>3 DEF Plans
<1>. HIDE DEF u
<1>10. s.map[m].action # "drop" => u \in F
  <2>1. ASSUME s.map[m].action # "drop", u.status = "ok"
        PROVE  R \subseteq Range(u.list) /\ \A o \in Names : EntryFine(db, r, D, H, U, o, u.map[o])
    BY <1>2, <1>3, <1>6, <1>8, <1>9, <2>1
  <2>. QED BY <1>9, <2>1 DEF Fine
<1>11. s.map[m].action # "drop" => Below[m][u] \in F
  BY <1>1, <1>10 DEF Keeps
<1>. QED BY <1>4, <1>5, <1>7, <1>11

\* collect_order_dependents() for all of them.
LEMMA OrderDependentsLevelKeeps ==
    ASSUME NEW db, NEW r, NEW R, OrderContext(db, r, R), NEW D, NEW U,
           NEW Below, Keeps(Below, Plans)
    PROVE  /\ OrderDependentsLevel(Below, db) \in [Names -> [Plans -> Plans]]
           /\ Keeps(OrderDependentsLevel(Below, db), Plans)
           /\ Keeps(Below, Fine(db, r, D, HoldNames(r), U, R)) =>
                Keeps(OrderDependentsLevel(Below, db), Fine(db, r, D, HoldNames(r), U, R))
<1>0. db \in Databases
  BY DEF OrderContext, Context, GoodDatabase
<1>. DEFINE F == Fine(db, r, D, HoldNames(r), U, R)
            step(n) == [m \in Names |-> [t \in Plans |-> OrderDependent(Below, t, db, n, m)]]
            list(n) == InOrder(Dependents(db, n))
            level(n, s) == Fold(step(n), s, list(n))
<1>1. \A n : \A m \in Names : \A t \in Plans : step(n)[m][t] = OrderDependent(Below, t, db, n, m)
  OBVIOUS
<1>2. OrderDependentsLevel(Below, db) = [n \in Names |-> [s \in Plans |-> level(n, s)]]
  BY DEF OrderDependentsLevel
<1>3. ASSUME NEW n \in Names
      PROVE  list(n) \in Seq(Names) /\ \A i \in 1 .. Len(list(n)) : list(n)[i] \in Dependents(db, n)
  <2>1. Dependents(db, n) \in SUBSET Names
    BY DEF Dependents
  <2>2. list(n) \in Seq(Names) /\ Range(list(n)) = Dependents(db, n)
    BY <2>1, InOrderIn
  <2>. HIDE DEF list
  <2>. QED BY <2>2, RangeOf
<1>. HIDE DEF step, list
<1>4. ASSUME NEW n \in Names, NEW s \in Plans PROVE level(n, s) \in Plans
  <2>1. \A i \in 1 .. Len(list(n)) : \A t \in Plans : step(n)[list(n)[i]][t] \in Plans
    <3>1. ASSUME NEW i \in 1 .. Len(list(n)), NEW t \in Plans PROVE step(n)[list(n)[i]][t] \in Plans
      <4>. DEFINE m == list(n)[i]
      <4>1. m \in Dependents(db, n) /\ m \in Names
        BY <1>0, <1>3, ConstraintIn
      <4>. HIDE DEF m
      <4>2. OrderDependent(Below, t, db, n, m) \in Plans
        BY <1>0, <4>1, OrderDependentIn
      <4>3. step(n)[m][t] = OrderDependent(Below, t, db, n, m)
        BY <1>1, <4>1
      <4>. QED BY <4>2, <4>3 DEF m
    <3>. QED BY <3>1
  <2>. QED BY <1>3, <2>1, FoldStays
<1>5. \A s \in F : s \in Plans
  BY DEF Fine
<1>6. ASSUME Keeps(Below, F), NEW n \in Names, NEW s \in F PROVE level(n, s) \in F
  <2>1. \A i \in 1 .. Len(list(n)) : \A t \in F : step(n)[list(n)[i]][t] \in F
    <3>1. ASSUME NEW i \in 1 .. Len(list(n)), NEW t \in F PROVE step(n)[list(n)[i]][t] \in F
      <4>. DEFINE m == list(n)[i]
      <4>1. m \in Dependents(db, n) /\ m \in Names
        BY <1>0, <1>3, ConstraintIn
      <4>. HIDE DEF m
      <4>2. OrderDependent(Below, t, db, n, m) \in F
        BY <1>6, <4>1, OrderDependentFine
      <4>3. step(n)[m][t] = OrderDependent(Below, t, db, n, m)
        BY <1>1, <1>5, <4>1
      <4>. QED BY <4>2, <4>3 DEF m
    <3>. QED BY <3>1
  <2>. HIDE DEF F
  <2>. QED BY <1>3, <2>1, FoldStays
<1>. HIDE DEF level, F
<1>7. OrderDependentsLevel(Below, db) \in [Names -> [Plans -> Plans]]
  BY <1>2, <1>4
<1>8. \A n \in Names : \A s \in Plans : OrderDependentsLevel(Below, db)[n][s] = level(n, s)
  BY <1>2
<1>9. Keeps(OrderDependentsLevel(Below, db), Plans)
  BY <1>4, <1>8 DEF Keeps
<1>10. ASSUME Keeps(Below, F) PROVE Keeps(OrderDependentsLevel(Below, db), F)
  BY <1>5, <1>6, <1>8, <1>10 DEF Keeps
<1>. QED BY <1>7, <1>9, <1>10 DEF F

\* And for theirs.
LEMMA OrderDependentsKeeps ==
    ASSUME NEW db, NEW r, NEW R, OrderContext(db, r, R), NEW D, NEW U
    PROVE  /\ Keeps(OrderDependents(db), Plans)
           /\ Keeps(OrderDependents(db), Fine(db, r, D, HoldNames(r), U, R))
<1>. DEFINE Steps == [Names -> [Plans -> Plans]]
            F == Fine(db, r, D, HoldNames(r), U, R)
            N == Len(Order)
            G == [b \in Steps |-> OrderDependentsLevel(b, db)]
            Right(c) == c = [k \in 0 .. N |-> IF k = 0 THEN Endless ELSE OrderDependentsLevel(c[k - 1], db)]
            order == CHOOSE c : Right(c)
<1>0. N \in Nat
  BY ConstantFacts
<1>. HIDE DEF N
<1>1. Endless \in Steps /\ Keeps(Endless, Plans) /\ Keeps(Endless, F)
  BY EndlessKeeps
<1>2. \A b \in Steps : Keeps(b, Plans)
  BY DEF Keeps
<1>3. \A b \in Steps : G[b] = OrderDependentsLevel(b, db) /\ G[b] \in Steps
  BY <1>2, OrderDependentsLevelKeeps
<1>. HIDE DEF G, Steps
<1>4. PICK f : IsIteration(f, Endless, G, N) /\ \A k \in 0 .. N : f[k] \in Steps
  BY <1>0, <1>1, <1>3, IterationExists
<1>5. Right(f)
  <2>1. \A k \in 0 .. N : k # 0 => k - 1 \in 0 .. N /\ G[f[k - 1]] = OrderDependentsLevel(f[k - 1], db)
    BY <1>0, <1>3, <1>4
  <2>2. [k \in 0 .. N |-> IF k = 0 THEN Endless ELSE G[f[k - 1]]]
        = [k \in 0 .. N |-> IF k = 0 THEN Endless ELSE OrderDependentsLevel(f[k - 1], db)]
    BY <2>1
  <2>. QED BY <1>4, <2>2 DEF IsIteration
<1>6. Right(order)
  <2>. HIDE DEF Right
  <2>. QED BY <1>5
<1>7. OrderDependents(db) = order[N]
  BY DEF OrderDependents, N
<1>. HIDE DEF order, F
<1>8. order[0] = Endless /\ \A k \in 1 .. N : order[k] = OrderDependentsLevel(order[k - 1], db)
  BY <1>0, <1>6
<1>. DEFINE T == {k \in 0 .. N : Keeps(order[k], Plans) /\ Keeps(order[k], F)}
<1>9. 0 \in T
  BY <1>0, <1>1, <1>8
<1>10. ASSUME NEW k \in 1 .. N, k - 1 \in T PROVE k \in T
  <2>1. Keeps(order[k - 1], Plans) /\ Keeps(order[k - 1], F)
    BY <1>10
  <2>2. Keeps(OrderDependentsLevel(order[k - 1], db), Plans) /\ Keeps(OrderDependentsLevel(order[k - 1], db), F)
    BY <2>1, OrderDependentsLevelKeeps DEF F
  <2>. QED BY <1>0, <1>8, <2>2
<1>. HIDE DEF T
<1>11. \A k \in 1 .. N : k - 1 \in T => k \in T
  BY <1>10
<1>12. \A k \in 0 .. N : k \in T
  BY <1>0, <1>9, <1>11, InductionUpTo
<1>. QED BY <1>0, <1>7, <1>12 DEF T, F

\* The same for steps from positions.
KeepsFrom(Below, P) == \A i \in Nat : \A t \in P : Below[i][t] \in P

\* Going on with the next package of the list keeps a plan fine.
LEMMA OrderAllLevelKeeps ==
    ASSUME NEW db, NEW r, NEW R, OrderContext(db, r, R), NEW D, NEW U,
           NEW Below, KeepsFrom(Below, Plans)
    PROVE  /\ OrderAllLevel(Below, db) \in [Nat -> [Plans -> Plans]]
           /\ KeepsFrom(OrderAllLevel(Below, db), Plans)
           /\ KeepsFrom(Below, Fine(db, r, D, HoldNames(r), U, R)) =>
                KeepsFrom(OrderAllLevel(Below, db), Fine(db, r, D, HoldNames(r), U, R))
<1>. DEFINE F == Fine(db, r, D, HoldNames(r), U, R)
            rest(n) == [t \in Plans |-> IF t.status # "ok" THEN t ELSE Below[Position(t.list, n) + 1][t]]
            here(n, s) == IF s.map[n].action # "drop" /\ Reconfigure(db, n, s.map[n])
                            THEN OrderDependents(db)[n][s] ELSE s
            level(i, s) == IF s.status # "ok" \/ i \notin DOMAIN s.list THEN s
                           ELSE rest(s.list[i])[here(s.list[i], s)]
<1>1. OrderAllLevel(Below, db) = [i \in Nat |-> [s \in Plans |-> level(i, s)]]
  BY DEF OrderAllLevel
<1>2. \A n : \A t \in Plans : rest(n)[t] = IF t.status # "ok" THEN t ELSE Below[Position(t.list, n) + 1][t]
  OBVIOUS
<1>. HIDE DEF rest
<1>3. Keeps(OrderDependents(db), Plans) /\ Keeps(OrderDependents(db), F)
  BY OrderDependentsKeeps
<1>4. \A s \in F : s \in Plans
  BY DEF Fine
<1>. HIDE DEF F
<1>5. \A t \in Plans : \A n : Position(t.list, n) + 1 \in Nat
  <2>1. ASSUME NEW t \in Plans, NEW n PROVE Position(t.list, n) + 1 \in Nat
    <3>1. t.list \in Seq(Names)
      BY PlanIn
    <3>2. Position(t.list, n) \in 1 .. Len(t.list) + 1 /\ Len(t.list) \in Nat
      BY <3>1, PositionIn
    <3>. QED BY <3>2
  <2>. QED BY <2>1
<1>6. ASSUME NEW P, P = Plans \/ P = F, KeepsFrom(Below, P), NEW i \in Nat, NEW s \in P
      PROVE  level(i, s) \in P
  <2>1. s \in Plans /\ \A t \in P : t \in Plans
    BY <1>4, <1>6
  <2>2. CASE s.status # "ok" \/ i \notin DOMAIN s.list
    BY <2>2
  <2>3. CASE ~(s.status # "ok" \/ i \notin DOMAIN s.list)
    <3>. DEFINE n == s.list[i]
                h == here(n, s)
    <3>1. n \in Names
      BY <2>1, <2>3, PlanIn, ElementOfSeq
    <3>. HIDE DEF n
    <3>2. h \in P
      BY <1>3, <1>6, <3>1 DEF Keeps
    <3>. HIDE DEF h
    <3>3. Below[Position(h.list, n) + 1][h] \in P
      BY <1>5, <1>6, <2>1, <3>2 DEF KeepsFrom
    <3>4. rest(n)[h] \in P
      BY <1>2, <2>1, <3>2, <3>3
    <3>5. level(i, s) = rest(n)[h]
      BY <2>3 DEF n, h
    <3>. QED BY <3>4, <3>5
  <2>. QED BY <2>2, <2>3
<1>. HIDE DEF level
<1>7. \A i \in Nat : \A s \in Plans : level(i, s) \in Plans
  BY <1>6
<1>8. OrderAllLevel(Below, db) \in [Nat -> [Plans -> Plans]]
  BY <1>1, <1>7
<1>9. \A i \in Nat : \A s \in Plans : OrderAllLevel(Below, db)[i][s] = level(i, s)
  BY <1>1
<1>10. KeepsFrom(OrderAllLevel(Below, db), Plans)
  BY <1>7, <1>9 DEF KeepsFrom
<1>11. ASSUME KeepsFrom(Below, F) PROVE KeepsFrom(OrderAllLevel(Below, db), F)
  <2>1. \A i \in Nat : \A s \in F : level(i, s) \in F
    BY <1>6, <1>11
  <2>. QED BY <1>4, <1>9, <2>1 DEF KeepsFrom
<1>. QED BY <1>8, <1>10, <1>11 DEF F

\* collect_order_dependents() keeps a plan fine.
LEMMA OrderAllDependentsKeeps ==
    ASSUME NEW db, NEW r, NEW R, OrderContext(db, r, R), NEW D, NEW U
    PROVE  /\ KeepsFrom(OrderAllDependents(db), Plans)
           /\ KeepsFrom(OrderAllDependents(db), Fine(db, r, D, HoldNames(r), U, R))
<1>. DEFINE Steps == [Nat -> [Plans -> Plans]]
            F == Fine(db, r, D, HoldNames(r), U, R)
            N == Len(Order) + 1
            base == [i \in Nat |-> [s \in Plans |-> Stopped(s, "endless")]]
            G == [b \in Steps |-> OrderAllLevel(b, db)]
            Right(c) == c = [k \in 0 .. N |-> IF k = 0 THEN base ELSE OrderAllLevel(c[k - 1], db)]
            order == CHOOSE c : Right(c)
<1>0. N \in Nat
  BY ConstantFacts
<1>. HIDE DEF N
<1>1. base \in Steps /\ KeepsFrom(base, Plans) /\ KeepsFrom(base, F)
  <2>1. \A s \in Plans : Stopped(s, "endless") \in Plans /\ Stopped(s, "endless") \in F
    BY StoppedFine, StoppedIn DEF Statuses
  <2>2. \A s \in F : s \in Plans
    BY DEF Fine
  <2>. HIDE DEF F
  <2>3. \A i \in Nat : \A s \in Plans : base[i][s] = Stopped(s, "endless")
    OBVIOUS
  <2>4. base \in Steps
    BY <2>1
  <2>. HIDE DEF base
  <2>. QED BY <2>1, <2>2, <2>3, <2>4 DEF KeepsFrom
<1>2. \A b \in Steps : KeepsFrom(b, Plans)
  BY DEF KeepsFrom
<1>3. \A b \in Steps : G[b] = OrderAllLevel(b, db) /\ G[b] \in Steps
  BY <1>2, OrderAllLevelKeeps
<1>. HIDE DEF G, Steps, base
<1>4. PICK f : IsIteration(f, base, G, N) /\ \A k \in 0 .. N : f[k] \in Steps
  BY <1>0, <1>1, <1>3, IterationExists
<1>5. Right(f)
  <2>1. \A k \in 0 .. N : k # 0 => k - 1 \in 0 .. N /\ G[f[k - 1]] = OrderAllLevel(f[k - 1], db)
    BY <1>0, <1>3, <1>4
  <2>2. [k \in 0 .. N |-> IF k = 0 THEN base ELSE G[f[k - 1]]]
        = [k \in 0 .. N |-> IF k = 0 THEN base ELSE OrderAllLevel(f[k - 1], db)]
    BY <2>1
  <2>. QED BY <1>4, <2>2 DEF IsIteration
<1>6. Right(order)
  <2>. HIDE DEF Right
  <2>. QED BY <1>5
<1>7. OrderAllDependents(db) = order[N]
  BY DEF OrderAllDependents, N, base
<1>. HIDE DEF order, F
<1>8. order[0] = base /\ \A k \in 1 .. N : order[k] = OrderAllLevel(order[k - 1], db)
  BY <1>0, <1>6
<1>. DEFINE T == {k \in 0 .. N : KeepsFrom(order[k], Plans) /\ KeepsFrom(order[k], F)}
<1>9. 0 \in T
  BY <1>0, <1>1, <1>8
<1>10. ASSUME NEW k \in 1 .. N, k - 1 \in T PROVE k \in T
  <2>1. KeepsFrom(order[k - 1], Plans) /\ KeepsFrom(order[k - 1], F)
    BY <1>10
  <2>2. KeepsFrom(OrderAllLevel(order[k - 1], db), Plans) /\ KeepsFrom(OrderAllLevel(order[k - 1], db), F)
    BY <2>1, OrderAllLevelKeeps DEF F
  <2>. QED BY <1>0, <1>8, <2>2
<1>. HIDE DEF T
<1>11. \A k \in 1 .. N : k - 1 \in T => k \in T
  BY <1>10
<1>12. \A k \in 0 .. N : k \in T
  BY <1>0, <1>9, <1>11, InductionUpTo
<1>. QED BY <1>0, <1>7, <1>12 DEF T, F

\* The dependencies that are to be unheld.
Unheld(db, r) == {n \in DepNames(r) : db[n].hold_package}

\* Ordering leaves a plan fine, and what is ordered is on the list.
LEMMA OrderedFine ==
    ASSUME NEW db, NEW r, NEW D, NEW H, NEW U, NEW R, NEW s \in Fine(db, r, D, H, U, R),
           NEW t \in OrderedFrom(s), NEW S, t.status = "ok" => S \subseteq Range(t.list)
    PROVE  t \in Fine(db, r, D, H, U, R \cup S)
<1>1. t \in Plans /\ t.map = s.map /\ (t.status = "ok" => s.status = "ok" /\ Range(s.list) \subseteq Range(t.list))
  BY DEF OrderedFrom
<1>2. s.status = "ok" => R \subseteq Range(s.list) /\ \A n \in Names : EntryFine(db, r, D, H, U, n, s.map[n])
  BY DEF Fine
<1>. QED BY <1>1, <1>2 DEF Fine

\* Being fine with other packages on the list.
LEMMA FineList ==
    ASSUME NEW db, NEW r, NEW D, NEW H, NEW U, NEW R, NEW s \in Fine(db, r, D, H, U, R), NEW R2,
           s.status = "ok" => R2 \subseteq Range(s.list)
    PROVE  s \in Fine(db, r, D, H, U, R2)
BY DEF Fine

\* The list of the plan.
LEMMA OrderRequestFine ==
    ASSUME NEW db, NEW r, Context(db, r, HoldNames(r)), NEW D, NEW U,
           NEW decisions \in Seq(Decided), NEW s \in Fine(db, r, D, HoldNames(r), U, {})
    PROVE  OrderRequest(s, db, r, decisions) \in
                Fine(db, r, D, HoldNames(r), U, HoldNames(r) \cup Unheld(db, r))
<1>. DEFINE H == HoldNames(r)
            order == OrderIn(db)[{}]
            decided == Fold(order[FALSE], s, NamesIn(decisions))
            requested == Fold(order[TRUE], decided, Reverse(NamesIn(r.hold)))
            unheld == Those(NamesIn(r.dep), {n \in Names : db[n].hold_package})
            all == OrderAllDependents(db)[1][requested]
            result == Fold(order[FALSE], all, unheld)
<1>1. OrderRequest(s, db, r, decisions) = result
  BY DEF OrderRequest
<1>2. /\ db \in Databases /\ ValidRequest(r)
      /\ r.hold \in Seq(Dependencies) /\ r.dep \in Seq(Dependencies)
  BY DEF Context, GoodDatabase, ValidRequest
<1>3. \A b \in BOOLEAN : \A m \in Names : \A t \in Plans :
         order[b][m][t] \in OrderedFrom(t) /\ (order[b][m][t].status = "ok" => m \in Range(order[b][m][t].list))
  <2>1. Orders(OrderIn(db)) /\ {} \in SUBSET Names
    BY <1>2, OrderInOrders
  <2>. QED BY <2>1 DEF Orders
<1>. HIDE DEF order
<1>4. NamesIn(decisions) \in Seq(Names)
  <2>1. \A d \in Decided : d[1] \in Names
    BY DEF Decided
  <2>. QED BY <2>1, NamesInSeq
<1>5. Reverse(NamesIn(r.hold)) \in Seq(Names) /\ Range(Reverse(NamesIn(r.hold))) = H
  <2>1. NamesIn(r.hold) \in Seq(Names)
    BY <1>2, NamesInDependencies
  <2>. QED BY <2>1, ReverseIn DEF HoldNames
<1>6. unheld \in Seq(Names) /\ Range(unheld) = Unheld(db, r)
  <2>1. NamesIn(r.dep) \in Seq(Names)
    BY <1>2, NamesInDependencies
  <2>2. unheld \in Seq(Names) /\ Range(unheld) = Range(NamesIn(r.dep)) \cap {n \in Names : db[n].hold_package}
    BY <2>1, ThoseIn
  <2>3. DepNames(r) \subseteq Names
    BY <1>2, HoldNamesIn
  <2>. HIDE DEF unheld
  <2>. QED BY <2>2, <2>3 DEF Unheld, DepNames
<1>. HIDE DEF unheld, H
<1>7. decided \in Fine(db, r, D, HoldNames(r), U, {})
  <2>1. s \in Plans /\ FALSE \in BOOLEAN
    BY DEF Fine
  <2>2. decided \in OrderedFrom(s)
    BY <1>3, <1>4, <2>1, FoldOrders
  <2>. HIDE DEF decided
  <2>3. decided \in Fine(db, r, D, HoldNames(r), U, {} \cup {})
    BY <2>2, OrderedFine
  <2>4. {} \cup {} = {}
    OBVIOUS
  <2>. QED BY <2>3, <2>4
<1>. HIDE DEF decided
<1>8. requested \in Fine(db, r, D, HoldNames(r), U, HoldNames(r))
  <2>1. decided \in Plans /\ TRUE \in BOOLEAN
    BY <1>7 DEF Fine
  <2>2. requested \in OrderedFrom(decided) /\ (requested.status = "ok" => H \subseteq Range(requested.list))
    BY <1>3, <1>5, <2>1, FoldOrders
  <2>. HIDE DEF requested
  <2>3. requested \in Fine(db, r, D, HoldNames(r), U, {} \cup H)
    BY <1>7, <2>2, OrderedFine
  <2>4. {} \cup H = HoldNames(r)
    BY DEF H
  <2>. QED BY <2>3, <2>4
<1>. HIDE DEF requested
<1>9. all \in Fine(db, r, D, HoldNames(r), U, HoldNames(r))
  <2>1. OrderContext(db, r, HoldNames(r))
    BY DEF OrderContext
  <2>2. KeepsFrom(OrderAllDependents(db), Fine(db, r, D, HoldNames(r), U, HoldNames(r)))
    BY <2>1, OrderAllDependentsKeeps
  <2>3. 1 \in Nat
    OBVIOUS
  <2>. QED BY <1>8, <2>2, <2>3 DEF KeepsFrom
<1>. HIDE DEF all
<1>10. result \in Fine(db, r, D, HoldNames(r), U, HoldNames(r) \cup Unheld(db, r))
  <2>1. all \in Plans /\ FALSE \in BOOLEAN
    BY <1>9 DEF Fine
  <2>2. result \in OrderedFrom(all) /\ (result.status = "ok" => Unheld(db, r) \subseteq Range(result.list))
    BY <1>3, <1>6, <2>1, FoldOrders
  <2>. HIDE DEF result
  <2>. QED BY <1>9, <2>2, OrderedFine
<1>. QED BY <1>1, <1>10

\* What is known of the decisions on dependencies.
Decide(r, decisions) ==
    /\ decisions \in Seq(Decided)
    /\ \A d \in Range(decisions) : d[2] # 0 => d[1] \in DepNames(r)

\* What a plan is refined from.
PlanContext(db, r, decisions) ==
    Context(db, r, HoldNames(r)) /\ Decide(r, decisions)

\* The plans of an iteration.
FinePlans(db, r, decisions) ==
    Fine(db, r, Range(decisions), HoldNames(r), DepNames(r), HoldNames(r) \cup Unheld(db, r))

\* The plan of an iteration is fine, whether made from scratch or from the last
\* one.
LEMMA PlannedFine ==
    ASSUME PlanContext(selected, request, deps),
           ~scratch => pkgs \in FinePlans(selected, request, deps)
    PROVE  Planned \in FinePlans(selected, request, deps)
<1>. DEFINE db == selected
            r == request
            D == Range(deps)
            H == HoldNames(r)
            U == DepNames(r)
            again == [pkgs EXCEPT !.list = <<>>]
            s0 == IF scratch THEN CollectRequest(db, r) ELSE again
            decide == [d \in Decided |-> [s \in Plans |-> CollectDecision(s, db, d)]]
            s1 == Fold(decide, s0, deps)
<1>1. Context(db, r, H) /\ deps \in Seq(Decided) /\ \A d \in D : d[2] # 0 => d[1] \in U
  BY DEF PlanContext, Decide
<1>2. Planned = IF s1.status = "ok" THEN OrderRequest(s1, db, r, deps) ELSE s1
  BY DEF Planned
<1>3. CollectRequest(db, r) \in Fine(db, r, D, H, U, {})
  BY <1>1, CollectRequestFine
<1>4. ~scratch => again \in Fine(db, r, D, H, U, {})
  <2>. SUFFICES ASSUME ~scratch PROVE again \in Fine(db, r, D, H, U, {})
    OBVIOUS
  <2>1. pkgs \in Fine(db, r, D, H, U, H \cup Unheld(db, r))
    BY DEF FinePlans
  <2>2. pkgs \in Plans /\ <<>> \in Seq(Names)
    BY <2>1 DEF Fine
  <2>3. again \in Plans /\ again.status = pkgs.status /\ again.map = pkgs.map
    BY <2>2, ListIn
  <2>. HIDE DEF again
  <2>. QED BY <2>1, <2>3 DEF Fine
<1>5. s0 \in Fine(db, r, D, H, U, {})
  BY <1>3, <1>4
<1>. HIDE DEF s0
<1>6. \A i \in 1 .. Len(deps) : deps[i] \in Decided /\ deps[i] \in D
  BY <1>1, RangeOf
<1>7. \A d \in Decided : \A s \in Plans : decide[d][s] = CollectDecision(s, db, d)
  OBVIOUS
<1>8. \A s \in Fine(db, r, D, H, U, {}) : s \in Plans
  BY DEF Fine
<1>. HIDE DEF decide, D, H, U
<1>9. \A i \in 1 .. Len(deps) : \A t \in Fine(db, r, D, H, U, {}) :
         decide[deps[i]][t] \in Fine(db, r, D, H, U, {})
  <2>1. ASSUME NEW i \in 1 .. Len(deps), NEW t \in Fine(db, r, D, H, U, {})
        PROVE  decide[deps[i]][t] \in Fine(db, r, D, H, U, {})
    <3>1. deps[i] \in Decided /\ deps[i] \in D /\ (deps[i][2] # 0 => deps[i][1] \in DepNames(r))
      BY <1>1, <1>6 DEF U
    <3>2. Context(db, r, H)
      BY <1>1
    <3>3. CollectDecision(t, db, deps[i]) \in Fine(db, r, D, H, U, {})
      BY <3>1, <3>2, CollectDecisionFine
    <3>. QED BY <1>7, <1>8, <3>1, <3>3
  <2>. QED BY <2>1
<1>10. s1 \in Fine(db, r, D, H, U, {})
  BY <1>1, <1>5, <1>9, FoldStays
<1>. HIDE DEF s1
<1>11. OrderRequest(s1, db, r, deps) \in Fine(db, r, D, HoldNames(r), U, HoldNames(r) \cup Unheld(db, r))
  BY <1>1, <1>10, OrderRequestFine DEF H
<1>12. s1.status # "ok" => s1 \in Fine(db, r, D, HoldNames(r), U, HoldNames(r) \cup Unheld(db, r))
  BY <1>10, FineList DEF H
<1>. QED BY <1>2, <1>11, <1>12 DEF FinePlans, D, U
-----------------------------------------------------------------------------
(***************************************************************************)
(* The transactions keep databases good.                                   *)
(***************************************************************************)

\* The dependents of a package are configured, and so is it.
LEMMA DependentsIn ==
    ASSUME NEW db, GoodDatabase(db), NEW n \in Names, NEW m \in Dependents(db, n)
    PROVE  Configured(db, m) /\ Configured(db, n)
<1>1. m \in Names /\ \E d \in db[m].prerequisites : d[1] = n
  BY DEF Dependents, PrerequisitesOf
<1>2. Configured(db, m)
  BY <1>1 DEF GoodDatabase, GoodPackage, Configured
<1>. QED BY <1>1, <1>2 DEF GoodDatabase, Standing

\* The record of a package is replaced: nothing depends on it, or it stays what
\* it is for its dependents.
Replaced(db, n, e) == [db EXCEPT ![n] = e]

Replaceable(db, n, e) ==
    /\ GoodPackage(e)
    /\ \/ Dependents(db, n) = {}
       \/ e.state = db[n].state /\ e.version = db[n].version /\ e.prerequisites = db[n].prerequisites
    /\ e.state = "configured" =>
          /\ e.prerequisites = Range(DependenciesOf(n, e.version))
          /\ \A d \in e.prerequisites : Configured(db, d[1]) /\ db[d[1]].version \in d[2]
          /\ Configured(db, n) => e.version = db[n].version

\* Replacing such a record keeps the database good.
LEMMA ReplacedGood ==
    ASSUME NEW db, GoodDatabase(db), NEW n \in Names, NEW e, Replaceable(db, n, e)
    PROVE  /\ GoodDatabase(Replaced(db, n, e)) /\ Replaced(db, n, e)[n] = e
           /\ \A m \in Names : m # n => Replaced(db, n, e)[m] = db[m]
<1>. DEFINE new == [db EXCEPT ![n] = e]
<1>0. db \in [Names -> Packages] /\ e \in Packages
  BY DEF GoodDatabase, GoodPackage, Databases, Replaceable
<1>1. new \in Databases /\ new[n] = e /\ \A m \in Names : m # n => new[m] = db[m]
  BY <1>0 DEF Databases
<1>. HIDE DEF new
<1>2. \A m \in Names : GoodPackage(new[m])
  BY <1>1 DEF GoodDatabase, Replaceable
<1>3. ASSUME NEW m \in Names, Configured(new, m)
      PROVE  /\ new[m].prerequisites = Range(DependenciesOf(m, new[m].version))
             /\ \A d \in new[m].prerequisites : Configured(new, d[1]) /\ new[d[1]].version \in d[2]
  <2>1. new[m].prerequisites = Range(DependenciesOf(m, new[m].version))
    <3>1. CASE m = n
      BY <1>1, <1>3, <3>1 DEF Configured, Replaceable
    <3>2. CASE m # n
      BY <1>1, <1>3, <3>2 DEF Configured, GoodDatabase, Standing
    <3>. QED BY <3>1, <3>2
  <2>2. ASSUME NEW d \in new[m].prerequisites PROVE Configured(db, d[1]) /\ db[d[1]].version \in d[2]
    <3>1. CASE m = n
      BY <1>1, <1>3, <2>2, <3>1 DEF Configured, Replaceable
    <3>2. CASE m # n
      BY <1>1, <1>3, <2>2, <3>2 DEF Configured, GoodDatabase, Standing
    <3>. QED BY <3>1, <3>2
  <2>3. ASSUME NEW d \in new[m].prerequisites PROVE Configured(new, d[1]) /\ new[d[1]].version \in d[2]
    <3>0. d[1] \in Names
      <4>1. new[m] \in Packages
        BY <1>2 DEF GoodPackage
      <4>2. d \in Dependencies
        BY <4>1 DEF Packages
      <4>. QED BY <4>2, DependencyIn
    <3>1. CASE d[1] # n
      BY <1>1, <2>2, <3>0, <3>1 DEF Configured
    <3>2. CASE d[1] = n /\ m # n
      <4>1. m \in Dependents(db, n)
        BY <1>1, <2>3, <3>2 DEF Dependents, PrerequisitesOf
      <4>2. e.state = db[n].state /\ e.version = db[n].version
        BY <4>1 DEF Replaceable
      <4>. QED BY <1>1, <2>2, <3>2, <4>2 DEF Configured
    <3>3. CASE d[1] = n /\ m = n
      <4>1. Configured(db, n) /\ db[n].version \in d[2] /\ e.state = "configured"
        BY <1>1, <1>3, <2>2, <3>3 DEF Configured
      <4>2. e.version = db[n].version
        BY <4>1 DEF Replaceable
      <4>. QED BY <1>1, <3>3, <4>1, <4>2 DEF Configured
    <3>. QED BY <3>1, <3>2, <3>3
  <2>. QED BY <2>1, <2>3
<1>4. Standing(new)
  BY <1>3 DEF Standing
<1>. QED BY <1>1, <1>2, <1>4 DEF GoodDatabase, new, Replaced

\* The record of a package.
LEMMA PackageIn ==
    ASSUME NEW db, GoodDatabase(db), NEW n \in Names
    PROVE  /\ GoodPackage(db[n]) /\ db[n] \in Packages /\ db[n].version \in Versions \cup {0}
           /\ db[n].state \in {"none", "fetched", "unpacked", "configured"}
           /\ db[n].prerequisites \in SUBSET Dependencies
BY DEF GoodDatabase, GoodPackage, Packages

\* pkg_disfigure() keeps the database good: nothing depends on the package.
LEMMA DisfiguredGood ==
    ASSUME NEW db, GoodDatabase(db), NEW n \in Names, Configured(db, n), MayDisfigure(db, n)
    PROVE  /\ GoodDatabase(Disfigured(db, n)) /\ \A m \in Names : m # n => Disfigured(db, n)[m] = db[m]
           /\ Disfigured(db, n)[n].version = db[n].version
           /\ Disfigured(db, n)[n].hold_package = db[n].hold_package
           /\ Disfigured(db, n)[n].hold_version = db[n].hold_version
<1>. DEFINE e == [db[n] EXCEPT !.state = "unpacked", !.prerequisites = {}]
<1>0. db[n] \in Packages /\ GoodPackage(db[n]) /\ db[n].state = "configured" /\ db \in Databases
  BY PackageIn DEF Configured, GoodDatabase
<1>1. /\ e \in Packages /\ e.state = "unpacked" /\ e.prerequisites = {} /\ e.version = db[n].version
      /\ e.hold_package = db[n].hold_package /\ e.hold_version = db[n].hold_version
  BY <1>0 DEF Packages
<1>2. GoodPackage(e)
  BY <1>0, <1>1 DEF GoodPackage
<1>3. Disfigured(db, n) = Replaced(db, n, e)
  BY <1>0 DEF Disfigured, Databases, Replaced
<1>. HIDE DEF e
<1>4. Replaceable(db, n, e)
  BY <1>1, <1>2 DEF MayDisfigure, Replaceable
<1>. QED BY <1>1, <1>3, <1>4, ReplacedGood

\* What a transaction for the entry p of n may make of db.
LeadsTo(db, new, n, p) ==
    /\ GoodDatabase(new)
    /\ \A m \in Names : m # n => new[m] = db[m]
    /\ new[n].hold_version => db[n].hold_version
    /\ \/ new[n].version = db[n].version
       \/ p.action = "build" /\ new[n].version = p.available
       \/ p.action = "drop"
    /\ p.action # "drop" => new[n].hold_package = db[n].hold_package

\* Nothing depends on a package that is not configured.
LEMMA NoDependents ==
    ASSUME NEW db, GoodDatabase(db), NEW n \in Names, ~Configured(db, n)
    PROVE  Dependents(db, n) = {}
BY DependentsIn

\* pkg_purge() keeps the database good.
LEMMA PurgedGood ==
    ASSUME NEW db, GoodDatabase(db), NEW n \in Names, ~Configured(db, n), NEW p, p.action = "drop"
    PROVE  LeadsTo(db, Purged(db, n), n, p) /\ Purged(db, n)[n].state = "none"
<1>1. GoodPackage(NotSelected) /\ NotSelected.state = "none" /\ ~NotSelected.hold_version
  BY DEF GoodPackage, NotSelected, Packages
<1>2. Replaceable(db, n, NotSelected)
  BY <1>1, NoDependents DEF Replaceable
<1>3. Purged(db, n) = Replaced(db, n, NotSelected)
  BY DEF Purged, Replaced
<1>. QED BY <1>1, <1>2, <1>3, ReplacedGood DEF LeadsTo

\* pkg_fetch() keeps the database good.
LEMMA FetchedGood ==
    ASSUME NEW db, GoodDatabase(db), NEW n \in Names, ~Configured(db, n),
           NEW p, p.action = "build", p.available \in Versions
    PROVE  /\ LeadsTo(db, Fetched(db, n, p.available), n, p)
           /\ Fetched(db, n, p.available)[n].state = "fetched"
           /\ Fetched(db, n, p.available)[n].version = p.available
<1>. DEFINE v == p.available
            e == [db[n] EXCEPT !.state = "fetched", !.version = v]
<1>0. /\ db[n] \in Packages /\ GoodPackage(db[n]) /\ db[n].state # "configured" /\ db \in Databases
      /\ v \in Versions /\ v # 0
  BY PackageIn, ConstantFacts DEF Configured, GoodDatabase
<1>. HIDE DEF v
<1>1. /\ e \in Packages /\ e.state = "fetched" /\ e.prerequisites = db[n].prerequisites /\ e.version = v
      /\ e.hold_package = db[n].hold_package /\ e.hold_version = db[n].hold_version
  BY <1>0 DEF Packages
<1>2. GoodPackage(e)
  BY <1>0, <1>1 DEF GoodPackage
<1>3. Fetched(db, n, v) = Replaced(db, n, e)
  BY <1>0 DEF Fetched, Databases, Replaced
<1>. HIDE DEF e
<1>4. Replaceable(db, n, e)
  BY <1>1, <1>2, NoDependents DEF Replaceable
<1>5. /\ GoodDatabase(Replaced(db, n, e)) /\ Replaced(db, n, e)[n] = e
      /\ \A m \in Names : m # n => Replaced(db, n, e)[m] = db[m]
  BY <1>4, ReplacedGood
<1>. QED BY <1>1, <1>3, <1>5 DEF LeadsTo, v

\* pkg_unpack() keeps the database good.
LEMMA UnpackedGood ==
    ASSUME NEW db, GoodDatabase(db), NEW n \in Names, db[n].state = "fetched", NEW p
    PROVE  /\ LeadsTo(db, Unpacked(db, n), n, p)
           /\ Unpacked(db, n)[n].state = "unpacked" /\ Unpacked(db, n)[n].version = db[n].version
<1>. DEFINE e == [db[n] EXCEPT !.state = "unpacked"]
<1>0. db[n] \in Packages /\ GoodPackage(db[n]) /\ ~Configured(db, n) /\ db \in Databases
  BY PackageIn DEF Configured, GoodDatabase
<1>1. /\ e \in Packages /\ e.state = "unpacked" /\ e.prerequisites = db[n].prerequisites
      /\ e.version = db[n].version
      /\ e.hold_package = db[n].hold_package /\ e.hold_version = db[n].hold_version
  BY <1>0 DEF Packages
<1>2. GoodPackage(e)
  BY <1>0, <1>1 DEF GoodPackage
<1>3. Unpacked(db, n) = Replaced(db, n, e)
  BY <1>0 DEF Unpacked, Databases, Replaced
<1>. HIDE DEF e
<1>4. Replaceable(db, n, e)
  BY <1>0, <1>1, <1>2, NoDependents DEF Replaceable
<1>5. /\ GoodDatabase(Replaced(db, n, e)) /\ Replaced(db, n, e)[n] = e
      /\ \A m \in Names : m # n => Replaced(db, n, e)[m] = db[m]
  BY <1>4, ReplacedGood
<1>. QED BY <1>1, <1>3, <1>5 DEF LeadsTo

\* pkg_configure() keeps the database good: it checks the prerequisites.
LEMMA ConfiguredNowGood ==
    ASSUME NEW db, GoodDatabase(db), NEW n \in Names, db[n].state = "unpacked", MayConfigure(db, n), NEW p
    PROVE  /\ LeadsTo(db, ConfiguredNow(db, n), n, p)
           /\ ConfiguredNow(db, n)[n].state = "configured"
           /\ ConfiguredNow(db, n)[n].version = db[n].version
<1>. DEFINE q == Range(DependenciesOf(n, db[n].version))
            e == [db[n] EXCEPT !.state = "configured", !.prerequisites = q]
<1>0. /\ db[n] \in Packages /\ GoodPackage(db[n]) /\ ~Configured(db, n) /\ db \in Databases
      /\ db[n].version # 0
  BY PackageIn DEF Configured, GoodDatabase, GoodPackage
<1>1. q \in SUBSET Dependencies /\ \A d \in q : Configured(db, d[1]) /\ db[d[1]].version \in d[2]
  <2>1. DependenciesOf(n, db[n].version) \in Seq(Dependencies)
    BY ConstantFacts
  <2>. QED BY <2>1, RangeOf DEF MayConfigure
<1>2. ConfiguredNow(db, n) = Replaced(db, n, e)
  BY <1>0 DEF ConfiguredNow, Databases, Replaced
<1>3. q = Range(DependenciesOf(n, db[n].version))
  OBVIOUS
<1>. HIDE DEF q
<1>4. /\ e \in Packages /\ e.state = "configured" /\ e.prerequisites = q
      /\ e.version = db[n].version
      /\ e.hold_package = db[n].hold_package /\ e.hold_version = db[n].hold_version
  BY <1>0, <1>1 DEF Packages
<1>5. GoodPackage(e)
  BY <1>0, <1>4 DEF GoodPackage
<1>. HIDE DEF e
<1>6. Replaceable(db, n, e)
  BY <1>0, <1>1, <1>3, <1>4, <1>5, NoDependents DEF Replaceable
<1>7. /\ GoodDatabase(Replaced(db, n, e)) /\ Replaced(db, n, e)[n] = e
      /\ \A m \in Names : m # n => Replaced(db, n, e)[m] = db[m]
  BY <1>6, ReplacedGood
<1>. QED BY <1>2, <1>4, <1>7 DEF LeadsTo

\* The hold state that an entry calls for.
HoldPackageOf(p, before) ==
    IF p.unhold THEN FALSE ELSE IF p.hold_package = Null THEN before ELSE p.hold_package = True

\* Updating the hold state keeps the database good.
LEMMA HoldStateGood ==
    ASSUME NEW db, GoodDatabase(db), NEW n \in Names, db[n].state # "none", NEW p
    PROVE  /\ GoodDatabase(HoldState(db, n, p))
           /\ \A m \in Names : m # n => HoldState(db, n, p)[m] = db[m]
           /\ HoldState(db, n, p)[n].state = db[n].state
           /\ HoldState(db, n, p)[n].version = db[n].version
           /\ HoldState(db, n, p)[n].hold_package = HoldPackageOf(p, db[n].hold_package)
           /\ p.hold_version = Null => HoldState(db, n, p)[n].hold_version = db[n].hold_version
<1>0. /\ db[n] \in Packages /\ GoodPackage(db[n]) /\ db \in Databases
      /\ db[n].hold_package \in BOOLEAN /\ db[n].hold_version \in BOOLEAN
  BY PackageIn DEF GoodDatabase, Packages
<1>1. PICK hp \in BOOLEAN : hp = HoldPackageOf(p, db[n].hold_package)
  BY <1>0 DEF HoldPackageOf
<1>2. PICK hv \in BOOLEAN : hv = IF p.hold_version = Null THEN db[n].hold_version ELSE p.hold_version = True
  BY <1>0
<1>. DEFINE e == [db[n] EXCEPT !.hold_package = hp, !.hold_version = hv]
<1>3. HoldState(db, n, p) = Replaced(db, n, e)
  <2>1. e = [db[n] EXCEPT !.hold_package = IF p.unhold THEN FALSE
                                   ELSE IF p.hold_package = Null THEN @ ELSE p.hold_package = True,
                          !.hold_version = IF p.hold_version = Null THEN @ ELSE p.hold_version = True]
    BY <1>1, <1>2 DEF HoldPackageOf
  <2>. HIDE DEF e
  <2>. QED BY <1>0, <2>1 DEF HoldState, Databases, Replaced
<1>4. /\ e \in Packages /\ e.state = db[n].state /\ e.prerequisites = db[n].prerequisites
      /\ e.version = db[n].version /\ e.hold_package = hp /\ e.hold_version = hv
  BY <1>0 DEF Packages
<1>5. GoodPackage(e)
  BY <1>0, <1>4 DEF GoodPackage
<1>. HIDE DEF e
<1>6. Replaceable(db, n, e)
  BY <1>0, <1>4, <1>5 DEF Replaceable, GoodDatabase, Standing, Configured
<1>7. /\ GoodDatabase(Replaced(db, n, e)) /\ Replaced(db, n, e)[n] = e
      /\ \A m \in Names : m # n => Replaced(db, n, e)[m] = db[m]
  BY <1>6, ReplacedGood
<1>. QED BY <1>1, <1>2, <1>3, <1>4, <1>7
-----------------------------------------------------------------------------
(***************************************************************************)
(* The transactions of a build.                                            *)
(***************************************************************************)
LEMMA LeadsToItself ==
    ASSUME NEW db, GoodDatabase(db), NEW n, NEW p
    PROVE  LeadsTo(db, db, n, p)
BY DEF LeadsTo

\* What one transaction after the other may make of the database.
LEMMA LeadsToTransitive ==
    ASSUME NEW a, NEW b, NEW c, NEW n, NEW p, LeadsTo(a, b, n, p), LeadsTo(b, c, n, p)
    PROVE  LeadsTo(a, c, n, p)
BY DEF LeadsTo

\* The transactions of the second pass.
Transactions == {"purge", "fetch", "unpack", "configure"}

\* What is to be done after a transaction.
After(todo) == IF todo = "fetch" THEN "unpack" ELSE IF todo = "unpack" THEN "configure" ELSE "nothing"

\* The next transaction fits the entry and the state of the package.
LEMMA TodoIn ==
    ASSUME NEW db, NEW n, NEW p
    PROVE  /\ Todo(db, n, p) \in Transactions \cup {"nothing", "assertion"}
           /\ Todo(db, n, p) = "purge" => p.action = "drop"
           /\ Todo(db, n, p) = "fetch" => p.action = "build"
           /\ Todo(db, n, p) = "unpack" =>
                 p.action = "build" /\ db[n].version = p.available /\ db[n].state = "fetched"
           /\ Todo(db, n, p) = "configure" =>
                 /\ db[n].state = "unpacked" /\ p.action # "drop"
                 /\ p.action = "build" => db[n].version = p.available
           /\ Todo(db, n, p) = "nothing" =>
                 /\ p.action = "drop" => db[n].state = "none"
                 /\ p.action # "drop" => Configured(db, n)
                 /\ p.action = "build" => db[n].version = p.available
<1>1. CASE p.action = "drop"
  BY <1>1 DEF Todo, Transactions
<1>2. CASE p.action = "build"
  BY <1>2 DEF Todo, Transactions, Configured
<1>3. CASE p.action \notin {"drop", "build"}
  BY <1>3 DEF Todo, Transactions, Configured
<1>. QED BY <1>1, <1>2, <1>3

\* A transaction that is not refused leads to a good database and to the next
\* one.
LEMMA DidGood ==
    ASSUME NEW db, GoodDatabase(db), NEW n \in Names, NEW p, p.action = "build" => p.available \in Versions,
           Todo(db, n, p) \in Transactions, ~Refused(db, n, Todo(db, n, p))
    PROVE  /\ LeadsTo(db, Did(db, n, p, Todo(db, n, p)), n, p)
           /\ Todo(Did(db, n, p, Todo(db, n, p)), n, p) = After(Todo(db, n, p))
<1>. DEFINE todo == Todo(db, n, p)
            new == Did(db, n, p, todo)
<1>0. todo = Todo(db, n, p)
  OBVIOUS
<1>. HIDE DEF todo
<1>1. CASE todo = "purge"
  <2>1. ~Configured(db, n) /\ p.action = "drop"
    BY <1>0, <1>1, TodoIn DEF Refused
  <2>2. new = Purged(db, n)
    BY <1>1 DEF Did
  <2>3. LeadsTo(db, new, n, p) /\ new[n].state = "none"
    BY <2>1, <2>2, PurgedGood
  <2>4. Todo(new, n, p) = "nothing"
    BY <2>1, <2>3 DEF Todo
  <2>. QED BY <1>0, <1>1, <2>3, <2>4 DEF After
<1>2. CASE todo = "fetch"
  <2>1. ~Configured(db, n) /\ p.action = "build" /\ p.available \in Versions
    BY <1>0, <1>2, TodoIn DEF Refused
  <2>2. new = Fetched(db, n, p.available)
    BY <1>2 DEF Did
  <2>3. LeadsTo(db, new, n, p) /\ new[n].state = "fetched" /\ new[n].version = p.available
    BY <2>1, <2>2, FetchedGood
  <2>4. Todo(new, n, p) = "unpack"
    BY <2>1, <2>3 DEF Todo
  <2>. QED BY <1>0, <1>2, <2>3, <2>4 DEF After
<1>3. CASE todo = "unpack"
  <2>1. p.action = "build" /\ db[n].version = p.available /\ db[n].state = "fetched"
    BY <1>0, <1>3, TodoIn
  <2>2. new = Unpacked(db, n)
    BY <1>3 DEF Did
  <2>3. LeadsTo(db, new, n, p) /\ new[n].state = "unpacked" /\ new[n].version = p.available
    BY <2>1, <2>2, UnpackedGood
  <2>4. Todo(new, n, p) = "configure"
    BY <2>1, <2>3 DEF Todo, Configured
  <2>. QED BY <1>0, <1>3, <2>3, <2>4 DEF After
<1>4. CASE todo = "configure"
  <2>1. /\ db[n].state = "unpacked" /\ p.action # "drop" /\ MayConfigure(db, n)
        /\ p.action = "build" => db[n].version = p.available
    BY <1>0, <1>4, TodoIn DEF Refused
  <2>2. new = ConfiguredNow(db, n)
    BY <1>4 DEF Did
  <2>3. LeadsTo(db, new, n, p) /\ new[n].state = "configured" /\ new[n].version = db[n].version
    BY <2>1, <2>2, ConfiguredNowGood
  <2>4. Todo(new, n, p) = "nothing"
    BY <2>1, <2>3 DEF Todo, Configured
  <2>. QED BY <1>0, <1>4, <2>3, <2>4 DEF After
<1>. QED BY <1>0, <1>1, <1>2, <1>3, <1>4 DEF Transactions

\* The simulations with good databases, unless they have failed.
GoodSimulations == {x \in Simulations : x.status = "ok" => GoodDatabase(x.db)}

\* The parts of a simulation.
LEMMA SimulationIn ==
    ASSUME NEW x \in Simulations
    PROVE  /\ \A status \in Statuses :
                 Stopped(x, status) \in Simulations /\ Stopped(x, status).status = status
           /\ \A db \in Databases :
                 /\ [x EXCEPT !.db = db] \in Simulations
                 /\ [x EXCEPT !.db = db].db = db /\ [x EXCEPT !.db = db].status = x.status
BY DEF Simulations, Stopped

\* Nothing is asked of the database of a simulation that has stopped.
LEMMA StoppedGood ==
    ASSUME NEW x \in Simulations, NEW status \in {"refused", "assertion"}
    PROVE  Stopped(x, status) \in GoodSimulations /\ Stopped(x, status).status # "ok"
BY SimulationIn DEF GoodSimulations, Statuses

\* The entries of a plan that is fine.
FineEntry(p) == p \in Entries /\ (p.action = "build" => p.available # 0)

\* One step of the simulation: what it is if it does not fail.
Happens(x, y, n, p) ==
    /\ Todo(x.db, n, p) \in Transactions /\ ~Refused(x.db, n, Todo(x.db, n, p))
    /\ y = [x EXCEPT !.db = Did(x.db, n, p, Todo(x.db, n, p))]
    /\ y.db = Did(x.db, n, p, Todo(x.db, n, p))
    /\ LeadsTo(x.db, y.db, n, p)
    /\ Todo(y.db, n, p) = After(Todo(x.db, n, p))

\* One transaction in the simulation, unless it fails.
LEMMA TransactionGood ==
    ASSUME NEW x \in GoodSimulations, NEW n \in Names, NEW p, FineEntry(p)
    PROVE  /\ SimulateTransaction(n, p)[x] \in GoodSimulations
           /\ SimulateTransaction(n, p)[x].status = "ok" =>
                /\ x.status = "ok"
                /\ Todo(x.db, n, p) = "nothing" => SimulateTransaction(n, p)[x] = x
                /\ Todo(x.db, n, p) # "nothing" => Happens(x, SimulateTransaction(n, p)[x], n, p)
<1>. DEFINE todo == Todo(x.db, n, p)
            new == Did(x.db, n, p, todo)
            moved == [x EXCEPT !.db = new]
            y == SimulateTransaction(n, p)[x]
<1>1. x \in Simulations
  BY DEF GoodSimulations
<1>2. y = IF x.status # "ok" \/ todo = "nothing" THEN x
          ELSE IF todo = "assertion" THEN Stopped(x, "assertion")
          ELSE IF Refused(x.db, n, todo) THEN Stopped(x, "refused")
          ELSE moved
  BY <1>1 DEF SimulateTransaction
<1>3. todo \in Transactions \cup {"nothing", "assertion"}
  BY TodoIn
<1>. HIDE DEF y
<1>4. CASE x.status # "ok" \/ todo = "nothing"
  <2>1. y = x
    BY <1>2, <1>4
  <2>. QED BY <1>4, <2>1 DEF y
<1>5. CASE x.status = "ok" /\ todo = "assertion"
  <2>1. y = Stopped(x, "assertion")
    BY <1>2, <1>5
  <2>. QED BY <1>1, <2>1, StoppedGood DEF y
<1>6. CASE x.status = "ok" /\ todo \in Transactions /\ Refused(x.db, n, todo)
  <2>1. y = Stopped(x, "refused")
    BY <1>2, <1>6 DEF Transactions
  <2>. QED BY <1>1, <2>1, StoppedGood DEF y
<1>7. CASE x.status = "ok" /\ todo \in Transactions /\ ~Refused(x.db, n, todo)
  <2>1. y = moved
    BY <1>2, <1>7 DEF Transactions
  <2>2. GoodDatabase(x.db)
    BY <1>7 DEF GoodSimulations
  <2>3. p.action = "build" => p.available \in Versions
    BY DEF FineEntry, Entries
  <2>4. LeadsTo(x.db, new, n, p) /\ Todo(new, n, p) = After(todo)
    BY <1>7, <2>2, <2>3, DidGood
  <2>5. new \in Databases /\ GoodDatabase(new)
    BY <2>4 DEF LeadsTo, GoodDatabase
  <2>6. moved \in Simulations /\ moved.db = new /\ moved.status = x.status
    BY <1>1, <2>5, SimulationIn
  <2>7. moved \in GoodSimulations
    BY <2>5, <2>6 DEF GoodSimulations
  <2>8. Happens(x, moved, n, p)
    BY <1>7, <2>4, <2>6 DEF Happens
  <2>9. todo # "nothing"
    BY <1>7 DEF Transactions
  <2>. QED BY <1>7, <2>1, <2>7, <2>8, <2>9 DEF y
<1>. QED BY <1>3, <1>4, <1>5, <1>6, <1>7

\* The states between the transactions for a package.
Between(n, p, x) ==
    LET transaction == SimulateTransaction(n, p)
    IN  {x, transaction[x], transaction[transaction[x]], SimulateBuild(x, n, p)}

\* All the transactions for a package in the simulation: none is left after
\* three.
LEMMA BuildGood ==
    ASSUME NEW x \in GoodSimulations, NEW n \in Names, NEW p, FineEntry(p)
    PROVE  /\ SimulateBuild(x, n, p) \in GoodSimulations
           /\ SimulateBuild(x, n, p).status = "ok" =>
                /\ x.status = "ok" /\ LeadsTo(x.db, SimulateBuild(x, n, p).db, n, p)
                /\ Todo(SimulateBuild(x, n, p).db, n, p) = "nothing"
                /\ \A y \in Between(n, p, x) :
                      /\ y \in GoodSimulations /\ y.status = "ok"
                      /\ LeadsTo(x.db, y.db, n, p)
                      /\ Todo(y.db, n, p) = "nothing" => y = SimulateBuild(x, n, p)
                      /\ Todo(y.db, n, p) # "nothing" =>
                            \E z \in Between(n, p, x) : Happens(y, z, n, p)
<1>. DEFINE f == SimulateTransaction(n, p)
            a == f[x]
            b == f[a]
            c == f[b]
<1>1. SimulateBuild(x, n, p) = c
  BY DEF SimulateBuild
<1>2. Between(n, p, x) = {x, a, b, c}
  BY <1>1 DEF Between
<1>3. \A s \in GoodSimulations :
         /\ f[s] \in GoodSimulations
         /\ f[s].status = "ok" =>
                /\ s.status = "ok"
                /\ Todo(s.db, n, p) = "nothing" => f[s] = s
                /\ Todo(s.db, n, p) # "nothing" => Happens(s, f[s], n, p)
  BY TransactionGood
<1>. HIDE DEF f
<1>4. a \in GoodSimulations /\ b \in GoodSimulations /\ c \in GoodSimulations
  BY <1>3
<1>5. ASSUME c.status = "ok"
      PROVE  /\ x.status = "ok" /\ LeadsTo(x.db, c.db, n, p) /\ Todo(c.db, n, p) = "nothing"
             /\ \A y \in {x, a, b, c} :
                  /\ y \in GoodSimulations /\ y.status = "ok"
                  /\ LeadsTo(x.db, y.db, n, p)
                  /\ Todo(y.db, n, p) = "nothing" => y = c
                  /\ Todo(y.db, n, p) # "nothing" => \E z \in {x, a, b, c} : Happens(y, z, n, p)
  <2>1. x.status = "ok" /\ a.status = "ok" /\ b.status = "ok"
    BY <1>3, <1>4, <1>5
  <2>2. /\ Todo(x.db, n, p) = "nothing" => a = x
        /\ Todo(x.db, n, p) # "nothing" => Happens(x, a, n, p)
        /\ Todo(a.db, n, p) = "nothing" => b = a
        /\ Todo(a.db, n, p) # "nothing" => Happens(a, b, n, p)
        /\ Todo(b.db, n, p) = "nothing" => c = b
        /\ Todo(b.db, n, p) # "nothing" => Happens(b, c, n, p)
    BY <1>3, <1>4, <1>5, <2>1
  <2>. HIDE DEF a, b, c
  <2>3. GoodDatabase(x.db) /\ LeadsTo(x.db, x.db, n, p)
    BY <2>1, LeadsToItself DEF GoodSimulations
  <2>4. LeadsTo(x.db, a.db, n, p)
    BY <2>2, <2>3 DEF Happens
  <2>5. LeadsTo(x.db, b.db, n, p)
    BY <2>2, <2>4, LeadsToTransitive DEF Happens
  <2>6. LeadsTo(x.db, c.db, n, p)
    BY <2>2, <2>5, LeadsToTransitive DEF Happens
  <2>7. Todo(c.db, n, p) = "nothing"
    BY <2>2 DEF Happens, After, Transactions
  <2>8. \A y \in {x, a, b, c} : Todo(y.db, n, p) = "nothing" => y = c
    BY <2>2
  <2>9. \A y \in {x, a, b, c} : Todo(y.db, n, p) # "nothing" => \E z \in {x, a, b, c} : Happens(y, z, n, p)
    BY <2>2, <2>7
  <2>. QED BY <1>4, <1>5, <2>1, <2>3, <2>4, <2>5, <2>6, <2>7, <2>8, <2>9
<1>. HIDE DEF a, b, c
<1>. QED BY <1>1, <1>2, <1>4, <1>5
-----------------------------------------------------------------------------
(***************************************************************************)
(* The simulation of a plan.                                               *)
(***************************************************************************)

\* If the steps lead from each of the sets to the next, so does the way.
LEMMA WayReaches ==
    ASSUME NEW F, NEW s, NEW E, NEW seq \in Seq(E), NEW w, IsWay(w, F, s, seq), NEW Q, s \in Q[0],
           \A i \in 1 .. Len(seq) : \A t \in Q[i - 1] : F[seq[i]][t] \in Q[i]
    PROVE  \A i \in 0 .. Len(seq) : w[i] \in Q[i]
<1>. DEFINE n == Len(seq)
            T == {i \in 0 .. n : w[i] \in Q[i]}
<1>2. n \in Nat
  OBVIOUS
<1>3. 0 \in T
  BY <1>2 DEF IsWay
<1>4. ASSUME NEW i \in 1 .. n, i - 1 \in T PROVE i \in T
  <2>1. w[i - 1] \in Q[i - 1] /\ i \in 0 .. n
    BY <1>2, <1>4
  <2>2. w[i] = F[seq[i]][w[i - 1]]
    BY DEF IsWay
  <2>. QED BY <2>1, <2>2
<1>. HIDE DEF T
<1>. HIDE DEF n
<1>5. \A i \in 1 .. n : i - 1 \in T => i \in T
  BY <1>4
<1>6. \A i \in 0 .. n : i \in T
  BY <1>2, <1>3, <1>5, InductionUpTo
<1>. QED BY <1>6 DEF T, n

\* What has not failed at the end has not failed on the way.
LEMMA WayOk ==
    ASSUME NEW n \in Nat, NEW w, w[n].status = "ok",
           \A i \in 1 .. n : w[i].status = "ok" => w[i - 1].status = "ok"
    PROVE  \A i \in 0 .. n : w[i].status = "ok"
<1>. DEFINE T == {k \in 0 .. n : w[n - k].status = "ok"}
<1>1. 0 \in T
  OBVIOUS
<1>2. ASSUME NEW k \in 1 .. n, k - 1 \in T PROVE k \in T
  <2>1. w[n - (k - 1)].status = "ok" /\ n - (k - 1) \in 1 .. n /\ n - (k - 1) - 1 = n - k
    BY <1>2
  <2>2. w[n - k].status = "ok"
    BY <2>1
  <2>. QED BY <2>2
<1>. HIDE DEF T
<1>3. \A k \in 0 .. n : k \in T
  BY <1>1, <1>2, InductionUpTo
<1>4. ASSUME NEW i \in 0 .. n PROVE w[i].status = "ok"
  <2>1. n - i \in T /\ n - (n - i) = i
    BY <1>3
  <2>. QED BY <2>1 DEF T
<1>. QED BY <1>4

\* The databases on the way from before.
Sensible(s, before, r, db) ==
    /\ GoodDatabase(db)
    /\ \A n \in Names \ Asked(r) : Bystander(db, n, s.map[n])
    /\ \A n \in Names \ Range(s.list) : db[n] = before[n]

\* The hold state of the packages is as before, or as planned.
HeldBefore(s, before, db) ==
    \A n \in Names : s.map[n].action # "drop" => db[n].hold_package = before[n].hold_package

\* The hold state of the package is as planned.
HeldAsPlanned(s, before, db, n) ==
    s.map[n].action # "drop" => db[n].hold_package = HoldPackageOf(s.map[n], before[n].hold_package)

\* The hold state of every package is as before or as planned.
HeldBeforeOrAsPlanned(s, before, db) ==
    \A n \in Names : s.map[n].action # "drop" =>
        db[n].hold_package \in {before[n].hold_package, HoldPackageOf(s.map[n], before[n].hold_package)}

\* Nothing is left to be done for a package.
Finished(s, db, n) == Todo(db, n, s.map[n]) = "nothing"

\* What the simulation needs of a plan.
SoundPlan(s, r) ==
    /\ s \in Plans
    /\ \A n \in Names : FineEntry(s.map[n])
    /\ \A n \in Names \ Asked(r) : s.map[n].hold_package = Null /\ s.map[n].hold_version = Null

\* A plan that is fine is one that the simulation can do.
LEMMA FinePlanSound ==
    ASSUME NEW db, NEW r, NEW D, NEW H, NEW U, NEW R, NEW s \in Fine(db, r, D, H, U, R), s.status = "ok"
    PROVE  SoundPlan(s, r)
<1>1. s \in Plans /\ \A n \in Names : s.map[n] \in Entries /\ EntryFine(db, r, D, H, U, n, s.map[n])
  BY PlanIn DEF Fine
<1>. QED BY <1>1 DEF SoundPlan, FineEntry, EntryFine, Bystander

\* A transaction is sensible.
LEMMA StepSensible ==
    ASSUME NEW r, NEW s, SoundPlan(s, r), NEW before, NEW db, Sensible(s, before, r, db),
           NEW n \in Names, n \in Range(s.list), NEW new, LeadsTo(db, new, n, s.map[n])
    PROVE  /\ Sensible(s, before, r, new)
           /\ HeldBefore(s, before, db) => HeldBefore(s, before, new)
<1>1. ASSUME NEW m \in Names \ Asked(r) PROVE Bystander(new, m, s.map[m])
  <2>1. Bystander(db, m, s.map[m])
    BY DEF Sensible
  <2>2. CASE m # n
    BY <2>1, <2>2 DEF LeadsTo, Bystander
  <2>3. CASE m = n
    BY <2>1, <2>3 DEF LeadsTo, Bystander
  <2>. QED BY <2>2, <2>3
<1>2. \A m \in Names \ Range(s.list) : new[m] = before[m]
  BY DEF LeadsTo, Sensible
<1>3. Sensible(s, before, r, new)
  BY <1>1, <1>2 DEF Sensible, LeadsTo
<1>4. ASSUME HeldBefore(s, before, db) PROVE HeldBefore(s, before, new)
  BY <1>4 DEF HeldBefore, LeadsTo
<1>. QED BY <1>3, <1>4

\* The simulations, unless they have failed, while packages are disfigured, when
\* those in done have been built, and when the hold state of those in done has been updated.
Disfiguring(s, before, r) ==
    {x \in Simulations : x.status = "ok" => Sensible(s, before, r, x.db) /\ HeldBefore(s, before, x.db)}

Building(s, before, r, done) ==
    {x \in Disfiguring(s, before, r) : x.status = "ok" => \A n \in done : Finished(s, x.db, n)}

Holding(s, before, r, done) ==
    {x \in Simulations : x.status = "ok" =>
        /\ Sensible(s, before, r, x.db) /\ HeldBeforeOrAsPlanned(s, before, x.db)
        /\ \A n \in Range(s.list) : Finished(s, x.db, n)
        /\ \A n \in done : HeldAsPlanned(s, before, x.db, n)}

\* A package is disfigured, if it is to be.
DisfigureHappens(x, y, n, p) ==
    /\ x.status = "ok"
    /\ ~Disfigures(x.db, n, p) => y = x
    /\ Disfigures(x.db, n, p) =>
          /\ Configured(x.db, n) /\ MayDisfigure(x.db, n)
          /\ y = [x EXCEPT !.db = Disfigured(x.db, n)] /\ y.db = Disfigured(x.db, n)

\* One package in the first pass of the simulation.
LEMMA DisfigureStep ==
    ASSUME NEW r, NEW s, SoundPlan(s, r), NEW before, NEW x \in Disfiguring(s, before, r),
           NEW n \in Names, n \in Range(s.list)
    PROVE  /\ SimulateDisfigure(x, n, s.map[n]) \in Disfiguring(s, before, r)
           /\ SimulateDisfigure(x, n, s.map[n]).status = "ok" =>
                 DisfigureHappens(x, SimulateDisfigure(x, n, s.map[n]), n, s.map[n])
<1>. DEFINE p == s.map[n]
            new == Disfigured(x.db, n)
            moved == [x EXCEPT !.db = new]
            y == SimulateDisfigure(x, n, p)
<1>1. x \in Simulations
  BY DEF Disfiguring
<1>2. y = IF x.status # "ok" \/ ~Disfigures(x.db, n, p) THEN x
          ELSE IF ~Configured(x.db, n) THEN Stopped(x, "assertion")
          ELSE IF ~MayDisfigure(x.db, n) THEN Stopped(x, "refused")
          ELSE moved
  BY DEF SimulateDisfigure
<1>3. \A status \in {"refused", "assertion"} :
         Stopped(x, status) \in Disfiguring(s, before, r) /\ Stopped(x, status).status # "ok"
  BY <1>1, StoppedGood DEF Disfiguring, GoodSimulations
<1>. HIDE DEF y, p
<1>4. CASE x.status # "ok" \/ ~Disfigures(x.db, n, p)
  <2>1. y = x
    BY <1>2, <1>4
  <2>. QED BY <1>4, <2>1 DEF y, p, DisfigureHappens
<1>5. CASE ~(x.status # "ok" \/ ~Disfigures(x.db, n, p)) /\ ~Configured(x.db, n)
  BY <1>2, <1>3, <1>5 DEF y, p
<1>6. CASE ~(x.status # "ok" \/ ~Disfigures(x.db, n, p)) /\ Configured(x.db, n) /\ ~MayDisfigure(x.db, n)
  BY <1>2, <1>3, <1>6 DEF y, p
<1>7. CASE ~(x.status # "ok" \/ ~Disfigures(x.db, n, p)) /\ Configured(x.db, n) /\ MayDisfigure(x.db, n)
  <2>1. y = moved
    BY <1>2, <1>7
  <2>2. GoodDatabase(x.db) /\ Sensible(s, before, r, x.db) /\ HeldBefore(s, before, x.db)
    BY <1>7 DEF Disfiguring, Sensible
  <2>3. LeadsTo(x.db, new, n, p)
    BY <1>7, <2>2, DisfiguredGood DEF LeadsTo
  <2>4. Sensible(s, before, r, new) /\ HeldBefore(s, before, new)
    BY <2>2, <2>3, StepSensible DEF p
  <2>5. new \in Databases
    BY <2>3 DEF LeadsTo, GoodDatabase
  <2>6. moved \in Simulations /\ moved.db = new /\ moved.status = x.status
    BY <1>1, <2>5, SimulationIn
  <2>7. moved \in Disfiguring(s, before, r)
    BY <2>4, <2>6 DEF Disfiguring
  <2>8. DisfigureHappens(x, moved, n, p)
    BY <1>7, <2>6 DEF DisfigureHappens
  <2>. QED BY <2>1, <2>7, <2>8 DEF y, p
<1>. QED BY <1>4, <1>5, <1>6, <1>7

\* One package in the second pass of the simulation.
LEMMA BuildStep ==
    ASSUME NEW r, NEW s, SoundPlan(s, r), NEW before, NEW done, done \subseteq Names,
           NEW x \in Building(s, before, r, done), NEW n \in Names, n \in Range(s.list)
    PROVE  /\ SimulateBuild(x, n, s.map[n]) \in Building(s, before, r, done \cup {n})
           /\ SimulateBuild(x, n, s.map[n]).status = "ok" =>
                 \A y \in Between(n, s.map[n], x) : y \in Disfiguring(s, before, r)
<1>. DEFINE p == s.map[n]
            y == SimulateBuild(x, n, p)
<1>1. x \in Simulations /\ x \in GoodSimulations
  BY DEF Building, Disfiguring, Sensible, GoodSimulations
<1>2. FineEntry(p)
  BY DEF SoundPlan
<1>3. /\ y \in GoodSimulations
      /\ y.status = "ok" =>
           /\ x.status = "ok" /\ LeadsTo(x.db, y.db, n, p) /\ Todo(y.db, n, p) = "nothing"
           /\ \A z \in Between(n, p, x) :
                 z \in GoodSimulations /\ z.status = "ok" /\ LeadsTo(x.db, z.db, n, p)
  BY <1>1, <1>2, BuildGood
<1>. HIDE DEF y, p
<1>4. y.status # "ok" => y \in Building(s, before, r, done \cup {n})
  BY <1>3 DEF GoodSimulations, Building, Disfiguring
<1>5. ASSUME y.status = "ok" PROVE y \in Building(s, before, r, done \cup {n})
  <2>1. Sensible(s, before, r, x.db) /\ HeldBefore(s, before, x.db) /\ \A m \in done : Finished(s, x.db, m)
    BY <1>3, <1>5 DEF Building, Disfiguring
  <2>2. LeadsTo(x.db, y.db, n, s.map[n])
    BY <1>3, <1>5 DEF p
  <2>3. Sensible(s, before, r, y.db) /\ HeldBefore(s, before, y.db)
    BY <2>1, <2>2, StepSensible
  <2>4. ASSUME NEW m \in done \cup {n} PROVE Finished(s, y.db, m)
    <3>1. CASE m = n
      BY <1>3, <1>5, <3>1 DEF Finished, p
    <3>2. CASE m # n
      <4>1. y.db[m] = x.db[m] /\ Finished(s, x.db, m)
        BY <2>1, <2>2, <2>4, <3>2 DEF LeadsTo
      <4>. QED BY <4>1 DEF Finished, Todo, Configured
    <3>. QED BY <3>1, <3>2
  <2>. QED BY <1>3, <2>3, <2>4 DEF Building, Disfiguring, GoodSimulations
<1>6. ASSUME y.status = "ok", NEW z \in Between(n, s.map[n], x) PROVE z \in Disfiguring(s, before, r)
  <2>1. z \in GoodSimulations /\ LeadsTo(x.db, z.db, n, s.map[n]) /\ x.status = "ok"
    BY <1>3, <1>6 DEF p
  <2>2. Sensible(s, before, r, x.db) /\ HeldBefore(s, before, x.db)
    BY <2>1 DEF Building, Disfiguring
  <2>3. Sensible(s, before, r, z.db) /\ HeldBefore(s, before, z.db)
    BY <2>1, <2>2, StepSensible
  <2>. QED BY <2>1, <2>3 DEF Disfiguring, GoodSimulations
<1>. QED BY <1>4, <1>5, <1>6 DEF y, p

\* The hold state is updated, unless the package is dropped.
HoldHappens(x, y, n, p) ==
    /\ x.status = "ok"
    /\ p.action = "drop" => y = x
    /\ p.action # "drop" => y = [x EXCEPT !.db = HoldState(x.db, n, p)] /\ y.db = HoldState(x.db, n, p)

\* One package in the third pass of the simulation.
LEMMA HoldStep ==
    ASSUME NEW r, NEW s, SoundPlan(s, r), NEW before, NEW done, done \subseteq Names,
           NEW x \in Holding(s, before, r, done), NEW n \in Names, n \in Range(s.list)
    PROVE  /\ SimulateHold(x, n, s.map[n]) \in Holding(s, before, r, done \cup {n})
           /\ SimulateHold(x, n, s.map[n]).status = "ok" =>
                 HoldHappens(x, SimulateHold(x, n, s.map[n]), n, s.map[n])
<1>. DEFINE p == s.map[n]
            new == HoldState(x.db, n, p)
            moved == [x EXCEPT !.db = new]
            y == SimulateHold(x, n, p)
<1>1. x \in Simulations
  BY DEF Holding
<1>2. y = IF x.status # "ok" \/ p.action = "drop" THEN x ELSE moved
  BY DEF SimulateHold
<1>3. p = s.map[n]
  OBVIOUS
<1>. HIDE DEF y, p
<1>4. CASE x.status # "ok"
  <2>1. y = x
    BY <1>2, <1>4
  <2>. QED BY <1>1, <1>4, <2>1 DEF y, p, Holding
<1>5. CASE x.status = "ok" /\ p.action = "drop"
  <2>1. y = x
    BY <1>2, <1>5
  <2>2. HeldAsPlanned(s, before, x.db, n)
    BY <1>3, <1>5 DEF HeldAsPlanned
  <2>3. x \in Holding(s, before, r, done \cup {n})
    BY <1>5, <2>2 DEF Holding
  <2>. QED BY <1>5, <2>1, <2>3 DEF y, p, HoldHappens
<1>6. CASE x.status = "ok" /\ p.action # "drop"
  <2>1. y = moved
    BY <1>2, <1>6
  <2>2. /\ GoodDatabase(x.db) /\ Sensible(s, before, r, x.db) /\ HeldBeforeOrAsPlanned(s, before, x.db)
        /\ \A m \in Range(s.list) : Finished(s, x.db, m)
        /\ \A m \in done : HeldAsPlanned(s, before, x.db, m)
    BY <1>6 DEF Holding, Sensible
  <2>3. Configured(x.db, n)
    BY <1>3, <1>6, <2>2, TodoIn DEF Finished
  <2>4. /\ GoodDatabase(new)
        /\ \A m \in Names : m # n => new[m] = x.db[m]
        /\ new[n].state = x.db[n].state
        /\ new[n].version = x.db[n].version
        /\ new[n].hold_package = HoldPackageOf(p, x.db[n].hold_package)
        /\ p.hold_version = Null => new[n].hold_version = x.db[n].hold_version
    BY <2>2, <2>3, HoldStateGood DEF Configured
  <2>. HIDE DEF new
  <2>5. ASSUME NEW m \in Names \ Asked(r) PROVE Bystander(new, m, s.map[m])
    <3>1. Bystander(x.db, m, s.map[m])
      BY <2>2 DEF Sensible
    <3>2. m = n \/ new[m] = x.db[m]
      BY <2>4
    <3>. QED BY <1>3, <2>4, <3>1, <3>2 DEF Bystander
  <2>6. Sensible(s, before, r, new)
    BY <2>2, <2>4, <2>5 DEF Sensible
  <2>7. HeldBeforeOrAsPlanned(s, before, new) /\ HeldAsPlanned(s, before, new, n)
    <3>1. x.db[n].hold_package \in {before[n].hold_package, HoldPackageOf(p, before[n].hold_package)}
      BY <1>3, <1>6, <2>2 DEF HeldBeforeOrAsPlanned
    <3>2. new[n].hold_package = HoldPackageOf(p, before[n].hold_package)
      BY <2>4, <3>1 DEF HoldPackageOf
    <3>. QED BY <1>3, <2>2, <2>4, <3>2 DEF HeldBeforeOrAsPlanned, HeldAsPlanned
  <2>8. \A m \in done : HeldAsPlanned(s, before, new, m)
    BY <2>2, <2>4, <2>7 DEF HeldAsPlanned
  <2>9. ASSUME NEW m \in Range(s.list) PROVE Finished(s, new, m)
    <3>1. Finished(s, x.db, m) /\ m \in Names
      <4>1. s.list \in Seq(Names)
        BY PlanIn DEF SoundPlan
      <4>. QED BY <2>2, <2>9, <4>1, RangeOf
    <3>2. new[m].state = x.db[m].state /\ new[m].version = x.db[m].version
      BY <2>4, <3>1
    <3>. QED BY <3>1, <3>2 DEF Finished, Todo, Configured
  <2>10. moved \in Simulations /\ moved.db = new /\ moved.status = x.status
    BY <1>1, <2>4, SimulationIn DEF GoodDatabase
  <2>11. moved \in Holding(s, before, r, done \cup {n})
    BY <2>6, <2>7, <2>8, <2>9, <2>10 DEF Holding
  <2>12. HoldHappens(x, moved, n, p)
    BY <1>6, <2>10 DEF HoldHappens, new
  <2>. QED BY <2>1, <2>11, <2>12 DEF y, p
<1>. QED BY <1>4, <1>5, <1>6

\* The steps of the simulation.
DisfigureSteps(s) == [n \in Names |-> [x \in Simulations |-> SimulateDisfigure(x, n, s.map[n])]]
BuildSteps(s) == [n \in Names |-> [x \in Simulations |-> SimulateBuild(x, n, s.map[n])]]
HoldSteps(s) == [n \in Names |-> [x \in Simulations |-> SimulateHold(x, n, s.map[n])]]

\* The states of the simulation that succeeds, pass by pass.
DisfigureWay(s, before, r, w) ==
    /\ w[0] = [status |-> "ok", db |-> before]
    /\ \A i \in 0 .. Len(s.list) : w[i] \in Disfiguring(s, before, r) /\ w[i].status = "ok"
    /\ \A i \in 1 .. Len(s.list) : DisfigureHappens(w[i - 1], w[i], s.list[i], s.map[s.list[i]])

\* The package that is built, and held, as the i-th one: from the back of the
\* list.
Built(s, i) == s.list[Len(s.list) - i + 1]

\* The states of the second pass.
BuildWay(s, before, r, w) ==
    /\ \A i \in 0 .. Len(s.list) : w[i] \in Disfiguring(s, before, r) /\ w[i].status = "ok"
    /\ \A i \in 1 .. Len(s.list) :
          /\ w[i] = SimulateBuild(w[i - 1], Built(s, i), s.map[Built(s, i)])
          /\ \A y \in Between(Built(s, i), s.map[Built(s, i)], w[i - 1]) : y \in Disfiguring(s, before, r)

\* The states of the third pass.
HoldWay(s, before, r, w) ==
    /\ \A i \in 0 .. Len(s.list) : w[i] \in Holding(s, before, r, {}) /\ w[i].status = "ok"
    /\ \A i \in 1 .. Len(s.list) : HoldHappens(w[i - 1], w[i], Built(s, i), s.map[Built(s, i)])
    /\ w[Len(s.list)] \in Holding(s, before, r, Range(s.list))

\* Those of all the passes, each of which starts where the one before it ends.
Ways(s, before, r, w) ==
    /\ DisfigureWay(s, before, r, w[1])
    /\ w[1][Len(s.list)] = w[2][0] /\ BuildWay(s, before, r, w[2])
    /\ w[2][Len(s.list)] = w[3][0] /\ HoldWay(s, before, r, w[3])
    /\ w[3][Len(s.list)] = Simulated(s, before)

\* A pass, if what has failed stays so.
LEMMA ReverseOfList ==
    ASSUME NEW s \in Plans
    PROVE  /\ Reverse(s.list) \in Seq(Names) /\ Len(Reverse(s.list)) = Len(s.list) /\ Len(s.list) \in Nat
           /\ \A i \in 1 .. Len(s.list) : Reverse(s.list)[i] = Built(s, i)
           /\ \A i \in 1 .. Len(s.list) :
                 /\ Built(s, i) \in Names /\ Built(s, i) \in Range(s.list)
                 /\ s.list[i] \in Names /\ s.list[i] \in Range(s.list)
           /\ Range(s.list) = {Built(s, i) : i \in 1 .. Len(s.list)}
<1>1. s.list \in Seq(Names) /\ Len(s.list) \in Nat
  BY PlanIn
<1>2. /\ Reverse(s.list) \in Seq(Names) /\ Len(Reverse(s.list)) = Len(s.list)
      /\ Range(Reverse(s.list)) = Range(s.list)
      /\ \A i \in 1 .. Len(s.list) : Reverse(s.list)[i] = Built(s, i)
  BY <1>1, ReverseIn DEF Built
<1>3. \A x : x \in Range(s.list) <=> \E i \in 1 .. Len(s.list) : x = Built(s, i)
  BY <1>2, RangeOf
<1>4. \A x : x \in Range(s.list) <=> \E i \in 1 .. Len(s.list) : x = s.list[i]
  BY <1>1, RangeOf
<1>5. Range(s.list) \subseteq Names
  BY <1>1, RangeOf
<1>. QED BY <1>1, <1>2, <1>3, <1>4, <1>5

\* The first pass of the simulation, and the states on its way.
LEMMA DisfigurePass ==
    ASSUME NEW r, NEW s, SoundPlan(s, r), NEW before, NEW start, start = [status |-> "ok", db |-> before],
           Sensible(s, before, r, before)
    PROVE  /\ Fold(DisfigureSteps(s), start, s.list) \in Disfiguring(s, before, r)
           /\ Fold(DisfigureSteps(s), start, s.list).status = "ok" =>
                 \E w : DisfigureWay(s, before, r, w) /\ w[Len(s.list)] = Fold(DisfigureSteps(s), start, s.list)
<1>. DEFINE F == DisfigureSteps(s)
            n == Len(s.list)
            D == Disfiguring(s, before, r)
            Q == [i \in 0 .. n |-> D]
<1>1. s.list \in Seq(Names) /\ n \in Nat /\ \A i \in 1 .. n : s.list[i] \in Names /\ s.list[i] \in Range(s.list)
  BY PlanIn, ReverseOfList DEF SoundPlan
<1>2. start \in D
  BY DEF Disfiguring, Simulations, Statuses, Sensible, GoodDatabase, HeldBefore
<1>3. \A x \in D : x \in Simulations
  BY DEF Disfiguring
<1>4. ASSUME NEW i \in 1 .. n, NEW x \in D
      PROVE  F[s.list[i]][x] \in D
             /\ (F[s.list[i]][x].status = "ok" => DisfigureHappens(x, F[s.list[i]][x], s.list[i], s.map[s.list[i]]))
  <2>1. F[s.list[i]][x] = SimulateDisfigure(x, s.list[i], s.map[s.list[i]])
    BY <1>1, <1>3 DEF DisfigureSteps
  <2>. QED BY <1>1, <2>1, DisfigureStep
<1>. HIDE DEF D
<1>. HIDE DEF F
<1>5. PICK w : IsWay(w, F, start, s.list) /\ Fold(F, start, s.list) = w[Len(s.list)]
  BY <1>1, FoldWay
<1>6. \A i \in 0 .. n : Q[i] = D
  OBVIOUS
<1>7. \A i \in 0 .. n : w[i] \in D
  <2>1. start \in Q[0]
    BY <1>1, <1>2
  <2>2. \A i \in 1 .. Len(s.list) : \A t \in Q[i - 1] : F[s.list[i]][t] \in Q[i]
    <3>1. \A i \in 1 .. n : i - 1 \in 0 .. n /\ i \in 0 .. n
      BY <1>1
    <3>2. \A i \in 1 .. n : \A t \in D : F[s.list[i]][t] \in D
      BY <1>4
    <3>. HIDE DEF F
    <3>. QED BY <3>1, <3>2
  <2>. HIDE DEF Q
  <2>3. \A i \in 0 .. Len(s.list) : w[i] \in Q[i]
    BY ONLY <1>1, <1>5, <2>1, <2>2, WayReaches
  <2>. QED BY <1>6, <2>3
<1>8. w[0] = start /\ \A i \in 1 .. n : w[i] = F[s.list[i]][w[i - 1]] /\ i - 1 \in 0 .. n
  BY ONLY <1>1, <1>5 DEF IsWay
<1>9. ASSUME NEW i \in 1 .. n, w[i].status = "ok"
      PROVE  DisfigureHappens(w[i - 1], w[i], s.list[i], s.map[s.list[i]])
  <2>1. w[i - 1] \in D /\ w[i] = F[s.list[i]][w[i - 1]]
    BY <1>7, <1>8
  <2>. QED BY <1>4, <1>9, <2>1
<1>10. w[n].status = "ok" => \A i \in 0 .. n : w[i].status = "ok"
  <2>1. \A i \in 1 .. n : w[i].status = "ok" => w[i - 1].status = "ok"
    BY <1>9 DEF DisfigureHappens
  <2>. HIDE DEF n
  <2>. QED BY <1>1, <2>1, WayOk
<1>11. w[n].status = "ok" => DisfigureWay(s, before, r, w)
  <2>1. \A i \in 1 .. n : i \in 0 .. n
    BY <1>1
  <2>. QED BY <1>7, <1>8, <1>9, <1>10, <2>1 DEF DisfigureWay, D
<1>12. n \in 0 .. n
  BY <1>1
<1>. QED BY <1>5, <1>7, <1>11, <1>12 DEF F, D

\* The second pass of the simulation, and the states on its way.
LEMMA BuildPass ==
    ASSUME NEW r, NEW s, SoundPlan(s, r), NEW before, NEW start \in Disfiguring(s, before, r)
    PROVE  /\ Fold(BuildSteps(s), start, Reverse(s.list)) \in Building(s, before, r, Range(s.list))
           /\ Fold(BuildSteps(s), start, Reverse(s.list)).status = "ok" =>
                 /\ start.status = "ok"
                 /\ \E w : /\ BuildWay(s, before, r, w) /\ w[0] = start
                           /\ w[Len(s.list)] = Fold(BuildSteps(s), start, Reverse(s.list))
<1>. DEFINE F == BuildSteps(s)
            n == Len(s.list)
            l == Reverse(s.list)
            Past(i) == {Built(s, j) : j \in 1 .. i}
            Q == [i \in 0 .. n |-> Building(s, before, r, Past(i))]
<1>1. /\ s \in Plans /\ l \in Seq(Names) /\ Len(l) = n /\ n \in Nat /\ Range(s.list) = Past(n)
      /\ \A i \in 1 .. n : l[i] = Built(s, i) /\ Built(s, i) \in Names /\ Built(s, i) \in Range(s.list)
  BY ReverseOfList DEF SoundPlan
<1>. HIDE DEF n, l
<1>2. start \in Building(s, before, r, Past(0))
  <2>1. Past(0) = {}
    OBVIOUS
  <2>. HIDE DEF Past
  <2>. QED BY <2>1 DEF Building
<1>3. \A i \in 0 .. n : \A x \in Building(s, before, r, Past(i)) : x \in Simulations /\ x \in Disfiguring(s, before, r)
  BY DEF Building, Disfiguring
<1>4. ASSUME NEW i \in 1 .. n, NEW x \in Building(s, before, r, Past(i - 1))
      PROVE  /\ F[l[i]][x] = SimulateBuild(x, Built(s, i), s.map[Built(s, i)])
             /\ F[l[i]][x] \in Building(s, before, r, Past(i))
             /\ F[l[i]][x].status = "ok" =>
                   /\ x.status = "ok"
                   /\ \A y \in Between(Built(s, i), s.map[Built(s, i)], x) : y \in Disfiguring(s, before, r)
  <2>. DEFINE m == Built(s, i)
  <2>1. m \in Names /\ m \in Range(s.list) /\ l[i] = m /\ i - 1 \in 0 .. n
    BY <1>1
  <2>2. Past(i) = Past(i - 1) \cup {m}
    <3>1. \A j : j \in 1 .. i <=> j \in 1 .. i - 1 \/ j = i
      BY <1>1
    <3>. QED BY <3>1
  <2>3. Past(i - 1) \subseteq Names
    <3>1. \A j \in 1 .. i - 1 : j \in 1 .. n
      BY <1>1
    <3>. QED BY <1>1, <3>1
  <2>. HIDE DEF Past, m
  <2>4. x \in Simulations
    BY <1>3, <2>1
  <2>5. F[l[i]][x] = SimulateBuild(x, m, s.map[m])
    BY <2>1, <2>4 DEF BuildSteps
  <2>6. /\ SimulateBuild(x, m, s.map[m]) \in Building(s, before, r, Past(i - 1) \cup {m})
        /\ SimulateBuild(x, m, s.map[m]).status = "ok" =>
                 \A y \in Between(m, s.map[m], x) : y \in Disfiguring(s, before, r)
    BY <2>1, <2>3, BuildStep
  <2>7. SimulateBuild(x, m, s.map[m]).status = "ok" => x.status = "ok"
    <3>1. x \in GoodSimulations /\ FineEntry(s.map[m])
      BY <1>3, <2>1 DEF GoodSimulations, Disfiguring, Sensible, SoundPlan
    <3>. QED BY <2>1, <3>1, BuildGood
  <2>. QED BY <2>2, <2>5, <2>6, <2>7 DEF m
<1>. HIDE DEF Past
<1>. HIDE DEF F
<1>5. PICK w : IsWay(w, F, start, l) /\ Fold(F, start, l) = w[n]
  <2>1. l \in Seq(Names) /\ Len(l) = n
    BY <1>1
  <2>2. \E w : IsWay(w, F, start, l) /\ Fold(F, start, l) = w[Len(l)]
    BY ONLY <2>1, FoldWay
  <2>. QED BY <2>1, <2>2
<1>6. \A i \in 0 .. n : Q[i] = Building(s, before, r, Past(i))
  OBVIOUS
<1>7. \A i \in 0 .. n : w[i] \in Building(s, before, r, Past(i))
  <2>1. start \in Q[0]
    BY <1>1, <1>2
  <2>2. \A i \in 1 .. Len(l) : \A t \in Q[i - 1] : F[l[i]][t] \in Q[i]
    <3>1. ASSUME NEW i \in 1 .. n, NEW t \in Q[i - 1] PROVE F[l[i]][t] \in Q[i]
      <4>1. i - 1 \in 0 .. n /\ i \in 0 .. n
        BY <1>1
      <4>. QED BY <1>4, <1>6, <3>1, <4>1
    <3>. QED BY <1>1, <3>1
  <2>. HIDE DEF Q
  <2>3. \A i \in 0 .. Len(l) : w[i] \in Q[i]
    BY ONLY <1>1, <1>5, <2>1, <2>2, WayReaches
  <2>. QED BY <1>1, <1>6, <2>3
<1>8. w[0] = start /\ \A i \in 1 .. n : w[i] = F[l[i]][w[i - 1]] /\ i - 1 \in 0 .. n /\ i \in 0 .. n
  BY ONLY <1>1, <1>5 DEF IsWay
<1>9. ASSUME NEW i \in 1 .. n
      PROVE  /\ w[i] = SimulateBuild(w[i - 1], Built(s, i), s.map[Built(s, i)])
             /\ w[i].status = "ok" =>
                   /\ w[i - 1].status = "ok"
                   /\ \A y \in Between(Built(s, i), s.map[Built(s, i)], w[i - 1]) : y \in Disfiguring(s, before, r)
  <2>1. w[i - 1] \in Building(s, before, r, Past(i - 1)) /\ w[i] = F[l[i]][w[i - 1]]
    BY <1>7, <1>8
  <2>. QED BY <1>4, <2>1
<1>10. w[n].status = "ok" => \A i \in 0 .. n : w[i].status = "ok"
  BY <1>1, <1>9, WayOk
<1>11. w[n].status = "ok" => BuildWay(s, before, r, w)
  BY <1>3, <1>7, <1>8, <1>9, <1>10 DEF BuildWay, n
<1>12. n \in 0 .. n /\ 0 \in 0 .. n
  BY <1>1
<1>. QED BY <1>1, <1>5, <1>7, <1>8, <1>10, <1>11, <1>12 DEF F, n, l

\* The third pass of the simulation, and the states on its way.
LEMMA HoldPass ==
    ASSUME NEW r, NEW s, SoundPlan(s, r), NEW before, NEW start \in Building(s, before, r, Range(s.list))
    PROVE  /\ Fold(HoldSteps(s), start, Reverse(s.list)) \in Holding(s, before, r, Range(s.list))
           /\ Fold(HoldSteps(s), start, Reverse(s.list)).status = "ok" =>
                 /\ start.status = "ok"
                 /\ \E w : /\ HoldWay(s, before, r, w) /\ w[0] = start
                           /\ w[Len(s.list)] = Fold(HoldSteps(s), start, Reverse(s.list))
<1>. DEFINE F == HoldSteps(s)
            n == Len(s.list)
            l == Reverse(s.list)
            Past(i) == {Built(s, j) : j \in 1 .. i}
            Q == [i \in 0 .. n |-> Holding(s, before, r, Past(i))]
<1>1. /\ s \in Plans /\ l \in Seq(Names) /\ Len(l) = n /\ n \in Nat /\ Range(s.list) = Past(n)
      /\ \A i \in 1 .. n : l[i] = Built(s, i) /\ Built(s, i) \in Names /\ Built(s, i) \in Range(s.list)
  BY ReverseOfList DEF SoundPlan
<1>. HIDE DEF n, l
<1>2. start \in Holding(s, before, r, Past(0))
  <2>1. Past(0) = {}
    OBVIOUS
  <2>. HIDE DEF Past
  <2>. QED BY <2>1 DEF Building, Disfiguring, Holding, HeldBefore, HeldBeforeOrAsPlanned
<1>3. \A i \in 0 .. n : \A x \in Holding(s, before, r, Past(i)) : x \in Simulations /\ x \in Holding(s, before, r, {})
  BY DEF Holding
<1>4. ASSUME NEW i \in 1 .. n, NEW x \in Holding(s, before, r, Past(i - 1))
      PROVE  /\ F[l[i]][x] \in Holding(s, before, r, Past(i))
             /\ F[l[i]][x].status = "ok" => HoldHappens(x, F[l[i]][x], Built(s, i), s.map[Built(s, i)])
  <2>. DEFINE m == Built(s, i)
  <2>1. m \in Names /\ m \in Range(s.list) /\ l[i] = m /\ i - 1 \in 0 .. n
    BY <1>1
  <2>2. Past(i) = Past(i - 1) \cup {m}
    <3>1. \A j : j \in 1 .. i <=> j \in 1 .. i - 1 \/ j = i
      BY <1>1
    <3>. QED BY <3>1
  <2>3. Past(i - 1) \subseteq Names
    <3>1. \A j \in 1 .. i - 1 : j \in 1 .. n
      BY <1>1
    <3>. QED BY <1>1, <3>1
  <2>. HIDE DEF Past, m
  <2>4. x \in Simulations
    BY <1>3, <2>1
  <2>5. F[l[i]][x] = SimulateHold(x, m, s.map[m])
    BY <2>1, <2>4 DEF HoldSteps
  <2>6. /\ SimulateHold(x, m, s.map[m]) \in Holding(s, before, r, Past(i - 1) \cup {m})
        /\ SimulateHold(x, m, s.map[m]).status = "ok" =>
                 HoldHappens(x, SimulateHold(x, m, s.map[m]), m, s.map[m])
    BY <2>1, <2>3, HoldStep
  <2>. QED BY <2>2, <2>5, <2>6 DEF m
<1>. HIDE DEF Past
<1>. HIDE DEF F
<1>5. PICK w : IsWay(w, F, start, l) /\ Fold(F, start, l) = w[n]
  <2>1. l \in Seq(Names) /\ Len(l) = n
    BY <1>1
  <2>2. \E w : IsWay(w, F, start, l) /\ Fold(F, start, l) = w[Len(l)]
    BY ONLY <2>1, FoldWay
  <2>. QED BY <2>1, <2>2
<1>6. \A i \in 0 .. n : Q[i] = Holding(s, before, r, Past(i))
  OBVIOUS
<1>7. \A i \in 0 .. n : w[i] \in Holding(s, before, r, Past(i))
  <2>1. start \in Q[0]
    BY <1>1, <1>2
  <2>2. \A i \in 1 .. Len(l) : \A t \in Q[i - 1] : F[l[i]][t] \in Q[i]
    <3>1. ASSUME NEW i \in 1 .. n, NEW t \in Q[i - 1] PROVE F[l[i]][t] \in Q[i]
      <4>1. i - 1 \in 0 .. n /\ i \in 0 .. n
        BY <1>1
      <4>. QED BY <1>4, <1>6, <3>1, <4>1
    <3>. QED BY <1>1, <3>1
  <2>. HIDE DEF Q
  <2>3. \A i \in 0 .. Len(l) : w[i] \in Q[i]
    BY ONLY <1>1, <1>5, <2>1, <2>2, WayReaches
  <2>. QED BY <1>1, <1>6, <2>3
<1>8. w[0] = start /\ \A i \in 1 .. n : w[i] = F[l[i]][w[i - 1]] /\ i - 1 \in 0 .. n /\ i \in 0 .. n
  BY ONLY <1>1, <1>5 DEF IsWay
<1>9. ASSUME NEW i \in 1 .. n, w[i].status = "ok"
      PROVE  HoldHappens(w[i - 1], w[i], Built(s, i), s.map[Built(s, i)])
  <2>1. w[i - 1] \in Holding(s, before, r, Past(i - 1)) /\ w[i] = F[l[i]][w[i - 1]]
    BY <1>7, <1>8
  <2>. QED BY <1>4, <1>9, <2>1
<1>10. w[n].status = "ok" => \A i \in 0 .. n : w[i].status = "ok"
  <2>1. \A i \in 1 .. n : w[i].status = "ok" => w[i - 1].status = "ok"
    BY <1>9 DEF HoldHappens
  <2>. QED BY <1>1, <2>1, WayOk
<1>11. n \in 0 .. n /\ 0 \in 0 .. n
  BY <1>1
<1>12. w[n].status = "ok" => HoldWay(s, before, r, w)
  <2>. SUFFICES ASSUME w[n].status = "ok" PROVE HoldWay(s, before, r, w)
    OBVIOUS
  <2>1. w[n] \in Holding(s, before, r, Range(s.list))
    BY <1>1, <1>7, <1>11
  <2>2. \A i \in 0 .. n : w[i] \in Holding(s, before, r, {}) /\ w[i].status = "ok"
    BY <1>3, <1>7, <1>10
  <2>3. \A i \in 1 .. n : HoldHappens(w[i - 1], w[i], Built(s, i), s.map[Built(s, i)])
    BY <1>8, <1>9, <1>10
  <2>. QED BY <2>1, <2>2, <2>3 DEF HoldWay, n
<1>13. w[n] \in Holding(s, before, r, Range(s.list))
  BY <1>1, <1>7, <1>11
<1>. QED BY <1>1, <1>5, <1>8, <1>10, <1>11, <1>12, <1>13 DEF F, n, l

\* What the simulation of a plan that succeeds goes through.
LEMMA SimulatedWays ==
    ASSUME NEW r, NEW s, SoundPlan(s, r), s.status = "ok", NEW before, Sensible(s, before, r, before)
    PROVE  /\ Simulated(s, before) \in Simulations
           /\ Simulated(s, before).status = "ok" =>
                 /\ Simulated(s, before) \in Holding(s, before, r, Range(s.list))
                 /\ \E w : Ways(s, before, r, w)
<1>. DEFINE start == [status |-> "ok", db |-> before]
            one == Fold(DisfigureSteps(s), start, s.list)
            two == Fold(BuildSteps(s), one, Reverse(s.list))
            three == Fold(HoldSteps(s), two, Reverse(s.list))
<1>1. Simulated(s, before) = three
  BY DEF Simulated, DisfigureSteps, BuildSteps, HoldSteps
<1>2. /\ one \in Disfiguring(s, before, r)
      /\ one.status = "ok" => \E w : DisfigureWay(s, before, r, w) /\ w[Len(s.list)] = one
  BY DisfigurePass
<1>. HIDE DEF one
<1>3. /\ two \in Building(s, before, r, Range(s.list))
      /\ two.status = "ok" =>
           /\ one.status = "ok"
           /\ \E w : BuildWay(s, before, r, w) /\ w[0] = one /\ w[Len(s.list)] = two
  BY <1>2, BuildPass
<1>. HIDE DEF two
<1>4. /\ three \in Holding(s, before, r, Range(s.list))
      /\ three.status = "ok" =>
         /\ two.status = "ok"
         /\ \E w : HoldWay(s, before, r, w) /\ w[0] = two /\ w[Len(s.list)] = three
  <2>1. two \in Building(s, before, r, Range(s.list)) /\ SoundPlan(s, r)
    BY <1>3
  <2>2. /\ Fold(HoldSteps(s), two, Reverse(s.list)) \in Holding(s, before, r, Range(s.list))
        /\ Fold(HoldSteps(s), two, Reverse(s.list)).status = "ok" =>
              /\ two.status = "ok"
              /\ \E w : /\ HoldWay(s, before, r, w) /\ w[0] = two
                        /\ w[Len(s.list)] = Fold(HoldSteps(s), two, Reverse(s.list))
    BY ONLY <2>1, HoldPass
  <2>. QED BY <2>2 DEF three
<1>. HIDE DEF three
<1>5. ASSUME three.status = "ok" PROVE \E w : Ways(s, before, r, w)
  <2>1. PICK w3 : HoldWay(s, before, r, w3) /\ w3[0] = two /\ w3[Len(s.list)] = three
    BY <1>4, <1>5
  <2>2. PICK w2 : BuildWay(s, before, r, w2) /\ w2[0] = one /\ w2[Len(s.list)] = two
    BY <1>3, <1>4, <1>5
  <2>3. PICK w1 : DisfigureWay(s, before, r, w1) /\ w1[Len(s.list)] = one
    BY <1>2, <1>3, <1>4, <1>5
  <2>4. PICK w : w[1] = w1 /\ w[2] = w2 /\ w[3] = w3
    <3>1. <<w1, w2, w3>>[1] = w1 /\ <<w1, w2, w3>>[2] = w2 /\ <<w1, w2, w3>>[3] = w3
      OBVIOUS
    <3>. QED BY <3>1
  <2>5. Ways(s, before, r, w)
    BY <1>1, <2>1, <2>2, <2>3, <2>4 DEF Ways
  <2>. QED BY <2>5
<1>6. \A x \in Holding(s, before, r, Range(s.list)) : x \in Simulations
  BY DEF Holding
<1>. QED BY <1>1, <1>4, <1>5, <1>6
-----------------------------------------------------------------------------
(***************************************************************************)
(* The refinement.                                                         *)
(***************************************************************************)

\* What is wanted of a dependency.
LEMMA WishIn ==
    ASSUME NEW r, ValidRequest(r)
    PROVE  /\ \A n : Wish(r, n) # {} <=> n \in DepNames(r)
           /\ \A i \in 1 .. Len(r.dep) : Wish(r, r.dep[i][1]) = {r.dep[i][2]}
<1>1. r.dep \in Seq(Dependencies) /\ DOMAIN r.dep = 1 .. Len(r.dep)
  BY DEF ValidRequest
<1>2. \A n : n \in DepNames(r) <=> \E i \in 1 .. Len(r.dep) : n = r.dep[i][1]
  BY HoldNamesIn
<1>3. ASSUME NEW n PROVE Wish(r, n) # {} <=> n \in DepNames(r)
  <2>1. Wish(r, n) # {} => \E i \in 1 .. Len(r.dep) : n = r.dep[i][1]
    BY <1>1 DEF Wish
  <2>2. (\E i \in 1 .. Len(r.dep) : n = r.dep[i][1]) => Wish(r, n) # {}
    BY <1>1 DEF Wish
  <2>. QED BY <1>2, <2>1, <2>2
<1>4. ASSUME NEW i \in 1 .. Len(r.dep) PROVE Wish(r, r.dep[i][1]) = {r.dep[i][2]}
  <2>1. {j \in DOMAIN r.dep : r.dep[j][1] = r.dep[i][1]} = {i}
    BY <1>1 DEF ValidRequest
  <2>. QED BY <2>1 DEF Wish
<1>. QED BY <1>3, <1>4

\* What a dependency is evaluated to.
LEMMA EvaluateIn ==
    ASSUME NEW db, GoodDatabase(db), NEW r, NEW n \in Names
    PROVE  /\ Evaluate(db, r, n) \in Versions \cup {0}
           /\ db[n].hold_package => Evaluate(db, r, n) = db[n].version
           /\ ~db[n].hold_package /\ Dependents(db, n) = {} => Evaluate(db, r, n) = 0
           /\ Evaluate(db, r, n) \notin {0, db[n].version} => Wish(r, n) # {}
           /\ \A wish \in SUBSET Versions :
                 Wish(r, n) = {wish} /\ ~db[n].hold_package /\ Dependents(db, n) # {}
                     /\ Evaluate(db, r, n) = db[n].version /\ ~Unsatisfiable(db, r, n)
                     /\ db[n].version # 0
                   => db[n].version \in wish
<1>. DEFINE wish == CHOOSE c \in Wish(r, n) : TRUE
            T == {0} \cup Acceptable(db, n, wish)
            best == Max(T)
            v == db[n].version
<1>1. v \in Versions \cup {0}
  BY PackageIn
<1>2. Acceptable(db, n, wish) \subseteq Versions /\ Acceptable(db, n, wish) \subseteq wish
  BY DEF Acceptable, Available
<1>3. best \in T /\ \A y \in T : best >= y
  <2>1. Versions \subseteq Nat /\ IsFiniteSet(Versions)
    BY ConstantFacts
  <2>2. IsFiniteSet(Versions \cup {0})
    BY <2>1, FS_AddElement
  <2>3. T \subseteq Versions \cup {0} /\ T # {} /\ T \in SUBSET Nat
    <3>1. T \subseteq Versions \cup {0}
      BY <1>2
    <3>2. 0 \in T
      OBVIOUS
    <3>. HIDE DEF T
    <3>3. Versions \cup {0} \subseteq Nat
      BY <2>1
    <3>. QED BY <3>1, <3>2, <3>3
  <2>4. IsFiniteSet(T)
    BY <2>2, <2>3, FS_Subset
  <2>. HIDE DEF T
  <2>. QED BY <2>3, <2>4, MaxOf
<1>4. Evaluate(db, r, n) =
        IF db[n].hold_package THEN v
        ELSE IF Dependents(db, n) = {} THEN 0
        ELSE IF Wish(r, n) = {} THEN v
        ELSE IF wish # AnyVersion /\ v \in wish THEN v
             ELSE IF best = 0 \/ (wish = AnyVersion /\ best < v) THEN v
             ELSE best
  BY DEF Evaluate
<1>5. best \in Versions \cup {0}
  BY <1>2, <1>3
<1>6. T = {0} \cup Acceptable(db, n, wish) /\ v = db[n].version
  OBVIOUS
<1>7. \A c \in SUBSET Versions : Wish(r, n) = {c} => wish = c
  OBVIOUS
<1>. HIDE DEF best, T, wish, v
<1>8. /\ Evaluate(db, r, n) \in Versions \cup {0}
      /\ db[n].hold_package => Evaluate(db, r, n) = v
      /\ ~db[n].hold_package /\ Dependents(db, n) = {} => Evaluate(db, r, n) = 0
      /\ Evaluate(db, r, n) \notin {0, v} => Wish(r, n) # {}
  BY <1>1, <1>4, <1>5
<1>9. ASSUME NEW c \in SUBSET Versions, Wish(r, n) = {c}, ~db[n].hold_package, Dependents(db, n) # {},
             Evaluate(db, r, n) = v, ~Unsatisfiable(db, r, n), v # 0, v \notin c
      PROVE  FALSE
  <2>1. wish = c
    BY <1>7, <1>9
  <2>2. c # AnyVersion
    BY <1>1, <1>9 DEF AnyVersion
  <2>3. Acceptable(db, n, c) # {}
    BY <1>6, <1>9, <2>2 DEF Unsatisfiable
  <2>4. PICK y \in Acceptable(db, n, c) : TRUE
    BY <2>3
  <2>5. y \in Versions /\ y \in T
    BY <1>2, <1>6, <2>1, <2>4
  <2>6. y \in Nat /\ y # 0 /\ best \in Nat
    BY <1>5, <2>5, ConstantFacts
  <2>7. best # 0
    BY <1>3, <2>5, <2>6
  <2>8. best \in c
    BY <1>2, <1>3, <1>6, <2>1, <2>7
  <2>9. Evaluate(db, r, n) = best
    BY <1>4, <1>9, <2>1, <2>2, <2>7
  <2>. QED BY <1>9, <2>8, <2>9
<1>. QED BY <1>6, <1>8, <1>9

\* The decisions that are made.
LEMMA DecisionsIn ==
    ASSUME NEW db, GoodDatabase(db), NEW r, ValidRequest(r)
    PROVE  /\ Decide(r, Decisions(db, r))
           /\ \A d \in Range(Decisions(db, r)) : ~db[d[1]].hold_package
           /\ Decisions(db, r) = <<>> =>
                \A n \in Names : Configured(db, n) /\ ~db[n].hold_package =>
                    Evaluate(db, r, n) = db[n].version
<1>. DEFINE changed == {n \in Names : Configured(db, n) /\ ~db[n].hold_package
                                             /\ Evaluate(db, r, n) # db[n].version}
            changes == InOrder(changed)
            new == [i \in DOMAIN changes |-> <<changes[i], Evaluate(db, r, changes[i])>>]
<1>1. changes \in Seq(Names) /\ Range(changes) = changed
  BY InOrderIn
<1>2. Decisions(db, r) = new
  BY DEF Decisions
<1>3. \A n : n \in changed <=> n \in Names /\ Configured(db, n) /\ ~db[n].hold_package
                                 /\ Evaluate(db, r, n) # db[n].version
  OBVIOUS
<1>. HIDE DEF changes, changed
<1>4. \A i \in 1 .. Len(changes) : changes[i] \in changed
  BY <1>1, RangeOf
<1>5. DOMAIN changes = 1 .. Len(changes) /\ Len(changes) \in Nat
  BY <1>1
<1>6. \A n \in Names : Evaluate(db, r, n) \in Versions \cup {0}
  BY EvaluateIn
<1>7. new \in Seq(Decided)
  <2>1. \A i \in 1 .. Len(changes) : <<changes[i], Evaluate(db, r, changes[i])>> \in Decided
    BY <1>3, <1>4, <1>6 DEF Decided
  <2>. QED BY <1>5, <2>1
<1>8. \A i \in 1 .. Len(new) : new[i] = <<changes[i], Evaluate(db, r, changes[i])>> /\ changes[i] \in changed
  BY <1>4, <1>5
<1>9. ASSUME NEW d \in Range(new)
      PROVE  d[1] \in changed /\ d[2] = Evaluate(db, r, d[1])
  <2>1. PICK i \in 1 .. Len(new) : d = new[i]
    BY <1>7, RangeOf
  <2>2. new[i] = <<changes[i], Evaluate(db, r, changes[i])>> /\ changes[i] \in changed
    BY <1>8
  <2>. HIDE DEF new
  <2>. QED BY <2>1, <2>2
<1>10. new = <<>> => changed = {}
  <2>1. new = <<>> => DOMAIN changes = {}
    OBVIOUS
  <2>. HIDE DEF new
  <2>. QED BY <1>1, <1>5, <2>1, RangeOf
<1>. HIDE DEF new
<1>11. ASSUME NEW d \in Range(new), d[2] # 0 PROVE d[1] \in DepNames(r)
  <2>1. d[1] \in Names /\ Evaluate(db, r, d[1]) \notin {0, db[d[1]].version}
    BY <1>3, <1>9, <1>11
  <2>2. Wish(r, d[1]) # {}
    BY <2>1, EvaluateIn
  <2>. QED BY <2>2, WishIn
<1>12. Decide(r, new)
  BY <1>7, <1>11 DEF Decide
<1>. QED BY <1>2, <1>3, <1>9, <1>10, <1>12

\* The database that the simulation of a plan that is fine ends with.
Result(s, before, r, decisions, db) ==
    /\ s \in FinePlans(before, r, decisions) /\ s.status = "ok"
    /\ Sensible(s, before, r, db) /\ HeldBeforeOrAsPlanned(s, before, db)
    /\ \A n \in Range(s.list) : Finished(s, db, n) /\ HeldAsPlanned(s, before, db, n)

\* What is known of each package in the database of a simulation that succeeds.
LEMMA ResultFacts ==
    ASSUME NEW s, NEW before, GoodDatabase(before), NEW r, NEW decisions, NEW db,
           Result(s, before, r, decisions, db), NEW n \in Names
    PROVE  /\ EntryFine(before, r, Range(decisions), HoldNames(r), DepNames(r), n, s.map[n])
           /\ n \notin Range(s.list) => db[n] = before[n]
           /\ n \in HoldNames(r) => n \in Range(s.list)
           /\ n \in DepNames(r) /\ before[n].hold_package => n \in Range(s.list)
           /\ n \in Range(s.list) =>
                 /\ s.map[n].action = "drop" => ~Configured(db, n)
                 /\ s.map[n].action # "drop" => Configured(db, n)
                 /\ s.map[n].action = "build" => db[n].version = s.map[n].available
                 /\ HeldAsPlanned(s, before, db, n)
           /\ before[n].hold_package \in BOOLEAN /\ db[n].hold_package \in BOOLEAN
           /\ GoodPackage(db[n])
<1>1. /\ s \in Fine(before, r, Range(decisions), HoldNames(r), DepNames(r), HoldNames(r) \cup Unheld(before, r))
      /\ s.status = "ok"
  BY DEF Result, FinePlans
<1>2. /\ EntryFine(before, r, Range(decisions), HoldNames(r), DepNames(r), n, s.map[n])
      /\ HoldNames(r) \cup Unheld(before, r) \subseteq Range(s.list)
  BY <1>1 DEF Fine
<1>3. n \notin Range(s.list) => db[n] = before[n]
  BY DEF Result, Sensible
<1>4. n \in Range(s.list) => Todo(db, n, s.map[n]) = "nothing" /\ HeldAsPlanned(s, before, db, n)
  BY DEF Result, Finished
<1>5. Todo(db, n, s.map[n]) = "nothing" =>
                 /\ s.map[n].action = "drop" => db[n].state = "none"
                 /\ s.map[n].action # "drop" => Configured(db, n)
                 /\ s.map[n].action = "build" => db[n].version = s.map[n].available
  BY TodoIn
<1>6. db[n].state = "none" => ~Configured(db, n)
  BY DEF Configured
<1>7. GoodDatabase(db)
  BY DEF Result, Sensible
<1>8. before[n].hold_package \in BOOLEAN /\ db[n].hold_package \in BOOLEAN /\ GoodPackage(db[n])
  BY <1>7 DEF GoodDatabase, GoodPackage, Packages
<1>. QED BY <1>2, <1>3, <1>4, <1>5, <1>6, <1>8 DEF Unheld

\* What is held stays, unless it was made a dependency.
LEMMA HeldStays ==
    ASSUME NEW s, NEW before, GoodDatabase(before), NEW r, NEW decisions, NEW db,
           Result(s, before, r, decisions, db), NEW n \in Names,
           n \notin DepNames(r), Configured(before, n), before[n].hold_package,
           <<n, 0>> \notin Range(decisions)
    PROVE  Configured(db, n) /\ db[n].hold_package
<1>. DEFINE e == s.map[n]
<1>1. EntryFine(before, r, Range(decisions), HoldNames(r), DepNames(r), n, e)
  BY ResultFacts
<1>2. e.action # "drop" /\ ~e.unhold
  BY <1>1 DEF EntryFine
<1>3. e.hold_package = Null \/ e.hold_package = True
  BY <1>1 DEF EntryFine, Asked, Bystander, WillHold
<1>4. HoldPackageOf(e, before[n].hold_package)
  BY <1>2, <1>3 DEF HoldPackageOf
<1>5. CASE n \notin Range(s.list)
  <2>1. db[n] = before[n]
    BY <1>5, ResultFacts
  <2>. QED BY <2>1 DEF Configured
<1>6. CASE n \in Range(s.list)
  <2>1. Configured(db, n) /\ HeldAsPlanned(s, before, db, n)
    BY <1>2, <1>6, ResultFacts
  <2>2. db[n].hold_package = HoldPackageOf(e, before[n].hold_package)
    BY <1>2, <2>1 DEF HeldAsPlanned
  <2>. QED BY <1>4, <2>1, <2>2
<1>. QED BY <1>5, <1>6

\* A package to hold is configured in a version that was asked for, and is
\* held.
LEMMA ResultHolds ==
    ASSUME NEW s, NEW before, GoodDatabase(before), NEW r, ValidRequest(r), NEW decisions, NEW db,
           Result(s, before, r, decisions, db), NEW i \in 1 .. Len(r.hold)
    PROVE  /\ Configured(db, r.hold[i][1]) /\ db[r.hold[i][1]].version \in r.hold[i][2]
           /\ db[r.hold[i][1]].hold_package
<1>. DEFINE n == r.hold[i][1]
            e == s.map[n]
<1>1. n \in HoldNames(r) /\ n \in Names
  BY HoldNamesIn
<1>0. n = r.hold[i][1] /\ e = s.map[n]
  OBVIOUS
<1>. HIDE DEF n, e
<1>2. /\ EntryFine(before, r, Range(decisions), HoldNames(r), DepNames(r), n, e)
      /\ n \in Range(s.list) /\ HeldAsPlanned(s, before, db, n)
      /\ e.action # "drop" => Configured(db, n)
      /\ e.action = "build" => db[n].version = e.available
  <2>1. EntryFine(before, r, Range(decisions), HoldNames(r), DepNames(r), n, s.map[n])
    BY <1>1, ResultFacts
  <2>2. n \in Range(s.list)
    BY <1>1, ResultFacts
  <2>3. /\ s.map[n].action # "drop" => Configured(db, n)
        /\ s.map[n].action = "build" => db[n].version = s.map[n].available
        /\ HeldAsPlanned(s, before, db, n)
    BY <1>1, <2>2, ResultFacts
  <2>. QED BY <1>0, <2>1, <2>2, <2>3
<1>9. n \notin DepNames(r)
  BY <1>1 DEF ValidRequest
<1>3. WillHold(r, n, e) /\ ~e.unhold
  BY <1>1, <1>2, <1>9 DEF EntryFine
<1>4. e.action = "build" /\ e.hold_package = True /\ e.available \in r.hold[i][2]
  BY <1>0, <1>3 DEF WillHold
<1>5. HoldPackageOf(e, before[n].hold_package)
  BY <1>3, <1>4 DEF HoldPackageOf, Null, True
<1>6. db[n].hold_package = HoldPackageOf(e, before[n].hold_package)
  BY <1>0, <1>2, <1>4 DEF HeldAsPlanned
<1>7. db[n].hold_package
  BY <1>5, <1>6
<1>8. Configured(db, n) /\ db[n].version \in r.hold[i][2]
  BY <1>2, <1>4
<1>. QED BY <1>0, <1>7, <1>8

\* A dependency that was asked for is not held, if it is there.
LEMMA ResultUnholds ==
    ASSUME NEW s, NEW before, GoodDatabase(before), NEW r, ValidRequest(r), NEW decisions, NEW db,
           Result(s, before, r, decisions, db), NEW n \in DepNames(r), Configured(db, n)
    PROVE  ~db[n].hold_package
<1>. DEFINE e == s.map[n]
<1>1. n \in Names
  BY HoldNamesIn
<1>0. EntryFine(before, r, Range(decisions), HoldNames(r), DepNames(r), n, s.map[n])
  BY <1>1, ResultFacts
<1>8. n \notin Range(s.list) => db[n] = before[n]
  BY <1>1 DEF Result, Sensible
<1>9. before[n].hold_package => n \in Range(s.list)
  <2>1. n \in DepNames(r) /\ before[n].hold_package => n \in Range(s.list)
    BY <1>1, ResultFacts
  <2>. QED BY <2>1
<1>7. n \in Range(s.list) => s.map[n].action # "drop" /\ HeldAsPlanned(s, before, db, n)
  BY <1>1, ResultFacts
<1>2. /\ EntryFine(before, r, Range(decisions), HoldNames(r), DepNames(r), n, e)
      /\ n \notin Range(s.list) => db[n] = before[n]
      /\ before[n].hold_package => n \in Range(s.list)
      /\ n \in Range(s.list) => e.action # "drop" /\ HeldAsPlanned(s, before, db, n)
  BY <1>0, <1>8, <1>9, <1>7
<1>3. e.hold_package # True /\ (before[n].hold_package => e.action = "drop" \/ e.unhold)
  BY <1>2 DEF EntryFine
<1>4. CASE n \notin Range(s.list)
  BY <1>2, <1>4
<1>5. CASE n \in Range(s.list)
  <2>1. db[n].hold_package = HoldPackageOf(e, before[n].hold_package)
    BY <1>2, <1>5 DEF HeldAsPlanned
  <2>2. ~HoldPackageOf(e, before[n].hold_package)
    <3>1. CASE before[n].hold_package
      BY <1>2, <1>3, <1>5, <3>1 DEF HoldPackageOf
    <3>2. CASE ~before[n].hold_package
      BY <1>3, <3>2 DEF HoldPackageOf
    <3>. QED BY <3>1, <3>2
  <2>. QED BY <2>1, <2>2
<1>. QED BY <1>4, <1>5

\* If there is nothing left to decide, the request is honoured.
LEMMA ResultHonoured ==
    ASSUME NEW s, NEW before, GoodDatabase(before), ValidRequest(request), NEW decisions, NEW db,
           Result(s, before, request, decisions, db),
           Decisions(db, request) = <<>>,
           \A n \in Names : Configured(db, n) => ~Unsatisfiable(db, request, n),
           held \subseteq {n \in Names : Configured(before, n) /\ before[n].hold_package},
           \A n \in held \ DepNames(request) : <<n, 0>> \notin Range(decisions)
    PROVE  Honoured(db)
<1>. DEFINE r == request
<1>0. GoodDatabase(db)
  BY DEF Result, Sensible
<1>1. /\ r.hold \in Seq(Dependencies) /\ r.dep \in Seq(Dependencies)
      /\ DOMAIN r.hold = 1 .. Len(r.hold) /\ DOMAIN r.dep = 1 .. Len(r.dep)
  BY DEF ValidRequest
<1>2. \A n \in Names : Configured(db, n) /\ ~db[n].hold_package => Evaluate(db, r, n) = db[n].version
  BY <1>0, DecisionsIn
<1>3. \A n \in Names : Configured(db, n) => db[n].version # 0
  BY <1>0 DEF GoodDatabase, GoodPackage, Configured
<1>4. HoldHonoured(db)
  BY <1>1, ResultHolds DEF HoldHonoured
<1>5. \A n \in Names : Configured(db, n) /\ Dependents(db, n) = {} => db[n].hold_package
  <2>1. ASSUME NEW n \in Names, Configured(db, n), Dependents(db, n) = {}, ~db[n].hold_package PROVE FALSE
    <3>1. Evaluate(db, r, n) = 0
      BY <1>0, <2>1, EvaluateIn
    <3>. QED BY <1>2, <1>3, <2>1, <3>1
  <2>. QED BY <2>1
<1>6. DependencyHonoured(db)
  <2>1. ASSUME NEW i \in 1 .. Len(r.dep), Configured(db, r.dep[i][1])
        PROVE  ~db[r.dep[i][1]].hold_package /\ db[r.dep[i][1]].version \in r.dep[i][2]
    <3>. DEFINE n == r.dep[i][1]
                wish == r.dep[i][2]
    <3>1. n \in DepNames(r) /\ n \in Names /\ r.dep[i] \in Dependencies
      BY <1>1, HoldNamesIn
    <3>2. ~db[n].hold_package
      BY <2>1, <3>1, ResultUnholds
    <3>3. wish \in SUBSET Versions /\ Wish(r, n) = {wish}
      BY <3>1, DependencyIn, WishIn
    <3>. HIDE DEF wish
    <3>4. /\ Dependents(db, n) # {} /\ Evaluate(db, r, n) = db[n].version
          /\ ~Unsatisfiable(db, r, n) /\ db[n].version # 0
      BY <1>2, <1>3, <1>5, <2>1, <3>1, <3>2
    <3>. HIDE DEF n
    <3>5. db[n].version \in wish
      BY <1>0, <3>1, <3>2, <3>3, <3>4, EvaluateIn
    <3>. QED BY <3>2, <3>5 DEF n, wish
  <2>. QED BY <1>1, <2>1 DEF DependencyHonoured
<1>7. HeldThere(db)
  <2>1. ASSUME NEW n \in held, Wish(r, n) = {} PROVE Configured(db, n)
    <3>1. n \notin DepNames(r)
      BY <2>1, WishIn
    <3>. QED BY <3>1, HeldStays
  <2>. QED BY <2>1 DEF HeldThere
<1>. QED BY <1>4, <1>5, <1>6, <1>7 DEF Honoured, NothingUnused
-----------------------------------------------------------------------------
(***************************************************************************)
(* The execution of a plan follows its simulation.                         *)
(***************************************************************************)

\* The database db is that of the simulation when the execution is in phase ph at position p.
Reached(s, w, ph, p, db) ==
    \/ ph = "disfigure" /\ p \in 1 .. Len(s.list) + 1 /\ db = w[1][p - 1].db
    \/ /\ ph = "build" /\ p \in 1 .. Len(s.list)
       /\ \E y \in Between(s.list[p], s.map[s.list[p]], w[2][Len(s.list) - p]) : db = y.db
    \/ ph = "build" /\ p = 0 /\ db = w[2][Len(s.list)].db
    \/ ph = "hold" /\ p \in 0 .. Len(s.list) /\ db = w[3][Len(s.list) - p].db

\* The execution of a sound plan follows its simulation.
Underway(s, before, r, w, ph, p, db) ==
    SoundPlan(s, r) /\ Ways(s, before, r, w) /\ Reached(s, w, ph, p, db)

\* The databases on the way are good.
LEMMA UnderwaySensible ==
    ASSUME NEW s, NEW before, NEW r, NEW w, NEW ph, NEW p, NEW db, Underway(s, before, r, w, ph, p, db)
    PROVE  Sensible(s, before, r, db) /\ p \in 0 .. Len(s.list) + 1
<1>. DEFINE k == Len(s.list)
<1>1. k \in Nat
  BY ReverseOfList DEF Underway, SoundPlan
<1>2. /\ \A i \in 0 .. k : w[1][i] \in Disfiguring(s, before, r) /\ w[1][i].status = "ok"
      /\ \A i \in 0 .. k : w[2][i] \in Disfiguring(s, before, r) /\ w[2][i].status = "ok"
      /\ \A i \in 0 .. k : w[3][i] \in Holding(s, before, r, {}) /\ w[3][i].status = "ok"
  BY DEF Underway, Ways, DisfigureWay, BuildWay, HoldWay
<1>3. \A x \in Disfiguring(s, before, r) \cup Holding(s, before, r, {}) :
         x.status = "ok" => Sensible(s, before, r, x.db)
  BY DEF Disfiguring, Holding
<1>4. CASE ph = "disfigure" /\ p \in 1 .. k + 1 /\ db = w[1][p - 1].db
  <2>1. p - 1 \in 0 .. k /\ p \in 0 .. k + 1
    BY <1>1, <1>4
  <2>. QED BY <1>2, <1>3, <1>4, <2>1
<1>5. CASE /\ p \in 1 .. k
           /\ \E y \in Between(s.list[p], s.map[s.list[p]], w[2][k - p]) : db = y.db
  <2>1. PICK y \in Between(s.list[p], s.map[s.list[p]], w[2][k - p]) : db = y.db
    BY <1>5
  <2>. DEFINE i == k - p + 1
  <2>2. i \in 1 .. k /\ i - 1 = k - p /\ k - i + 1 = p /\ p \in 0 .. k + 1 /\ i \in 0 .. k /\ i - 1 \in 0 .. k
    BY <1>1, <1>5
  <2>3. Built(s, i) = s.list[p]
    BY <2>2 DEF Built
  <2>. HIDE DEF i
  <2>. HIDE DEF k
  <2>4. y \in Disfiguring(s, before, r)
    BY <2>1, <2>2, <2>3 DEF Underway, Ways, BuildWay, k
  <2>5. w[2][i - 1].status = "ok" /\ w[2][i].status = "ok" /\ w[2][i - 1] \in GoodSimulations
    BY <1>2, <2>2 DEF Disfiguring, Sensible, GoodSimulations
  <2>6. w[2][i] = SimulateBuild(w[2][i - 1], s.list[p], s.map[s.list[p]])
    BY <2>2, <2>3 DEF Underway, Ways, BuildWay, k
  <2>7. s.list[p] \in Names /\ FineEntry(s.map[s.list[p]])
    BY <1>5, ReverseOfList DEF Underway, SoundPlan, k
  <2>8. y.status = "ok"
    BY <2>1, <2>2, <2>5, <2>6, <2>7, BuildGood
  <2>. QED BY <1>3, <2>1, <2>2, <2>4, <2>8 DEF k
<1>6. CASE p = 0 /\ db = w[2][k].db
  <2>1. k \in 0 .. k /\ p \in 0 .. k + 1
    BY <1>1, <1>6
  <2>. QED BY <1>2, <1>3, <1>6, <2>1
<1>7. CASE p \in 0 .. k /\ db = w[3][k - p].db
  <2>1. k - p \in 0 .. k /\ p \in 0 .. k + 1
    BY <1>1, <1>7
  <2>. QED BY <1>2, <1>3, <1>7, <2>1
<1>. QED BY <1>4, <1>5, <1>6, <1>7 DEF Underway, Reached

\* The first pass.
LEMMA DisfigureUnderway ==
    ASSUME NEW s, NEW before, NEW r, NEW w, NEW p, NEW db, Underway(s, before, r, w, "disfigure", p, db)
    PROVE  /\ p > Len(s.list) => Underway(s, before, r, w, "build", Len(s.list), db)
           /\ p <= Len(s.list) /\ ~Disfigures(db, s.list[p], s.map[s.list[p]]) =>
                 Underway(s, before, r, w, "disfigure", p + 1, db)
           /\ p <= Len(s.list) /\ Disfigures(db, s.list[p], s.map[s.list[p]]) =>
                 /\ Configured(db, s.list[p]) /\ MayDisfigure(db, s.list[p])
                 /\ Underway(s, before, r, w, "disfigure", p + 1, Disfigured(db, s.list[p]))
<1>. DEFINE k == Len(s.list)
            n == s.list[p]
            x == w[1][p - 1]
<1>1. k \in Nat
  BY ReverseOfList DEF Underway, SoundPlan
<1>2. SoundPlan(s, r) /\ Ways(s, before, r, w) /\ p \in 1 .. k + 1 /\ db = x.db
  BY DEF Underway, Reached
<1>3. CASE p > k
  <2>1. p - 1 = k /\ db = w[1][k].db
    BY <1>1, <1>2, <1>3
  <2>2. db = w[2][0].db
    BY <1>2, <2>1 DEF Ways
  <2>3. CASE k = 0
    BY <1>2, <1>3, <2>2, <2>3 DEF Underway, Reached
  <2>4. CASE k # 0
    <3>1. k \in 1 .. k /\ k - k = 0
      BY <1>1, <2>4
    <3>2. w[2][k - k] \in Between(s.list[k], s.map[s.list[k]], w[2][k - k])
      BY DEF Between
    <3>. QED BY <1>2, <1>3, <2>2, <3>1, <3>2 DEF Underway, Reached
  <2>. QED BY <2>3, <2>4
<1>4. CASE p <= k
  <2>1. p \in 1 .. k /\ p + 1 \in 1 .. k + 1 /\ p + 1 - 1 = p
    BY <1>1, <1>2, <1>4
  <2>2. DisfigureHappens(x, w[1][p], n, s.map[n])
    BY <1>2, <2>1 DEF Ways, DisfigureWay
  <2>. HIDE DEF k, n, x
  <2>3. ASSUME NEW new, new = w[1][p].db PROVE Underway(s, before, r, w, "disfigure", p + 1, new)
    BY <1>2, <2>1, <2>3 DEF Underway, Reached, k
  <2>4. /\ ~Disfigures(db, n, s.map[n]) => db = w[1][p].db
        /\ Disfigures(db, n, s.map[n]) =>
             Configured(db, n) /\ MayDisfigure(db, n) /\ Disfigured(db, n) = w[1][p].db
    BY <1>2, <2>2 DEF DisfigureHappens
  <2>5. ~(p > k)
    BY <1>1, <1>4, <2>1
  <2>. QED BY <2>3, <2>4, <2>5 DEF k, n
<1>5. p > k \/ p <= k
  BY <1>1, <1>2
<1>6. ~(p > k /\ p <= k)
  BY <1>1, <1>2
<1>. QED BY <1>3, <1>4, <1>5, <1>6

\* The second pass.
LEMMA BuildUnderway ==
    ASSUME NEW s, NEW before, NEW r, NEW w, NEW p, NEW db, Underway(s, before, r, w, "build", p, db)
    PROVE  /\ p = 0 => Underway(s, before, r, w, "hold", Len(s.list), db)
           /\ p > 0 /\ Todo(db, s.list[p], s.map[s.list[p]]) = "nothing" =>
                 Underway(s, before, r, w, "build", p - 1, db)
           /\ p > 0 /\ Todo(db, s.list[p], s.map[s.list[p]]) # "nothing" =>
                 /\ Todo(db, s.list[p], s.map[s.list[p]]) \in Transactions
                 /\ ~Refused(db, s.list[p], Todo(db, s.list[p], s.map[s.list[p]]))
                 /\ Underway(s, before, r, w, "build", p,
                             Did(db, s.list[p], s.map[s.list[p]], Todo(db, s.list[p], s.map[s.list[p]])))
<1>. DEFINE k == Len(s.list)
            n == s.list[p]
            e == s.map[n]
            x == w[2][k - p]
<1>1. k \in Nat
  BY ReverseOfList DEF Underway, SoundPlan
<1>2. /\ SoundPlan(s, r) /\ Ways(s, before, r, w) /\ p \in 0 .. k
      /\ p = 0 => db = w[2][k].db
      /\ p > 0 => \E y \in Between(n, e, x) : db = y.db
  <2>1. k \in 0 .. k /\ 0 \in 0 .. k /\ \A i \in 1 .. k : i \in 0 .. k /\ i > 0
    BY <1>1
  <2>. QED BY <2>1 DEF Underway, Reached
<1>3. CASE p = 0
  <2>1. k \in 0 .. k /\ k - k = 0 /\ ~(p > 0)
    BY <1>1, <1>3
  <2>2. db = w[3][0].db
    BY <1>2, <1>3 DEF Ways
  <2>. QED BY <1>2, <2>1, <2>2 DEF Underway, Reached
<1>4. CASE p > 0
  <2>. DEFINE i == k - p + 1
  <2>1. /\ i \in 1 .. k /\ i \in 0 .. k /\ i - 1 = k - p /\ i - 1 \in 0 .. k /\ k - i + 1 = p
        /\ p \in 1 .. k /\ p # 0
    <3>1. p \in Int /\ p >= 1 /\ p <= k /\ k \in Int
      BY ONLY <1>1, <1>2, <1>4
    <3>. HIDE DEF k
    <3>. QED BY ONLY <3>1
  <2>2. Built(s, i) = n
    BY <2>1 DEF Built
  <2>3. PICK y \in Between(n, e, x) : db = y.db
    BY <1>2, <1>4
  <2>4. x = w[2][i - 1]
    BY <2>1
  <2>5. i = k - (p - 1) /\ (p - 1 > 0 => p - 1 \in 1 .. k) /\ (p - 1 = 0 => i = k) /\ p - 1 >= 0 /\ p - 1 \in Nat
    BY <1>1, <2>1
  <2>. HIDE DEF i
  <2>6. n \in Names /\ FineEntry(e)
    BY <1>2, <2>1, ReverseOfList DEF SoundPlan
  <2>. HIDE DEF k, n, e, x
  <2>7. w[2][i] = SimulateBuild(x, n, e) /\ w[2][i].status = "ok" /\ x.status = "ok"
    <3>1. w[2][i] = SimulateBuild(w[2][i - 1], Built(s, i), s.map[Built(s, i)])
      BY <1>2, <2>1 DEF Ways, BuildWay, k
    <3>2. w[2][i].status = "ok" /\ w[2][i - 1].status = "ok"
      BY <1>2, <2>1 DEF Ways, BuildWay, k
    <3>. QED BY <2>2, <2>4, <3>1, <3>2 DEF e
  <2>8. x \in GoodSimulations
    <3>1. x \in Disfiguring(s, before, r)
      BY <1>2, <2>1, <2>4 DEF Ways, BuildWay, k
    <3>. QED BY <3>1 DEF Disfiguring, Sensible, GoodSimulations
  <2>9. /\ Todo(y.db, n, e) = "nothing" => y = w[2][i]
        /\ Todo(y.db, n, e) # "nothing" => \E z \in Between(n, e, x) : Happens(y, z, n, e)
    BY <2>3, <2>6, <2>7, <2>8, BuildGood
  <2>10. ASSUME Todo(db, n, e) = "nothing" PROVE Underway(s, before, r, w, "build", p - 1, db)
    <3>1. db = w[2][i].db
      BY <2>3, <2>9, <2>10
    <3>2. CASE p - 1 = 0
      <4>1. i = k /\ db = w[2][k].db
        BY <2>5, <3>1, <3>2
      <4>2. Reached(s, w, "build", 0, db)
        BY <4>1 DEF Reached, k
      <4>. QED BY <1>2, <3>2, <4>2 DEF Underway
    <3>3. CASE p - 1 > 0
      <4>1. w[2][k - (p - 1)] \in Between(s.list[p - 1], s.map[s.list[p - 1]], w[2][k - (p - 1)])
        BY DEF Between
      <4>2. p - 1 \in 1 .. k /\ w[2][k - (p - 1)] = w[2][i]
        BY <2>5, <3>3
      <4>3. \E z \in Between(s.list[p - 1], s.map[s.list[p - 1]], w[2][k - (p - 1)]) : db = z.db
        BY <3>1, <4>1, <4>2
      <4>4. Reached(s, w, "build", p - 1, db)
        BY <4>2, <4>3 DEF Reached, k
      <4>. QED BY <1>2, <4>4 DEF Underway
    <3>4. p - 1 = 0 \/ p - 1 > 0
      BY <1>1, <2>1 DEF k
    <3>. QED BY <3>2, <3>3, <3>4
  <2>11. ASSUME Todo(db, n, e) # "nothing"
         PROVE  /\ Todo(db, n, e) \in Transactions /\ ~Refused(db, n, Todo(db, n, e))
                /\ Underway(s, before, r, w, "build", p, Did(db, n, e, Todo(db, n, e)))
    <3>1. PICK z \in Between(n, e, x) : Happens(y, z, n, e)
      BY <2>3, <2>9, <2>11
    <3>2. /\ Todo(db, n, e) \in Transactions /\ ~Refused(db, n, Todo(db, n, e))
          /\ z.db = Did(db, n, e, Todo(db, n, e))
      BY <2>3, <3>1 DEF Happens
    <3>3. ASSUME NEW new, new = z.db PROVE Underway(s, before, r, w, "build", p, new)
      BY <1>2, <2>1, <3>1, <3>3 DEF Underway, Reached, k, n, e, x
    <3>. QED BY <3>2, <3>3
  <2>. QED BY <2>1, <2>10, <2>11 DEF n, e
<1>. QED BY <1>1, <1>2, <1>3, <1>4

\* The third pass.
LEMMA HoldUnderway ==
    ASSUME NEW s, NEW before, NEW r, NEW w, NEW p, NEW db, Underway(s, before, r, w, "hold", p, db)
    PROVE  /\ p = 0 => db = Simulated(s, before).db
           /\ p > 0 =>
                 Underway(s, before, r, w, "hold", p - 1,
                          IF s.map[s.list[p]].action = "drop" THEN db
                          ELSE HoldState(db, s.list[p], s.map[s.list[p]]))
<1>. DEFINE k == Len(s.list)
            n == s.list[p]
            e == s.map[n]
            new == IF e.action = "drop" THEN db ELSE HoldState(db, n, e)
<1>1. k \in Nat
  BY ReverseOfList DEF Underway, SoundPlan
<1>2. SoundPlan(s, r) /\ Ways(s, before, r, w) /\ p \in 0 .. k /\ db = w[3][k - p].db
  BY DEF Underway, Reached
<1>3. p = 0 => db = Simulated(s, before).db
  <2>1. k - 0 = k
    BY <1>1
  <2>. QED BY <1>2, <2>1 DEF Ways
<1>4. ASSUME p > 0 PROVE Underway(s, before, r, w, "hold", p - 1, new)
  <2>. DEFINE i == k - p + 1
  <2>1. /\ i \in 1 .. k /\ i - 1 = k - p /\ k - i + 1 = p /\ p - 1 \in 0 .. k /\ i = k - (p - 1)
    <3>1. p \in Int /\ p >= 1 /\ p <= k /\ k \in Int
      BY ONLY <1>1, <1>2, <1>4
    <3>. HIDE DEF k
    <3>. QED BY ONLY <3>1
  <2>2. Built(s, i) = n
    BY <2>1 DEF Built
  <2>. HIDE DEF i
  <2>3. HoldHappens(w[3][i - 1], w[3][i], n, e)
    <3>1. HoldHappens(w[3][i - 1], w[3][i], Built(s, i), s.map[Built(s, i)])
      BY <1>2, <2>1 DEF Ways, HoldWay
    <3>. QED BY <2>2, <3>1
  <2>. HIDE DEF k, n, e
  <2>4. new = w[3][i].db
    BY <1>2, <2>1, <2>3 DEF HoldHappens
  <2>. HIDE DEF new
  <2>. QED BY <1>2, <2>1, <2>4 DEF Underway, Reached, k
<1>. QED BY <1>3, <1>4
-----------------------------------------------------------------------------
(***************************************************************************)
(* An iteration of the refinement.                                         *)
(***************************************************************************)

\* A plan that has failed is not simulated.
LEMMA StoppedSimulated ==
    ASSUME NEW s \in Plans, s.status # "ok", NEW db \in Databases
    PROVE  Simulated(s, db) \in Simulations /\ Simulated(s, db).status = s.status
<1>. DEFINE start == [status |-> s.status, db |-> db]
            one == Fold(DisfigureSteps(s), start, s.list)
            two == Fold(BuildSteps(s), one, Reverse(s.list))
            three == Fold(HoldSteps(s), two, Reverse(s.list))
            S == {start}
<1>1. Simulated(s, db) = three
  BY DEF Simulated, DisfigureSteps, BuildSteps, HoldSteps
<1>2. /\ s.list \in Seq(Names) /\ Reverse(s.list) \in Seq(Names)
      /\ \A i \in 1 .. Len(s.list) : s.list[i] \in Names
      /\ \A i \in 1 .. Len(Reverse(s.list)) : Reverse(s.list)[i] \in Names
  BY PlanIn, ReverseOfList
<1>3. start \in Simulations /\ start.status = s.status
  BY PlanIn DEF Simulations
<1>. HIDE DEF start
<1>4. \A n \in Names : /\ DisfigureSteps(s)[n][start] = start
                       /\ HoldSteps(s)[n][start] = start
  BY <1>3 DEF DisfigureSteps, HoldSteps, SimulateDisfigure, SimulateHold
<1>5. ASSUME NEW n \in Names PROVE BuildSteps(s)[n][start] = start
  <2>1. SimulateTransaction(n, s.map[n])[start] = start
    BY <1>3 DEF SimulateTransaction
  <2>. QED BY <1>3, <2>1 DEF BuildSteps, SimulateBuild
<1>6. /\ \A i \in 1 .. Len(s.list) : \A t \in S : DisfigureSteps(s)[s.list[i]][t] \in S
      /\ \A i \in 1 .. Len(Reverse(s.list)) : \A t \in S : BuildSteps(s)[Reverse(s.list)[i]][t] \in S
      /\ \A i \in 1 .. Len(Reverse(s.list)) : \A t \in S : HoldSteps(s)[Reverse(s.list)[i]][t] \in S
  BY <1>2, <1>4, <1>5
<1>7. start \in S /\ \A t \in S : t = start
  OBVIOUS
<1>. HIDE DEF S
<1>8. one \in S
  BY <1>2, <1>6, <1>7, FoldStays
<1>. HIDE DEF one
<1>9. two \in S
  BY <1>2, <1>6, <1>8, FoldStays
<1>. HIDE DEF two
<1>10. three \in S
  BY <1>2, <1>6, <1>9, FoldStays
<1>. QED BY <1>1, <1>3, <1>7, <1>10

\* The plan of an iteration, and its simulation.
LEMMA IterationFine ==
    ASSUME PlanContext(selected, request, deps),
           ~scratch => pkgs \in FinePlans(selected, request, deps),
           NEW s, s = Planned, NEW x, x = Simulated(s, selected)
    PROVE  /\ s \in Plans /\ x \in Simulations
           /\ x.status = "ok" =>
                /\ s \in FinePlans(selected, request, deps) /\ SoundPlan(s, request)
                /\ \E w : Ways(s, selected, request, w)
                /\ Result(s, selected, request, deps, x.db)
<1>. DEFINE D == Range(deps)
            H == HoldNames(request)
            U == DepNames(request)
            R == HoldNames(request) \cup Unheld(selected, request)
<1>1. s \in FinePlans(selected, request, deps)
  BY PlannedFine
<1>2. s \in Fine(selected, request, D, H, U, R)
  BY <1>1 DEF FinePlans
<1>3. s \in Plans
  BY <1>2 DEF Fine
<1>4. GoodDatabase(selected) /\ selected \in Databases
  BY DEF PlanContext, Context, GoodDatabase
<1>5. CASE s.status # "ok"
  BY <1>3, <1>4, <1>5, StoppedSimulated
<1>6. CASE s.status = "ok"
  <2>1. SoundPlan(s, request)
    BY <1>2, <1>6, FinePlanSound
  <2>2. \A n \in Names : EntryFine(selected, request, D, H, U, n, s.map[n])
    BY <1>2, <1>6 DEF Fine
  <2>3. Sensible(s, selected, request, selected)
    BY <1>4, <2>2 DEF Sensible, EntryFine
  <2>4. /\ x \in Simulations
        /\ x.status = "ok" =>
             /\ x \in Holding(s, selected, request, Range(s.list))
             /\ \E w : Ways(s, selected, request, w)
    BY <1>6, <2>1, <2>3, SimulatedWays
  <2>5. x.status = "ok" => Result(s, selected, request, deps, x.db)
    BY <1>1, <1>6, <2>4 DEF Holding, Result
  <2>. QED BY <1>1, <1>3, <2>1, <2>4, <2>5
<1>. QED BY <1>5, <1>6

\* More decisions leave a plan fine.
LEMMA MoreDecisions ==
    ASSUME NEW db, NEW r, NEW decisions, NEW more, Range(decisions) \subseteq Range(more)
    PROVE  FinePlans(db, r, decisions) \subseteq FinePlans(db, r, more)
<1>1. \A H, U, n, e : EntryFine(db, r, Range(decisions), H, U, n, e) => EntryFine(db, r, Range(more), H, U, n, e)
  BY DEF EntryFine
<1>. QED BY <1>1 DEF FinePlans, Fine
-----------------------------------------------------------------------------
(***************************************************************************)
(* The invariant.                                                          *)
(***************************************************************************)

\* While it is refined, a plan is fine for the database, which is as it was
\* when pkg-build was started; no decision drops what was held then.
PlanRefined ==
    /\ PlanContext(selected, request, deps)
    /\ ~scratch => pkgs \in FinePlans(selected, request, deps)
    /\ held \subseteq {n \in Names : Configured(selected, n) /\ selected[n].hold_package}
    /\ \A n \in held \ DepNames(request) : <<n, 0>> \notin Range(deps)

\* While it is executed, it follows a simulation after which the request is honoured.
PlanExecuted ==
    \E before, w : /\ Underway(pkgs, before, request, w, phase, pos, selected)
                   /\ Honoured(Simulated(pkgs, before).db)

\* The phases of the execution.
Executing == {"disfigure", "build", "hold"}

\* The inductive invariant: the packages always stand, a plan is fine while it
\* is refined and follows its simulation while it is executed.
IInv ==
    /\ TypeOK
    /\ GoodDatabase(selected) /\ ValidRequest(request)
    /\ phase \notin Executing => pos = 0
    /\ phase = "idle" => scratch /\ deps = <<>>
    /\ phase = "plan" => PlanRefined
    /\ phase \in Executing => PlanExecuted
    /\ outcome # "none" => phase = "end"
    /\ outcome = "done" => Honoured(selected)

\* Whether a request is honoured depends on the request and on what was held.
LEMMA HonouredStays ==
    ASSUME request' = request, held' = held, NEW db
    PROVE  Honoured(db)' <=> Honoured(db)
BY DEF Honoured, HoldHonoured, DependencyHonoured, HeldThere, NothingUnused

\* It holds initially: nothing is there and nothing has been asked for.
LEMMA InitInv ==
    ASSUME Init
    PROVE  IInv
<1>1. GoodPackage(NotSelected) /\ NotSelected.state = "none"
  BY DEF GoodPackage, NotSelected, Packages
<1>2. GoodDatabase(selected)
  BY <1>1 DEF Init, GoodDatabase, Databases, Standing, Configured, GoodPackage
<1>3. ValidRequest(request)
  BY RequestsAreValid DEF Init
<1>4. NoPackages \in Plans /\ NoPackages.list = <<>>
  BY NothingPlanned DEF NoPackages
<1>5. MaxRequests \in Nat
  BY PkgBuildAssumption
<1>6. TypeOK
  <2>1. pos \in 0 .. Len(pkgs.list) + 1
    BY <1>4 DEF Init
  <2>. QED BY <1>2, <1>4, <1>5, <2>1 DEF TypeOK, Init, GoodDatabase
<1>. QED BY <1>2, <1>3, <1>6 DEF IInv, Init, Executing

\* A step of the execution after which it still follows the simulation.
LEMMA UnderwayKeeps ==
    ASSUME IInv, phase \in Executing, UNCHANGED plan, outcome' = outcome, phase' \in Executing,
           NEW before, NEW w, Underway(pkgs, before, request, w, phase', pos', selected'),
           Honoured(Simulated(pkgs, before).db)
    PROVE  IInv'
<1>1. /\ request' = request /\ pkgs' = pkgs /\ deps' = deps /\ scratch' = scratch /\ held' = held
      /\ requests' = requests
  BY DEF plan
<1>2. Sensible(pkgs, before, request, selected') /\ pos' \in 0 .. Len(pkgs.list) + 1
  BY UnderwaySensible
<1>3. GoodDatabase(selected')
  BY <1>2 DEF Sensible
<1>4. Honoured(Simulated(pkgs, before).db)'
  BY <1>1 DEF Honoured, HoldHonoured, DependencyHonoured, HeldThere, NothingUnused
<1>5. PlanExecuted'
  BY <1>1, <1>4 DEF PlanExecuted
<1>6. TypeOK'
  BY <1>1, <1>2, <1>3 DEF TypeOK, IInv, GoodDatabase, Executing
<1>7. outcome = "none"
  BY DEF IInv, Executing
<1>. QED BY <1>1, <1>3, <1>5, <1>6, <1>7 DEF IInv, Executing

\* pkg-build ends, in one way or another.
LEMMA EndKeeps ==
    ASSUME IInv, NEW how, End(how), how \in {"done", "aborted"} \cup (Statuses \ {"ok"}),
           UNCHANGED <<selected, request, deps, scratch, held, requests>>, pkgs' \in Plans,
           how = "done" => Honoured(selected)
    PROVE  IInv'
<1>1. phase' = "end" /\ outcome' = how /\ pos' = 0 /\ selected' = selected
  BY DEF End
<1>2. Len(pkgs'.list) \in Nat
  BY PlanIn
<1>3. pos' \in 0 .. Len(pkgs'.list) + 1
  BY <1>1, <1>2
<1>4. TypeOK'
  BY <1>1, <1>3 DEF TypeOK, IInv
<1>5. how = "done" => Honoured(selected)'
  BY <1>1 DEF Honoured, HoldHonoured, DependencyHonoured, HeldThere, NothingUnused
<1>. QED BY <1>1, <1>4, <1>5 DEF IInv, Executing

\* A package is disfigured as in the simulation, and not refused.
LEMMA ExecuteDisfigureKeeps ==
    ASSUME IInv, ExecuteDisfigure
    PROVE  IInv' /\ outcome' = outcome
<1>1. /\ phase = "disfigure" /\ pos <= Len(pkgs.list) /\ Disfigures(selected, Name, Entry)
      /\ Name = pkgs.list[pos] /\ Entry = pkgs.map[pkgs.list[pos]] /\ UNCHANGED plan
  BY DEF ExecuteDisfigure, ListLength, Name, Entry
<1>2. PICK before, w : /\ Underway(pkgs, before, request, w, "disfigure", pos, selected)
                       /\ Honoured(Simulated(pkgs, before).db)
  BY <1>1 DEF IInv, PlanExecuted, Executing
<1>3. /\ Configured(selected, Name) /\ MayDisfigure(selected, Name)
      /\ Underway(pkgs, before, request, w, "disfigure", pos + 1, Disfigured(selected, Name))
  BY <1>1, <1>2, DisfigureUnderway
<1>4. selected' = Disfigured(selected, Name) /\ pos' = pos + 1 /\ phase' = "disfigure" /\ outcome' = outcome
  BY <1>1, <1>3 DEF ExecuteDisfigure
<1>. QED BY <1>1, <1>2, <1>3, <1>4, UnderwayKeeps DEF Executing

\* A package is purged, fetched, unpacked or configured as in the simulation,
\* and not refused.
LEMMA ExecuteBuildKeeps ==
    ASSUME IInv, ExecuteBuild
    PROVE  IInv' /\ outcome' = outcome
<1>. DEFINE todo == Todo(selected, Name, Entry)
<1>1. /\ phase = "build" /\ pos > 0 /\ todo # "nothing"
      /\ Name = pkgs.list[pos] /\ Entry = pkgs.map[pkgs.list[pos]] /\ UNCHANGED plan
  BY DEF ExecuteBuild, Name, Entry
<1>2. PICK before, w : /\ Underway(pkgs, before, request, w, "build", pos, selected)
                       /\ Honoured(Simulated(pkgs, before).db)
  BY <1>1 DEF IInv, PlanExecuted, Executing
<1>3. /\ todo \in Transactions /\ ~Refused(selected, Name, todo)
      /\ Underway(pkgs, before, request, w, "build", pos, Did(selected, Name, Entry, todo))
  BY <1>1, <1>2, BuildUnderway
<1>4. todo # "assertion"
  BY <1>3 DEF Transactions
<1>5. selected' = Did(selected, Name, Entry, todo) /\ UNCHANGED <<phase, pos, outcome>>
  BY <1>3, <1>4 DEF ExecuteBuild
<1>. QED BY <1>1, <1>2, <1>3, <1>5, UnderwayKeeps DEF Executing

\* The hold state of a package is updated as in the simulation.
LEMMA ExecuteHoldKeeps ==
    ASSUME IInv, ExecuteHold
    PROVE  IInv' /\ outcome' = outcome
<1>1. /\ phase = "hold" /\ pos > 0 /\ pos' = pos - 1 /\ UNCHANGED <<phase, outcome, plan>>
      /\ Name = pkgs.list[pos] /\ Entry = pkgs.map[pkgs.list[pos]]
      /\ selected' = IF Entry.action = "drop" THEN selected ELSE HoldState(selected, Name, Entry)
  BY DEF ExecuteHold, Name, Entry
<1>2. PICK before, w : /\ Underway(pkgs, before, request, w, "hold", pos, selected)
                       /\ Honoured(Simulated(pkgs, before).db)
  BY <1>1 DEF IInv, PlanExecuted, Executing
<1>3. Underway(pkgs, before, request, w, "hold", pos - 1, selected')
  BY <1>1, <1>2, HoldUnderway
<1>. QED BY <1>1, <1>2, <1>3, UnderwayKeeps DEF Executing

\* The execution goes on where the simulation does.
LEMMA ExecuteNextKeeps ==
    ASSUME IInv, ExecuteNext
    PROVE  IInv' /\ outcome' = outcome
<1>1. /\ UNCHANGED <<selected, plan, outcome>> /\ phase \in {"disfigure", "build"}
      /\ Name = pkgs.list[pos] /\ Entry = pkgs.map[pkgs.list[pos]] /\ ListLength = Len(pkgs.list)
  BY DEF ExecuteNext, Name, Entry, ListLength
<1>2. PICK before, w : /\ Underway(pkgs, before, request, w, phase, pos, selected)
                       /\ Honoured(Simulated(pkgs, before).db)
  BY <1>1 DEF IInv, PlanExecuted, Executing
<1>3. pos \in 0 .. Len(pkgs.list) + 1 /\ Len(pkgs.list) \in Nat
  BY <1>2, UnderwaySensible, ReverseOfList DEF Underway, SoundPlan
<1>4. CASE phase = "disfigure" /\ pos > ListLength
  <2>1. phase' = "build" /\ pos' = Len(pkgs.list)
    BY <1>1, <1>4 DEF ExecuteNext
  <2>2. Underway(pkgs, before, request, w, "build", pos', selected')
    BY <1>1, <1>2, <1>4, <2>1, DisfigureUnderway
  <2>. QED BY <1>1, <1>2, <1>4, <2>1, <2>2, UnderwayKeeps DEF Executing
<1>5. CASE phase = "disfigure" /\ ~(pos > ListLength)
  <2>1. phase' = "disfigure" /\ pos' = pos + 1 /\ ~Disfigures(selected, Name, Entry) /\ pos <= Len(pkgs.list)
    BY <1>1, <1>3, <1>5 DEF ExecuteNext
  <2>2. Underway(pkgs, before, request, w, "disfigure", pos', selected')
    BY <1>1, <1>2, <1>5, <2>1, DisfigureUnderway
  <2>. QED BY <1>1, <1>2, <1>5, <2>1, <2>2, UnderwayKeeps DEF Executing
<1>6. CASE phase = "build" /\ pos = 0
  <2>1. phase' = "hold" /\ pos' = Len(pkgs.list)
    BY <1>1, <1>6 DEF ExecuteNext
  <2>2. Underway(pkgs, before, request, w, "hold", pos', selected')
    BY <1>1, <1>2, <1>6, <2>1, BuildUnderway
  <2>. QED BY <1>1, <1>2, <1>6, <2>1, <2>2, UnderwayKeeps DEF Executing
<1>7. CASE phase = "build" /\ pos # 0
  <2>1. phase' = "build" /\ pos' = pos - 1 /\ Todo(selected, Name, Entry) = "nothing" /\ pos > 0
    BY <1>1, <1>3, <1>7 DEF ExecuteNext
  <2>2. Underway(pkgs, before, request, w, "build", pos', selected')
    BY <1>1, <1>2, <1>7, <2>1, BuildUnderway
  <2>. QED BY <1>1, <1>2, <1>7, <2>1, <2>2, UnderwayKeeps DEF Executing
<1>. QED BY <1>1, <1>4, <1>5, <1>6, <1>7

\* The database that the execution ends with is that of the simulation, by
\* which the request is honoured.
LEMMA ExecuteDoneKeeps ==
    ASSUME IInv, ExecuteDone
    PROVE  IInv'
<1>1. phase = "hold" /\ pos = 0 /\ End("done") /\ UNCHANGED <<selected, plan>>
  BY DEF ExecuteDone
<1>2. PICK before, w : /\ Underway(pkgs, before, request, w, "hold", pos, selected)
                       /\ Honoured(Simulated(pkgs, before).db)
  BY <1>1 DEF IInv, PlanExecuted, Executing
<1>3. Honoured(selected)
  BY <1>1, <1>2, HoldUnderway
<1>4. pkgs' \in Plans
  BY <1>1 DEF plan, IInv, TypeOK
<1>. QED BY <1>1, <1>3, <1>4, EndKeeps DEF plan

\* Wherever the execution fails, the packages stand.
LEMMA AbortKeeps ==
    ASSUME IInv, Abort
    PROVE  IInv'
<1>1. End("aborted") /\ UNCHANGED <<selected, plan>>
  BY DEF Abort
<1>2. pkgs' \in Plans
  BY <1>1 DEF plan, IInv, TypeOK
<1>. QED BY <1>1, <1>2, EndKeeps DEF plan

\* The elements of two sequences, one after the other.
LEMMA RangeOfConcat ==
    ASSUME NEW S, NEW a \in Seq(S), NEW b \in Seq(S)
    PROVE  a \o b \in Seq(S) /\ Range(a \o b) = Range(a) \cup Range(b)
<1>1. /\ a \o b \in Seq(S) /\ Len(a \o b) = Len(a) + Len(b) /\ Len(a) \in Nat /\ Len(b) \in Nat
      /\ \A i \in 1 .. Len(a) : (a \o b)[i] = a[i]
      /\ \A i \in 1 .. Len(b) : (a \o b)[Len(a) + i] = b[i]
  OBVIOUS
<1>2. /\ \A i \in 1 .. Len(a) : i \in 1 .. Len(a) + Len(b)
      /\ \A i \in 1 .. Len(b) : Len(a) + i \in 1 .. Len(a) + Len(b)
      /\ \A i \in 1 .. Len(a) + Len(b) :
            i \in 1 .. Len(a) \/ \E j \in 1 .. Len(b) : i = Len(a) + j
  <2>1. ASSUME NEW i \in 1 .. Len(a) + Len(b), i \notin 1 .. Len(a)
        PROVE  \E j \in 1 .. Len(b) : i = Len(a) + j
    <3>1. i - Len(a) \in 1 .. Len(b) /\ i = Len(a) + (i - Len(a))
      BY <1>1, <2>1
    <3>. QED BY <3>1
  <2>. QED BY <1>1, <2>1
<1>3. ASSUME NEW x PROVE x \in Range(a \o b) <=> x \in Range(a) \/ x \in Range(b)
  <2>1. x \in Range(a) <=> \E i \in 1 .. Len(a) : x = a[i]
    BY RangeOf
  <2>2. x \in Range(b) <=> \E i \in 1 .. Len(b) : x = b[i]
    BY RangeOf
  <2>3. x \in Range(a \o b) <=> \E i \in 1 .. Len(a) + Len(b) : x = (a \o b)[i]
    <3>1. PICK c \in Seq(S) : c = a \o b
      BY <1>1
    <3>2. x \in Range(c) <=> \E i \in 1 .. Len(c) : x = c[i]
      BY RangeOf
    <3>. QED BY <1>1, <3>1, <3>2
  <2>4. ASSUME x \in Range(a \o b) PROVE x \in Range(a) \/ x \in Range(b)
    <3>1. PICK i \in 1 .. Len(a) + Len(b) : x = (a \o b)[i]
      BY <2>3, <2>4
    <3>2. CASE i \in 1 .. Len(a)
      BY <1>1, <2>1, <3>1, <3>2
    <3>3. CASE i \notin 1 .. Len(a)
      <4>1. PICK j \in 1 .. Len(b) : i = Len(a) + j
        BY <1>2, <3>3
      <4>. QED BY <1>1, <2>2, <3>1, <4>1
    <3>. QED BY <3>2, <3>3
  <2>5. ASSUME x \in Range(a) PROVE x \in Range(a \o b)
    <3>1. PICK i \in 1 .. Len(a) : x = a[i]
      BY <2>1, <2>5
    <3>2. i \in 1 .. Len(a) + Len(b) /\ x = (a \o b)[i]
      BY <1>1, <1>2, <3>1
    <3>. QED BY <2>3, <3>2
  <2>6. ASSUME x \in Range(b) PROVE x \in Range(a \o b)
    <3>1. PICK j \in 1 .. Len(b) : x = b[j]
      BY <2>2, <2>6
    <3>2. Len(a) + j \in 1 .. Len(a) + Len(b) /\ x = (a \o b)[Len(a) + j]
      BY <1>1, <1>2, <3>1
    <3>. QED BY <2>3, <3>2
  <2>. QED BY <2>4, <2>5, <2>6
<1>. QED BY <1>1, <1>3

\* A request is made, and the decisions start from nothing.
LEMMA RequestKeeps ==
    ASSUME IInv, NEW r \in Requests, Request(r)
    PROVE  IInv'
<1>1. /\ phase = "idle" /\ requests < MaxRequests /\ request' = r /\ requests' = requests + 1
      /\ held' = {n \in Names : Configured(selected, n) /\ selected[n].hold_package}
      /\ phase' = "plan" /\ UNCHANGED <<selected, pkgs, deps, scratch, pos, outcome>>
  BY DEF Request
<1>2. ValidRequest(r)
  BY RequestsAreValid
<1>3. scratch /\ deps = <<>> /\ pos = 0 /\ outcome = "none"
  BY <1>1 DEF IInv, Executing
<1>4. deps \in Seq(Decided) /\ Range(deps) = {}
  BY <1>3 DEF Range
<1>5. PlanContext(selected, r, deps)
  BY <1>2, <1>4 DEF PlanContext, Context, Decide, IInv
<1>6. PlanRefined'
  BY <1>1, <1>3, <1>4, <1>5 DEF PlanRefined
<1>7. TypeOK'
  <2>1. requests' \in 0 .. MaxRequests
    BY <1>1, PkgBuildAssumption DEF IInv, TypeOK
  <2>. QED BY <1>1, <2>1 DEF IInv, TypeOK
<1>. QED BY <1>1, <1>2, <1>3, <1>6, <1>7 DEF IInv, Executing

\* pkg-build exits.
LEMMA ExitKeeps ==
    ASSUME IInv, Exit
    PROVE  IInv'
<1>1. /\ phase = "end" /\ phase' = "idle" /\ outcome' = "none" /\ request' = NoRequest /\ held' = {}
      /\ pkgs' = NoPackages /\ deps' = <<>> /\ scratch' = TRUE /\ UNCHANGED <<selected, pos, requests>>
  BY DEF Exit
<1>2. NoPackages \in Plans /\ NoPackages.list = <<>>
  BY NothingPlanned DEF NoPackages
<1>3. pos = 0
  BY <1>1 DEF IInv, Executing
<1>4. pos' \in 0 .. Len(pkgs'.list) + 1
  BY <1>1, <1>2, <1>3
<1>5. TypeOK'
  BY <1>1, <1>2, <1>4 DEF IInv, TypeOK
<1>. QED BY <1>1, <1>3, <1>5, RequestsAreValid DEF IInv, Executing

\* A decision is taken back.
LEMMA FewerKeeps ==
    ASSUME IInv, phase = "plan", UNCHANGED <<selected, request, held, requests, phase, pos, outcome>>,
           pkgs' \in Plans, NEW set, deps' = Those(deps, set), scratch' = TRUE
    PROVE  IInv'
<1>1. PlanRefined /\ deps \in Seq(Decided) /\ pos = 0 /\ outcome = "none"
  BY DEF IInv, TypeOK, Executing
<1>2. deps' \in Seq(Decided) /\ Range(deps') \subseteq Range(deps)
  BY <1>1, ThoseIn
<1>3. PlanContext(selected, request, deps')
  BY <1>1, <1>2 DEF PlanRefined, PlanContext, Decide
<1>4. PlanRefined'
  BY <1>1, <1>2, <1>3 DEF PlanRefined
<1>5. Len(pkgs'.list) \in Nat
  BY PlanIn
<1>6. pos' \in 0 .. Len(pkgs'.list) + 1
  BY <1>1, <1>5
<1>7. TypeOK'
  BY <1>2, <1>6 DEF IInv, TypeOK
<1>. QED BY <1>1, <1>4, <1>7 DEF IInv, Executing

\* Decisions are made.
LEMMA MoreKeeps ==
    ASSUME IInv, phase = "plan", UNCHANGED <<selected, request, held, requests, phase, pos, outcome>>,
           pkgs' \in FinePlans(selected, request, deps), pkgs' \in Plans,
           NEW new, Decide(request, new), \A n \in held \ DepNames(request) : <<n, 0>> \notin Range(new),
           deps' = deps \o new, scratch' = FALSE
    PROVE  IInv'
<1>1. /\ PlanRefined /\ deps \in Seq(Decided) /\ new \in Seq(Decided) /\ pos = 0 /\ outcome = "none"
      /\ Decide(request, deps)
  BY DEF IInv, TypeOK, Executing, Decide, PlanRefined, PlanContext
<1>2. deps' \in Seq(Decided) /\ Range(deps') = Range(deps) \cup Range(new)
  BY <1>1, RangeOfConcat
<1>3. Decide(request, deps')
  BY <1>1, <1>2 DEF Decide
<1>4. PlanContext(selected, request, deps')
  BY <1>1, <1>3 DEF PlanRefined, PlanContext
<1>5. pkgs' \in FinePlans(selected, request, deps')
  BY <1>2, MoreDecisions
<1>6. PlanRefined'
  BY <1>1, <1>2, <1>4, <1>5 DEF PlanRefined
<1>7. Len(pkgs'.list) \in Nat
  BY PlanIn
<1>8. pos' \in 0 .. Len(pkgs'.list) + 1
  BY <1>1, <1>7
<1>9. TypeOK'
  BY <1>2, <1>8 DEF IInv, TypeOK
<1>. QED BY <1>1, <1>6, <1>9 DEF IInv, Executing

\* The plan is executed.
LEMMA ExecutionStarts ==
    ASSUME IInv, phase = "plan", UNCHANGED <<selected, request, deps, scratch, held, requests, outcome>>,
           phase' = "disfigure", pos' = 1, pkgs' \in Plans, SoundPlan(pkgs', request),
           NEW w, Ways(pkgs', selected, request, w),
           Honoured(Simulated(pkgs', selected).db)
    PROVE  IInv'
<1>1. Len(pkgs'.list) \in Nat
  BY PlanIn
<1>2. 1 \in 1 .. Len(pkgs'.list) + 1 /\ 1 \in 0 .. Len(pkgs'.list) + 1 /\ 1 - 1 = 0
  BY <1>1
<1>3. selected = w[1][0].db
  BY DEF Ways, DisfigureWay
<1>4. Underway(pkgs', selected, request', w, phase', pos', selected')
  BY <1>2, <1>3 DEF Underway, Reached
<1>5. PICK before : before = selected
  OBVIOUS
<1>6. Honoured(Simulated(pkgs, before).db)'
  BY <1>5 DEF Honoured, HoldHonoured, DependencyHonoured, HeldThere, NothingUnused
<1>7. PlanExecuted'
  BY <1>4, <1>5, <1>6 DEF PlanExecuted
<1>8. TypeOK'
  BY <1>2 DEF IInv, TypeOK
<1>9. outcome = "none"
  BY DEF IInv
<1>. QED BY <1>7, <1>8, <1>9 DEF IInv, Executing

\* One iteration of the refinement: fewer decisions, more of them, or the
\* execution of a plan that honours the request.
LEMMA RefineKeeps ==
    ASSUME IInv, Refine
    PROVE  IInv'
<1>. DEFINE stand(x) == Those(deps, {d \in Range(deps) : Stands(x.db, request, d)})
            new(x) == Decisions(x.db, request)
<1>1. PICK s \in {Planned} : \E x \in {Simulated(s, selected)} :
         /\ pkgs' = s
         /\ \/ /\ x.status # "ok"
               /\ End(x.status)
               /\ UNCHANGED <<deps, scratch>>
            \/ /\ x.status = "ok" /\ stand(x) # deps
               /\ deps' = stand(x) /\ scratch' = TRUE
               /\ UNCHANGED <<phase, pos, outcome>>
            \/ /\ x.status = "ok" /\ stand(x) = deps /\ new(x) # <<>>
               /\ deps' = deps \o new(x) /\ scratch' = FALSE
               /\ UNCHANGED <<phase, pos, outcome>>
            \/ /\ x.status = "ok" /\ stand(x) = deps /\ new(x) = <<>>
               /\ IF \E n \in Names : Configured(x.db, n) /\ Unsatisfiable(x.db, request, n)
                  THEN End("failed")
                  ELSE phase' = "disfigure" /\ pos' = 1 /\ UNCHANGED outcome
               /\ UNCHANGED <<deps, scratch>>
  BY DEF Refine
<1>2. PICK x : x = Simulated(s, selected)
               /\ pkgs' = s
               /\ \/ /\ x.status # "ok"
                     /\ End(x.status)
                     /\ UNCHANGED <<deps, scratch>>
                  \/ /\ x.status = "ok" /\ stand(x) # deps
                     /\ deps' = stand(x) /\ scratch' = TRUE
                     /\ UNCHANGED <<phase, pos, outcome>>
                  \/ /\ x.status = "ok" /\ stand(x) = deps /\ new(x) # <<>>
                     /\ deps' = deps \o new(x) /\ scratch' = FALSE
                     /\ UNCHANGED <<phase, pos, outcome>>
                  \/ /\ x.status = "ok" /\ stand(x) = deps /\ new(x) = <<>>
                     /\ IF \E n \in Names : Configured(x.db, n) /\ Unsatisfiable(x.db, request, n)
                        THEN End("failed")
                        ELSE phase' = "disfigure" /\ pos' = 1 /\ UNCHANGED outcome
                     /\ UNCHANGED <<deps, scratch>>
  BY <1>1
<1>3. phase = "plan" /\ UNCHANGED <<selected, request, held, requests>>
  BY DEF Refine
<1>4. PlanRefined
  BY <1>3 DEF IInv
<1>5. /\ s \in Plans /\ x \in Simulations /\ pkgs' = s
      /\ x.status = "ok" =>
           /\ s \in FinePlans(selected, request, deps) /\ SoundPlan(s, request)
           /\ \E w : Ways(s, selected, request, w)
           /\ Result(s, selected, request, deps, x.db)
  BY <1>1, <1>2, <1>4, IterationFine DEF PlanRefined
<1>6. GoodDatabase(selected) /\ ValidRequest(request)
  BY DEF IInv
<1>7. CASE x.status # "ok" /\ End(x.status) /\ UNCHANGED <<deps, scratch>>
  <2>1. x.status \in Statuses \ {"ok"} /\ x.status # "done"
    BY <1>5, <1>7 DEF Simulations, Statuses
  <2>. QED BY <1>3, <1>5, <1>7, <2>1, EndKeeps
<1>8. CASE deps' = stand(x) /\ scratch' = TRUE /\ UNCHANGED <<phase, pos, outcome>>
  BY <1>3, <1>5, <1>8, FewerKeeps
<1>9. CASE x.status = "ok" /\ deps' = deps \o new(x) /\ scratch' = FALSE /\ UNCHANGED <<phase, pos, outcome>>
  <2>1. Result(s, selected, request, deps, x.db) /\ GoodDatabase(x.db)
    BY <1>5, <1>9 DEF Result, Sensible
  <2>2. Decide(request, new(x)) /\ \A d \in Range(new(x)) : ~x.db[d[1]].hold_package
    BY <1>6, <2>1, DecisionsIn
  <2>. HIDE DEF new
  <2>3. ASSUME NEW n \in held \ DepNames(request), <<n, 0>> \in Range(new(x)) PROVE FALSE
    <3>1. /\ n \in Names /\ Configured(selected, n) /\ selected[n].hold_package /\ n \notin DepNames(request)
          /\ <<n, 0>> \notin Range(deps)
      BY <1>4, <2>3 DEF PlanRefined
    <3>2. x.db[n].hold_package
      BY <1>6, <2>1, <3>1, HeldStays
    <3>3. <<n, 0>>[1] = n
      OBVIOUS
    <3>. QED BY <2>2, <2>3, <3>2, <3>3
  <2>. QED BY <1>3, <1>5, <1>9, <2>2, <2>3, MoreKeeps
<1>10. CASE /\ x.status = "ok" /\ new(x) = <<>> /\ UNCHANGED <<deps, scratch>>
            /\ IF \E n \in Names : Configured(x.db, n) /\ Unsatisfiable(x.db, request, n)
               THEN End("failed")
               ELSE phase' = "disfigure" /\ pos' = 1 /\ UNCHANGED outcome
  <2>1. CASE \E n \in Names : Configured(x.db, n) /\ Unsatisfiable(x.db, request, n)
    <3>1. End("failed") /\ "failed" \in Statuses \ {"ok"}
      BY <1>10, <2>1 DEF Statuses
    <3>. QED BY <1>3, <1>5, <1>10, <3>1, EndKeeps
  <2>2. CASE ~\E n \in Names : Configured(x.db, n) /\ Unsatisfiable(x.db, request, n)
    <3>1. phase' = "disfigure" /\ pos' = 1 /\ UNCHANGED outcome
      BY <1>10, <2>2
    <3>2. PICK w : Ways(s, selected, request, w)
      BY <1>5, <1>10
    <3>3. /\ held \subseteq {n \in Names : Configured(selected, n) /\ selected[n].hold_package}
          /\ \A n \in held \ DepNames(request) : <<n, 0>> \notin Range(deps)
      BY <1>4 DEF PlanRefined
    <3>4. Honoured(x.db)
      <4>1. Result(s, selected, request, deps, x.db) /\ Decisions(x.db, request) = <<>>
        BY <1>5, <1>10
      <4>2. \A n \in Names : Configured(x.db, n) => ~Unsatisfiable(x.db, request, n)
        BY <2>2
      <4>. QED BY <1>6, <3>3, <4>1, <4>2, ResultHonoured
    <3>5. Honoured(Simulated(pkgs', selected).db) /\ SoundPlan(pkgs', request) /\ pkgs' \in Plans
      BY <1>2, <1>5, <1>10, <3>4
    <3>. QED BY <1>3, <1>5, <1>10, <3>1, <3>2, <3>5, ExecutionStarts
  <2>. QED BY <2>1, <2>2
<1>. QED BY <1>2, <1>7, <1>8, <1>9, <1>10

\* Every step keeps the invariant.
LEMMA NextKeeps ==
    ASSUME IInv, [Next]_vars
    PROVE  IInv'
<1>1. CASE Refine
  BY <1>1, RefineKeeps
<1>2. CASE ExecuteDisfigure
  BY <1>2, ExecuteDisfigureKeeps
<1>3. CASE ExecuteBuild
  BY <1>3, ExecuteBuildKeeps
<1>4. CASE ExecuteHold
  BY <1>4, ExecuteHoldKeeps
<1>5. CASE ExecuteNext
  BY <1>5, ExecuteNextKeeps
<1>6. CASE ExecuteDone
  BY <1>6, ExecuteDoneKeeps
<1>7. CASE Exit
  BY <1>7, ExitKeeps
<1>8. CASE Abort
  BY <1>8, AbortKeeps
<1>9. ASSUME NEW r \in Requests, Request(r) PROVE IInv'
  BY <1>9, RequestKeeps
<1>10. CASE UNCHANGED vars
  <2>1. /\ selected' = selected /\ phase' = phase /\ request' = request /\ pkgs' = pkgs /\ deps' = deps
        /\ scratch' = scratch /\ held' = held /\ requests' = requests /\ pos' = pos /\ outcome' = outcome
    BY <1>10 DEF vars, plan
  <2>2. TypeOK' = TypeOK
    BY <2>1 DEF TypeOK
  <2>3. PlanRefined' = PlanRefined
    BY <2>1 DEF PlanRefined
  <2>4. \A db : Honoured(db)' <=> Honoured(db)
    BY <2>1, HonouredStays
  <2>5. PlanExecuted => PlanExecuted'
    <3>1. ASSUME NEW before, NEW w, Underway(pkgs, before, request, w, phase, pos, selected),
                 Honoured(Simulated(pkgs, before).db)
          PROVE  PlanExecuted'
      <4>1. Honoured(Simulated(pkgs, before).db)'
        BY <2>1, <3>1 DEF Honoured, HoldHonoured, DependencyHonoured, HeldThere, NothingUnused
      <4>. QED BY <2>1, <3>1, <4>1 DEF PlanExecuted
    <3>. QED BY <3>1 DEF PlanExecuted
  <2>6. Honoured(selected)' <=> Honoured(selected)
    BY <2>1 DEF Honoured, HoldHonoured, DependencyHonoured, HeldThere, NothingUnused
  <2>. QED BY <2>1, <2>2, <2>3, <2>5, <2>6 DEF IInv
<1>. QED BY <1>1, <1>2, <1>3, <1>4, <1>5, <1>6, <1>7, <1>8, <1>9, <1>10 DEF Next, Step

\* It is an invariant of the specification.
THEOREM Invariance == Spec => []IInv
<1>1. Init => IInv
  BY InitInv
<1>2. IInv /\ [Next]_vars => IInv'
  BY NextKeeps
<1>. QED BY <1>1, <1>2, PTL DEF Spec

\* The variables have their types: the database only has the records that there
\* are, a plan never leaves the entries and statuses of build_packages, and no
\* position leaves the list.
THEOREM TypeCorrect == Spec => []TypeOK
<1>1. IInv => TypeOK
  BY DEF IInv
<1>. QED BY <1>1, Invariance, PTL

\* "We always leave the configuration in a valid state": the prerequisites of a
\* configured package are those of its version and are configured in versions
\* that it accepts, for any repository, any requests, any plan, and wherever
\* its execution fails.
THEOREM PackagesAlwaysStand == Spec => []PackagesStand
<1>1. IInv => PackagesStand
  BY DEF IInv, GoodDatabase, PackagesStand
<1>. QED BY <1>1, Invariance, PTL

\* pkg-build that has succeeded has done what the user asked for, keeps what
\* was held and leaves nothing that nobody needs.
THEOREM RequestsHonoured == Spec => []RequestHonoured
<1>1. IInv => RequestHonoured
  BY DEF IInv, RequestHonoured
<1>. QED BY <1>1, Invariance, PTL

\* No transaction is refused and no assertion fails once a plan has been
\* simulated: the execution takes exactly the steps of the simulation.
THEOREM ExecutionsNotRefused == Spec => ExecutionNotRefused
<1>. DEFINE Unrefused == outcome' \in {"refused", "assertion"} => phase = "plan"
<1>1. IInv /\ [Next]_vars => [Unrefused]_vars
  <2>. SUFFICES ASSUME IInv, Next PROVE Unrefused
    BY DEF vars
  <2>1. CASE Refine
    BY <2>1 DEF Refine
  <2>2. CASE Exit
    BY <2>2 DEF Exit
  <2>3. CASE ExecuteDone \/ Abort
    BY <2>3 DEF ExecuteDone, Abort, End
  <2>4. CASE ExecuteDisfigure
    <3>1. phase = "disfigure" /\ outcome' = outcome
      BY <2>4, ExecuteDisfigureKeeps DEF ExecuteDisfigure
    <3>. QED BY <3>1 DEF IInv
  <2>5. CASE ExecuteBuild
    <3>1. phase = "build" /\ outcome' = outcome
      BY <2>5, ExecuteBuildKeeps DEF ExecuteBuild
    <3>. QED BY <3>1 DEF IInv
  <2>6. CASE ExecuteHold
    <3>1. phase = "hold" /\ outcome' = outcome
      BY <2>6, ExecuteHoldKeeps DEF ExecuteHold
    <3>. QED BY <3>1 DEF IInv
  <2>7. CASE ExecuteNext
    <3>1. phase \in {"disfigure", "build"} /\ outcome' = outcome
      BY <2>7, ExecuteNextKeeps DEF ExecuteNext
    <3>. QED BY <3>1 DEF IInv
  <2>8. ASSUME NEW r \in Requests, Request(r) PROVE Unrefused
    <3>1. phase = "idle" /\ outcome' = outcome
      BY <2>8 DEF Request
    <3>. QED BY <3>1 DEF IInv
  <2>. QED BY <2>1, <2>2, <2>3, <2>4, <2>5, <2>6, <2>7, <2>8 DEF Next, Step
<1>2. Spec => [][Unrefused]_vars
  BY <1>1, Invariance, PTL DEF Spec
<1>. QED BY <1>2 DEF ExecutionNotRefused

\* Who was asked for is on the command line.
LEMMA AskedRequested ==
    ASSUME ValidRequest(request)
    PROVE  Asked(request) \subseteq Requested
<1>1. PICK h \in Seq(Dependencies) : h = request.hold
  BY DEF ValidRequest
<1>2. PICK d \in Seq(Dependencies) : d = request.dep
  BY DEF ValidRequest
<1>3. /\ DOMAIN (h \o d) = 1 .. Len(h) + Len(d) /\ Len(h) \in Nat /\ Len(d) \in Nat
      /\ \A i \in 1 .. Len(h) : (h \o d)[i] = h[i]
      /\ \A i \in 1 .. Len(d) : (h \o d)[Len(h) + i] = d[i]
  OBVIOUS
<1>4. Requested = {(h \o d)[i][1] : i \in DOMAIN (h \o d)}
  BY <1>1, <1>2 DEF Requested
<1>5. PICK all : all = h \o d
  OBVIOUS
<1>6. ASSUME NEW n \in HoldNames(request) PROVE n \in Requested
  <2>1. PICK i \in 1 .. Len(h) : n = h[i][1]
    BY <1>1, HoldNamesIn
  <2>2. i \in 1 .. Len(h) + Len(d)
    BY <1>3
  <2>3. i \in DOMAIN all /\ all[i] = h[i]
    BY <1>3, <1>5, <2>2
  <2>. QED BY <1>4, <1>5, <2>1, <2>3
<1>7. ASSUME NEW n \in DepNames(request) PROVE n \in Requested
  <2>1. PICK i \in 1 .. Len(d) : n = d[i][1]
    BY <1>2, HoldNamesIn
  <2>2. Len(h) + i \in 1 .. Len(h) + Len(d)
    BY <1>3
  <2>3. Len(h) + i \in DOMAIN all /\ all[Len(h) + i] = d[i]
    BY <1>3, <1>5, <2>2
  <2>. QED BY <1>4, <1>5, <2>1, <2>3
<1>. QED BY <1>6, <1>7 DEF Asked

\* What is executed is on the list, and only a configured package is held.
LEMMA UnderwayName ==
    ASSUME IInv, NEW before, NEW w, Underway(pkgs, before, request, w, phase, pos, selected),
           phase \in {"build", "hold"}, pos > 0
    PROVE  /\ Name \in Names /\ FineEntry(Entry) /\ Entry = pkgs.map[Name]
           /\ phase = "hold" /\ Entry.action # "drop" => Configured(selected, Name)
<1>. DEFINE k == Len(pkgs.list)
<1>1. SoundPlan(pkgs, request) /\ Ways(pkgs, before, request, w) /\ k \in Nat
  BY ReverseOfList DEF Underway, SoundPlan
<1>2. pos \in 1 .. k
  <2>1. phase = "build" => pos \in 1 .. k \/ pos = 0
    BY DEF Underway, Reached
  <2>2. phase = "hold" => pos \in 0 .. k
    BY DEF Underway, Reached
  <2>. HIDE DEF k
  <2>. QED BY <1>1, <2>1, <2>2
<1>3. Name \in Names /\ Name \in Range(pkgs.list) /\ FineEntry(Entry)
  BY <1>1, <1>2, ReverseOfList DEF SoundPlan, Name, Entry
<1>4. ASSUME phase = "hold", Entry.action # "drop" PROVE Configured(selected, Name)
  <2>1. k - pos \in 0 .. k /\ selected = w[3][k - pos].db
    BY <1>1, <1>2, <1>4 DEF Underway, Reached
  <2>. HIDE DEF k
  <2>2. w[3][k - pos] \in Holding(pkgs, before, request, {}) /\ w[3][k - pos].status = "ok"
    BY <1>1, <2>1 DEF Ways, HoldWay, k
  <2>3. Finished(pkgs, selected, Name)
    BY <1>3, <2>1, <2>2 DEF Holding
  <2>. QED BY <1>4, <2>3, TodoIn DEF Finished, Entry
<1>. QED BY <1>3, <1>4 DEF Entry

\* No step changes a held version on behalf of other packages.
THEOREM HeldVersionsKept == Spec => HeldVersionKept
<1>. DEFINE Kept == \A n \in Names : selected[n].hold_version /\ n \notin Requested =>
                        selected'[n].version \in {0, selected[n].version}
<1>1. IInv /\ [Next]_vars => [Kept]_vars
  <2>. SUFFICES ASSUME IInv, Next PROVE Kept
    BY DEF vars
  <2>0. GoodDatabase(selected) /\ selected \in [Names -> Packages] /\ Asked(request) \subseteq Requested
    BY AskedRequested DEF IInv, GoodDatabase, Databases
  <2>1. CASE selected' = selected
    BY <2>1
  <2>2. CASE ExecuteDisfigure
    <3>1. selected' \in {selected, Disfigured(selected, Name)}
      BY <2>2 DEF ExecuteDisfigure
    <3>2. PICK db : db = Disfigured(selected, Name)
      OBVIOUS
    <3>3. \A n \in Names : db[n].version = selected[n].version
      BY <2>0, <3>2 DEF Disfigured, Packages
    <3>. QED BY <3>1, <3>2, <3>3
  <2>3. CASE ExecuteHold
    <3>1. phase = "hold" /\ pos > 0
      BY <2>3 DEF ExecuteHold
    <3>2. PICK before, w : Underway(pkgs, before, request, w, phase, pos, selected)
      BY <3>1 DEF IInv, PlanExecuted, Executing
    <3>3. CASE Entry.action = "drop"
      BY <2>3, <3>3 DEF ExecuteHold
    <3>4. CASE Entry.action # "drop"
      <4>1. selected' = HoldState(selected, Name, Entry)
        BY <2>3, <3>4 DEF ExecuteHold
      <4>2. Name \in Names /\ selected[Name].state # "none"
        BY <3>1, <3>2, <3>4, UnderwayName DEF Configured
      <4>3. \A n \in Names : HoldState(selected, Name, Entry)[n].version = selected[n].version
        BY <2>0, <4>2, HoldStateGood
      <4>. QED BY <4>1, <4>3
    <3>. QED BY <3>3, <3>4
  <2>4. CASE ExecuteBuild
    <3>. DEFINE todo == Todo(selected, Name, Entry)
    <3>1. phase = "build" /\ pos > 0 /\ todo # "nothing"
      BY <2>4 DEF ExecuteBuild
    <3>2. PICK before, w : Underway(pkgs, before, request, w, phase, pos, selected)
      BY <3>1 DEF IInv, PlanExecuted, Executing
    <3>3. Name \in Names /\ FineEntry(Entry) /\ Entry = pkgs.map[Name]
      BY <3>1, <3>2, UnderwayName
    <3>4. todo \in Transactions /\ ~Refused(selected, Name, todo)
      BY <3>1, <3>2, BuildUnderway DEF Name, Entry
    <3>5. selected' = Did(selected, Name, Entry, todo)
      BY <3>4, <2>4 DEF ExecuteBuild, Transactions
    <3>6. LeadsTo(selected, selected', Name, Entry)
      <4>1. Entry.action = "build" => Entry.available \in Versions
        BY <3>3 DEF FineEntry, Entries
      <4>. QED BY <2>0, <3>3, <3>4, <3>5, <4>1, DidGood
    <3>7. Name \notin Asked(request) => Bystander(selected, Name, Entry)
      BY <3>2, <3>3, UnderwaySensible DEF Sensible
    <3>8. Entry.action = "drop" => selected'[Name].version = 0
      <4>1. Entry.action = "drop" => todo = "purge"
        BY <3>1 DEF Todo
      <4>2. todo = "purge" => selected' = Purged(selected, Name)
        BY <3>5 DEF Did
      <4>3. Purged(selected, Name)[Name] = NotSelected
        BY <2>0, <3>3 DEF Purged
      <4>. QED BY <4>1, <4>2, <4>3 DEF NotSelected
    <3>9. ASSUME NEW n \in Names, selected[n].hold_version, n \notin Requested
          PROVE  selected'[n].version \in {0, selected[n].version}
      <4>1. CASE n # Name
        BY <3>6, <4>1 DEF LeadsTo
      <4>2. CASE n = Name
        <5>1. Entry.action = "build" => Entry.available = selected[Name].version
          BY <2>0, <3>7, <3>9, <4>2 DEF Bystander
        <5>. QED BY <3>6, <3>8, <4>2, <5>1 DEF LeadsTo
      <4>. QED BY <4>1, <4>2
    <3>. QED BY <3>9
  <2>. QED BY <2>1, <2>2, <2>3, <2>4 DEF Next, Step, Refine, Exit, ExecuteNext, ExecuteDone, Abort, Request
<1>2. Spec => [][Kept]_vars
  BY <1>1, Invariance, PTL DEF Spec
<1>. QED BY <1>2 DEF HeldVersionKept
==============================================================================
