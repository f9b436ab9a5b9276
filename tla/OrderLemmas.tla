---------------------------- MODULE OrderLemmas ----------------------------
(***************************************************************************)
(* Facts about least elements, places and recursion along a sequence that  *)
(* the proofs about several components rest on.  They are about data, not  *)
(* about any program.                                                      *)
(***************************************************************************)
EXTENDS Ordering, FiniteSetTheorems, WellFoundedInduction, TLAPS

\* A set of natural numbers that is not empty has a least element.
LEMMA LeastNatural ==
  ASSUME NEW T, T \subseteq Nat, T # {}
  PROVE  \E x \in T : \A y \in T : x <= y
<1> DEFINE R == OpToRel(<, Nat)
<1>1. IsWellFoundedOn(R, Nat)
  BY NatLessThanWellFounded
<1>2. \A x, y \in T : x <= y \/ <<y, x>> \in R
  BY DEF OpToRel
<1> HIDE DEF R
<1>3. \E x \in T : \A y \in T : ~ (<<y, x>> \in R)
  BY <1>1, WFMin
<1>4. QED
  BY <1>2, <1>3, Zenon

\* So has a set whose elements a function measures.
LEMMA LeastMeasure ==
  ASSUME NEW S, S # {}, NEW f \in [S -> Nat]
  PROVE  \E x \in S : \A y \in S : f[x] <= f[y]
<1> DEFINE T == {f[x] : x \in S}
<1>1. T \subseteq Nat /\ T # {}
  OBVIOUS
<1>2. PICK n \in T : \A y \in T : n <= y
  <2> HIDE DEF T
  <2>1. QED
    BY <1>1, LeastNatural
<1>3. PICK x \in S : n = f[x]
  OBVIOUS
<1>4. QED
  BY <1>2, <1>3

\* Multiples of a stride grow, and every number lies between two of them.
LEMMA MultiplesGrow ==
  ASSUME NEW s \in Nat \ {0}, NEW i \in Nat, NEW j \in Nat, i <= j
  PROVE  i * s \in Nat /\ i <= i * s /\ i * s <= j * s
  OBVIOUS

LEMMA BetweenMultiples ==
  ASSUME NEW s \in Nat \ {0}, NEW n \in Nat
  PROVE  \E i \in Nat : i * s <= n /\ n < i * s + s
<1> DEFINE T == {i \in Nat : n < i * s + s}
<1>1. n \in T
  BY MultiplesGrow
<1>2. PICK i \in T : \A j \in T : i <= j
  <2>1. T \subseteq Nat /\ T # {}
    BY <1>1
  <2> HIDE DEF T
  <2>2. QED
    BY <2>1, LeastNatural
<1>3. i * s <= n
  <2>1. CASE i = 0
    BY <2>1
  <2>2. CASE i # 0
    <3>1. i - 1 \in Nat /\ i - 1 \notin T
      BY <1>2, <2>2
    <3>2. (i - 1) * s + s = i * s /\ (i - 1) * s \in Nat
      BY <3>1
    <3>3. QED
      BY <3>1, <3>2
  <2>3. QED
    BY <2>1, <2>2
<1>4. QED
  BY <1>3

-----------------------------------------------------------------------------
(* Ordering                                                                *)

\* How many elements of S are below i.
Rank(S, i) == Cardinality({j \in S : j < i})

\* Ranks of elements of S: below |S|, and in the order of the elements.
LEMMA RankOrder ==
  ASSUME NEW S, S \subseteq Int, IsFiniteSet(S), NEW i \in S
  PROVE  /\ Rank(S, i) \in 0 .. Cardinality(S) - 1
         /\ \A j \in S : i < j => Rank(S, i) < Rank(S, j)
<1> DEFINE below(j) == {n \in S : n < j}
<1>1. \A j : IsFiniteSet(below(j)) /\ Cardinality(below(j)) \in Nat
  BY FS_Subset, FS_CardinalityType
<1>2. Cardinality(S) \in Nat
  BY FS_CardinalityType
<1>3. Cardinality(below(i)) < Cardinality(S)
  <2>1. i \notin below(i) /\ below(i) \subseteq S /\ i \in S
    OBVIOUS
  <2> HIDE DEF below
  <2>2. Cardinality(below(i)) <= Cardinality(S) /\ Cardinality(below(i)) # Cardinality(S)
    BY <2>1, FS_Subset
  <2>3. QED
    BY <1>1, <1>2, <2>2
<1>4. ASSUME NEW j \in S, i < j PROVE Cardinality(below(i)) < Cardinality(below(j))
  <2>0. i \in Int /\ j \in Int
    OBVIOUS
  <2>1. i \notin below(i) /\ i \in below(j) /\ below(i) \subseteq below(j)
    <3>1. \A n \in S : n \in Int
      OBVIOUS
    <3>2. \A n \in S : n < i => n < j
      BY <1>4, <2>0, <3>1
    <3>3. ~ (i < i)
      BY <2>0
    <3>4. QED
      BY <1>4, <3>2, <3>3, Zenon
  <2>2. IsFiniteSet(below(j)) /\ Cardinality(below(j)) \in Nat /\ Cardinality(below(i)) \in Nat
    BY <1>1
  <2> HIDE DEF below
  <2>3. Cardinality(below(i)) <= Cardinality(below(j)) /\ Cardinality(below(i)) # Cardinality(below(j))
    BY <2>1, <2>2, FS_Subset
  <2>4. QED
    BY <2>2, <2>3
<1>5. \A j : Rank(S, j) = Cardinality(below(j))
  BY DEF Rank
<1> HIDE DEF below
<1>6. QED
  BY <1>1, <1>2, <1>3, <1>4, <1>5

\* There is one element of each rank.
LEMMA NthRank ==
  ASSUME NEW S, S \subseteq Int, IsFiniteSet(S), NEW k \in 1 .. Cardinality(S)
  PROVE  Nth(S, k) \in S /\ Rank(S, Nth(S, k)) = k - 1
<1> DEFINE n == Cardinality(S)
           T == 0 .. n - 1
           f == [i \in S |-> Rank(S, i)]
<1>1. n \in Nat
  BY FS_CardinalityType
<1>2. f \in [S -> T]
  BY RankOrder
<1>3. \A i, j \in S : f[i] = f[j] => i = j
  <2>1. \A i, j \in S : i < j => f[i] # f[j]
    <3> SUFFICES ASSUME NEW i \in S, NEW j \in S, i < j PROVE f[i] # f[j]
      OBVIOUS
    <3>1. f[i] < f[j] /\ f[i] \in T /\ f[j] \in T
      BY <1>2, RankOrder
    <3>2. QED
      BY <3>1, <1>1
  <2> HIDE DEF f
  <2>2. QED
    BY <2>1
<1>4. f \in Injection(S, T)
  <2> HIDE DEF f, T
  <2>1. QED
    BY <1>2, <1>3 DEF Injection, IsInjective
<1>5. IsFiniteSet(T) /\ Cardinality(T) = n
  <2>1. n - 1 \in Int /\ 0 \in Int /\ (0 > n - 1 => n = 0)
    BY <1>1
  <2> HIDE DEF n
  <2>2. QED
    BY <1>1, <2>1, FS_Interval
<1>6. f \in Surjection(S, T)
  <2> HIDE DEF f, T
  <2>1. QED
    BY <1>4, <1>5, FS_Injection
<1>7. k - 1 \in T
  BY <1>1
<1>8. \E i \in S : f[i] = k - 1
  <2> HIDE DEF f, T
  <2>1. QED
    BY <1>6, <1>7 DEF Surjection
<1>9. \E i \in S : Rank(S, i) = k - 1
  BY <1>8
<1>10. QED
  BY <1>9 DEF Nth, Rank

LEMMA NthOrder ==
  ASSUME NEW S, S \subseteq Int, IsFiniteSet(S)
  PROVE  /\ \A k, l \in 1 .. Cardinality(S) : k < l => Nth(S, k) < Nth(S, l)
         /\ \A i \in S : \E k \in 1 .. Cardinality(S) : Nth(S, k) = i
<1>0. Cardinality(S) \in Nat
  BY FS_CardinalityType
<1>r. \A i \in S : i \in Int /\ Rank(S, i) \in 0 .. Cardinality(S) - 1
  BY RankOrder
<1>s. \A i, j \in S : i < j => Rank(S, i) < Rank(S, j)
  BY RankOrder
<1>1. ASSUME NEW k \in 1 .. Cardinality(S), NEW l \in 1 .. Cardinality(S), k < l
      PROVE  Nth(S, k) < Nth(S, l)
  <2>1. /\ Nth(S, k) \in S /\ Rank(S, Nth(S, k)) = k - 1
        /\ Nth(S, l) \in S /\ Rank(S, Nth(S, l)) = l - 1
    BY NthRank
  <2>2. ~ (Nth(S, l) < Nth(S, k))
    <3>1. ~ (Rank(S, Nth(S, l)) < Rank(S, Nth(S, k)))
      BY <1>0, <1>1, <2>1
    <3>2. QED
      BY <1>s, <2>1, <3>1, Zenon
  <2>3. Nth(S, l) # Nth(S, k)
    BY <1>0, <1>1, <2>1
  <2>4. Nth(S, l) \in Int /\ Nth(S, k) \in Int
    BY <1>r, <2>1, Zenon
  <2>5. QED
    BY <2>2, <2>3, <2>4
<1>2. ASSUME NEW i \in S PROVE \E k \in 1 .. Cardinality(S) : Nth(S, k) = i
  <2> DEFINE k == Rank(S, i) + 1
  <2>0. Rank(S, i) \in 0 .. Cardinality(S) - 1
    BY <1>r, Zenon
  <2>1. k \in 1 .. Cardinality(S) /\ Rank(S, i) = k - 1
    BY <1>0, <2>0
  <2> HIDE DEF k
  <2>2. Nth(S, k) \in S /\ Rank(S, Nth(S, k)) = Rank(S, i)
    BY <2>1, NthRank
  <2>3. ~ (Nth(S, k) < i) /\ ~ (i < Nth(S, k))
    <3>1. ~ (Rank(S, i) < Rank(S, i))
      BY <2>0
    <3>2. QED
      BY <1>s, <2>2, <3>1, Zenon
  <2>4. Nth(S, k) \in Int /\ i \in Int
    BY <1>r, <2>2, Zenon
  <2>5. Nth(S, k) = i
    BY <2>3, <2>4
  <2>6. QED
    BY <2>1, <2>5
<1>3. QED
  BY <1>1, <1>2

\* An interval is its own enumeration.
LEMMA AscendingInterval ==
  ASSUME NEW a \in Int, NEW b \in Int, a <= b + 1
  PROVE  /\ Len(Ascending(a .. b)) = b - a + 1
         /\ \A k \in 1 .. b - a + 1 : Ascending(a .. b)[k] = a + k - 1
<1>1. IsFiniteSet(a .. b) /\ Cardinality(a .. b) = b - a + 1
  BY FS_Interval
<1>2. ASSUME NEW k \in 1 .. b - a + 1 PROVE Nth(a .. b, k) = a + k - 1
  <2> DEFINE i == a + k - 1
  <2>1. i \in a .. b
    OBVIOUS
  <2>2. Rank(a .. b, i) = k - 1
    <3>1. {j \in a .. b : j < i} = a .. (i - 1)
      BY <2>1
    <3>2. Cardinality(a .. (i - 1)) = k - 1
      BY FS_Interval
    <3>3. QED
      BY <3>1, <3>2 DEF Rank
  <2>3. Nth(a .. b, k) \in a .. b /\ Rank(a .. b, Nth(a .. b, k)) = k - 1
    BY <1>1, NthRank
  <2> HIDE DEF i
  <2>4. ~ (Nth(a .. b, k) < i) /\ ~ (i < Nth(a .. b, k))
    BY <1>1, <2>1, <2>2, <2>3, RankOrder
  <2>5. Nth(a .. b, k) = i
    BY <2>1, <2>3, <2>4
  <2>6. QED
    BY <2>5 DEF i
<1>3. QED
  BY <1>1, <1>2 DEF Ascending

\* What is picked from a sequence are elements of it, one for every place.
LEMMA PickedElements ==
  ASSUME NEW T, NEW s \in Seq(T), NEW S, S \subseteq DOMAIN s
  PROVE  /\ IsFiniteSet(S) /\ Cardinality(S) \in 0 .. Len(s)
         /\ Picked(s, S) \in Seq(T)
         /\ Len(Picked(s, S)) = Cardinality(S)
         /\ \A k \in 1 .. Cardinality(S) : Nth(S, k) \in S /\ Picked(s, S)[k] = s[Nth(S, k)]
         /\ S = {} <=> Picked(s, S) = << >>
<1>1. DOMAIN s = 1 .. Len(s) /\ Len(s) \in Nat /\ \A i \in DOMAIN s : s[i] \in T
  OBVIOUS
<1>2. S \subseteq Int /\ S \subseteq 1 .. Len(s)
  BY <1>1
<1>3. IsFiniteSet(1 .. Len(s)) /\ Cardinality(1 .. Len(s)) = Len(s)
  <2> DEFINE n == Len(s)
  <2>1. n \in Nat /\ 1 \in Int /\ n \in Int /\ (1 > n => n = 0)
    BY <1>1
  <2> HIDE DEF n
  <2>2. IsFiniteSet(1 .. n) /\ Cardinality(1 .. n) = n
    BY <2>1, FS_Interval
  <2>3. QED
    BY <2>2 DEF n
<1>4. IsFiniteSet(S) /\ Cardinality(S) <= Len(s) /\ Cardinality(S) \in Nat
  BY <1>2, <1>3, FS_Subset, FS_CardinalityType
<1>5. ASSUME NEW k \in 1 .. Cardinality(S) PROVE Nth(S, k) \in S /\ s[Nth(S, k)] \in T
  <2>1. Nth(S, k) \in S
    BY <1>2, <1>4, NthRank
  <2>2. QED
    BY <1>1, <2>1
<1>6. S = {} <=> Cardinality(S) = 0
  BY <1>4, FS_EmptySet
<1>7. QED
  BY <1>4, <1>5, <1>6 DEF Picked

-----------------------------------------------------------------------------
(* Recursion along a sequence                                              *)

\* Induction: what holds of 0 and of every number after one it holds of.
LEMMA Climb ==
  ASSUME NEW n \in Nat, NEW S, 0 \in S, \A i \in 1 .. n : i - 1 \in S => i \in S
  PROVE  \A i \in 0 .. n : i \in S
<1> DEFINE Bad == {i \in 0 .. n : i \notin S}
<1> SUFFICES ASSUME Bad # {} PROVE FALSE
  OBVIOUS
<1>1. PICK m \in Bad : \A k \in Bad : m <= k
  <2>1. Bad \subseteq Nat
    OBVIOUS
  <2> HIDE DEF Bad
  <2>2. QED
    BY <2>1, LeastNatural
<1>2. m \in 0 .. n /\ m \notin S /\ m # 0
  OBVIOUS
<1>3. m \in 1 .. n /\ m - 1 \in 0 .. n /\ ~ (m <= m - 1)
  BY <1>2
<1>4. m - 1 \in S
  BY <1>1, <1>3
<1>5. QED
  BY <1>2, <1>3, <1>4

\* f starts at b, and its i-th step is what t[i] makes of the one before.
Unfolds(f, n, b, t) ==
  /\ DOMAIN f = 0 .. n
  /\ f[0] = b
  /\ \A i \in 1 .. n : f[i] = t[i][f[i - 1]]

\* There is such an f.
LEMMA UnfoldExists ==
  ASSUME NEW D, NEW b \in D, NEW n \in Nat, NEW t \in [1 .. n -> [D -> D]]
  PROVE  \E f \in [0 .. n -> D] : Unfolds(f, n, b, t)
<1> DEFINE Ok(m) == \E f \in [0 .. m -> D] : Unfolds(f, m, b, t)
           Good == {m \in 0 .. n : Ok(m)}
<1>1. Ok(0)
  <2> DEFINE f == [i \in 0 .. 0 |-> b]
  <2>1. f \in [0 .. 0 -> D] /\ Unfolds(f, 0, b, t)
    BY DEF Unfolds
  <2>2. QED
    BY <2>1
<1>2. ASSUME NEW m \in 1 .. n, Ok(m - 1) PROVE Ok(m)
  <2>1. PICK g \in [0 .. m - 1 -> D] : Unfolds(g, m - 1, b, t)
    BY <1>2
  <2> DEFINE f == [i \in 0 .. m |-> IF i = m THEN t[m][g[m - 1]] ELSE g[i]]
  <2>2. m - 1 \in 0 .. m - 1 /\ g[m - 1] \in D /\ t[m][g[m - 1]] \in D
    OBVIOUS
  <2>3. f \in [0 .. m -> D]
    BY <2>2
  <2>4. f[m] = t[m][g[m - 1]] /\ \A i \in 0 .. m - 1 : f[i] = g[i]
    OBVIOUS
  <2>5. DOMAIN f = 0 .. m
    OBVIOUS
  <2> HIDE DEF f
  <2>6. f[0] = b
    BY <2>1, <2>4 DEF Unfolds
  <2>7. ASSUME NEW i \in 1 .. m PROVE f[i] = t[i][f[i - 1]]
    <3>1. CASE i = m
      BY <2>2, <2>4, <3>1
    <3>2. CASE i # m
      <4>1. i \in 1 .. m - 1 /\ i \in 0 .. m - 1 /\ i - 1 \in 0 .. m - 1
        BY <3>2
      <4>2. g[i] = t[i][g[i - 1]]
        BY <2>1, <4>1 DEF Unfolds
      <4>3. QED
        BY <2>4, <4>1, <4>2
    <3>3. QED
      BY <3>1, <3>2
  <2>8. Unfolds(f, m, b, t)
    BY <2>5, <2>6, <2>7 DEF Unfolds
  <2>9. QED
    BY <2>3, <2>8
<1>3. \A m \in 0 .. n : m \in Good
  <2>1. 0 \in Good
    BY <1>1
  <2>2. \A m \in 1 .. n : m - 1 \in Good => m \in Good
    <3> HIDE DEF Ok
    <3>1. QED
      BY <1>2
  <2> HIDE DEF Good
  <2>3. QED
    BY <2>1, <2>2, Climb
<1>4. Ok(n)
  BY <1>3
<1>5. QED
  BY <1>4

-----------------------------------------------------------------------------
(* Sums                                                                    *)

\* The sums of the first counts.
Sums(f, counts) ==
  /\ f \in [0 .. Len(counts) -> Nat]
  /\ f[0] = 0
  /\ \A i \in 1 .. Len(counts) : f[i] = f[i - 1] + counts[i]

LEMMA SummedSteps ==
  ASSUME NEW counts \in Seq(Nat)
  PROVE  \E f : Sums(f, counts) /\ Summed(counts) = f[Len(counts)]
<1> DEFINE n == Len(counts)
           t == [i \in 1 .. n |-> [m \in Nat |-> m + counts[i]]]
           Fixed(h) == h = [i \in 0 .. n |-> IF i = 0 THEN 0 ELSE h[i - 1] + counts[i]]
<1>1. n \in Nat /\ \A i \in 1 .. n : counts[i] \in Nat
  OBVIOUS
<1>2. t \in [1 .. n -> [Nat -> Nat]]
  <2> HIDE DEF n
  <2>1. QED
    BY <1>1
<1>3. PICK f \in [0 .. n -> Nat] : Unfolds(f, n, 0, t)
  <2> HIDE DEF t, n
  <2>1. QED
    BY <1>1, <1>2, UnfoldExists
<1>4. Fixed(f)
  <2>1. \A i \in 1 .. n : f[i] = t[i][f[i - 1]]
    <3> HIDE DEF t, n
    <3>1. QED
      BY <1>3 DEF Unfolds
  <2>2. \A i \in 1 .. n : f[i - 1] \in Nat
    <3> HIDE DEF t, n
    <3>1. QED
      BY <1>1, <1>3
  <2>3. \A i \in 1 .. n : f[i] = f[i - 1] + counts[i]
    <3> HIDE DEF n
    <3>1. QED
      BY <1>1, <2>1, <2>2
  <2>4. f[0] = 0 /\ f = [i \in 0 .. n |-> f[i]] /\ \A i \in 0 .. n : i = 0 \/ i \in 1 .. n
    <3> HIDE DEF t, n
    <3>1. QED
      BY <1>1, <1>3 DEF Unfolds
  <2> HIDE DEF n, t
  <2>5. QED
    BY <2>3, <2>4
<1>5. PICK h : h = CHOOSE g : Fixed(g)
  OBVIOUS
<1>6. Fixed(h)
  <2> HIDE DEF Fixed
  <2>1. QED
    BY <1>4, <1>5
<1>7. Summed(counts) = h[n]
  BY <1>5 DEF Summed
<1>8. DOMAIN h = 0 .. n /\ h[0] = 0 /\ \A i \in 1 .. n : h[i] = h[i - 1] + counts[i]
  <2> HIDE DEF n
  <2>1. QED
    BY <1>1, <1>6
<1>9. \A i \in 0 .. n : h[i] \in Nat
  <2> DEFINE S == {i \in 0 .. n : h[i] \in Nat}
  <2>1. 0 \in S /\ \A i \in 1 .. n : i - 1 \in S => i \in S
    <3> HIDE DEF n, Fixed
    <3>1. 0 \in S
      BY <1>1, <1>8
    <3>2. ASSUME NEW i \in 1 .. n, i - 1 \in S PROVE i \in S
      <4>1. h[i - 1] \in Nat /\ counts[i] \in Nat /\ h[i] = h[i - 1] + counts[i]
        BY <1>1, <1>8, <3>2
      <4>2. h[i] \in Nat
        BY <4>1
      <4>3. i \in 0 .. n
        BY <1>1
      <4>4. QED
        BY <4>2, <4>3
    <3>3. QED
      BY <3>1, <3>2
  <2>2. \A i \in 0 .. n : i \in S
    <3> HIDE DEF S, n
    <3>1. QED
      BY <1>1, <2>1, Climb
  <2>3. QED
    BY <2>2
<1>10. h = [i \in 0 .. n |-> h[i]]
  <2> HIDE DEF n
  <2>1. QED
    BY <1>6
<1>11. h \in [0 .. n -> Nat]
  <2> HIDE DEF n, Fixed
  <2>1. QED
    BY <1>9, <1>10
<1>12. QED
  BY <1>7, <1>8, <1>11 DEF Sums

\* Sums of natural numbers do not fall.
LEMMA SumsGrow ==
  ASSUME NEW counts \in Seq(Nat), NEW f, Sums(f, counts), NEW m \in 0 .. Len(counts)
  PROVE  f[m] <= f[Len(counts)]
<1> DEFINE n == Len(counts)
           S == {d \in 0 .. n : d <= m \/ f[m] <= f[d]}
<1>1. n \in Nat /\ \A i \in 1 .. n : counts[i] \in Nat
  OBVIOUS
<1>2. f \in [0 .. n -> Nat] /\ \A i \in 1 .. n : f[i] = f[i - 1] + counts[i]
  BY DEF Sums
<1> HIDE DEF n
<1>3. m \in 0 .. n /\ f[m] \in Nat
  BY <1>2 DEF n
<1>4. 0 \in S
  BY <1>1, <1>3
<1>5. \A i \in 1 .. n : i - 1 \in S => i \in S
  <2> SUFFICES ASSUME NEW i \in 1 .. n, i - 1 \in S PROVE i \in S
    OBVIOUS
  <2>1. f[i - 1] \in Nat /\ f[i] = f[i - 1] + counts[i] /\ counts[i] \in Nat
    BY <1>1, <1>2
  <2>2. CASE i <= m
    BY <2>2
  <2>3. CASE i > m
    <3>1. f[m] <= f[i - 1]
      <4>1. CASE i - 1 = m
        BY <1>3, <4>1
      <4>2. CASE i - 1 # m
        <5>1. ~ (i - 1 <= m)
          BY <1>3, <2>3, <4>2
        <5>2. QED
          BY <5>1
      <4>3. QED
        BY <4>1, <4>2
    <3>2. f[m] <= f[i]
      BY <1>3, <2>1, <3>1
    <3>3. QED
      BY <3>2
  <2>4. QED
    BY <1>1, <1>3, <2>2, <2>3
<1>6. n \in S
  <2> HIDE DEF S
  <2>1. \A i \in 0 .. n : i \in S
    BY <1>1, <1>4, <1>5, Climb
  <2>2. QED
    BY <1>1, <2>1
<1>7. QED
  <2>1. CASE m = n
    BY <1>3, <2>1 DEF n
  <2>2. CASE m # n
    BY <1>1, <1>3, <1>6, <2>2 DEF n
  <2>3. QED
    BY <2>1, <2>2
=============================================================================
