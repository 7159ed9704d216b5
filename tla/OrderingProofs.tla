--------------------------- MODULE OrderingProofs ---------------------------
(***************************************************************************)
(* What the operators of Ordering return, for every set, order and list.   *)
(***************************************************************************)
EXTENDS Ordering, FiniteSetTheorems, NaturalsInduction, TLAPS

\* Fewer elements come before an element than before one that is after it.
Below(S, R, a) == {b \in S : <<b, a>> \in R}

LEMMA BelowGrows ==
    ASSUME NEW S, NEW R, IsFiniteSet(S), Orders(R, S),
           NEW a \in S, NEW b \in S, <<a, b>> \in R
    PROVE  Cardinality(Below(S, R, a)) < Cardinality(Below(S, R, b))
<1> DEFINE A == Below(S, R, a)
           B == Below(S, R, b)
<1>1. IsFiniteSet(A) /\ IsFiniteSet(B)
  BY FS_Subset DEF Below
<1>2. A \subseteq B /\ a \in B /\ a \notin A
  BY DEF Below, Orders
<1>3. Cardinality(A) \in Nat /\ Cardinality(B) \in Nat
  BY <1>1, FS_CardinalityType
<1>4. Cardinality(A) <= Cardinality(B) /\ Cardinality(A) # Cardinality(B)
  BY <1>1, <1>2, FS_Subset
<1> QED BY <1>3, <1>4

LEMMA BelowCounts ==
    ASSUME NEW S, NEW R, IsFiniteSet(S), Orders(R, S), NEW a \in S
    PROVE  Cardinality(Below(S, R, a)) \in 0..(Cardinality(S) - 1)
<1> DEFINE A == Below(S, R, a)
<1>1. IsFiniteSet(A) /\ A \subseteq S /\ a \notin A
  BY FS_Subset DEF Below, Orders
<1>2. Cardinality(A) <= Cardinality(S) /\ Cardinality(A) # Cardinality(S)
  BY <1>1, FS_Subset
<1>3. Cardinality(A) \in Nat /\ Cardinality(S) \in Nat
  BY <1>1, FS_CardinalityType
<1> QED BY <1>2, <1>3

\* Every position holds exactly one element, because the numbers of elements
\* before each are distinct and there are as many of them as positions.
LEMMA EveryPositionTaken ==
    ASSUME NEW S, NEW R, IsFiniteSet(S), Orders(R, S),
           NEW i \in 1..Cardinality(S)
    PROVE  \E a \in S : Cardinality(Below(S, R, a)) = i - 1
<1> DEFINE n == Cardinality(S)
           count == [a \in S |-> Cardinality(Below(S, R, a)) + 1]
<1>1. n \in Nat
  BY FS_CardinalityType
<1>2. count \in [S -> 1..n]
  BY <1>1, BelowCounts
<1>3. ASSUME NEW a \in S, NEW b \in S, count[a] = count[b] PROVE a = b
  <2>1. /\ Cardinality(Below(S, R, a)) = Cardinality(Below(S, R, b))
        /\ Cardinality(Below(S, R, a)) \in Int
    <3>1. /\ Cardinality(Below(S, R, a)) \in 0..(n - 1)
          /\ Cardinality(Below(S, R, b)) \in 0..(n - 1)
      BY BelowCounts
    <3> QED BY <1>1, <1>3, <3>1
  <2>2. <<a, b>> \notin R /\ <<b, a>> \notin R
    BY <2>1, BelowGrows
  <2> QED BY <2>2 DEF Orders
<1>4. count \in Injection(S, 1..n)
  BY <1>2, <1>3 DEF Injection, IsInjective
<1>5. IsFiniteSet(1..n) /\ Cardinality(1..n) = n
  BY <1>1, FS_Interval
<1>6. count \in Surjection(S, 1..n)
  BY <1>4, <1>5, FS_Injection
<1>7. PICK a \in S : count[a] = i
  BY <1>6 DEF Surjection
<1> QED BY <1>7, BelowCounts, <1>1

LEMMA SortedAt ==
    ASSUME NEW S, NEW R, IsFiniteSet(S), Orders(R, S),
           NEW i \in DOMAIN Sorted(S, R)
    PROVE  /\ Sorted(S, R)[i] \in S
           /\ Cardinality(Below(S, R, Sorted(S, R)[i])) = i - 1
<1>1. i \in 1..Cardinality(S)
  BY DEF Sorted
<1>2. Sorted(S, R)[i] = CHOOSE a \in S : Cardinality(Below(S, R, a)) = i - 1
  BY <1>1 DEF Sorted, Below
<1> QED BY <1>1, <1>2, EveryPositionTaken

\* Sorted(S, R) holds every element of S once, each before those after it in R.
LEMMA SortedFacts ==
    ASSUME NEW S, NEW R, IsFiniteSet(S), Orders(R, S)
    PROVE  /\ Sorted(S, R) \in Seq(S)
           /\ Len(Sorted(S, R)) = Cardinality(S)
           /\ IsInjective(Sorted(S, R))
           /\ ToSet(Sorted(S, R)) = S
           /\ \A i, j \in DOMAIN Sorted(S, R) :
                 i < j <=> <<Sorted(S, R)[i], Sorted(S, R)[j]>> \in R
<1> DEFINE f == Sorted(S, R)
           n == Cardinality(S)
<1>1. n \in Nat
  BY FS_CardinalityType
<1>2. f \in [1..n -> S] /\ f \in Seq(S) /\ Len(f) = n /\ DOMAIN f = 1..n
  <2> DEFINE at(i) == CHOOSE a \in S : Cardinality({b \in S : <<b, a>> \in R}) = i - 1
  <2>0. f = [i \in 1..n |-> at(i)]
    BY DEF Sorted
  <2>1. DOMAIN f = 1..n /\ f = [i \in 1..n |-> f[i]]
    <3> HIDE DEF at
    <3> QED BY <2>0
  <2>2. \A i \in 1..n : f[i] \in S
    BY <2>1, SortedAt
  <2> HIDE DEF f
  <2> QED BY <1>1, <2>1, <2>2
<1>3. \A i \in 1..n : Cardinality(Below(S, R, f[i])) = i - 1
  BY <1>2, SortedAt
<1> HIDE DEF f
<1>4. IsInjective(f)
  BY <1>1, <1>2, <1>3 DEF IsInjective
<1>5. f \in Injection(1..n, S)
  BY <1>2, <1>4 DEF Injection, IsInjective
<1>6. f \in Surjection(1..n, S)
  <2>1. IsFiniteSet(1..n) /\ Cardinality(1..n) = n
    BY <1>1, FS_Interval
  <2> QED BY <2>1, <1>5, FS_Injection
<1>7. ToSet(f) = S
  BY <1>2, <1>6 DEF ToSet, Surjection
<1>8. ASSUME NEW i \in 1..n, NEW j \in 1..n, i < j PROVE <<f[i], f[j]>> \in R
  <2>1. f[i] \in S /\ f[j] \in S /\ f[i] # f[j]
    BY <1>1, <1>2, <1>4, <1>8 DEF IsInjective
  <2>2. <<f[j], f[i]>> \notin R
    BY <2>1, <1>1, <1>3, <1>8, BelowGrows
  <2> QED BY <2>1, <2>2 DEF Orders
<1>9. ASSUME NEW i \in 1..n, NEW j \in 1..n, <<f[i], f[j]>> \in R PROVE i < j
  <2>1. f[i] \in S /\ f[j] \in S
    BY <1>2
  <2>2. i - 1 < j - 1
    BY <2>1, <1>3, <1>9, BelowGrows
  <2> QED BY <2>2, <1>1
<1> QED BY <1>2, <1>4, <1>7, <1>8, <1>9 DEF f

-----------------------------------------------------------------------------
(* The least and the greatest of some numbers.                             *)

LEMMA LeastExists ==
    ASSUME NEW T \in SUBSET Nat, T # {}
    PROVE  \E x \in T : \A y \in T : x <= y
<1>1. \E x \in T : \A y \in T : <<y, x>> \notin OpToRel(<, Nat)
  BY NatLessThanWellFounded, WFMin
<1>2. PICK x \in T : \A y \in T : <<y, x>> \notin OpToRel(<, Nat)
  BY <1>1
<1>3. \A y \in T : ~(y < x)
  BY <1>2 DEF OpToRel
<1> QED BY <1>3

LEMMA GreatestExists ==
    ASSUME NEW n \in Nat, NEW T \in SUBSET (0..n), T # {}
    PROVE  \E x \in T : \A y \in T : y <= x
<1> DEFINE U == {k \in 0..n : n - k \in T}
<1>1. U \in SUBSET Nat /\ U # {}
  <2>1. PICK t \in T : TRUE
    OBVIOUS
  <2>2. n - t \in 0..n /\ n - (n - t) = t
    OBVIOUS
  <2> QED BY <2>1, <2>2
<1>2. PICK k \in U : \A y \in U : k <= y
  BY <1>1, LeastExists
<1>3. ASSUME NEW y \in T PROVE y <= n - k
  <2>1. n - y \in 0..n /\ n - (n - y) = y
    OBVIOUS
  <2>2. n - y \in U
    BY <2>1
  <2>3. k <= n - y /\ y \in 0..n /\ k \in 0..n
    BY <1>2, <2>2
  <2> QED BY <2>3
<1> QED BY <1>2, <1>3

-----------------------------------------------------------------------------
(* Lists.                                                                  *)

LEMMA ListIsFinite ==
    ASSUME NEW T, NEW list \in Seq(T)
    PROVE  IsFiniteSet(ToSet(list)) /\ ToSet(list) \subseteq T
<1>1. list \in Surjection(1..Len(list), ToSet(list))
  BY DEF Surjection, ToSet
<1>2. IsFiniteSet(1..Len(list))
  BY FS_Interval
<1> QED BY <1>1, <1>2, FS_Surjection DEF ToSet

\* What a list holds comes at its rank, and not before.
LEMMA RankFacts ==
    ASSUME NEW T, NEW list \in Seq(T), NEW c \in ToSet(list)
    PROVE  /\ Rank(list, c) \in DOMAIN list
           /\ list[Rank(list, c)] = c
           /\ \A j \in DOMAIN list : list[j] = c => Rank(list, c) <= j
<1> DEFINE P == {i \in 1..Len(list) : list[i] = c}
<1>1. P \in SUBSET Nat /\ P # {}
  BY DEF ToSet
<1>2. PICK i \in P : \A j \in P : i <= j
  BY <1>1, LeastExists
<1>3. i \in DOMAIN list /\ list[i] = c /\ \A j \in 1..(i - 1) : list[j] # c
  BY <1>2
<1>4. /\ Rank(list, c) \in DOMAIN list
      /\ list[Rank(list, c)] = c
      /\ \A j \in 1..(Rank(list, c) - 1) : list[j] # c
  BY <1>3 DEF Rank
<1>5. ASSUME NEW j \in DOMAIN list, list[j] = c PROVE Rank(list, c) <= j
  BY <1>4, <1>5
<1> QED BY <1>4, <1>5

\* In a list without duplicates, what is at a position has that rank.
LEMMA RankAt ==
    ASSUME NEW T, NEW list \in Seq(T), IsInjective(list), NEW i \in DOMAIN list
    PROVE  list[i] \in ToSet(list) /\ Rank(list, list[i]) = i
<1>1. list[i] \in ToSet(list)
  BY DEF ToSet
<1> QED BY <1>1, RankFacts DEF IsInjective

LEMMA BeforeOrders ==
    ASSUME NEW T, NEW list \in Seq(T), NEW S \in SUBSET ToSet(list)
    PROVE  Orders(Before(list), S)
<1>1. \A a \in S : Rank(list, a) \in Nat /\ list[Rank(list, a)] = a
  BY RankFacts
<1>2. \A a, b \in S : <<a, b>> \in Before(list) <=> Rank(list, a) < Rank(list, b)
  BY DEF Before
<1>3. \A a, b \in S : a # b => Rank(list, a) # Rank(list, b)
  BY <1>1
<1> QED BY <1>1, <1>2, <1>3 DEF Orders

\* Keep(list, S) holds what list and S share, in the order of list.
LEMMA KeepFacts ==
    ASSUME NEW T, NEW list \in Seq(T), NEW S
    PROVE  /\ Keep(list, S) \in Seq(ToSet(list) \cap S)
           /\ Keep(list, S) \in Seq(T)
           /\ IsInjective(Keep(list, S))
           /\ ToSet(Keep(list, S)) = ToSet(list) \cap S
<1> DEFINE K == ToSet(list) \cap S
<1>1. IsFiniteSet(K) /\ K \subseteq T
  BY ListIsFinite, FS_Subset
<1>2. Orders(Before(list), K)
  BY BeforeOrders
<1>3. /\ Sorted(K, Before(list)) \in Seq(K)
      /\ IsInjective(Sorted(K, Before(list)))
      /\ ToSet(Sorted(K, Before(list))) = K
  BY <1>1, <1>2, SortedFacts
<1>4. Seq(K) \subseteq Seq(T)
  BY <1>1
<1> QED BY <1>3, <1>4 DEF Keep

-----------------------------------------------------------------------------
(* Sums.                                                                   *)

\* The recursive function that Total takes its value from.
AddsUp(s, w) ==
    s = [n \in 0..Len(w) |-> IF n = 0 THEN 0 ELSE s[n - 1] + w[n]]

\* There is one, and it adds numbers up: were there a position without it, the
\* least such position would have one, made from that of the position before.
LEMMA SumExists ==
    ASSUME NEW w \in Seq(Nat)
    PROVE  \E s \in [0..Len(w) -> Nat] : AddsUp(s, w)
<1> DEFINE good(s, n) == \A i \in 0..n : s[i] = IF i = 0 THEN 0 ELSE s[i - 1] + w[i]
           Bad == {n \in 0..Len(w) : ~\E s \in [0..n -> Nat] : good(s, n)}
<1>1. SUFFICES Bad = {}
  <2>1. Len(w) \in 0..Len(w)
    OBVIOUS
  <2>2. PICK s \in [0..Len(w) -> Nat] : good(s, Len(w))
    BY <1>1, <2>1
  <2>3. s = [n \in 0..Len(w) |-> IF n = 0 THEN 0 ELSE s[n - 1] + w[n]]
    BY <2>2
  <2> QED BY <2>2, <2>3 DEF AddsUp
<1>2. SUFFICES ASSUME Bad # {} PROVE FALSE
  OBVIOUS
<1>3. PICK n \in Bad : \A m \in Bad : n <= m
  <2>1. Bad \in SUBSET Nat
    OBVIOUS
  <2> HIDE DEF Bad
  <2> QED BY <1>2, <2>1, LeastExists
<1>4. n # 0
  <2>1. good([i \in 0..0 |-> 0], 0)
    OBVIOUS
  <2> QED BY <2>1, <1>3
<1>5. PICK s \in [0..(n - 1) -> Nat] : good(s, n - 1)
  <2>1. n - 1 \in 0..Len(w) /\ ~(n <= n - 1)
    BY <1>4
  <2>2. n - 1 \notin Bad
    BY <1>3, <2>1
  <2> QED BY <2>1, <2>2
<1> DEFINE t == [i \in 0..n |-> IF i = n THEN s[n - 1] + w[n] ELSE s[i]]
<1>6. n \in 1..Len(w) /\ w[n] \in Nat
  BY <1>3, <1>4
<1>7. t \in [0..n -> Nat]
  BY <1>5, <1>6
<1>8. good(t, n)
  BY <1>4, <1>5, <1>6
<1> QED BY <1>3, <1>7, <1>8

LEMMA TotalFacts ==
    ASSUME NEW w \in Seq(Nat)
    PROVE  \E s \in [0..Len(w) -> Nat] : AddsUp(s, w) /\ Total(w) = s[Len(w)]
<1> DEFINE s == CHOOSE s : AddsUp(s, w)
<1>1. AddsUp(s, w)
  BY SumExists
<1>2. Total(w) = s[Len(w)]
  BY DEF Total, AddsUp
<1>3. PICK u \in [0..Len(w) -> Nat] : AddsUp(u, w)
  BY SumExists
<1> HIDE DEF s
<1> DEFINE Apart == {n \in 0..Len(w) : s[n] # u[n]}
<1>4. Apart = {}
  <2> SUFFICES ASSUME Apart # {} PROVE FALSE
    OBVIOUS
  <2>1. PICK n \in Apart : \A m \in Apart : n <= m
    <3>1. Apart \in SUBSET Nat
      OBVIOUS
    <3> HIDE DEF Apart
    <3> QED BY <3>1, LeastExists
  <2>2. /\ \A i \in 0..Len(w) : s[i] = IF i = 0 THEN 0 ELSE s[i - 1] + w[i]
        /\ \A i \in 0..Len(w) : u[i] = IF i = 0 THEN 0 ELSE u[i - 1] + w[i]
    BY <1>1, <1>3 DEF AddsUp
  <2>3. n # 0
    BY <2>1, <2>2
  <2>4. s[n - 1] = u[n - 1]
    BY <2>1, <2>3
  <2> QED BY <2>1, <2>2, <2>3, <2>4
<1>5. \A n \in 0..Len(w) : s[n] \in Nat
  BY <1>3, <1>4
<1>6. DOMAIN s = 0..Len(w) /\ s = [n \in 0..Len(w) |-> s[n]]
  BY <1>1 DEF AddsUp
<1>7. s \in [0..Len(w) -> Nat]
  BY <1>5, <1>6
<1> QED BY <1>1, <1>2, <1>7

LEMMA TotalOfNone == Total(<<>>) = 0
<1>1. PICK s \in [0..Len(<<>>) -> Nat] : AddsUp(s, <<>>) /\ Total(<<>>) = s[Len(<<>>)]
  <2>1. <<>> \in Seq(Nat)
    OBVIOUS
  <2> QED BY <2>1, TotalFacts
<1>2. s[0] = 0
  BY <1>1 DEF AddsUp
<1> QED BY <1>1, <1>2

\* Of two lists of numbers of one length, the one with the larger numbers adds up
\* to more.
LEMMA TotalGrows ==
    ASSUME NEW w \in Seq(Nat), NEW v \in Seq(Nat), Len(w) = Len(v),
           \A i \in 1..Len(w) : w[i] <= v[i]
    PROVE  Total(w) \in Nat /\ Total(v) \in Nat /\ Total(w) <= Total(v)
<1>1. PICK s \in [0..Len(w) -> Nat] : AddsUp(s, w) /\ Total(w) = s[Len(w)]
  BY TotalFacts
<1>2. PICK t \in [0..Len(v) -> Nat] : AddsUp(t, v) /\ Total(v) = t[Len(v)]
  BY TotalFacts
<1> DEFINE Apart == {n \in 0..Len(w) : ~(s[n] <= t[n])}
<1>3. Apart = {}
  <2> SUFFICES ASSUME Apart # {} PROVE FALSE
    OBVIOUS
  <2>1. PICK n \in Apart : \A m \in Apart : n <= m
    <3>1. Apart \in SUBSET Nat
      OBVIOUS
    <3> HIDE DEF Apart
    <3> QED BY <3>1, LeastExists
  <2>2. /\ \A i \in 0..Len(w) : s[i] = IF i = 0 THEN 0 ELSE s[i - 1] + w[i]
        /\ \A i \in 0..Len(w) : t[i] = IF i = 0 THEN 0 ELSE t[i - 1] + v[i]
    BY <1>1, <1>2 DEF AddsUp
  <2>3. n # 0
    BY <2>1, <2>2
  <2>4. n - 1 \in 0..Len(w) /\ s[n - 1] <= t[n - 1]
    BY <2>1, <2>3
  <2>5. n \in 1..Len(w) /\ w[n] <= v[n] /\ w[n] \in Nat /\ v[n] \in Nat
    BY <2>1, <2>3
  <2>6. s[n] = s[n - 1] + w[n] /\ t[n] = t[n - 1] + v[n]
    BY <2>2, <2>3, <2>5
  <2>7. s[n - 1] \in Nat /\ t[n - 1] \in Nat
    BY <2>3, <2>4
  <2>8. s[n] <= t[n]
    BY <2>4, <2>5, <2>6, <2>7
  <2> QED BY <2>1, <2>8
<1>4. Len(w) \in 0..Len(w)
  OBVIOUS
<1> QED BY <1>1, <1>2, <1>3, <1>4

\* One number more adds up to that much more.
LEMMA TotalOfAppend ==
    ASSUME NEW w \in Seq(Nat), NEW x \in Nat
    PROVE  Total(w) \in Nat /\ Total(Append(w, x)) = Total(w) + x
<1> DEFINE v == Append(w, x)
<1>1. /\ v \in Seq(Nat) /\ Len(v) = Len(w) + 1 /\ v[Len(w) + 1] = x
      /\ \A i \in 1..Len(w) : v[i] = w[i]
      /\ Len(w) \in Nat
  OBVIOUS
<1> HIDE DEF v
<1>2. PICK s \in [0..Len(w) -> Nat] : AddsUp(s, w) /\ Total(w) = s[Len(w)]
  BY TotalFacts
<1>3. PICK t \in [0..Len(v) -> Nat] : AddsUp(t, v) /\ Total(v) = t[Len(v)]
  BY <1>1, TotalFacts
<1>4. /\ \A i \in 0..Len(w) : s[i] = IF i = 0 THEN 0 ELSE s[i - 1] + w[i]
      /\ \A i \in 0..Len(v) : t[i] = IF i = 0 THEN 0 ELSE t[i - 1] + v[i]
  BY <1>2, <1>3 DEF AddsUp
<1> DEFINE Apart == {n \in 0..Len(w) : s[n] # t[n]}
<1>5. Apart = {}
  <2> SUFFICES ASSUME Apart # {} PROVE FALSE
    OBVIOUS
  <2>1. PICK n \in Apart : \A m \in Apart : n <= m
    <3>1. Apart \in SUBSET Nat
      OBVIOUS
    <3> HIDE DEF Apart
    <3> QED BY <3>1, LeastExists
  <2>2. n # 0
    BY <1>1, <1>4, <2>1
  <2>3. n \in 1..Len(w) /\ n \in 0..Len(v) /\ n - 1 \in 0..Len(w) /\ ~(n <= n - 1)
    BY <1>1, <2>1, <2>2
  <2>4. s[n - 1] = t[n - 1]
    BY <2>1, <2>3
  <2> QED BY <1>1, <1>4, <2>1, <2>2, <2>3, <2>4
<1>6. Len(w) \in 0..Len(w) /\ Len(v) \in 0..Len(v) /\ Len(v) # 0
  BY <1>1
<1>7. Total(v) = t[Len(w)] + x
  <2>1. t[Len(v)] = t[Len(v) - 1] + v[Len(v)]
    BY <1>4, <1>6
  <2>2. Len(v) - 1 = Len(w) /\ v[Len(v)] = x
    BY <1>1
  <2> QED BY <1>3, <2>1, <2>2
<1> QED BY <1>2, <1>5, <1>6, <1>7 DEF v

-----------------------------------------------------------------------------
(* Scores *)

\* Sorting by a value from the highest, with equals in an order R, has no equals.
LEMMA DescendingOrders ==
    ASSUME NEW S, NEW R, NEW value \in [S -> Int], Orders(R, S)
    PROVE  Orders(Descending(value, R), S)
<1>1. \A a, b \in S : <<a, b>> \in Descending(value, R) <=>
          value[a] > value[b] \/ (value[a] = value[b] /\ <<a, b>> \in R)
  BY DEF Descending
<1>2. \A a \in S : value[a] \in Int
  OBVIOUS
<1> QED BY <1>1, <1>2 DEF Orders

\* x // d, of naturals.
LEMMA DivFacts ==
    ASSUME NEW x \in Nat, NEW d \in Nat, 0 < d
    PROVE  /\ x \div d \in Nat
           /\ d * (x \div d) <= x
           /\ x < d * ((x \div d) + 1)
OBVIOUS

LEMMA ProductGrows ==
    ASSUME NEW a \in Nat, NEW b \in Nat, NEW d \in Nat, NEW e \in Nat, a <= b, d <= e
    PROVE  /\ a * d \in Nat /\ b * e \in Nat
           /\ a * d <= b * e
<1>1. a * d \in Nat /\ a * e \in Nat /\ b * e \in Nat
  OBVIOUS
<1>2. PICK u \in Nat : b = a + u
  <2>1. b - a \in Nat /\ b = a + (b - a)
    OBVIOUS
  <2> QED BY <2>1
<1>3. PICK v \in Nat : e = d + v
  <2>1. e - d \in Nat /\ e = d + (e - d)
    OBVIOUS
  <2> QED BY <2>1
<1>4. b * e = a * e + u * e /\ a * e = a * d + a * v
  BY <1>2, <1>3
<1>5. u * e \in Nat /\ a * v \in Nat
  BY <1>2, <1>3
<1> QED BY <1>1, <1>4, <1>5

\* A share grows with what is shared, and as it is shared among fewer.
LEMMA DivGrows ==
    ASSUME NEW x \in Nat, NEW y \in Nat, NEW d \in Nat, NEW e \in Nat,
           x <= y, 0 < e, e <= d
    PROVE  /\ x \div d \in Nat /\ y \div e \in Nat
           /\ x \div d <= y \div e
<1> DEFINE p == x \div d
           q == y \div e
<1>1. p \in Nat /\ q \in Nat /\ d * p <= x /\ y < e * (q + 1)
  BY DivFacts
<1>2. ASSUME ~(p <= q) PROVE FALSE
  <2>1. q + 1 \in Nat /\ q + 1 <= p
    BY <1>1, <1>2
  <2> HIDE DEF p, q
  <2>2. e * (q + 1) <= d * p
    BY <1>1, <2>1, ProductGrows
  <2>3. e * (q + 1) \in Nat /\ d * p \in Nat
    BY <1>1, <2>1, ProductGrows
  <2> QED BY <1>1, <2>2, <2>3
<1> QED BY <1>1, <1>2
=============================================================================
