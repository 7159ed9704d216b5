------------------------- MODULE RagPipelineProofs -------------------------
(***************************************************************************)
(* Proofs about RagPipeline, for every set of words, chunks, filters and   *)
(* scopes, and whatever the retrievers and the models answer: what its     *)
(* operators return, then that its steps keep each of its invariants.      *)
(***************************************************************************)
EXTENDS RagPipeline, OrderingProofs

-----------------------------------------------------------------------------
(* Lists of chunks *)

LEMMA ChunksAreFinite == IsFiniteSet(Chunks)
BY RagAssumption, ListIsFinite DEF Chunks

\* A prefix of a list of chunks holds the same chunks at the same places.
LEMMA PrefixFacts ==
    ASSUME NEW list \in Rankings, NEW n \in 0..Len(list)
    PROVE  /\ SubSeq(list, 1, n) \in Rankings
           /\ DOMAIN SubSeq(list, 1, n) = 1..n /\ Len(SubSeq(list, 1, n)) = n
           /\ \A i \in 1..n : i \in DOMAIN list /\ SubSeq(list, 1, n)[i] = list[i]
           /\ ToSet(SubSeq(list, 1, n)) \subseteq ToSet(list)
<1> DEFINE p == SubSeq(list, 1, n)
<1>1. list \in Seq(Chunks) /\ IsInjective(list)
  BY DEF Rankings
<1>2. /\ p \in Seq(Chunks) /\ Len(p) = n /\ DOMAIN p = 1..n
      /\ \A i \in 1..n : i \in DOMAIN list /\ p[i] = list[i]
  BY <1>1
<1> HIDE DEF p
<1>3. IsInjective(p)
  BY <1>1, <1>2 DEF IsInjective
<1>4. ToSet(p) \subseteq ToSet(list)
  BY <1>1, <1>2 DEF ToSet
<1>5. p \in Rankings
  BY <1>2, <1>3 DEF Rankings
<1> QED BY <1>2, <1>4, <1>5 DEF p

LEMMA CutFacts ==
    ASSUME NEW list \in Rankings, NEW n \in Nat
    PROVE  /\ Cut(list, n) \in Rankings
           /\ \A i \in DOMAIN Cut(list, n) : i \in DOMAIN list /\ Cut(list, n)[i] = list[i]
           /\ ToSet(Cut(list, n)) \subseteq ToSet(list)
<1> DEFINE m == IF Len(list) < n THEN Len(list) ELSE n
<1>1. list \in Seq(Chunks)
  BY DEF Rankings
<1>2. m \in 0..Len(list) /\ Cut(list, n) = SubSeq(list, 1, m)
  BY <1>1 DEF Cut
<1> HIDE DEF m
<1> QED BY <1>2, PrefixFacts

\* Of a list of chunks, [c for c in list if c in S] is another.
LEMMA KeptFacts ==
    ASSUME NEW list \in Seq(Chunks), NEW S
    PROVE  /\ Keep(list, S) \in Rankings
           /\ ToSet(Keep(list, S)) = ToSet(list) \cap S
BY KeepFacts DEF Rankings

LEMMA AppendFacts ==
    ASSUME NEW list \in Rankings, NEW rankings \in Seq(Rankings)
    PROVE  /\ Append(rankings, list) \in Seq(Rankings)
           /\ Len(Append(rankings, list)) = Len(rankings) + 1
           /\ ToSet(Append(rankings, list)) = ToSet(rankings) \cup {list}
<1> DEFINE s == Append(rankings, list)
<1>1. /\ s \in Seq(Rankings) /\ Len(s) = Len(rankings) + 1
      /\ DOMAIN s = 1..(Len(rankings) + 1) /\ DOMAIN rankings = 1..Len(rankings)
      /\ s[Len(rankings) + 1] = list
      /\ \A i \in DOMAIN rankings : s[i] = rankings[i]
  OBVIOUS
<1>2. Len(rankings) \in Nat
  OBVIOUS
<1> HIDE DEF s
<1>3. ToSet(s) = ToSet(rankings) \cup {list}
  BY <1>1, <1>2 DEF ToSet
<1> QED BY <1>1, <1>3 DEF s

\* No list, no chunk.
LEMMA EmptyFacts ==
    /\ <<>> \in Rankings /\ <<>> \in Seq(Rankings) /\ <<>> \in Seq(RankedChunks)
    /\ ToSet(<<>>) = {} /\ Len(<<>>) = 0
<1>1. <<>> \in Seq(Chunks) /\ DOMAIN <<>> = {}
  OBVIOUS
<1> QED BY <1>1 DEF Rankings, ToSet, IsInjective

-----------------------------------------------------------------------------
(* Fusion *)

LEMMA SeenFacts ==
    ASSUME NEW rankings \in Seq(Rankings)
    PROVE  /\ IsFiniteSet(Seen(rankings)) /\ Seen(rankings) \subseteq Chunks
           /\ \A k \in DOMAIN rankings : ToSet(rankings[k]) \subseteq Seen(rankings)
           /\ \A c \in Seen(rankings) :
                 /\ FirstList(rankings, c) \in DOMAIN rankings
                 /\ c \in ToSet(rankings[FirstList(rankings, c)])
                 /\ \A k \in DOMAIN rankings :
                       c \in ToSet(rankings[k]) => FirstList(rankings, c) <= k
<1>1. \A list \in Rankings : ToSet(list) \subseteq Chunks
  BY DEF Rankings, ToSet
<1>2. \A list \in ToSet(rankings) : list \in Rankings
  BY DEF ToSet
<1>3. Seen(rankings) \subseteq Chunks
  BY <1>1, <1>2 DEF Seen
<1>4. \A k \in DOMAIN rankings : ToSet(rankings[k]) \subseteq Seen(rankings)
  BY DEF Seen, ToSet
<1>5. ASSUME NEW c \in Seen(rankings)
      PROVE  /\ FirstList(rankings, c) \in DOMAIN rankings
             /\ c \in ToSet(rankings[FirstList(rankings, c)])
             /\ \A k \in DOMAIN rankings :
                   c \in ToSet(rankings[k]) => FirstList(rankings, c) <= k
  <2> DEFINE holding == {k \in DOMAIN rankings : c \in ToSet(rankings[k])}
  <2>1. holding \in SUBSET Nat /\ holding # {}
    BY <1>5 DEF Seen, ToSet
  <2>2. PICK k \in holding : \A m \in holding : k <= m
    <3> HIDE DEF holding
    <3> QED BY <2>1, LeastExists
  <2>3. k \in DOMAIN rankings /\ c \in ToSet(rankings[k])
        /\ \A j \in 1..(k - 1) : c \notin ToSet(rankings[j])
    BY <2>2
  <2>4. /\ FirstList(rankings, c) \in DOMAIN rankings
        /\ c \in ToSet(rankings[FirstList(rankings, c)])
        /\ \A j \in 1..(FirstList(rankings, c) - 1) : c \notin ToSet(rankings[j])
    BY <2>3 DEF FirstList
  <2> QED BY <2>4
<1> QED BY <1>3, <1>4, <1>5, ChunksAreFinite, FS_Subset

\* Two chunks never enter chunks_by_key at one place.
LEMMA SeenFirstOrders ==
    ASSUME NEW rankings \in Seq(Rankings)
    PROVE  Orders(SeenFirst(rankings), Seen(rankings))
<1> DEFINE S == Seen(rankings)
           first(c) == FirstList(rankings, c)
           at(c) == Rank(rankings[first(c)], c)
<1>1. \A c \in S : first(c) \in Nat /\ c \in ToSet(rankings[first(c)])
                   /\ rankings[first(c)] \in Seq(Chunks)
  BY SeenFacts DEF Rankings
<1>2. \A c \in S : at(c) \in Nat /\ rankings[first(c)][at(c)] = c
  BY <1>1, RankFacts
<1>3. \A a, b \in S : <<a, b>> \in SeenFirst(rankings) <=>
          first(a) < first(b) \/ (first(a) = first(b) /\ at(a) < at(b))
  BY DEF SeenFirst
<1>4. \A a, b \in S : a # b => first(a) # first(b) \/ at(a) # at(b)
  BY <1>2
<1> HIDE DEF S, first, at
<1>5. Orders(SeenFirst(rankings), S)
  BY <1>1, <1>2, <1>3, <1>4 DEF Orders
<1> QED BY <1>5 DEF S

LEMMA WeightGrows ==
    /\ \A r \in Nat : Weight(r) \in Nat
    /\ \A r, t \in Nat : r <= t => Weight(t) <= Weight(r)
<1> DEFINE N == 1000000000
<1>1. N \in Nat /\ N <= N
  OBVIOUS
<1> HIDE DEF N
<1>2. ASSUME NEW r \in Nat, NEW t \in Nat, r <= t
      PROVE  N \div (60 + t) \in Nat /\ N \div (60 + r) \in Nat
             /\ N \div (60 + t) <= N \div (60 + r)
  <2>1. 60 + r \in Nat /\ 60 + t \in Nat /\ 0 < 60 + r /\ 60 + r <= 60 + t
    BY <1>2
  <2> QED BY <1>1, <2>1, DivGrows
<1>3. \A r, t \in Nat : r <= t => N \div (60 + t) \in Nat /\ N \div (60 + r) \in Nat
                                  /\ N \div (60 + t) <= N \div (60 + r)
  BY <1>2
<1>4. \A r \in Nat : N \div (60 + r) \in Nat
  <2>1. \A r \in Nat : r <= r
    OBVIOUS
  <2> QED BY <1>3, <2>1
<1> QED BY <1>3, <1>4 DEF Weight, N

LEMMA ScoreFacts ==
    ASSUME NEW rankings \in Seq(Rankings), NEW a, NEW b,
           \A list \in ToSet(rankings) : b \in ToSet(list) =>
               a \in ToSet(list) /\ Rank(list, a) <= Rank(list, b)
    PROVE  /\ Score(rankings, a) \in Nat /\ Score(rankings, b) \in Nat
           /\ Score(rankings, b) <= Score(rankings, a)
<1> DEFINE given(c) == [k \in DOMAIN rankings |->
                IF c \in ToSet(rankings[k]) THEN Weight(Rank(rankings[k], c)) ELSE 0]
<1>1. \A k \in DOMAIN rankings : rankings[k] \in Seq(Chunks) /\ rankings[k] \in ToSet(rankings)
  BY DEF Rankings, ToSet
<1>2. \A c : \A k \in DOMAIN rankings :
          c \in ToSet(rankings[k]) => Rank(rankings[k], c) \in Nat
  BY <1>1, RankFacts
<1>3. \A c : \A k \in DOMAIN rankings : given(c)[k] \in Nat
  BY <1>2, WeightGrows
<1>4. \A k \in DOMAIN rankings : given(b)[k] <= given(a)[k]
  <2> TAKE k \in DOMAIN rankings
  <2>1. CASE b \in ToSet(rankings[k])
    <3>1. a \in ToSet(rankings[k]) /\ Rank(rankings[k], a) <= Rank(rankings[k], b)
      BY <1>1, <2>1
    <3>2. Weight(Rank(rankings[k], b)) <= Weight(Rank(rankings[k], a))
      BY <1>2, <2>1, <3>1, WeightGrows
    <3> QED BY <2>1, <3>1, <3>2
  <2>2. CASE b \notin ToSet(rankings[k])
    <3>1. given(b)[k] = 0
      BY <2>2
    <3>2. given(a)[k] \in Nat
      BY <1>3
    <3> HIDE DEF given
    <3> QED BY <3>1, <3>2
  <2> QED BY <2>1, <2>2
<1>5. DOMAIN rankings = 1..Len(rankings) /\ Len(rankings) \in Nat
  OBVIOUS
<1>6. \A c : DOMAIN given(c) = DOMAIN rankings /\ given(c) = [k \in DOMAIN rankings |-> given(c)[k]]
  OBVIOUS
<1>7. \A c : Score(rankings, c) = (Total(given(c)) + 500) \div 1000
  BY DEF Score
<1> HIDE DEF given
<1>8. \A c : given(c) \in Seq(Nat) /\ Len(given(c)) = Len(rankings)
  <2> TAKE c
  <2>1. given(c) \in [1..Len(rankings) -> Nat]
    BY <1>3, <1>5, <1>6
  <2> QED BY <1>5, <2>1
<1>9. Total(given(b)) \in Nat /\ Total(given(a)) \in Nat /\ Total(given(b)) <= Total(given(a))
  <2> DEFINE w == given(b)
             v == given(a)
  <2>1. w \in Seq(Nat) /\ v \in Seq(Nat) /\ Len(w) = Len(v)
    BY <1>8
  <2>2. \A i \in 1..Len(w) : w[i] <= v[i]
    BY <1>4, <1>5, <1>8
  <2> HIDE DEF w, v
  <2>3. Total(w) \in Nat /\ Total(v) \in Nat /\ Total(w) <= Total(v)
    BY <2>1, <2>2, TotalGrows
  <2> QED BY <2>3 DEF w, v
<1> DEFINE x == Total(given(b)) + 500
           y == Total(given(a)) + 500
<1>10. x \in Nat /\ y \in Nat /\ x <= y
  BY <1>9
<1> HIDE DEF x, y
<1>11. x \div 1000 \in Nat /\ y \div 1000 \in Nat /\ x \div 1000 <= y \div 1000
  BY <1>10
<1> QED BY <1>7, <1>11 DEF x, y

LEMMA ScoreType ==
    ASSUME NEW rankings \in Seq(Rankings), NEW c
    PROVE  Score(rankings, c) \in Nat
<1>1. \A list \in ToSet(rankings) : c \in ToSet(list) =>
          c \in ToSet(list) /\ Rank(list, c) <= Rank(list, c)
  <2> TAKE list \in ToSet(rankings)
  <2> HAVE c \in ToSet(list)
  <2>1. list \in Seq(Chunks)
    BY DEF ToSet, Rankings
  <2>2. Rank(list, c) \in Nat
    BY <2>1, RankFacts
  <2> QED BY <2>2
<1> QED BY <1>1, ScoreFacts

LEMMA FuseFacts ==
    ASSUME NEW rankings \in Seq(Rankings)
    PROVE  /\ Fuse(rankings) \in Rankings
           /\ ToSet(Fuse(rankings)) = Seen(rankings)
           /\ \A a, b \in Seen(rankings) :
                 \/ Score(rankings, a) > Score(rankings, b)
                 \/ Score(rankings, a) = Score(rankings, b) /\ <<a, b>> \in SeenFirst(rankings)
                 => Rank(Fuse(rankings), a) < Rank(Fuse(rankings), b)
<1> DEFINE S == Seen(rankings)
           scores == [c \in S |-> Score(rankings, c)]
           R == Descending(scores, SeenFirst(rankings))
           fused == Sorted(S, R)
<1>1. Fuse(rankings) = fused
  BY DEF Fuse
<1>2. scores \in [S -> Int] /\ DOMAIN scores = S
  BY ScoreType
<1>3. \A a, b \in S : <<a, b>> \in R <=>
          \/ Score(rankings, a) > Score(rankings, b)
          \/ Score(rankings, a) = Score(rankings, b) /\ <<a, b>> \in SeenFirst(rankings)
  BY <1>2 DEF Descending
<1> HIDE DEF scores
<1>4. Orders(R, S)
  BY <1>2, SeenFirstOrders, DescendingOrders
<1>5. IsFiniteSet(S) /\ S \subseteq Chunks
  BY SeenFacts
<1> HIDE DEF S, R
<1>6. /\ fused \in Seq(S) /\ IsInjective(fused) /\ ToSet(fused) = S
      /\ \A i, j \in DOMAIN fused : i < j <=> <<fused[i], fused[j]>> \in R
  BY <1>4, <1>5, SortedFacts
<1> HIDE DEF fused
<1>7. fused \in Rankings
  BY <1>5, <1>6 DEF Rankings
<1>8. \A a, b \in S : <<a, b>> \in R => Rank(fused, a) < Rank(fused, b)
  <2>1. \A c \in S : Rank(fused, c) \in DOMAIN fused /\ fused[Rank(fused, c)] = c
    BY <1>6, RankFacts
  <2> QED BY <1>6, <2>1
<1> QED BY <1>1, <1>3, <1>6, <1>7, <1>8 DEF S

\* Fusion of any lists: a chunk that comes before another wherever the other comes,
\* comes before it in the fusion.
LEMMA FusionIsFair ==
    ASSUME lists \in Seq(Rankings)
    PROVE  FusionRespectsRanks
<1> DEFINE fused == Fuse(lists)
<1>1. fused \in Rankings /\ ToSet(fused) = Seen(lists) /\ IsInjective(fused)
  BY FuseFacts DEF Rankings
<1>2. ASSUME NEW a \in Seen(lists), NEW b \in Seen(lists), a # b,
             \A list \in ToSet(lists) : b \in ToSet(list) =>
                 a \in ToSet(list) /\ Rank(list, a) < Rank(list, b)
      PROVE  Rank(fused, a) < Rank(fused, b)
  <2>1. \A list \in ToSet(lists) : b \in ToSet(list) =>
            a \in ToSet(list) /\ Rank(list, a) <= Rank(list, b)
    <3> SUFFICES ASSUME NEW list \in ToSet(lists), b \in ToSet(list)
                 PROVE  a \in ToSet(list) /\ Rank(list, a) <= Rank(list, b)
      OBVIOUS
    <3>1. a \in ToSet(list) /\ Rank(list, a) < Rank(list, b)
      BY <1>2
    <3>2. list \in Seq(Chunks)
      BY DEF ToSet, Rankings
    <3>3. Rank(list, a) \in Nat /\ Rank(list, b) \in Nat
      BY <3>1, <3>2, RankFacts
    <3> QED BY <3>1, <3>3
  <2>2. /\ Score(lists, a) \in Nat /\ Score(lists, b) \in Nat
        /\ Score(lists, b) <= Score(lists, a)
    BY <2>1, ScoreFacts
  <2>3. <<a, b>> \in SeenFirst(lists)
    <3> DEFINE k == FirstList(lists, a)
               m == FirstList(lists, b)
    <3>1. k \in DOMAIN lists /\ m \in DOMAIN lists /\ b \in ToSet(lists[m])
      BY SeenFacts
    <3>2. lists[m] \in ToSet(lists)
      BY <3>1 DEF ToSet
    <3>3. a \in ToSet(lists[m]) /\ Rank(lists[m], a) < Rank(lists[m], b)
      BY <1>2, <3>1, <3>2
    <3>4. k <= m
      BY <3>1, <3>3, SeenFacts
    <3>5. k \in Nat /\ m \in Nat
      BY <3>1
    <3>6. k < m \/ (k = m /\ Rank(lists[k], a) < Rank(lists[k], b))
      BY <3>3, <3>4, <3>5
    <3> QED BY <3>6 DEF SeenFirst
  <2> HIDE DEF fused
  <2>4. \/ Score(lists, a) > Score(lists, b)
        \/ Score(lists, a) = Score(lists, b) /\ <<a, b>> \in SeenFirst(lists)
    BY <2>2, <2>3
  <2> QED BY <2>4, FuseFacts DEF fused
<1> QED BY <1>1, <1>2 DEF FusionRespectsRanks

-----------------------------------------------------------------------------
(* The context and the scores shown *)

LEMMA SizeOfNone == Size(<<>>) = 0
<1>1. [i \in DOMAIN <<>> |-> SizeOf[<<>>[i]]] = <<>>
  OBVIOUS
<1> QED BY <1>1, TotalOfNone DEF Size

LEMMA SizeOfAppend ==
    ASSUME NEW list \in Seq(Chunks), NEW c \in Chunks
    PROVE  Size(list) \in Nat /\ Size(Append(list, c)) = Size(list) + SizeOf[c]
<1> DEFINE sizes == [i \in DOMAIN list |-> SizeOf[list[i]]]
           longer == Append(list, c)
<1>1. SizeOf \in [Chunks -> Nat]
  BY RagAssumption
<1>2. sizes \in Seq(Nat) /\ Len(sizes) = Len(list) /\ SizeOf[c] \in Nat
      /\ \A i \in 1..Len(list) : sizes[i] = SizeOf[list[i]]
  BY <1>1
<1>3. /\ longer \in Seq(Chunks) /\ Len(longer) = Len(list) + 1 /\ longer[Len(list) + 1] = c
      /\ \A i \in 1..Len(list) : longer[i] = list[i]
      /\ Len(list) \in Nat
  OBVIOUS
<1>4. Size(list) = Total(sizes)
  BY DEF Size
<1>5. Size(longer) = Total([i \in DOMAIN longer |-> SizeOf[longer[i]]])
  BY DEF Size
<1> HIDE DEF sizes, longer
<1>6. [i \in DOMAIN longer |-> SizeOf[longer[i]]] = Append(sizes, SizeOf[c])
  <2> DEFINE u == [i \in DOMAIN longer |-> SizeOf[longer[i]]]
             v == Append(sizes, SizeOf[c])
  <2>1. v \in Seq(Nat) /\ Len(v) = Len(list) + 1 /\ v[Len(list) + 1] = SizeOf[c]
        /\ \A i \in 1..Len(list) : v[i] = sizes[i]
    BY <1>2, <1>3
  <2>2. DOMAIN u = 1..(Len(list) + 1) /\ DOMAIN v = 1..(Len(list) + 1)
    BY <1>3, <2>1
  <2>3. \A i \in 1..(Len(list) + 1) : u[i] = SizeOf[longer[i]]
    BY <2>2
  <2> HIDE DEF u, v
  <2>4. \A i \in 1..(Len(list) + 1) : u[i] = v[i]
    <3> TAKE i \in 1..(Len(list) + 1)
    <3>1. CASE i = Len(list) + 1
      BY <1>3, <2>1, <2>3, <3>1
    <3>2. CASE i \in 1..Len(list)
      BY <1>2, <1>3, <2>1, <2>3, <3>2
    <3> QED BY <1>3, <3>1, <3>2
  <2>5. u = [i \in 1..(Len(list) + 1) |-> u[i]] /\ v = [i \in 1..(Len(list) + 1) |-> v[i]]
    BY <2>1, <2>2 DEF u
  <2>6. u = v
    BY <2>4, <2>5
  <2> QED BY <2>6 DEF u, v
<1>7. Total(sizes) \in Nat /\ Total(Append(sizes, SizeOf[c])) = Total(sizes) + SizeOf[c]
  BY <1>2, TotalOfAppend
<1> QED BY <1>4, <1>5, <1>6, <1>7 DEF longer

\* The recursive function that Taken takes its value from, up to turn n.
Turns(loop, list, n) ==
    loop = [k \in 0..n |-> IF k = 0 THEN [taken |-> <<>>, chars |-> 0, open |-> TRUE]
                                    ELSE TakeNext(loop[k - 1], list[k])]

\* There is one: were there a turn that cannot be reached, the least such turn could,
\* from the turn before.
LEMMA TurnsExist ==
    ASSUME NEW list \in Seq(Chunks)
    PROVE  \E loop : Turns(loop, list, Len(list))
<1> DEFINE Bad == {n \in 0..Len(list) : ~\E loop : Turns(loop, list, n)}
<1>1. SUFFICES Bad = {}
  <2>1. Len(list) \in 0..Len(list)
    OBVIOUS
  <2> QED BY <1>1, <2>1
<1>2. SUFFICES ASSUME Bad # {} PROVE FALSE
  OBVIOUS
<1>3. PICK n \in Bad : \A m \in Bad : n <= m
  <2>1. Bad \in SUBSET Nat
    OBVIOUS
  <2> HIDE DEF Bad
  <2> QED BY <1>2, <2>1, LeastExists
<1> DEFINE start == [taken |-> <<>>, chars |-> 0, open |-> TRUE]
<1>4. n # 0
  <2> DEFINE f == [k \in 0..0 |-> start]
  <2>1. f = [k \in 0..0 |-> IF k = 0 THEN start ELSE TakeNext(f[k - 1], list[k])]
    <3>1. \A k \in 0..0 : k = 0
      OBVIOUS
    <3> HIDE DEF start
    <3> QED BY <3>1
  <2>2. Turns(f, list, 0)
    <3> HIDE DEF f
    <3> QED BY <2>1 DEF Turns
  <2> QED BY <2>2, <1>3
<1>5. PICK s : Turns(s, list, n - 1)
  <2>1. n - 1 \in 0..Len(list) /\ ~(n <= n - 1)
    BY <1>3, <1>4
  <2>2. n - 1 \notin Bad
    BY <1>3, <2>1
  <2> QED BY <2>1, <2>2
<1>6. n \in Nat /\ n - 1 \in Nat
  BY <1>3, <1>4
<1> DEFINE t == [k \in 0..n |-> IF k = n THEN TakeNext(s[n - 1], list[n]) ELSE s[k]]
<1> HIDE DEF start
<1>7. \A k \in 0..(n - 1) : s[k] = IF k = 0 THEN start ELSE TakeNext(s[k - 1], list[k])
  BY <1>5 DEF Turns, start
<1>8. \A k \in 0..n : t[k] = IF k = 0 THEN start ELSE TakeNext(t[k - 1], list[k])
  <2> TAKE k \in 0..n
  <2>1. CASE k = n
    <3>1. t[n] = TakeNext(s[n - 1], list[n]) /\ t[n - 1] = s[n - 1]
      BY <1>6
    <3> QED BY <1>4, <2>1, <3>1
  <2>2. CASE k # n
    <3>1. k \in 0..(n - 1) /\ t[k] = s[k]
      BY <1>6, <2>2
    <3>2. k # 0 => t[k - 1] = s[k - 1]
      BY <1>6, <2>2
    <3> HIDE DEF t
    <3> QED BY <1>7, <3>1, <3>2
  <2> QED BY <2>1, <2>2
<1>9. t = [k \in 0..n |-> t[k]]
  OBVIOUS
<1> HIDE DEF t
<1>10. t = [k \in 0..n |-> IF k = 0 THEN start ELSE TakeNext(t[k - 1], list[k])]
  BY <1>8, <1>9
<1>11. Turns(t, list, n)
  BY <1>10 DEF Turns, start
<1> QED BY <1>3, <1>11

\* What the loop has taken after n turns: the first chunks of the list, all of them
\* while it goes on; once it has stopped, the next one did not fit.
Prefix(was, list, n) ==
    /\ was \in [taken: Seq(Chunks), chars: Nat, open: BOOLEAN]
    /\ Len(was.taken) <= n
    /\ \A i \in 1..Len(was.taken) : was.taken[i] = list[i]
    /\ was.chars = Size(was.taken) /\ was.chars <= Budget
    /\ was.open => Len(was.taken) = n
    /\ ~was.open => /\ Len(was.taken) < n
                    /\ was.chars + SizeOf[list[Len(was.taken) + 1]] > Budget

LEMMA TakeNextFacts ==
    ASSUME NEW list \in Seq(Chunks), NEW n \in 1..Len(list), NEW was,
           Prefix(was, list, n - 1)
    PROVE  Prefix(TakeNext(was, list[n]), list, n)
<1> DEFINE c == list[n]
           next == TakeNext(was, c)
<1>1. /\ was \in [taken: Seq(Chunks), chars: Nat, open: BOOLEAN]
      /\ Len(was.taken) <= n - 1 /\ was.chars = Size(was.taken) /\ was.chars <= Budget
      /\ \A i \in 1..Len(was.taken) : was.taken[i] = list[i]
      /\ was.open => Len(was.taken) = n - 1
      /\ ~was.open => /\ Len(was.taken) < n - 1
                      /\ was.chars + SizeOf[list[Len(was.taken) + 1]] > Budget
  BY DEF Prefix
<1>2. c \in Chunks /\ SizeOf[c] \in Nat /\ n \in Nat /\ Len(was.taken) \in Nat
      /\ Budget \in Nat
  <2>1. c \in Chunks /\ n \in Nat
    OBVIOUS
  <2>2. SizeOf \in [Chunks -> Nat] /\ Budget \in Nat
    BY RagAssumption
  <2>3. was.taken \in Seq(Chunks)
    BY <1>1
  <2> HIDE DEF c
  <2> QED BY <2>1, <2>2, <2>3
<1>3. CASE ~was.open \/ was.chars + SizeOf[c] > Budget
  <2>1. next = [was EXCEPT !.open = FALSE]
    BY <1>3 DEF TakeNext
  <2>2. /\ next \in [taken: Seq(Chunks), chars: Nat, open: BOOLEAN]
        /\ next.taken = was.taken /\ next.chars = was.chars /\ next.open = FALSE
    BY <1>1, <2>1
  <2>3. Len(was.taken) < n
    BY <1>1, <1>2
  <2>4. was.chars + SizeOf[list[Len(was.taken) + 1]] > Budget
    <3>1. CASE ~was.open
      BY <1>1, <3>1
    <3>2. CASE was.open
      <4>1. Len(was.taken) + 1 = n
        BY <1>1, <1>2, <3>2
      <4> QED BY <1>3, <3>2, <4>1
    <3> QED BY <3>1, <3>2
  <2> HIDE DEF next, c
  <2> QED BY <1>1, <1>2, <2>2, <2>3, <2>4 DEF Prefix, next, c
<1>4. CASE was.open /\ ~(was.chars + SizeOf[c] > Budget)
  <2> DEFINE taken == Append(was.taken, c)
  <2>1. next = [was EXCEPT !.taken = taken, !.chars = was.chars + SizeOf[c]]
    BY <1>1, <1>4 DEF TakeNext
  <2>2. /\ taken \in Seq(Chunks) /\ Len(taken) = n /\ taken[n] = c
        /\ \A i \in 1..(n - 1) : taken[i] = was.taken[i]
    BY <1>1, <1>2, <1>4
  <2>3. Size(taken) = was.chars + SizeOf[c]
    BY <1>1, <1>2, SizeOfAppend
  <2> HIDE DEF taken
  <2>4. /\ next \in [taken: Seq(Chunks), chars: Nat, open: BOOLEAN]
        /\ next.taken = taken /\ next.chars = was.chars + SizeOf[c] /\ next.open
    <3>1. was.chars + SizeOf[c] \in Nat
      BY <1>1, <1>2
    <3> HIDE DEF next, c
    <3> QED BY <1>1, <1>4, <2>1, <2>2, <3>1
  <2>5. \A i \in 1..n : taken[i] = list[i]
    <3> TAKE i \in 1..n
    <3>1. CASE i = n
      BY <2>2, <3>1
    <3>2. CASE i # n
      <4>1. i \in 1..(n - 1) /\ i \in 1..Len(was.taken)
        BY <1>1, <1>2, <1>4, <3>2
      <4> QED BY <1>1, <2>2, <4>1
    <3> QED BY <3>1, <3>2
  <2>6. was.chars + SizeOf[c] <= Budget
    BY <1>1, <1>2, <1>4
  <2> HIDE DEF next, c
  <2> QED BY <1>2, <2>2, <2>3, <2>4, <2>5, <2>6 DEF Prefix, next, c
<1> QED BY <1>1, <1>3, <1>4

LEMMA TakenFacts ==
    ASSUME NEW list \in Seq(Chunks)
    PROVE  Prefix(Taken(list), list, Len(list))
<1> DEFINE loop == CHOOSE loop : Turns(loop, list, Len(list))
<1>1. Turns(loop, list, Len(list))
  BY TurnsExist
<1>2. Taken(list) = loop[Len(list)]
  BY DEF Taken, Turns
<1> HIDE DEF loop
<1>3. \A k \in 0..Len(list) :
          loop[k] = IF k = 0 THEN [taken |-> <<>>, chars |-> 0, open |-> TRUE]
                             ELSE TakeNext(loop[k - 1], list[k])
  BY <1>1 DEF Turns
<1> DEFINE Bad == {n \in 0..Len(list) : ~Prefix(loop[n], list, n)}
<1>4. Bad = {}
  <2> SUFFICES ASSUME Bad # {} PROVE FALSE
    OBVIOUS
  <2>1. PICK n \in Bad : \A m \in Bad : n <= m
    <3>1. Bad \in SUBSET Nat
      OBVIOUS
    <3> HIDE DEF Bad
    <3> QED BY <3>1, LeastExists
  <2>2. n # 0
    <3>1. loop[0] = [taken |-> <<>>, chars |-> 0, open |-> TRUE]
      BY <1>3
    <3> DEFINE start == [taken |-> <<>>, chars |-> 0, open |-> TRUE]
    <3>2. start \in [taken: Seq(Chunks), chars: Nat, open: BOOLEAN]
          /\ start.taken = <<>> /\ start.chars = 0 /\ start.open
      OBVIOUS
    <3>3. Len(<<>>) = 0 /\ 0 <= Budget
      BY RagAssumption
    <3> HIDE DEF start
    <3>4. Prefix(start, list, 0)
      BY <3>2, <3>3, SizeOfNone DEF Prefix
    <3> QED BY <2>1, <3>1, <3>4 DEF start
  <2>3. n \in 1..Len(list) /\ n - 1 \in 0..Len(list) /\ ~(n <= n - 1)
    BY <2>1, <2>2
  <2>4. Prefix(loop[n - 1], list, n - 1)
    BY <2>1, <2>3
  <2>5. loop[n] = TakeNext(loop[n - 1], list[n])
    BY <1>3, <2>1, <2>2
  <2> QED BY <2>1, <2>3, <2>4, <2>5, TakeNextFacts
<1>5. Len(list) \in 0..Len(list)
  OBVIOUS
<1> QED BY <1>2, <1>4, <1>5

\* build_context keeps a prefix that is not empty and that the next chunk would take
\* over the budget; its text is whole, or is the first chunk cut at the budget.
LEMMA ContextFacts ==
    ASSUME NEW list \in Rankings, list # <<>>
    PROVE  \E n \in 1..Len(list) :
              LET whole == Size(SubSeq(list, 1, n))
                  chars == Context(list).chars
              IN  /\ Context(list).chunks = SubSeq(list, 1, n)
                  /\ chars \in Nat /\ chars <= Budget
                  /\ chars = whole \/ (n = 1 /\ whole > chars /\ chars = Budget)
                  /\ n < Len(list) => whole + SizeOf[list[n + 1]] > Budget
<1> DEFINE end == Taken(list)
           m == Len(end.taken)
<1>1. list \in Seq(Chunks) /\ Len(list) \in Nat /\ Len(list) # 0 /\ Budget \in Nat
      /\ SizeOf \in [Chunks -> Nat]
  BY RagAssumption DEF Rankings
<1>2. /\ end \in [taken: Seq(Chunks), chars: Nat, open: BOOLEAN]
      /\ m <= Len(list) /\ \A i \in 1..m : end.taken[i] = list[i]
      /\ end.chars = Size(end.taken) /\ end.chars <= Budget
      /\ end.open => m = Len(list)
      /\ ~end.open => m < Len(list) /\ end.chars + SizeOf[list[m + 1]] > Budget
  BY <1>1, TakenFacts DEF Prefix
<1>3. Context(list) = IF end.taken = <<>>
        THEN [chunks |-> <<list[1]>>,
              chars |-> IF SizeOf[list[1]] < Budget THEN SizeOf[list[1]] ELSE Budget]
        ELSE [chunks |-> end.taken, chars |-> end.chars]
  BY DEF Context
<1> HIDE DEF end
<1>4. CASE end.taken = <<>>
  <2> DEFINE c == list[1]
  <2>1. m = 0 /\ end.chars = 0
    BY <1>4, <1>2, SizeOfNone
  <2>2. c \in Chunks /\ SizeOf[c] \in Nat /\ SizeOf[c] > Budget
    BY <1>1, <1>2, <2>1
  <2>3. SubSeq(list, 1, 1) = <<c>> /\ <<c>> = Append(<<>>, c)
    <3> DEFINE p == SubSeq(list, 1, 1)
    <3>1. 1 \in 0..Len(list)
      BY <1>1
    <3>2. p \in Seq(Chunks) /\ DOMAIN p = 1..1 /\ Len(p) = 1 /\ \A i \in 1..1 : p[i] = list[i]
      BY <3>1, PrefixFacts DEF Rankings
    <3> HIDE DEF p
    <3>3. p = <<c>>
      BY <3>2
    <3> QED BY <3>3 DEF p
  <2>4. Size(SubSeq(list, 1, 1)) = SizeOf[c]
    <3>1. Size(Append(<<>>, c)) = Size(<<>>) + SizeOf[c]
      <4>1. <<>> \in Seq(Chunks)
        OBVIOUS
      <4> QED BY <2>2, <4>1, SizeOfAppend
    <3>2. Size(SubSeq(list, 1, 1)) = Size(<<>>) + SizeOf[c]
      BY <2>3, <3>1, Zenon
    <3> QED BY <2>2, <3>2, SizeOfNone
  <2>5. Context(list).chunks = <<c>> /\ Context(list).chars = Budget
    BY <1>1, <1>3, <1>4, <2>2
  <2>6. 1 < Len(list) => SizeOf[list[1 + 1]] \in Nat
    BY <1>1
  <2>7. 1 < Len(list) => Size(SubSeq(list, 1, 1)) + SizeOf[list[1 + 1]] > Budget
    BY <1>1, <2>2, <2>4, <2>6
  <2>8. 1 \in 1..Len(list)
    BY <1>1
  <2> HIDE DEF c
  <2>9. Size(SubSeq(list, 1, 1)) > Budget
    BY <2>2, <2>4
  <2>10. Context(list).chunks = SubSeq(list, 1, 1)
    BY <2>3, <2>5
  <2> QED BY <1>1, <2>5, <2>7, <2>8, <2>9, <2>10
<1>5. CASE end.taken # <<>>
  <2>1. m \in 1..Len(list) /\ m \in 0..Len(list)
    BY <1>1, <1>2, <1>5
  <2>2. end.taken = SubSeq(list, 1, m)
    <3> DEFINE p == SubSeq(list, 1, m)
    <3>1. p \in Seq(Chunks) /\ DOMAIN p = 1..m /\ Len(p) = m /\ \A i \in 1..m : p[i] = list[i]
      BY <2>1, PrefixFacts DEF Rankings
    <3>2. end.taken \in Seq(Chunks) /\ DOMAIN end.taken = 1..m
      BY <1>2
    <3> HIDE DEF p, m
    <3>3. end.taken = [i \in 1..m |-> end.taken[i]] /\ p = [i \in 1..m |-> p[i]]
      BY <3>1, <3>2
    <3>4. end.taken = p
      BY <1>2, <3>1, <3>3
    <3> QED BY <3>4 DEF p
  <2>3. Context(list).chunks = end.taken /\ Context(list).chars = end.chars
    BY <1>3, <1>5
  <2>4. m < Len(list) => end.chars + SizeOf[list[m + 1]] > Budget
    BY <1>2, <2>1
  <2> QED BY <1>2, <2>1, <2>2, <2>3, <2>4
<1> QED BY <1>4, <1>5

\* What has been reranked is in the order of its scores; else nothing has a score.
Scored(list) ==
    \/ DOMAIN score = {}
    \/ /\ ToSet(list) \subseteq DOMAIN score
       /\ \A i, j \in DOMAIN list : i <= j => score[list[i]] >= score[list[j]]

LEMMA PercentFacts ==
    ASSUME NEW list \in Rankings, Scored(list), score \in [DOMAIN score -> 0..MaxScore]
    PROVE  /\ DOMAIN Percent(list) = DOMAIN list
           /\ \A i \in DOMAIN list : Percent(list)[i] \in 0..100
           /\ \A i, j \in DOMAIN list :
                 i <= j => Percent(list)[i] >= Percent(list)[j]
<1> DEFINE scores == {score[c] : c \in ToSet(list) \cap DOMAIN score}
           least == CHOOSE x \in scores : \A y \in scores : x <= y
           most == CHOOSE x \in scores : \A y \in scores : y <= x
           span == IF most = least THEN 1 ELSE most - least
           share(i) == ((score[list[i]] - least) * 100) \div span
<1>1. Percent(list) = [i \in DOMAIN list |->
                          IF list[i] \in DOMAIN score THEN share(i) ELSE 100]
  BY DEF Percent
<1>2. list \in Seq(Chunks) /\ DOMAIN list = 1..Len(list) /\ Len(list) \in Nat
  BY DEF Rankings
<1>3. CASE DOMAIN score = {}
  <2> HIDE DEF share
  <2>1. \A i \in DOMAIN list : Percent(list)[i] = 100
    BY <1>1, <1>3
  <2> QED BY <1>1, <2>1
<1>4. CASE DOMAIN score # {}
  <2>1. \A i \in DOMAIN list : list[i] \in ToSet(list) /\ list[i] \in DOMAIN score
    BY <1>4 DEF Scored, ToSet
  <2>2. \A i \in DOMAIN list : Percent(list)[i] = share(i)
    <3> HIDE DEF share
    <3> QED BY <1>1, <2>1
  <2>3. \A i \in DOMAIN list : score[list[i]] \in scores
    BY <2>1
  <2>4. MaxScore \in Nat /\ scores \in SUBSET (0..MaxScore) /\ scores \in SUBSET Nat
    BY RagAssumption
  <2>5. \A i, j \in DOMAIN list : i <= j => score[list[i]] >= score[list[j]]
    BY <1>4 DEF Scored
  <2>6. CASE DOMAIN list = {}
    BY <1>1, <2>6
  <2>7. CASE DOMAIN list # {}
    <3>1. scores # {}
      BY <2>3, <2>7
    <3> HIDE DEF scores
    <3>2. least \in scores /\ \A y \in scores : least <= y
      BY <2>4, <3>1, LeastExists
    <3>3. most \in scores /\ \A y \in scores : y <= most
      BY <2>4, <3>1, GreatestExists
    <3> HIDE DEF least, most
    <3>4. span \in Nat /\ 0 < span /\ most - least <= span
      BY <2>4, <3>2, <3>3
    <3>5. \A i \in DOMAIN list :
              /\ score[list[i]] - least \in Nat
              /\ score[list[i]] - least <= span
      BY <2>3, <2>4, <3>2, <3>3, <3>4
    <3> HIDE DEF span
    <3>6. ASSUME NEW x \in Nat, x <= span
          PROVE  (x * 100) \div span \in 0..100
      <4>1. x * 100 \in Nat /\ span * 100 \in Nat /\ x * 100 <= span * 100
        BY <3>4, <3>6
      <4>2. /\ (x * 100) \div span \in Nat /\ (span * 100) \div span \in Nat
            /\ (x * 100) \div span <= (span * 100) \div span
        BY <3>4, <4>1, DivGrows
      <4>3. (span * 100) \div span = 100
        BY <3>4
      <4> QED BY <4>2, <4>3
    <3>7. ASSUME NEW x \in Nat, NEW y \in Nat, x <= y
          PROVE  (x * 100) \div span <= (y * 100) \div span
      <4>1. x * 100 \in Nat /\ y * 100 \in Nat /\ x * 100 <= y * 100
        BY <3>7
      <4> QED BY <3>4, <4>1, DivGrows
    <3>8. \A i \in DOMAIN list : share(i) \in 0..100
      BY <3>5, <3>6
    <3>9. \A i, j \in DOMAIN list : i <= j => share(j) <= share(i)
      <4> SUFFICES ASSUME NEW i \in DOMAIN list, NEW j \in DOMAIN list, i <= j
                   PROVE  share(j) <= share(i)
        OBVIOUS
      <4> DEFINE x == score[list[j]] - least
                 y == score[list[i]] - least
      <4>1. x \in Nat /\ y \in Nat
        BY <3>5
      <4>2. x <= y
        BY <2>3, <2>4, <2>5, <3>2
      <4>3. share(j) = (x * 100) \div span /\ share(i) = (y * 100) \div span
        OBVIOUS
      <4> HIDE DEF x, y, share
      <4> QED BY <3>7, <4>1, <4>2, <4>3
    <3> HIDE DEF share
    <3> QED BY <1>1, <2>2, <3>8, <3>9
  <2> QED BY <2>6, <2>7
<1> QED BY <1>3, <1>4

LEMMA CiteFacts ==
    ASSUME NEW list \in Rankings, Scored(list), score \in [DOMAIN score -> 0..MaxScore]
    PROVE  /\ Cite(list) \in Seq(RankedChunks) /\ DOMAIN Cite(list) = DOMAIN list
           /\ \A i \in DOMAIN list : /\ Cite(list)[i].chunk = list[i]
                                     /\ Cite(list)[i].percent \in 0..100
           /\ \A i, j \in DOMAIN list :
                 i <= j => Cite(list)[i].percent >= Cite(list)[j].percent
           /\ {cite.chunk : cite \in ToSet(Cite(list))} = ToSet(list)
<1>1. list \in Seq(Chunks) /\ DOMAIN list = 1..Len(list) /\ Len(list) \in Nat
  BY DEF Rankings
<1> DEFINE p == Percent(list)
           cited == Cite(list)
<1>2. /\ \A i \in DOMAIN list : p[i] \in 0..100
      /\ \A i, j \in DOMAIN list : i <= j => p[i] >= p[j]
  BY PercentFacts
<1>3. /\ cited = [i \in DOMAIN list |-> [chunk |-> list[i], percent |-> p[i]]]
  BY DEF Cite
<1> HIDE DEF p, cited
<1>4. /\ DOMAIN cited = DOMAIN list
      /\ \A i \in DOMAIN list : cited[i] = [chunk |-> list[i], percent |-> p[i]]
  BY <1>3
<1>5. \A i \in DOMAIN list : cited[i].chunk = list[i] /\ cited[i].percent = p[i]
  BY <1>4
<1>6. \A i \in DOMAIN list : cited[i] \in RankedChunks
  BY <1>1, <1>2, <1>4 DEF RankedChunks
<1>7. cited \in [1..Len(list) -> RankedChunks]
  BY <1>1, <1>3, <1>4, <1>6
<1>8. cited \in Seq(RankedChunks)
  BY <1>1, <1>7
<1>9. {cite.chunk : cite \in ToSet(cited)} = ToSet(list)
  BY <1>4, <1>5 DEF ToSet
<1> QED BY <1>2, <1>4, <1>5, <1>8, <1>9 DEF cited

-----------------------------------------------------------------------------
(* The inductive invariant *)

\* What the question asks of a chunk, whoever found it.
Fits(c) ==
    SourceOf[c] # "sql" =>
        IF routing.doc # NoDoc THEN DocOf[c] = routing.doc
        ELSE /\ scope.instance # NoInstance =>
                    IsWithin(scope.instance, MetaOf[c][InstanceKey])
             /\ \A f \in routing.filters :
                    f.values # {} /\ f.key \in AllowedKeys[SourceOf[c]] => Satisfies(c, f)

\* Once routed, the question is about the instance of the chat, whatever the model says.
Scoped ==
    stage \notin {"asked", "condensed"} /\ scope.instance # NoInstance =>
        InstanceFilter(scope.instance) \in routing.filters

Unsearched ==
    stage \in {"asked", "condensed"} => lists = <<>> /\ results = <<>>
Unranked ==
    stage \in {"asked", "condensed", "routed", "retrieved", "fused"} =>
        ranked = <<>> /\ DOMAIN score = {}
Unanswered == stage \notin {"answered", "replied"} => answer = NoAnswer

\* While the lists of an agent wait for their fusion, they hold chunks of its source.
Retrieving ==
    stage = "retrieved" =>
        /\ routing.inScope /\ ~SearchDone /\ routing.doc = NoDoc
        /\ \A list \in ToSet(lists) : ToSet(list) \subseteq OfSource(Current)

FoundFits ==
    /\ \A list \in ToSet(results) : \A c \in ToSet(list) : Fits(c)
    /\ \A c \in ToSet(ranked) : Fits(c)
    /\ \A c \in {cite.chunk : cite \in ToSet(answer.cited)} : Fits(c)

Answered ==
    MentionsWhatItCites /\ ScoresAreRankedPercentages /\ ContextFits

Inv ==
    /\ TypeOK
    /\ Scoped
    /\ Unsearched /\ Unranked /\ Unanswered
    /\ Retrieving
    /\ Scored(ranked)
    /\ FoundFits
    /\ Answered

LEMMA InitInv == Init => Inv
<1> SUFFICES ASSUME Init PROVE Inv
  OBVIOUS
<1> USE DEF Init
<1>1. TypeOK
  <2>1. routing \in Decisions
    BY DEF Unrouted, Decisions
  <2>2. /\ score \in [DOMAIN score -> 0..MaxScore] /\ DOMAIN score = {}
    OBVIOUS
  <2>3. /\ answer \in [kind: {"none", "out_of_scope", "nothing", "passthrough", "generated"},
                       mentioned: SUBSET Docs, cited: Seq(RankedChunks), chars: Nat]
    BY EmptyFacts DEF NoAnswer
  <2>4. ~routing.inScope
    BY DEF Unrouted
  <2> QED BY <2>1, <2>2, <2>3, <2>4, EmptyFacts DEF TypeOK
<1>2. Scoped /\ Unsearched /\ Unranked /\ Unanswered /\ Retrieving
  BY DEF Scoped, Unsearched, Unranked, Unanswered, Retrieving
<1>3. Scored(ranked)
  BY DEF Scored
<1>4. FoundFits
  BY EmptyFacts DEF FoundFits, NoAnswer
<1>5. Answered
  BY DEF Answered, NoAnswer, MentionsWhatItCites, ScoresAreRankedPercentages, ContextFits
<1> QED BY <1>1, <1>2, <1>3, <1>4, <1>5 DEF Inv

-----------------------------------------------------------------------------
(* Routing *)

LEMMA EmptyQuestion == {} \in Questions
<1>1. Cardinality({}) = 0 /\ MaxWords \in Nat
  BY FS_EmptySet, RagAssumption
<1> QED BY <1>1 DEF Questions

LEMMA DecisionFacts ==
    ASSUME NEW sources \in Seq(Sources), NEW doc \in {NoDoc} \cup Range(TicketDoc)
    PROVE  Decision(sources, doc) \in Decisions /\ Decision(sources, doc).inScope
<1>1. {} \subseteq Filters \cup InstanceFilters
  OBVIOUS
<1> QED BY <1>1 DEF Decision, Unrouted, Decisions

LEMMA RuleRouteFacts ==
    ASSUME NEW q, NEW decision \in RuleRoute(q)
    PROVE  decision \in Decisions
<1>1. Refusal \in Decisions
  BY DEF Refusal, Unrouted, Decisions
<1>2. \A w \in DOMAIN TicketDoc : Decision(<<"jira">>, TicketDoc[w]) \in Decisions
  <2> TAKE w \in DOMAIN TicketDoc
  <2>1. <<"jira">> \in Seq(Sources) /\ TicketDoc[w] \in Range(TicketDoc)
    BY RagAssumption DEF Range
  <2> QED BY <2>1, DecisionFacts
<1>3. \A w \in DOMAIN SourceNames : Decision(<<SourceNames[w]>>, NoDoc) \in Decisions
  <2> TAKE w \in DOMAIN SourceNames
  <2>1. <<SourceNames[w]>> \in Seq(Sources)
    BY RagAssumption
  <2> QED BY <2>1, DecisionFacts
<1>4. Decision(<<"sql">>, NoDoc) \in Decisions
  <2>1. <<"sql">> \in Seq(Sources)
    BY RagAssumption
  <2> QED BY <2>1, DecisionFacts
<1> QED BY <1>1, <1>2, <1>3, <1>4 DEF RuleRoute, Naming

LEMMA LLMRoutesFacts ==
    ASSUME NEW decision \in LLMRoutes
    PROVE  decision \in Decisions
<1>1. ASSUME NEW sources \in Seq(Sources), NEW doc \in {NoDoc} \cup SaidDocs,
             NEW filters \in SUBSET Filters
      PROVE  Said(sources, doc, filters) \in Decisions
  <2>1. (sources # <<>>) \in BOOLEAN
    OBVIOUS
  <2> QED BY <2>1 DEF Said, Decisions
<1>2. Said(Fallback, NoDoc, {}) \in Decisions
  BY <1>1, RagAssumption
<1>3. ASSUME NEW sources \in {Available} \cup SeqOf(Sources, MaxSources)
      PROVE  sources \in Seq(Sources)
  <2>1. CASE sources = Available
    BY <2>1, RagAssumption
  <2>2. CASE sources \in SeqOf(Sources, MaxSources)
    <3>1. PICK m \in 0..MaxSources : sources \in [1..m -> Sources]
      BY <2>2 DEF SeqOf
    <3>2. m \in Nat
      BY <3>1, RagAssumption
    <3> QED BY <3>1, <3>2
  <2> QED BY <2>1, <2>2
<1>4. \A F \in FilterSets : F \in SUBSET Filters
  BY DEF FilterSets
<1>5. CASE decision = Said(Fallback, NoDoc, {})
  BY <1>2, <1>5
<1>6. CASE decision # Said(Fallback, NoDoc, {})
  <2>1. PICK sources \in {Available} \cup SeqOf(Sources, MaxSources),
             doc \in {NoDoc} \cup SaidDocs, filters \in FilterSets :
           decision = Said(sources, doc, filters)
    BY <1>6 DEF LLMRoutes
  <2> QED BY <1>1, <1>3, <1>4, <2>1
<1> QED BY <1>5, <1>6

LEMMA ForcedFacts ==
    ASSUME NEW decision \in Decisions, scope \in Scopes
    PROVE  /\ Forced(decision) \in Decisions
           /\ decision.inScope => Forced(decision).inScope
           /\ scope.instance # NoInstance =>
                 InstanceFilter(scope.instance) \in Forced(decision).filters
<1>1. scope.sources \in Seq(Sources)
  BY RagAssumption
<1>2. scope.doc \in {s.doc : s \in Scopes} /\ InstanceFilter(scope.instance) \in InstanceFilters
  BY DEF InstanceFilters
<1> DEFINE sources == IF scope.sources = <<>> THEN decision.sources ELSE scope.sources
           inScope == decision.inScope \/ scope.sources # <<>>
           filters == IF scope.instance = NoInstance THEN decision.filters
                      ELSE {f \in decision.filters : f.key # InstanceKey \/ f.negated}
                           \cup {InstanceFilter(scope.instance)}
           doc == IF scope.doc = NoDoc THEN decision.doc ELSE scope.doc
<1>3. decision.filters \subseteq Filters \cup InstanceFilters
  BY DEF Decisions
<1>4. /\ filters \subseteq Filters \cup InstanceFilters
      /\ scope.instance # NoInstance => InstanceFilter(scope.instance) \in filters
  BY <1>2, <1>3
<1>5. /\ sources \in Seq(Sources) /\ inScope \in BOOLEAN
      /\ doc \in {NoDoc} \cup SaidDocs \cup Range(TicketDoc) \cup {s.doc : s \in Scopes}
      /\ decision.inScope => inScope
  BY <1>1, <1>2 DEF Decisions
<1>6. Forced(decision) = [decision EXCEPT !.sources = sources, !.inScope = inScope,
                              !.filters = filters, !.doc = doc]
  BY DEF Forced
<1> HIDE DEF sources, inScope, doc, filters
<1>7. Forced(decision) \in Decisions
  BY <1>4, <1>5, <1>6 DEF Decisions
<1>8. Forced(decision).inScope = inScope /\ Forced(decision).filters = filters
  BY <1>6 DEF Decisions
<1> QED BY <1>4, <1>5, <1>7, <1>8

LEMMA RouteFacts ==
    ASSUME Route, scope \in Scopes
    PROVE  /\ routing' \in Decisions
           /\ scope.instance # NoInstance => InstanceFilter(scope.instance) \in routing'.filters
<1>1. PICK decision \in IF RuleRoute(question) # {} THEN RuleRoute(question)
                         ELSE LLMRoutes :
          routing' = Forced(decision)
  BY DEF Route
<1>2. decision \in Decisions
  BY <1>1, RuleRouteFacts, LLMRoutesFacts
<1> QED BY <1>1, <1>2, ForcedFacts

-----------------------------------------------------------------------------
(* Steps that leave the answer alone *)

LEMMA SameAnswer ==
    ASSUME Answered, UNCHANGED <<routing, answer>>, answer = NoAnswer \/ UNCHANGED ranked
    PROVE  Answered'
<1>1. MentionsWhatItCites' /\ ScoresAreRankedPercentages'
  BY DEF Answered, MentionsWhatItCites, ScoresAreRankedPercentages, Requested
<1>2. ContextFits'
  <2>1. CASE answer = NoAnswer
    BY <2>1 DEF NoAnswer, ContextFits
  <2>2. CASE UNCHANGED ranked
    BY <2>2 DEF Answered, ContextFits
  <2> QED BY <2>1, <2>2
<1> QED BY <1>1, <1>2 DEF Answered

LEMMA NoAnswerYet ==
    ASSUME answer' = NoAnswer
    PROVE  /\ Answered'
           /\ {cite.chunk : cite \in ToSet(answer.cited)}' = {}
           /\ answer' \in [kind: {"none", "out_of_scope", "nothing", "passthrough",
                                 "generated"},
                          mentioned: SUBSET Docs, cited: Seq(RankedChunks), chars: Nat]
BY EmptyFacts DEF NoAnswer, Answered, MentionsWhatItCites, ScoresAreRankedPercentages,
                  ContextFits

LEMMA SameFits ==
    ASSUME UNCHANGED <<scope, routing>>, NEW c
    PROVE  Fits(c)' <=> Fits(c)
BY DEF Fits

LEMMA SameScored ==
    ASSUME Scored(ranked), UNCHANGED <<ranked, score>>
    PROVE  Scored(ranked)'
BY DEF Scored

LEMMA CondenseInv == ASSUME Inv, Condense PROVE Inv'
<1> USE DEF Inv, Condense, found
<1>1. TypeOK'
  BY DEF TypeOK
<1>2. Scoped' /\ Unsearched' /\ Unranked' /\ Unanswered' /\ Retrieving'
  BY DEF Scoped, Unsearched, Unranked, Unanswered, Retrieving
<1>3. FoundFits'
  BY SameFits DEF FoundFits
<1>4. Scored(ranked)' /\ Answered'
  BY SameScored, SameAnswer
<1> QED BY <1>1, <1>2, <1>3, <1>4

LEMMA RouteInv == ASSUME Inv, Route PROVE Inv'
<1> USE DEF Inv, found
<1>1. /\ stage = "condensed" /\ stage' = "routed"
      /\ UNCHANGED <<question, history, scope, found, answer, logged>>
  BY DEF Route
<1>2. lists = <<>> /\ results = <<>> /\ ranked = <<>> /\ DOMAIN score = {}
      /\ answer = NoAnswer
  BY <1>1 DEF Scoped, Unsearched, Unranked, Unanswered
<1>3. TypeOK'
  <2>1. routing' \in Decisions
    BY RouteFacts DEF TypeOK
  <2>2. Len(results') <= Len(routing'.sources)
    BY <1>1, <1>2, <2>1 DEF Decisions
  <2> QED BY <1>1, <2>1, <2>2 DEF TypeOK
<1>4. Scoped' /\ Unsearched' /\ Unranked' /\ Unanswered' /\ Retrieving'
  BY <1>1, <1>2, RouteFacts DEF TypeOK, Scoped, Unsearched, Unranked, Unanswered, Retrieving
<1>5. Scored(ranked)' /\ Answered' /\ {cite.chunk : cite \in ToSet(answer.cited)}' = {}
  BY <1>1, <1>2, SameScored, NoAnswerYet
<1>6. FoundFits'
  BY <1>1, <1>2, <1>5, EmptyFacts DEF FoundFits
<1> QED BY <1>3, <1>4, <1>5, <1>6

-----------------------------------------------------------------------------
(* Searching *)

LEMMA ListsOf ==
    ASSUME NEW S \in SUBSET Chunks, NEW list \in SetToSeqs(S)
    PROVE  list \in Rankings /\ ToSet(list) \subseteq S
<1>1. list \in [1..Cardinality(S) -> S] /\ IsInjective(list)
  BY DEF SetToSeqs, IsInjective
<1>2. Cardinality(S) \in Nat
  BY ChunksAreFinite, FS_Subset, FS_CardinalityType
<1>3. list \in Seq(Chunks)
  BY <1>1, <1>2
<1> QED BY <1>1, <1>3 DEF Rankings, ToSet

LEMMA RankedListsOf ==
    ASSUME NEW S \in SUBSET Chunks, NEW n, NEW list \in RankedLists(S, n)
    PROVE  list \in Rankings /\ ToSet(list) \subseteq S
<1>1. PICK T \in SUBSET S : list \in SetToSeqs(T)
  BY DEF RankedLists
<1> QED BY <1>1, ListsOf

LEMMA RetrieveInv == ASSUME Inv, Retrieve PROVE Inv'
<1> USE DEF Inv
<1> DEFINE here == OfSource(Current)
           kept == {c \in here : \A f \in SqlFilters(Current) : Matches(c, f)}
<1>1. /\ stage \in {"routed", "fused"} /\ routing.inScope /\ ~SearchDone
      /\ routing.doc = NoDoc /\ stage' = "retrieved" /\ question' = {}
      /\ UNCHANGED <<history, scope, routing, results, exact, ranked, score, answer, logged>>
  BY DEF Retrieve
<1>2. here \in SUBSET Chunks /\ kept \in SUBSET here
  BY DEF OfSource
<1>3. PICK vector \in RankedLists(here, TopMethod), bm25 \in RankedLists(here, TopMethod),
           sql \in {<<>>} \cup RankedLists(kept, TopMethod) :
         lists' = <<vector, bm25, sql>>
  BY DEF Retrieve
<1> HIDE DEF here, kept
<1>4. /\ vector \in Rankings /\ ToSet(vector) \subseteq here
      /\ bm25 \in Rankings /\ ToSet(bm25) \subseteq here
  BY <1>2, <1>3, RankedListsOf
<1>5. sql \in Rankings /\ ToSet(sql) \subseteq here
  <2>1. CASE sql = <<>>
    BY <2>1, EmptyFacts
  <2>2. CASE sql \in RankedLists(kept, TopMethod)
    BY <1>2, <2>2, RankedListsOf
  <2> QED BY <1>3, <2>1, <2>2
<1>6. lists' \in Seq(Rankings) /\ \A list \in ToSet(lists') : ToSet(list) \subseteq here
  BY <1>3, <1>4, <1>5 DEF ToSet
<1>7. TypeOK'
  BY <1>1, <1>6, EmptyQuestion DEF TypeOK
<1>8. Scoped' /\ Unsearched' /\ Unranked' /\ Unanswered'
  BY <1>1 DEF Scoped, Unsearched, Unranked, Unanswered
<1>9. Retrieving'
  BY <1>1, <1>6 DEF Retrieving, SearchDone, Current, OfSource, here
<1>10. FoundFits'
  BY <1>1, SameFits DEF FoundFits
<1>11. Scored(ranked)' /\ Answered'
  BY <1>1, SameScored, SameAnswer
<1> QED BY <1>7, <1>8, <1>9, <1>10, <1>11

\* The result of an agent: chunks that fit, or an error.
LEMMA FoundInv ==
    ASSUME Inv, NEW chunks \in Rankings, NEW exactOnes, Found(chunks, exactOnes),
           \A c \in ToSet(chunks) : Fits(c),
           stage \in {"routed", "retrieved", "fused"}, stage' = "fused",
           routing.inScope, ~SearchDone,
           question' \in Questions, lists' \in Seq(Rankings),
           UNCHANGED <<scope, routing, ranked, score, answer, logged>>
    PROVE  Inv'
<1> USE DEF Inv
<1>1. results \in Seq(Rankings) /\ ToSet(chunks) \subseteq Chunks
  BY DEF TypeOK, Rankings, ToSet
<1>2. PICK list \in {chunks, <<>>} : results' = Append(results, list)
  BY DEF Found
<1>3. list \in Rankings
  BY <1>2, EmptyFacts
<1>4. /\ results' \in Seq(Rankings) /\ Len(results') = Len(results) + 1
      /\ ToSet(results') = ToSet(results) \cup {list}
  BY <1>1, <1>2, <1>3, AppendFacts
<1>5. exact' \subseteq Chunks
  BY <1>1 DEF Found, TypeOK
<1>6. TypeOK'
  <2>1. Len(results') <= Len(routing'.sources)
    <3>1. Len(results) \in Nat /\ Len(routing.sources) \in Nat
      BY DEF TypeOK, Decisions
    <3> QED BY <1>4, <3>1 DEF TypeOK, SearchDone
  <2> QED BY <1>4, <1>5, <2>1 DEF TypeOK
<1>7. Scoped' /\ Unsearched' /\ Unranked' /\ Unanswered' /\ Retrieving'
  BY DEF Scoped, Unsearched, Unranked, Unanswered, Retrieving
<1>8. \A c \in ToSet(list) : Fits(c)
  BY <1>2, EmptyFacts
<1>9. FoundFits'
  BY <1>4, <1>8, SameFits DEF FoundFits
<1>10. Scored(ranked)' /\ Answered'
  BY SameScored, SameAnswer
<1> QED BY <1>6, <1>7, <1>9, <1>10

\* A chunk of a source fits once the hard filters of that source let it through.
LEMMA FilteredFits ==
    ASSUME TypeOK, Scoped, stage = "retrieved", routing.doc = NoDoc,
           NEW s, NEW c \in OfSource(s), \A f \in HardFilters(s) : Matches(c, f)
    PROVE  Fits(c)
<1>1. SourceOf[c] = s
  BY DEF OfSource
<1>2. s \in Sources
  BY <1>1, RagAssumption DEF OfSource
<1>3. \A f \in routing.filters : f.negated \in BOOLEAN
  <2> TAKE f \in routing.filters
  <2>1. f \in Filters \cup InstanceFilters
    BY DEF TypeOK, Decisions
  <2>2. CASE f \in Filters
    BY <2>2, RagAssumption
  <2>3. CASE f \in InstanceFilters
    <3>1. PICK i : f = InstanceFilter(i)
      BY <2>3 DEF InstanceFilters
    <3>2. f.negated = FALSE
      BY <3>1 DEF InstanceFilter
    <3> QED BY <3>2
  <2> QED BY <2>1, <2>2, <2>3
<1>4. ASSUME s # "sql", scope.instance # NoInstance
      PROVE  IsWithin(scope.instance, MetaOf[c][InstanceKey])
  <2> DEFINE f == InstanceFilter(scope.instance)
  <2>1. f \in routing.filters
    BY <1>4 DEF Scoped
  <2>2. f.key = InstanceKey /\ f.negated = FALSE /\ f.values = {scope.instance}
    BY DEF InstanceFilter
  <2> HIDE DEF f
  <2>3. f \in HardFilters(s)
    BY <1>2, <1>4, <2>1, <2>2, RagAssumption DEF HardFilters
  <2>4. \E v \in f.values : IsWithin(v, MetaOf[c][f.key])
    BY <2>2, <2>3 DEF Matches
  <2> QED BY <2>2, <2>4
<1>5. ASSUME NEW f \in routing.filters, f.values # {}, f.key \in AllowedKeys[SourceOf[c]]
      PROVE  Satisfies(c, f)
  <2>1. f \in HardFilters(s)
    BY <1>1, <1>5 DEF HardFilters
  <2>2. f.negated \in BOOLEAN
    BY <1>3
  <2>3. Matches(c, f)
    BY <2>1
  <2> QED BY <2>2, <2>3 DEF Matches, Satisfies
<1> QED BY <1>1, <1>4, <1>5 DEF Fits

LEMMA FuseAgentInv == ASSUME Inv, FuseAgent PROVE Inv'
<1> DEFINE S == {c \in Chunks : \A f \in HardFilters(Current) : Matches(c, f)}
           kept == Keep(Fuse(lists), S)
           chunks == Cut(kept, TopAgent)
<1>1. /\ stage = "retrieved" /\ stage' = "fused" /\ lists' = <<>>
      /\ Found(chunks, ToSet(lists[3]))
      /\ UNCHANGED <<question, history, scope, routing, ranked, score, answer, logged>>
  BY DEF FuseAgent
<1>2. /\ routing.inScope /\ ~SearchDone /\ routing.doc = NoDoc
      /\ \A list \in ToSet(lists) : ToSet(list) \subseteq OfSource(Current)
  BY <1>1 DEF Inv, Retrieving
<1>3. lists \in Seq(Rankings) /\ question \in Questions /\ TypeOK /\ Scoped
  BY DEF Inv, TypeOK
<1>4. Fuse(lists) \in Seq(Chunks) /\ ToSet(Fuse(lists)) \subseteq OfSource(Current)
  BY <1>2, <1>3, FuseFacts DEF Rankings, Seen
<1> HIDE DEF S
<1>5. kept \in Rankings /\ ToSet(kept) \subseteq OfSource(Current) \cap S
  BY <1>4, KeptFacts
<1> HIDE DEF kept
<1>6. chunks \in Rankings /\ ToSet(chunks) \subseteq OfSource(Current) \cap S
  <2>1. TopAgent \in Nat
    BY RagAssumption
  <2> QED BY <1>5, <2>1, CutFacts
<1> HIDE DEF chunks
<1>7. \A c \in ToSet(chunks) : Fits(c)
  BY <1>1, <1>2, <1>3, <1>6, FilteredFits DEF S
<1>8. lists' \in Seq(Rankings) /\ question' \in Questions
  BY <1>1, <1>3, EmptyFacts
<1> QED BY <1>1, <1>2, <1>6, <1>7, <1>8, FoundInv

LEMMA FindByIdInv == ASSUME Inv, FindById PROVE Inv'
<1> DEFINE S == {c \in OfSource(Current) : DocOf[c] = routing.doc}
           hits == Keep(Store, S)
<1>1. /\ stage \in {"routed", "fused"} /\ stage' = "fused" /\ question' = {}
      /\ routing.inScope /\ ~SearchDone /\ routing.doc # NoDoc
      /\ Found(hits, ToSet(hits))
      /\ UNCHANGED <<history, scope, routing, lists, ranked, score, answer, logged>>
  BY DEF FindById
<1>2. hits \in Rankings /\ ToSet(hits) \subseteq S
  <2> HIDE DEF S
  <2> QED BY RagAssumption, KeptFacts
<1> HIDE DEF hits
<1>3. \A c \in ToSet(hits) : Fits(c)
  BY <1>1, <1>2 DEF Fits
<1>4. lists' \in Seq(Rankings) /\ question' \in Questions
  BY <1>1, EmptyQuestion DEF Inv, TypeOK
<1> QED BY <1>1, <1>2, <1>3, <1>4, FoundInv

LEMMA AskSqlInv == ASSUME Inv, AskSql PROVE Inv'
<1>1. PICK chunk \in OfSource("sql") : Found(<<chunk>>, {chunk})
  BY DEF AskSql
<1>2. /\ stage \in {"routed", "fused"} /\ stage' = "fused" /\ question' = {}
      /\ routing.inScope /\ ~SearchDone
      /\ UNCHANGED <<history, scope, routing, lists, ranked, score, answer, logged>>
  BY DEF AskSql
<1>3. <<chunk>> \in Rankings /\ ToSet(<<chunk>>) = {chunk}
  BY DEF OfSource, Rankings, ToSet, IsInjective
<1>4. \A c \in ToSet(<<chunk>>) : Fits(c)
  BY <1>3 DEF OfSource, Fits
<1>5. lists' \in Seq(Rankings) /\ question' \in Questions
  BY <1>2, EmptyQuestion DEF Inv, TypeOK
<1> QED BY <1>1, <1>2, <1>3, <1>4, <1>5, FoundInv

-----------------------------------------------------------------------------
(* Fusion of the agents and reranking *)

\* What sorted(chunks, key=rerank_score, reverse=True)[:n] returns.
LEMMA RerankedFacts ==
    ASSUME NEW fused \in Rankings, NEW scores \in [ToSet(fused) -> 0..MaxScore],
           NEW n \in Nat, NEW list,
           list = Cut(Sorted(ToSet(fused), Descending(scores, Before(fused))), n)
    PROVE  /\ list \in Rankings /\ ToSet(list) \subseteq ToSet(fused)
           /\ \A i, j \in DOMAIN list : i <= j => scores[list[i]] >= scores[list[j]]
<1> DEFINE S == ToSet(fused)
           R == Descending(scores, Before(fused))
           sorted == Sorted(S, R)
<1>1. fused \in Seq(Chunks) /\ S \subseteq Chunks /\ IsFiniteSet(S)
  BY ListIsFinite DEF Rankings
<1>2. MaxScore \in Nat
  BY RagAssumption
<1>3. scores \in [S -> Int] /\ DOMAIN scores = S /\ \A c \in S : scores[c] \in Nat
  BY <1>2
<1>4. Orders(Before(fused), S)
  BY <1>1, BeforeOrders
<1>5. Orders(R, S)
  <2> HIDE DEF S
  <2> QED BY <1>3, <1>4, DescendingOrders
<1>6. \A a, b \in S : <<a, b>> \in R => scores[a] >= scores[b]
  BY <1>3 DEF Descending
<1> HIDE DEF S, R
<1>7. /\ sorted \in Seq(S) /\ IsInjective(sorted) /\ ToSet(sorted) = S
      /\ \A i, j \in DOMAIN sorted : i < j <=> <<sorted[i], sorted[j]>> \in R
  BY <1>1, <1>5, SortedFacts
<1>8. list = Cut(sorted, n)
  BY DEF S, R
<1> HIDE DEF sorted
<1>9. sorted \in Rankings
  BY <1>1, <1>7 DEF Rankings
<1>10. /\ list \in Rankings /\ ToSet(list) \subseteq S
       /\ \A i \in DOMAIN list : i \in DOMAIN sorted /\ list[i] = sorted[i]
  BY <1>7, <1>8, <1>9, CutFacts
<1>11. ASSUME NEW i \in DOMAIN list, NEW j \in DOMAIN list, i <= j
       PROVE  scores[list[i]] >= scores[list[j]]
  <2>1. /\ i \in DOMAIN sorted /\ list[i] = sorted[i] /\ sorted[i] \in S
        /\ j \in DOMAIN sorted /\ list[j] = sorted[j] /\ sorted[j] \in S
    BY <1>7, <1>10 DEF ToSet
  <2>2. i \in Nat /\ j \in Nat
    BY <1>7, <2>1
  <2>3. CASE i < j
    BY <1>6, <1>7, <2>1, <2>3
  <2>4. CASE i = j
    BY <1>3, <2>1, <2>4
  <2> QED BY <1>11, <2>2, <2>3, <2>4
<1> QED BY <1>10, <1>11 DEF S

LEMMA RerankInv == ASSUME Inv, Rerank PROVE Inv'
<1> DEFINE fused == Cut(Fuse(results), TopFused)
<1>1. /\ stage \in {"routed", "fused"} /\ stage' = "ranked" /\ results' = <<>>
      /\ UNCHANGED <<question, history, scope, routing, lists, exact, answer, logged>>
  BY DEF Rerank
<1>2. \/ ranked' = Cut(fused, TopRanked) /\ UNCHANGED score
      \/ \E scores \in [ToSet(fused) -> 0..MaxScore] :
            /\ ranked' = Cut(Sorted(ToSet(fused), Descending(scores, Before(fused))),
                             TopRanked)
            /\ score' = scores
  BY DEF Rerank
<1>3. results \in Seq(Rankings) /\ DOMAIN score = {} /\ TypeOK /\ answer = NoAnswer
  BY <1>1 DEF Inv, TypeOK, Unranked, Unanswered
<1>4. TopFused \in Nat /\ TopRanked \in Nat
  BY RagAssumption
<1>5. fused \in Rankings /\ ToSet(fused) \subseteq Seen(results)
  BY <1>3, <1>4, FuseFacts, CutFacts
<1> HIDE DEF fused
<1>6. \A c \in ToSet(fused) : Fits(c)
  BY <1>5 DEF Seen, Inv, FoundFits
<1>7. /\ ranked' \in Rankings /\ ToSet(ranked') \subseteq ToSet(fused)
      /\ DOMAIN score' \subseteq Chunks /\ score' \in [DOMAIN score' -> 0..MaxScore]
      /\ Scored(ranked)'
  <2>1. CASE ranked' = Cut(fused, TopRanked) /\ UNCHANGED score
    <3>1. ranked' \in Rankings /\ ToSet(ranked') \subseteq ToSet(fused)
      BY <1>4, <1>5, <2>1, CutFacts
    <3>2. Scored(ranked)'
      BY <1>3, <2>1 DEF Scored
    <3> QED BY <1>3, <2>1, <3>1, <3>2 DEF TypeOK
  <2>2. CASE \E scores \in [ToSet(fused) -> 0..MaxScore] :
               /\ ranked' = Cut(Sorted(ToSet(fused), Descending(scores, Before(fused))),
                                TopRanked)
               /\ score' = scores
    <3>1. PICK scores \in [ToSet(fused) -> 0..MaxScore] :
             /\ ranked' = Cut(Sorted(ToSet(fused), Descending(scores, Before(fused))),
                              TopRanked)
             /\ score' = scores
      BY <2>2
    <3>2. /\ ranked' \in Rankings /\ ToSet(ranked') \subseteq ToSet(fused)
          /\ \A i, j \in DOMAIN ranked' : i <= j => scores[ranked'[i]] >= scores[ranked'[j]]
      BY <1>4, <1>5, <3>1, RerankedFacts
    <3>3. DOMAIN score' = ToSet(fused) /\ ToSet(fused) \subseteq Chunks
      BY <1>5, <3>1 DEF Rankings, ToSet
    <3>4. Scored(ranked)'
      BY <3>1, <3>2, <3>3 DEF Scored
    <3> QED BY <3>1, <3>2, <3>3, <3>4
  <2> QED BY <1>2, <2>1, <2>2
<1>8. TypeOK'
  <2>1. results' \in Seq(Rankings) /\ Len(results') = 0
    BY <1>1, EmptyFacts
  <2>2. Len(routing'.sources) \in Nat
    BY <1>1, <1>3 DEF TypeOK, Decisions
  <2>3. routing'.inScope => Len(results') <= Len(routing'.sources)
    BY <2>1, <2>2
  <2> QED BY <1>1, <1>3, <1>7, <2>1, <2>3 DEF TypeOK
<1>9. Scoped' /\ Unsearched' /\ Unranked' /\ Unanswered' /\ Retrieving'
  BY <1>1, <1>3 DEF Inv, Scoped, Unsearched, Unranked, Unanswered, Retrieving
<1>10. Answered' /\ {cite.chunk : cite \in ToSet(answer.cited)}' = {}
  BY <1>1, <1>3, NoAnswerYet
<1>11. FoundFits'
  BY <1>1, <1>6, <1>7, <1>10, SameFits, EmptyFacts DEF FoundFits
<1> QED BY <1>7, <1>8, <1>9, <1>10, <1>11 DEF Inv

-----------------------------------------------------------------------------
(* Generation *)

\* A step that only gives the answer keeps the invariant once the answer is right.
LEMMA AnswerInv ==
    ASSUME Inv, stage \in {"routed", "ranked"}, stage' = "answered",
           question' \in Questions,
           UNCHANGED <<history, scope, routing, found, logged>>,
           answer' \in [kind: {"none", "out_of_scope", "nothing", "passthrough",
                              "generated"},
                       mentioned: SUBSET Docs, cited: Seq(RankedChunks), chars: Nat],
           \A c \in {cite.chunk : cite \in ToSet(answer'.cited)} : Fits(c),
           Answered'
    PROVE  Inv'
<1> USE DEF Inv, found
<1>1. TypeOK'
  BY DEF TypeOK
<1>2. Scoped' /\ Unsearched' /\ Unranked' /\ Unanswered' /\ Retrieving'
  BY DEF Scoped, Unsearched, Unranked, Unanswered, Retrieving
<1>3. FoundFits'
  BY SameFits DEF FoundFits
<1> QED BY <1>1, <1>2, <1>3, SameScored

LEMMA AnswerNothingInv == ASSUME Inv, AnswerNothing PROVE Inv'
<1>1. /\ stage \in {"routed", "ranked"} /\ stage' = "answered" /\ question' = {}
      /\ UNCHANGED <<history, scope, routing, found, logged>>
      /\ answer' = [NoAnswer EXCEPT !.kind = IF stage = "routed" THEN "out_of_scope"
                                                                 ELSE "nothing"]
  BY DEF AnswerNothing
<1>2. answer' = [kind |-> IF stage = "routed" THEN "out_of_scope" ELSE "nothing",
                 mentioned |-> {}, cited |-> <<>>, chars |-> 0]
  BY <1>1 DEF NoAnswer
<1>3. /\ answer' \in [kind: {"none", "out_of_scope", "nothing", "passthrough",
                             "generated"},
                      mentioned: SUBSET Docs, cited: Seq(RankedChunks), chars: Nat]
      /\ ToSet(answer'.cited) = {}
      /\ answer'.kind \notin {"passthrough", "generated"}
  BY <1>2, EmptyFacts
<1>4. Answered'
  BY <1>3 DEF Answered, MentionsWhatItCites, ScoresAreRankedPercentages, ContextFits
<1> QED BY <1>1, <1>3, <1>4, EmptyQuestion, AnswerInv

LEMMA AnswerPassthroughInv == ASSUME Inv, AnswerPassthrough PROVE Inv'
<1> DEFINE said == Keep(ranked, Passthrough)
           cited == Cite(ranked)
<1>1. /\ stage = "ranked" /\ ToSet(ranked) \cap Passthrough # {} /\ stage' = "answered"
      /\ answer' = [kind |-> "passthrough", cited |-> cited, chars |-> 0,
                    mentioned |-> {DocOf[said[1]]}]
      /\ UNCHANGED <<question, history, scope, routing, found, logged>>
  BY DEF AnswerPassthrough
<1>2. /\ ranked \in Rankings /\ Scored(ranked) /\ score \in [DOMAIN score -> 0..MaxScore]
      /\ question' \in Questions /\ \A c \in ToSet(ranked) : Fits(c)
  BY <1>1 DEF Inv, TypeOK, FoundFits
<1>3. said[1] \in Chunks
  <2>1. said \in Rankings /\ ToSet(said) # {}
    BY <1>1, <1>2, KeptFacts DEF Rankings
  <2> HIDE DEF said
  <2>2. said \in Seq(Chunks) /\ said # <<>>
    BY <2>1 DEF Rankings, ToSet
  <2> QED BY <2>2
<1>4. DocOf[said[1]] \in Docs
  BY <1>3 DEF Docs
<1>5. /\ cited \in Seq(RankedChunks) /\ DOMAIN cited = DOMAIN ranked
      /\ \A i \in DOMAIN ranked : cited[i].percent \in 0..100
      /\ \A i, j \in DOMAIN ranked : i <= j => cited[i].percent >= cited[j].percent
      /\ {cite.chunk : cite \in ToSet(cited)} = ToSet(ranked)
  BY <1>2, CiteFacts
<1>6. cited # <<>>
  BY <1>1, <1>2, <1>5 DEF ToSet
<1> HIDE DEF said, cited
<1>7. answer'.kind = "passthrough" /\ answer'.cited = cited
      /\ answer' \in [kind: {"none", "out_of_scope", "nothing", "passthrough",
                             "generated"},
                      mentioned: SUBSET Docs, cited: Seq(RankedChunks), chars: Nat]
  BY <1>1, <1>4, <1>5
<1>8. Answered'
  BY <1>5, <1>6, <1>7 DEF Answered, MentionsWhatItCites, ScoresAreRankedPercentages, ContextFits
<1>9. \A c \in {cite.chunk : cite \in ToSet(answer'.cited)} : Fits(c)
  BY <1>2, <1>5, <1>7
<1> QED BY <1>1, <1>2, <1>7, <1>8, <1>9, AnswerInv

\* _ensure_all_sources_mentioned: every document of the list is named afterwards.
LEMMA CompletedFacts ==
    ASSUME NEW list \in Rankings, NEW texts \in SUBSET Docs
    PROVE  /\ Completed(texts, list) \in SUBSET Docs
           /\ \A c \in ToSet(list) : AppearsIn(DocOf[c], Completed(texts, list))
<1>1. ToSet(list) \subseteq Chunks
  BY DEF Rankings, ToSet
<1> QED BY <1>1 DEF Completed, AppearsIn, IsWithin, Docs

LEMMA AnswerGeneratedInv == ASSUME Inv, AnswerGenerated PROVE Inv'
<1> DEFINE context == Context(ranked).chunks
           cited == Cite(context)
<1>1. /\ stage = "ranked" /\ ranked # <<>> /\ stage' = "answered"
      /\ UNCHANGED <<question, history, scope, routing, found, logged>>
  BY DEF AnswerGenerated
<1>2. PICK texts \in SUBSET {DocOf[c] : c \in ToSet(context)} :
          answer' = [kind |-> "generated", cited |-> cited,
                     chars |-> Context(ranked).chars, mentioned |->
                        IF Requested(routing.filters) = {} THEN texts
                        ELSE Completed(texts, context)]
  BY DEF AnswerGenerated
<1>3. /\ ranked \in Rankings /\ Scored(ranked) /\ score \in [DOMAIN score -> 0..MaxScore]
      /\ question' \in Questions /\ \A c \in ToSet(ranked) : Fits(c)
  BY <1>1 DEF Inv, TypeOK, FoundFits
<1> DEFINE chars == Context(ranked).chars
<1>4. PICK n \in 1..Len(ranked) :
          /\ context = SubSeq(ranked, 1, n)
          /\ chars \in Nat /\ chars <= Budget
          /\ \/ chars = Size(context)
             \/ n = 1 /\ Size(context) > chars /\ chars = Budget
          /\ n < Len(ranked) => Size(context) + SizeOf[ranked[n + 1]] > Budget
  BY <1>1, <1>3, ContextFacts
<1> HIDE DEF context, chars
<1>5. Len(ranked) \in Nat /\ n \in 0..Len(ranked) /\ n \in Nat /\ n >= 1
  BY <1>3 DEF Rankings
<1>6. /\ context \in Rankings /\ DOMAIN context = 1..n /\ Len(context) = n
      /\ \A i \in 1..n : i \in DOMAIN ranked /\ context[i] = ranked[i]
      /\ ToSet(context) \subseteq ToSet(ranked)
  BY <1>3, <1>4, <1>5, PrefixFacts
<1>7. Scored(context)
  BY <1>3, <1>6 DEF Scored
<1>8. /\ cited \in Seq(RankedChunks) /\ DOMAIN cited = 1..n
      /\ \A i \in 1..n : cited[i].chunk = context[i] /\ cited[i].percent \in 0..100
      /\ \A i, j \in 1..n : i <= j => cited[i].percent >= cited[j].percent
      /\ {cite.chunk : cite \in ToSet(cited)} = ToSet(context)
  BY <1>3, <1>6, <1>7, CiteFacts
<1> HIDE DEF cited
<1>9. texts \in SUBSET Docs
  BY <1>6 DEF Docs, Rankings, ToSet
<1>10. /\ answer'.kind = "generated" /\ answer'.cited = cited
       /\ answer'.mentioned = IF Requested(routing.filters) = {} THEN texts
                              ELSE Completed(texts, context)
       /\ answer'.chars = chars
       /\ answer' \in [kind: {"none", "out_of_scope", "nothing", "passthrough",
                              "generated"},
                       mentioned: SUBSET Docs, cited: Seq(RankedChunks), chars: Nat]
  BY <1>2, <1>4, <1>6, <1>8, <1>9, CompletedFacts DEF chars
<1>11. MentionsWhatItCites'
  <2> SUFFICES ASSUME Requested(routing.filters) # {}, NEW cite \in ToSet(cited)
               PROVE  AppearsIn(DocOf[cite.chunk], answer'.mentioned)
    BY <1>1, <1>10 DEF MentionsWhatItCites, Requested
  <2>1. cite.chunk \in ToSet(context)
    BY <1>8
  <2> QED BY <1>6, <1>9, <1>10, <2>1, CompletedFacts
<1>12. ScoresAreRankedPercentages'
  <2>1. cited # <<>>
    BY <1>5, <1>8
  <2> QED BY <1>8, <1>10, <2>1 DEF ScoresAreRankedPercentages
<1>13. ContextFits'
  <2>1. Len(cited) = n /\ ranked' = ranked
    BY <1>1, <1>5, <1>8 DEF found
  <2>2. \A i \in 1..n : cited[i].chunk = ranked[i]
    BY <1>6, <1>8
  <2>3. SubSeq(ranked, 1, n) = context
    BY <1>4
  <2> QED BY <1>4, <1>10, <2>1, <2>2, <2>3 DEF ContextFits
<1>14. \A c \in {cite.chunk : cite \in ToSet(answer'.cited)} : Fits(c)
  BY <1>3, <1>6, <1>8, <1>10
<1> QED BY <1>1, <1>3, <1>10, <1>11, <1>12, <1>13, <1>14, AnswerInv DEF Answered

LEMMA LogUsageInv == ASSUME Inv, LogUsage PROVE Inv'
<1> USE DEF Inv, found
<1>1. /\ stage = "answered" /\ stage' = "replied"
      /\ UNCHANGED <<question, history, scope, routing, found, answer>>
      /\ logged' \in {"none", "unknown"} \/
            (answer.cited # <<>> /\ logged' = SourceOf[answer.cited[1].chunk])
  BY DEF LogUsage
<1>2. logged' \in {"none", "unknown"} \cup Sources
  <2>1. ASSUME answer.cited # <<>> PROVE SourceOf[answer.cited[1].chunk] \in Sources
    <3>1. answer.cited \in Seq(RankedChunks)
      BY DEF TypeOK
    <3>2. answer.cited[1] \in RankedChunks
      BY <2>1, <3>1
    <3> QED BY <3>2, RagAssumption DEF RankedChunks
  <2> QED BY <1>1, <2>1
<1>3. TypeOK'
  BY <1>1, <1>2 DEF TypeOK
<1>4. Scoped' /\ Unsearched' /\ Unranked' /\ Unanswered' /\ Retrieving'
  BY <1>1 DEF Scoped, Unsearched, Unranked, Unanswered, Retrieving
<1>5. FoundFits'
  BY <1>1, SameFits DEF FoundFits
<1> QED BY <1>1, <1>3, <1>4, <1>5, SameScored, SameAnswer

-----------------------------------------------------------------------------
(* Theorems *)

LEMMA StepInv == Inv /\ [Next]_vars => Inv'
<1> SUFFICES ASSUME Inv, [Next]_vars PROVE Inv'
  OBVIOUS
<1>1. CASE Condense
  BY <1>1, CondenseInv
<1>2. CASE Route
  BY <1>2, RouteInv
<1>3. CASE Retrieve
  BY <1>3, RetrieveInv
<1>4. CASE FuseAgent
  BY <1>4, FuseAgentInv
<1>5. CASE FindById
  BY <1>5, FindByIdInv
<1>6. CASE AskSql
  BY <1>6, AskSqlInv
<1>7. CASE Rerank
  BY <1>7, RerankInv
<1>8. CASE AnswerNothing
  BY <1>8, AnswerNothingInv
<1>9. CASE AnswerPassthrough
  BY <1>9, AnswerPassthroughInv
<1>10. CASE AnswerGenerated
  BY <1>10, AnswerGeneratedInv
<1>11. CASE LogUsage
  BY <1>11, LogUsageInv
<1>12. CASE UNCHANGED vars
  <2> USE <1>12 DEF vars, Inv
  <2>1. TypeOK'
    BY DEF TypeOK
  <2>2. Scoped' /\ Unsearched' /\ Unranked' /\ Unanswered' /\ Retrieving'
    BY DEF Scoped, Unsearched, Unranked, Unanswered, Retrieving, SearchDone, Current
  <2>3. FoundFits'
    BY SameFits DEF FoundFits
  <2> QED BY <2>1, <2>2, <2>3, SameScored, SameAnswer
<1> QED BY <1>1, <1>2, <1>3, <1>4, <1>5, <1>6, <1>7, <1>8, <1>9, <1>10, <1>11, <1>12
        DEF Next

THEOREM Invariance == Spec => []Inv
BY InitInv, StepInv, PTL DEF Spec

\* The variables hold what they should: one result an agent at most, and in every
\* list of chunks, of an agent or of all, each chunk once (base_agent.py:147-187,
\* rrf.py:41-58).
THEOREM TypeInvariant == Spec => []TypeOK
<1>1. Inv => TypeOK
  BY DEF Inv
<1> QED BY <1>1, Invariance, PTL

\* The fusion of an agent keeps the order that its retrievers agree on, whatever they
\* return (rrf.py:10-12).
THEOREM FusionFollowsRanks == Spec => []FusionRespectsRanks
<1>1. Inv => FusionRespectsRanks
  BY FusionIsFair DEF Inv, TypeOK
<1> QED BY <1>1, Invariance, PTL

\* No retriever and no rank gets a chunk past the filters of the question, the
\* instance of the chat or its document (base_agent.py:159-169).
THEOREM OnlyMatchesAreCited == Spec => []CitedChunksMatch
<1>1. Inv => CitedChunksMatch
  BY DEF Inv, FoundFits, Fits, CitedChunksMatch
<1> QED BY <1>1, Invariance, PTL

\* Whatever the text of the model, the documents it cites are named in it when a
\* filter was asked for (generator.py:208-216).
THEOREM CitedAreMentioned == Spec => []MentionsWhatItCites
<1>1. Inv => MentionsWhatItCites
  BY DEF Inv, Answered
<1> QED BY <1>1, Invariance, PTL

\* Whatever the cross-encoder says, what is shown are percentages, best first
\* (generator.py:230-268).
THEOREM PercentagesAreRanked == Spec => []ScoresAreRankedPercentages
<1>1. Inv => ScoresAreRankedPercentages
  BY DEF Inv, Answered
<1> QED BY <1>1, Invariance, PTL

\* The loop of build_context gives the model the longest prefix of the ranked chunks
\* that the budget holds, whole, or one chunk cut at the budget
\* (context_builder.py:47-72).
THEOREM BudgetIsKept == Spec => []ContextFits
<1>1. Inv => ContextFits
  BY DEF Inv, Answered
<1> QED BY <1>1, Invariance, PTL

\* What the rules decide of a question with a ticket, a source or a noun in it, and
\* no hint of a filter.
LEMMA RulesAnswer ==
    ASSUME NEW q,
           q \cap (DOMAIN TicketDoc \cup DOMAIN SourceNames \cup Nouns) # {},
           q \cap FilterWords = {}
    PROVE  /\ RuleRoute(q) # {}
           /\ \A decision \in RuleRoute(q) : decision \in Decisions /\ decision.inScope
<1> DEFINE tickets == q \cap DOMAIN TicketDoc
           byTicket == {Decision(<<"jira">>, TicketDoc[w]) : w \in tickets}
           bySource == {Decision(<<SourceNames[w]>>, NoDoc) : w \in Naming(q)}
<1>1. q # {}
  OBVIOUS
<1>2. CASE tickets # {}
  <2>1. RuleRoute(q) = byTicket
    BY <1>1, <1>2 DEF RuleRoute
  <2>2. \A w \in tickets : Decision(<<"jira">>, TicketDoc[w]).inScope
    BY DEF Decision, Unrouted
  <2> QED BY <1>2, <2>1, <2>2, RuleRouteFacts
<1>3. CASE tickets = {}
  <2>1. ~IsCourtesy(q)
    <3>1. ~(q \subseteq Courtesy)
      BY RagAssumption
    <3>2. Business(q) # {}
      BY <1>3 DEF Business, Naming
    <3> QED BY <3>1, <3>2 DEF IsCourtesy
  <2>2. CASE Naming(q) # {}
    <3>1. RuleRoute(q) = bySource
      BY <1>1, <1>3, <2>1, <2>2 DEF RuleRoute
    <3>2. \A w \in Naming(q) : Decision(<<SourceNames[w]>>, NoDoc).inScope
      BY DEF Decision, Unrouted
    <3> QED BY <2>2, <3>1, <3>2, RuleRouteFacts
  <2>3. CASE Naming(q) = {}
    <3>1. q \cap Nouns # {}
      BY <1>3, <2>3 DEF Naming
    <3>2. RuleRoute(q) = {Decision(<<"sql">>, NoDoc)}
      BY <1>1, <1>3, <2>1, <2>3, <3>1 DEF RuleRoute
    <3>3. Decision(<<"sql">>, NoDoc).inScope
      BY DEF Decision, Unrouted
    <3> QED BY <3>2, <3>3, RuleRouteFacts
  <2> QED BY <2>2, <2>3
<1> QED BY <1>2, <1>3

\* A question about business is never refused as a courtesy (rule_router.py:171-192).
THEOREM BusinessIsRouted == Spec => []BusinessQuestionsAreRouted
<1>1. Init => BusinessQuestionsAreRouted
  BY DEF Init, BusinessQuestionsAreRouted
<1>2. TypeOK /\ BusinessQuestionsAreRouted /\ [Next]_vars => BusinessQuestionsAreRouted'
  <2> SUFFICES ASSUME TypeOK, BusinessQuestionsAreRouted, [Next]_vars
               PROVE  BusinessQuestionsAreRouted'
    OBVIOUS
  <2>1. CASE Route
    <3>1. question' = question /\ scope \in Scopes
      BY <2>1 DEF Route, TypeOK
    <3> SUFFICES ASSUME question \cap (DOMAIN TicketDoc \cup DOMAIN SourceNames \cup Nouns)
                            # {},
                        question \cap FilterWords = {}
                 PROVE  routing'.inScope
      BY <3>1 DEF BusinessQuestionsAreRouted
    <3>2. PICK decision \in RuleRoute(question) : routing' = Forced(decision)
      BY <2>1, RulesAnswer DEF Route
    <3> QED BY <3>1, <3>2, RulesAnswer, ForcedFacts
  <2>2. CASE stage' # "routed"
    BY <2>2 DEF BusinessQuestionsAreRouted
  <2>3. CASE UNCHANGED vars
    BY <2>3 DEF vars, BusinessQuestionsAreRouted
  <2> QED BY <2>1, <2>2, <2>3 DEF Next, Condense, Retrieve, FuseAgent, FindById, AskSql,
             Rerank, AnswerNothing, AnswerPassthrough, AnswerGenerated, LogUsage
<1> QED BY <1>1, <1>2, TypeInvariant, PTL DEF Spec
=============================================================================
