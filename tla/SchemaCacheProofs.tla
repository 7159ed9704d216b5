-------------------------- MODULE SchemaCacheProofs --------------------------
(***************************************************************************)
(* Proofs about SchemaCache, for any bases, questions and dumps.           *)
(***************************************************************************)
EXTENDS SchemaCache, OrderingProofs, TLAPS

-----------------------------------------------------------------------------
(* The parser of dumps.                                                    *)

\* What holds of 0, and of a number when it holds of the one before, holds of all.
LEMMA UpTo ==
    ASSUME NEW n \in Nat, NEW Good, 0 \in Good,
           \A i \in 1..n : i - 1 \in Good => i \in Good
    PROVE  0..n \subseteq Good
<1> DEFINE Bad == {i \in 0..n : i \notin Good}
<1> SUFFICES ASSUME Bad # {} PROVE FALSE
  OBVIOUS
<1>1. PICK i \in Bad : \A j \in Bad : i <= j
  <2>1. Bad \in SUBSET Nat
    OBVIOUS
  <2> HIDE DEF Bad
  <2> QED BY <2>1, LeastExists
<1>2. i \in 1..n /\ i - 1 \in 0..n /\ ~(i <= i - 1)
  BY <1>1
<1>3. i - 1 \in Good
  BY <1>1, <1>2
<1> QED BY <1>1, <1>2, <1>3

-----------------------------------------------------------------------------
\* What a loop over a text goes through.
Turning(S, T) == [S -> [T -> S]]

Moves(s, turn, start, text) ==
    /\ DOMAIN s = 0..Len(text)
    /\ \A n \in 0..Len(text) : s[n] = IF n = 0 THEN start ELSE turn[s[n - 1]][text[n]]

Turns(s, turn, word, n) == \A i \in 1..n : s[i] = turn[s[i - 1]][word[i]]

LEMMA OneTurn ==
    ASSUME NEW s, NEW turn, NEW word, NEW n, Turns(s, turn, word, n), NEW i \in 1..n
    PROVE  s[i] = turn[s[i - 1]][word[i]]
BY Zenon DEF Turns

LEMMA MovesTurn ==
    ASSUME NEW s, NEW turn, NEW start, NEW text, Moves(s, turn, start, text),
           Len(text) \in Nat
    PROVE  s[0] = start /\ Turns(s, turn, text, Len(text))
<1>1. s[0] = start
  BY DEF Moves
<1>2. ASSUME NEW n \in 1..Len(text) PROVE s[n] = turn[s[n - 1]][text[n]]
  <2>1. n \in 0..Len(text) /\ n # 0
    OBVIOUS
  <2> QED BY <2>1, Zenon DEF Moves
<1> QED BY <1>1, <1>2, Zenon DEF Turns

\* Such a loop exists (States chooses it).
LEMMA RunExists ==
    ASSUME NEW S, NEW T, NEW turn \in Turning(S, T), NEW start \in S, NEW text \in Seq(T)
    PROVE  \E s \in [0..Len(text) -> S] : Moves(s, turn, start, text)
<1> DEFINE Good == {n \in 0..Len(text) : \E s \in [0..n -> S] :
                        \A i \in 0..n : s[i] = IF i = 0 THEN start
                                               ELSE turn[s[i - 1]][text[i]]}
<1>1. 0 \in Good
  <2> DEFINE s == [i \in 0..0 |-> start]
  <2>1. s \in [0..0 -> S] /\ 0 \in 0..Len(text)
    OBVIOUS
  <2>2. ASSUME NEW i \in 0..0 PROVE s[i] = IF i = 0 THEN start ELSE turn[s[i - 1]][text[i]]
    BY <2>2
  <2> HIDE DEF s
  <2> QED BY <2>1, <2>2
<1>2. ASSUME NEW n \in 1..Len(text), n - 1 \in Good PROVE n \in Good
  <2>1. PICK s \in [0..(n - 1) -> S] :
               \A i \in 0..(n - 1) : s[i] = IF i = 0 THEN start ELSE turn[s[i - 1]][text[i]]
    BY <1>2
  <2> DEFINE next == turn[s[n - 1]][text[n]]
             t == [i \in 0..n |-> IF i = n THEN next ELSE s[i]]
  <2>2. n \in Nat /\ 0 < n /\ n - 1 \in 0..(n - 1) /\ n \in 0..Len(text)
    OBVIOUS
  <2>3. text[n] \in T /\ s[n - 1] \in S
    BY <2>2
  <2>4. next \in S
    BY <2>3 DEF Turning
  <2>5. t \in [0..n -> S]
    <3> HIDE DEF next
    <3> QED BY <2>2, <2>4
  <2>6. ASSUME NEW i \in 0..n
        PROVE  t[i] = IF i = 0 THEN start ELSE turn[t[i - 1]][text[i]]
    <3>1. CASE i = n
      <4>1. t[n] = next /\ t[n - 1] = s[n - 1]
        <5> HIDE DEF next
        <5> QED BY <2>2
      <4> QED BY <2>2, <3>1, <4>1
    <3>2. CASE i # n /\ i # 0
      <4>1. i \in 0..(n - 1) /\ i - 1 \in 0..n /\ i - 1 # n /\ i \in 0..n
        BY <2>2, <3>2
      <4>2. t[i] = s[i] /\ t[i - 1] = s[i - 1]
        <5> HIDE DEF next
        <5> QED BY <3>2, <4>1
      <4>3. s[i] = turn[s[i - 1]][text[i]]
        BY <2>1, <3>2, <4>1, Zenon
      <4> HIDE DEF t
      <4> QED BY <3>2, <4>2, <4>3
    <3>3. CASE i = 0
      <4>1. i \in 0..(n - 1) /\ i # n
        BY <2>2, <3>3
      <4>2. t[i] = s[i]
        <5> HIDE DEF next
        <5> QED BY <4>1
      <4>3. s[i] = start
        BY <2>1, <3>3, <4>1, Zenon
      <4> HIDE DEF t
      <4> QED BY <3>3, <4>2, <4>3
    <3> QED BY <3>1, <3>2, <3>3
  <2> HIDE DEF t
  <2> QED BY <2>2, <2>5, <2>6
<1>3. Len(text) \in Good
  <2>1. Len(text) \in Nat /\ Len(text) \in 0..Len(text)
    OBVIOUS
  <2> HIDE DEF Good
  <2>2. 0..Len(text) \subseteq Good
    BY <1>1, <1>2, <2>1, UpTo
  <2> QED BY <2>1, <2>2
<1>4. PICK s \in [0..Len(text) -> S] :
             \A i \in 0..Len(text) : s[i] = IF i = 0 THEN start ELSE turn[s[i - 1]][text[i]]
  BY <1>3
<1>5. DOMAIN s = 0..Len(text)
  OBVIOUS
<1> QED BY <1>4, <1>5, Zenon DEF Moves

LEMMA StatesFacts ==
    ASSUME NEW S, NEW T, NEW turn \in Turning(S, T), NEW start \in S, NEW text \in Seq(T)
    PROVE  /\ States(turn, start, text) \in [0..Len(text) -> S]
           /\ Moves(States(turn, start, text), turn, start, text)
<1> DEFINE Goes(r) == r = [n \in 0..Len(text) |-> IF n = 0 THEN start
                                                  ELSE turn[r[n - 1]][text[n]]]
           s == States(turn, start, text)
<1>1. s = CHOOSE r : Goes(r)
  BY DEF States
<1>2. PICK r \in [0..Len(text) -> S] : Moves(r, turn, start, text)
  BY RunExists
<1>3. Goes(r)
  BY <1>2 DEF Moves
<1>4. Goes(s)
  <2> HIDE DEF Goes
  <2> QED BY <1>1, <1>3
<1> HIDE DEF s
<1>5. Moves(s, turn, start, text)
  BY <1>4 DEF Moves
<1>6. s = [n \in 0..Len(text) |-> s[n]]
  BY <1>4
<1> HIDE DEF Goes
<1> DEFINE Good == {n \in 0..Len(text) : s[n] \in S}
<1>7. Len(text) \in Nat
  OBVIOUS
<1>8. s[0] = start /\ Turns(s, turn, text, Len(text))
  BY <1>5, <1>7, MovesTurn
<1>9. 0 \in Good
  BY <1>7, <1>8
<1>10. ASSUME NEW n \in 1..Len(text), n - 1 \in Good PROVE n \in Good
  <2>1. s[n] = turn[s[n - 1]][text[n]]
    BY <1>8, OneTurn
  <2>2. text[n] \in T /\ s[n - 1] \in S
    BY <1>10
  <2>3. turn[s[n - 1]][text[n]] \in S
    BY <2>2 DEF Turning
  <2>4. n \in 0..Len(text)
    OBVIOUS
  <2> QED BY <2>1, <2>3, <2>4
<1>11. 0..Len(text) \subseteq Good
  <2> HIDE DEF Good
  <2> QED BY <1>7, <1>9, <1>10, UpTo
<1>12. s \in [0..Len(text) -> S]
  BY <1>6, <1>11
<1> QED BY <1>5, <1>12 DEF s

\* Two runs that start alike and take the same turns are alike.
LEMMA SameRuns ==
    ASSUME NEW n \in Nat, NEW r, NEW s, NEW turn, NEW word,
           r[0] = s[0], Turns(r, turn, word, n), Turns(s, turn, word, n)
    PROVE  \A i \in 0..n : r[i] = s[i]
<1> DEFINE Good == {i \in 0..n : r[i] = s[i]}
<1>1. 0 \in Good
  OBVIOUS
<1>2. ASSUME NEW i \in 1..n, i - 1 \in Good PROVE i \in Good
  <2>1. r[i] = turn[r[i - 1]][word[i]] /\ s[i] = turn[s[i - 1]][word[i]]
    BY OneTurn
  <2>2. r[i - 1] = s[i - 1]
    BY <1>2
  <2>3. r[i] = s[i] /\ i \in 0..n
    BY <2>1, <2>2
  <2> QED BY <2>3
<1>3. 0..n \subseteq Good
  <2> HIDE DEF Good
  <2> QED BY <1>1, <1>2, UpTo
<1> QED BY <1>3

\* A loop over two texts goes over the first, then over the second from there on.
LEMMA RunsInTurn ==
    ASSUME NEW S, NEW T, NEW turn \in Turning(S, T), NEW start \in S,
           NEW u \in Seq(T), NEW v \in Seq(T)
    PROVE  /\ \A i \in 0..Len(u) :
                States(turn, start, u \o v)[i] = States(turn, start, u)[i]
           /\ \A i \in 0..Len(v) :
                States(turn, start, u \o v)[Len(u) + i] =
                    States(turn, States(turn, start, u)[Len(u)], v)[i]
<1> DEFINE w == u \o v
           both == States(turn, start, w)
           first == States(turn, start, u)
           middle == first[Len(u)]
           second == States(turn, middle, v)
<1>1. w \in Seq(T) /\ Len(u) \in Nat /\ Len(v) \in Nat /\ Len(w) \in Nat
  OBVIOUS
<1>2. Len(w) = Len(u) + Len(v)
  OBVIOUS
<1>3. \A i \in 1..Len(u) : w[i] = u[i]
  OBVIOUS
<1>4. ASSUME NEW i \in 1..Len(v) PROVE w[Len(u) + i] = v[i]
  OBVIOUS
<1> HIDE DEF w
<1>5. first \in [0..Len(u) -> S] /\ Moves(first, turn, start, u)
  BY StatesFacts
<1>6. middle \in S
  <2>1. Len(u) \in 0..Len(u)
    BY <1>1
  <2> HIDE DEF first
  <2> QED BY <1>5, <2>1
<1>7. Moves(second, turn, middle, v)
  <2> HIDE DEF middle
  <2> QED BY <1>6, StatesFacts
<1>8. Moves(both, turn, start, w)
  BY <1>1, StatesFacts
<1> HIDE DEF both, first, second
<1>9. first[0] = start /\ Turns(first, turn, u, Len(u))
  BY <1>1, <1>5, MovesTurn
<1>10. second[0] = middle /\ Turns(second, turn, v, Len(v))
  <2> HIDE DEF middle
  <2> QED BY <1>1, <1>7, MovesTurn
<1>11. both[0] = start /\ Turns(both, turn, w, Len(w))
  BY <1>1, <1>8, MovesTurn
<1>12. \A i \in 0..Len(u) : both[i] = first[i]
  <2>1. ASSUME NEW i \in 1..Len(u) PROVE both[i] = turn[both[i - 1]][u[i]]
    <3>1. i \in 1..Len(w) /\ w[i] = u[i]
      BY <1>1, <1>2, <1>3
    <3>2. both[i] = turn[both[i - 1]][w[i]]
      BY <1>11, <3>1, OneTurn
    <3> QED BY <3>1, <3>2
  <2>2. Turns(both, turn, u, Len(u))
    BY <2>1, Zenon DEF Turns
  <2>3. both[0] = first[0]
    BY <1>9, <1>11
  <2>4. Len(u) \in Nat /\ Turns(first, turn, u, Len(u))
    BY <1>1, <1>9
  <2> QED BY <2>2, <2>3, <2>4, SameRuns, Zenon
<1> DEFINE later == [i \in 0..Len(v) |-> both[Len(u) + i]]
<1>13. later[0] = second[0]
  <2>1. later[0] = both[Len(u)]
    BY <1>1
  <2>2. both[Len(u)] = first[Len(u)]
    BY <1>1, <1>12
  <2> QED BY <1>10, <2>1, <2>2
<1>14. ASSUME NEW i \in 1..Len(v) PROVE later[i] = turn[later[i - 1]][v[i]]
  <2> DEFINE k == Len(u) + i
  <2>1. k \in 1..Len(w) /\ w[k] = v[i]
    <3>1. w[k] = v[i]
      BY <1>4
    <3> QED BY <1>1, <1>2, <3>1
  <2>2. i \in 0..Len(v) /\ i - 1 \in 0..Len(v) /\ k - 1 = Len(u) + (i - 1)
    BY <1>1
  <2>3. later[i] = both[k] /\ later[i - 1] = both[k - 1]
    BY <2>2
  <2> HIDE DEF k, later
  <2>4. both[k] = turn[both[k - 1]][w[k]]
    BY <1>11, <2>1, OneTurn
  <2> QED BY <2>1, <2>3, <2>4
<1>15. \A i \in 0..Len(v) : later[i] = second[i]
  <2> HIDE DEF later, middle
  <2>1. Turns(later, turn, v, Len(v))
    BY <1>14, Zenon DEF Turns
  <2>2. Len(v) \in Nat /\ Turns(second, turn, v, Len(v))
    BY <1>1, <1>10
  <2> QED BY <1>13, <2>1, <2>2, SameRuns, Zenon
<1>16. \A i \in 0..Len(v) : both[Len(u) + i] = second[i]
  BY <1>15
<1> QED BY <1>12, <1>16 DEF both, first, second, w

LEMMA RunBegins ==
    ASSUME NEW S, NEW T, NEW turn \in Turning(S, T), NEW start \in S,
           NEW u \in Seq(T), NEW v \in Seq(T), NEW i \in 0..Len(u)
    PROVE  States(turn, start, u \o v)[i] = States(turn, start, u)[i]
BY RunsInTurn

LEMMA RunGoesOn ==
    ASSUME NEW S, NEW T, NEW turn \in Turning(S, T), NEW start \in S,
           NEW u \in Seq(T), NEW v \in Seq(T), NEW i \in 0..Len(v)
    PROVE  States(turn, start, u \o v)[Len(u) + i] =
               States(turn, States(turn, start, u)[Len(u)], v)[i]
BY RunsInTurn

-----------------------------------------------------------------------------
\* Comments.  One character more, whatever has been kept before.
Ahead(kept, s) == [out |-> kept \o s.out, inside |-> s.inside]

LEMMA StrippedType ==
    ASSUME NEW opens, NEW closes, NEW blanks
    PROVE  Stripped(opens, closes, blanks) \in Turning(Stripping, STRING)
<1> SUFFICES ASSUME NEW s \in Stripping, NEW c \in STRING
             PROVE  (IF s.inside THEN [s EXCEPT !.inside = c # closes]
                     ELSE IF c = opens THEN [s EXCEPT !.inside = TRUE]
                     ELSE IF c \in blanks THEN s
                     ELSE [out |-> Append(s.out, c), inside |-> FALSE]) \in Stripping
  BY DEF Stripped, Turning
<1>1. Append(s.out, c) \in Seq(STRING)
  BY DEF Stripping
<1> QED BY <1>1 DEF Stripping

LEMMA StrippedAhead ==
    ASSUME NEW opens, NEW closes, NEW blanks,
           NEW s \in Stripping, NEW c \in STRING, NEW kept \in Seq(STRING)
    PROVE  /\ Ahead(kept, s) \in Stripping
           /\ Stripped(opens, closes, blanks)[Ahead(kept, s)][c] =
                  Ahead(kept, Stripped(opens, closes, blanks)[s][c])
<1> DEFINE t == Ahead(kept, s)
           next(r) == IF r.inside THEN [r EXCEPT !.inside = c # closes]
                      ELSE IF c = opens THEN [r EXCEPT !.inside = TRUE]
                      ELSE IF c \in blanks THEN r
                      ELSE [out |-> Append(r.out, c), inside |-> FALSE]
<1>1. s.out \in Seq(STRING) /\ s.inside \in BOOLEAN /\ s = [out |-> s.out, inside |-> s.inside]
  BY DEF Stripping
<1>2. t = [out |-> kept \o s.out, inside |-> s.inside]
  BY DEF Ahead
<1>3. kept \o s.out \in Seq(STRING)
  BY <1>1
<1>4. t \in Stripping
  BY <1>1, <1>2, <1>3 DEF Stripping
<1>5. \A r \in Stripping : Stripped(opens, closes, blanks)[r][c] = next(r)
  BY DEF Stripped
<1>6. Append(kept \o s.out, c) = kept \o Append(s.out, c)
  BY <1>1
<1>7. next(t) = Ahead(kept, next(s))
  <2>1. CASE s.inside
    BY <1>1, <1>2, <2>1 DEF Ahead
  <2>2. CASE ~s.inside /\ c = opens
    BY <1>1, <1>2, <2>2 DEF Ahead
  <2>3. CASE ~s.inside /\ c # opens /\ c \in blanks
    BY <1>1, <1>2, <2>3 DEF Ahead
  <2>4. CASE ~s.inside /\ c # opens /\ c \notin blanks
    <3>1. t.inside = s.inside /\ t.out = kept \o s.out
      BY <1>2
    <3>2. next(t) = [out |-> Append(kept \o s.out, c), inside |-> FALSE]
      BY <2>4, <3>1
    <3>3. next(s) = [out |-> Append(s.out, c), inside |-> FALSE]
      BY <2>4
    <3> HIDE DEF next
    <3> QED BY <1>6, <3>2, <3>3 DEF Ahead
  <2> QED BY <2>1, <2>2, <2>3, <2>4
<1> HIDE DEF t, next
<1>8. t \in Stripping /\ Stripped(opens, closes, blanks)[t][c] = next(t)
      /\ Stripped(opens, closes, blanks)[s][c] = next(s)
  BY <1>4, <1>5
<1> QED BY <1>7, <1>8 DEF t

LEMMA StripType ==
    ASSUME NEW opens, NEW closes, NEW blanks, NEW u \in Seq(STRING)
    PROVE  Strip(Stripped(opens, closes, blanks), u) \in Seq(STRING)
<1> DEFINE turn == Stripped(opens, closes, blanks)
           s == States(turn, Outside, u)
<1>1. turn \in Turning(Stripping, STRING)
  BY StrippedType
<1>2. Outside \in Stripping
  <2>1. <<>> \in Seq(STRING)
    OBVIOUS
  <2> QED BY <2>1 DEF Outside, Stripping
<1> HIDE DEF turn
<1>3. s \in [0..Len(u) -> Stripping]
  BY <1>1, <1>2, StatesFacts
<1> HIDE DEF s
<1>4. Len(u) \in 0..Len(u)
  OBVIOUS
<1>5. s[Len(u)] \in Stripping
  BY <1>3, <1>4
<1>6. s[Len(u)].out \in Seq(STRING)
  BY <1>5 DEF Stripping
<1> QED BY <1>6 DEF Strip, s, turn

LEMMA StripJoins ==
    ASSUME NEW opens, NEW closes, NEW blanks, NEW u \in Seq(STRING), NEW v \in Seq(STRING),
           ~States(Stripped(opens, closes, blanks), Outside, u)[Len(u)].inside
    PROVE  Strip(Stripped(opens, closes, blanks), u \o v) =
               Strip(Stripped(opens, closes, blanks), u)
                   \o Strip(Stripped(opens, closes, blanks), v)
<1> DEFINE turn == Stripped(opens, closes, blanks)
           first == States(turn, Outside, u)
           middle == first[Len(u)]
           kept == middle.out
           alone == States(turn, Outside, v)
           after == States(turn, middle, v)
           n == Len(v)
<1>1. turn \in Turning(Stripping, STRING) /\ Outside \in Stripping
      /\ Outside = [out |-> <<>>, inside |-> FALSE]
  <2>1. <<>> \in Seq(STRING)
    OBVIOUS
  <2>2. Outside \in Stripping
    BY <2>1 DEF Outside, Stripping
  <2> QED BY <2>2, StrippedType DEF Outside
<1>2. Len(u) \in Nat /\ n \in Nat /\ Len(u) \in 0..Len(u) /\ n \in 0..n
  OBVIOUS
<1>3. ~middle.inside
  OBVIOUS
<1>4. \A s \in Stripping, c \in STRING :
         turn[Ahead(kept, s)][c] = Ahead(kept, turn[s][c])
         \/ kept \notin Seq(STRING)
  BY StrippedAhead
<1> HIDE DEF turn
<1>5. first \in [0..Len(u) -> Stripping]
  BY <1>1, StatesFacts
<1>6. middle \in Stripping
  <2> HIDE DEF first
  <2> QED BY <1>2, <1>5
<1>7. Moves(after, turn, middle, v)
  <2> HIDE DEF middle
  <2> QED BY <1>1, <1>6, StatesFacts
<1>8. alone \in [0..n -> Stripping] /\ Moves(alone, turn, Outside, v)
  BY <1>1, StatesFacts
<1>9. States(turn, Outside, u \o v)[Len(u) + n] = after[n]
  BY <1>1, <1>2, RunGoesOn
<1>10. kept \in Seq(STRING) /\ middle = [out |-> kept, inside |-> FALSE]
  <2> HIDE DEF middle
  <2> QED BY <1>3, <1>6 DEF Stripping
<1> HIDE DEF after, alone
<1>11. after[0] = middle /\ Turns(after, turn, v, n)
  <2> HIDE DEF middle
  <2> QED BY <1>2, <1>7, MovesTurn
<1>12. alone[0] = Outside /\ Turns(alone, turn, v, n)
  BY <1>2, <1>8, MovesTurn
<1> HIDE DEF middle, kept, n
<1> DEFINE Good == {i \in 0..n : after[i] = Ahead(kept, alone[i])}
<1>13. 0 \in Good
  <2>1. kept \o <<>> = kept
    BY <1>10
  <2>2. Ahead(kept, Outside) = middle
    BY <1>1, <1>10, <2>1 DEF Ahead
  <2> QED BY <1>2, <1>11, <1>12, <2>2
<1>14. ASSUME NEW i \in 1..n, i - 1 \in Good PROVE i \in Good
  <2>1. after[i] = turn[after[i - 1]][v[i]] /\ alone[i] = turn[alone[i - 1]][v[i]]
    BY <1>11, <1>12, OneTurn
  <2>2. after[i - 1] = Ahead(kept, alone[i - 1]) /\ i - 1 \in 0..n /\ i \in 0..n
    BY <1>2, <1>14
  <2>3. alone[i - 1] \in Stripping
    BY <1>8, <2>2
  <2>4. v[i] \in STRING
    BY <1>2 DEF n
  <2>5. turn[Ahead(kept, alone[i - 1])][v[i]] = Ahead(kept, turn[alone[i - 1]][v[i]])
    BY <1>4, <1>10, <2>3, <2>4
  <2> QED BY <2>1, <2>2, <2>5
<1>15. after[n] = Ahead(kept, alone[n])
  <2>1. 0..n \subseteq Good
    <3> HIDE DEF Good
    <3> QED BY <1>2, <1>13, <1>14, UpTo
  <2> QED BY <1>2, <2>1
<1>16. after[n].out = kept \o alone[n].out
  BY <1>15 DEF Ahead
<1>17. Len(u \o v) = Len(u) + n
  BY DEF n
<1> QED BY <1>9, <1>10, <1>16, <1>17 DEF Strip, kept, middle, alone, turn, n

-----------------------------------------------------------------------------
\* Statements.  A text that ends where a statement ends leaves no quote open.
Quote == [s \in Quoting |-> [c \in STRING |-> Turn(s, c)]]

LEMMA QuoteType == Quote \in Turning(Quoting, STRING) /\ Unquoted \in Quoting
<1>1. Unquoted \in Quoting
  BY DEF Unquoted, Quoting
<1>2. ASSUME NEW s \in Quoting, NEW c \in STRING PROVE Turn(s, c) \in Quoting
  <2>1. /\ s.quote \in {"", "'", "\""} \cup DollarTags /\ s.escape \in BOOLEAN
        /\ s = [quote |-> s.quote, escape |-> s.escape]
    BY DEF Quoting
  <2>2. ASSUME NEW e \in BOOLEAN PROVE [s EXCEPT !.escape = e] \in Quoting
    BY <2>1 DEF Quoting
  <2>3. ASSUME NEW q \in {"", "'", "\""} \cup DollarTags PROVE [s EXCEPT !.quote = q] \in Quoting
    BY <2>1 DEF Quoting
  <2>4. c \in DollarTags \cup {"'", "\""} =>
          [s EXCEPT !.quote = IF s.quote = "" THEN c ELSE ""] \in Quoting
    BY <2>3
  <2> QED BY <2>2, <2>4 DEF Turn
<1>3. Quote \in Turning(Quoting, STRING)
  BY <1>2 DEF Quote, Turning
<1> QED BY <1>1, <1>3

LEMMA EndIsUnquoted ==
    ASSUME NEW c \in STRING, c = ";"
    PROVE  Quote[Unquoted][c] = Unquoted
<1>1. Turn(Unquoted, c) = Unquoted
  BY DEF Turn, Unquoted, DollarTags
<1> QED BY <1>1, QuoteType DEF Quote

LEMMA QuotesClose ==
    ASSUME NEW u \in Seq(STRING), Len(u) \in Ends(u)
    PROVE  Quotes(u)[Len(u)] = Unquoted
<1>1. Quotes(u) = States(Quote, Unquoted, u)
  BY DEF Quotes, Quote
<1>2. Moves(Quotes(u), Quote, Unquoted, u)
  BY <1>1, QuoteType, StatesFacts
<1>3. Len(u) \in Nat /\ DOMAIN u = 1..Len(u)
  OBVIOUS
<1>4. Len(u) \in DOMAIN u /\ u[Len(u)] = ";" /\ Quotes(u)[Len(u) - 1] = Unquoted
  BY DEF Ends
<1> DEFINE s == Quotes(u)
           n == Len(u)
<1> HIDE DEF s
<1>5. Turns(s, Quote, u, n)
  BY <1>2, <1>3, MovesTurn DEF s
<1>6. n \in 1..n
  BY <1>3, <1>4
<1>7. u[n] \in STRING
  BY <1>6
<1>8. s[n] = Quote[s[n - 1]][u[n]]
  <2> HIDE DEF n
  <2> QED BY <1>5, <1>6, OneTurn
<1> QED BY <1>4, <1>7, <1>8, EndIsUnquoted DEF s

\* Where the first text ends with a statement, the ends are those of both texts.
LEMMA EndsOfBoth ==
    ASSUME NEW u \in Seq(STRING), NEW v \in Seq(STRING), Len(u) \in Ends(u),
           NEW n \in Nat
    PROVE  n \in Ends(u \o v) <=> n \in Ends(u) \/ (n > Len(u) /\ n - Len(u) \in Ends(v))
<1> DEFINE w == u \o v
<1>1. Len(u) \in Nat /\ Len(v) \in Nat /\ Len(w) = Len(u) + Len(v)
      /\ DOMAIN u = 1..Len(u) /\ DOMAIN v = 1..Len(v) /\ DOMAIN w = 1..Len(w)
  OBVIOUS
<1>2. \A t : Quotes(t) = States(Quote, Unquoted, t)
  BY DEF Quotes, Quote
<1>3. Quotes(u)[Len(u)] = Unquoted
  BY QuotesClose
<1>4. ASSUME n \in 1..Len(u)
      PROVE  w[n] = u[n] /\ Quotes(w)[n - 1] = Quotes(u)[n - 1]
  <2>1. n - 1 \in 0..Len(u) /\ w[n] = u[n]
    BY <1>4
  <2>2. States(Quote, Unquoted, w)[n - 1] = States(Quote, Unquoted, u)[n - 1]
    BY <2>1, QuoteType, RunBegins
  <2> QED BY <1>2, <2>1, <2>2
<1>5. ASSUME n - Len(u) \in 1..Len(v)
      PROVE  w[n] = v[n - Len(u)] /\ Quotes(w)[n - 1] = Quotes(v)[n - Len(u) - 1]
  <2> DEFINE k == n - Len(u)
             j == k - 1
  <2>1. k \in 1..Len(v) /\ j \in 0..Len(v) /\ n = Len(u) + k /\ n - 1 = Len(u) + j
    BY <1>1, <1>5
  <2>2. w[n] = v[k]
    BY <2>1
  <2> HIDE DEF j, k
  <2>3. States(Quote, Unquoted, w)[Len(u) + j] =
            States(Quote, States(Quote, Unquoted, u)[Len(u)], v)[j]
    BY <2>1, QuoteType, RunGoesOn
  <2>4. Quotes(w)[Len(u) + j] = Quotes(v)[j]
    BY <1>2, <1>3, <2>3
  <2> QED BY <2>1, <2>2, <2>4 DEF k, j
<1>6. n \in 1..Len(w) <=> n \in 1..Len(u) \/ n - Len(u) \in 1..Len(v)
  BY <1>1
<1>7. n - Len(u) \in 1..Len(v) => n > Len(u)
  BY <1>1
<1> HIDE DEF w
<1>8. CASE n \in 1..Len(u)
  <2>1. ~(n > Len(u)) /\ n \in DOMAIN w /\ n \in DOMAIN u
    BY <1>1, <1>6, <1>8
  <2> QED BY <1>4, <1>8, <2>1 DEF Ends, w
<1>9. CASE n - Len(u) \in 1..Len(v)
  <2>1. n > Len(u) /\ n \in DOMAIN w /\ n \notin DOMAIN u /\ n - Len(u) \in DOMAIN v
    BY <1>1, <1>6, <1>9
  <2> QED BY <1>5, <1>9, <2>1 DEF Ends, w
<1>10. CASE n \notin 1..Len(u) /\ n - Len(u) \notin 1..Len(v)
  BY <1>1, <1>6, <1>10 DEF Ends, w
<1> QED BY <1>8, <1>9, <1>10

\* The statements of a text that ends where a statement ends are the same, whatever
\* follows it.
LEMMA FirstWordsOfBoth ==
    ASSUME NEW u \in Seq(STRING), NEW v \in Seq(STRING), Len(u) \in Ends(u)
    PROVE  FirstWords(u \o v) = FirstWords(u) \cup FirstWords(v)
<1> DEFINE w == u \o v
           starts(t) == {m \in {0} \cup Ends(t) : m + 1 \in DOMAIN t \ Ends(t)}
<1>1. /\ Len(u) \in Nat /\ Len(v) \in Nat /\ Len(w) = Len(u) + Len(v)
      /\ DOMAIN u = 1..Len(u) /\ DOMAIN v = 1..Len(v) /\ DOMAIN w = 1..Len(w)
  OBVIOUS
<1>2. \A n \in Nat : n \in Ends(w) <=>
                         n \in Ends(u) \/ (n > Len(u) /\ n - Len(u) \in Ends(v))
  BY EndsOfBoth
<1>3. Ends(u) \subseteq 1..Len(u) /\ Ends(v) \subseteq 1..Len(v) /\ Ends(w) \subseteq 1..Len(w)
  BY <1>1 DEF Ends
<1>4. ASSUME NEW n \in Nat
      PROVE  n \in starts(w) <=> n \in starts(u) \/ (n >= Len(u) /\ n - Len(u) \in starts(v))
  <2>1. CASE n < Len(u)
    <3>1. n \in Ends(w) <=> n \in Ends(u)
      BY <1>1, <1>2, <2>1
    <3>2. n + 1 \in Ends(w) <=> n + 1 \in Ends(u)
      BY <1>1, <1>2, <2>1
    <3>3. n + 1 \in DOMAIN w /\ n + 1 \in DOMAIN u
      BY <1>1, <2>1
    <3>4. n \in starts(w) <=> n \in starts(u)
      <4> HIDE DEF w
      <4> QED BY <3>1, <3>2, <3>3
    <3>5. ~(n >= Len(u))
      BY <1>1, <2>1
    <3> HIDE DEF starts
    <3> QED BY <3>4, <3>5
  <2>2. CASE n >= Len(u)
    <3> DEFINE k == n - Len(u)
    <3>1. k \in Nat /\ n = Len(u) + k /\ n + 1 = Len(u) + (k + 1) /\ n + 1 \in Nat
      BY <1>1, <2>2
    <3>2. n \in {0} \cup Ends(w) <=> k \in {0} \cup Ends(v)
      <4>1. CASE k = 0
        <5>1. n = Len(u)
          <6> HIDE DEF w, k
          <6> QED BY <1>1, <3>1, <4>1
        <5>2. n \in Ends(w)
          BY <1>2, <5>1
        <5> QED BY <4>1, <5>2
      <4>2. CASE k # 0
        <5>1. n > Len(u) /\ n # 0
          <6> HIDE DEF w, k
          <6> QED BY <1>1, <3>1, <4>2
        <5>2. n \notin Ends(u)
          <6> HIDE DEF w, k
          <6> QED BY <1>1, <1>3, <5>1
        <5>3. n \in Ends(w) <=> k \in Ends(v)
          BY <1>2, <5>1, <5>2
        <5> HIDE DEF k, w
        <5> QED BY <4>2, <5>1, <5>3
      <4> QED BY <4>1, <4>2
    <3>3. n + 1 \in DOMAIN w <=> k + 1 \in DOMAIN v
      BY <1>1, <3>1
    <3>4. n + 1 \in Ends(w) <=> k + 1 \in Ends(v)
      BY <1>1, <1>2, <1>3, <3>1
    <3>5. n \notin starts(u)
      BY <1>1, <2>2
    <3>6. n \in starts(w) <=> k \in starts(v)
      <4> HIDE DEF w, k
      <4> QED BY <3>2, <3>3, <3>4
    <3> HIDE DEF starts
    <3> QED BY <2>2, <3>5, <3>6
  <2>3. n < Len(u) \/ n >= Len(u)
    BY <1>1
  <2> QED BY <2>1, <2>2, <2>3
<1>5. \A n \in 1..Len(u) : w[n] = u[n]
  OBVIOUS
<1>6. \A n \in 1..Len(v) : w[Len(u) + n] = v[n]
  OBVIOUS
<1>7. starts(u) \subseteq 0..(Len(u) - 1) /\ starts(v) \subseteq 0..(Len(v) - 1)
      /\ starts(w) \subseteq Nat
  BY <1>1, <1>3
<1>8. /\ FirstWords(u) = {u[n + 1] : n \in starts(u)}
      /\ FirstWords(v) = {v[n + 1] : n \in starts(v)}
      /\ FirstWords(w) = {w[n + 1] : n \in starts(w)}
  BY DEF FirstWords
<1> HIDE DEF w, starts
<1>9. ASSUME NEW x \in FirstWords(w) PROVE x \in FirstWords(u) \cup FirstWords(v)
  <2>1. PICK n \in starts(w) : x = w[n + 1]
    BY <1>8
  <2>2. n \in Nat
    BY <1>7
  <2>3. CASE n \in starts(u)
    <3>1. n + 1 \in 1..Len(u)
      BY <1>1, <1>7, <2>3
    <3>2. x = u[n + 1]
      BY <1>5, <2>1, <3>1
    <3> QED BY <1>8, <2>3, <3>2
  <2>4. CASE n >= Len(u) /\ n - Len(u) \in starts(v)
    <3> DEFINE k == n - Len(u)
    <3>1. k + 1 \in 1..Len(v) /\ n + 1 = Len(u) + (k + 1)
      BY <1>1, <1>7, <2>2, <2>4
    <3>2. w[Len(u) + (k + 1)] = v[k + 1]
      BY <1>6, <3>1
    <3>3. x = v[k + 1] /\ k \in starts(v)
      BY <2>1, <2>4, <3>1, <3>2
    <3> HIDE DEF k
    <3> QED BY <1>8, <3>3
  <2> QED BY <1>4, <2>1, <2>2, <2>3, <2>4
<1>10. ASSUME NEW x \in FirstWords(u) PROVE x \in FirstWords(w)
  <2>1. PICK n \in starts(u) : x = u[n + 1]
    BY <1>8
  <2>2. n \in Nat /\ n + 1 \in 1..Len(u)
    BY <1>1, <1>7
  <2>3. n \in starts(w) /\ x = w[n + 1]
    BY <1>4, <1>5, <2>1, <2>2
  <2> QED BY <1>8, <2>3
<1>11. ASSUME NEW x \in FirstWords(v) PROVE x \in FirstWords(w)
  <2>1. PICK k \in starts(v) : x = v[k + 1]
    BY <1>8
  <2> DEFINE n == Len(u) + k
  <2>2. n \in Nat /\ n >= Len(u) /\ n - Len(u) = k /\ n + 1 = Len(u) + (k + 1)
        /\ k + 1 \in 1..Len(v)
    BY <1>1, <1>7
  <2>3. n \in starts(w)
    BY <1>4, <2>1, <2>2
  <2>4. x = w[n + 1]
    <3>1. w[Len(u) + (k + 1)] = v[k + 1]
      BY <1>6, <2>2
    <3> QED BY <2>1, <2>2, <3>1
  <2> HIDE DEF n
  <2> QED BY <1>8, <2>3, <2>4
<1> QED BY <1>9, <1>10, <1>11 DEF w

\* A text that leaves nothing open: its comments are closed, and when something is left
\* of it, that ends where a statement ends.
Closed(text) ==
    LET blocks == States(BlockComment, Outside, text)[Len(text)]
        lines == States(LineComment, Outside, blocks.out)[Len(blocks.out)]
    IN  /\ ~blocks.inside /\ ~lines.inside
        /\ lines.out = <<>> \/ Len(lines.out) \in Ends(lines.out)

LEMMA TabledOfBoth ==
    \A A, B, e : Tabled(A \cup B, e) = Tabled(A, e) \cup Tabled(B, e)
BY DEF Tabled

\* What a text that leaves nothing open creates does not depend on what follows it.
LEMMA ScansOfBoth ==
    ASSUME NEW u \in Seq(STRING), NEW v \in Seq(STRING), NEW e, Closed(u)
    PROVE  ScannedTables(u \o v, e) = ScannedTables(u, e) \cup ScannedTables(v, e)
<1> DEFINE bu == Strip(BlockComment, u)
           bv == Strip(BlockComment, v)
           lu == Strip(LineComment, bu)
           lv == Strip(LineComment, bv)
<1>1. /\ ~States(BlockComment, Outside, u)[Len(u)].inside
      /\ ~States(LineComment, Outside, bu)[Len(bu)].inside
      /\ lu = <<>> \/ Len(lu) \in Ends(lu)
  BY DEF Closed, Strip
<1>2. Strip(BlockComment, u \o v) = bu \o bv
  BY <1>1, StripJoins DEF BlockComment
<1>3. bu \in Seq(STRING) /\ bv \in Seq(STRING)
  BY StripType DEF BlockComment
<1>4. Strip(LineComment, bu \o bv) = lu \o lv
  <2> HIDE DEF bu, bv
  <2> QED BY <1>1, <1>3, StripJoins DEF LineComment
<1>5. lu \in Seq(STRING) /\ lv \in Seq(STRING)
  <2> HIDE DEF bu, bv
  <2> QED BY <1>3, StripType DEF LineComment
<1>6. StripComments(u) = lu /\ StripComments(v) = lv /\ StripComments(u \o v) = lu \o lv
  BY <1>2, <1>4 DEF StripComments
<1> HIDE DEF lu, lv
<1>7. FirstWords(lu \o lv) = FirstWords(lu) \cup FirstWords(lv)
  <2>1. CASE lu = <<>>
    <3>1. lu \o lv = lv /\ DOMAIN lu = {}
      BY <1>5, <2>1
    <3>2. FirstWords(lu) = {}
      BY <3>1 DEF FirstWords
    <3> QED BY <3>1, <3>2
  <2>2. CASE Len(lu) \in Ends(lu)
    BY <1>5, <2>2, FirstWordsOfBoth
  <2> QED BY <1>1, <2>1, <2>2
<1>8. (FirstWords(lu) \cup FirstWords(lv)) \ IgnoredWords =
          (FirstWords(lu) \ IgnoredWords) \cup (FirstWords(lv) \ IgnoredWords)
  OBVIOUS
<1> QED BY <1>6, <1>7, <1>8, TabledOfBoth DEF ScannedTables

LEMMA ScanOfNothing == \A e : ScannedTables(<<>>, e) = {}
<1>1. Strip(BlockComment, <<>>) = <<>> /\ Strip(LineComment, <<>>) = <<>>
  <2>1. ASSUME NEW opens, NEW closes, NEW blanks
        PROVE  Strip(Stripped(opens, closes, blanks), <<>>) = <<>>
    <3> DEFINE turn == Stripped(opens, closes, blanks)
               s == States(turn, Outside, <<>>)
    <3>1. turn \in Turning(Stripping, STRING)
      BY StrippedType
    <3>2. <<>> \in Seq(STRING) /\ Len(<<>>) = 0
      OBVIOUS
    <3>3. Outside \in Stripping
      BY <3>2 DEF Outside, Stripping
    <3> HIDE DEF turn
    <3>4. Moves(s, turn, Outside, <<>>)
      BY <3>1, <3>2, <3>3, StatesFacts
    <3> HIDE DEF s
    <3>5. s[0] = Outside
      BY <3>2, <3>4, MovesTurn
    <3> QED BY <3>2, <3>5 DEF Strip, Outside, s, turn
  <2> QED BY <2>1 DEF BlockComment, LineComment
<1>2. StripComments(<<>>) = <<>>
  BY <1>1 DEF StripComments
<1>3. FirstWords(<<>>) = {}
  BY DEF FirstWords
<1> QED BY <1>2, <1>3 DEF ScannedTables, Tabled

-----------------------------------------------------------------------------
\* The pieces of a dump.  One token, in and out of comments.
LEMMA StrippedTurn ==
    ASSUME NEW opens, NEW closes, NEW blanks
    PROVE  \A s \in Stripping, c \in STRING :
              LET t == Stripped(opens, closes, blanks)[s][c]
              IN  /\ t \in Stripping
                  /\ ~s.inside /\ c = opens => t.out = s.out /\ t.inside
                  /\ ~s.inside /\ c # opens /\ c \notin blanks =>
                        t.out = Append(s.out, c) /\ ~t.inside
                  /\ s.inside => t.out = s.out /\ (t.inside <=> c # closes)
<1> TAKE s \in Stripping, c \in STRING
<1> DEFINE turn == Stripped(opens, closes, blanks)
           t == turn[s][c]
<1>1. s.inside \in BOOLEAN /\ s = [out |-> s.out, inside |-> s.inside]
  BY DEF Stripping
<1>2. t = IF s.inside THEN [s EXCEPT !.inside = c # closes]
          ELSE IF c = opens THEN [s EXCEPT !.inside = TRUE]
          ELSE IF c \in blanks THEN s
          ELSE [out |-> Append(s.out, c), inside |-> FALSE]
  BY DEF Stripped
<1>3. ASSUME NEW x \in BOOLEAN
      PROVE  [s EXCEPT !.inside = x].out = s.out /\ [s EXCEPT !.inside = x].inside = x
  BY DEF Stripping
<1>4. t \in Stripping
  <2>1. turn \in Turning(Stripping, STRING)
    BY StrippedType
  <2> QED BY <2>1 DEF Turning
<1>5. s.inside => t.out = s.out /\ (t.inside <=> c # closes)
  BY <1>2, <1>3
<1>6. ~s.inside /\ c = opens => t.out = s.out /\ t.inside
  BY <1>2, <1>3
<1>7. ~s.inside /\ c # opens /\ c \notin blanks => t.out = Append(s.out, c) /\ ~t.inside
  BY <1>2
<1> HIDE DEF t
<1>8. /\ t \in Stripping
      /\ ~s.inside /\ c = opens => t.out = s.out /\ t.inside
      /\ ~s.inside /\ c # opens /\ c \notin blanks =>
            t.out = Append(s.out, c) /\ ~t.inside
      /\ s.inside => t.out = s.out /\ (t.inside <=> c # closes)
  BY <1>4, <1>5, <1>6, <1>7
<1> QED BY <1>8 DEF t

\* Both ways of stripping go over a text from outside any comment.
LEMMA StrippedRun ==
    ASSUME NEW opens, NEW closes, NEW blanks, NEW text \in Seq(STRING), NEW s,
           s = States(Stripped(opens, closes, blanks), Outside, text)
    PROVE  /\ s[0] = Outside /\ Outside \in Stripping
           /\ Outside.out = <<>> /\ ~Outside.inside
           /\ Turns(s, Stripped(opens, closes, blanks), text, Len(text))
<1> DEFINE turn == Stripped(opens, closes, blanks)
<1>1. Outside \in Stripping /\ Outside.out = <<>> /\ ~Outside.inside
  <2>1. <<>> \in Seq(STRING)
    OBVIOUS
  <2> QED BY <2>1 DEF Outside, Stripping
<1>2. turn \in Turning(Stripping, STRING)
  BY StrippedType
<1> HIDE DEF turn
<1>3. Moves(s, turn, Outside, text)
  BY <1>1, <1>2, StatesFacts DEF turn
<1>4. Len(text) \in Nat
  OBVIOUS
<1>5. s[0] = Outside /\ Turns(s, turn, text, Len(text))
  BY <1>3, <1>4, MovesTurn
<1> QED BY <1>1, <1>5 DEF turn

\* Outside comments, what is read is kept.
LEMMA StripPlain ==
    ASSUME NEW opens, NEW closes, NEW blanks, NEW text \in Seq(STRING),
           \A n \in DOMAIN text : text[n] # opens /\ text[n] \notin blanks,
           NEW end, end = States(Stripped(opens, closes, blanks), Outside, text)[Len(text)]
    PROVE  end.out = text /\ ~end.inside
<1> DEFINE turn == Stripped(opens, closes, blanks)
           s == States(turn, Outside, text)
           n == Len(text)
           kept(i) == SubSeq(text, 1, i)
           Good == {i \in 0..n : s[i] \in Stripping /\ s[i].out = kept(i) /\ ~s[i].inside}
<1>1. n \in Nat /\ n \in 0..n /\ DOMAIN text = 1..n
  OBVIOUS
<1>2. /\ s[0] = Outside /\ Outside \in Stripping /\ Outside.out = <<>> /\ ~Outside.inside
      /\ Turns(s, turn, text, n)
  BY StrippedRun
<1>3. kept(n) = text
  OBVIOUS
<1>4. kept(0) = <<>> /\ 0 \in 0..n
  BY <1>1
<1>5. ASSUME NEW i \in 1..n
      PROVE  /\ kept(i - 1) \in Seq(STRING) /\ text[i] \in STRING
             /\ Append(kept(i - 1), text[i]) = kept(i)
  OBVIOUS
<1>10. \A r \in Stripping, c \in STRING :
          ~r.inside /\ c # opens /\ c \notin blanks =>
              /\ turn[r][c] \in Stripping
              /\ turn[r][c].out = Append(r.out, c) /\ ~turn[r][c].inside
  BY StrippedTurn
<1> HIDE DEF s, n, kept
<1>6. 0 \in Good
  BY <1>2, <1>4
<1>7. ASSUME NEW i \in 1..n, i - 1 \in Good PROVE i \in Good
  <2>1. s[i] = turn[s[i - 1]][text[i]]
    <3> HIDE DEF turn
    <3> QED BY <1>2, OneTurn
  <2>2. /\ s[i - 1] \in Stripping /\ s[i - 1].out = kept(i - 1) /\ ~s[i - 1].inside
        /\ i \in 0..n
    BY <1>1, <1>7
  <2>3. text[i] # opens /\ text[i] \notin blanks /\ text[i] \in STRING
    BY <1>1, <1>5
  <2>4. s[i] \in Stripping /\ s[i].out = Append(s[i - 1].out, text[i]) /\ ~s[i].inside
    <3> HIDE DEF turn
    <3> QED BY <1>10, <2>1, <2>2, <2>3
  <2>5. s[i].out = kept(i)
    BY <1>5, <2>2, <2>4
  <2> QED BY <2>2, <2>4, <2>5
<1>8. n \in Good
  <2>1. 0..n \subseteq Good
    <3> HIDE DEF Good
    <3> QED BY <1>1, <1>6, <1>7, UpTo
  <2> HIDE DEF Good
  <2> QED BY <1>1, <2>1
<1>9. end = s[n]
  BY DEF s, n
<1> QED BY <1>3, <1>8, <1>9

\* Of a comment, nothing is kept.
LEMMA StripComment ==
    ASSUME NEW opens, NEW closes, NEW blanks, NEW text \in Seq(STRING),
           Len(text) > 1, text[1] = opens, text[Len(text)] = closes,
           \A m \in 2..(Len(text) - 1) : text[m] # closes,
           NEW end, end = States(Stripped(opens, closes, blanks), Outside, text)[Len(text)]
    PROVE  end.out = <<>> /\ ~end.inside
<1> DEFINE turn == Stripped(opens, closes, blanks)
           s == States(turn, Outside, text)
           n == Len(text)
           Good == {i \in 0..(n - 1) :
                       i # 0 => s[i] \in Stripping /\ s[i].out = <<>> /\ s[i].inside}
<1>1. n \in Nat /\ n > 1 /\ DOMAIN text = 1..n /\ text[1] = opens /\ text[n] = closes
  OBVIOUS
<1>2. \A i \in 2..(n - 1) : text[i] # closes
  OBVIOUS
<1>3. /\ s[0] = Outside /\ Outside \in Stripping /\ Outside.out = <<>> /\ ~Outside.inside
      /\ Turns(s, turn, text, n)
  BY StrippedRun
<1>4. \A i \in 1..n : text[i] \in STRING
  BY <1>1
<1>13. /\ turn[Outside][opens] \in Stripping
       /\ turn[Outside][opens].out = <<>> /\ turn[Outside][opens].inside
       /\ \A r \in Stripping, c \in STRING :
             r.inside => /\ turn[r][c] \in Stripping /\ turn[r][c].out = r.out
                         /\ (turn[r][c].inside <=> c # closes)
  <2>1. opens \in STRING
    BY <1>1, <1>4
  <2> QED BY <1>3, <2>1, StrippedTurn
<1> HIDE DEF s, n, turn
<1>5. ASSUME NEW i \in 1..n PROVE s[i] = turn[s[i - 1]][text[i]]
  <2> HIDE DEF turn
  <2> QED BY <1>3, OneTurn
<1>6. 0 \in Good
  BY <1>1
<1>7. ASSUME NEW i \in 1..(n - 1), i - 1 \in Good PROVE i \in Good
  <2>1. i \in 1..n /\ i \in 0..(n - 1)
    BY <1>1
  <2>2. s[i] = turn[s[i - 1]][text[i]] /\ text[i] \in STRING
    BY <1>4, <1>5, <2>1
  <2>3. s[i] \in Stripping /\ s[i].out = <<>> /\ s[i].inside
    <3>1. CASE i = 1
      <4>1. s[i - 1] = Outside /\ text[i] = opens
        BY <1>1, <1>3, <3>1
      <4> QED BY <1>13, <2>2, <4>1
    <3>2. CASE i # 1
      <4>1. s[i - 1] \in Stripping /\ s[i - 1].out = <<>> /\ s[i - 1].inside
        BY <1>1, <1>7, <3>2
      <4>2. text[i] # closes
        <5>1. i \in 2..(n - 1)
          BY <1>1, <3>2
        <5> QED BY <1>2, <5>1
      <4>3. \A r \in Stripping, c \in STRING :
              r.inside /\ c # closes =>
                  turn[r][c] \in Stripping /\ turn[r][c].out = r.out /\ turn[r][c].inside
        BY <1>13
      <4> QED BY <2>2, <4>1, <4>2, <4>3
    <3> QED BY <3>1, <3>2
  <2> QED BY <2>1, <2>3
<1>8. s[n - 1] \in Stripping /\ s[n - 1].out = <<>> /\ s[n - 1].inside
  <2>1. 0..(n - 1) \subseteq Good
    <3> HIDE DEF Good
    <3>1. n - 1 \in Nat
      BY <1>1
    <3> QED BY <1>6, <1>7, <3>1, UpTo
  <2>2. n - 1 \in 0..(n - 1) /\ n - 1 # 0
    BY <1>1
  <2> QED BY <2>1, <2>2
<1>9. n \in 1..n
  BY <1>1
<1>10. s[n] = turn[s[n - 1]][text[n]] /\ text[n] \in STRING
  BY <1>4, <1>5, <1>9
<1>11. s[n].out = <<>> /\ ~s[n].inside
  <2>1. text[n] = closes
    BY <1>1
  <2>2. \A r \in Stripping, c \in STRING :
          r.inside /\ c = closes => turn[r][c].out = r.out /\ ~turn[r][c].inside
    BY <1>13
  <2>3. /\ turn[s[n - 1]][text[n]].out = s[n - 1].out
        /\ ~turn[s[n - 1]][text[n]].inside
    BY <1>8, <1>10, <2>1, <2>2, Zenon
  <2> QED BY <1>8, <1>10, <2>3, Zenon
<1>12. end = s[n]
  BY DEF s, n, turn
<1> QED BY <1>11, <1>12

\* One turn, by what is open and what is read.
LEMMA TurnCases ==
    ASSUME NEW s \in Quoting, NEW c \in STRING
    PROVE  /\ Turn(s, c) \in Quoting
           /\ s = Unquoted /\ c \notin {"'", "\"", "\\"} \cup DollarTags => Turn(s, c) = s
           /\ s = Unquoted /\ c \in {"'", "\""} \cup DollarTags
                => Turn(s, c).quote = c /\ ~Turn(s, c).escape
           /\ s.quote # "" /\ ~s.escape /\ c = s.quote => Turn(s, c) = Unquoted
           /\ s.quote \in DollarTags /\ c # s.quote => Turn(s, c) = s
           /\ s.quote \in {"'", "\""}
                => /\ s.escape => Turn(s, c).quote = s.quote /\ ~Turn(s, c).escape
                   /\ ~s.escape /\ c # s.quote =>
                        /\ Turn(s, c).quote = s.quote
                        /\ (Turn(s, c).escape <=> c = "\\")
<1>1. /\ s.quote \in {"", "'", "\""} \cup DollarTags /\ s.escape \in BOOLEAN
      /\ s = [quote |-> s.quote, escape |-> s.escape]
  BY DEF Quoting
<1>2. Turn(s, c) \in Quoting
  BY QuoteType DEF Quote, Turning
<1>3. Unquoted = [quote |-> "", escape |-> FALSE] /\ Unquoted.quote = "" /\ ~Unquoted.escape
  BY DEF Unquoted
<1>4. ASSUME s = Unquoted, c \notin {"'", "\"", "\\"} \cup DollarTags PROVE Turn(s, c) = s
  <2>1. s.quote = "" /\ ~s.escape /\ s.quote \notin DollarTags
    BY <1>3, <1>4 DEF DollarTags
  <2> QED BY <1>4, <2>1 DEF Turn
<1>5. ASSUME s = Unquoted, c \in {"'", "\""} \cup DollarTags
      PROVE  Turn(s, c).quote = c /\ ~Turn(s, c).escape
  <2>1. s.quote = "" /\ ~s.escape /\ s.quote \notin DollarTags /\ c # "\\"
    BY <1>3, <1>5 DEF DollarTags
  <2>2. Turn(s, c) = [s EXCEPT !.quote = c]
    BY <1>5, <2>1 DEF Turn
  <2> QED BY <1>1, <2>1, <2>2
<1>6. ASSUME s.quote # "", ~s.escape, c = s.quote PROVE Turn(s, c) = Unquoted
  <2>1. c \in {"'", "\""} \cup DollarTags /\ c # "\\"
    BY <1>1, <1>6 DEF DollarTags
  <2>2. Turn(s, c) = [s EXCEPT !.quote = ""]
    BY <1>6, <2>1 DEF Turn
  <2> QED BY <1>1, <1>3, <1>6, <2>2
<1>7. s.quote \in DollarTags /\ c # s.quote => Turn(s, c) = s
  BY <1>1 DEF Turn, DollarTags
<1>8. s.quote \in {"'", "\""} /\ s.escape => Turn(s, c).quote = s.quote /\ ~Turn(s, c).escape
  BY <1>1 DEF Turn, DollarTags
<1>9. s.quote \in {"'", "\""} /\ ~s.escape /\ c # s.quote =>
        Turn(s, c).quote = s.quote /\ (Turn(s, c).escape <=> c = "\\")
  BY <1>1 DEF Turn, DollarTags
<1> QED BY <1>2, <1>4, <1>5, <1>6, <1>7, <1>8, <1>9

\* After n tokens of a statement, what is open is the literal that n lies in.
OpenAt(s, n, literals) ==
    /\ (\A l \in literals : n \notin l.from..(l.to - 1)) => s = Unquoted
    /\ \A l \in literals : n \in l.from..(l.to - 1) =>
          s.quote = l.quote /\ (s.escape <=> n + 1 \in l.escaped)

\* What is said of a literal, one fact at a time.
LEMMA LiteralFacts ==
    ASSUME NEW text \in Seq(STRING), NEW l, IsLiteral(l, text)
    PROVE  /\ l.from \in Nat /\ l.to \in Nat /\ l.from > 0 /\ l.from < l.to
           /\ l.to <= Len(text)
           /\ (l.quote \in {"'", "\""} \/ l.quote \in DollarTags)
           /\ text[l.from] = l.quote /\ text[l.to] = l.quote
           /\ l.to \notin l.escaped
           /\ (\A m \in l.escaped : l.quote \notin DollarTags)
           /\ (\A m \in Nat : l.from < m /\ m < l.to /\ text[m] = l.quote => m \in l.escaped)
           /\ (\A m \in Nat : l.from <= m /\ m < l.to =>
                  (m + 1 \in l.escaped <=>
                      l.quote \notin DollarTags /\ text[m] = "\\" /\ m \notin l.escaped))
<1>1. DOMAIN text = 1..Len(text) /\ Len(text) \in Nat
  OBVIOUS
<1>2. l.from \in 1..Len(text) /\ l.to \in 1..Len(text) /\ l.from < l.to
  BY <1>1 DEF IsLiteral
<1>3. l.from \in Nat /\ l.to \in Nat /\ l.from > 0 /\ l.from < l.to /\ l.to <= Len(text)
  BY <1>1, <1>2
<1>4. l.quote \in {"'", "\""} \/ l.quote \in DollarTags
  BY DEF IsLiteral
<1>5. text[l.from] = l.quote /\ text[l.to] = l.quote
  BY DEF IsLiteral
<1>6. l.escaped \subseteq (l.from + 1)..(l.to - 1)
  BY DEF IsLiteral
<1>7. \A m \in (l.from + 1)..l.to :
        m \in l.escaped <=>
            l.quote \notin DollarTags /\ text[m - 1] = "\\" /\ m - 1 \notin l.escaped
  BY DEF IsLiteral
<1>8. \A m \in (l.from + 1)..(l.to - 1) : text[m] = l.quote => m \in l.escaped
  BY DEF IsLiteral
<1>9. ASSUME NEW m \in l.escaped
      PROVE  m \in (l.from + 1)..l.to /\ m # l.to /\ l.quote \notin DollarTags /\ text[m - 1] = "\\"
  <2>1. m \in (l.from + 1)..l.to /\ m # l.to
    BY <1>3, <1>6
  <2> QED BY <1>7, <2>1
<1>10. ASSUME NEW m \in Nat, l.from < m, m < l.to, text[m] = l.quote PROVE m \in l.escaped
  <2>1. m \in (l.from + 1)..(l.to - 1)
    BY <1>3, <1>10
  <2> QED BY <1>8, <1>10, <2>1
<1>11. ASSUME NEW m \in Nat, l.from <= m, m < l.to
       PROVE  m + 1 \in l.escaped <=>
                  l.quote \notin DollarTags /\ text[m] = "\\" /\ m \notin l.escaped
  <2>1. m + 1 \in (l.from + 1)..l.to /\ (m + 1) - 1 = m
    BY <1>3, <1>11
  <2> QED BY <1>7, <2>1
<1>12. l.to \notin l.escaped
  BY <1>9
<1> QED BY <1>3, <1>4, <1>5, <1>9, <1>10, <1>11, <1>12

LEMMA OpenAtNext ==
    ASSUME NEW text \in Seq(STRING), NEW literals, IsStatement(text, literals),
           NEW n \in DOMAIN text, NEW s \in Quoting, OpenAt(s, n - 1, literals)
    PROVE  OpenAt(Turn(s, text[n]), n, literals)
<1> DEFINE c == text[n]
           t == Turn(s, c)
<1>1. c \in STRING /\ n \in Nat /\ n > 0 /\ (n - 1) + 1 = n
  OBVIOUS
<1>2. \A l \in literals : IsLiteral(l, text)
  BY DEF IsStatement
<1>3. ASSUME NEW l \in literals
      PROVE  /\ l.from \in Nat /\ l.to \in Nat /\ l.from > 0 /\ l.from < l.to
             /\ (\A i \in Nat : i \in l.from..(l.to - 1) <=> l.from <= i /\ i < l.to)
  <2>1. l.from \in Nat /\ l.to \in Nat /\ l.from > 0 /\ l.from < l.to
    BY <1>2, LiteralFacts
  <2> QED BY <2>1
<1>4. ASSUME NEW k \in literals, NEW l \in literals, NEW i \in Nat,
             k.from <= i, i <= k.to, l.from <= i, i <= l.to
      PROVE  k = l
  <2>1. k = l \/ k.to < l.from \/ l.to < k.from
    BY DEF IsStatement
  <2>2. k.to \in Nat /\ k.from \in Nat /\ l.to \in Nat /\ l.from \in Nat
    BY <1>3
  <2> QED BY <1>4, <2>1, <2>2
<1>5. t \in Quoting
  BY <1>1, TurnCases
<1>6. s = Unquoted /\ c \notin {"'", "\"", "\\"} \cup DollarTags => t = s
  BY <1>1, TurnCases
<1>7. s = Unquoted /\ c \in {"'", "\""} \cup DollarTags => t.quote = c /\ ~t.escape
  BY <1>1, TurnCases
<1>8. s.quote # "" /\ ~s.escape /\ c = s.quote => t = Unquoted
  BY <1>1, TurnCases
<1>9. s.quote \in DollarTags /\ c # s.quote => t = s
  BY <1>1, TurnCases
<1>10. s.quote \in {"'", "\""} /\ s.escape => t.quote = s.quote /\ ~t.escape
  BY <1>1, TurnCases
<1>11. s.quote \in {"'", "\""} /\ ~s.escape /\ c # s.quote =>
          t.quote = s.quote /\ (t.escape <=> c = "\\")
  BY <1>1, TurnCases
<1>12. (\A l \in literals : n - 1 \notin l.from..(l.to - 1)) => s = Unquoted
  BY DEF OpenAt
<1>13. ASSUME NEW l \in literals, n - 1 \in l.from..(l.to - 1)
       PROVE  s.quote = l.quote /\ (s.escape <=> n \in l.escaped)
  BY <1>1, <1>13 DEF OpenAt
<1>14. c \in {"'", "\"", "\\"} \cup DollarTags => \E l \in literals : n \in l.from..l.to
  BY DEF IsStatement
<1>15. "" \notin DollarTags /\ "\\" \notin DollarTags /\ "'" \notin DollarTags /\ "\"" \notin DollarTags
  BY DEF DollarTags
<1> HIDE DEF t
<1>16. ASSUME NEW l \in literals, l.from <= n, n < l.to,
              t.quote = l.quote, t.escape <=> n + 1 \in l.escaped
       PROVE  OpenAt(t, n, literals)
  <2>1. n \in l.from..(l.to - 1)
    BY <1>1, <1>3, <1>16
  <2>2. ASSUME NEW k \in literals, n \in k.from..(k.to - 1) PROVE k = l
    <3>1. k.from <= n /\ n <= k.to /\ l.from <= n /\ n <= l.to
      BY <1>1, <1>3, <1>16, <2>2
    <3> QED BY <1>1, <1>4, <3>1
  <2>3. \A k \in literals : n \in k.from..(k.to - 1) =>
            t.quote = k.quote /\ (t.escape <=> n + 1 \in k.escaped)
    BY <1>16, <2>2
  <2> QED BY <2>1, <2>3 DEF OpenAt
<1>17. ASSUME t = Unquoted, \A l \in literals : ~(l.from <= n /\ n < l.to)
       PROVE  OpenAt(t, n, literals)
  <2>1. ASSUME NEW l \in literals PROVE n \notin l.from..(l.to - 1)
    BY <1>1, <1>3, <1>17
  <2> QED BY <1>17, <2>1 DEF OpenAt
<1>18. ASSUME \A l \in literals : n - 1 \notin l.from..(l.to - 1),
              NEW l \in literals, l.from = n
       PROVE  OpenAt(t, n, literals)
  <2>1. s = Unquoted
    BY <1>12, <1>18
  <2>2. /\ l.from \in Nat /\ l.to \in Nat /\ l.from < l.to
        /\ l.quote \in {"'", "\""} \/ l.quote \in DollarTags
        /\ text[l.from] = l.quote
    BY <1>2, LiteralFacts
  <2>3. c = l.quote /\ c \in {"'", "\""} \cup DollarTags
    BY <1>18, <2>2
  <2>4. t.quote = l.quote /\ ~t.escape
    BY <1>7, <2>1, <2>3
  <2>5. \A m \in Nat : l.from <= m /\ m < l.to =>
            (m + 1 \in l.escaped <=>
                l.quote \notin DollarTags /\ text[m] = "\\" /\ m \notin l.escaped)
    BY <1>2, LiteralFacts
  <2>6. c # "\\"
    <3> HIDE DEF c
    <3>1. c = "'" \/ c = "\"" \/ c \in DollarTags
      BY <2>3
    <3> QED BY <1>15, <3>1
  <2>7. l.from <= n /\ n < l.to
    BY <1>3, <1>18
  <2>8. n + 1 \in l.escaped => c = "\\"
    BY <1>1, <2>5, <2>7
  <2>9. n + 1 \notin l.escaped
    <3> HIDE DEF c
    <3> QED BY <2>6, <2>8
  <2> QED BY <1>16, <2>4, <2>7, <2>9
<1>19. ASSUME \A l \in literals : n - 1 \notin l.from..(l.to - 1),
              \A l \in literals : l.from # n
       PROVE  OpenAt(t, n, literals)
  <2>1. ASSUME NEW l \in literals PROVE ~(l.from <= n /\ n <= l.to)
    <3>1. n - 1 \notin l.from..(l.to - 1) /\ l.from # n
      BY <1>19
    <3> QED BY <1>1, <1>3, <3>1
  <2>2. c \notin {"'", "\"", "\\"} \cup DollarTags
    <3>1. ASSUME NEW l \in literals PROVE n \notin l.from..l.to
      BY <1>1, <1>3, <2>1
    <3> QED BY <1>14, <3>1
  <2>3. t = Unquoted
    BY <1>6, <1>12, <1>19, <2>2
  <2>4. ASSUME NEW l \in literals PROVE ~(l.from <= n /\ n < l.to)
    BY <1>1, <1>3, <2>1
  <2> QED BY <1>17, <2>3, <2>4
<1>20. ASSUME NEW l \in literals, n - 1 \in l.from..(l.to - 1)
       PROVE  OpenAt(t, n, literals)
  <2>1. s.quote = l.quote /\ (s.escape <=> n \in l.escaped)
    BY <1>13, <1>20
  <2>2. l.from < n /\ n <= l.to
    BY <1>1, <1>3, <1>20
  <2>3. l.quote \in {"'", "\""} \/ l.quote \in DollarTags
    BY <1>2, LiteralFacts
  <2>4. s.quote # ""
    BY <1>15, <2>1, <2>3
  <2>5. n \in l.escaped => l.quote \notin DollarTags
    BY <1>2, LiteralFacts
  <2>6. CASE n = l.to
    <3>1. text[l.to] = l.quote /\ l.to \notin l.escaped
      BY <1>2, LiteralFacts
    <3>2. c = s.quote /\ ~s.escape
      BY <2>1, <2>6, <3>1
    <3>3. t = Unquoted
      BY <1>8, <2>4, <3>2
    <3>4. ASSUME NEW k \in literals PROVE ~(k.from <= n /\ n < k.to)
      <4>1. SUFFICES ASSUME k.from <= n, n < k.to PROVE FALSE
        OBVIOUS
      <4>2. k = l
        BY <1>1, <1>3, <1>4, <2>2, <4>1
      <4> QED BY <1>1, <2>6, <4>1, <4>2
    <3> QED BY <1>17, <3>3, <3>4
  <2>7. CASE n # l.to
    <3>1. l.from <= n /\ n < l.to
      BY <1>1, <1>3, <2>2, <2>7
    <3>2. c = l.quote => n \in l.escaped
      <4>1. \A m \in Nat : l.from < m /\ m < l.to /\ text[m] = l.quote => m \in l.escaped
        BY <1>2, LiteralFacts
      <4> QED BY <1>1, <2>2, <3>1, <4>1
    <3>3. n + 1 \in l.escaped <=> l.quote \notin DollarTags /\ c = "\\" /\ n \notin l.escaped
      <4>1. \A m \in Nat : l.from <= m /\ m < l.to =>
              (m + 1 \in l.escaped <=>
                  l.quote \notin DollarTags /\ text[m] = "\\" /\ m \notin l.escaped)
        BY <1>2, LiteralFacts
      <4> QED BY <1>1, <3>1, <4>1
    <3> HIDE DEF c
    <3>4. CASE l.quote \in DollarTags
      <4>1. c # s.quote /\ ~s.escape
        BY <2>1, <2>5, <3>2, <3>4
      <4>2. t = s
        BY <1>9, <2>1, <3>4, <4>1
      <4> QED BY <1>16, <2>1, <3>1, <3>3, <3>4, <4>1, <4>2
    <3>5. CASE l.quote \notin DollarTags /\ n \in l.escaped
      <4>1. s.quote \in {"'", "\""} /\ s.escape
        BY <2>1, <2>3, <3>5
      <4>2. t.quote = l.quote /\ ~t.escape
        BY <1>10, <2>1, <4>1
      <4> QED BY <1>16, <3>1, <3>3, <3>5, <4>2
    <3>6. CASE l.quote \notin DollarTags /\ n \notin l.escaped
      <4>1. s.quote \in {"'", "\""} /\ ~s.escape /\ c # s.quote
        BY <2>1, <2>3, <3>2, <3>6
      <4>2. t.quote = l.quote /\ (t.escape <=> c = "\\")
        BY <1>11, <2>1, <4>1
      <4> QED BY <1>16, <3>1, <3>3, <3>6, <4>2
    <3> QED BY <3>4, <3>5, <3>6
  <2> QED BY <2>6, <2>7
<1> QED BY <1>18, <1>19, <1>20 DEF t

\* Names for two strings that the SMT translation cannot read.
Semicolon == ";"
NoQuote == ""

\* A statement ends at its last semicolon and nowhere else.
LEMMA StatementEnds ==
    ASSUME NEW text \in Seq(STRING), NEW literals, IsStatement(text, literals)
    PROVE  Ends(text) = {Len(text)} /\ FirstWords(text) = {text[1]}
<1> DEFINE n == Len(text)
           s == Quotes(text)
           Good == {i \in 0..n : s[i] \in Quoting /\ OpenAt(s[i], i, literals)}
<1>1. n \in Nat /\ n > 1 /\ DOMAIN text = 1..n
  <2>1. n > 1
    BY DEF IsStatement
  <2> QED BY <2>1
<1>2. text[n] = Semicolon
  BY DEF IsStatement, Semicolon
<1>3. s \in [0..n -> Quoting] /\ s[0] = Unquoted /\ Turns(s, Quote, text, n)
  <2>1. s = States(Quote, Unquoted, text)
    BY DEF Quotes, Quote
  <2>2. s \in [0..n -> Quoting] /\ Moves(s, Quote, Unquoted, text)
    BY <2>1, QuoteType, StatesFacts
  <2> HIDE DEF s
  <2> QED BY <1>1, <2>2, MovesTurn
<1>4. ASSUME NEW l \in literals
      PROVE  /\ l.from \in Nat /\ l.to \in Nat /\ l.from > 0 /\ l.from < l.to /\ l.to <= n
             /\ l.quote # Semicolon /\ l.quote # NoQuote
             /\ text[l.from] = l.quote /\ text[l.to] = l.quote
  <2>1. IsLiteral(l, text)
    BY DEF IsStatement
  <2>2. l.quote \in {"'", "\""} \/ l.quote \in DollarTags
    BY <2>1, LiteralFacts
  <2>3. l.quote # Semicolon /\ l.quote # NoQuote
    BY <2>2, Zenon DEF DollarTags, Semicolon, NoQuote
  <2> QED BY <2>1, <2>3, LiteralFacts
<1>5. \A i \in Nat : i \in Ends(text) <=> i \in DOMAIN text /\ text[i] = Semicolon /\ s[i - 1] = Unquoted
  <2>1. \A i \in DOMAIN text : i \in Nat
    BY <1>1
  <2> QED BY <2>1, Zenon DEF Ends, Semicolon
<1>6. Ends(text) \subseteq 1..n
  BY <1>1 DEF Ends
<1> HIDE DEF s, n
<1>7. 0 \in Good
  <2>1. ASSUME NEW l \in literals PROVE 0 \notin l.from..(l.to - 1)
    BY <1>4
  <2>2. OpenAt(Unquoted, 0, literals)
    BY <2>1 DEF OpenAt
  <2>3. 0 \in 0..n
    BY <1>1
  <2> QED BY <1>3, <2>2, <2>3, QuoteType
<1>8. ASSUME NEW i \in 1..n, i - 1 \in Good PROVE i \in Good
  <2>1. s[i] = Quote[s[i - 1]][text[i]]
    <3>1. Turns(s, Quote, text, n)
      BY <1>3
    <3> QED BY <3>1, Zenon DEF Turns
  <2>2. s[i - 1] \in Quoting /\ OpenAt(s[i - 1], i - 1, literals)
    BY <1>8
  <2>3. i \in 0..n /\ i \in DOMAIN text /\ text[i] \in STRING
    BY <1>1
  <2>4. s[i] = Turn(s[i - 1], text[i])
    BY <2>1, <2>2, <2>3 DEF Quote
  <2>5. OpenAt(Turn(s[i - 1], text[i]), i, literals)
    BY <2>2, <2>3, OpenAtNext
  <2>6. s[i] \in Quoting
    BY <1>3, <2>3
  <2> QED BY <2>3, <2>4, <2>5, <2>6
<1>9. \A i \in 0..n : OpenAt(s[i], i, literals)
  <2>1. 0..n \subseteq Good
    <3> HIDE DEF Good
    <3> QED BY <1>1, <1>7, <1>8, UpTo
  <2> QED BY <2>1
<1>10. n \in Ends(text)
  <2>1. n - 1 \in 0..n /\ n \in DOMAIN text /\ n \in Nat
    BY <1>1
  <2>2. ASSUME NEW l \in literals PROVE n - 1 \notin l.from..(l.to - 1)
    <3>1. l.to # n
      BY <1>2, <1>4
    <3> QED BY <1>1, <1>4, <3>1
  <2>3. OpenAt(s[n - 1], n - 1, literals)
    BY <1>9, <2>1
  <2>4. s[n - 1] = Unquoted
    BY <2>2, <2>3 DEF OpenAt
  <2> QED BY <1>2, <1>5, <2>1, <2>4
<1>11. ASSUME NEW i \in Ends(text) PROVE i = n
  <2> SUFFICES ASSUME i # n PROVE FALSE
    OBVIOUS
  <2>1. i \in 1..n /\ i \in Nat /\ i \in DOMAIN text
    BY <1>1, <1>6
  <2>2. text[i] = Semicolon /\ s[i - 1] = Unquoted
    BY <1>5, <2>1
  <2>3. PICK l \in literals : i \in l.from..l.to
    BY <2>1, <2>2 DEF IsStatement, Semicolon, n
  <2>4. i # l.from
    BY <1>4, <2>2
  <2>5. i - 1 \in l.from..(l.to - 1) /\ i - 1 \in 0..n
    BY <1>1, <1>4, <2>1, <2>3, <2>4
  <2>6. OpenAt(s[i - 1], i - 1, literals)
    BY <1>9, <2>5
  <2>7. s[i - 1].quote = l.quote
    BY <2>5, <2>6 DEF OpenAt
  <2>8. Unquoted.quote = NoQuote
    BY DEF Unquoted, NoQuote
  <2> QED BY <1>4, <2>2, <2>7, <2>8
<1>12. Ends(text) = {n}
  BY <1>10, <1>11
<1>13. {m \in {0} \cup {n} : m + 1 \in (1..n) \ {n}} = {0}
  BY <1>1
<1>14. FirstWords(text) = {text[m + 1] : m \in {0}}
  BY <1>1, <1>12, <1>13 DEF FirstWords
<1>15. FirstWords(text) = {text[1]}
  BY <1>14
<1> QED BY <1>12, <1>15 DEF n

\* A piece leaves nothing open, and creates the table it is written for.
LEMMA PieceAlone ==
    ASSUME NEW text \in Seq(STRING), NEW literals, IsPiece(text, literals), NEW e
    PROVE  /\ Closed(text)
           /\ ScannedTables(text, e) = Tabled({text[1]}, e) \ ExcludedTables
<1> DEFINE blocks == States(BlockComment, Outside, text)[Len(text)]
           lines == States(LineComment, Outside, blocks.out)[Len(blocks.out)]
<1>1. ScannedTables(text, e) = Tabled(FirstWords(lines.out), e) \ ExcludedTables
  <2>1. StripComments(text) = lines.out
    BY DEF StripComments, Strip
  <2>2. \A W : Tabled(W \ IgnoredWords, e) = Tabled(W, e)
    BY CreatedAssumption DEF Tabled
  <2> QED BY <2>1, <2>2 DEF ScannedTables
<1>2. ASSUME lines.out = <<>> \/ Len(lines.out) \in Ends(lines.out), ~lines.inside, ~blocks.inside
      PROVE  Closed(text)
  BY <1>2 DEF Closed
<1>3. \A w : w \in {"/*", "--", Semicolon} => Tabled({w}, e) = {}
  <2>1. ASSUME NEW w, w \in {"/*", "--", Semicolon} PROVE w \notin DOMAIN Created
    BY <2>1, CreatedAssumption, Zenon DEF Semicolon
  <2> QED BY <2>1 DEF Tabled
<1>4. FirstWords(<<>>) = {} /\ Tabled({}, e) = {}
  BY DEF FirstWords, Tabled
<1>5. <<>> \in Seq(STRING)
  OBVIOUS
<1>6. \A t \in Seq(STRING) : (\A m \in DOMAIN t : t[m] # "/*") =>
          LET end == States(BlockComment, Outside, t)[Len(t)]
          IN  end.out = t /\ ~end.inside
  BY StripPlain DEF BlockComment
<1>7. \A t \in Seq(STRING) : (\A m \in DOMAIN t : t[m] \notin {"--", "nl"}) =>
          LET end == States(LineComment, Outside, t)[Len(t)]
          IN  end.out = t /\ ~end.inside
  <2> SUFFICES ASSUME NEW t \in Seq(STRING), \A m \in DOMAIN t : t[m] \notin {"--", "nl"}
               PROVE  LET end == States(LineComment, Outside, t)[Len(t)]
                      IN  end.out = t /\ ~end.inside
    OBVIOUS
  <2>1. \A m \in DOMAIN t : t[m] # "--" /\ t[m] \notin {"nl"}
    OBVIOUS
  <2> QED BY <2>1, StripPlain DEF LineComment
<1>8. ASSUME \A m \in DOMAIN text : text[m] \notin {"/*", "--", "nl"}
      PROVE  lines.out = text /\ ~lines.inside /\ ~blocks.inside
  <2>1. blocks.out = text /\ ~blocks.inside
    BY <1>6, <1>8
  <2> HIDE DEF blocks
  <2>2. States(LineComment, Outside, text)[Len(text)].out = text
        /\ ~States(LineComment, Outside, text)[Len(text)].inside
    BY <1>7, <1>8
  <2> QED BY <2>1, <2>2
<1>9. ASSUME \/ IsComment(text, "/*", "*/", {"*/"})
             \/ IsComment(text, "--", "nl", {"nl", "/*"})
      PROVE  lines.out = <<>> /\ ~lines.inside /\ ~blocks.inside
  <2>1. CASE IsComment(text, "/*", "*/", {"*/"})
    <3>1. blocks.out = <<>> /\ ~blocks.inside
      <4>1. /\ Len(text) > 1 /\ text[1] = "/*" /\ text[Len(text)] = "*/"
            /\ \A m \in 2..(Len(text) - 1) : text[m] # "*/"
        BY <2>1, Zenon DEF IsComment
      <4>2. ASSUME NEW end, end = States(Stripped("/*", "*/", {}), Outside, text)[Len(text)]
            PROVE  end.out = <<>> /\ ~end.inside
        BY <4>1, <4>2, StripComment
      <4> QED BY <4>2 DEF BlockComment
    <3>2. \A m \in DOMAIN <<>> : <<>>[m] \notin {"--", "nl"}
      OBVIOUS
    <3>3. States(LineComment, Outside, <<>>)[Len(<<>>)].out = <<>>
          /\ ~States(LineComment, Outside, <<>>)[Len(<<>>)].inside
      BY <1>5, <1>7, <3>2, Zenon
    <3> HIDE DEF blocks
    <3> QED BY <3>1, <3>3, Zenon
  <2>2. CASE IsComment(text, "--", "nl", {"nl", "/*"})
    <3>1. DOMAIN text = 1..Len(text) /\ Len(text) \in Nat
      OBVIOUS
    <3>2. /\ text[1] = "--" /\ text[Len(text)] = "nl"
          /\ \A m \in 2..(Len(text) - 1) : text[m] # "/*"
      BY <2>2 DEF IsComment
    <3>3. ASSUME NEW m \in DOMAIN text PROVE text[m] # "/*"
      <4>1. m = 1 \/ m = Len(text) \/ m \in 2..(Len(text) - 1)
        BY <3>1
      <4> QED BY <3>2, <4>1
    <3>4. blocks.out = text /\ ~blocks.inside
      BY <1>6, <3>3
    <3> HIDE DEF blocks
    <3>5. States(LineComment, Outside, text)[Len(text)].out = <<>>
          /\ ~States(LineComment, Outside, text)[Len(text)].inside
      <4>1. /\ Len(text) > 1 /\ text[1] = "--" /\ text[Len(text)] = "nl"
            /\ \A m \in 2..(Len(text) - 1) : text[m] # "nl"
        BY <2>2, Zenon DEF IsComment
      <4>2. ASSUME NEW end, end = States(Stripped("--", "nl", {"nl"}), Outside, text)[Len(text)]
            PROVE  end.out = <<>> /\ ~end.inside
        BY <4>1, <4>2, StripComment
      <4>3. LineComment = Stripped("--", "nl", {"nl"})
        BY Zenon DEF LineComment
      <4> QED BY <4>2, <4>3, Zenon
    <3> QED BY <3>4, <3>5
  <2> QED BY <1>9, <2>1, <2>2
<1> HIDE DEF lines, blocks
<1>10. CASE IsStatement(text, literals)
  <2>1. lines.out = text /\ ~lines.inside /\ ~blocks.inside
    <3>1. \A m \in DOMAIN text : text[m] \notin {"/*", "--", "nl"}
      BY <1>10, Zenon DEF IsStatement
    <3> QED BY <1>8, <3>1
  <2>2. Ends(text) = {Len(text)} /\ FirstWords(text) = {text[1]}
    BY <1>10, StatementEnds
  <2>3. Closed(text)
    BY <1>2, <2>1, <2>2
  <2> QED BY <1>1, <2>1, <2>2, <2>3
<1>11. CASE \/ IsComment(text, "/*", "*/", {"*/"})
            \/ IsComment(text, "--", "nl", {"nl", "/*"})
  <2>1. lines.out = <<>> /\ ~lines.inside /\ ~blocks.inside
    BY <1>9, <1>11
  <2>2. Closed(text)
    BY <1>2, <2>1
  <2>3. text[1] \in {"/*", "--", Semicolon}
    BY <1>11, Zenon DEF IsComment
  <2>4. Tabled({text[1]}, e) = {}
    BY <1>3, <2>3, Zenon
  <2> QED BY <1>1, <1>4, <2>1, <2>2, <2>4
<1>12. CASE text = <<Semicolon>>
  <2>1. Len(text) = 1 /\ text[1] = Semicolon /\ DOMAIN text = {1}
    BY <1>12
  <2>2. Semicolon \notin {"/*", "--", "nl"}
    BY Zenon DEF Semicolon
  <2>3. lines.out = text /\ ~lines.inside /\ ~blocks.inside
    <3>1. \A m \in DOMAIN text : text[m] \notin {"/*", "--", "nl"}
      BY <2>1, <2>2
    <3> QED BY <1>8, <3>1
  <2>4. Quotes(text)[0] = Unquoted
    <3>1. Moves(States(Quote, Unquoted, text), Quote, Unquoted, text)
      BY QuoteType, StatesFacts
    <3>2. Len(text) \in Nat
      BY <2>1
    <3>3. States(Quote, Unquoted, text)[0] = Unquoted
      BY <3>1, <3>2, MovesTurn
    <3> QED BY <3>3 DEF Quotes, Quote
  <2>5. Ends(text) = {n \in DOMAIN text : text[n] = Semicolon /\ Quotes(text)[n - 1] = Unquoted}
    BY DEF Ends, Semicolon
  <2>6. Ends(text) = {1}
    BY <2>1, <2>4, <2>5
  <2>7. Closed(text)
    BY <1>2, <2>1, <2>3, <2>6
  <2>8. {m \in {0} \cup {1} : m + 1 \in {1} \ {1}} = {}
    OBVIOUS
  <2>9. FirstWords(text) = {}
    BY <2>1, <2>6, <2>8 DEF FirstWords
  <2>10. Tabled({text[1]}, e) = {}
    BY <1>3, <2>1
  <2> QED BY <1>1, <1>4, <2>3, <2>7, <2>9, <2>10
<1>13. IsPiece(text, literals) => \/ IsStatement(text, literals)
                                  \/ IsComment(text, "/*", "*/", {"*/"})
                                  \/ IsComment(text, "--", "nl", {"nl", "/*"})
                                  \/ text = <<Semicolon>>
  BY Zenon DEF IsPiece, Semicolon
<1> QED BY <1>10, <1>11, <1>12, <1>13

\* The text of a dump, piece after piece: its tables are those of its statements that
\* SQLite executes, whatever comments and literals hold (DumpParser.parse_statements,
\* SandboxManager, SchemaScanner).
THEOREM ScansInTurn ==
    ASSUME NEW pieces \in Seq(Seq(STRING)), NEW rest \in [0..Len(pieces) -> Seq(STRING)],
           NEW text, NEW literals, MadeOf(text, pieces, literals, rest), NEW e
    PROVE  ScannedTables(text, e) = WrittenTables(pieces, e)
<1> DEFINE n == Len(pieces)
           alone(i) == ScannedTables(pieces[i], e)
           Good == {k \in 0..n : ScannedTables(rest[n - k], e) =
                                     UNION {alone(i) : i \in (n - k + 1)..n}}
<1>1. n \in Nat /\ DOMAIN pieces = 1..n
  OBVIOUS
<1>2. /\ rest[0] = text /\ rest[n] = <<>>
      /\ \A i \in 1..n : rest[i - 1] = pieces[i] \o rest[i]
  BY <1>1 DEF MadeOf
<1>3. ASSUME NEW i \in 1..n
      PROVE  /\ pieces[i] \in Seq(STRING) /\ Closed(pieces[i])
             /\ alone(i) = Tabled({pieces[i][1]}, e) \ ExcludedTables
  <2>1. pieces[i] \in Seq(STRING)
    OBVIOUS
  <2>2. IsPiece(pieces[i], literals[i])
    BY <1>1 DEF MadeOf
  <2> QED BY <2>1, <2>2, PieceAlone
<1> HIDE DEF n
<1>4. 0 \in Good
  <2>1. n - 0 = n /\ (n - 0 + 1)..n = {} /\ 0 \in 0..n
    BY <1>1
  <2>2. UNION {alone(i) : i \in {}} = {}
    OBVIOUS
  <2>3. ScannedTables(rest[n], e) = {}
    BY <1>2, ScanOfNothing
  <2> HIDE DEF alone
  <2> QED BY <2>1, <2>2, <2>3
<1>5. ASSUME NEW k \in 1..n, k - 1 \in Good PROVE k \in Good
  <2> DEFINE i == n - k + 1
  <2>1. /\ i \in 1..n /\ i \in 0..n /\ n - (k - 1) = i /\ n - k = i - 1
        /\ n - (k - 1) + 1 = i + 1 /\ k \in 0..n
    BY <1>1
  <2> HIDE DEF i
  <2>2. rest[i - 1] = pieces[i] \o rest[i] /\ pieces[i] \in Seq(STRING)
        /\ Closed(pieces[i]) /\ rest[i] \in Seq(STRING)
    BY <1>2, <1>3, <2>1 DEF n
  <2>3. ScannedTables(rest[i - 1], e) = alone(i) \cup ScannedTables(rest[i], e)
    BY <2>2, ScansOfBoth
  <2>4. ScannedTables(rest[i], e) = UNION {alone(j) : j \in (i + 1)..n}
    BY <1>5, <2>1
  <2>5. i..n = {i} \cup (i + 1)..n
    BY <1>1, <2>1
  <2> HIDE DEF alone
  <2>6. UNION {alone(j) : j \in i..n} = alone(i) \cup UNION {alone(j) : j \in (i + 1)..n}
    BY <2>5
  <2>7. ScannedTables(rest[i - 1], e) = UNION {alone(j) : j \in i..n}
    BY <2>3, <2>4, <2>6
  <2> QED BY <2>1, <2>7 DEF i
<1>6. n \in Good
  <2>1. 0..n \subseteq Good
    <3> HIDE DEF Good
    <3> QED BY <1>1, <1>4, <1>5, UpTo
  <2>2. n \in 0..n
    BY <1>1
  <2> HIDE DEF Good
  <2> QED BY <2>1, <2>2
<1>7. ScannedTables(rest[0], e) = UNION {alone(i) : i \in 1..n}
  <2>1. n - n = 0 /\ n - n + 1 = 1
    BY <1>1
  <2> HIDE DEF alone
  <2> QED BY <1>6, <2>1
<1>8. ASSUME NEW x
      PROVE  x \in UNION {alone(i) : i \in 1..n} <=> x \in WrittenTables(pieces, e)
  <2>1. x \in UNION {alone(i) : i \in 1..n} <=>
            \E i \in 1..n : x \in Tabled({pieces[i][1]}, e) \ ExcludedTables
    <3> HIDE DEF alone
    <3> QED BY <1>3
  <2>2. \A i \in 1..n : x \in Tabled({pieces[i][1]}, e) <=>
            /\ pieces[i][1] \in DOMAIN Created /\ Executes(pieces[i][1], e)
            /\ x = Created[pieces[i][1]].table
    BY DEF Tabled
  <2>3. x \in WrittenTables(pieces, e) <=>
            /\ x \notin ExcludedTables
            /\ \E i \in 1..n : /\ pieces[i][1] \in DOMAIN Created /\ Executes(pieces[i][1], e)
                               /\ x = Created[pieces[i][1]].table
    BY <1>1 DEF WrittenTables, Tabled
  <2> QED BY <2>1, <2>2, <2>3
<1>9. UNION {alone(i) : i \in 1..n} = WrittenTables(pieces, e)
  <2> HIDE DEF alone
  <2> QED BY <1>8
<1> QED BY <1>2, <1>7, <1>9

\* What the parser, the sandbox and the scan make of the dump of a base.
Parsed(b) == ScannedTables(TextOf[dump[b]], EngineOf(dump[b]))

LEMMA ParsedIsSchema ==
    ASSUME NEW b \in Bases
    PROVE  Parsed(b) \in Schemas
<1>1. \A W, e : Tabled(W, e) \subseteq Tables
  BY SchemaAssumption DEF Tabled
<1> QED BY <1>1 DEF Parsed, ScannedTables, Schemas

-----------------------------------------------------------------------------
(* The inductive invariant.                                                *)

\* A base is stored as it was scanned, from the moment it is saved and not
\* before; it is active, or about to be, only once its upload has begun.
UploadsOK ==
    /\ base \in Bases \cup {NoBase} /\ wanted \in Bases \cup {NoBase}
    /\ dump \in [Bases -> Dumps \cup {NoDump}]
    /\ stage \in [Bases -> Stages]
    /\ scanned \in [Bases -> Schemas]
    /\ snapshot \in [Bases -> Schemas \cup {NoSchema}]
    /\ \A b \in Bases : stage[b] \in {"save", "cache", "ok"} => scanned[b] = Parsed(b)
    /\ \A b \in Bases : stage[b] \in {"cache", "ok"} => snapshot[b] = scanned[b]
    /\ \A b \in Bases : stage[b] \notin {"cache", "ok"} => snapshot[b] = NoSchema
    /\ \A b \in Bases : b \in {base, wanted} => stage[b] # "none"

CacheOK ==
    /\ cache \in [Bases -> Entry]
    /\ \A b \in Bases : (cache[b].age = "none") <=> (cache[b].schema = NoSchema)
    /\ CachedIsStored

Places == {"asked", "load", "loaded", "log", "answered", "lost"}

\* A question loaded before its base was saved has read no schema; once it has
\* generated from a schema, that schema is the stored one for good.
QuestionsOK ==
    /\ pc \in [Questions -> Places]
    /\ chosen \in [Questions -> Bases \cup {NoBase}]
    /\ used \in [Questions -> Schemas \cup {NoSchema}]
    /\ status \in [Questions -> Statuses]
    /\ logged \in [Questions -> [base : Bases \cup {NoBase}, status : Statuses]]
    /\ \A q \in Questions :
        /\ pc[q] \in {"asked", "load", "loaded"} => status[q] = "none"
        /\ pc[q] \in {"asked", "load", "loaded", "log"} => logged[q] = NoLog
        /\ pc[q] = "log" => status[q] \in {"preview", "rejected"}
        /\ pc[q] \in {"load", "loaded", "log"} => chosen[q] \in Bases
        /\ pc[q] = "loaded" => used[q] \in {NoSchema, snapshot[chosen[q]]}
        /\ status[q] \in {"preview", "rejected"} =>
              /\ chosen[q] \in Bases
              /\ used[q] # NoSchema /\ used[q] = snapshot[chosen[q]]
        /\ logged[q] # NoLog =>
              /\ logged[q].base = chosen[q]
              /\ logged[q].status \in {"preview", "rejected"}
              /\ status[q] \in {logged[q].status, "error"}

Inv == UploadsOK /\ CacheOK /\ QuestionsOK /\ faults \in 0..MaxFaults

LEMMA InvImplies == Inv => TypeOK /\ CachedIsStored /\ LogsTellTheAnswer
BY SchemaAssumption DEF Inv, UploadsOK, CacheOK, QuestionsOK, Places, TypeOK,
                        LogsTellTheAnswer

LEMMA InitInv == Init => Inv
<1> SUFFICES ASSUME Init PROVE Inv OBVIOUS
<1>1. UploadsOK
  BY SchemaAssumption DEF Init, Register!Init, UploadsOK, Stages, Schemas
<1>2. CacheOK
  BY DEF Init, Empty, Entry, CacheOK, CachedIsStored
<1>3. QuestionsOK
  BY DEF Init, QuestionsOK, Places, Statuses, NoLog
<1> QED BY <1>1, <1>2, <1>3, SchemaAssumption DEF Inv, Init

-----------------------------------------------------------------------------
(* Uploads and switches.                                                   *)

Stored == \A b \in Bases : snapshot[b] # NoSchema => snapshot'[b] = snapshot[b]

LEMMA QuestionsKept ==
    ASSUME QuestionsOK, UNCHANGED questionVars, Stored
    PROVE  QuestionsOK'
BY DEF QuestionsOK, questionVars, Stored, NoLog

LEMMA CacheKept == CacheOK /\ UNCHANGED <<cache, snapshot>> => CacheOK'
BY DEF CacheOK, CachedIsStored

LEMMA FaultsKept ==
    ASSUME faults \in 0..MaxFaults, CanFail \/ UNCHANGED faults
    PROVE  faults' \in 0..MaxFaults
BY SchemaAssumption DEF CanFail

LEMMA SwitchKeeps ==
    ASSUME Inv,
           \/ \E b \in Bases : BeginUpload(b) \/ PostConnector(b) \/ BeginToggle(b)
           \/ DropOthers \/ SelectWanted \/ TurnOff
    PROVE  Inv'
<1> USE DEF Inv
<1>1. UNCHANGED <<scanned, snapshot, cache, questionVars, faults>>
  BY DEF BeginUpload, PostConnector, BeginToggle, DropOthers, SelectWanted, TurnOff, questionVars
<1>2. QuestionsOK' /\ CacheOK' /\ faults' \in 0..MaxFaults
  BY <1>1, QuestionsKept, CacheKept DEF Stored
<1> SUFFICES UploadsOK'
  BY <1>2
<1>3. ASSUME NEW b \in Bases, BeginUpload(b) PROVE UploadsOK'
  <2>1. PICK d \in Dumps : dump' = [dump EXCEPT ![b] = d]
    BY <1>3 DEF BeginUpload
  <2>2. /\ stage[b] = "none" /\ stage' = [stage EXCEPT ![b] = "switch"]
        /\ base' \in {base, b} /\ wanted' = b
    BY <1>3 DEF BeginUpload, Register!Want
  <2>3. dump' \in [Bases -> Dumps \cup {NoDump}] /\ stage' \in [Bases -> Stages]
    BY <2>1, <2>2 DEF UploadsOK, Stages
  <2>4. ASSUME NEW a \in Bases, stage'[a] \in {"save", "cache", "ok"}
        PROVE  stage'[a] = stage[a] /\ Parsed(a)' = Parsed(a)
    BY <2>1, <2>2, <2>4 DEF UploadsOK, Parsed
  <2>5. ASSUME NEW a \in Bases
        PROVE  /\ stage'[a] \in {"cache", "ok"} => snapshot[a] = scanned[a]
               /\ stage'[a] \notin {"cache", "ok"} => snapshot[a] = NoSchema
               /\ a \in {base', wanted'} => stage'[a] # "none"
    BY <2>2 DEF UploadsOK
  <2> QED BY <1>1, <2>2, <2>3, <2>4, <2>5 DEF UploadsOK
<1>4. ASSUME UNCHANGED <<dump, stage>>,
             base' \in Bases \cup {NoBase}, wanted' \in Bases \cup {NoBase},
             \A b \in Bases : b \in {base', wanted'} => stage[b] # "none"
      PROVE  UploadsOK'
  BY <1>1, <1>4 DEF UploadsOK, Parsed
<1>5. ASSUME NEW b \in Bases, BeginToggle(b) PROVE UploadsOK'
  BY <1>4, <1>5 DEF BeginToggle, Register!Want, UploadsOK
<1>9. ASSUME NEW b \in Bases, PostConnector(b) PROVE UploadsOK'
  <2>1. /\ stage[b] = "none" /\ stage' = [stage EXCEPT ![b] = "posted"]
        /\ base' = b /\ wanted' = wanted /\ dump' = dump
    BY <1>9 DEF PostConnector
  <2>2. stage' \in [Bases -> Stages]
    BY <2>1 DEF UploadsOK, Stages
  <2>3. ASSUME NEW a \in Bases
        PROVE  /\ Parsed(a)' = Parsed(a)
               /\ stage'[a] \in {"save", "cache", "ok"} => scanned[a] = Parsed(a)
               /\ stage'[a] \in {"cache", "ok"} => snapshot[a] = scanned[a]
               /\ stage'[a] \notin {"cache", "ok"} => snapshot[a] = NoSchema
               /\ a \in {base', wanted'} => stage'[a] # "none"
    BY <2>1 DEF UploadsOK, Parsed
  <2> QED BY <1>1, <2>1, <2>2, <2>3 DEF UploadsOK
<1>6. CASE DropOthers
  <2>1. base' \in {base, NoBase} /\ wanted' = wanted /\ dump' = dump /\ stage' = stage
    BY <1>6 DEF DropOthers, Register!Drop
  <2>2. \A b \in Bases : b \in {base', wanted'} => stage[b] # "none"
    BY <2>1, SchemaAssumption DEF UploadsOK
  <2>3. base' \in Bases \cup {NoBase} /\ wanted' \in Bases \cup {NoBase}
    BY <2>1 DEF UploadsOK
  <2> QED BY <1>4, <2>1, <2>2, <2>3
<1>7. CASE TurnOff
  <2>1. base' = NoBase /\ wanted' = wanted /\ dump' = dump /\ stage' = stage
    BY <1>7 DEF TurnOff, Register!TurnOff
  <2>2. \A b \in Bases : b \in {base', wanted'} => stage[b] # "none"
    BY <2>1, SchemaAssumption DEF UploadsOK
  <2>3. base' \in Bases \cup {NoBase} /\ wanted' \in Bases \cup {NoBase}
    BY <2>1 DEF UploadsOK
  <2> QED BY <1>4, <2>1, <2>2, <2>3
<1>8. CASE SelectWanted
  <2>1. /\ wanted \in Bases /\ base' = wanted /\ wanted' = NoBase
        /\ stage' = [stage EXCEPT ![wanted] = IF @ = "switch" THEN "scan" ELSE @]
        /\ dump' = dump
    BY <1>8 DEF SelectWanted, Register!Select, UploadsOK
  <2>2. stage' \in [Bases -> Stages]
    BY <2>1 DEF UploadsOK, Stages
  <2>3. ASSUME NEW b \in Bases
        PROVE  /\ stage'[b] \in {"save", "cache", "ok"} => stage'[b] = stage[b]
               /\ stage'[b] \notin {"cache", "ok"} => stage[b] \notin {"cache", "ok"}
               /\ stage'[b] = "none" => stage[b] = "none"
               /\ Parsed(b)' = Parsed(b)
    BY <2>1 DEF UploadsOK, Parsed
  <2>4. ASSUME NEW b \in Bases
        PROVE  /\ stage'[b] \in {"save", "cache", "ok"} => scanned[b] = Parsed(b)'
               /\ stage'[b] \in {"cache", "ok"} => snapshot[b] = scanned[b]
               /\ stage'[b] \notin {"cache", "ok"} => snapshot[b] = NoSchema
    BY <2>3 DEF UploadsOK
  <2>5. ASSUME NEW b \in Bases, b \in {base', wanted'} PROVE stage'[b] # "none"
    BY <2>1, <2>3, <2>5, SchemaAssumption DEF UploadsOK
  <2>6. base' \in Bases \cup {NoBase} /\ wanted' \in Bases \cup {NoBase}
    BY <2>1
  <2>7. dump' \in [Bases -> Dumps \cup {NoDump}] /\ scanned' \in [Bases -> Schemas]
        /\ snapshot' \in [Bases -> Schemas \cup {NoSchema}]
    BY <1>1, <2>1 DEF UploadsOK
  <2>8. scanned' = scanned /\ snapshot' = snapshot
    BY <1>1
  <2> QED BY <2>2, <2>4, <2>5, <2>6, <2>7, <2>8 DEF UploadsOK
<1> QED BY <1>3, <1>5, <1>6, <1>7, <1>8, <1>9

LEMMA ScanKeeps ==
    ASSUME Inv, NEW b \in Bases, Scan(b)
    PROVE  Inv'
<1> USE DEF Inv
<1>1. /\ stage[b] = "scan" /\ stage' = [stage EXCEPT ![b] = "save"]
      /\ scanned' = [scanned EXCEPT ![b] = Parsed(b)]
      /\ cache' = [cache EXCEPT ![b] = Empty]
      /\ UNCHANGED <<base, wanted, dump, snapshot, faults>>
  BY DEF Scan, Parsed
<1>2. QuestionsOK'
  BY QuestionsKept DEF Scan, Stored
<1>3. CacheOK'
  BY <1>1 DEF CacheOK, CachedIsStored, Empty, Entry
<1>4. scanned' \in [Bases -> Schemas] /\ stage' \in [Bases -> Stages]
  BY <1>1, ParsedIsSchema DEF UploadsOK, Stages
<1>5. ASSUME NEW a \in Bases
      PROVE  /\ Parsed(a)' = Parsed(a)
             /\ stage'[a] \in {"save", "cache", "ok"} => scanned'[a] = Parsed(a)
             /\ stage'[a] \in {"cache", "ok"} => snapshot[a] = scanned'[a]
             /\ stage'[a] \notin {"cache", "ok"} => snapshot[a] = NoSchema
             /\ a \in {base, wanted} => stage'[a] # "none"
  BY <1>1 DEF UploadsOK, Parsed
<1>6. UploadsOK'
  BY <1>1, <1>4, <1>5 DEF UploadsOK
<1> QED BY <1>1, <1>2, <1>3, <1>6

\* The first time a base is stored: no question has read a schema of it, and the
\* cache has none.
LEMMA SaveKeeps ==
    ASSUME Inv, NEW b \in Bases, SaveSchema(b)
    PROVE  Inv'
<1> USE DEF Inv
<1>1. /\ stage[b] = "save" /\ stage' = [stage EXCEPT ![b] = "cache"]
      /\ snapshot' = [snapshot EXCEPT ![b] = scanned[b]]
      /\ UNCHANGED <<base, wanted, dump, scanned, cache, faults>>
  BY DEF SaveSchema
<1>2. QuestionsOK'
  <2>1. Stored
    BY <1>1 DEF Stored, UploadsOK
  <2> QED BY <2>1, QuestionsKept DEF SaveSchema
<1>3. CacheOK'
  <2>1. cache[b].age = "none"
    BY <1>1 DEF UploadsOK, CacheOK, CachedIsStored
  <2> QED BY <1>1, <2>1 DEF CacheOK, CachedIsStored, UploadsOK
<1>4. snapshot' \in [Bases -> Schemas \cup {NoSchema}] /\ stage' \in [Bases -> Stages]
  BY <1>1 DEF UploadsOK, Stages
<1>5. ASSUME NEW a \in Bases
      PROVE  /\ Parsed(a)' = Parsed(a)
             /\ stage'[a] \in {"save", "cache", "ok"} => scanned[a] = Parsed(a)
             /\ stage'[a] \in {"cache", "ok"} => snapshot'[a] = scanned[a]
             /\ stage'[a] \notin {"cache", "ok"} => snapshot'[a] = NoSchema
             /\ a \in {base, wanted} => stage'[a] # "none"
  BY <1>1 DEF UploadsOK, Parsed
<1>6. UploadsOK'
  BY <1>1, <1>4, <1>5 DEF UploadsOK
<1> QED BY <1>1, <1>2, <1>3, <1>6

LEMMA SetCacheKeeps ==
    ASSUME Inv, NEW b \in Bases, SetCache(b)
    PROVE  Inv'
<1> USE DEF Inv
<1>1. /\ stage[b] = "cache" /\ stage' = [stage EXCEPT ![b] = "ok"]
      /\ cache' = [cache EXCEPT ![b] = [schema |-> scanned[b], age |-> "fresh"]]
      /\ UNCHANGED <<base, wanted, dump, scanned, snapshot, faults>>
  BY DEF SetCache
<1>2. QuestionsOK'
  BY QuestionsKept DEF SetCache, Stored
<1>3. CacheOK'
  <2>1. scanned[b] \in Schemas /\ snapshot[b] = scanned[b]
    BY <1>1 DEF UploadsOK
  <2>2. cache' \in [Bases -> Entry]
    BY <1>1, <2>1 DEF CacheOK, Entry
  <2> QED BY <1>1, <2>1, <2>2, SchemaAssumption DEF CacheOK, CachedIsStored
<1>4. stage' \in [Bases -> Stages]
  BY <1>1 DEF UploadsOK, Stages
<1>5. ASSUME NEW a \in Bases
      PROVE  /\ Parsed(a)' = Parsed(a)
             /\ stage'[a] \in {"save", "cache", "ok"} => scanned[a] = Parsed(a)
             /\ stage'[a] \in {"cache", "ok"} => snapshot[a] = scanned[a]
             /\ stage'[a] \notin {"cache", "ok"} => snapshot[a] = NoSchema
             /\ a \in {base, wanted} => stage'[a] # "none"
  BY <1>1 DEF UploadsOK, Parsed
<1>6. UploadsOK'
  BY <1>1, <1>4, <1>5 DEF UploadsOK
<1> QED BY <1>1, <1>2, <1>3, <1>6

\* An upload that ends before it is saved: it fails, or the process restarts.
LosesUploads ==
    /\ base' = base /\ dump' = dump /\ scanned' = scanned /\ snapshot' = snapshot
    /\ wanted' = wanted \/ wanted' = NoBase
    /\ stage' \in [Bases -> Stages]
    /\ \A b \in Bases :
          \/ stage'[b] = stage[b]
          \/ stage[b] = "cache" /\ stage'[b] = "ok"
          \/ stage[b] \in {"switch", "scan", "save"} /\ stage'[b] = "failed"

LEMMA LostUploadKeeps ==
    ASSUME Inv, LosesUploads
    PROVE  UploadsOK'
<1> USE DEF LosesUploads
<1>1. UploadsOK
  BY DEF Inv
<1>2. ASSUME NEW a \in Bases
      PROVE  /\ Parsed(a)' = Parsed(a)
             /\ stage'[a] \in {"save", "cache", "ok"} => scanned[a] = Parsed(a)
             /\ stage'[a] \in {"cache", "ok"} => snapshot[a] = scanned[a]
             /\ stage'[a] \notin {"cache", "ok"} => snapshot[a] = NoSchema
             /\ a \in {base, wanted} => stage'[a] # "none"
  BY <1>1 DEF UploadsOK, Parsed
<1>3. ASSUME NEW a \in Bases, a \in {base', wanted'} PROVE stage'[a] # "none"
  BY <1>2, <1>3, SchemaAssumption
<1>4. wanted' \in Bases \cup {NoBase}
  BY <1>1 DEF UploadsOK
<1> QED BY <1>1, <1>2, <1>3, <1>4 DEF UploadsOK

LEMMA UploadFailsKeeps ==
    ASSUME Inv, NEW b \in Bases, UploadFails(b)
    PROVE  Inv'
<1> USE DEF Inv
<1>1. /\ stage[b] \in {"scan", "save"} /\ stage' = [stage EXCEPT ![b] = "failed"]
      /\ UNCHANGED <<base, wanted, dump, scanned, snapshot, cache>>
  BY DEF UploadFails
<1>2. stage' \in [Bases -> Stages]
  BY <1>1 DEF UploadsOK, Stages
<1>3. ASSUME NEW a \in Bases
      PROVE  \/ stage'[a] = stage[a]
             \/ stage[a] = "cache" /\ stage'[a] = "ok"
             \/ stage[a] \in {"switch", "scan", "save"} /\ stage'[a] = "failed"
  BY <1>1 DEF UploadsOK
<1>4. UploadsOK'
  <2>1. LosesUploads
    BY <1>1, <1>2, <1>3 DEF LosesUploads
  <2> QED BY <2>1, LostUploadKeeps
<1>5. QuestionsOK' /\ CacheOK'
  BY <1>1, QuestionsKept, CacheKept DEF UploadFails, Stored
<1>6. faults' \in 0..MaxFaults
  BY FaultsKept DEF UploadFails
<1> QED BY <1>4, <1>5, <1>6

LEMMA ExpireKeeps ==
    ASSUME Inv, NEW b \in Bases, Expire(b)
    PROVE  Inv'
<1> USE DEF Inv
<1> DEFINE old == [cache[b] EXCEPT !.age = "expired"]
<1>1. cache[b].age = "fresh" /\ cache' = [cache EXCEPT ![b] = old]
  BY DEF Expire
<1>2. old \in Entry /\ old.schema = cache[b].schema /\ old.age = "expired"
  BY DEF CacheOK, Entry
<1>3. UNCHANGED <<base, wanted, dump, stage, scanned, snapshot, faults>>
  BY DEF Expire, uploadVars
<1>4. CacheOK'
  <2> HIDE DEF old
  <2> QED BY <1>1, <1>2, <1>3 DEF CacheOK, CachedIsStored
<1>5. UploadsOK'
  BY <1>3 DEF UploadsOK, Parsed
<1>6. QuestionsOK'
  BY <1>3, QuestionsKept DEF Expire, Stored
<1> QED BY <1>3, <1>4, <1>5, <1>6

-----------------------------------------------------------------------------
(* Questions (NL2SQLAgent.run).                                            *)

\* What QuestionsOK says of one question.
QuestionOK(q) ==
    /\ pc[q] \in Places
    /\ chosen[q] \in Bases \cup {NoBase}
    /\ used[q] \in Schemas \cup {NoSchema}
    /\ status[q] \in Statuses
    /\ logged[q] \in [base : Bases \cup {NoBase}, status : Statuses]
    /\ pc[q] \in {"asked", "load", "loaded"} => status[q] = "none"
    /\ pc[q] \in {"asked", "load", "loaded", "log"} => logged[q] = NoLog
    /\ pc[q] = "log" => status[q] \in {"preview", "rejected"}
    /\ pc[q] \in {"load", "loaded", "log"} => chosen[q] \in Bases
    /\ pc[q] = "loaded" => used[q] \in {NoSchema, snapshot[chosen[q]]}
    /\ status[q] \in {"preview", "rejected"} =>
          /\ chosen[q] \in Bases
          /\ used[q] # NoSchema /\ used[q] = snapshot[chosen[q]]
    /\ logged[q] # NoLog =>
          /\ logged[q].base = chosen[q]
          /\ logged[q].status \in {"preview", "rejected"}
          /\ status[q] \in {logged[q].status, "error"}

Domains ==
    /\ pc = [q \in Questions |-> pc[q]] /\ chosen = [q \in Questions |-> chosen[q]]
    /\ used = [q \in Questions |-> used[q]] /\ status = [q \in Questions |-> status[q]]
    /\ logged = [q \in Questions |-> logged[q]]

LEMMA OneByOne == QuestionsOK => Domains /\ \A q \in Questions : QuestionOK(q)
<1>1. QuestionsOK => Domains
  BY DEF QuestionsOK, Domains
<1>2. QuestionsOK => \A q \in Questions : QuestionOK(q)
  BY DEF QuestionsOK, QuestionOK
<1> QED BY <1>1, <1>2

\* A step of question q: the other questions, and the store, are as they were.
Alone(q) ==
    /\ \A p \in Questions \ {q} :
          /\ pc'[p] = pc[p] /\ chosen'[p] = chosen[p] /\ used'[p] = used[p]
          /\ status'[p] = status[p] /\ logged'[p] = logged[p]
    /\ Domains'

LEMMA OneQuestion ==
    ASSUME QuestionsOK, NEW q \in Questions, Alone(q), UNCHANGED snapshot, QuestionOK(q)'
    PROVE  QuestionsOK'
<1>1. ASSUME NEW p \in Questions \ {q} PROVE QuestionOK(p)'
  <2>1. QuestionOK(p)
    BY OneByOne
  <2> QED BY <2>1 DEF QuestionOK, Alone, NoLog
<1>2. \A p \in Questions : QuestionOK(p)'
  BY <1>1
<1>3. /\ pc' \in [Questions -> Places] /\ chosen' \in [Questions -> Bases \cup {NoBase}]
      /\ used' \in [Questions -> Schemas \cup {NoSchema}]
      /\ status' \in [Questions -> Statuses]
      /\ logged' \in [Questions -> [base : Bases \cup {NoBase}, status : Statuses]]
  BY <1>2 DEF Alone, Domains, QuestionOK
<1> QED BY <1>2, <1>3 DEF QuestionsOK, QuestionOK

LEMMA GenerateStep ==
    ASSUME Inv, NEW q \in Questions, NEW schema \in Schemas, Generate(q, schema)
    PROVE  /\ faults' \in 0..MaxFaults
           /\ \/ /\ pc' = [pc EXCEPT ![q] = "log"]
                 /\ used' = [used EXCEPT ![q] = schema]
                 /\ \E s \in {"preview", "rejected"} : status' = [status EXCEPT ![q] = s]
              \/ /\ pc' = [pc EXCEPT ![q] = "answered"]
                 /\ used' = used
                 /\ status' = [status EXCEPT ![q] = "error"]
<1>1. faults' \in 0..MaxFaults
  BY FaultsKept DEF Inv, Generate
<1>2. CASE \E s \in {IF IsValid(sql) THEN "preview" ELSE "rejected" : sql \in Sqls} :
              /\ pc' = [pc EXCEPT ![q] = "log"]
              /\ used' = [used EXCEPT ![q] = schema]
              /\ status' = [status EXCEPT ![q] = s]
              /\ UNCHANGED faults
  BY <1>1, <1>2
<1>3. CASE /\ CanFail
           /\ pc' = [pc EXCEPT ![q] = "answered"]
           /\ status' = [status EXCEPT ![q] = "error"]
           /\ UNCHANGED used
  BY <1>1, <1>3
<1> QED BY <1>2, <1>3 DEF Generate

LEMMA ReadActiveKeeps ==
    ASSUME Inv, NEW q \in Questions, ReadActive(q)
    PROVE  Inv'
<1>1. /\ QuestionsOK /\ Domains /\ QuestionOK(q) /\ UploadsOK /\ CacheOK
      /\ faults \in 0..MaxFaults
  BY OneByOne DEF Inv
<1>2. /\ pc[q] = "asked" /\ chosen' = [chosen EXCEPT ![q] = base]
      /\ base' = base /\ wanted' = wanted /\ dump' = dump /\ stage' = stage
      /\ scanned' = scanned /\ snapshot' = snapshot
      /\ cache' = cache /\ logged' = logged
  BY DEF ReadActive, uploadVars
<1>3. UploadsOK' /\ CacheOK'
  BY <1>1, <1>2, CacheKept DEF UploadsOK, Parsed
<1>4. base \in Bases \cup {NoBase} /\ logged[q] = NoLog /\ status[q] = "none"
  BY <1>1, <1>2 DEF UploadsOK, QuestionOK
<1>5. CASE base = NoBase /\ ReplyAtOnce(q, "no_active_connection")
  <2>1. /\ pc' = [pc EXCEPT ![q] = "answered"] /\ used' = used /\ faults' = faults
        /\ status' = [status EXCEPT ![q] = "no_active_connection"]
    BY <1>5 DEF ReplyAtOnce
  <2>2. Alone(q)
    BY <1>1, <1>2, <2>1 DEF Alone, Domains
  <2>3. QuestionOK(q)'
    BY <1>1, <1>2, <1>4, <2>1 DEF QuestionOK, Domains, Places, Statuses, NoLog
  <2> QED BY <1>1, <1>2, <1>3, <2>1, <2>2, <2>3, OneQuestion DEF Inv
<1>6. CASE base # NoBase /\ cache[base].age = "fresh" /\ Generate(q, cache[base].schema)
  <2>1. base \in Bases /\ cache[base].schema = snapshot[base]
    BY <1>1, <1>4, <1>6 DEF CacheOK, CachedIsStored
  <2>2. cache[base].schema \in Schemas /\ cache[base].schema # NoSchema
    <3>1. cache[base].schema # NoSchema
      BY <1>1, <1>6, <2>1 DEF CacheOK
    <3>2. cache[base].schema \in Schemas \cup {NoSchema}
      BY <1>1, <2>1 DEF UploadsOK
    <3> QED BY <3>1, <3>2
  <2> DEFINE schema == cache[base].schema
  <2>3. /\ faults' \in 0..MaxFaults
        /\ \/ /\ pc' = [pc EXCEPT ![q] = "log"]
              /\ used' = [used EXCEPT ![q] = schema]
              /\ \E s \in {"preview", "rejected"} : status' = [status EXCEPT ![q] = s]
           \/ /\ pc' = [pc EXCEPT ![q] = "answered"]
              /\ used' = used
              /\ status' = [status EXCEPT ![q] = "error"]
    BY <1>6, <2>2, GenerateStep
  <2>4. Alone(q)
    BY <1>1, <1>2, <2>3 DEF Alone, Domains
  <2>5. QuestionOK(q)'
    BY <1>1, <1>2, <1>4, <2>1, <2>2, <2>3 DEF QuestionOK, Domains, Places, Statuses, NoLog
  <2> QED BY <1>1, <1>2, <1>3, <2>3, <2>4, <2>5, OneQuestion DEF Inv
<1>7. CASE /\ base # NoBase /\ pc' = [pc EXCEPT ![q] = "load"]
           /\ UNCHANGED <<used, status, faults>>
  <2>1. Alone(q)
    BY <1>1, <1>2, <1>7 DEF Alone, Domains
  <2>2. QuestionOK(q)'
    BY <1>1, <1>2, <1>4, <1>7 DEF QuestionOK, Domains, Places, Statuses, NoLog
  <2> QED BY <1>1, <1>2, <1>3, <1>7, <2>1, <2>2, OneQuestion DEF Inv
<1> QED BY <1>5, <1>6, <1>7 DEF ReadActive

LEMMA LoadSchemaKeeps ==
    ASSUME Inv, NEW q \in Questions, LoadSchema(q)
    PROVE  Inv'
<1>1. /\ QuestionsOK /\ Domains /\ QuestionOK(q) /\ UploadsOK /\ CacheOK
      /\ faults \in 0..MaxFaults
  BY OneByOne DEF Inv
<1>2. /\ pc[q] = "load" /\ pc' = [pc EXCEPT ![q] = "loaded"]
      /\ used' = [used EXCEPT ![q] = snapshot[chosen[q]]]
      /\ base' = base /\ wanted' = wanted /\ dump' = dump /\ stage' = stage
      /\ scanned' = scanned /\ snapshot' = snapshot /\ cache' = cache
      /\ chosen' = chosen /\ status' = status /\ logged' = logged /\ faults' = faults
  BY DEF LoadSchema, uploadVars
<1>3. UploadsOK' /\ CacheOK'
  BY <1>1, <1>2, CacheKept DEF UploadsOK, Parsed
<1>4. Alone(q)
  BY <1>1, <1>2 DEF Alone, Domains
<1>5. chosen[q] \in Bases /\ snapshot[chosen[q]] \in Schemas \cup {NoSchema}
  BY <1>1, <1>2 DEF QuestionOK, UploadsOK
<1>6. QuestionOK(q)'
  BY <1>1, <1>2, <1>5 DEF QuestionOK, Domains, Places, NoLog
<1> QED BY <1>1, <1>2, <1>3, <1>4, <1>6, OneQuestion DEF Inv

LEMMA UseLoadedKeeps ==
    ASSUME Inv, NEW q \in Questions, UseLoaded(q)
    PROVE  Inv'
<1>1. /\ QuestionsOK /\ Domains /\ QuestionOK(q) /\ UploadsOK /\ CacheOK
      /\ faults \in 0..MaxFaults
  BY OneByOne DEF Inv
<1>2. /\ pc[q] = "loaded" /\ chosen' = chosen /\ logged' = logged
      /\ base' = base /\ wanted' = wanted /\ dump' = dump /\ stage' = stage
      /\ scanned' = scanned /\ snapshot' = snapshot
  BY DEF UseLoaded, uploadVars
<1>3. UploadsOK'
  BY <1>1, <1>2 DEF UploadsOK, Parsed
<1>4. /\ chosen[q] \in Bases /\ used[q] \in {NoSchema, snapshot[chosen[q]]}
      /\ used[q] \in Schemas \cup {NoSchema}
      /\ logged[q] = NoLog /\ status[q] = "none"
  BY <1>1, <1>2 DEF QuestionOK
<1>5. CASE used[q] = NoSchema /\ ReplyAtOnce(q, "no_schema") /\ cache' = cache
  <2>1. /\ pc' = [pc EXCEPT ![q] = "answered"] /\ used' = used /\ faults' = faults
        /\ status' = [status EXCEPT ![q] = "no_schema"]
    BY <1>5 DEF ReplyAtOnce
  <2>2. Alone(q)
    BY <1>1, <1>2, <2>1 DEF Alone, Domains
  <2>3. QuestionOK(q)'
    BY <1>1, <1>2, <1>4, <2>1 DEF QuestionOK, Domains, Places, Statuses, NoLog
  <2>4. CacheOK'
    BY <1>1, <1>2, <1>5, CacheKept
  <2> QED BY <1>1, <1>2, <1>3, <2>1, <2>2, <2>3, <2>4, OneQuestion DEF Inv
<1>6. CASE /\ used[q] # NoSchema
           /\ cache' = [cache EXCEPT ![chosen[q]] = [schema |-> used[q], age |-> "fresh"]]
           /\ Generate(q, used[q])
  <2>1. used[q] \in Schemas /\ used[q] = snapshot[chosen[q]]
    BY <1>4, <1>6
  <2>2. CacheOK'
    <3>1. cache' \in [Bases -> Entry]
      BY <1>1, <1>6, <2>1 DEF CacheOK, Entry
    <3> QED BY <1>1, <1>2, <1>4, <1>6, <2>1, <3>1 DEF CacheOK, CachedIsStored
  <2>3. /\ faults' \in 0..MaxFaults
        /\ \/ /\ pc' = [pc EXCEPT ![q] = "log"]
              /\ used' = [used EXCEPT ![q] = used[q]]
              /\ \E s \in {"preview", "rejected"} : status' = [status EXCEPT ![q] = s]
           \/ /\ pc' = [pc EXCEPT ![q] = "answered"]
              /\ used' = used
              /\ status' = [status EXCEPT ![q] = "error"]
    BY <1>6, <2>1, GenerateStep
  <2>4. Alone(q)
    BY <1>1, <1>2, <2>3 DEF Alone, Domains
  <2>5. QuestionOK(q)'
    BY <1>1, <1>2, <1>4, <1>6, <2>1, <2>3 DEF QuestionOK, Domains, Places, Statuses, NoLog
  <2> QED BY <1>1, <1>2, <1>3, <2>2, <2>3, <2>4, <2>5, OneQuestion DEF Inv
<1> QED BY <1>5, <1>6 DEF UseLoaded

LEMMA LogKeeps ==
    ASSUME Inv, NEW q \in Questions, Log(q)
    PROVE  Inv'
<1>1. /\ QuestionsOK /\ Domains /\ QuestionOK(q) /\ UploadsOK /\ CacheOK
      /\ faults \in 0..MaxFaults
  BY OneByOne DEF Inv
<1>2. /\ pc[q] = "log" /\ pc' = [pc EXCEPT ![q] = "answered"]
      /\ logged' = Logged(q, chosen[q]) \/ logged' = logged
      /\ status' = status \/ status' = [status EXCEPT ![q] = "error"]
      /\ chosen' = chosen /\ used' = used /\ cache' = cache
      /\ base' = base /\ wanted' = wanted /\ dump' = dump /\ stage' = stage
      /\ scanned' = scanned /\ snapshot' = snapshot
  BY DEF Log, uploadVars
<1>3. UploadsOK' /\ CacheOK'
  BY <1>1, <1>2, CacheKept DEF UploadsOK, Parsed
<1>4. faults' \in 0..MaxFaults
  BY <1>1, FaultsKept DEF Log
<1>5. Alone(q)
  BY <1>1, <1>2 DEF Alone, Domains, Logged
<1>6. QuestionOK(q)'
  <2>1. [base |-> chosen[q], status |-> status[q]]
           \in [base : Bases \cup {NoBase}, status : Statuses]
    BY <1>1 DEF QuestionOK
  <2>2. logged'[q] = [base |-> chosen[q], status |-> status[q]] \/ logged'[q] = NoLog
    BY <1>1, <1>2 DEF Logged, Domains, QuestionOK
  <2>3. pc'[q] = "answered" /\ status'[q] \in {status[q], "error"}
        /\ status[q] \in {"preview", "rejected"}
    BY <1>1, <1>2 DEF Domains, QuestionOK
  <2>4. status'[q] \in Statuses
    BY <1>1, <2>3 DEF QuestionOK, Statuses
  <2>5. logged'[q] # NoLog =>
          /\ logged'[q].base = chosen[q]
          /\ logged'[q].status \in {"preview", "rejected"}
          /\ status'[q] \in {logged'[q].status, "error"}
    BY <2>2, <2>3
  <2>6. logged'[q] \in [base : Bases \cup {NoBase}, status : Statuses]
    BY <1>1, <1>2, <2>1, <2>2 DEF QuestionOK
  <2> QED BY <1>1, <1>2, <2>3, <2>4, <2>5, <2>6 DEF QuestionOK, Places
<1> QED BY <1>1, <1>2, <1>3, <1>4, <1>5, <1>6, OneQuestion DEF Inv

LEMMA RestartKeeps ==
    ASSUME Inv, Restart
    PROVE  Inv'
<1>1. UploadsOK'
  <2>1. stage' \in [Bases -> Stages]
    BY DEF Restart, Inv, UploadsOK, Stages
  <2>2. LosesUploads
    BY <2>1 DEF Restart, LosesUploads
  <2> QED BY <2>2, LostUploadKeeps
<1>2. CacheOK'
  BY DEF Restart, Empty, Entry, CacheOK, CachedIsStored
<1>3. QuestionsOK'
  BY DEF Restart, Inv, QuestionsOK, Places, NoLog
<1>4. faults' \in 0..MaxFaults
  BY FaultsKept DEF Restart, Inv
<1> QED BY <1>1, <1>2, <1>3, <1>4 DEF Inv

LEMMA NextKeeps ==
    ASSUME Inv, [Next]_vars
    PROVE  Inv'
<1>1. CASE UNCHANGED vars
  BY <1>1, CacheKept, QuestionsKept
     DEF Inv, UploadsOK, Parsed, Stored, vars, uploadVars, questionVars
<1>2. CASE \/ \E b \in Bases : BeginUpload(b) \/ PostConnector(b) \/ BeginToggle(b)
           \/ DropOthers \/ SelectWanted \/ TurnOff
  BY <1>2, SwitchKeeps
<1>3. CASE \E b \in Bases :
              Scan(b) \/ SaveSchema(b) \/ SetCache(b) \/ UploadFails(b) \/ Expire(b)
  BY <1>3, ScanKeeps, SaveKeeps, SetCacheKeeps, UploadFailsKeeps, ExpireKeeps
<1>4. CASE \E q \in Questions : ReadActive(q) \/ LoadSchema(q) \/ UseLoaded(q) \/ Log(q)
  BY <1>4, ReadActiveKeeps, LoadSchemaKeeps, UseLoadedKeeps, LogKeeps
<1>5. CASE Restart
  BY <1>5, RestartKeeps
<1> QED BY <1>1, <1>2, <1>3, <1>4, <1>5 DEF Next

LEMMA AlwaysInv == Spec => []Inv
<1>1. Init => Inv
  BY InitInv
<1>2. Inv /\ [Next]_vars => Inv'
  BY NextKeeps
<1> QED BY <1>1, <1>2, PTL DEF Spec

\* A base whose upload has begun is made of a dump.
WhoseDump == \A b \in Bases : stage[b] \notin {"none", "posted"} => dump[b] \in Dumps

LEMMA WhoseDumpKept ==
    ASSUME Inv, WhoseDump, [Next]_vars
    PROVE  WhoseDump'
<1> USE DEF WhoseDump
<1>1. stage \in [Bases -> Stages] /\ dump \in [Bases -> Dumps \cup {NoDump}]
      /\ wanted \in Bases \cup {NoBase}
  BY DEF Inv, UploadsOK
<1>2. CASE UNCHANGED <<dump, stage>>
  BY <1>2
<1>3. ASSUME NEW b \in Bases, BeginUpload(b) PROVE WhoseDump'
  <2>1. PICK d \in Dumps : dump' = [dump EXCEPT ![b] = d]
    BY <1>3 DEF BeginUpload
  <2> QED BY <1>1, <1>3, <2>1 DEF BeginUpload
<1>4. ASSUME NEW b \in Bases,
             Scan(b) \/ SaveSchema(b) \/ SetCache(b) \/ UploadFails(b)
      PROVE  WhoseDump'
  BY <1>1, <1>4 DEF Scan, SaveSchema, SetCache, UploadFails
<1>5. CASE SelectWanted
  BY <1>1, <1>5 DEF SelectWanted
<1>10. ASSUME NEW b \in Bases, PostConnector(b) PROVE WhoseDump'
  BY <1>1, <1>10 DEF PostConnector
<1>6. CASE Restart
  BY <1>6 DEF Restart
<1>7. CASE \/ \E b \in Bases : BeginToggle(b) \/ Expire(b)
           \/ DropOthers \/ TurnOff
  BY <1>2, <1>7 DEF BeginToggle, Expire, DropOthers, TurnOff, uploadVars
<1>8. CASE \E q \in Questions : ReadActive(q) \/ LoadSchema(q) \/ UseLoaded(q) \/ Log(q)
  BY <1>2, <1>8 DEF ReadActive, LoadSchema, UseLoaded, Log, uploadVars
<1>9. CASE UNCHANGED vars
  BY <1>2, <1>9 DEF vars, uploadVars
<1> QED BY <1>3, <1>4, <1>5, <1>6, <1>7, <1>8, <1>9, <1>10 DEF Next

-----------------------------------------------------------------------------
(* Theorems.                                                               *)

\* Uploads, the store, the cache and the questions have their types through
\* overlaps, failures and restarts (schema_cache.py, dump upload, NL2SQLAgent.run).
THEOREM TypeInvariant == Spec => []TypeOK
<1>1. Inv => TypeOK
  BY InvImplies
<1> QED BY <1>1, AlwaysInv, PTL

\* The cache never replaces the store: what it holds of a base is its snapshot,
\* although get_or_load reads the store and sets the cache in two steps and an
\* upload may store in between (schema_cache.py).
THEOREM CacheSafe == Spec => []CachedIsStored
<1>1. Inv => CachedIsStored
  BY InvImplies
<1> QED BY <1>1, AlwaysInv, PTL

\* A row of the execution log says what was generated, under the base the question was
\* about, which is what is answered unless the log fails past its commit
\* (orchestrator.py, query_logger.py).
THEOREM LogsSafe == Spec => []LogsTellTheAnswer
<1>1. Inv => LogsTellTheAnswer
  BY InvImplies
<1> QED BY <1>1, AlwaysInv, PTL

\* An active base has no schema only while its upload runs, after that failed or when it
\* never had one (dump upload, POST /connectors: a base is enabled before it is scanned).
THEOREM BlindSafe == Spec => []BlindOnlyUnscanned
<1>1. Inv => BlindOnlyUnscanned
  <2> SUFFICES ASSUME Inv, base # NoBase, snapshot[base] = NoSchema
               PROVE  stage[base] \in {"posted", "switch", "scan", "save", "failed"}
    BY DEF BlindOnlyUnscanned
  <2>1. base \in Bases /\ stage[base] \in Stages /\ stage[base] # "none"
    BY DEF Inv, UploadsOK
  <2>2. stage[base] \notin {"cache", "ok"}
    BY <2>1, SchemaAssumption DEF Inv, UploadsOK
  <2> QED BY <2>1, <2>2 DEF Stages
<1> QED BY <1>1, AlwaysInv, PTL

\* Every dump is a list of statements, comments and empty statements, and its tables are
\* those of the statements that SQLite executes.
DumpsAreWritten ==
    \A d \in Dumps :
        \E pieces \in Seq(Seq(STRING)) : \E literals :
            \E rest \in [0..Len(pieces) -> Seq(STRING)] :
                /\ MadeOf(TextOf[d], pieces, literals, rest)
                /\ TablesOf[d] = WrittenTables(pieces, EngineOf(d))

\* Of such dumps, every generated query was generated from the tables of the dump of
\* the base it is about: the parser takes no comment or literal for a statement, nor two
\* statements for one, and the uploads, switches, cache and restarts around it no base
\* for another (DumpParser, SchemaStore, SchemaCache, NL2SQLAgent.run).
THEOREM AnswersSafe == DumpsAreWritten /\ Spec => []AnsweredFromItsDump
<1> SUFFICES ASSUME DumpsAreWritten PROVE Spec => []AnsweredFromItsDump
  OBVIOUS
<1>0. ASSUME NEW d \in Dumps PROVE ScannedTables(TextOf[d], EngineOf(d)) = TablesOf[d]
  <2>1. PICK pieces \in Seq(Seq(STRING)) :
            \E literals : \E rest \in [0..Len(pieces) -> Seq(STRING)] :
                /\ MadeOf(TextOf[d], pieces, literals, rest)
                /\ TablesOf[d] = WrittenTables(pieces, EngineOf(d))
    BY DEF DumpsAreWritten
  <2>2. PICK literals :
            \E rest \in [0..Len(pieces) -> Seq(STRING)] :
                /\ MadeOf(TextOf[d], pieces, literals, rest)
                /\ TablesOf[d] = WrittenTables(pieces, EngineOf(d))
    BY <2>1
  <2> QED BY <2>2, ScansInTurn
<1>1. Init => Inv /\ WhoseDump
  BY InitInv DEF Init, WhoseDump
<1>2. Inv /\ WhoseDump /\ [Next]_vars => WhoseDump'
  BY WhoseDumpKept
<1>3. Inv /\ WhoseDump => AnsweredFromItsDump
  <2> SUFFICES ASSUME Inv, WhoseDump, NEW q \in Questions,
                      status[q] \in {"preview", "rejected"}
               PROVE  used[q] = TablesOf[dump[chosen[q]]]
    BY DEF AnsweredFromItsDump
  <2> DEFINE b == chosen[q]
  <2>1. b \in Bases /\ used[q] # NoSchema /\ used[q] = snapshot[b]
    BY DEF Inv, QuestionsOK
  <2>2. stage[b] \in {"cache", "ok"} /\ used[q] = Parsed(b) /\ dump[b] \in Dumps
    BY <2>1 DEF Inv, UploadsOK, WhoseDump
  <2> QED BY <1>0, <2>2 DEF Parsed
<1>4. Inv /\ [Next]_vars => Inv'
  BY NextKeeps
<1> QED BY <1>1, <1>2, <1>3, <1>4, PTL DEF Spec
=============================================================================
