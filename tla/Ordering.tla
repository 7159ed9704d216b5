------------------------------ MODULE Ordering ------------------------------
(***************************************************************************)
(* Sorting, filtering and adding up, as the Python of the application does *)
(* with sorted, list comprehensions and sum.  The order of a sort is a set *)
(* of pairs, and a position is found by counting what comes before it, so  *)
(* that the facts in OrderingProofs can be proved about them: SortSeq and  *)
(* SelectSeq are opaque to the provers.                                    *)
(***************************************************************************)
EXTENDS Integers, Sequences, FiniteSets, SequencesExt

\* sorted(S): the elements of S, each after all those before it in the order R.
Sorted(S, R) ==
    [i \in 1..Cardinality(S) |->
        CHOOSE a \in S : Cardinality({b \in S : <<b, a>> \in R}) = i - 1]

\* R orders the elements of S: no two are equal in it.
Orders(R, S) ==
    /\ \A a \in S : <<a, a>> \notin R
    /\ \A a, b \in S : a # b => <<a, b>> \in R \/ <<b, a>> \in R
    /\ \A a, b, c \in S : <<a, b>> \in R /\ <<b, c>> \in R => <<a, c>> \in R

\* Where c is in the list, the first time.
Rank(list, c) ==
    CHOOSE i \in DOMAIN list : list[i] = c /\ \A j \in 1..(i - 1) : list[j] # c

Before(list) ==
    {p \in ToSet(list) \X ToSet(list) : Rank(list, p[1]) < Rank(list, p[2])}

\* sort(key=value, reverse=True): the highest value first, and equals in the order R.
Descending(value, R) ==
    {p \in (DOMAIN value) \X (DOMAIN value) :
        value[p[1]] > value[p[2]] \/ (value[p[1]] = value[p[2]] /\ p \in R)}

\* [c for c in list if c in S], of a list without duplicates.
Keep(list, S) == Sorted(ToSet(list) \cap S, Before(list))

\* sum(numbers)
Total(numbers) ==
    LET sum[n \in 0..Len(numbers)] == IF n = 0 THEN 0 ELSE sum[n - 1] + numbers[n]
    IN  sum[Len(numbers)]
=============================================================================
