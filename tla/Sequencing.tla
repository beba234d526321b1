------------------------------- MODULE Sequencing -------------------------------
(***************************************************************************)
(* The list comprehensions and the sorts of the code, as functions of a    *)
(* list and of a set: what the filter lets through, or which of two places *)
(* comes first.                                                            *)
(***************************************************************************)
EXTENDS Integers, Sequences, FiniteSets

\* The members of D in an order: the k-th has k - 1 before it.
Ranked(D, before) ==
    [k \in 1..Cardinality(D) |->
        CHOOSE i \in D : Cardinality({j \in D : <<j, i>> \in before}) = k - 1]

\* `[one for one in s if ..]`: what stands at some places, in the order it stands in.
Those(s, at) ==
    LET order == Ranked(at, {p \in at \X at : p[1] < p[2]})
    IN  [k \in 1..Cardinality(at) |-> s[order[k]]]

\* `[one for one in s if Good(one)]`.
Such(s, Good(_)) == Those(s, {i \in DOMAIN s : Good(s[i])})

\* `sorted`: before says of which two places the first comes first.
Arranged(s, before) ==
    LET order == Ranked(DOMAIN s, before) IN [k \in DOMAIN s |-> s[order[k]]]

\* `sorted` by a key: what has the same one stays in the order it was in.
SortedBy(s, Sooner(_, _)) ==
    Arranged(s, {p \in (DOMAIN s) \X (DOMAIN s) :
        Sooner(s[p[1]], s[p[2]]) \/ (p[1] < p[2] /\ ~Sooner(s[p[2]], s[p[1]]))})
=============================================================================
