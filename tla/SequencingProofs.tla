-------------------------- MODULE SequencingProofs --------------------------
(***************************************************************************)
(* What Those and Arranged of Sequencing, FoldLeft and FlattenSeq return,  *)
(* for lists of any length; the other proofs cite it where the code        *)
(* filters, sorts, joins or loops.                                         *)
(***************************************************************************)
EXTENDS Sequencing, SequencesExt, FiniteSetTheorems, FunctionTheorems, SequenceTheorems,
        WellFoundedInduction, TLAPS

-----------------------------------------------------------------------------
(* Orders.                                                                 *)

\* R is a strict and total order of D.
IsOrder(R, D) ==
    /\ \A i \in D : <<i, i>> \notin R
    /\ \A i, j \in D : i # j => (<<i, j>> \in R <=> <<j, i>> \notin R)
    /\ \A i, j, k \in D : <<i, j>> \in R /\ <<j, k>> \in R => <<i, k>> \in R

\* e counts D up in that order.
Enumerates(e, D, R) ==
    /\ e \in [1..Cardinality(D) -> D]
    /\ \A i \in D : \E k \in 1..Cardinality(D) : e[k] = i
    /\ \A k, l \in 1..Cardinality(D) : k < l <=> <<e[k], e[l]>> \in R

\* Who comes later has more before it.
LEMMA RankGrows ==
  ASSUME NEW D, IsFiniteSet(D), NEW R, IsOrder(R, D), NEW i \in D, NEW j \in D, <<i, j>> \in R
  PROVE  Cardinality({x \in D : <<x, i>> \in R}) < Cardinality({x \in D : <<x, j>> \in R})
<1> DEFINE A == {x \in D : <<x, i>> \in R}
           B == {x \in D : <<x, j>> \in R}
<1>1. A \subseteq B /\ i \in B /\ i \notin A
  BY DEF IsOrder
<1>2. IsFiniteSet(B) /\ IsFiniteSet(A)
  BY FS_Subset
<1> HIDE DEF A, B
<1>3. Cardinality(A) <= Cardinality(B) /\ Cardinality(A) # Cardinality(B)
  BY <1>1, <1>2, FS_Subset
<1>4. Cardinality(A) \in Nat /\ Cardinality(B) \in Nat
  BY <1>2, FS_CardinalityType
<1>5. Cardinality(A) < Cardinality(B)
  BY <1>3, <1>4
<1> QED BY <1>5 DEF A, B

\* A finite set in an order is counted up by Ranked.
THEOREM RankedEnumerates ==
  ASSUME NEW D, IsFiniteSet(D), NEW R, IsOrder(R, D)
  PROVE  Enumerates(Ranked(D, R), D, R)
<1> DEFINE n == Cardinality(D)
           rank(i) == Cardinality({x \in D : <<x, i>> \in R})
           f == [i \in D |-> rank(i) + 1]
           e == Ranked(D, R)
<1>1. n \in Nat
  BY FS_CardinalityType
<1>2. ASSUME NEW i \in D PROVE rank(i) \in Nat /\ rank(i) < n
  <2> DEFINE A == {x \in D : <<x, i>> \in R}
  <2>1. A \subseteq D /\ i \notin A
    BY DEF IsOrder
  <2> HIDE DEF A
  <2>2. IsFiniteSet(A) /\ Cardinality(A) <= Cardinality(D) /\ Cardinality(A) # Cardinality(D)
    BY <2>1, FS_Subset
  <2>3. Cardinality(A) \in Nat
    BY <2>2, FS_CardinalityType
  <2>4. Cardinality(A) \in Nat /\ Cardinality(A) < n
    BY <1>1, <2>2, <2>3
  <2> QED BY <2>4 DEF A
<1>3. ASSUME NEW i \in D, NEW j \in D PROVE rank(i) < rank(j) <=> <<i, j>> \in R
  <2> HIDE DEF rank
  <2>1. <<i, j>> \in R => rank(i) < rank(j)
    BY RankGrows DEF rank
  <2>2. <<j, i>> \in R => rank(j) < rank(i)
    BY RankGrows DEF rank
  <2>3. rank(i) \in Nat /\ rank(j) \in Nat
    BY <1>2
  <2> QED BY <2>1, <2>2, <2>3 DEF IsOrder
<1> HIDE DEF rank, n
<1>4. f \in Surjection(D, 1..n)
  <2>1. f \in [D -> 1..n]
    BY <1>1, <1>2
  <2>2. ASSUME NEW i \in D, NEW j \in D, f[i] = f[j] PROVE i = j
    <3>1. rank(i) = rank(j)
      BY <1>2, <2>2
    <3>2. ~(rank(i) < rank(j)) /\ ~(rank(j) < rank(i))
      BY <1>2, <3>1
    <3> HIDE DEF f
    <3> QED BY <1>3, <3>2 DEF IsOrder
  <2>3. f \in Injection(D, 1..n)
    <3> HIDE DEF f
    <3> QED BY <2>1, <2>2, Fun_IsInj
  <2>4. IsFiniteSet(1..n) /\ Cardinality(1..n) = n
    BY <1>1, FS_Interval
  <2> QED
    <3> HIDE DEF f
    <3> QED BY <2>3, <2>4, FS_Injection DEF n
<1>5. ASSUME NEW k \in 1..n PROVE e[k] \in D /\ rank(e[k]) = k - 1
  <2>1. e[k] = CHOOSE i \in D : rank(i) = k - 1
    BY DEF Ranked, rank, n
  <2>2. PICK i \in D : f[i] = k
    <3> HIDE DEF f
    <3> QED BY <1>4 DEF Surjection
  <2>3. rank(i) = k - 1
    BY <1>2, <2>2
  <2> HIDE DEF e
  <2> QED BY <2>1, <2>3
<1>6. e \in [1..n -> D]
  <2> DEFINE pick(k) == CHOOSE i \in D : Cardinality({j \in D : <<j, i>> \in R}) = k - 1
  <2>1. e = [k \in 1..n |-> pick(k)]
    BY DEF Ranked, n
  <2> HIDE DEF e, pick
  <2>2. \A k \in 1..n : pick(k) \in D
    BY <1>5, <2>1
  <2> QED BY <2>1, <2>2
<1>7. ASSUME NEW i \in D PROVE \E k \in 1..n : e[k] = i
  <2>1. rank(i) + 1 \in 1..n
    BY <1>1, <1>2
  <2>2. rank(e[rank(i) + 1]) = rank(i) /\ e[rank(i) + 1] \in D
    <3> HIDE DEF e
    <3> QED BY <1>2, <1>5, <2>1
  <2>3. e[rank(i) + 1] = i
    <3> DEFINE j == e[rank(i) + 1]
    <3>1. j \in D /\ rank(j) = rank(i) /\ rank(i) \in Nat
      BY <1>2, <2>2
    <3> HIDE DEF e, j
    <3>2. ~(rank(i) < rank(j)) /\ ~(rank(j) < rank(i))
      BY <3>1
    <3>3. <<i, j>> \notin R /\ <<j, i>> \notin R
      BY <1>3, <3>1, <3>2
    <3>4. i = j
      BY <3>1, <3>3 DEF IsOrder
    <3> QED BY <3>4 DEF j
  <2> QED BY <2>1, <2>3
<1>8. ASSUME NEW k \in 1..n, NEW l \in 1..n PROVE k < l <=> <<e[k], e[l]>> \in R
  <2> HIDE DEF e
  <2>1. k < l <=> rank(e[k]) < rank(e[l])
    BY <1>1, <1>5
  <2> QED BY <1>3, <1>5, <2>1
<1> HIDE DEF e
<1> QED BY <1>6, <1>7, <1>8 DEF Enumerates, n, e

-----------------------------------------------------------------------------
(* Induction over the naturals with a set in the place of a predicate, and *)
(* from it the two facts a proof about a loop over a list needs: that the  *)
(* values the loop goes through exist, and that what holds before it and   *)
(* is kept by a turn of it holds at its end.  The library's theorems on    *)
(* induction take an operator, which the provers cannot be given; the      *)
(* least element of a set is all they are needed for.                      *)

\* The order of the naturals is well founded.
LEMMA OrderOfNat ==
  \E R : IsWellFoundedOn(R, Nat) /\ \A i, j \in Nat : <<i, j>> \in R <=> i < j
BY NatLessThanWellFounded DEF OpToRel

\* A set of naturals has a member with none before it.
LEMMA MinimalElement ==
  ASSUME NEW T, T \subseteq Nat, T # {}, NEW R, IsWellFoundedOn(R, Nat)
  PROVE  \E x \in T : \A y \in T : ~(<<y, x>> \in R)
BY WFMin

\* Every set of naturals that is not empty has a least element.
LEMMA LeastElement ==
  ASSUME NEW T, T \subseteq Nat, T # {}
  PROVE  \E x \in T : \A y \in T : x <= y
<1>1. PICK R : IsWellFoundedOn(R, Nat) /\ \A i, j \in Nat : <<i, j>> \in R <=> i < j
  BY OrderOfNat
<1>2. PICK x \in T : \A y \in T : ~(<<y, x>> \in R)
  BY <1>1, MinimalElement
<1>3. ASSUME NEW y \in T PROVE x <= y
  <2>1. x \in Nat /\ y \in Nat
    OBVIOUS
  <2>2. ~(y < x)
    BY <1>1, <1>2, <2>1
  <2> QED
    BY <2>1, <2>2
<1> QED
  BY <1>3

\* Induction up to n, over the set of the numbers that are good.
THEOREM UpTo ==
  ASSUME NEW n \in Nat, NEW good, 0 \in good,
         \A i \in 1..n : i - 1 \in good => i \in good
  PROVE  \A i \in 0..n : i \in good
<1> DEFINE bad == {i \in 0..n : i \notin good}
<1> SUFFICES ASSUME bad # {} PROVE FALSE
  OBVIOUS
<1>1. bad \subseteq Nat
  OBVIOUS
<1>2. PICK x \in bad : \A y \in bad : x <= y
  <2> HIDE DEF bad
  <2> QED BY <1>1, LeastElement
<1>3. x \in 1..n
  OBVIOUS
<1>4. x - 1 \in 0..n /\ ~(x <= x - 1)
  BY <1>3
<1>5. x - 1 \in good
  BY <1>2, <1>4
<1> QED
  BY <1>3, <1>5

\* What the n turns of a loop over S do, the values the loop goes through, and those a
\* fold goes through, which takes the last turn of a set of turns first.
Turns(n, S) == [1..n -> [S -> S]]

Loops(f, S, start, n, turn) ==
    /\ f \in [0..n -> S] /\ f[0] = start
    /\ \A i \in 1..n : f[i] = turn[i][f[i - 1]]

Folds(it, S, start, n, turn) ==
    /\ it \in [SUBSET (1..n) -> S]
    /\ \A s \in SUBSET (1..n) :
          it[s] = IF s = {} THEN start ELSE turn[Max(s)][it[s \ {Max(s)}]]

\* A loop of n turns goes through its values.
THEOREM LoopRuns ==
  ASSUME NEW S, NEW start \in S, NEW n \in Nat, NEW turn \in Turns(n, S)
  PROVE  \E f : Loops(f, S, start, n, turn)
<1> DEFINE Runs(f, m) == f[0] = start /\ \A i \in 1..m : f[i] = turn[i][f[i - 1]]
           good == {m \in 0..n : \E f \in [0..m -> S] : Runs(f, m)}
<1>1. 0 \in good
  <2> DEFINE f == [i \in 0..0 |-> start]
  <2>1. f \in [0..0 -> S] /\ f[0] = start /\ 1..0 = {}
    OBVIOUS
  <2>2. Runs(f, 0)
    BY <2>1
  <2>3. 0 \in 0..n
    OBVIOUS
  <2> QED
    <3> HIDE DEF f, Runs
    <3> QED BY <2>1, <2>2, <2>3
<1>2. ASSUME NEW m \in 1..n, m - 1 \in good PROVE m \in good
  <2>1. PICK f \in [0..(m - 1) -> S] : Runs(f, m - 1)
    BY <1>2
  <2> DEFINE last == turn[m][f[m - 1]]
             g == [i \in 0..m |-> IF i = m THEN last ELSE f[i]]
  <2>2. last \in S
    <3>1. m - 1 \in 0..(m - 1)
      OBVIOUS
    <3>2. f[m - 1] \in S /\ turn[m] \in [S -> S]
      BY <3>1 DEF Turns
    <3> QED
      BY <3>2
  <2>3. \A i \in 0..m : i # m => i \in 0..(m - 1)
    OBVIOUS
  <2>4. g \in [0..m -> S]
    <3> HIDE DEF last
    <3> QED BY <2>2, <2>3
  <2>5. g[0] = start
    <3> HIDE DEF last
    <3>1. 0 \in 0..m /\ 0 # m
      OBVIOUS
    <3> QED BY <2>1, <3>1
  <2>6. ASSUME NEW i \in 1..m PROVE g[i] = turn[i][g[i - 1]]
    <3>1. i - 1 \in 0..m /\ i - 1 # m /\ i \in 0..m
      OBVIOUS
    <3>2. g[i - 1] = f[i - 1]
      BY <3>1
    <3>3. CASE i = m
      <4>1. g[i] = last
        <5> HIDE DEF last
        <5> QED BY <3>1, <3>3
      <4> QED
        BY <3>2, <3>3, <4>1
    <3>4. CASE i # m
      <4>1. i \in 1..(m - 1)
        BY <3>4
      <4>2. g[i] = f[i]
        BY <3>1, <3>4
      <4> QED
        BY <2>1, <3>2, <4>1, <4>2
    <3> QED
      BY <3>3, <3>4
  <2>7. Runs(g, m)
    <3> HIDE DEF g
    <3> QED BY <2>5, <2>6
  <2>8. m \in 0..n
    OBVIOUS
  <2> QED
    <3> HIDE DEF g, Runs
    <3> QED BY <2>4, <2>7, <2>8
<1>3. n \in good
  <2>1. n \in 0..n
    OBVIOUS
  <2> HIDE DEF good
  <2> QED BY <1>1, <1>2, <2>1, UpTo
<1>4. PICK f \in [0..n -> S] : Runs(f, n)
  BY <1>3
<1>5. Loops(f, S, start, n, turn)
  BY <1>4 DEF Loops
<1> QED
  BY <1>5

\* A list in places 1..n of which a function says what stands there.
LEMMA MadeSeq ==
  ASSUME NEW S, NEW n \in Nat, NEW t, t = [k \in 1..n |-> t[k]], \A k \in 1..n : t[k] \in S
  PROVE  t \in Seq(S) /\ Len(t) = n /\ DOMAIN t = 1..n
<1>1. t \in [1..n -> S]
  OBVIOUS
<1>2. t \in Seq(S)
  BY <1>1, SeqDef
<1>3. DOMAIN t = 1..n
  BY <1>1
<1> QED
  BY <1>2, <1>3, LenProperties

\* The least of a set of naturals.
LEMMA MinOf ==
  ASSUME NEW s \in SUBSET Nat, s # {}
  PROVE  Min(s) \in s /\ \A y \in s : Min(s) <= y
<1>1. \E x \in s : \A y \in s : x <= y
  BY LeastElement
<1> QED
  BY <1>1 DEF Min

-----------------------------------------------------------------------------
(* Filters and sorts.                                                      *)

\* t holds what stands in s at some places: e says at which, in their order.
Selects(e, t, s, at) ==
    LET n == Cardinality(at) IN
    /\ n \in Nat /\ Len(t) = n /\ DOMAIN t = 1..n
    /\ e \in [1..n -> at] /\ \A i \in at : \E k \in 1..n : e[k] = i
    /\ \A k, l \in 1..n : k < l <=> e[k] < e[l]
    /\ \A k \in 1..n : t[k] = s[e[k]]

\* t holds what s holds, in an order of its places: e says where it stood.
Sorts(e, t, s, R) ==
    LET n == Len(s) IN
    /\ n \in Nat /\ Len(t) = n /\ DOMAIN t = 1..n /\ DOMAIN s = 1..n
    /\ e \in [1..n -> 1..n] /\ \A i \in 1..n : \E k \in 1..n : e[k] = i
    /\ \A k, l \in 1..n : k < l <=> <<e[k], e[l]>> \in R
    /\ \A k \in 1..n : t[k] = s[e[k]]

\* A filtered list holds what stands at the places let through, each place once and in
\* the order of the places.
THEOREM ThoseAre ==
  ASSUME NEW S, NEW s \in Seq(S), NEW at, at \subseteq DOMAIN s
  PROVE  Those(s, at) \in Seq(S) /\ \E e : Selects(e, Those(s, at), s, at)
<1> DEFINE R == {p \in at \X at : p[1] < p[2]}
           e == Ranked(at, R)
           n == Cardinality(at)
           t == Those(s, at)
<1>1. DOMAIN s = 1..Len(s) /\ Len(s) \in Nat /\ \A i \in 1..Len(s) : s[i] \in S
  BY LenProperties
<1>2. IsFiniteSet(at) /\ n \in Nat
  <2>1. IsFiniteSet(1..Len(s)) /\ at \subseteq 1..Len(s)
    BY <1>1, FS_Interval
  <2>2. IsFiniteSet(at)
    BY <2>1, FS_Subset
  <2> QED BY <2>2, FS_CardinalityType
<1>3. \A i, j \in at : <<i, j>> \in R <=> i < j
  OBVIOUS
<1>4. \A i \in at : i \in Nat
  BY <1>1
<1>5. IsOrder(R, at)
  <2> HIDE DEF R
  <2> QED BY <1>3, <1>4 DEF IsOrder
<1>6. Enumerates(e, at, R)
  <2> HIDE DEF R
  <2> QED BY <1>2, <1>5, RankedEnumerates
<1>7. t = [k \in 1..n |-> s[e[k]]]
  BY DEF Those
<1> HIDE DEF e, t
<1>8. e \in [1..n -> at] /\ (\A i \in at : \E k \in 1..n : e[k] = i)
  BY <1>6 DEF Enumerates
<1>9. \A k, l \in 1..n : k < l <=> e[k] < e[l]
  <2> HIDE DEF R, n
  <2> QED BY <1>3, <1>6, <1>8 DEF Enumerates, n
<1>10. \A k \in 1..n : t[k] = s[e[k]] /\ t[k] \in S
  <2> HIDE DEF n
  <2> QED BY <1>1, <1>7, <1>8
<1>11. t \in Seq(S) /\ Len(t) = n /\ DOMAIN t = 1..n
  <2> HIDE DEF n
  <2>1. t = [k \in 1..n |-> t[k]]
    BY <1>7, <1>10
  <2> QED BY <1>2, <1>10, <2>1, MadeSeq
<1> HIDE DEF n
<1>12. Selects(e, t, s, at)
  BY <1>2, <1>8, <1>9, <1>10, <1>11 DEF Selects, n
<1> QED
  BY <1>11, <1>12 DEF t

\* A sorted list holds what the list held, each place once, in the order it is sorted by.
THEOREM ArrangedAre ==
  ASSUME NEW S, NEW s \in Seq(S), NEW R, IsOrder(R, DOMAIN s)
  PROVE  Arranged(s, R) \in Seq(S) /\ \E e : Sorts(e, Arranged(s, R), s, R)
<1> DEFINE n == Len(s)
           e == Ranked(1..n, R)
           t == Arranged(s, R)
<1>1. DOMAIN s = 1..n /\ n \in Nat /\ \A i \in 1..n : s[i] \in S
  BY LenProperties
<1>2. IsFiniteSet(1..n) /\ Cardinality(1..n) = n
  <2> HIDE DEF n
  <2> QED BY <1>1, FS_Interval
<1>3. Enumerates(e, 1..n, R)
  <2> HIDE DEF n
  <2> QED BY <1>1, <1>2, RankedEnumerates
<1>4. t = [k \in 1..n |-> s[e[k]]]
  BY <1>1 DEF Arranged
<1> HIDE DEF e, t, n
<1>5. /\ e \in [1..n -> 1..n]
      /\ \A i \in 1..n : \E k \in 1..n : e[k] = i
      /\ \A k, l \in 1..n : k < l <=> <<e[k], e[l]>> \in R
  BY <1>2, <1>3 DEF Enumerates
<1>6. \A k \in 1..n : t[k] = s[e[k]] /\ t[k] \in S
  BY <1>1, <1>4, <1>5
<1>7. t \in Seq(S) /\ Len(t) = n /\ DOMAIN t = 1..n
  <2>1. t = [k \in 1..n |-> t[k]]
    BY <1>4, <1>6
  <2> QED BY <1>1, <1>6, <2>1, MadeSeq
<1>8. Sorts(e, t, s, R)
  BY <1>1, <1>5, <1>6, <1>7 DEF Sorts, n
<1> QED
  BY <1>7, <1>8 DEF t

\* A filtered list holds what stands at those places, each once if it stood there once.
LEMMA ThoseHold ==
  ASSUME NEW S, NEW s \in Seq(S), NEW at, at \subseteq DOMAIN s
  PROVE  /\ Those(s, at) \in Seq(S) /\ ToSet(Those(s, at)) = {s[i] : i \in at}
         /\ (\A i, j \in at : s[i] = s[j] => i = j) =>
              \A k, l \in DOMAIN Those(s, at) : Those(s, at)[k] = Those(s, at)[l] => k = l
<1> DEFINE t == Those(s, at)
           n == Cardinality(at)
<1>1. t \in Seq(S) /\ \E e : Selects(e, t, s, at)
  BY ThoseAre
<1> HIDE DEF t
<1>2. PICK e : Selects(e, t, s, at)
  BY <1>1
<1> USE <1>2 DEF Selects
<1>3. ToSet(t) = {s[i] : i \in at}
  <2>1. ToSet(t) \subseteq {s[i] : i \in at}
    BY <1>1, <1>2 DEF ToSet
  <2>2. {s[i] : i \in at} \subseteq ToSet(t)
    <3> SUFFICES ASSUME NEW i \in at PROVE s[i] \in ToSet(t)
      OBVIOUS
    <3>1. PICK k \in 1..n : e[k] = i
      BY <1>2
    <3>2. k \in DOMAIN t /\ t[k] = s[i]
      BY <1>1, <1>2, <3>1
    <3> QED BY <3>2 DEF ToSet
  <2> QED BY <2>1, <2>2
<1>4. ASSUME \A i, j \in at : s[i] = s[j] => i = j, NEW k \in 1..n, NEW l \in 1..n, t[k] = t[l]
      PROVE  k = l
  <2>1. e[k] = e[l] /\ e[k] \in Nat /\ e[l] \in Nat
    <3>1. e[k] \in at /\ e[l] \in at
      BY <1>2
    <3>2. DOMAIN s \subseteq Nat
      BY LenProperties
    <3> QED BY <1>2, <1>4, <3>1, <3>2
  <2>2. ~(k < l) /\ ~(l < k)
    BY <1>2, <2>1
  <2> QED BY <1>1, <2>2
<1> QED BY <1>1, <1>3, <1>4 DEF t

\* A sorted list holds what the list held, each once if it stood there once.
LEMMA ArrangedHold ==
  ASSUME NEW S, NEW s \in Seq(S), NEW R, IsOrder(R, DOMAIN s)
  PROVE  /\ Arranged(s, R) \in Seq(S) /\ ToSet(Arranged(s, R)) = ToSet(s)
         /\ (\A i, j \in DOMAIN s : s[i] = s[j] => i = j) =>
              \A k, l \in DOMAIN Arranged(s, R) : Arranged(s, R)[k] = Arranged(s, R)[l] => k = l
<1> DEFINE t == Arranged(s, R)
           n == Len(s)
<1>1. t \in Seq(S) /\ \E e : Sorts(e, t, s, R)
  BY ArrangedAre
<1> HIDE DEF t
<1>2. PICK e : Sorts(e, t, s, R)
  BY <1>1
<1>3. /\ DOMAIN t = 1..n /\ DOMAIN s = 1..n /\ n \in Nat
      /\ \A k \in 1..n : e[k] \in 1..n /\ t[k] = s[e[k]]
      /\ \A i \in 1..n : \E k \in 1..n : e[k] = i
      /\ \A k, l \in 1..n : k < l <=> <<e[k], e[l]>> \in R
  BY <1>2 DEF Sorts
<1> HIDE DEF n
<1>4. ToSet(t) = ToSet(s)
  <2>1. ToSet(t) \subseteq ToSet(s)
    <3> SUFFICES ASSUME NEW k \in 1..n PROVE t[k] \in ToSet(s)
      BY <1>3 DEF ToSet
    <3> QED BY <1>3 DEF ToSet
  <2>2. ToSet(s) \subseteq ToSet(t)
    <3> SUFFICES ASSUME NEW i \in 1..n PROVE s[i] \in ToSet(t)
      BY <1>3 DEF ToSet
    <3>1. PICK k \in 1..n : e[k] = i
      BY <1>3
    <3> QED BY <1>3, <3>1 DEF ToSet
  <2> QED BY <2>1, <2>2
<1>5. ASSUME \A i, j \in DOMAIN s : s[i] = s[j] => i = j,
             NEW k \in 1..n, NEW l \in 1..n, t[k] = t[l]
      PROVE  k = l
  <2>1. e[k] = e[l] /\ e[k] \in DOMAIN s
    <3>1. s[e[k]] = s[e[l]] /\ e[k] \in DOMAIN s /\ e[l] \in DOMAIN s
      BY <1>3, <1>5
    <3> QED BY <1>5, <3>1
  <2>2. ~(k < l) /\ ~(l < k)
    BY <1>3, <2>1 DEF IsOrder
  <2> QED BY <1>3, <2>2
<1> QED BY <1>1, <1>3, <1>4, <1>5 DEF t

\* The type of a list may be widened.
LEMMA SeqWiden ==
  ASSUME NEW S, NEW T, S \subseteq T, NEW s \in Seq(S)
  PROVE  s \in Seq(T)
<1>1. Len(s) \in Nat /\ s = [i \in 1..Len(s) |-> s[i]] /\ \A i \in 1..Len(s) : s[i] \in T
  BY LenProperties
<1> QED
  BY <1>1, MadeSeq

\* Who starts as another does.
Starts(s, t) == Len(s) <= Len(t) /\ \A i \in 1..Len(s) : s[i] = t[i]

\* What is let through of the beginning is the beginning of what is let through.
THEOREM ThoseStart ==
  ASSUME NEW S, NEW s \in Seq(S), NEW t \in Seq(S), Starts(s, t), NEW at, at \subseteq DOMAIN t
  PROVE  Starts(Those(s, at \cap DOMAIN s), Those(t, at))
<1> DEFINE here == at \cap DOMAIN s
           u == Those(s, here)
           v == Those(t, at)
           n == Cardinality(here)
           m == Cardinality(at)
<1>1. /\ DOMAIN s = 1..Len(s) /\ Len(s) \in Nat /\ DOMAIN t = 1..Len(t) /\ Len(t) \in Nat
      /\ here \subseteq at /\ here \subseteq DOMAIN s /\ at \subseteq Nat /\ here \subseteq Nat
  BY LenProperties
<1>2. \E d : Selects(d, u, s, here)
  <2> HIDE DEF here
  <2> QED BY <1>1, ThoseAre
<1>3. \E e : Selects(e, v, t, at)
  BY ThoseAre
<1>4. n <= m
  <2>1. IsFiniteSet(1..Len(t)) /\ at \subseteq 1..Len(t)
    BY <1>1, FS_Interval
  <2>2. IsFiniteSet(at)
    BY <2>1, FS_Subset
  <2> HIDE DEF here
  <2> QED BY <1>1, <2>2, FS_Subset
<1> HIDE DEF u, v, here
<1>5. PICK d : Selects(d, u, s, here)
  BY <1>2
<1>6. PICK e : Selects(e, v, t, at)
  BY <1>3
<1>7. /\ n \in Nat /\ Len(u) = n /\ d \in [1..n -> here]
      /\ \A i \in here : \E k \in 1..n : d[k] = i
      /\ \A k, l \in 1..n : k < l <=> d[k] < d[l]
      /\ \A k \in 1..n : u[k] = s[d[k]]
  BY <1>5 DEF Selects
<1>8. /\ m \in Nat /\ Len(v) = m /\ e \in [1..m -> at]
      /\ \A i \in at : \E k \in 1..m : e[k] = i
      /\ \A k, l \in 1..m : k < l <=> e[k] < e[l]
      /\ \A k \in 1..m : v[k] = t[e[k]]
  BY <1>6 DEF Selects
<1> HIDE DEF n, m
<1> DEFINE good == {k \in 0..n : \A l \in 1..k : d[l] = e[l]}
<1>9. ASSUME NEW k \in 1..n, k - 1 \in good PROVE k \in good
  <2>1. k \in 1..m /\ d[k] \in here /\ e[k] \in at /\ d[k] \in Nat /\ e[k] \in Nat
    BY <1>1, <1>4, <1>7, <1>8
  <2>2. \A l \in 1..(k - 1) : d[l] = e[l]
    BY <1>9
  <2>3. PICK x \in 1..m : e[x] = d[k]
    BY <1>1, <1>8, <2>1
  <2>4. x >= k
    <3> SUFFICES ASSUME x < k PROVE FALSE
      BY <1>8, <2>1
    <3>1. x \in 1..(k - 1) /\ x \in 1..n
      BY <1>7, <2>1
    <3>2. d[x] = d[k] /\ d[x] < d[k]
      BY <1>7, <2>2, <2>3, <3>1
    <3> QED BY <2>1, <3>2
  <2>5. e[k] <= d[k]
    <3>1. x = k \/ k < x
      BY <1>8, <2>1, <2>4
    <3>2. k < x => e[k] < e[x]
      BY <1>8, <2>1
    <3> QED BY <2>1, <2>3, <3>1, <3>2
  <2>6. e[k] \in here
    BY <1>1, <2>1, <2>5 DEF here
  <2>7. PICK y \in 1..n : d[y] = e[k]
    BY <1>7, <2>6
  <2>8. y >= k
    <3> SUFFICES ASSUME y < k PROVE FALSE
      BY <1>7, <2>1
    <3>1. y \in 1..(k - 1) /\ y \in 1..m
      BY <1>4, <1>7, <1>8, <2>1
    <3>2. e[y] = e[k] /\ e[y] < e[k]
      BY <1>8, <2>1, <2>2, <2>7, <3>1
    <3> QED BY <2>1, <3>2
  <2>9. d[k] <= e[k]
    <3>1. y = k \/ k < y
      BY <1>7, <2>1, <2>8
    <3>2. k < y => d[k] < d[y]
      BY <1>7, <2>1
    <3> QED BY <2>1, <2>7, <3>1, <3>2
  <2>10. d[k] = e[k]
    BY <2>1, <2>5, <2>9
  <2>11. \A l \in 1..k : l \in 1..(k - 1) \/ l = k
    BY <2>1
  <2> QED BY <1>7, <2>2, <2>10, <2>11
<1>10. 0 \in good
  BY <1>7
<1>11. \A k \in 0..n : k \in good
  <2> HIDE DEF good
  <2> QED BY <1>7, <1>9, <1>10, UpTo
<1>12. ASSUME NEW k \in 1..n PROVE u[k] = v[k]
  <2>1. n \in good /\ k \in 1..m
    <3>1. n \in 0..n /\ k \in 1..m
      BY <1>4, <1>7, <1>8
    <3> QED BY <1>11, <3>1
  <2>2. d[k] = e[k] /\ d[k] \in here
    BY <1>7, <2>1
  <2>3. d[k] \in 1..Len(s)
    BY <1>1, <2>2
  <2>4. s[d[k]] = t[d[k]]
    BY <2>3 DEF Starts
  <2> QED BY <1>7, <1>8, <2>1, <2>2, <2>4
<1>13. Starts(u, v)
  BY <1>4, <1>7, <1>8, <1>12 DEF Starts
<1> QED
  BY <1>13 DEF u, v, here

\* And never longer.
LEMMA ThoseNoLonger ==
  ASSUME NEW S, NEW s \in Seq(S), NEW at, at \subseteq DOMAIN s
  PROVE  Len(Those(s, at)) <= Len(s)
<1> DEFINE n == Len(s)
<1>1. \E e : Selects(e, Those(s, at), s, at)
  BY ThoseAre
<1>2. Len(Those(s, at)) = Cardinality(at)
  BY <1>1 DEF Selects
<1>3. DOMAIN s = 1..n /\ n \in Nat
  BY LenProperties
<1> HIDE DEF n
<1>4. IsFiniteSet(1..n) /\ Cardinality(1..n) = n
  BY <1>3, FS_Interval
<1>5. at \subseteq 1..n
  BY <1>3
<1>6. Cardinality(at) <= Cardinality(1..n)
  BY <1>4, <1>5, FS_Subset
<1> QED
  BY <1>2, <1>4, <1>6 DEF n

-----------------------------------------------------------------------------
(* Folds.                                                                  *)

\* The numbers up to m without the largest are those up to m - 1.
LEMMA MaxUpTo ==
  ASSUME NEW m \in Nat, m # 0
  PROVE  Max(1..m) = m /\ (1..m) \ {m} = 1..(m - 1) /\ 1..m # {}
<1>1. m \in 1..m /\ \A y \in 1..m : m >= y
  OBVIOUS
<1>2. Max(1..m) = m
  BY <1>1 DEF Max
<1>3. (1..m) \ {m} = 1..(m - 1)
  OBVIOUS
<1> QED
  BY <1>1, <1>2, <1>3

\* A set of numbers up to n that is not empty has a largest.
LEMMA MaxIs ==
  ASSUME NEW n \in Nat, NEW s \in SUBSET (1..n), s # {}
  PROVE  Max(s) \in s /\ \A y \in s : y <= Max(s)
<1> DEFINE T == {n - x : x \in s}
<1>1. T \subseteq Nat /\ T # {}
  <2>1. \A x \in s : n - x \in Nat
    OBVIOUS
  <2>2. PICK x \in s : TRUE
    OBVIOUS
  <2>3. n - x \in T
    OBVIOUS
  <2> QED BY <2>1, <2>3
<1>2. PICK t \in T : \A y \in T : t <= y
  <2> HIDE DEF T
  <2> QED BY <1>1, LeastElement
<1>3. PICK x \in s : t = n - x
  OBVIOUS
<1>4. \A y \in s : x >= y
  <2> TAKE y \in s
  <2>1. n - y \in T /\ x \in Nat /\ y \in Nat
    OBVIOUS
  <2> QED BY <1>2, <1>3, <2>1
<1>5. Max(s) \in s /\ \A y \in s : Max(s) >= y
  BY <1>4 DEF Max
<1> QED
  BY <1>5

\* The function FoldLeft goes through: at a set of places, the loop over just those.
THEOREM FoldRuns ==
  ASSUME NEW S, NEW base \in S, NEW n \in Nat, NEW turn \in Turns(n, S)
  PROVE  \E it : Folds(it, S, base, n, turn)
<1> DEFINE some(s) == [i \in 1..n |-> [a \in S |-> IF i \in s THEN turn[i][a] ELSE a]]
           Runs(f, s) == f[0] = base /\ \A i \in 1..n : f[i] = some(s)[i][f[i - 1]]
           run(s) == CHOOSE f \in [0..n -> S] : Runs(f, s)
           it == [s \in SUBSET (1..n) |-> run(s)[n]]
<1>1. ASSUME NEW s \in SUBSET (1..n)
      PROVE  /\ run(s) \in [0..n -> S] /\ run(s)[0] = base
             /\ \A i \in 1..n : run(s)[i] = IF i \in s THEN turn[i][run(s)[i - 1]] ELSE run(s)[i - 1]
  <2>1. some(s) \in [1..n -> [S -> S]]
    BY DEF Turns
  <2>2. \E f \in [0..n -> S] : Runs(f, s)
    <3> DEFINE tt == some(s)
    <3>1. tt \in Turns(n, S)
      BY <2>1 DEF Turns
    <3> HIDE DEF tt, Runs, run, it
    <3>2. PICK f : Loops(f, S, base, n, tt)
      BY <3>1, LoopRuns
    <3>3. f \in [0..n -> S] /\ f[0] = base /\ \A i \in 1..n : f[i] = tt[i][f[i - 1]]
      BY <3>2 DEF Loops
    <3> HIDE DEF some
    <3>4. Runs(f, s)
      BY <3>3 DEF Runs, tt
    <3> QED BY <3>3, <3>4
  <2>3. run(s) \in [0..n -> S] /\ Runs(run(s), s)
    <3> HIDE DEF Runs
    <3> QED BY <2>2
  <2> HIDE DEF run
  <2>4. ASSUME NEW i \in 1..n PROVE run(s)[i - 1] \in S
    <3>1. i - 1 \in 0..n
      OBVIOUS
    <3> QED BY <2>3, <3>1
  <2> QED BY <2>3, <2>4
<1> HIDE DEF run
<1>2. ASSUME NEW s \in SUBSET (1..n), NEW m \in 0..n, \A i \in (m + 1)..n : i \notin s
      PROVE  run(s)[n] = run(s)[m]
  <2> DEFINE good == {j \in 0..(n - m) : run(s)[m + j] = run(s)[m]}
  <2>1. 0 \in good
    OBVIOUS
  <2>2. ASSUME NEW j \in 1..(n - m), j - 1 \in good PROVE j \in good
    <3>1. m + j \in 1..n /\ m + j \in (m + 1)..n /\ (m + j) - 1 = m + (j - 1)
      OBVIOUS
    <3>2. run(s)[m + j] = run(s)[m + (j - 1)]
      BY <1>1, <1>2, <3>1
    <3> QED BY <2>2, <3>2
  <2>3. n - m \in Nat /\ n - m \in 0..(n - m)
    OBVIOUS
  <2>4. n - m \in good
    <3> HIDE DEF good
    <3> QED BY <2>1, <2>2, <2>3, UpTo
  <2> QED BY <2>4
<1>3. ASSUME NEW s \in SUBSET (1..n), NEW t \in SUBSET (1..n), NEW m \in 0..n,
             \A i \in 1..m : i \in s <=> i \in t
      PROVE  run(s)[m] = run(t)[m]
  <2> DEFINE good == {j \in 0..m : run(s)[j] = run(t)[j]}
  <2>1. 0 \in good
    BY <1>1
  <2>2. ASSUME NEW j \in 1..m, j - 1 \in good PROVE j \in good
    <3>1. j \in 1..n /\ j \in 0..m
      OBVIOUS
    <3> QED BY <1>1, <1>3, <2>2, <3>1
  <2>3. m \in Nat /\ m \in 0..m
    OBVIOUS
  <2>4. m \in good
    <3> HIDE DEF good
    <3> QED BY <2>1, <2>2, <2>3, UpTo
  <2> QED BY <2>4
<1>4. it \in [SUBSET (1..n) -> S]
  <2>1. \A s \in SUBSET (1..n) : run(s)[n] \in S
    BY <1>1
  <2> QED BY <2>1
<1>5. it[{}] = base
  <2>1. {} \in SUBSET (1..n) /\ 0 \in 0..n
    OBVIOUS
  <2>2. run({})[n] = run({})[0] /\ run({})[0] = base
    BY <1>1, <1>2, <2>1
  <2> QED BY <2>2
<1>6. ASSUME NEW s \in SUBSET (1..n), s # {}
      PROVE  it[s] = turn[Max(s)][it[s \ {Max(s)}]]
  <2> DEFINE m == Max(s)
             t == s \ {m}
  <2>1. m \in s /\ \A y \in s : y <= m
    BY <1>6, MaxIs
  <2>2. m \in 1..n /\ t \in SUBSET (1..n)
    BY <2>1
  <2> HIDE DEF m
  <2>3. m \in 0..n /\ m - 1 \in 0..n /\ (m - 1) + 1 = m
    BY <2>2
  <2>4. run(s)[n] = run(s)[m]
    <3>1. \A i \in (m + 1)..n : i \notin s
      BY <2>1, <2>2
    <3> QED BY <1>2, <2>3, <3>1
  <2>5. run(t)[n] = run(t)[m - 1]
    <3>1. \A i \in m..n : i \notin t
      BY <2>1, <2>2
    <3> HIDE DEF t
    <3> QED BY <1>2, <2>2, <2>3, <3>1
  <2>6. run(s)[m - 1] = run(t)[m - 1]
    <3>1. \A i \in 1..(m - 1) : i \in s <=> i \in t
      BY <2>2
    <3> HIDE DEF t
    <3> QED BY <1>3, <2>2, <2>3, <3>1
  <2>7. run(s)[m] = turn[m][run(s)[m - 1]]
    BY <1>1, <2>1, <2>2
  <2>8. it[s] = turn[m][it[t]]
    <3> HIDE DEF t
    <3> QED BY <2>2, <2>4, <2>5, <2>6, <2>7
  <2> QED BY <2>8 DEF m
<1> HIDE DEF it
<1>7. Folds(it, S, base, n, turn)
  BY <1>4, <1>5, <1>6 DEF Folds
<1> QED BY <1>7

-----------------------------------------------------------------------------
(* Joins.                                                                  *)

\* Two lists one after the other hold what the two hold.
LEMMA ToSetConcat ==
  ASSUME NEW S, NEW a \in Seq(S), NEW b \in Seq(S)
  PROVE  a \o b \in Seq(S) /\ ToSet(a \o b) = ToSet(a) \cup ToSet(b)
<1> DEFINE m == Len(a)
           n == Len(b)
           c == a \o b
<1>1. m \in Nat /\ n \in Nat /\ DOMAIN a = 1..m /\ DOMAIN b = 1..n
  BY LenProperties
<1>2. c \in Seq(S) /\ Len(c) = m + n /\ \A i \in 1..(m + n) : c[i] = IF i <= m THEN a[i] ELSE b[i - m]
  BY ConcatProperties
<1>3. DOMAIN c = 1..(m + n)
  <2> HIDE DEF c
  <2> QED BY <1>2, LenProperties
<1> HIDE DEF c, m, n
<1>4. ASSUME NEW i \in 1..m PROVE i \in 1..(m + n) /\ c[i] = a[i]
  BY <1>1, <1>2
<1>5. ASSUME NEW i \in 1..n PROVE m + i \in 1..(m + n) /\ c[m + i] = b[i]
  <2>1. m + i \in 1..(m + n) /\ ~(m + i <= m) /\ (m + i) - m = i
    BY <1>1
  <2> QED BY <1>2, <2>1
<1>6. ASSUME NEW i \in 1..(m + n) PROVE c[i] \in ToSet(a) \cup ToSet(b)
  <2>1. CASE i <= m
    <3>1. i \in 1..m
      BY <1>1, <2>1
    <3> QED BY <1>1, <1>4, <3>1 DEF ToSet
  <2>2. CASE ~(i <= m)
    <3>1. i - m \in 1..n /\ c[i] = b[i - m]
      BY <1>1, <1>2, <2>2
    <3> QED BY <1>1, <3>1 DEF ToSet
  <2> QED BY <2>1, <2>2
<1>7. ToSet(c) = ToSet(a) \cup ToSet(b)
  <2>1. ToSet(c) \subseteq ToSet(a) \cup ToSet(b)
    <3>1. SUFFICES ASSUME NEW i \in DOMAIN c PROVE c[i] \in ToSet(a) \cup ToSet(b)
      BY DEF ToSet
    <3> QED BY <1>3, <1>6
  <2>2. ToSet(a) \subseteq ToSet(c)
    <3>1. SUFFICES ASSUME NEW i \in DOMAIN a PROVE a[i] \in ToSet(c)
      BY DEF ToSet
    <3>2. i \in DOMAIN c /\ c[i] = a[i]
      BY <1>1, <1>3, <1>4
    <3> QED BY <3>2 DEF ToSet
  <2>3. ToSet(b) \subseteq ToSet(c)
    <3>1. SUFFICES ASSUME NEW i \in DOMAIN b PROVE b[i] \in ToSet(c)
      BY DEF ToSet
    <3>2. m + i \in DOMAIN c /\ c[m + i] = b[i]
      BY <1>1, <1>3, <1>5
    <3> QED BY <3>2 DEF ToSet
  <2> QED BY <2>1, <2>2, <2>3
<1> QED
  BY <1>2, <1>7 DEF c

\* Lists one after the other hold what they hold.
THEOREM FlattenIs ==
  ASSUME NEW S, NEW n \in Nat, NEW seqs \in [1..n -> Seq(S)]
  PROVE  /\ FlattenSeq(seqs) \in Seq(S)
         /\ ToSet(FlattenSeq(seqs)) = UNION {ToSet(seqs[i]) : i \in 1..n}
<1> DEFINE turn == [i \in 1..n |-> [a \in Seq(S) |-> a \o seqs[i]]]
           Follows(f) == f = [i \in 1..n |-> IF i = 1 THEN seqs[i] ELSE f[i - 1] \o seqs[i]]
           flat == CHOOSE f : Follows(f)
           Sets(m) == UNION {ToSet(seqs[i]) : i \in 1..m}
<1>1. Len(seqs) = n /\ seqs \in Seq(Seq(S))
  <2>1. seqs \in Seq(Seq(S)) /\ DOMAIN seqs = 1..n
    BY SeqDef
  <2>2. DOMAIN seqs = 1..Len(seqs) /\ Len(seqs) \in Nat
    BY <2>1, LenProperties
  <2> QED BY <2>1, <2>2
<1>2. CASE n = 0
  <2>1. seqs = <<>> /\ 1..n = {}
    BY <1>1, <1>2, EmptySeq
  <2>2. FlattenSeq(seqs) = <<>>
    BY <1>1, <1>2, <2>1 DEF FlattenSeq
  <2>3. <<>> \in Seq(S) /\ ToSet(<<>>) = {}
    BY DEF ToSet
  <2> QED BY <2>1, <2>2, <2>3
<1>3. CASE n # 0
  <2>1. turn \in [1..n -> [Seq(S) -> Seq(S)]]
    OBVIOUS
  <2>2. PICK f \in [0..n -> Seq(S)] : f[0] = <<>> /\ \A i \in 1..n : f[i] = turn[i][f[i - 1]]
    <3>1. <<>> \in Seq(S)
      OBVIOUS
    <3> DEFINE Q == Seq(S)
               start == <<>>
    <3>2. start \in Q /\ turn \in Turns(n, Q)
      BY <2>1, <3>1 DEF Turns
    <3> HIDE DEF Q, turn, start, Follows, flat, Sets
    <3>3. PICK f : Loops(f, Q, start, n, turn)
      BY <3>2, LoopRuns
    <3>4. f \in [0..n -> Q] /\ f[0] = start /\ \A i \in 1..n : f[i] = turn[i][f[i - 1]]
      BY <3>3 DEF Loops
    <3> QED BY <3>4 DEF Q, start
  <2>3. ASSUME NEW i \in 1..n PROVE f[i] = f[i - 1] \o seqs[i] /\ f[i - 1] \in Seq(S)
    <3>1. i - 1 \in 0..n
      OBVIOUS
    <3> QED BY <2>2, <3>1
  <2>4. \E g : Follows(g)
    <3> DEFINE g == [i \in 1..n |-> f[i]]
    <3>1. ASSUME NEW i \in 1..n PROVE g[i] = IF i = 1 THEN seqs[i] ELSE g[i - 1] \o seqs[i]
      <4>1. CASE i = 1
        <5>1. f[1] = <<>> \o seqs[1] /\ seqs[1] \in Seq(S)
          <6>1. f[1] = f[1 - 1] \o seqs[1] /\ 1 \in 1..n
            BY <2>3, <4>1
          <6>2. f[1 - 1] = <<>> /\ seqs[1] \in Seq(S)
            BY <2>2, <6>1
          <6> QED BY <6>1, <6>2
        <5> QED BY <4>1, <5>1, ConcatEmptySeq
      <4>2. CASE i # 1
        <5>1. i - 1 \in 1..n
          BY <4>2
        <5> QED BY <2>3, <4>2, <5>1
      <4> QED BY <4>1, <4>2
    <3>2. Follows(g)
      <4>1. DOMAIN g = 1..n /\ g = [i \in 1..n |-> g[i]]
        OBVIOUS
      <4> HIDE DEF g
      <4> QED BY <3>1, <4>1
    <3> QED BY <3>2
  <2>5. Follows(flat)
    <3> HIDE DEF Follows
    <3> QED BY <2>4
  <2> HIDE DEF flat
  <2> DEFINE good == {0} \cup {i \in 1..n : flat[i] \in Seq(S) /\ ToSet(flat[i]) = Sets(i)}
  <2>6. ASSUME NEW i \in 1..n, i - 1 \in good PROVE i \in good
    <3>1. CASE i = 1
      <4>1. flat[i] = seqs[1] /\ 1..i = {1}
        BY <2>5, <3>1
      <4>2. Sets(i) = ToSet(seqs[1])
        BY <4>1
      <4> QED BY <3>1, <4>1, <4>2
    <3>2. CASE i # 1
      <4>1. i - 1 \in 1..n /\ 1..i = 1..(i - 1) \cup {i}
        BY <3>2
      <4>2. flat[i] = flat[i - 1] \o seqs[i] /\ seqs[i] \in Seq(S)
        BY <2>5, <3>2
      <4>3. flat[i - 1] \in Seq(S) /\ ToSet(flat[i - 1]) = Sets(i - 1)
        BY <2>6, <4>1
      <4>4. flat[i] \in Seq(S) /\ ToSet(flat[i]) = ToSet(flat[i - 1]) \cup ToSet(seqs[i])
        <5> HIDE DEF Follows
        <5> DEFINE a == flat[i - 1]
                   b == seqs[i]
        <5>1. a \in Seq(S) /\ b \in Seq(S) /\ flat[i] = a \o b
          BY <4>2, <4>3
        <5> HIDE DEF a, b
        <5>2. a \o b \in Seq(S) /\ ToSet(a \o b) = ToSet(a) \cup ToSet(b)
          BY <5>1, ToSetConcat
        <5> QED BY <5>1, <5>2 DEF a, b
      <4>5. Sets(i) = Sets(i - 1) \cup ToSet(seqs[i])
        BY <4>1
      <4> HIDE DEF Sets
      <4> QED BY <4>3, <4>4, <4>5
    <3> QED BY <3>1, <3>2
  <2>7. n \in good
    <3>1. 0 \in good /\ n \in 0..n
      OBVIOUS
    <3> HIDE DEF good
    <3> QED BY <2>6, <3>1, UpTo
  <2>8. FlattenSeq(seqs) = flat[n]
    BY <1>1, <1>3 DEF FlattenSeq, flat
  <2> QED BY <1>3, <2>7, <2>8
<1> QED BY <1>2, <1>3
=============================================================================
