---------------------------- MODULE PollerProofs ----------------------------
(***************************************************************************)
(* Theorems about Poller, for every set of nodes and processes and every   *)
(* value of the limits.                                                    *)
(***************************************************************************)
EXTENDS WorkerPage, SequenceTheorems, FiniteSetTheorems, TLAPS

-----------------------------------------------------------------------------
(* The list `seen` as a set: appending, dropping the oldest, removing one. *)

\* What is in a sequence is at one of its positions.
LEMMA ElementsAtPositions ==
  ASSUME NEW q \in Seq(Nodes)
  PROVE  /\ Len(q) \in Nat /\ DOMAIN q = 1..Len(q)
         /\ \A i \in 1..Len(q) : q[i] \in Nodes /\ q[i] \in ToSet(q)
         /\ \A x \in ToSet(q) : \E i \in 1..Len(q) : q[i] = x
  BY DEF ToSet

\* Appending a new node keeps the list free of duplicates.
LEMMA AppendFacts ==
  ASSUME NEW q \in Seq(Nodes), NEW n \in Nodes, n \notin ToSet(q), IsInjective(q)
  PROVE  /\ Append(q, n) \in Seq(Nodes) /\ Len(Append(q, n)) = Len(q) + 1
         /\ ToSet(Append(q, n)) = ToSet(q) \cup {n}
         /\ IsInjective(Append(q, n))
<1> DEFINE r == Append(q, n)
<1>1. /\ r \in Seq(Nodes) /\ Len(r) = Len(q) + 1
      /\ \A i \in 1..Len(q) : r[i] = q[i]
      /\ r[Len(q) + 1] = n
  BY AppendProperties
<1> HIDE DEF r
<1>2. Len(q) \in Nat /\ DOMAIN q = 1..Len(q) /\ DOMAIN r = 1..(Len(q) + 1)
  BY <1>1, ElementsAtPositions
<1>3. ToSet(r) = ToSet(q) \cup {n}
  <2>1. \A x \in ToSet(r) : x \in ToSet(q) \cup {n}
    BY <1>1, <1>2, ElementsAtPositions
  <2>2. \A x \in ToSet(q) \cup {n} : x \in ToSet(r)
    <3>1. n \in ToSet(r)
      BY <1>1, <1>2, ElementsAtPositions
    <3>2. ASSUME NEW x \in ToSet(q) PROVE x \in ToSet(r)
      <4>1. PICK i \in 1..Len(q) : q[i] = x
        BY ElementsAtPositions
      <4>2. i \in 1..Len(r) /\ r[i] = x
        BY <1>1, <1>2, <4>1
      <4> QED BY <1>1, <4>2, ElementsAtPositions
    <3> QED BY <3>1, <3>2
  <2> QED BY <2>1, <2>2
<1>4. IsInjective(r)
  <2> SUFFICES ASSUME NEW i \in 1..(Len(q) + 1), NEW j \in 1..(Len(q) + 1), r[i] = r[j]
               PROVE  i = j
    BY <1>2 DEF IsInjective
  <2>1. CASE i \in 1..Len(q) /\ j \in 1..Len(q)
    BY <1>1, <1>2, <2>1 DEF IsInjective
  <2>2. CASE i = Len(q) + 1 /\ j \in 1..Len(q)
    BY <1>1, <2>2, ElementsAtPositions
  <2>3. CASE i \in 1..Len(q) /\ j = Len(q) + 1
    BY <1>1, <2>3, ElementsAtPositions
  <2> QED BY <1>2, <2>1, <2>2, <2>3
<1> QED BY <1>1, <1>3, <1>4 DEF r

\* Dropping the oldest entry drops it from the set.
LEMMA TailFacts ==
  ASSUME NEW q \in Seq(Nodes), Len(q) > 0, IsInjective(q)
  PROVE  /\ Tail(q) \in Seq(Nodes) /\ Len(Tail(q)) = Len(q) - 1
         /\ Head(q) \in Nodes /\ ToSet(Tail(q)) = ToSet(q) \ {Head(q)}
         /\ IsInjective(Tail(q))
<1> DEFINE r == Tail(q)
<1>1. /\ r \in Seq(Nodes) /\ Len(r) = Len(q) - 1
      /\ \A i \in 1..Len(r) : r[i] = q[i + 1]
      /\ Head(q) = q[1] /\ Head(q) \in Nodes
  <2>1. q # <<>> BY EmptySeq
  <2> QED BY <2>1, HeadTailProperties
<1> HIDE DEF r
<1>2. Len(q) \in Nat /\ DOMAIN q = 1..Len(q) /\ DOMAIN r = 1..Len(r) /\ Len(r) \in Nat
  BY <1>1, ElementsAtPositions
<1>3. ToSet(r) = ToSet(q) \ {Head(q)}
  <2>1. ASSUME NEW x \in ToSet(r) PROVE x \in ToSet(q) \ {Head(q)}
    <3>1. PICK i \in 1..Len(r) : r[i] = x
      BY <1>1, ElementsAtPositions
    <3>2. i + 1 \in 1..Len(q) /\ x = q[i + 1] /\ 1 \in 1..Len(q)
      BY <1>1, <1>2, <3>1
    <3>3. x # Head(q)
      BY <1>1, <1>2, <3>2 DEF IsInjective
    <3> QED BY <3>2, <3>3, ElementsAtPositions
  <2>2. ASSUME NEW x \in ToSet(q) \ {Head(q)} PROVE x \in ToSet(r)
    <3>1. PICK i \in 1..Len(q) : q[i] = x
      BY ElementsAtPositions
    <3>2. i - 1 \in 1..Len(r) /\ r[i - 1] = x
      BY <1>1, <1>2, <3>1
    <3> QED BY <1>1, <3>2, ElementsAtPositions
  <2> QED BY <2>1, <2>2
<1>4. IsInjective(r)
  <2> SUFFICES ASSUME NEW i \in 1..Len(r), NEW j \in 1..Len(r), r[i] = r[j]
               PROVE  i = j
    BY <1>2 DEF IsInjective
  <2>1. i + 1 \in DOMAIN q /\ j + 1 \in DOMAIN q /\ q[i + 1] = q[j + 1]
    BY <1>1, <1>2
  <2>2. i + 1 = j + 1
    BY <2>1 DEF IsInjective
  <2> QED BY <1>2, <2>2
<1> QED BY <1>1, <1>3, <1>4 DEF r

\* Removing a position drops exactly the node that is there.
LEMMA RemoveAtFacts ==
  ASSUME NEW q \in Seq(Nodes), NEW k \in 1..Len(q), IsInjective(q)
  PROVE  /\ RemoveAt(q, k) \in Seq(Nodes) /\ Len(RemoveAt(q, k)) = Len(q) - 1
         /\ ToSet(RemoveAt(q, k)) = ToSet(q) \ {q[k]}
         /\ IsInjective(RemoveAt(q, k))
<1> DEFINE s1 == SubSeq(q, 1, k - 1)
           s2 == SubSeq(q, k + 1, Len(q))
           r == s1 \o s2
<1>0. Len(q) \in Nat /\ DOMAIN q = 1..Len(q) /\ \A i \in 1..Len(q) : q[i] \in Nodes
  BY ElementsAtPositions
<1>1. s1 \in Seq(Nodes) /\ Len(s1) = k - 1 /\ \A i \in 1..(k - 1) : s1[i] = q[i]
  <2>1. 1 \in Int /\ k - 1 \in Int /\ \A i \in 1..(k - 1) : q[i] \in Nodes
    BY <1>0
  <2>2. /\ s1 \in Seq(Nodes) /\ Len(s1) = IF 1 <= k - 1 THEN k - 1 - 1 + 1 ELSE 0
        /\ \A i \in 1..(k - 1 - 1 + 1) : s1[i] = q[1 + i - 1]
    BY <2>1, SubSeqProperties
  <2> QED BY <1>0, <2>2
<1>2. /\ s2 \in Seq(Nodes) /\ Len(s2) = Len(q) - k
      /\ \A i \in 1..(Len(q) - k) : s2[i] = q[k + i]
  <2>1. k + 1 \in Int /\ Len(q) \in Int /\ \A i \in (k + 1)..Len(q) : q[i] \in Nodes
    BY <1>0
  <2>2. /\ s2 \in Seq(Nodes)
        /\ Len(s2) = IF k + 1 <= Len(q) THEN Len(q) - (k + 1) + 1 ELSE 0
        /\ \A i \in 1..(Len(q) - (k + 1) + 1) : s2[i] = q[(k + 1) + i - 1]
    BY <2>1, SubSeqProperties
  <2> HIDE DEF s2
  <2>3. Len(s2) = Len(q) - k
    <3>1. Len(s2) = IF k + 1 <= Len(q) THEN Len(q) - (k + 1) + 1 ELSE 0
      BY <2>2
    <3>2. Len(q) \in Nat /\ k \in 1..Len(q)
      BY <1>0
    <3> QED BY ONLY <3>1, <3>2
  <2>4. ASSUME NEW i \in 1..(Len(q) - k) PROVE s2[i] = q[k + i]
    <3>1. i \in 1..(Len(q) - (k + 1) + 1) /\ (k + 1) + i - 1 = k + i
      BY <1>0
    <3> QED BY <2>2, <3>1
  <2> QED BY <2>2, <2>3, <2>4
<1> HIDE DEF s1, s2
<1>3. /\ r \in Seq(Nodes) /\ Len(r) = Len(q) - 1
      /\ \A i \in 1..(Len(q) - 1) : r[i] = IF i < k THEN q[i] ELSE q[i + 1]
  <2>1. /\ r \in Seq(Nodes) /\ Len(r) = Len(s1) + Len(s2)
        /\ \A i \in 1..Len(s1) + Len(s2) :
              r[i] = IF i <= Len(s1) THEN s1[i] ELSE s2[i - Len(s1)]
    BY <1>1, <1>2, ConcatProperties
  <2> HIDE DEF r
  <2>2. ASSUME NEW i \in 1..(Len(q) - 1) PROVE r[i] = IF i < k THEN q[i] ELSE q[i + 1]
    <3>1. /\ Len(q) \in Nat /\ k \in 1..Len(q) /\ Len(s1) = k - 1 /\ Len(s2) = Len(q) - k
          /\ i \in 1..(Len(q) - 1)
      BY <1>0, <1>1, <1>2
    <3>2. i \in 1..Len(s1) + Len(s2)
      BY ONLY <3>1
    <3>3. r[i] = IF i <= Len(s1) THEN s1[i] ELSE s2[i - Len(s1)]
      BY <2>1, <3>2
    <3>4. CASE i < k
      <4>1. i <= Len(s1) /\ i \in 1..(k - 1)
        BY ONLY <3>1, <3>4
      <4> QED BY <1>1, <3>3, <3>4, <4>1
    <3>5. CASE ~(i < k)
      <4>1. ~(i <= Len(s1)) /\ i - Len(s1) \in 1..(Len(q) - k) /\ k + (i - Len(s1)) = i + 1
        BY ONLY <3>1, <3>5
      <4> QED BY <1>2, <3>3, <3>5, <4>1
    <3> QED BY <3>4, <3>5
  <2>3. Len(r) = Len(q) - 1
    <3>1. Len(r) = (k - 1) + (Len(q) - k)
      BY <1>1, <1>2, <2>1
    <3>2. Len(q) \in Nat /\ k \in 1..Len(q)
      BY <1>0
    <3> QED BY ONLY <3>1, <3>2
  <2> QED BY <2>1, <2>2, <2>3
<1>4. r = RemoveAt(q, k)
  BY DEF RemoveAt, s1, s2
<1> HIDE DEF r
<1>5. DOMAIN r = 1..(Len(q) - 1)
  BY <1>3, ElementsAtPositions
<1>6. ToSet(r) = ToSet(q) \ {q[k]}
  <2>1. ASSUME NEW x \in ToSet(r) PROVE x \in ToSet(q) \ {q[k]}
    <3>1. PICK i \in 1..(Len(q) - 1) : r[i] = x
      BY <1>3, ElementsAtPositions
    <3>i. /\ i \in Nat /\ k \in Nat /\ Len(q) \in Nat
          /\ i \in 1..Len(q) /\ i + 1 \in 1..Len(q)
      BY <1>0, <3>1
    <3>2. PICK j \in 1..Len(q) : q[j] = x /\ j # k
      <4>1. CASE i < k
        <5>1. q[i] = x /\ i # k
          BY <1>3, <3>1, <3>i, <4>1
        <5> QED BY <3>i, <5>1
      <4>2. CASE ~(i < k)
        <5>1. q[i + 1] = x
          BY <1>3, <3>1, <4>2
        <5>2. i + 1 # k
          BY ONLY <3>i, <4>2
        <5> QED BY <3>i, <5>1, <5>2
      <4> QED BY <4>1, <4>2
    <3>3. x # q[k]
      BY <1>0, <3>2 DEF IsInjective
    <3> QED BY <3>2, <3>3, ElementsAtPositions
  <2>2. ASSUME NEW x \in ToSet(q) \ {q[k]} PROVE x \in ToSet(r)
    <3>1. PICK j \in 1..Len(q) : q[j] = x
      BY ElementsAtPositions
    <3>2. PICK i \in 1..(Len(q) - 1) : r[i] = x
      <4>1. CASE j < k
        BY <1>0, <1>3, <3>1, <4>1
      <4>2. CASE j > k
        <5>1. j - 1 \in 1..(Len(q) - 1) /\ r[j - 1] = x
          BY <1>0, <1>3, <3>1, <4>2
        <5> QED BY <5>1
      <4> QED BY <1>0, <3>1, <4>1, <4>2
    <3> QED BY <1>3, <3>2, ElementsAtPositions
  <2> QED BY <2>1, <2>2
<1>7. IsInjective(r)
  <2> SUFFICES ASSUME NEW i \in 1..(Len(q) - 1), NEW j \in 1..(Len(q) - 1), r[i] = r[j]
               PROVE  i = j
    BY <1>5 DEF IsInjective
  <2> DEFINE at(m) == IF m < k THEN m ELSE m + 1
  <2>1. at(i) \in 1..Len(q) /\ at(j) \in 1..Len(q) /\ q[at(i)] = q[at(j)]
    BY <1>0, <1>3
  <2>2. at(i) = at(j)
    BY <1>0, <2>1 DEF IsInjective
  <2> QED BY <1>0, <2>2
<1> QED BY <1>3, <1>4, <1>6, <1>7

-----------------------------------------------------------------------------
(* The operations on a copy of the state file.                             *)

\* The copies in play are well typed and respect SEEN_LIMIT.
Copies == {s \in StateFile : WellFormed(s)}

\* What a missing or unreadable file is read as is a well-formed copy that lists
\* nothing.
LEMMA EmptyStateFacts ==
    EmptyState \in Copies /\ Seen(EmptyState) = {}
  BY PollerAssumption, EmptySeq DEF EmptyState, Copies, StateFile, WellFormed, Seen, ToSet, IsInjective

\* `seen` lists nodes of the queue.
LEMMA SeenIsNodes ==
  ASSUME NEW s \in StateFile
  PROVE  Seen(s) \subseteq Nodes
  BY ElementsAtPositions DEF StateFile, Seen

\* `mark_seen` marks its node, evicts at most older ones, and leaves every node
\* it keeps with the refusal it had.
LEMMA MarkSeenFacts ==
  ASSUME NEW s \in Copies, NEW n \in Nodes
  PROVE  /\ MarkSeen(s, n) \in Copies
         /\ n \in Seen(MarkSeen(s, n))
         /\ Seen(MarkSeen(s, n)) \subseteq Seen(s) \cup {n}
         /\ MarkSeen(s, n).pending = s.pending
         /\ \A m \in Seen(MarkSeen(s, n)) : m \in s.refused => m \in MarkSeen(s, n).refused
<1>0. /\ s \in StateFile /\ s.seen \in Seq(Nodes) /\ IsInjective(s.seen)
      /\ Len(s.seen) \in Nat /\ Len(s.seen) <= SeenLimit /\ SeenLimit \in Nat \ {0}
  BY PollerAssumption, ElementsAtPositions DEF Copies, StateFile, WellFormed
<1>1. CASE n \in Seen(s)
  BY <1>1 DEF MarkSeen
<1>2. CASE n \notin Seen(s) /\ Len(s.seen) < SeenLimit
  <2> DEFINE r == Append(s.seen, n)
  <2>1. MarkSeen(s, n) = [s EXCEPT !.seen = r]
    BY <1>2 DEF MarkSeen
  <2>2. /\ r \in Seq(Nodes) /\ Len(r) = Len(s.seen) + 1 /\ IsInjective(r)
        /\ ToSet(r) = Seen(s) \cup {n}
    BY <1>0, <1>2, AppendFacts DEF Seen
  <2> HIDE DEF r
  <2>3. Len(r) <= SeenLimit
    BY <1>0, <1>2, <2>2
  <2> QED BY <1>0, <2>1, <2>2, <2>3 DEF Copies, StateFile, WellFormed, Seen
<1>3. CASE n \notin Seen(s) /\ ~(Len(s.seen) < SeenLimit)
  <2> DEFINE t == Tail(s.seen)
             h == Head(s.seen)
             r == Append(t, n)
  <2>1. MarkSeen(s, n) = [s EXCEPT !.seen = r, !.refused = s.refused \ {h}]
    BY <1>0, <1>3 DEF MarkSeen, StateFile
  <2>2. Len(s.seen) = SeenLimit /\ Len(s.seen) > 0
    BY <1>0, <1>3
  <2>3. /\ t \in Seq(Nodes) /\ Len(t) = Len(s.seen) - 1 /\ IsInjective(t)
        /\ ToSet(t) = Seen(s) \ {h}
    BY <1>0, <2>2, TailFacts DEF Seen
  <2> HIDE DEF t, h
  <2>4. /\ r \in Seq(Nodes) /\ Len(r) = Len(t) + 1 /\ IsInjective(r)
        /\ ToSet(r) = (Seen(s) \ {h}) \cup {n}
    BY <1>3, <2>3, AppendFacts
  <2>5. h \in Seen(s)
    BY <1>0, <2>2, ElementsAtPositions DEF h, Seen
  <2> HIDE DEF r
  <2>6. Len(r) <= SeenLimit
    BY <1>0, <2>2, <2>3, <2>4
  <2> DEFINE u == [s EXCEPT !.seen = r, !.refused = s.refused \ {h}]
  <2>7. /\ u \in StateFile /\ u.seen = r /\ u.pending = s.pending
        /\ u.refused = s.refused \ {h}
    BY <1>0, <2>4 DEF StateFile
  <2> HIDE DEF u
  <2>8. u \in Copies /\ Seen(u) = (Seen(s) \ {h}) \cup {n}
    BY <2>4, <2>6, <2>7 DEF Copies, WellFormed, Seen
  <2>9. MarkSeen(s, n) = u
    BY <2>1 DEF u
  <2> QED BY <1>3, <2>5, <2>7, <2>8, <2>9
<1> QED BY <1>1, <1>2, <1>3

\* `forget` unmarks exactly its node and keeps every debt.
LEMMA ForgetNodeFacts ==
  ASSUME NEW s \in Copies, NEW n \in Seen(s)
  PROVE  /\ ForgetNode(s, n) \in Copies
         /\ Seen(ForgetNode(s, n)) = Seen(s) \ {n}
         /\ ForgetNode(s, n).pending = s.pending
         /\ ForgetNode(s, n).refused = s.refused \ {n}
<1>0. /\ s \in StateFile /\ s.seen \in Seq(Nodes) /\ IsInjective(s.seen)
      /\ Len(s.seen) \in Nat /\ DOMAIN s.seen = 1..Len(s.seen)
      /\ Len(s.seen) <= SeenLimit /\ SeenLimit \in Nat
  BY PollerAssumption, ElementsAtPositions DEF Copies, StateFile, WellFormed
<1> DEFINE k == CHOOSE i \in DOMAIN s.seen : s.seen[i] = n
           r == RemoveAt(s.seen, k)
<1>1. k \in 1..Len(s.seen) /\ s.seen[k] = n
  <2>1. \E i \in DOMAIN s.seen : s.seen[i] = n
    BY <1>0, ElementsAtPositions DEF Seen
  <2> QED BY <1>0, <2>1
<1>2. ForgetNode(s, n) = [s EXCEPT !.seen = r, !.refused = s.refused \ {n}]
  BY <1>0 DEF ForgetNode, StateFile
<1> HIDE DEF k
<1>3. /\ r \in Seq(Nodes) /\ Len(r) = Len(s.seen) - 1 /\ IsInjective(r)
      /\ ToSet(r) = Seen(s) \ {n}
  BY <1>0, <1>1, RemoveAtFacts DEF Seen
<1> HIDE DEF r
<1>4. Len(r) <= SeenLimit
  BY <1>0, <1>3
<1> QED BY <1>0, <1>2, <1>3, <1>4 DEF Copies, StateFile, WellFormed, Seen

\* The updates that leave the list `seen` alone.
LEMMA RefuseFacts ==
  ASSUME NEW s \in Copies, NEW n \in Nodes
  PROVE  /\ RefuseNode(s, n) \in Copies /\ Seen(RefuseNode(s, n)) = Seen(s)
         /\ RefuseNode(s, n).refused = s.refused \cup {n}
         /\ RefuseNode(s, n).pending = s.pending
<1>1. RefuseNode(s, n) \in Copies /\ RefuseNode(s, n).seen = s.seen
  BY DEF Copies, StateFile, WellFormed, RefuseNode
<1>2. /\ RefuseNode(s, n).refused = s.refused \cup {n}
      /\ RefuseNode(s, n).pending = s.pending
  BY DEF Copies, StateFile, RefuseNode
<1> QED BY <1>1, <1>2 DEF Seen

\* Keeping a report adds one debt and touches nothing else.
LEMMA OweFacts ==
  ASSUME NEW s \in Copies, NEW n \in Nodes
  PROVE  /\ Owe(s, n) \in Copies /\ Seen(Owe(s, n)) = Seen(s)
         /\ Owe(s, n).refused = s.refused /\ Owe(s, n).pending = s.pending \cup {n}
<1>1. Owe(s, n) \in Copies /\ Owe(s, n).seen = s.seen
  BY DEF Copies, StateFile, WellFormed, Owe
<1>2. Owe(s, n).refused = s.refused /\ Owe(s, n).pending = s.pending \cup {n}
  BY DEF Copies, StateFile, Owe
<1> QED BY <1>1, <1>2 DEF Seen

\* Settling does not change which node a later mark evicts.
LEMMA SettleFacts ==
  ASSUME NEW s \in Copies, NEW n \in Nodes
  PROVE  /\ Settle(s, n) \in Copies /\ Seen(Settle(s, n)) = Seen(s)
         /\ Settle(s, n).refused = s.refused /\ Settle(s, n).pending = s.pending \ {n}
         /\ Seen(MarkSeen(Settle(s, n), n)) = Seen(MarkSeen(s, n))
<1>1. Settle(s, n) \in Copies /\ Settle(s, n).seen = s.seen
  BY DEF Copies, StateFile, WellFormed, Settle
<1>2. Settle(s, n).refused = s.refused /\ Settle(s, n).pending = s.pending \ {n}
  BY DEF Copies, StateFile, Settle
<1>3. MarkSeen(Settle(s, n), n).seen = MarkSeen(s, n).seen
  BY DEF Copies, StateFile, Settle, MarkSeen, Seen
<1> QED BY <1>1, <1>2, <1>3 DEF Seen

-----------------------------------------------------------------------------
\* A step is one of the actions: Next without its grouping.
LEMMA StepCases ==
  ASSUME [Next]_vars
  PROVE  \/ \E w \in Workers :
              \/ Start(w) \/ RepostDone(w) \/ Fetch(w) \/ FetchFails(w) \/ FetchGivesUp(w)
              \/ PollReposts(w) \/ PollSkipsRepost(w) \/ Finish(w)
              \/ RunEnds(w) \/ Mark(w) \/ DrainEnds(w) \/ Terminate(w)
         \/ \E w \in Workers, n \in Nodes, answer \in {"accepted", "unheard", "refused"} :
              Repost(w, n, answer)
         \/ \E w \in Workers, n \in Nodes :
              Skip(w, n) \/ ClaimFails(w, n) \/ Refuse(w, n) \/ Claim(w, n)
         \/ \E w \in Workers, answer \in {"accepted", "unheard", "refused"}, raised \in BOOLEAN :
              Deliver(w, answer, raised)
         \/ \E g \in Pages : ForgetWrites(g) \/ \E n \in Nodes : ForgetReads(g, n)
         \/ \E p \in Procs : Kill(p)
         \/ \E n \in Nodes : Dispatch(n) \/ Close(n)
         \/ SwitchOff \/ SwitchOn \/ Corrupt
         \/ UNCHANGED vars
<1>1. ASSUME NEW w \in Workers, Worker(w) PROVE
         \/ Start(w) \/ RepostDone(w) \/ Fetch(w) \/ FetchFails(w) \/ FetchGivesUp(w)
         \/ PollReposts(w) \/ PollSkipsRepost(w) \/ Finish(w)
         \/ RunEnds(w) \/ Mark(w) \/ DrainEnds(w)
         \/ \E n \in Nodes, answer \in {"accepted", "unheard", "refused"} : Repost(w, n, answer)
         \/ \E n \in Nodes : Skip(w, n) \/ ClaimFails(w, n) \/ Refuse(w, n) \/ Claim(w, n)
         \/ \E answer \in {"accepted", "unheard", "refused"}, raised \in BOOLEAN :
              Deliver(w, answer, raised)
  BY <1>1 DEF Worker, RepostPending, Poll, Drain, Handle
<1> QED BY <1>1 DEF Next, Page, Environment

-----------------------------------------------------------------------------
(* Type correctness.                                                       *)

\* The file, what `load` makes of it and every process's copy are well formed.
LEMMA CopiesInPlay ==
  ASSUME TypeOK
  PROVE  disk \in Copies /\ Load \in Copies /\ \A p \in Procs : mem[p] \in Copies
  BY EmptyStateFacts DEF TypeOK, Copies, Load

\* A well-formed copy has its type.
LEMMA CopiesAreTyped ==
    \A s \in Copies : s \in StateFile /\ WellFormed(s)
  BY DEF Copies

\* What the process leaves behind is typed.
LEMMA LeaveTypes ==
  ASSUME TypeOK, NEW p \in Procs, Leave(p)
  PROVE  /\ lock' \in Procs \cup {NoProc} /\ pc' \in [Procs -> Labels]
         /\ mem' \in [Procs -> StateFile] /\ \A q \in Procs : WellFormed(mem'[q])
         /\ dirty' \in [Procs -> BOOLEAN]
         /\ todo' \in [Procs -> SUBSET Nodes] /\ batch' \in [Procs -> SUBSET Nodes]
         /\ cur' \in [Procs -> Nodes \cup {NoNode}] /\ held' \in [Procs -> BOOLEAN]
         /\ failures' \in [Procs -> Nat] /\ skips' \in [Procs -> Nat]
         /\ wanted' \in [Procs -> {"on", "off"}]
         /\ \A q \in Procs : pc'[q] \in {"run", "report", "mark", "forget"} => cur'[q] \in Nodes
<1>1. EmptyState \in StateFile /\ WellFormed(EmptyState)
  BY EmptyStateFacts DEF Copies
<1> QED BY <1>1 DEF TypeOK, Leave, Goto, Labels

\* A flush leaves a well-formed file.
LEMMA FlushTypes ==
  ASSUME TypeOK, NEW p \in Procs, Flush(p, mem[p])
  PROVE  readable' \in BOOLEAN /\ disk' \in StateFile /\ WellFormed(disk')
  BY DEF TypeOK, Flush, Write, store

\* A first start has the types.
LEMMA TypeInit == Init => TypeOK
  BY EmptyStateFacts, PollerAssumption
     DEF Init, TypeOK, Copies, Labels, Procs

\* Every step keeps the types.
LEMMA TypeNext == TypeOK /\ [Next]_vars => TypeOK'
<1> SUFFICES ASSUME TypeOK, [Next]_vars PROVE TypeOK'
  OBVIOUS
<1> USE PollerAssumption
<1>c. disk \in Copies /\ Load \in Copies /\ \A p \in Procs : mem[p] \in Copies
  BY CopiesInPlay
<1>s. Workers \subseteq Procs /\ Pages \subseteq Procs
  BY DEF Procs
<1>1. ASSUME NEW w \in Workers, Start(w) PROVE TypeOK'
  <2>1. Load \in StateFile /\ WellFormed(Load) /\ Load.pending \in SUBSET Nodes
    BY <1>c DEF Copies, StateFile
  <2> QED BY <1>1, <1>s, <2>1 DEF TypeOK, Start, Acquire, Goto, queueVars, store, Labels
<1>2. ASSUME NEW w \in Workers, NEW n \in Nodes,
             NEW answer \in {"accepted", "unheard", "refused"}, Repost(w, n, answer)
      PROVE  TypeOK'
  <2>1. mem' \in [Procs -> StateFile] /\ \A p \in Procs : WellFormed(mem'[p])
    <3>1. MarkSeen(Settle(mem[w], n), n) \in Copies
      BY <1>c, <1>s, SettleFacts, MarkSeenFacts
    <3> QED BY <1>2, <1>s, <3>1 DEF TypeOK, Repost, Copies
  <2>2. report' \in [Nodes -> {"none", "unsent", "received", "acked"}]
    BY <1>2 DEF TypeOK, Repost, Arrived
  <2> QED BY <1>2, <1>s, <2>1, <2>2 DEF TypeOK, Repost, queueVars, store
<1>3. ASSUME NEW w \in Workers, RepostDone(w) PROVE TypeOK'
  BY <1>3, <1>s, FlushTypes DEF TypeOK, RepostDone, Goto, queueVars, history, Labels
<1>4. ASSUME NEW w \in Workers, Fetch(w) PROVE TypeOK'
  BY <1>4, <1>s DEF TypeOK, Fetch, Feed, Goto, queueVars, store, history, Labels
<1>5. ASSUME NEW w \in Workers, FetchFails(w) PROVE TypeOK'
  BY <1>5, <1>s DEF TypeOK, FetchFails, Goto, queueVars, store, history, Labels
<1>6. ASSUME NEW w \in Workers, FetchGivesUp(w) PROVE TypeOK'
  BY <1>6, <1>s, FlushTypes, LeaveTypes DEF TypeOK, FetchGivesUp, queueVars, history
<1>7. ASSUME NEW w \in Workers, NEW n \in Nodes, Skip(w, n) PROVE TypeOK'
  BY <1>7, <1>s DEF TypeOK, Skip, queueVars, store, history
<1>8. ASSUME NEW w \in Workers, NEW n \in Nodes, ClaimFails(w, n) PROVE TypeOK'
  BY <1>8, <1>s, FlushTypes DEF TypeOK, ClaimFails, queueVars, history
<1>9. ASSUME NEW w \in Workers, NEW n \in Nodes, Refuse(w, n) PROVE TypeOK'
  <2>1. RefuseNode(mem[w], n) \in StateFile /\ WellFormed(RefuseNode(mem[w], n))
    BY <1>c, <1>s, RefuseFacts, CopiesAreTyped
  <2> QED BY <1>9, <1>s, <2>1
          DEF TypeOK, Refuse, Write, Goto, queueVars, history, Labels
<1>10. ASSUME NEW w \in Workers, NEW n \in Nodes, Claim(w, n) PROVE TypeOK'
  BY <1>10, <1>s DEF TypeOK, Claim, Goto, queueVars, store, history, Labels
<1>11. ASSUME NEW w \in Workers, RunEnds(w) PROVE TypeOK'
  BY <1>11, <1>s DEF TypeOK, RunEnds, Goto, queueVars, store, Labels
<1>12. ASSUME NEW w \in Workers, NEW answer \in {"accepted", "unheard", "refused"},
              NEW raised \in BOOLEAN, Deliver(w, answer, raised)
       PROVE  TypeOK'
  <2>1. Owe(mem[w], cur[w]) \in StateFile /\ WellFormed(Owe(mem[w], cur[w]))
    BY <1>c, <1>s, <1>12, CopiesAreTyped, OweFacts DEF TypeOK, Deliver
  <2>2. readable' \in BOOLEAN /\ disk' \in StateFile /\ WellFormed(disk')
    BY <1>12, <1>s, <2>1, FlushTypes DEF TypeOK, Deliver, Write
  <2>3. report' \in [Nodes -> {"none", "unsent", "received", "acked"}]
    BY <1>12, <1>s DEF TypeOK, Deliver, Arrived
  <2>4. mem' \in [Procs -> StateFile] /\ \A p \in Procs : WellFormed(mem'[p])
    BY <1>12, <1>s, <2>1 DEF TypeOK, Deliver
  <2> QED BY <1>12, <1>s, <2>2, <2>3, <2>4
          DEF TypeOK, Deliver, Goto, queueVars, Labels
<1>13. ASSUME NEW w \in Workers, Mark(w) PROVE TypeOK'
  <2>1. MarkSeen(mem[w], cur[w]) \in StateFile /\ WellFormed(MarkSeen(mem[w], cur[w]))
    BY <1>c, <1>s, <1>13, CopiesAreTyped, MarkSeenFacts DEF TypeOK, Mark
  <2>2. mem' \in [Procs -> StateFile] /\ \A p \in Procs : WellFormed(mem'[p])
    BY <1>13, <1>s, <2>1 DEF TypeOK, Mark
  <2> QED BY <1>13, <1>s, <2>2 DEF TypeOK, Mark, Write, Goto, queueVars, Labels
<1>14. ASSUME NEW w \in Workers, DrainEnds(w) PROVE TypeOK'
  <2>1. mem[w] \in Copies
    BY <1>c, <1>s
  <2>2. ASSUME NEW t \in Newest(mem[w], batch[w])
        PROVE  [mem[w] EXCEPT !.timestamp = t] \in Copies
    <3>1. t \in Nat
      BY <1>s, <2>1 DEF TypeOK, Newest, Stamps, Copies, StateFile
    <3> QED BY <2>1, <3>1 DEF Copies, StateFile, WellFormed
  <2>3. mem' \in [Procs -> StateFile] /\ \A p \in Procs : WellFormed(mem'[p])
    BY <1>14, <1>s, <2>2 DEF TypeOK, DrainEnds, Copies
  <2> QED BY <1>14, <1>s, <2>3
          DEF TypeOK, DrainEnds, Goto, queueVars, store, history, Labels
<1>15. ASSUME NEW w \in Workers, PollReposts(w) PROVE TypeOK'
  <2>1. mem[w].pending \in SUBSET Nodes
    BY <1>c, <1>s DEF Copies, StateFile
  <2> QED BY <1>15, <1>s, <2>1
          DEF TypeOK, PollReposts, Goto, queueVars, store, history, Labels
<1>16. ASSUME NEW w \in Workers, PollSkipsRepost(w) PROVE TypeOK'
  BY <1>16, <1>s DEF TypeOK, PollSkipsRepost, Goto, queueVars, store, history, Labels
<1>17. ASSUME NEW w \in Workers, Finish(w) PROVE TypeOK'
  BY <1>17, <1>s, FlushTypes, LeaveTypes DEF TypeOK, Finish, queueVars, history
<1>18. ASSUME NEW g \in Pages, NEW n \in Nodes, ForgetReads(g, n) PROVE TypeOK'
  <2>1. Load \in StateFile /\ WellFormed(Load)
    BY <1>c, CopiesAreTyped
  <2> QED BY <1>18, <1>s, <2>1
          DEF TypeOK, ForgetReads, Acquire, Goto, queueVars, store, history, Labels
<1>19. ASSUME NEW g \in Pages, ForgetWrites(g) PROVE TypeOK'
  <2>1. readable' \in BOOLEAN /\ disk' \in StateFile /\ WellFormed(disk')
    <3>1. cur[g] \in Seen(mem[g]) => ForgetNode(mem[g], cur[g]) \in Copies
      BY <1>c, <1>s, ForgetNodeFacts
    <3> QED BY <1>19, <3>1 DEF TypeOK, ForgetWrites, Write, store, Copies
  <2>2. spent' \in SUBSET Nodes
    BY <1>19 DEF TypeOK, ForgetWrites
  <2>3. Leave(g)
    BY <1>19 DEF ForgetWrites
  <2> QED BY <1>19, <1>s, <2>1, <2>2, <2>3, LeaveTypes DEF TypeOK, ForgetWrites, queueVars
<1>20. CASE Environment
  <2>1. ASSUME NEW n \in Nodes, Dispatch(n) \/ Close(n) PROVE TypeOK'
    BY <2>1 DEF TypeOK, Dispatch, Close, store, locals, history
  <2>2. CASE SwitchOff \/ SwitchOn
    BY <2>2 DEF TypeOK, SwitchOff, SwitchOn, store, locals, history
  <2>3. CASE Corrupt
    <3>1. EmptyState \in StateFile /\ WellFormed(EmptyState)
      BY EmptyStateFacts, CopiesAreTyped
    <3>2. readable' \in BOOLEAN /\ disk' = EmptyState
      BY <2>3 DEF Corrupt
    <3>3. disk' \in StateFile /\ WellFormed(disk')
      BY <3>1, <3>2
    <3>4. faults' \in Nat /\ UNCHANGED <<queueVars, lock, locals, history>>
      BY <2>3 DEF TypeOK, Corrupt
    <3> QED BY <3>2, <3>3, <3>4 DEF TypeOK, queueVars, locals, history
  <2>4. ASSUME NEW p \in Procs, Kill(p) PROVE TypeOK'
    BY <2>4, LeaveTypes DEF TypeOK, Kill, queueVars, store
  <2>5. ASSUME NEW w \in Workers, Terminate(w) PROVE TypeOK'
    BY <2>5, <1>s, LeaveTypes, FlushTypes DEF TypeOK, Terminate, queueVars
  <2> QED BY <1>20, <2>1, <2>2, <2>3, <2>4, <2>5 DEF Environment
<1>21. CASE UNCHANGED vars
  BY <1>21 DEF TypeOK, vars, queueVars, store, locals, history
<1> QED BY <1>1, <1>2, <1>3, <1>4, <1>5, <1>6, <1>7, <1>8, <1>9, <1>10, <1>11, <1>12, <1>13,
           <1>14, <1>15, <1>16, <1>17, <1>18, <1>19, <1>20, <1>21
        DEF Next, Worker, Page, RepostPending, Poll, Drain, Handle

\* Every variable keeps its type; `seen` never outgrows SEEN_LIMIT and never
\* lists a node twice, whichever processes ran, died and wrote.
THEOREM TypeCorrect == Spec => []TypeOK
  BY TypeInit, TypeNext, PTL DEF Spec

-----------------------------------------------------------------------------
(* One writer: only the holder of the flock runs, and what its copy and    *)
(* the file differ in is unsaved.                                          *)

\* Every step leaves at most one process running, the one that holds the flock.
LEMMA OneWriterNext == TypeOK /\ OneWriter /\ [Next]_vars => OneWriter'
<1> SUFFICES ASSUME TypeOK, OneWriter, [Next]_vars PROVE OneWriter'
  OBVIOUS
<1> USE PollerAssumption
<1>s. /\ Workers \subseteq Procs /\ Pages \subseteq Procs /\ NoProc \notin Procs
      /\ \A w \in Workers : w \notin Pages
      /\ pc \in [Procs -> Labels] /\ dirty \in [Procs -> BOOLEAN]
  BY DEF Procs, TypeOK
<1>1. ASSUME NEW w \in Workers, Start(w) PROVE OneWriter'
  BY <1>1, <1>s DEF OneWriter, Live, Start, Acquire, Goto
<1>2. ASSUME NEW w \in Workers, NEW n \in Nodes,
             NEW answer \in {"accepted", "unheard", "refused"}, Repost(w, n, answer)
      PROVE  OneWriter'
  BY <1>2, <1>s DEF OneWriter, Live, Repost
<1>3. ASSUME NEW w \in Workers,
             RepostDone(w) \/ Fetch(w) \/ FetchFails(w) \/ PollReposts(w) \/ PollSkipsRepost(w)
      PROVE  OneWriter'
  BY <1>3, <1>s DEF OneWriter, Live, RepostDone, Fetch, FetchFails, PollReposts,
                    PollSkipsRepost, Goto
<1>4. ASSUME NEW p \in Procs, Live(p), Leave(p) PROVE OneWriter'
  BY <1>4, <1>s DEF OneWriter, Live, Leave, Goto
<1>5. ASSUME NEW w \in Workers, NEW n \in Nodes, Handle(w, n) PROVE OneWriter'
  BY <1>5, <1>s DEF OneWriter, Live, Handle, Skip, ClaimFails, Refuse, Claim, Unseen, Goto
<1>6. ASSUME NEW w \in Workers, RunEnds(w) \/ Mark(w) \/ DrainEnds(w) PROVE OneWriter'
  BY <1>6, <1>s DEF OneWriter, Live, RunEnds, Mark, DrainEnds, Goto
<1>7. ASSUME NEW w \in Workers, NEW answer \in {"accepted", "unheard", "refused"},
              NEW raised \in BOOLEAN, Deliver(w, answer, raised)
      PROVE  OneWriter'
  BY <1>7, <1>s DEF OneWriter, Live, Deliver, Goto
<1>8. ASSUME NEW w \in Workers, FetchGivesUp(w) \/ Finish(w) \/ Terminate(w)
      PROVE  OneWriter'
  BY <1>8, <1>4, <1>s DEF FetchGivesUp, Finish, Terminate, Live
<1>9. ASSUME NEW g \in Pages, NEW n \in Nodes, ForgetReads(g, n) PROVE OneWriter'
  BY <1>9, <1>s DEF OneWriter, Live, ForgetReads, Acquire, Goto
<1>10. ASSUME NEW g \in Pages, ForgetWrites(g) PROVE OneWriter'
  BY <1>10, <1>4, <1>s DEF ForgetWrites, Live
<1>11. ASSUME NEW p \in Procs, Kill(p) PROVE OneWriter'
  BY <1>11, <1>4 DEF Kill, Live
<1>12. ASSUME UNCHANGED <<lock, locals>> PROVE OneWriter'
  BY <1>12 DEF OneWriter, Live, locals
<1>13. CASE Environment
  BY <1>8, <1>11, <1>12, <1>13 DEF Environment, Dispatch, Close, SwitchOff, SwitchOn, Corrupt
<1>14. CASE UNCHANGED vars
  BY <1>12, <1>14 DEF vars
<1> QED BY <1>1, <1>2, <1>3, <1>5, <1>6, <1>7, <1>8, <1>9, <1>10, <1>13, <1>14
        DEF Next, Worker, Page, RepostPending, Poll, Drain

\* A claim about every live copy is one about the holder of the flock.
LEMMA SyncedIfHolderIs ==
  ASSUME OneWriter', NEW p \in Procs, lock' = p,
         ~dirty'[p] /\ readable' => disk' = mem'[p],
         readable' /\ pc'[p] # "repost" =>
            /\ mem'[p].seen = disk'.seen
            /\ mem'[p].refused = disk'.refused
            /\ mem'[p].pending = disk'.pending
  PROVE  FlushedIsOnDisk' /\ OnlyCursorUnsaved'
  BY DEF OneWriter, Live, FlushedIsOnDisk, OnlyCursorUnsaved

\* With nobody running, nothing is unsaved.
LEMMA SyncedIfNoneHolds ==
  ASSUME OneWriter', lock' = NoProc
  PROVE  FlushedIsOnDisk' /\ OnlyCursorUnsaved'
  BY PollerAssumption DEF OneWriter, Live, FlushedIsOnDisk, OnlyCursorUnsaved, Procs

\* Every step keeps the file and the running copy the same but for the cursor.
LEMMA SyncedNext ==
  TypeOK /\ OneWriter /\ FlushedIsOnDisk /\ OnlyCursorUnsaved /\ [Next]_vars
    => FlushedIsOnDisk' /\ OnlyCursorUnsaved'
<1> SUFFICES ASSUME TypeOK, OneWriter, FlushedIsOnDisk, OnlyCursorUnsaved, [Next]_vars
             PROVE  FlushedIsOnDisk' /\ OnlyCursorUnsaved'
  OBVIOUS
<1> USE PollerAssumption
<1>s. Workers \subseteq Procs /\ Pages \subseteq Procs /\ OneWriter'
  BY OneWriterNext DEF Procs
<1>t. /\ pc \in [Procs -> Labels] /\ dirty \in [Procs -> BOOLEAN]
      /\ mem \in [Procs -> StateFile]
  BY DEF TypeOK
<1>m. ASSUME NEW p \in Procs, Live(p)
      PROVE  /\ lock = p
             /\ ~dirty[p] /\ readable => disk = mem[p]
             /\ readable /\ pc[p] # "repost" =>
                   /\ mem[p].seen = disk.seen
                   /\ mem[p].refused = disk.refused
                   /\ mem[p].pending = disk.pending
  BY <1>m DEF OneWriter, Live, FlushedIsOnDisk, OnlyCursorUnsaved
<1>1. ASSUME NEW w \in Workers, Start(w) PROVE FlushedIsOnDisk' /\ OnlyCursorUnsaved'
  <2>1. lock' = w /\ mem'[w] = Load /\ pc'[w] = "repost" /\ UNCHANGED store
    BY <1>1, <1>s, <1>t DEF Start, Acquire, Goto
  <2>2. readable' => disk' = mem'[w]
    BY <2>1 DEF Load, store
  <2> QED BY <1>s, <2>1, <2>2, SyncedIfHolderIs
<1>2. ASSUME NEW w \in Workers, NEW n \in Nodes,
             NEW answer \in {"accepted", "unheard", "refused"}, Repost(w, n, answer)
      PROVE  FlushedIsOnDisk' /\ OnlyCursorUnsaved'
  <2>1. Live(w) /\ lock' = lock /\ UNCHANGED store /\ pc'[w] = "repost"
    BY <1>2 DEF Repost, Live
  <2>2. ~dirty'[w] => ~dirty[w] /\ mem' = mem
    BY <1>2, <1>s, <1>t DEF Repost
  <2> QED BY <1>s, <1>m, <2>1, <2>2, SyncedIfHolderIs DEF store
<1>3. ASSUME NEW w \in Workers, RepostDone(w) PROVE FlushedIsOnDisk' /\ OnlyCursorUnsaved'
  <2>1. Live(w) /\ lock' = lock /\ mem' = mem /\ Flush(w, mem[w])
    BY <1>3 DEF RepostDone, Live
  <2>2. readable' => disk' = mem'[w]
    BY <1>s, <1>m, <2>1 DEF Flush, Write, store
  <2> QED BY <1>s, <1>m, <2>1, <2>2, SyncedIfHolderIs
<1>4. ASSUME NEW w \in Workers,
             \/ Fetch(w) \/ FetchFails(w) \/ PollReposts(w) \/ PollSkipsRepost(w) \/ RunEnds(w)
             \/ \E n \in Nodes : Skip(w, n) \/ Claim(w, n)
      PROVE  FlushedIsOnDisk' /\ OnlyCursorUnsaved'
  <2>1. Live(w) /\ pc[w] # "repost" /\ UNCHANGED <<lock, mem, dirty, store>>
    BY <1>4 DEF Live, Fetch, FetchFails, PollReposts, PollSkipsRepost, Skip, Claim, Unseen,
                RunEnds
  <2> QED BY <1>s, <1>m, <2>1, SyncedIfHolderIs DEF store
<1>5. ASSUME NEW p \in Procs, Leave(p) PROVE FlushedIsOnDisk' /\ OnlyCursorUnsaved'
  BY <1>5, <1>s, SyncedIfNoneHolds DEF Leave
<1>6. ASSUME NEW w \in Workers, NEW n \in Nodes, ClaimFails(w, n)
      PROVE  FlushedIsOnDisk' /\ OnlyCursorUnsaved'
  <2>1. Live(w) /\ lock' = lock /\ mem' = mem /\ Flush(w, mem[w])
    BY <1>6 DEF ClaimFails, Unseen, Live
  <2>2. readable' => disk' = mem'[w]
    BY <1>s, <1>m, <2>1 DEF Flush, Write, store
  <2> QED BY <1>s, <1>m, <2>1, <2>2, SyncedIfHolderIs
<1>7. ASSUME NEW w \in Workers, Mark(w) \/ \E n \in Nodes : Refuse(w, n)
      PROVE  FlushedIsOnDisk' /\ OnlyCursorUnsaved'
  <2>1. Live(w) /\ lock' = lock /\ disk' = mem'[w]
    BY <1>7 DEF Refuse, Mark, Unseen, Write, Live
  <2> QED BY <1>s, <1>m, <2>1, SyncedIfHolderIs
<1>8. ASSUME NEW w \in Workers, NEW answer \in {"accepted", "unheard", "refused"},
             NEW raised \in BOOLEAN, Deliver(w, answer, raised)
      PROVE  FlushedIsOnDisk' /\ OnlyCursorUnsaved'
  <2>1. Live(w) /\ lock' = lock /\ (disk' = mem'[w] \/ (mem' = mem /\ Flush(w, mem[w])))
    BY <1>8 DEF Deliver, Write, Live
  <2>2. readable' => disk' = mem'[w]
    BY <1>s, <1>m, <2>1 DEF Flush, Write, store
  <2> QED BY <1>s, <1>m, <2>1, <2>2, SyncedIfHolderIs
<1>9. ASSUME NEW w \in Workers, DrainEnds(w) PROVE FlushedIsOnDisk' /\ OnlyCursorUnsaved'
  <2>1. Live(w) /\ pc[w] # "repost" /\ lock' = lock /\ UNCHANGED store
    BY <1>9 DEF DrainEnds, Live
  <2>2. ~dirty'[w] => ~dirty[w] /\ mem' = mem
    BY <1>9, <1>s, <1>t DEF DrainEnds
  <2>3. /\ mem'[w].seen = mem[w].seen /\ mem'[w].refused = mem[w].refused
        /\ mem'[w].pending = mem[w].pending
    BY <1>9, <1>s, <1>t DEF DrainEnds, StateFile
  <2> QED BY <1>s, <1>m, <2>1, <2>2, <2>3, SyncedIfHolderIs DEF store
<1>10. ASSUME NEW g \in Pages, NEW n \in Nodes, ForgetReads(g, n)
       PROVE  FlushedIsOnDisk' /\ OnlyCursorUnsaved'
  <2>1. lock' = g /\ mem'[g] = disk /\ UNCHANGED store
    BY <1>10, <1>s, <1>t DEF ForgetReads, Acquire, Load
  <2> QED BY <1>s, <2>1, SyncedIfHolderIs DEF store
<1>11. ASSUME NEW p \in Procs,
              \/ p \in Workers /\ (FetchGivesUp(p) \/ Finish(p) \/ Terminate(p))
              \/ p \in Pages /\ ForgetWrites(p)
              \/ Kill(p)
       PROVE  FlushedIsOnDisk' /\ OnlyCursorUnsaved'
  BY <1>5, <1>11 DEF FetchGivesUp, Finish, Terminate, ForgetWrites, Kill
<1>12. ASSUME UNCHANGED <<lock, locals>>, UNCHANGED store \/ Corrupt
       PROVE  FlushedIsOnDisk' /\ OnlyCursorUnsaved'
  BY <1>12 DEF FlushedIsOnDisk, OnlyCursorUnsaved, locals, store, Corrupt
<1>13. ASSUME \/ \E n \in Nodes : Dispatch(n) \/ Close(n)
              \/ SwitchOff \/ SwitchOn \/ Corrupt \/ UNCHANGED vars
       PROVE  FlushedIsOnDisk' /\ OnlyCursorUnsaved'
  BY <1>12, <1>13 DEF Dispatch, Close, SwitchOff, SwitchOn, Corrupt, vars
<1>14. ASSUME NEW w \in Workers,
              \/ Start(w) \/ RepostDone(w) \/ Fetch(w) \/ FetchFails(w) \/ FetchGivesUp(w)
              \/ PollReposts(w) \/ PollSkipsRepost(w) \/ Finish(w)
              \/ RunEnds(w) \/ Mark(w) \/ DrainEnds(w) \/ Terminate(w)
       PROVE  FlushedIsOnDisk' /\ OnlyCursorUnsaved'
  BY <1>1, <1>3, <1>4, <1>7, <1>9, <1>11, <1>14, <1>s
<1>15. ASSUME NEW w \in Workers, NEW n \in Nodes,
              Skip(w, n) \/ ClaimFails(w, n) \/ Refuse(w, n) \/ Claim(w, n)
       PROVE  FlushedIsOnDisk' /\ OnlyCursorUnsaved'
  BY <1>4, <1>6, <1>7, <1>15
<1>16. ASSUME NEW g \in Pages, ForgetWrites(g) \/ \E n \in Nodes : ForgetReads(g, n)
       PROVE  FlushedIsOnDisk' /\ OnlyCursorUnsaved'
  BY <1>10, <1>11, <1>16, <1>s
<1> QED BY <1>2, <1>8, <1>11, <1>13, <1>14, <1>15, <1>16, StepCases

-----------------------------------------------------------------------------
(* The copy stays sound from step to step, and the file with it.           *)

\* Outside the re-post loop the file is sound because the copy is.
LEMMA FileFollowsCopy ==
  ASSUME OneWriter', OnlyCursorUnsaved', NEW p \in Procs, lock' = p, pc'[p] # "repost",
         CopyIsSound(p)'
  PROVE  FileIsSound'
<1>1. /\ pc'[p] # "off" /\ (pc'[p] \in {"report", "mark"} => p \in Workers)
      /\ \A q \in Procs : pc'[q] # "off" => q = p
  BY DEF OneWriter, Live, Procs
<1>2. readable' => /\ Seen(disk)' = Seen(mem[p])' /\ disk'.refused = mem'[p].refused
                   /\ disk'.pending = mem'[p].pending
  BY <1>1 DEF OnlyCursorUnsaved, Seen
<1>3. RunsAreOnFile'
  BY <1>1, <1>2 DEF RunsAreOnFile, CopyIsSound, InHand
<1>4. NoReportLost'
  BY <1>1, <1>2 DEF NoReportLost, CopyIsSound, InHand
<1>5. SeenIsAccountedFor'
  BY <1>1, <1>2 DEF SeenIsAccountedFor, CopyIsSound, Accounted
<1>6. UnsavedDebtsArePaid'
  BY <1>1, <1>2 DEF UnsavedDebtsArePaid, Live
<1> QED BY <1>3, <1>4, <1>5, <1>6 DEF FileIsSound

\* A step after which p runs needs to keep p's copy sound, no other.
LEMMA SoundIfHolderIs ==
  ASSUME OneWriter', NEW p \in Procs, lock' = p, CopyIsSound(p)'
  PROVE  \A q \in Procs : Live(q)' => CopyIsSound(q)'
  BY DEF OneWriter, Live

\* With nobody running, the file alone has to be sound: it lists what was run,
\* owes what was not delivered, and has a cause for every mark.
LEMMA SoundIfNoneHolds ==
  ASSUME OneWriter', lock' = NoProc,
         readable' => /\ \A n \in spent' : n \in Seen(disk)'
                      /\ \A n \in spent' : report'[n] # "none" \/ n \in disk'.pending
                      /\ \A n \in Seen(disk)' : Accounted(n, disk)'
  PROVE  FileIsSound' /\ \A q \in Procs : Live(q)' => CopyIsSound(q)'
<1>1. \A q \in Procs : pc'[q] = "off"
  BY PollerAssumption DEF OneWriter, Live, Procs
<1> QED BY <1>1 DEF Live, FileIsSound, RunsAreOnFile, NoReportLost, SeenIsAccountedFor,
                    UnsavedDebtsArePaid, InHand, Accounted

Sound == FileIsSound /\ \A p \in Procs : Live(p) => CopyIsSound(p)

\* A step that changes neither the copy's content, what is in hand nor what is
\* known of the runs keeps a sound copy sound.
LEMMA QuietStep ==
  ASSUME OneWriter', OnlyCursorUnsaved', NEW p \in Procs, lock' = p, CopyIsSound(p),
         pc[p] \notin {"report", "mark"}, pc'[p] \notin {"run", "report", "mark", "repost"},
         mem'[p].seen = mem[p].seen, mem'[p].refused = mem[p].refused,
         mem'[p].pending = mem[p].pending, UNCHANGED history
  PROVE  Sound'
<1>1. CopyIsSound(p)'
  BY DEF CopyIsSound, Accounted, Seen, history
<1> QED BY <1>1, FileFollowsCopy, SoundIfHolderIs DEF Sound

\* Every step keeps the running copy and the file sound.
LEMMA SoundNext == Inductive /\ [Next]_vars => Sound'
<1> SUFFICES ASSUME Inductive, [Next]_vars PROVE Sound'
  OBVIOUS
<1> USE PollerAssumption
<1>s. Workers \subseteq Procs /\ Pages \subseteq Procs /\ OneWriter' /\ OnlyCursorUnsaved'
  BY OneWriterNext, SyncedNext DEF Procs, Inductive
<1>t. /\ pc \in [Procs -> Labels] /\ dirty \in [Procs -> BOOLEAN]
      /\ mem \in [Procs -> StateFile] /\ cur \in [Procs -> Nodes \cup {NoNode}]
      /\ report \in [Nodes -> {"none", "unsent", "received", "acked"}]
      /\ spent \subseteq Nodes
      /\ \A p \in Procs : pc[p] \in {"run", "report", "mark", "forget"} => cur[p] \in Nodes
  BY DEF TypeOK, Inductive
<1>c. disk \in Copies /\ \A p \in Procs : mem[p] \in Copies /\ Seen(mem[p]) \subseteq Nodes
  BY CopiesInPlay, SeenIsNodes DEF Inductive, Copies
<1>m. ASSUME NEW p \in Procs, Live(p)
      PROVE  /\ lock = p /\ CopyIsSound(p)
             /\ \A q \in Procs : Live(q) => q = p
             /\ ~dirty[p] /\ readable => disk = mem[p]
  BY <1>m DEF Inductive, OneWriter, FlushedIsOnDisk, Live
<1>f. FileIsSound
  BY DEF Inductive
\* While nobody posts or marks, the file alone is sound.
<1>r. ASSUME readable, \A q \in Procs : pc[q] \notin {"report", "mark"}
      PROVE  /\ \A n \in spent : n \in Seen(disk)
             /\ \A n \in spent : report[n] # "none" \/ n \in disk.pending
             /\ \A n \in Seen(disk) : Accounted(n, disk)
  BY <1>f, <1>r, <1>s
     DEF FileIsSound, RunsAreOnFile, NoReportLost, SeenIsAccountedFor, InHand, Accounted
<1>0. ASSUME lock = NoProc PROVE \A q \in Procs : pc[q] = "off"
  BY <1>0 DEF Inductive, OneWriter, Live, Procs
<1>1. ASSUME NEW w \in Workers, Start(w) PROVE Sound'
  <2>1. /\ \A q \in Procs : pc[q] = "off"
        /\ lock' = w /\ pc' = [pc EXCEPT ![w] = "repost"] /\ mem' = [mem EXCEPT ![w] = Load]
        /\ UNCHANGED store /\ report' = report
    BY <1>1, <1>0 DEF Start, Acquire, Goto
  <2>2. CASE readable
    <3>1. mem'[w] = disk /\ spent' = spent
      BY <1>1, <1>s, <1>t, <2>1, <2>2 DEF Start, Load
    <3>2. CopyIsSound(w)'
      BY <1>r, <1>s, <1>t, <2>1, <2>2, <3>1 DEF CopyIsSound, Accounted, Seen
    <3>3. \A q \in Procs : Live(q)' => q = w
      BY <1>t, <2>1 DEF Live
    <3>4. FileIsSound'
      BY <1>r, <2>1, <2>2, <3>1, <3>3
         DEF FileIsSound, RunsAreOnFile, NoReportLost, SeenIsAccountedFor, UnsavedDebtsArePaid,
             Accounted, store, Seen
    <3> QED BY <1>s, <2>1, <3>2, <3>4, SoundIfHolderIs DEF Sound
  <2>3. CASE ~readable
    <3>1. mem'[w] = EmptyState /\ spent' = {}
      BY <1>1, <1>s, <1>t, <2>1, <2>3 DEF Start, Load
    <3>2. CopyIsSound(w)'
      BY <1>s, <1>t, <2>1, <3>1, EmptyStateFacts DEF CopyIsSound, Seen
    <3>3. FileIsSound'
      BY <2>1, <2>3 DEF FileIsSound, RunsAreOnFile, NoReportLost, SeenIsAccountedFor,
                        UnsavedDebtsArePaid, store
    <3> QED BY <1>s, <2>1, <3>2, <3>3, SoundIfHolderIs DEF Sound
  <2> QED BY <2>2, <2>3
<1>2. ASSUME NEW w \in Workers, NEW n \in Nodes,
             NEW answer \in {"accepted", "unheard", "refused"}, Repost(w, n, answer)
      PROVE  Sound'
  <2>1. /\ Live(w) /\ pc[w] = "repost" /\ pc' = pc /\ lock' = lock /\ UNCHANGED store
        /\ \A q \in Procs : pc[q] \notin {"report", "mark"}
    BY <1>2, <1>m, <1>s DEF Repost, Live
  <2>2. /\ report'[n] # "none" \/ report'[n] = report[n]
        /\ answer = "accepted" => report'[n] = "acked"
        /\ report[n] \in {"received", "acked"} => report'[n] \in {"received", "acked"}
        /\ \A m \in Nodes \ {n} : report'[m] = report[m]
    BY <1>2, <1>t DEF Repost, Arrived
  <2>3. /\ CopyIsSound(w)' /\ spent' \subseteq spent
        /\ mem'[w].pending = mem[w].pending \/ ( /\ answer = "accepted"
                                                /\ mem'[w].pending = mem[w].pending \ {n})
    <3>1. CASE answer = "accepted"
      <4> DEFINE M == MarkSeen(Settle(mem[w], n), n)
      <4>1. mem'[w] = M /\ spent' = spent \ (Seen(mem[w]) \ Seen(M))
        <5>1. Seen(M) = Seen(MarkSeen(mem[w], n))
          BY <1>c, <1>s, SettleFacts
        <5> HIDE DEF M
        <5>2. mem'[w] = M
          BY <1>2, <1>s, <1>t, <3>1 DEF Repost, M
        <5> QED BY <1>2, <3>1, <5>1, <5>2 DEF Repost, Evicted
      <4>2. /\ Settle(mem[w], n) \in Copies /\ Seen(Settle(mem[w], n)) = Seen(mem[w])
            /\ Settle(mem[w], n).refused = mem[w].refused
            /\ Settle(mem[w], n).pending = mem[w].pending \ {n}
        BY <1>c, <1>s, SettleFacts
      <4>3. /\ n \in Seen(M) /\ Seen(M) \subseteq Seen(mem[w]) \cup {n}
            /\ M.pending = mem[w].pending \ {n}
            /\ \A m \in Seen(M) : m \in mem[w].refused => m \in M.refused
        BY <4>2, MarkSeenFacts
      <4> HIDE DEF M
      <4>4. CopyIsSound(w)
        BY <1>m, <1>s, <2>1
      <4>5. CopyIsSound(w)'
        BY <1>c, <1>s, <1>t, <2>1, <2>2, <3>1, <4>1, <4>3, <4>4 DEF CopyIsSound, Accounted
      <4> QED BY <3>1, <4>1, <4>3, <4>5
    <3>2. CASE answer # "accepted"
      <4>1. mem' = mem /\ spent' = spent
        BY <1>2, <3>2 DEF Repost
      <4>2. CopyIsSound(w)
        BY <1>m, <1>s, <2>1
      <4> QED BY <1>c, <1>s, <1>t, <2>1, <2>2, <4>1, <4>2 DEF CopyIsSound, Accounted
    <3> QED BY <3>1, <3>2
  <2>4. FileIsSound'
    <3> SUFFICES ASSUME readable PROVE FileIsSound'
      BY <2>1 DEF FileIsSound, RunsAreOnFile, NoReportLost, SeenIsAccountedFor,
                  UnsavedDebtsArePaid, store
    <3>1. Seen(disk)' = Seen(disk) /\ disk' = disk /\ readable' = readable
      BY <2>1 DEF store, Seen
    <3>2. Seen(disk) \subseteq Nodes /\ disk.pending \subseteq Nodes
      BY <1>c, SeenIsNodes DEF Copies, StateFile
    <3>3. \A m \in disk.pending \ mem'[w].pending : report'[m] \in {"received", "acked"}
      BY <1>f, <1>s, <2>1, <2>2, <2>3, <3>2 DEF FileIsSound, UnsavedDebtsArePaid
    <3>4. \A q \in Procs : Live(q)' => q = w
      BY <1>m, <1>s, <2>1 DEF Live
    <3>5. RunsAreOnFile'
      BY <1>r, <2>1, <2>3, <3>1 DEF RunsAreOnFile
    <3>6. NoReportLost'
      BY <1>r, <1>t, <2>1, <2>2, <2>3, <3>1 DEF NoReportLost
    <3>7. SeenIsAccountedFor'
      BY <1>r, <2>1, <2>2, <3>1, <3>2 DEF SeenIsAccountedFor, Accounted
    <3> QED BY <3>1, <3>3, <3>4, <3>5, <3>6, <3>7 DEF FileIsSound, UnsavedDebtsArePaid
  <2> QED BY <1>m, <1>s, <2>1, <2>3, <2>4, SoundIfHolderIs DEF Sound
<1>3. ASSUME NEW w \in Workers,
             \/ RepostDone(w) \/ Fetch(w) \/ FetchFails(w) \/ PollSkipsRepost(w)
             \/ \E n \in Nodes : Skip(w, n) \/ ClaimFails(w, n)
      PROVE  Sound'
  <2>1. /\ Live(w) /\ lock' = lock /\ mem' = mem /\ UNCHANGED history
        /\ pc[w] \notin {"report", "mark"}
        /\ pc'[w] \notin {"run", "report", "mark", "repost"}
    BY <1>3, <1>s, <1>t DEF Live, RepostDone, Fetch, FetchFails, PollSkipsRepost, Skip,
                            ClaimFails, Unseen, Goto
  <2> QED BY <1>m, <1>s, <2>1, QuietStep
<1>4. ASSUME NEW w \in Workers, DrainEnds(w) PROVE Sound'
  <2>1. /\ Live(w) /\ lock' = lock /\ UNCHANGED history
        /\ pc[w] = "drain" /\ pc'[w] = "sleep"
    BY <1>4, <1>s, <1>t DEF Live, DrainEnds, Goto
  <2>2. /\ mem'[w].seen = mem[w].seen /\ mem'[w].refused = mem[w].refused
        /\ mem'[w].pending = mem[w].pending
    BY <1>4, <1>s, <1>t DEF DrainEnds, StateFile
  <2> QED BY <1>m, <1>s, <2>1, <2>2, QuietStep
<1>5. ASSUME NEW w \in Workers, PollReposts(w) PROVE Sound'
  <2>1. /\ Live(w) /\ pc[w] = "sleep" /\ pc' = [pc EXCEPT ![w] = "repost"]
        /\ lock' = lock /\ mem' = mem /\ cur' = cur /\ UNCHANGED <<store, history>>
    BY <1>5 DEF Live, PollReposts, Goto
  <2>2. \A q \in Procs : pc[q] \notin {"report", "mark"}
    BY <1>m, <1>s, <2>1 DEF Live
  <2>3. CopyIsSound(w)'
    BY <1>m, <1>s, <1>t, <2>1 DEF CopyIsSound, Accounted, history
  <2>4. UnsavedDebtsArePaid'
    BY <1>f, <1>s, <1>t, <2>1 DEF FileIsSound, UnsavedDebtsArePaid, Live, store, history
  <2>5. RunsAreOnFile' /\ NoReportLost' /\ SeenIsAccountedFor'
    BY <1>r, <2>1, <2>2 DEF RunsAreOnFile, NoReportLost, SeenIsAccountedFor, Accounted, store,
                            history, Seen
  <2> QED BY <1>m, <1>s, <2>1, <2>3, <2>4, <2>5, SoundIfHolderIs DEF Sound, FileIsSound
<1>6. ASSUME NEW w \in Workers, NEW n \in Nodes, Claim(w, n) PROVE Sound'
  <2>1. /\ Live(w) /\ lock' = lock /\ mem' = mem /\ UNCHANGED history
        /\ pc[w] = "drain" /\ pc'[w] = "run" /\ cur'[w] = n /\ n \notin Seen(mem[w])
    BY <1>6, <1>s, <1>t DEF Live, Claim, Unseen, Goto
  <2>2. CopyIsSound(w)'
    BY <1>m, <1>s, <2>1 DEF CopyIsSound, Accounted, history
  <2> QED BY <1>m, <1>s, <2>1, <2>2, FileFollowsCopy, SoundIfHolderIs DEF Sound
<1>7. ASSUME NEW w \in Workers, NEW n \in Nodes, Refuse(w, n) PROVE Sound'
  <2>1. /\ Live(w) /\ lock' = lock /\ UNCHANGED history /\ mem'[w] = RefuseNode(mem[w], n)
        /\ pc[w] = "drain" /\ pc'[w] = "mark" /\ cur'[w] = n /\ n \notin Seen(mem[w])
    BY <1>7, <1>s, <1>t DEF Live, Refuse, Unseen, Goto
  <2>2. /\ Seen(mem'[w]) = Seen(mem[w]) /\ mem'[w].refused = mem[w].refused \cup {n}
        /\ mem'[w].pending = mem[w].pending
    BY <1>c, <1>s, <2>1, RefuseFacts
  <2>3. CopyIsSound(w)'
    BY <1>m, <1>s, <2>1, <2>2 DEF CopyIsSound, Accounted, history
  <2> QED BY <1>m, <1>s, <2>1, <2>3, FileFollowsCopy, SoundIfHolderIs DEF Sound
<1>8. ASSUME NEW w \in Workers, RunEnds(w) PROVE Sound'
  <2>1. /\ Live(w) /\ lock' = lock /\ mem' = mem /\ cur' = cur /\ cur[w] \in Nodes
        /\ pc[w] = "run" /\ pc'[w] = "report" /\ spent' = spent \cup {cur[w]}
        /\ \A m \in Nodes \ {cur[w]} : report'[m] = report[m]
    BY <1>8, <1>s, <1>t DEF Live, RunEnds, Goto
  <2>2. CopyIsSound(w)'
    BY <1>c, <1>m, <1>s, <1>t, <2>1 DEF CopyIsSound, Accounted
  <2> QED BY <1>m, <1>s, <2>1, <2>2, FileFollowsCopy, SoundIfHolderIs DEF Sound
<1>9. ASSUME NEW w \in Workers, NEW answer \in {"accepted", "unheard", "refused"},
             NEW raised \in BOOLEAN, Deliver(w, answer, raised)
      PROVE  Sound'
  <2>1. /\ Live(w) /\ lock' = lock /\ cur' = cur /\ spent' = spent /\ cur[w] \in Nodes
        /\ pc[w] = "report" /\ pc'[w] = "mark"
    BY <1>9, <1>s, <1>t DEF Live, Deliver, Goto
  <2>2. \/ mem'[w] = Owe(mem[w], cur[w])
        \/ mem'[w] = mem[w] /\ report'[cur[w]] # "none"
    <3> DEFINE kept == raised \/ (wanted[w] = "on" /\ answer # "accepted")
    <3>1. CASE kept
      BY <1>9, <1>s, <1>t, <3>1 DEF Deliver
    <3>2. CASE ~kept
      <4>1. mem' = mem
        BY <1>9, <3>2 DEF Deliver
      <4>2. report'[cur[w]] # "none"
        BY <1>9, <1>s, <1>t, <2>1, <3>2 DEF Deliver, Arrived, Inductive, TypeOK
      <4> QED BY <4>1, <4>2
    <3> QED BY <3>1, <3>2
  <2>3. /\ \A m \in Nodes \ {cur[w]} : report'[m] = report[m]
        /\ report[cur[w]] # "none" => report'[cur[w]] # "none"
    BY <1>9, <1>s, <1>t, <2>1 DEF Deliver, Arrived
  <2>4. /\ Seen(mem'[w]) = Seen(mem[w]) /\ mem'[w].refused = mem[w].refused
        /\ mem[w].pending \subseteq mem'[w].pending
        /\ cur[w] \in mem'[w].pending \/ report'[cur[w]] # "none"
    BY <1>c, <1>s, <2>1, <2>2, OweFacts
  <2>5. CopyIsSound(w)'
    BY <1>c, <1>m, <1>s, <1>t, <2>1, <2>3, <2>4 DEF CopyIsSound, Accounted
  <2> QED BY <1>m, <1>s, <2>1, <2>5, FileFollowsCopy, SoundIfHolderIs DEF Sound
<1>10. ASSUME NEW w \in Workers, Mark(w) PROVE Sound'
  <2> DEFINE M == MarkSeen(mem[w], cur[w])
  <2>1. /\ Live(w) /\ lock' = lock /\ report' = report /\ cur[w] \in Nodes
        /\ pc[w] = "mark" /\ pc'[w] = "drain" /\ mem'[w] = M
        /\ spent' = spent \ (Seen(mem[w]) \ Seen(M))
    BY <1>10, <1>s, <1>t DEF Live, Mark, Goto, Evicted
  <2>2. /\ cur[w] \in Seen(M) /\ Seen(M) \subseteq Seen(mem[w]) \cup {cur[w]}
        /\ M.pending = mem[w].pending
        /\ \A m \in Seen(M) : m \in mem[w].refused => m \in M.refused
    BY <1>c, <1>s, <2>1, MarkSeenFacts
  <2> HIDE DEF M
  <2>3. CopyIsSound(w)'
    BY <1>m, <1>s, <2>1, <2>2 DEF CopyIsSound, Accounted
  <2> QED BY <1>m, <1>s, <2>1, <2>3, FileFollowsCopy, SoundIfHolderIs DEF Sound
<1>11. ASSUME NEW w \in Workers, FetchGivesUp(w) \/ Finish(w) \/ Terminate(w) PROVE Sound'
  <2>1. /\ Live(w) /\ lock' = NoProc /\ Flush(w, mem[w]) /\ report' = report
        /\ spent' = spent \ Interrupted(w)
    <3>1. CASE FetchGivesUp(w) \/ Finish(w)
      BY <3>1 DEF FetchGivesUp, Finish, Leave, Live, Interrupted, history
    <3>2. CASE Terminate(w)
      BY <3>2 DEF Terminate, Leave, Live
    <3> QED BY <1>11, <3>1, <3>2
  <2>2. readable' => disk' = mem[w]
    BY <1>m, <1>s, <2>1 DEF Flush, Write, store
  <2>3. \A n \in spent' : n \in spent /\ ~(pc[w] \in {"report", "mark"} /\ cur[w] = n)
    BY <2>1 DEF Interrupted
  <2>4. CopyIsSound(w)
    BY <1>m, <1>s, <2>1
  <2>5. /\ \A n \in spent' : n \in Seen(mem[w])
        /\ \A n \in spent' : report'[n] # "none" \/ n \in mem[w].pending
        /\ \A n \in Seen(mem[w]) : Accounted(n, mem[w]) /\ report' = report
    BY <2>1, <2>3, <2>4 DEF CopyIsSound
  <2>6. readable' => /\ \A n \in spent' : n \in Seen(disk)'
                     /\ \A n \in spent' : report'[n] # "none" \/ n \in disk'.pending
                     /\ \A n \in Seen(disk)' : Accounted(n, disk)'
    BY <2>2, <2>5 DEF Seen, Accounted
  <2> QED BY <1>s, <2>1, <2>6, SoundIfNoneHolds DEF Sound
<1>12. ASSUME NEW p \in Procs, Kill(p) PROVE Sound'
  <2>1. /\ Live(p) /\ lock' = NoProc /\ UNCHANGED store /\ report' = report
        /\ spent' = spent \ Interrupted(p)
    BY <1>12 DEF Kill, Leave, Live
  <2>2. \A n \in spent' : n \in spent /\ ~InHand(n, {"report", "mark"}) /\ ~InHand(n, {"report"})
    BY <1>m, <1>s, <2>1 DEF Interrupted, InHand, Live
  <2>3. readable' => /\ \A n \in spent' : n \in Seen(disk)'
                     /\ \A n \in spent' : report'[n] # "none" \/ n \in disk'.pending
                     /\ \A n \in Seen(disk)' : Accounted(n, disk)'
    BY <1>f, <2>1, <2>2 DEF FileIsSound, RunsAreOnFile, NoReportLost, SeenIsAccountedFor,
                            Accounted, Seen, store
  <2> QED BY <1>s, <2>1, <2>3, SoundIfNoneHolds DEF Sound
<1>13. ASSUME NEW g \in Pages, NEW n \in Nodes, ForgetReads(g, n) PROVE Sound'
  <2>1. /\ \A q \in Procs : pc[q] = "off"
        /\ lock' = g /\ pc'[g] = "forget" /\ mem'[g] = disk /\ readable
        /\ UNCHANGED <<store, history>>
    BY <1>13, <1>0, <1>s, <1>t DEF ForgetReads, Acquire, Goto, Load
  <2>2. CopyIsSound(g)'
    BY <1>r, <2>1 DEF CopyIsSound, Accounted, Seen, history
  <2> QED BY <1>s, <2>1, <2>2, FileFollowsCopy, SoundIfHolderIs DEF Sound
<1>14. ASSUME NEW g \in Pages, ForgetWrites(g) PROVE Sound'
  <2>1. /\ Live(g) /\ lock' = NoProc /\ report' = report /\ pc[g] = "forget"
        /\ \A q \in Procs : pc[q] \notin {"report", "mark"}
    BY <1>14, <1>m, <1>s DEF ForgetWrites, Leave, Live
  <2>2. CASE cur[g] \in Seen(mem[g])
    <3> DEFINE F == ForgetNode(mem[g], cur[g])
    <3>1. disk' = F /\ spent' = spent \ {cur[g]}
      BY <1>14, <2>2 DEF ForgetWrites, Write
    <3>2. /\ Seen(F) = Seen(mem[g]) \ {cur[g]} /\ F.pending = mem[g].pending
          /\ F.refused = mem[g].refused \ {cur[g]}
      BY <1>c, <1>s, <2>2, ForgetNodeFacts
    <3> HIDE DEF F
    <3>3. CopyIsSound(g)
      BY <1>m, <1>s, <2>1
    <3>4. /\ \A n \in spent' : n \in Seen(disk)'
          /\ \A n \in spent' : report'[n] # "none" \/ n \in disk'.pending
          /\ \A n \in Seen(disk)' : Accounted(n, disk)'
      BY <2>1, <3>1, <3>2, <3>3 DEF CopyIsSound, Accounted, Seen
    <3> QED BY <1>s, <2>1, <3>4, SoundIfNoneHolds DEF Sound
  <2>3. CASE cur[g] \notin Seen(mem[g])
    <3>1. UNCHANGED <<store, spent>>
      BY <1>14, <2>3 DEF ForgetWrites
    <3>2. readable' => /\ \A n \in spent' : n \in Seen(disk)'
                       /\ \A n \in spent' : report'[n] # "none" \/ n \in disk'.pending
                       /\ \A n \in Seen(disk)' : Accounted(n, disk)'
      BY <1>r, <2>1, <3>1 DEF Accounted, Seen, store
    <3> QED BY <1>s, <2>1, <3>2, SoundIfNoneHolds DEF Sound
  <2> QED BY <2>2, <2>3
<1>15. ASSUME UNCHANGED <<locals, history>>, UNCHANGED store \/ Corrupt PROVE Sound'
  <2>1. \A p \in Procs : Live(p)' => CopyIsSound(p)'
    BY <1>15, <1>m DEF CopyIsSound, Live, Accounted, Seen, locals, history
  <2>2. CASE UNCHANGED store
    BY <1>f, <1>15, <2>1, <2>2
       DEF Sound, FileIsSound, RunsAreOnFile, NoReportLost, SeenIsAccountedFor,
           UnsavedDebtsArePaid, InHand, Live, Seen, store, locals, history
  <2>3. CASE Corrupt
    BY <2>1, <2>3 DEF Corrupt, Sound, FileIsSound, RunsAreOnFile, NoReportLost,
                      SeenIsAccountedFor, UnsavedDebtsArePaid
  <2> QED BY <1>15, <2>2, <2>3
<1>16. ASSUME \/ \E n \in Nodes : Dispatch(n) \/ Close(n)
              \/ SwitchOff \/ SwitchOn \/ Corrupt \/ UNCHANGED vars
       PROVE  Sound'
  BY <1>15, <1>16 DEF Dispatch, Close, SwitchOff, SwitchOn, Corrupt, vars
<1>17. ASSUME NEW w \in Workers,
              \/ Start(w) \/ RepostDone(w) \/ Fetch(w) \/ FetchFails(w) \/ FetchGivesUp(w)
              \/ PollReposts(w) \/ PollSkipsRepost(w) \/ Finish(w)
              \/ RunEnds(w) \/ Mark(w) \/ DrainEnds(w) \/ Terminate(w)
       PROVE  Sound'
  BY <1>1, <1>3, <1>4, <1>5, <1>8, <1>10, <1>11, <1>17
<1>18. ASSUME NEW w \in Workers, NEW n \in Nodes,
              Skip(w, n) \/ ClaimFails(w, n) \/ Refuse(w, n) \/ Claim(w, n)
       PROVE  Sound'
  BY <1>3, <1>6, <1>7, <1>18
<1> QED BY <1>2, <1>9, <1>12, <1>13, <1>14, <1>16, <1>17, <1>18, StepCases

\* The strengthened invariant holds at the first start.
LEMMA InductiveInit == Init => Inductive
<1> SUFFICES ASSUME Init PROVE Inductive
  OBVIOUS
<1> USE PollerAssumption
<1>1. TypeOK
  BY TypeInit
<1>2. /\ \A p \in Procs : pc[p] = "off" /\ dirty[p] = FALSE
      /\ lock = NoProc /\ disk = EmptyState /\ spent = {} /\ NoProc \notin Procs
      /\ Workers \subseteq Procs /\ Pages \subseteq Procs
  BY DEF Init, Procs
<1>3. OneWriter /\ FlushedIsOnDisk /\ OnlyCursorUnsaved
  BY <1>2 DEF OneWriter, Live, FlushedIsOnDisk, OnlyCursorUnsaved
<1>4. FileIsSound /\ \A p \in Procs : Live(p) => CopyIsSound(p)
  BY <1>2, EmptyStateFacts DEF Live, FileIsSound, RunsAreOnFile, NoReportLost, SeenIsAccountedFor,
                    UnsavedDebtsArePaid
<1> QED BY <1>1, <1>3, <1>4 DEF Inductive

\* Every step keeps the strengthened invariant.
LEMMA InductiveNext == Inductive /\ [Next]_vars => Inductive'
  BY TypeNext, OneWriterNext, SyncedNext, SoundNext DEF Inductive, Sound

\* The strengthened invariant holds of every reachable state.
THEOREM InductiveInvariant == Spec => []Inductive
  BY InductiveInit, InductiveNext, PTL DEF Spec

-----------------------------------------------------------------------------
(* The correctness properties of Poller, from the inductive invariant.     *)

\* The file says what the one running process last wrote: `forget_node` and the
\* worker never write underneath each other.
THEOREM FileIsTheWritersOwn == Spec => []FlushedIsOnDisk
<1>1. Inductive => FlushedIsOnDisk
  BY DEF Inductive
<1> QED BY <1>1, InductiveInvariant, PTL

\* A run that reached its mark is never started a second time, through any number
\* of kills and restarts, unless its node was forgotten or evicted.
THEOREM RunsAreNotRepeated == Spec => []NoUnexcusedRerun
<1>1. Inductive => NoUnexcusedRerun
  BY DEF Inductive, CopyIsSound, NoUnexcusedRerun, Live, Procs
<1> QED BY <1>1, InductiveInvariant, PTL

\* The report of such a run has been delivered or is owed in the state file.
THEOREM ReportsAreKept == Spec => []NoReportLost
<1>1. Inductive => NoReportLost
  BY DEF Inductive, FileIsSound
<1> QED BY <1>1, InductiveInvariant, PTL

\* Every mark in the file has its cause: a refusal, a debt, or a report delivered
\* or switched off.
THEOREM MarksAreAccountedFor == Spec => []SeenIsAccountedFor
<1>1. Inductive => SeenIsAccountedFor
  BY DEF Inductive, FileIsSound
<1> QED BY <1>1, InductiveInvariant, PTL

\* A step's write drops no debt, except that the flush of a copy drops what the
\* copy has settled.
LEMMA WritesKeepDebts ==
  ASSUME Inductive, [Next]_vars, readable, readable'
  PROVE  \/ disk.pending \subseteq disk'.pending
         \/ \E p \in Procs : Live(p) /\ disk'.pending = mem[p].pending /\ report' = report
<1> DEFINE Goal == \/ disk.pending \subseteq disk'.pending
                   \/ \E p \in Procs : /\ Live(p) /\ disk'.pending = mem[p].pending
                                       /\ report' = report
<1>s. /\ Workers \subseteq Procs /\ Pages \subseteq Procs
      /\ mem \in [Procs -> StateFile] /\ \A p \in Procs : mem[p] \in Copies
      /\ \A p \in Procs : pc[p] \in {"run", "report", "mark", "forget"} => cur[p] \in Nodes
  BY CopiesInPlay DEF Procs, Inductive, TypeOK
<1>m. ASSUME NEW p \in Procs, pc[p] \notin {"off", "repost"} PROVE mem[p].pending = disk.pending
  BY <1>m DEF Inductive, OnlyCursorUnsaved
<1>1. ASSUME UNCHANGED disk PROVE Goal
  BY <1>1
<1>2. ASSUME NEW p \in Procs, Live(p), Flush(p, mem[p]), report' = report PROVE Goal
  BY <1>2 DEF Flush, Write, store
<1>3. ASSUME NEW w \in Workers, NEW n \in Nodes, Refuse(w, n) PROVE Goal
  <2>1. pc[w] = "drain" /\ disk' = RefuseNode(mem[w], n)
    BY <1>3, <1>s DEF Refuse, Unseen, Write
  <2> QED BY <1>m, <1>s, <2>1, RefuseFacts
<1>4. ASSUME NEW w \in Workers, NEW answer \in {"accepted", "unheard", "refused"},
             NEW raised \in BOOLEAN, Deliver(w, answer, raised)
      PROVE  Goal
  <2>1. pc[w] = "report" /\ (disk' = Owe(mem[w], cur[w]) \/ disk' = mem[w] \/ disk' = disk)
    BY <1>4, <1>s DEF Deliver, Write, Flush, store
  <2> QED BY <1>m, <1>s, <2>1, OweFacts
<1>5. ASSUME NEW w \in Workers, Mark(w) PROVE Goal
  <2>1. pc[w] = "mark" /\ disk' = MarkSeen(mem[w], cur[w])
    BY <1>5, <1>s DEF Mark, Write
  <2> QED BY <1>m, <1>s, <2>1, MarkSeenFacts
<1>6. ASSUME NEW g \in Pages, ForgetWrites(g) PROVE Goal
  <2>1. /\ pc[g] = "forget"
        /\ \/ disk' = ForgetNode(mem[g], cur[g]) /\ cur[g] \in Seen(mem[g])
           \/ disk' = disk
    BY <1>6 DEF ForgetWrites, Write, store
  <2> QED BY <1>m, <1>s, <2>1, ForgetNodeFacts
<1>7. ASSUME NEW w \in Workers,
             RepostDone(w) \/ FetchGivesUp(w) \/ Finish(w) \/ Terminate(w)
      PROVE  Goal
  <2>1. Live(w) /\ Flush(w, mem[w]) /\ report' = report
    BY <1>7 DEF Live, RepostDone, FetchGivesUp, Finish, Terminate, history
  <2> QED BY <1>2, <1>s, <2>1
<1>8. ASSUME NEW w \in Workers, NEW n \in Nodes, ClaimFails(w, n) PROVE Goal
  <2>1. Live(w) /\ Flush(w, mem[w]) /\ report' = report
    BY <1>8 DEF Live, ClaimFails, Unseen, history
  <2> QED BY <1>2, <1>s, <2>1
<1>9. ASSUME NEW w \in Workers,
             \/ Start(w) \/ Fetch(w) \/ FetchFails(w) \/ PollReposts(w) \/ PollSkipsRepost(w)
             \/ RunEnds(w) \/ DrainEnds(w)
             \/ \E n \in Nodes : Skip(w, n) \/ Claim(w, n)
             \/ \E n \in Nodes, answer \in {"accepted", "unheard", "refused"} : Repost(w, n, answer)
      PROVE  Goal
  BY <1>1, <1>9 DEF Start, Fetch, FetchFails, PollReposts, PollSkipsRepost, RunEnds, DrainEnds,
                    Skip, Claim, Repost, store
<1>10. ASSUME NEW g \in Pages, NEW n \in Nodes, ForgetReads(g, n) PROVE Goal
  BY <1>1, <1>10 DEF ForgetReads, store
<1>11. ASSUME NEW p \in Procs, Kill(p) PROVE Goal
  BY <1>1, <1>11 DEF Kill, store
<1>12. ASSUME \/ \E n \in Nodes : Dispatch(n) \/ Close(n)
              \/ SwitchOff \/ SwitchOn \/ Corrupt \/ UNCHANGED vars
       PROVE  Goal
  BY <1>1, <1>12 DEF Dispatch, Close, SwitchOff, SwitchOn, Corrupt, vars, store
<1>13. ASSUME NEW w \in Workers,
              \/ Start(w) \/ RepostDone(w) \/ Fetch(w) \/ FetchFails(w) \/ FetchGivesUp(w)
              \/ PollReposts(w) \/ PollSkipsRepost(w) \/ Finish(w)
              \/ RunEnds(w) \/ Mark(w) \/ DrainEnds(w) \/ Terminate(w)
       PROVE  Goal
  BY <1>5, <1>7, <1>9, <1>13
<1>14. ASSUME NEW w \in Workers, NEW n \in Nodes,
              Skip(w, n) \/ ClaimFails(w, n) \/ Refuse(w, n) \/ Claim(w, n)
       PROVE  Goal
  BY <1>3, <1>8, <1>9, <1>14
<1> HIDE DEF Goal
<1>15. Goal
  BY <1>4, <1>6, <1>9, <1>10, <1>11, <1>12, <1>13, <1>14, StepCases
<1> QED BY <1>15 DEF Goal

\* A debt leaves a readable file only because its report was accepted.
THEOREM DebtsAreOnlyPaid == Spec => DebtLeavesOnlyPaid
<1> DEFINE Step == \A n \in Nodes :
                     readable /\ readable' /\ n \in disk.pending /\ n \notin disk'.pending
                        => report'[n] \in {"received", "acked"}
<1>1. Inductive /\ [Next]_vars => [Step]_vars
  <2> SUFFICES ASSUME Inductive, [Next]_vars, NEW n \in Nodes, readable, readable',
                      n \in disk.pending, n \notin disk'.pending
               PROVE  report'[n] \in {"received", "acked"}
    OBVIOUS
  <2>1. PICK p \in Procs : Live(p) /\ disk'.pending = mem[p].pending /\ report' = report
    BY WritesKeepDebts
  <2> QED BY <2>1 DEF Inductive, FileIsSound, UnsavedDebtsArePaid
<1> QED BY <1>1, InductiveInvariant, PTL DEF Spec, DebtLeavesOnlyPaid

-----------------------------------------------------------------------------
(* The worker keeps its promise: Poller implements ReportDebt.             *)
(* What the refinement needs beyond the invariant.                         *)

\* A running worker's copy owes nothing that the file does not: in the re-post loop,
\* where the two differ, it has settled debts and made none.
DebtsAreKnown ==
    readable => \A p \in Procs : Live(p) => mem[p].pending \subseteq disk.pending

\* It holds at the first start...
LEMMA DebtsKnownInit == Init => DebtsAreKnown
  BY DEF Init, DebtsAreKnown, Live

\* ...and after every step.
LEMMA DebtsKnownNext == Inductive /\ DebtsAreKnown /\ [Next]_vars => DebtsAreKnown'
<1> SUFFICES ASSUME Inductive, DebtsAreKnown, [Next]_vars,
                    NEW p \in Procs, Live(p)', readable'
             PROVE  mem'[p].pending \subseteq disk'.pending
  BY DEF DebtsAreKnown
<1> DEFINE Goal == mem'[p].pending \subseteq disk'.pending
<1>s. /\ Workers \subseteq Procs /\ Pages \subseteq Procs
      /\ OneWriter' /\ OnlyCursorUnsaved' /\ Inductive'
      /\ pc \in [Procs -> Labels] /\ mem \in [Procs -> StateFile] /\ \A q \in Procs : mem[q] \in Copies
  BY OneWriterNext, SyncedNext, InductiveNext, CopiesInPlay DEF Procs, Inductive, TypeOK
<1>1. ASSUME pc'[p] # "repost" PROVE Goal
  BY <1>1, <1>s DEF OnlyCursorUnsaved, Live
<1>2. ASSUME NEW q \in Procs, pc'[q] # "off" PROVE q = p
  BY <1>2, <1>s DEF OneWriter, Live
<1>3. ASSUME UNCHANGED <<locals, store>> PROVE Goal
  BY <1>3 DEF DebtsAreKnown, Live, locals, store
<1>4. ASSUME NEW q \in Procs, Leave(q) PROVE Goal
  BY <1>4, <1>s, PollerAssumption DEF Leave, OneWriter, Live, Procs
<1>5. ASSUME NEW w \in Workers, Start(w) PROVE Goal
  <2>1. w = p /\ mem'[w] = Load /\ UNCHANGED store
    BY <1>5, <1>s, <1>2 DEF Start, Goto
  <2> QED BY <2>1 DEF Load, store
<1>6. ASSUME NEW w \in Workers, NEW n \in Nodes,
             NEW answer \in {"accepted", "unheard", "refused"}, Repost(w, n, answer)
      PROVE  Goal
  <2>1. w = p /\ Live(w) /\ UNCHANGED store
    BY <1>6, <1>s, <1>2 DEF Repost, Live
  <2>2. mem'[w] = mem[w] \/ mem'[w] = MarkSeen(Settle(mem[w], n), n)
    BY <1>6, <1>s DEF Repost
  <2>3. mem'[w].pending \subseteq mem[w].pending
    <3>1. /\ Settle(mem[w], n) \in Copies
          /\ Settle(mem[w], n).pending = mem[w].pending \ {n}
      BY <1>s, SettleFacts
    <3> QED BY <2>2, <3>1, MarkSeenFacts
  <2> QED BY <1>s, <2>1, <2>3 DEF DebtsAreKnown, store
<1>7. ASSUME NEW w \in Workers, PollReposts(w) PROVE Goal
  <2>1. w = p /\ pc[w] = "sleep" /\ mem' = mem /\ UNCHANGED store
    BY <1>7, <1>s, <1>2 DEF PollReposts, Goto
  <2> QED BY <1>s, <2>1 DEF DebtsAreKnown, Live, store
<1>8. ASSUME NEW w \in Workers,
             \/ RepostDone(w) \/ Fetch(w) \/ FetchFails(w) \/ PollSkipsRepost(w)
             \/ RunEnds(w) \/ Mark(w) \/ DrainEnds(w)
             \/ \E n \in Nodes : Skip(w, n) \/ ClaimFails(w, n) \/ Refuse(w, n) \/ Claim(w, n)
             \/ \E answer \in {"accepted", "unheard", "refused"}, raised \in BOOLEAN :
                   Deliver(w, answer, raised)
      PROVE  Goal
  <2>1. pc'[w] \notin {"off", "repost"}
    BY <1>8, <1>s DEF RepostDone, Fetch, FetchFails, PollSkipsRepost, RunEnds, Mark, DrainEnds, Skip,
                      ClaimFails, Refuse, Claim, Deliver, Unseen, Goto
  <2> QED BY <1>1, <1>2, <1>s, <2>1
<1>9. ASSUME NEW g \in Pages, NEW n \in Nodes, ForgetReads(g, n) PROVE Goal
  <2>1. pc'[g] = "forget"
    BY <1>9, <1>s DEF ForgetReads, Goto
  <2> QED BY <1>1, <1>2, <1>s, <2>1
<1>10. ASSUME \/ \E w \in Workers : FetchGivesUp(w) \/ Finish(w) \/ Terminate(w)
              \/ \E g \in Pages : ForgetWrites(g)
              \/ \E q \in Procs : Kill(q)
       PROVE  Goal
  BY <1>4, <1>10, <1>s DEF FetchGivesUp, Finish, Terminate, ForgetWrites, Kill
<1>11. ASSUME \/ \E n \in Nodes : Dispatch(n) \/ Close(n)
              \/ SwitchOff \/ SwitchOn \/ Corrupt \/ UNCHANGED vars
       PROVE  Goal
  BY <1>3, <1>11 DEF Dispatch, Close, SwitchOff, SwitchOn, Corrupt, vars
<1> HIDE DEF Goal
<1>12. Goal
  BY <1>5, <1>6, <1>7, <1>8, <1>9, <1>10, <1>11, StepCases
<1> QED BY <1>12 DEF Goal

-----------------------------------------------------------------------------
(* The steps of the promise, in the worker's terms.                        *)

\* The substituted variables.
Ran == IF readable THEN spent ELSE {}
Owed == IF readable THEN disk.pending ELSE {}

\* Nothing that is promised about moves.
LEMMA Stutters ==
  ASSUME readable' = readable, Ran' = Ran, Owed' = Owed, Posting' = Posting, report' = report
  PROVE  [Debt!Next]_(Debt!vars)
  BY DEF Debt!vars, Ran, Owed

\* Runs are forgotten, or die with their report in hand.
LEMMA Excuses ==
  ASSUME readable' = readable, Ran' \subseteq Ran, Owed' = Owed, report' = report,
         Posting' \subseteq Posting, Posting \ Posting' \subseteq Nodes \ Ran'
  PROVE  [Debt!Next]_(Debt!vars)
<1>1. Debt!Excuse
  BY DEF Debt!Excuse, Ran, Owed
<1> QED BY <1>1 DEF Debt!Next

\* Debts that were paid leave the file.
LEMMA Settles ==
  ASSUME readable, readable', Ran' \subseteq Ran, Owed' \subseteq Owed, report' = report,
         Posting' = Posting, \A n \in Owed \ Owed' : report[n] \in {"received", "acked"}
  PROVE  [Debt!Next]_(Debt!vars)
<1>1. Owed' = Owed \ (Owed \ Owed') /\ Owed \ Owed' \in SUBSET Owed
  OBVIOUS
<1>2. Debt!Settle
  BY <1>1 DEF Debt!Settle, Debt!Arrived, Ran, Owed
<1> QED BY <1>2 DEF Debt!Next

\* Whatever is on file of the runs, none of their reports is nowhere.
LEMMA KeptOnFile == Inductive => Debt!Kept
  BY DEF Inductive, TypeOK, FileIsSound, NoReportLost, InHand, Posting,
         Debt!Kept, Debt!Accounted, Debt!Outcomes, Debt!Arrived

\* The file is written again after it was lost.
LEMMA Rewrites ==
  ASSUME Inductive', ~readable, readable', report' = report, Posting' \subseteq Posting
  PROVE  [Debt!Next]_(Debt!vars)
<1>1. Debt!Kept'
  BY KeptOnFile, PTL
<1>2. spent' \subseteq Nodes /\ disk'.pending \subseteq Nodes
  BY DEF Inductive, TypeOK, StateFile
<1>3. Debt!Rewrite
  BY <1>1, <1>2 DEF Debt!Rewrite
<1> QED BY <1>3 DEF Debt!Next

\* Who has a report in hand, when one process runs or none.
LEMMA PostingFacts ==
  OneWriter => /\ \A w \in Workers : pc[w] = "report" => Posting = {cur[w]}
               /\ \A p \in Procs : Live(p) /\ pc[p] # "report" => Posting = {}
               /\ (\A w \in Workers : pc[w] # "report") => Posting = {}
  BY DEF OneWriter, Live, Posting, Procs

\* The same, after a step.
LEMMA PostingNext ==
  OneWriter' => /\ \A w \in Workers : pc'[w] = "report" => Posting' = {cur'[w]}
                /\ \A p \in Procs : pc'[p] \notin {"off", "report"} => Posting' = {}
                /\ (\A w \in Workers : pc'[w] # "report") => Posting' = {}
  BY DEF OneWriter, Live, Posting, Procs

\* A process writes what its copy has unsaved, and may leave.
LEMMA Flushes ==
  ASSUME Inductive, Inductive', DebtsAreKnown, NEW p \in Procs, Live(p), Flush(p, mem[p]),
         report' = report, spent' \subseteq spent, Posting' \subseteq Posting,
         Posting \ Posting' \subseteq Nodes \ spent'
  PROVE  [Debt!Next]_(Debt!vars)
<1>1. CASE UNCHANGED store
  BY <1>1, Excuses DEF store, Ran, Owed
<1>2. CASE readable' /\ disk' = mem[p] /\ readable
  <2>1. mem[p].pending \subseteq disk.pending
    BY <1>2 DEF DebtsAreKnown
  <2>2. \A n \in disk.pending \ mem[p].pending : report[n] \in {"received", "acked"}
    BY <1>2 DEF Inductive, FileIsSound, UnsavedDebtsArePaid
  <2>3. CASE pc[p] = "repost"
    <3>1. Posting = {} /\ Posting' = Posting
      BY <2>3, PostingFacts DEF Inductive
    <3> QED BY <1>2, <2>1, <2>2, <3>1, Settles DEF Ran, Owed
  <2>4. CASE pc[p] # "repost"
    <3>1. disk'.pending = disk.pending
      BY <1>2, <2>4 DEF Inductive, OnlyCursorUnsaved, Live
    <3> QED BY <1>2, <3>1, Excuses DEF Ran, Owed
  <2> QED BY <2>3, <2>4
<1>3. CASE readable' /\ ~readable
  BY <1>3, Rewrites
<1> QED BY <1>1, <1>2, <1>3 DEF Flush, Write

\* A worker writes its copy with more in it than the file had, but the same debts.
LEMMA Writes ==
  ASSUME Inductive, Inductive', NEW w \in Workers, pc[w] \in {"drain", "mark"},
         pc'[w] \in {"drain", "mark"},
         readable', disk'.pending = mem[w].pending, report' = report, spent' \subseteq spent
  PROVE  [Debt!Next]_(Debt!vars)
<1>1. w \in Procs /\ Live(w) /\ Posting = {} /\ Posting' = {}
  BY PostingFacts, PostingNext DEF Inductive, Procs, Live
<1>2. CASE readable
  <2>1. disk'.pending = disk.pending
    BY <1>1, <1>2 DEF Inductive, OnlyCursorUnsaved
  <2> QED BY <1>1, <1>2, <2>1, Excuses DEF Ran, Owed
<1> QED BY <1>1, <1>2, Rewrites

-----------------------------------------------------------------------------
(* Every step of the worker.                                               *)

\* The answer to a report that is posted again.
LEMMA RepostImplements ==
  ASSUME Inductive, Inductive', NEW w \in Workers, NEW n \in Nodes,
         NEW answer \in {"accepted", "unheard", "refused"}, Repost(w, n, answer)
  PROVE  [Debt!Next]_(Debt!vars)
<1>1. /\ UNCHANGED <<readable, disk, pc, cur>>
      /\ report' = Arrived(n, answer)
      /\ spent' \subseteq spent /\ (answer # "accepted" => spent' = spent)
  BY DEF Repost, store
<1>2. Posting' = Posting
  BY <1>1 DEF Posting
<1>3. CASE answer = "refused"
  BY <1>1, <1>2, <1>3, Stutters DEF Arrived, Ran, Owed
<1>4. CASE answer \in {"accepted", "unheard"}
  <2>1. \E what \in {"received", "acked"} : report' = [report EXCEPT ![n] = what]
    BY <1>1, <1>4 DEF Arrived
  <2>2. Debt!Repost(n)
    BY <1>1, <1>2, <2>1 DEF Debt!Repost, Debt!Arrived
  <2> QED BY <2>2 DEF Debt!Next
<1> QED BY <1>3, <1>4

\* The end of a run.
LEMMA RunEndsImplements ==
  ASSUME Inductive, Inductive', NEW w \in Workers, RunEnds(w)
  PROVE  [Debt!Next]_(Debt!vars)
<1>1. /\ pc[w] = "run" /\ pc'[w] = "report" /\ cur'[w] = cur[w] /\ cur[w] \in Nodes
      /\ w \in Procs /\ Live(w)
      /\ UNCHANGED <<readable, disk>>
      /\ spent' = spent \cup {cur[w]} /\ report' = [report EXCEPT ![cur[w]] = "none"]
  BY DEF RunEnds, Goto, Inductive, TypeOK, store, Procs, Live
<1>2. Posting = {} /\ Posting' = {cur[w]}
  BY <1>1, PostingFacts, PostingNext DEF Inductive
<1>3. cur[w] \notin spent
  BY <1>1 DEF Inductive, CopyIsSound
<1>4. Debt!Finish(cur[w])
  BY <1>1, <1>2, <1>3 DEF Debt!Finish
<1> QED BY <1>1, <1>4 DEF Debt!Next

\* The report leaves, is owed, or both.
LEMMA DeliverImplements ==
  ASSUME Inductive, Inductive', NEW w \in Workers,
         NEW answer \in {"accepted", "unheard", "refused"}, NEW raised \in BOOLEAN,
         Deliver(w, answer, raised)
  PROVE  [Debt!Next]_(Debt!vars)
<1> DEFINE n == cur[w]
<1>1. /\ pc[w] = "report" /\ pc'[w] = "mark" /\ n \in Nodes /\ w \in Procs /\ Live(w)
      /\ spent' = spent
  BY DEF Deliver, Goto, Inductive, TypeOK, Procs, Live
<1>2. Posting = {n} /\ Posting' = {}
  BY <1>1, PostingFacts, PostingNext DEF Inductive
<1>3. \E what \in {"unsent", "received", "acked", report[n]} : report' = [report EXCEPT ![n] = what]
  <2>1. report = [report EXCEPT ![n] = report[n]]
    BY DEF Inductive, TypeOK
  <2> QED BY <2>1 DEF Deliver, Arrived
<1>4. \/ UNCHANGED <<readable, disk>>
      \/ readable' /\ (disk'.pending = mem[w].pending \/ disk'.pending = mem[w].pending \cup {n})
  <2>1. mem[w] \in Copies /\ mem \in [Procs -> StateFile]
    BY <1>1, CopiesInPlay DEF Inductive, TypeOK
  <2>2. \/ UNCHANGED <<readable, disk>>
        \/ readable' /\ (disk' = mem[w] \/ disk' = Owe(mem[w], n))
    BY <1>1, <2>1 DEF Deliver, Flush, Write, store
  <2> QED BY <1>1, <2>1, <2>2, OweFacts
<1>5. readable => mem[w].pending = disk.pending
  BY <1>1 DEF Inductive, OnlyCursorUnsaved
<1>6. spent' \subseteq Nodes /\ disk'.pending \subseteq Nodes
  BY DEF Inductive, TypeOK, StateFile
<1>7. Debt!Kept'
  BY KeptOnFile, PTL
<1> HIDE DEF n
<1>b. readable \in BOOLEAN /\ readable' \in BOOLEAN
  BY DEF Inductive, TypeOK
<1>8. \/ ~readable /\ readable'
      \/ readable' = readable /\ (Owed' = Owed \/ Owed' = Owed \cup {n})
  BY <1>4, <1>5, <1>b DEF Owed
<1>9. CASE ~readable /\ readable'
  <2>1. Debt!HandOver(n)
    BY <1>1, <1>2, <1>3, <1>6, <1>7, <1>9 DEF Debt!HandOver, Debt!Outcomes, Debt!Arrived
  <2> QED BY <1>1, <2>1 DEF Debt!Next, n
<1>10. CASE readable' = readable /\ (Owed' = Owed \/ Owed' = Owed \cup {n})
  <2>1. n \in Owed \ Owed' => FALSE
    BY <1>10
  <2>2. Debt!HandOver(n)
    BY <1>1, <1>2, <1>3, <1>6, <1>7, <1>10, <2>1
       DEF Debt!HandOver, Debt!Outcomes, Debt!Arrived, Owed
  <2> QED BY <1>1, <2>2 DEF Debt!Next, n
<1> QED BY <1>8, <1>9, <1>10

\* The worker starts.
LEMMA StartImplements ==
  ASSUME Inductive, Inductive', NEW w \in Workers, Start(w)
  PROVE  [Debt!Next]_(Debt!vars)
<1>1. /\ UNCHANGED <<readable, disk, report>> /\ (readable => spent' = spent)
      /\ lock = NoProc /\ pc'[w] = "repost" /\ w \in Procs
  BY DEF Start, Acquire, Goto, Inductive, TypeOK, store, Procs
<1>2. Posting = {} /\ Posting' = {}
  <2>1. \A v \in Workers : pc[v] # "report"
    BY <1>1, PollerAssumption DEF Inductive, OneWriter, Live, Procs
  <2> QED BY <1>1, <2>1, PostingFacts, PostingNext DEF Inductive
<1> QED BY <1>1, <1>2, Stutters DEF Ran, Owed

\* The steps of a worker that neither write, post nor finish anything.
LEMMA QuietImplements ==
  ASSUME Inductive, Inductive', NEW w \in Workers,
         \/ Fetch(w) \/ FetchFails(w) \/ PollReposts(w) \/ PollSkipsRepost(w) \/ DrainEnds(w)
         \/ \E n \in Nodes : Skip(w, n) \/ Claim(w, n)
  PROVE  [Debt!Next]_(Debt!vars)
<1>1. /\ UNCHANGED <<readable, disk, report, spent>>
      /\ pc[w] \notin {"off", "report"} /\ pc'[w] \notin {"off", "report"} /\ w \in Procs
  BY DEF Fetch, FetchFails, PollReposts, PollSkipsRepost, DrainEnds, Skip, Claim, Unseen, Goto,
         store, history, Inductive, TypeOK, Procs
<1>2. Posting = {} /\ Posting' = {}
  BY <1>1, PostingFacts, PostingNext DEF Inductive, Live
<1> QED BY <1>1, <1>2, Stutters DEF Ran, Owed

\* The steps that flush and go on.
LEMMA FlushImplements ==
  ASSUME Inductive, Inductive', DebtsAreKnown, NEW w \in Workers,
         RepostDone(w) \/ \E n \in Nodes : ClaimFails(w, n)
  PROVE  [Debt!Next]_(Debt!vars)
<1>1. /\ pc[w] \notin {"off", "report"} /\ pc'[w] \notin {"off", "report"} /\ w \in Procs
      /\ Flush(w, mem[w]) /\ report' = report /\ spent' = spent
  BY DEF RepostDone, ClaimFails, Unseen, Goto, history, Inductive, TypeOK, Procs
<1>2. Posting = {} /\ Posting' = {}
  BY <1>1, PostingFacts, PostingNext DEF Inductive, Live
<1> QED BY <1>1, <1>2, Flushes DEF Live

\* The steps that flush and leave, told to or not.
LEMMA LeaveImplements ==
  ASSUME Inductive, Inductive', DebtsAreKnown, NEW w \in Workers,
         FetchGivesUp(w) \/ Finish(w) \/ Terminate(w)
  PROVE  [Debt!Next]_(Debt!vars)
<1>1. /\ w \in Procs /\ Live(w) /\ lock' = NoProc /\ Flush(w, mem[w]) /\ report' = report
      /\ spent' = spent \ Interrupted(w)
  <2>1. CASE FetchGivesUp(w) \/ Finish(w)
    BY <2>1 DEF FetchGivesUp, Finish, Leave, Live, Interrupted, history, Procs
  <2>2. CASE Terminate(w)
    BY <2>2 DEF Terminate, Leave, Live, Procs
  <2> QED BY <2>1, <2>2
<1>2. Posting' = {}
  <2>1. \A v \in Workers : pc'[v] # "report"
    BY <1>1, PollerAssumption DEF Inductive, OneWriter, Live, Procs
  <2> QED BY <2>1, PostingNext DEF Inductive
<1>3. Posting \subseteq Nodes \ spent'
  <2>1. CASE pc[w] = "report"
    BY <1>1, <2>1, PostingFacts DEF Inductive, TypeOK, Interrupted
  <2>2. CASE pc[w] # "report"
    BY <1>1, <2>2, PostingFacts DEF Inductive
  <2> QED BY <2>1, <2>2
<1> QED BY <1>1, <1>2, <1>3, Flushes

\* A process is killed.
LEMMA KillImplements ==
  ASSUME Inductive, Inductive', NEW p \in Procs, Kill(p)
  PROVE  [Debt!Next]_(Debt!vars)
<1>1. /\ Live(p) /\ lock' = NoProc /\ UNCHANGED <<readable, disk, report>>
      /\ spent' = spent \ Interrupted(p)
  BY DEF Kill, Leave, Live, store
<1>2. Posting' = {}
  <2>1. \A v \in Workers : pc'[v] # "report"
    BY <1>1, PollerAssumption DEF Inductive, OneWriter, Live, Procs
  <2> QED BY <2>1, PostingNext DEF Inductive
<1>3. Posting \subseteq Nodes \ spent'
  <2>1. CASE pc[p] = "report"
    <3>1. p \in Workers
      BY <2>1 DEF Inductive, OneWriter, Procs
    <3> QED BY <1>1, <2>1, <3>1, PostingFacts DEF Inductive, TypeOK, Interrupted
  <2>2. CASE pc[p] # "report"
    BY <1>1, <2>2, PostingFacts DEF Inductive
  <2> QED BY <2>1, <2>2
<1> QED BY <1>1, <1>2, <1>3, Excuses DEF Ran, Owed

\* The steps that write the copy with its new mark or refusal.
LEMMA MarkImplements ==
  ASSUME Inductive, Inductive', NEW w \in Workers, Mark(w) \/ \E n \in Nodes : Refuse(w, n)
  PROVE  [Debt!Next]_(Debt!vars)
<1>1. w \in Procs /\ mem[w] \in Copies /\ mem \in [Procs -> StateFile]
  BY CopiesInPlay DEF Inductive, TypeOK, Procs
<1>2. CASE Mark(w)
  <2>1. /\ pc[w] = "mark" /\ pc'[w] = "drain" /\ readable' /\ report' = report
        /\ disk' = MarkSeen(mem[w], cur[w]) /\ spent' \subseteq spent /\ cur[w] \in Nodes
    BY <1>1, <1>2 DEF Mark, Goto, Write, Inductive, TypeOK
  <2> QED BY <1>1, <2>1, MarkSeenFacts, Writes
<1>3. ASSUME NEW n \in Nodes, Refuse(w, n) PROVE [Debt!Next]_(Debt!vars)
  <2>1. /\ pc[w] = "drain" /\ pc'[w] = "mark" /\ readable' /\ report' = report
        /\ disk' = RefuseNode(mem[w], n) /\ spent' = spent
    BY <1>1, <1>3 DEF Refuse, Unseen, Goto, Write, history, Inductive, TypeOK
  <2> QED BY <1>1, <2>1, RefuseFacts, Writes
<1> QED BY <1>2, <1>3

\* The page forgets a node.
LEMMA ForgetImplements ==
  ASSUME Inductive, Inductive', NEW g \in Pages,
         ForgetWrites(g) \/ \E n \in Nodes : ForgetReads(g, n)
  PROVE  [Debt!Next]_(Debt!vars)
<1>1. g \in Procs /\ mem[g] \in Copies
  BY CopiesInPlay DEF Inductive, Procs
<1>2. ASSUME NEW n \in Nodes, ForgetReads(g, n) PROVE [Debt!Next]_(Debt!vars)
  <2>1. /\ UNCHANGED <<readable, disk, report, spent>> /\ lock = NoProc /\ pc'[g] = "forget"
    BY <1>1, <1>2 DEF ForgetReads, Acquire, Goto, store, history, Inductive, TypeOK
  <2>2. Posting = {} /\ Posting' = {}
    <3>1. \A v \in Workers : pc[v] # "report"
      BY <2>1, PollerAssumption DEF Inductive, OneWriter, Live, Procs
    <3> QED BY <1>1, <2>1, <3>1, PostingFacts, PostingNext DEF Inductive
  <2> QED BY <2>1, <2>2, Stutters DEF Ran, Owed
<1>3. CASE ForgetWrites(g)
  <2>1. /\ pc[g] = "forget" /\ lock' = NoProc /\ report' = report /\ spent' \subseteq spent
    BY <1>3 DEF ForgetWrites, Leave
  <2>2. Posting = {} /\ Posting' = {}
    <3>1. \A v \in Workers : pc'[v] # "report"
      BY <2>1, PollerAssumption DEF Inductive, OneWriter, Live, Procs
    <3> QED BY <1>1, <2>1, <3>1, PostingFacts, PostingNext DEF Inductive, Live
  <2>3. \/ UNCHANGED <<readable, disk>>
        \/ readable' /\ disk'.pending = mem[g].pending
    BY <1>1, <1>3, ForgetNodeFacts DEF ForgetWrites, Write, store
  <2>4. readable => mem[g].pending = disk.pending
    BY <1>1, <2>1 DEF Inductive, OnlyCursorUnsaved
  <2>5. CASE readable' = readable
    BY <2>1, <2>2, <2>3, <2>4, <2>5, Excuses DEF Ran, Owed
  <2>6. CASE readable' /\ ~readable
    BY <2>1, <2>2, <2>6, Rewrites
  <2> QED BY <2>3, <2>5, <2>6 DEF Inductive, TypeOK
<1> QED BY <1>2, <1>3

\* What happens outside the processes.
LEMMA OutsideImplements ==
  ASSUME \/ \E n \in Nodes : Dispatch(n) \/ Close(n)
         \/ SwitchOff \/ SwitchOn \/ Corrupt \/ UNCHANGED vars
  PROVE  [Debt!Next]_(Debt!vars)
<1>1. CASE Corrupt
  <2>1. readable' = FALSE /\ report' = report /\ UNCHANGED <<pc, cur>>
    BY <1>1 DEF Corrupt, locals, history
  <2>2. Debt!Lose
    BY <2>1 DEF Debt!Lose, Posting
  <2> QED BY <2>2 DEF Debt!Next
<1>2. CASE \/ \E n \in Nodes : Dispatch(n) \/ Close(n)
           \/ SwitchOff \/ SwitchOn \/ UNCHANGED vars
  <2>1. UNCHANGED <<readable, disk, pc, cur, report, spent>>
    BY <1>2 DEF Dispatch, Close, SwitchOff, SwitchOn, vars, store, locals, history
  <2> QED BY <2>1, Stutters DEF Ran, Owed, Posting
<1> QED BY <1>1, <1>2

-----------------------------------------------------------------------------
(* The theorem.                                                            *)

\* Every step of the worker is a step of the promise, or none at all.
LEMMA StepImplements ==
  Inductive /\ DebtsAreKnown /\ [Next]_vars => [Debt!Next]_(Debt!vars)
<1> SUFFICES ASSUME Inductive, DebtsAreKnown, [Next]_vars PROVE [Debt!Next]_(Debt!vars)
  OBVIOUS
<1> DEFINE Goal == [Debt!Next]_(Debt!vars)
<1>i. Inductive'
  BY InductiveNext
<1>1. ASSUME NEW w \in Workers,
             \/ Start(w) \/ RepostDone(w) \/ Fetch(w) \/ FetchFails(w) \/ FetchGivesUp(w)
             \/ PollReposts(w) \/ PollSkipsRepost(w) \/ Finish(w)
             \/ RunEnds(w) \/ Mark(w) \/ DrainEnds(w) \/ Terminate(w)
      PROVE  Goal
  BY <1>1, <1>i, StartImplements, FlushImplements, QuietImplements, LeaveImplements,
     RunEndsImplements, MarkImplements
<1>2. ASSUME NEW w \in Workers, NEW n \in Nodes,
             Skip(w, n) \/ ClaimFails(w, n) \/ Refuse(w, n) \/ Claim(w, n)
      PROVE  Goal
  BY <1>2, <1>i, QuietImplements, FlushImplements, MarkImplements
<1>3. ASSUME NEW w \in Workers, NEW n \in Nodes,
             NEW answer \in {"accepted", "unheard", "refused"}, Repost(w, n, answer)
      PROVE  Goal
  BY <1>3, <1>i, RepostImplements
<1>4. ASSUME NEW w \in Workers, NEW answer \in {"accepted", "unheard", "refused"},
             NEW raised \in BOOLEAN, Deliver(w, answer, raised)
      PROVE  Goal
  BY <1>4, <1>i, DeliverImplements
<1>5. ASSUME NEW g \in Pages, ForgetWrites(g) \/ \E n \in Nodes : ForgetReads(g, n)
      PROVE  Goal
  BY <1>5, <1>i, ForgetImplements
<1>6. ASSUME NEW p \in Procs, Kill(p) PROVE Goal
  BY <1>6, <1>i, KillImplements
<1>7. ASSUME \/ \E n \in Nodes : Dispatch(n) \/ Close(n)
             \/ SwitchOff \/ SwitchOn \/ Corrupt \/ UNCHANGED vars
      PROVE  Goal
  BY <1>7, OutsideImplements
<1> HIDE DEF Goal
<1>8. Goal
  BY <1>1, <1>2, <1>3, <1>4, <1>5, <1>6, <1>7, StepCases
<1> QED BY <1>8 DEF Goal

\* And the worker starts where the promise does.
LEMMA InitImplements == Init => Debt!Init
<1> SUFFICES ASSUME Init PROVE Debt!Init
  OBVIOUS
<1>1. Posting = {}
  BY DEF Init, Posting, Procs
<1>2. readable = TRUE /\ spent = {} /\ disk.pending = {} /\ report = [n \in Nodes |-> "none"]
  BY DEF Init, EmptyState
<1> QED BY <1>1, <1>2 DEF Debt!Init

\* Seen from outside, the workers, the page, the endpoint and the deaths take the steps of
\* ReportDebt and no others: no run is repeated and no report lost without an excuse.
THEOREM PromiseIsKept == Spec => Promise
<1>1. Spec => [](Inductive /\ DebtsAreKnown)
  BY InductiveInvariant, DebtsKnownInit, DebtsKnownNext, PTL DEF Spec
<1>2. Spec => [][Debt!Next]_(Debt!vars)
  BY <1>1, StepImplements, PTL DEF Spec
<1> QED BY <1>2, InitImplements, PTL DEF Spec, Promise, Debt!Spec

-----------------------------------------------------------------------------
(* While `seen` has room for every node.                                   *)

\* SEEN_LIMIT is not reached: no mark drops another.
NothingEvicted == IsFiniteSet(Nodes) /\ Cardinality(Nodes) <= SeenLimit

\* A full list of different nodes lists them all.
LEMMA ListFits ==
  ASSUME NothingEvicted, NEW q \in Seq(Nodes), IsInjective(q)
  PROVE  Len(q) <= SeenLimit
<1>1. /\ Len(q) \in Nat /\ DOMAIN q = 1..Len(q) /\ q \in [1..Len(q) -> Nodes]
      /\ \A i \in 1..Len(q) : q[i] \in Nodes
  OBVIOUS
<1>2. q \in Injection(1..Len(q), Nodes)
  BY <1>1 DEF Injection
<1>3. Cardinality(1..Len(q)) <= Cardinality(Nodes)
  BY <1>2, FS_Injection DEF NothingEvicted
<1> DEFINE l == Len(q)
<1>4. Cardinality(1..l) = l
  <2> HIDE DEF l
  <2>1. l \in Nat
    BY <1>1 DEF l
  <2>2. 1 \in Int /\ l \in Int
    BY <2>1
  <2>3. Cardinality(1..l) = IF 1 > l THEN 0 ELSE l - 1 + 1
    BY <2>2, FS_Interval
  <2> QED BY <2>1, <2>3
<1>5. Cardinality(Nodes) \in Nat
  BY FS_CardinalityType DEF NothingEvicted
<1> QED
  BY <1>1, <1>3, <1>4, <1>5, PollerAssumption DEF NothingEvicted

\* So `mark_seen` only adds.
LEMMA MarkSeenAdds ==
  ASSUME NothingEvicted, NEW s \in Copies, NEW n \in Nodes
  PROVE  /\ Seen(MarkSeen(s, n)) = Seen(s) \cup {n}
         /\ MarkSeen(s, n).refused = s.refused /\ MarkSeen(s, n).pending = s.pending
<1>0. /\ s \in StateFile /\ s.seen \in Seq(Nodes) /\ IsInjective(s.seen) /\ Len(s.seen) \in Nat
  BY DEF Copies, StateFile, WellFormed
<1>1. CASE n \in Seen(s)
  BY <1>1 DEF MarkSeen
<1>2. CASE n \notin Seen(s)
  <2> DEFINE r == Append(s.seen, n)
  <2>1. /\ r \in Seq(Nodes) /\ Len(r) = Len(s.seen) + 1 /\ IsInjective(r)
        /\ ToSet(r) = Seen(s) \cup {n}
    BY <1>0, <1>2, AppendFacts DEF Seen
  <2>2. Len(r) <= SeenLimit
    <3> HIDE DEF r
    <3> QED BY <2>1, ListFits
  <2>3. Len(s.seen) < SeenLimit
    BY <1>0, <2>1, <2>2, PollerAssumption
  <2>4. MarkSeen(s, n) = [s EXCEPT !.seen = r]
    BY <1>2, <2>3 DEF MarkSeen
  <2> HIDE DEF r
  <2> QED BY <1>0, <2>1, <2>4 DEF Seen, StateFile
<1> QED BY <1>1, <1>2

\* The nodes of the batch the loop is past are marked, or one of them was not handled.
BatchIsMarked ==
    \A w \in Workers :
        pc[w] \in {"drain", "run", "report", "mark"} /\ ~held[w] =>
            batch[w] \subseteq todo[w] \cup Seen(mem[w])

LEMMA BatchIsMarkedNext ==
  ASSUME NothingEvicted, Inductive, BatchIsMarked, [Next]_vars
  PROVE  BatchIsMarked'
<1> SUFFICES ASSUME NEW w \in Workers, pc'[w] \in {"drain", "run", "report", "mark"}, ~held'[w]
             PROVE  batch'[w] \subseteq todo'[w] \cup Seen(mem'[w])
  BY DEF BatchIsMarked
<1> DEFINE Goal == batch'[w] \subseteq todo'[w] \cup Seen(mem'[w])
<1>s. /\ Workers \subseteq Procs /\ Pages \subseteq Procs /\ Workers \cap Pages = {}
      /\ pc \in [Procs -> Labels] /\ mem \in [Procs -> StateFile] /\ \A q \in Procs : mem[q] \in Copies
      /\ todo \in [Procs -> SUBSET Nodes] /\ batch \in [Procs -> SUBSET Nodes]
      /\ held \in [Procs -> BOOLEAN]
      /\ \A q \in Procs : pc[q] \in {"run", "report", "mark", "forget"} => cur[q] \in Nodes
  BY CopiesInPlay, PollerAssumption DEF Procs, Inductive, TypeOK
<1>1. CASE UNCHANGED <<pc, mem, todo, batch, held>>
  BY <1>1 DEF BatchIsMarked
<1>2. ASSUME NEW p \in Procs, Leave(p) PROVE Goal
  BY <1>2, <1>s DEF Leave, Goto, BatchIsMarked
<1>3. ASSUME NEW v \in Workers,
             \/ Start(v) \/ RepostDone(v) \/ FetchFails(v) \/ PollReposts(v) \/ PollSkipsRepost(v)
             \/ DrainEnds(v)
             \/ \E n \in Nodes, answer \in {"accepted", "unheard", "refused"} : Repost(v, n, answer)
      PROVE  Goal
  <2>1. v # w
    BY <1>3, <1>s DEF Start, RepostDone, FetchFails, PollReposts, PollSkipsRepost, DrainEnds, Repost, Goto
  <2> QED
    BY <1>3, <1>s, <2>1 DEF Start, RepostDone, FetchFails, PollReposts, PollSkipsRepost, DrainEnds,
                            Repost, Goto, BatchIsMarked
<1>4. ASSUME NEW v \in Workers, Fetch(v) PROVE Goal
  BY <1>4, <1>s DEF Fetch, Goto, BatchIsMarked
<1>5. ASSUME NEW v \in Workers, NEW n \in Nodes, Skip(v, n) \/ ClaimFails(v, n) \/ Claim(v, n)
      PROVE  Goal
  BY <1>5, <1>s DEF Skip, ClaimFails, Claim, Unseen, Goto, BatchIsMarked
<1>6. ASSUME NEW v \in Workers, NEW n \in Nodes, Refuse(v, n) PROVE Goal
  BY <1>6, <1>s, RefuseFacts DEF Refuse, Unseen, Goto, BatchIsMarked
<1>7. ASSUME NEW v \in Workers, RunEnds(v) PROVE Goal
  BY <1>7, <1>s DEF RunEnds, Goto, BatchIsMarked
<1>8. ASSUME NEW v \in Workers, NEW answer \in {"accepted", "unheard", "refused"},
             NEW raised \in BOOLEAN, Deliver(v, answer, raised)
      PROVE  Goal
  <2>1. /\ pc[v] = "report" /\ UNCHANGED <<todo, batch, held>> /\ pc' = [pc EXCEPT ![v] = "mark"]
        /\ mem' = mem \/ mem' = [mem EXCEPT ![v] = Owe(mem[v], cur[v])]
    BY <1>8, <1>s DEF Deliver, Goto
  <2>2. \A q \in Workers : Seen(mem'[q]) = Seen(mem[q])
    BY <1>s, <2>1, OweFacts
  <2> QED
    BY <1>s, <2>1, <2>2 DEF BatchIsMarked
<1>9. ASSUME NEW v \in Workers, Mark(v) PROVE Goal
  <2>1. /\ pc[v] = "mark" /\ UNCHANGED <<batch, held>> /\ pc' = [pc EXCEPT ![v] = "drain"]
        /\ mem' = [mem EXCEPT ![v] = MarkSeen(mem[v], cur[v])]
        /\ todo' = [todo EXCEPT ![v] = todo[v] \ {cur[v]}]
    BY <1>9, <1>s DEF Mark, Goto
  <2>2. Seen(mem'[v]) = Seen(mem[v]) \cup {cur[v]} /\ \A q \in Workers \ {v} : mem'[q] = mem[q]
    BY <1>s, <2>1, MarkSeenAdds
  <2> QED
    BY <1>s, <2>1, <2>2 DEF BatchIsMarked
<1>10. ASSUME NEW g \in Pages, NEW n \in Nodes, ForgetReads(g, n) PROVE Goal
  BY <1>10, <1>s DEF ForgetReads, Goto, BatchIsMarked
<1>11. ASSUME \/ \E v \in Workers : FetchGivesUp(v) \/ Finish(v) \/ Terminate(v)
              \/ \E g \in Pages : ForgetWrites(g)
              \/ \E p \in Procs : Kill(p)
       PROVE  Goal
  BY <1>2, <1>11, <1>s DEF FetchGivesUp, Finish, Terminate, ForgetWrites, Kill
<1>12. ASSUME \/ \E n \in Nodes : Dispatch(n) \/ Close(n)
              \/ SwitchOff \/ SwitchOn \/ Corrupt \/ UNCHANGED vars
       PROVE  Goal
  BY <1>1, <1>12 DEF Dispatch, Close, SwitchOff, SwitchOn, Corrupt, vars, locals
<1> HIDE DEF Goal
<1>13. Goal
  BY <1>3, <1>4, <1>5, <1>6, <1>7, <1>8, <1>9, <1>10, <1>11, <1>12, StepCases
<1> QED BY <1>13 DEF Goal

\* The cursor moves only past a batch whose every node has been dealt with, whatever dies,
\* is forgotten or breaks meanwhile, as long as the list has room for every node.
THEOREM CursorWaits == NothingEvicted => (Spec => CursorWaitsForBatch)
<1> SUFFICES ASSUME NothingEvicted PROVE Spec => CursorWaitsForBatch
  OBVIOUS
<1> DEFINE Step == \A w \in Workers :
                     pc[w] = "drain" /\ pc'[w] # "off" /\ mem'[w].timestamp # mem[w].timestamp
                        => batch[w] \subseteq Seen(mem[w])
<1>1. Init => BatchIsMarked
  BY DEF Init, BatchIsMarked, Procs
<1>2. Inductive /\ BatchIsMarked /\ [Next]_vars => BatchIsMarked'
  BY BatchIsMarkedNext
<1>3. Inductive /\ BatchIsMarked /\ [Next]_vars => [Step]_vars
  <2> SUFFICES ASSUME Inductive, BatchIsMarked, [Next]_vars,
                      NEW w \in Workers, pc[w] = "drain", pc'[w] # "off",
                      mem'[w].timestamp # mem[w].timestamp
               PROVE  batch[w] \subseteq Seen(mem[w])
    OBVIOUS
  <2> DEFINE Goal == batch[w] \subseteq Seen(mem[w])
  <2>s. /\ Workers \subseteq Procs /\ Pages \subseteq Procs /\ Workers \cap Pages = {}
        /\ pc \in [Procs -> Labels] /\ mem \in [Procs -> StateFile]
    BY PollerAssumption DEF Procs, Inductive, TypeOK
  <2>1. CASE UNCHANGED mem
    BY <2>1
  <2>2. ASSUME NEW p \in Procs, Leave(p) PROVE Goal
    BY <2>2, <2>s DEF Leave, Goto
  <2>3. ASSUME NEW v \in Workers,
               \/ Start(v) \/ Mark(v)
               \/ \E n \in Nodes, answer \in {"accepted", "unheard", "refused"} : Repost(v, n, answer)
               \/ \E answer \in {"accepted", "unheard", "refused"}, raised \in BOOLEAN :
                     Deliver(v, answer, raised)
        PROVE  Goal
    <3>1. pc[v] # "drain" /\ \A q \in Procs \ {v} : mem'[q] = mem[q]
      BY <2>3, <2>s DEF Start, Mark, Repost, Deliver
    <3> QED BY <2>s, <3>1
  <2>4. ASSUME NEW v \in Workers, NEW n \in Nodes, Refuse(v, n) PROVE Goal
    <3>1. mem'[w] = mem[w] \/ mem'[w] = RefuseNode(mem[w], n)
      BY <2>4, <2>s DEF Refuse
    <3>2. RefuseNode(mem[w], n).timestamp = mem[w].timestamp
      BY <2>s DEF RefuseNode, StateFile
    <3> QED BY <3>1, <3>2
  <2>5. ASSUME NEW v \in Workers, DrainEnds(v) PROVE Goal
    <3>1. v = w /\ todo[w] = {} /\ ~held[w]
      BY <2>5, <2>s DEF DrainEnds
    <3> QED BY <3>1 DEF BatchIsMarked
  <2>6. ASSUME NEW g \in Pages, NEW n \in Nodes, ForgetReads(g, n) PROVE Goal
    BY <2>6, <2>s DEF ForgetReads
  <2>7. ASSUME \/ \E v \in Workers : FetchGivesUp(v) \/ Finish(v) \/ Terminate(v)
               \/ \E g \in Pages : ForgetWrites(g)
               \/ \E p \in Procs : Kill(p)
        PROVE  Goal
    BY <2>2, <2>7, <2>s DEF FetchGivesUp, Finish, Terminate, ForgetWrites, Kill
  <2>8. ASSUME \/ \E n \in Nodes : Dispatch(n) \/ Close(n)
               \/ SwitchOff \/ SwitchOn \/ Corrupt \/ UNCHANGED vars
               \/ \E v \in Workers : \/ RepostDone(v) \/ Fetch(v) \/ FetchFails(v) \/ PollReposts(v)
                                      \/ PollSkipsRepost(v) \/ RunEnds(v)
               \/ \E v \in Workers, n \in Nodes : Skip(v, n) \/ ClaimFails(v, n) \/ Claim(v, n)
        PROVE  Goal
    BY <2>1, <2>8 DEF Dispatch, Close, SwitchOff, SwitchOn, Corrupt, vars, locals, RepostDone, Fetch,
                      FetchFails, PollReposts, PollSkipsRepost, RunEnds, Skip, ClaimFails, Claim
  <2> HIDE DEF Goal
  <2>9. Goal
    BY <2>3, <2>4, <2>5, <2>6, <2>7, <2>8, StepCases
  <2> QED BY <2>9 DEF Goal
<1> QED
  BY <1>1, <1>2, <1>3, InductiveInvariant, PTL DEF Spec, CursorWaitsForBatch

-----------------------------------------------------------------------------
(* While nothing is killed, forgotten, corrupted or switched off either.   *)

\* A running worker's copy: what it refused or owes is marked, or about to be; no debt
\* was acknowledged, and a report in hand has not left.
CopyIsHandled(w) ==
    /\ \A n \in mem[w].refused \cup mem[w].pending :
          n \in Seen(mem[w]) \/ (pc[w] = "mark" /\ cur[w] = n)
    /\ \A n \in mem[w].pending : report[n] # "acked"
    /\ pc[w] = "report" => report[cur[w]] = "none"

\* The copy that runs; and the file, when no copy does or its changes are not written yet.
Handled ==
    /\ readable /\ \A g \in Pages : pc[g] = "off"
    /\ \A w \in Workers : pc[w] # "off" => CopyIsHandled(w)
    /\ (\A w \in Workers : pc[w] \in {"off", "repost"}) => disk.refused \subseteq Seen(disk)
    /\ (\A w \in Workers : pc[w] = "off") =>
          disk.pending \subseteq Seen(disk) /\ \A n \in disk.pending : report[n] # "acked"

\* When one worker goes on running, only its copy matters, and the file in the re-post loop.
LEMMA OneGoesOn ==
  ASSUME OneWriter', NEW v \in Workers, pc'[v] # "off", readable', CopyIsHandled(v)',
         pc'[v] = "repost" => disk'.refused \subseteq Seen(disk')
  PROVE  Handled'
<1>1. \A p \in Procs : p # v => pc'[p] = "off"
  BY DEF OneWriter, Live, Procs
<1>2. \A g \in Pages : pc'[g] = "off"
  BY <1>1, PollerAssumption DEF Procs
<1>3. \A w \in Workers : pc'[w] # "off" => w = v
  BY <1>1 DEF Procs
<1> QED BY <1>2, <1>3 DEF Handled

\* A step after which the copy lists no less, and has neither refused nor kept anything.
LEMMA CopyStaysHandled ==
  ASSUME NEW v \in Workers, CopyIsHandled(v), pc'[v] # "report", pc[v] # "mark",
         mem'[v].refused \subseteq mem[v].refused, mem'[v].pending \subseteq mem[v].pending,
         Seen(mem[v]) \subseteq Seen(mem'[v]),
         \A n \in mem'[v].pending : report'[n] = "acked" => report[n] = "acked"
  PROVE  CopyIsHandled(v)'
BY DEF CopyIsHandled

LEMMA HandledNext ==
  ASSUME NothingEvicted, Inductive, Handled, [Next]_vars, faults' = 0
  PROVE  Handled'
<1> DEFINE Goal == Handled'
<1>s. /\ Workers \subseteq Procs /\ Pages \subseteq Procs /\ Workers \cap Pages = {}
      /\ pc \in [Procs -> Labels] /\ mem \in [Procs -> StateFile] /\ \A q \in Procs : mem[q] \in Copies
      /\ cur \in [Procs -> Nodes \cup {NoNode}] /\ report \in [Nodes -> {"none", "unsent", "received", "acked"}]
      /\ \A q \in Procs : pc[q] \in {"run", "report", "mark", "forget"} => cur[q] \in Nodes
      /\ faults \in Nat /\ OneWriter' /\ OneWriter /\ NoProc \notin Procs
  BY CopiesInPlay, PollerAssumption, OneWriterNext DEF Procs, Inductive, TypeOK
<1>a. ASSUME NEW v \in Workers, pc[v] # "off" PROVE CopyIsHandled(v)
  BY <1>a DEF Handled
<1>b. readable
  BY DEF Handled
<1>1. ASSUME UNCHANGED <<locals, store, history>> PROVE Goal
  BY <1>1 DEF Handled, CopyIsHandled, locals, store, history
<1>2. ASSUME NEW v \in Workers, Start(v) PROVE Goal
  <2>1. /\ \A q \in Procs : pc[q] = "off"
        /\ mem' = [mem EXCEPT ![v] = disk] /\ pc' = [pc EXCEPT ![v] = "repost"]
        /\ disk' = disk /\ readable' = readable /\ report' = report
    BY <1>2, <1>s, <1>b DEF Start, Acquire, Goto, Load, OneWriter, Live, store
  <2>2. mem'[v] = disk /\ pc'[v] = "repost"
    BY <1>s, <2>1
  <2>3. disk.refused \cup disk.pending \subseteq Seen(disk) /\ \A n \in disk.pending : report[n] # "acked"
    BY <1>s, <2>1 DEF Handled
  <2>4. CopyIsHandled(v)'
    BY <2>1, <2>2, <2>3 DEF CopyIsHandled
  <2> QED BY <1>s, <1>b, <2>1, <2>2, <2>3, <2>4, OneGoesOn
<1>3. ASSUME NEW v \in Workers, NEW n \in Nodes,
             NEW answer \in {"accepted", "unheard", "refused"}, Repost(v, n, answer)
      PROVE  Goal
  <2>1. /\ pc[v] = "repost" /\ pc' = pc /\ disk' = disk /\ readable' = readable
        /\ report' = Arrived(n, answer)
    BY <1>3 DEF Repost, store
  <2>2. disk'.refused \subseteq Seen(disk')
    BY <1>s, <2>1 DEF Handled, OneWriter, Live
  <2>3. mem[v].pending \subseteq Nodes
    BY <1>s DEF StateFile
  <2>4. CASE answer # "accepted"
    <3>1. mem' = mem
      BY <1>3, <2>4 DEF Repost
    <3>2. \A m \in Nodes : report'[m] = "acked" => report[m] = "acked"
      BY <1>s, <2>1, <2>4 DEF Arrived
    <3>3. CopyIsHandled(v)'
      BY <1>a, <1>s, <2>1, <2>3, <3>1, <3>2, CopyStaysHandled
    <3> QED BY <1>s, <1>b, <2>1, <2>2, <3>3, OneGoesOn
  <2>5. CASE answer = "accepted"
    <3> DEFINE s == Settle(mem[v], n)
    <3>1. mem'[v] = MarkSeen(s, n)
      BY <1>3, <1>s, <2>5 DEF Repost
    <3>2. /\ s \in Copies /\ Seen(s) = Seen(mem[v]) /\ s.refused = mem[v].refused
          /\ s.pending = mem[v].pending \ {n}
      BY <1>s, SettleFacts
    <3> HIDE DEF s
    <3>3. /\ Seen(mem'[v]) = Seen(mem[v]) \cup {n}
          /\ mem'[v].refused = mem[v].refused /\ mem'[v].pending = mem[v].pending \ {n}
      BY <3>1, <3>2, MarkSeenAdds
    <3>4. \A m \in Nodes \ {n} : report'[m] = report[m]
      BY <1>s, <2>1, <2>5 DEF Arrived
    <3>5. CopyIsHandled(v)'
      BY <1>a, <1>s, <2>1, <2>3, <3>3, <3>4, CopyStaysHandled
    <3> QED BY <1>s, <1>b, <2>1, <2>2, <3>5, OneGoesOn
  <2> QED BY <2>4, <2>5
<1>4. ASSUME NEW v \in Workers,
             \/ RepostDone(v) \/ Fetch(v) \/ FetchFails(v) \/ PollSkipsRepost(v) \/ DrainEnds(v)
             \/ \E n \in Nodes : Skip(v, n) \/ ClaimFails(v, n) \/ Claim(v, n)
      PROVE  Goal
  <2>1. /\ pc[v] \notin {"off", "mark"} /\ pc'[v] \notin {"off", "report", "repost"}
        /\ report' = report
    BY <1>4, <1>s DEF RepostDone, Fetch, FetchFails, PollSkipsRepost, DrainEnds, Skip, ClaimFails,
                      Claim, Unseen, Goto, history
  <2>2. readable'
    BY <1>4, <1>b DEF RepostDone, Fetch, FetchFails, PollSkipsRepost, DrainEnds, Skip, ClaimFails,
                      Claim, Flush, Write, store
  <2>3. /\ mem'[v].refused = mem[v].refused /\ mem'[v].pending = mem[v].pending
        /\ mem'[v].seen = mem[v].seen
    <3>1. mem'[v] = mem[v] \/ \E t \in Nat : mem' = [mem EXCEPT ![v].timestamp = t]
      <4>1. ASSUME NEW t \in Newest(mem[v], batch[v]) PROVE t \in Nat
        BY <1>s, <4>1, PollerAssumption DEF Newest, Stamps, StateFile, Inductive, TypeOK
      <4> QED
        BY <1>4, <4>1 DEF RepostDone, Fetch, FetchFails, PollSkipsRepost, DrainEnds, Skip, ClaimFails,
                          Claim
    <3>2. mem[v] \in StateFile
      BY <1>s
    <3>3. ASSUME NEW t \in Nat, mem' = [mem EXCEPT ![v].timestamp = t]
          PROVE  mem'[v] = [mem[v] EXCEPT !.timestamp = t]
      BY <1>s, <3>3
    <3> QED BY <3>1, <3>2, <3>3 DEF StateFile
  <2>4. CopyIsHandled(v)'
    BY <1>a, <2>1, <2>3, CopyStaysHandled DEF Seen
  <2> QED BY <1>s, <2>1, <2>2, <2>4, OneGoesOn
<1>5. ASSUME NEW v \in Workers, PollReposts(v) PROVE Goal
  <2>1. /\ pc[v] = "sleep" /\ pc'[v] = "repost" /\ mem' = mem /\ disk' = disk
        /\ readable' = readable /\ report' = report
    BY <1>5, <1>s DEF PollReposts, Goto, store, history
  <2>2. CopyIsHandled(v)'
    BY <1>a, <2>1, CopyStaysHandled
  <2>3. disk.refused \subseteq Seen(disk)
    BY <1>a, <1>b, <1>s, <2>1 DEF Inductive, OnlyCursorUnsaved, CopyIsHandled, Seen
  <2> QED BY <1>s, <1>b, <2>1, <2>2, <2>3, OneGoesOn
<1>6. ASSUME NEW v \in Workers, NEW n \in Nodes, Refuse(v, n) PROVE Goal
  <2>1. /\ pc[v] = "drain" /\ pc'[v] = "mark" /\ cur'[v] = n /\ report' = report
        /\ mem'[v] = RefuseNode(mem[v], n) /\ readable'
    BY <1>6, <1>s DEF Refuse, Unseen, Goto, Write, history
  <2>2. /\ Seen(mem'[v]) = Seen(mem[v]) /\ mem'[v].refused = mem[v].refused \cup {n}
        /\ mem'[v].pending = mem[v].pending
    BY <1>s, <2>1, RefuseFacts
  <2>3. CopyIsHandled(v)'
    BY <1>a, <2>1, <2>2 DEF CopyIsHandled
  <2> QED BY <1>s, <2>1, <2>3, OneGoesOn
<1>7. ASSUME NEW v \in Workers, RunEnds(v) PROVE Goal
  <2>1. /\ pc[v] = "run" /\ pc'[v] = "report" /\ cur' = cur /\ mem' = mem /\ readable' = readable
        /\ report' = [report EXCEPT ![cur[v]] = "none"] /\ cur[v] \in Nodes
    BY <1>7, <1>s DEF RunEnds, Goto, store
  <2>2. CopyIsHandled(v)'
    BY <1>a, <1>s, <2>1 DEF CopyIsHandled
  <2> QED BY <1>s, <1>b, <2>1, <2>2, OneGoesOn
<1>8. ASSUME NEW v \in Workers, NEW answer \in {"accepted", "unheard", "refused"},
             NEW raised \in BOOLEAN, Deliver(v, answer, raised)
      PROVE  Goal
  <2> DEFINE n == cur[v]
  <2>1. /\ pc[v] = "report" /\ pc'[v] = "mark" /\ cur' = cur /\ readable'
    BY <1>8, <1>b, <1>s DEF Deliver, Goto, Write, Flush, store
  <2>2. /\ n \in Nodes /\ report[n] = "none" /\ n \notin mem[v].pending
        /\ \A m \in mem[v].refused \cup mem[v].pending : m \in Seen(mem[v])
        /\ \A m \in mem[v].pending : report[m] # "acked"
    BY <1>a, <1>s, <2>1 DEF Inductive, CopyIsSound, CopyIsHandled, Live
  <2>3. /\ \A m \in Nodes \ {n} : report'[m] = report[m]
        /\ mem' = mem \/ (mem' = [mem EXCEPT ![v] = Owe(mem[v], n)] /\ report'[n] # "acked")
    BY <1>8, <1>s, <2>2 DEF Deliver, Arrived
  <2>4. mem[v].pending \subseteq Nodes
    BY <1>s DEF StateFile
  <2>5. CASE mem' = mem
    <3>1. CopyIsHandled(v)'
      BY <2>1, <2>2, <2>3, <2>4, <2>5 DEF CopyIsHandled
    <3> QED BY <1>s, <2>1, <3>1, OneGoesOn
  <2>6. CASE mem' = [mem EXCEPT ![v] = Owe(mem[v], n)] /\ report'[n] # "acked"
    <3>1. /\ Seen(mem'[v]) = Seen(mem[v]) /\ mem'[v].refused = mem[v].refused
          /\ mem'[v].pending = mem[v].pending \cup {n}
      BY <1>s, <2>2, <2>6, OweFacts
    <3>2. CopyIsHandled(v)'
      BY <2>1, <2>2, <2>3, <2>4, <2>6, <3>1 DEF CopyIsHandled
    <3> QED BY <1>s, <2>1, <3>2, OneGoesOn
  <2> QED BY <2>3, <2>5, <2>6
<1>9. ASSUME NEW v \in Workers, Mark(v) PROVE Goal
  <2>1. /\ pc[v] = "mark" /\ pc'[v] = "drain" /\ report' = report /\ readable'
        /\ mem'[v] = MarkSeen(mem[v], cur[v]) /\ cur[v] \in Nodes
    BY <1>9, <1>s DEF Mark, Goto, Write
  <2>2. /\ Seen(mem'[v]) = Seen(mem[v]) \cup {cur[v]} /\ mem'[v].refused = mem[v].refused
        /\ mem'[v].pending = mem[v].pending
    BY <1>s, <2>1, MarkSeenAdds
  <2>3. CopyIsHandled(v)'
    BY <1>a, <2>1, <2>2 DEF CopyIsHandled
  <2> QED BY <1>s, <2>1, <2>3, OneGoesOn
<1>10. ASSUME NEW v \in Workers, FetchGivesUp(v) \/ Finish(v) PROVE Goal
  <2>1. /\ pc[v] \in {"fetch", "sleep"} /\ pc' = [pc EXCEPT ![v] = "off"] /\ report' = report
        /\ readable' /\ (disk' = disk \/ disk' = mem[v])
    BY <1>10, <1>b DEF FetchGivesUp, Finish, Leave, Goto, Flush, Write, store, history
  <2>2. /\ disk'.seen = mem[v].seen /\ disk'.refused = mem[v].refused
        /\ disk'.pending = mem[v].pending
    BY <1>b, <1>s, <2>1 DEF Inductive, OnlyCursorUnsaved
  <2>3. \A q \in Procs : pc'[q] = "off"
    BY <1>s, <2>1 DEF OneWriter, Live
  <2>4. /\ mem[v].refused \cup mem[v].pending \subseteq Seen(mem[v])
        /\ \A n \in mem[v].pending : report[n] # "acked"
    BY <1>a, <2>1 DEF CopyIsHandled
  <2> QED BY <1>s, <2>1, <2>2, <2>3, <2>4 DEF Handled, Seen
<1>11. ASSUME NEW g \in Pages, ForgetWrites(g) PROVE Goal
  BY <1>11 DEF ForgetWrites, Handled
<1>12. ASSUME \/ \E n \in Nodes : Dispatch(n) \/ Close(n)
              \/ SwitchOn \/ UNCHANGED vars
       PROVE  Goal
  BY <1>1, <1>12 DEF Dispatch, Close, SwitchOn, vars
<1>13. ASSUME \/ \E g \in Pages, n \in Nodes : ForgetReads(g, n)
              \/ \E v \in Workers : Terminate(v)
              \/ \E p \in Procs : Kill(p)
              \/ SwitchOff \/ Corrupt
       PROVE  Goal
  BY <1>13, <1>s DEF ForgetReads, Terminate, Kill, SwitchOff, Corrupt
<1> HIDE DEF Goal
<1>14. Goal
  BY <1>2, <1>3, <1>4, <1>5, <1>6, <1>7, <1>8, <1>9, <1>10, <1>11, <1>12, <1>13, StepCases
<1> QED BY <1>14 DEF Goal

LEMMA FaultsGrow ==
  ASSUME [Next]_vars
  PROVE  faults' = faults \/ faults' = faults + 1
BY StepCases DEF Start, RepostDone, Fetch, FetchFails, FetchGivesUp, PollReposts, PollSkipsRepost,
                 Finish, RunEnds, Mark, DrainEnds, Terminate, Repost, Skip, ClaimFails, Refuse,
                 Claim, Deliver, ForgetReads, ForgetWrites, Kill, Dispatch, Close, SwitchOff,
                 SwitchOn, Corrupt, vars

\* With no fault so far.
Clean == faults = 0 => Handled

LEMMA CleanInit == Init => Clean
BY PollerAssumption, EmptyStateFacts DEF Init, Clean, Handled, Procs, EmptyState, Seen

LEMMA CleanNext ==
  ASSUME NothingEvicted, Inductive, Clean, [Next]_vars
  PROVE  Clean' /\ (faults' = 0 => faults = 0)
<1>1. faults \in Nat
  BY DEF Inductive, TypeOK
<1>2. faults' = 0 => faults = 0
  BY <1>1, FaultsGrow
<1> QED BY <1>2, HandledNext DEF Clean

\* With no fault so far, what the worker refused, owes or had accepted it does not take up
\* again, as long as the list has room for every node.
THEOREM HandledNodesAreLeft == NothingEvicted => (Spec => [](faults = 0 => HandledIsLeftAlone))
<1> SUFFICES ASSUME NothingEvicted PROVE Spec => [](faults = 0 => HandledIsLeftAlone)
  OBVIOUS
<1>2. Inductive /\ Clean /\ [Next]_vars => Clean'
  BY CleanNext
<1>3. Inductive /\ Clean => (faults = 0 => HandledIsLeftAlone)
  <2> SUFFICES ASSUME Inductive, Handled PROVE HandledIsLeftAlone
    BY DEF Clean
  <2>s. /\ Workers \subseteq Procs /\ pc \in [Procs -> Labels] /\ mem \in [Procs -> StateFile]
        /\ \A w \in Workers : pc[w] # "off" => CopyIsHandled(w)
    BY DEF Handled, Inductive, TypeOK, Procs
  <2>1. RefusedIsSeen
    <3> SUFFICES ASSUME NEW n \in disk.refused, n \notin Seen(disk) PROVE InHand(n, {"mark"})
      BY DEF RefusedIsSeen
    <3>1. PICK w \in Workers : pc[w] \notin {"off", "repost"}
      BY DEF Handled
    <3>2. mem[w].refused = disk.refused /\ Seen(mem[w]) = Seen(disk)
      BY <2>s, <3>1 DEF Inductive, OnlyCursorUnsaved, Handled, Seen
    <3> QED BY <2>s, <3>1, <3>2 DEF CopyIsHandled, InHand
  <2>2. PendingNeverRerun
    BY <2>s DEF PendingNeverRerun, CopyIsHandled, Inductive, CopyIsSound, Live
  <2>3. AckedIsNotOwed
    BY <2>s DEF AckedIsNotOwed, CopyIsHandled
  <2> QED BY <2>1, <2>2, <2>3 DEF HandledIsLeftAlone
<1> QED
  BY <1>2, <1>3, CleanInit, InductiveInvariant, PTL DEF Spec

-----------------------------------------------------------------------------
(* The queue table beside the worker.  What a page read may be older than  *)
(* the ledger it walks, never newer: the ledger only grows.                *)

\* Nodes whose run ended, with a row or without.
Ended == ledger \cup unrecorded

\* A copy in the light of the Ended L: what is owed was run, what is listed was run or
\* put down.
Explains(s, L) == s.pending \subseteq L /\ Seen(s) \subseteq s.refused \cup L

\* The file, every copy, what a worker has in hand or set itself to re-post, and what a
\* page has read.
AllExplained ==
    /\ Explains(disk, Ended) /\ \A p \in Procs : Explains(mem[p], Ended)
    /\ \A w \in Workers :
        /\ pc[w] = "repost" => todo[w] \subseteq Ended
        /\ pc[w] = "report" => cur[w] \in Ended
        /\ pc[w] = "mark" => cur[w] \in mem[w].refused \cup Ended
    /\ request # NoRequest =>
        request.held \subseteq Ended /\ request.claimed \subseteq request.refused \cup Ended

\* The state file's operations keep a copy explained.
LEMMA ExplainedCopies ==
  ASSUME NEW s \in Copies, NEW n \in Nodes, NEW L, Explains(s, L)
  PROVE  /\ n \in s.refused \cup L => Explains(MarkSeen(s, n), L)
         /\ n \in L => Explains(Owe(s, n), L)
         /\ Explains(RefuseNode(s, n), L) /\ n \in RefuseNode(s, n).refused
         /\ n \in L => Explains(MarkSeen(Settle(s, n), n), L)
         /\ n \in Seen(s) => Explains(ForgetNode(s, n), L)
<1>1. n \in s.refused \cup L => Explains(MarkSeen(s, n), L)
  BY MarkSeenFacts DEF Explains
<1>2. n \in L => Explains(Owe(s, n), L)
  BY OweFacts DEF Explains
<1>3. Explains(RefuseNode(s, n), L) /\ n \in RefuseNode(s, n).refused
  BY RefuseFacts DEF Explains
<1>4. n \in L => Explains(MarkSeen(Settle(s, n), n), L)
  <2> DEFINE r == Settle(s, n)
  <2>1. r \in Copies /\ Explains(r, L)
    BY SettleFacts DEF Explains
  <2> HIDE DEF r
  <2>2. n \in L => Explains(MarkSeen(r, n), L)
    BY <2>1, MarkSeenFacts DEF Explains
  <2> QED BY <2>2 DEF r
<1>5. n \in Seen(s) => Explains(ForgetNode(s, n), L)
  BY ForgetNodeFacts DEF Explains
<1> QED BY <1>1, <1>2, <1>3, <1>4, <1>5

\* A larger Ended explains no less, and an empty copy has nothing to explain.
LEMMA ExplainedLater ==
  ASSUME NEW L, NEW M, L \subseteq M
  PROVE  /\ Explains(EmptyState, L)
         /\ \A s : Explains(s, L) => Explains(s, M)
<1>1. Explains(EmptyState, L)
  BY EmptyStateFacts DEF Explains, EmptyState
<1> QED BY <1>1 DEF Explains

\* What one worker's step must leave: it and the file, for the others do not move.
LEMMA WorkerExplained ==
  ASSUME AllExplained, Ended \subseteq Ended', NEW v \in Workers,
         mem' \in [Procs -> StateFile], \A q \in Procs \ {v} : mem'[q] = mem[q] /\ pc'[q] = pc[q],
         \A q \in Procs \ {v} : todo'[q] = todo[q] /\ cur'[q] = cur[q],
         Explains(disk', Ended'), Explains(mem'[v], Ended'),
         pc'[v] = "repost" => todo'[v] \subseteq Ended',
         pc'[v] = "report" => cur'[v] \in Ended',
         pc'[v] = "mark" => cur'[v] \in mem'[v].refused \cup Ended',
         UNCHANGED request
  PROVE  AllExplained'
<1>1. \A q \in Procs : Explains(mem'[q], Ended')
  BY ExplainedLater DEF AllExplained
<1>2. \A w \in Workers :
        /\ pc'[w] = "repost" => todo'[w] \subseteq Ended'
        /\ pc'[w] = "report" => cur'[w] \in Ended'
        /\ pc'[w] = "mark" => cur'[w] \in mem'[w].refused \cup Ended'
  BY DEF AllExplained, Procs
<1>3. request' # NoRequest =>
        request'.held \subseteq Ended' /\ request'.claimed \subseteq request'.refused \cup Ended'
  BY DEF AllExplained
<1> QED BY <1>1, <1>2, <1>3 DEF AllExplained

LEMMA ExplainedNext ==
  ASSUME Inductive, AllExplained, [Next]_vars, Ended \subseteq Ended',
         \A w \in Workers : pc[w] = "run" /\ pc'[w] = "report" => cur[w] \in Ended',
         UNCHANGED request
  PROVE  AllExplained'
<1> DEFINE Goal == AllExplained'
<1>s. /\ Workers \subseteq Procs /\ Pages \subseteq Procs /\ Workers \cap Pages = {}
      /\ pc \in [Procs -> Labels] /\ mem \in [Procs -> StateFile] /\ \A q \in Procs : mem[q] \in Copies
      /\ cur \in [Procs -> Nodes \cup {NoNode}] /\ todo \in [Procs -> SUBSET Nodes]
      /\ \A q \in Procs : pc[q] \in {"run", "report", "mark", "forget"} => cur[q] \in Nodes
      /\ Load \in Copies
  BY CopiesInPlay, PollerAssumption DEF Procs, Inductive, TypeOK
<1>n. mem' \in [Procs -> StateFile]
  BY TypeNext DEF Inductive, TypeOK
<1>e. /\ Explains(disk, Ended') /\ \A q \in Procs : Explains(mem[q], Ended')
      /\ Explains(EmptyState, Ended') /\ Explains(Load, Ended')
  BY ExplainedLater DEF AllExplained, Load
<1>1. ASSUME UNCHANGED <<disk, pc, mem, todo, cur>> PROVE Goal
  BY <1>1, <1>e DEF AllExplained
<1>2. ASSUME NEW v \in Workers, Start(v) PROVE Goal
  <2>1. /\ mem' = [mem EXCEPT ![v] = Load] /\ pc' = [pc EXCEPT ![v] = "repost"]
        /\ todo' = [todo EXCEPT ![v] = Load.pending] /\ disk' = disk /\ cur' = cur
    BY <1>2 DEF Start, Goto, store
  <2>2. Load.pending \subseteq Ended'
    BY <1>e DEF Explains
  <2> QED BY <1>s, <1>n, <1>e, <2>1, <2>2, WorkerExplained
<1>3. ASSUME NEW v \in Workers, NEW n \in Nodes,
             NEW answer \in {"accepted", "unheard", "refused"}, Repost(v, n, answer)
      PROVE  Goal
  <2>1. /\ pc[v] = "repost" /\ n \in todo[v] /\ UNCHANGED <<pc, disk, cur>>
        /\ todo' = [todo EXCEPT ![v] = todo[v] \ {n}]
        /\ mem' = mem \/ mem' = [mem EXCEPT ![v] = MarkSeen(Settle(mem[v], n), n)]
    BY <1>3 DEF Repost, store
  <2>2. n \in Ended' /\ todo'[v] \subseteq Ended'
    BY <1>s, <2>1 DEF AllExplained
  <2>3. Explains(mem'[v], Ended') /\ \A q \in Procs \ {v} : mem'[q] = mem[q]
    BY <1>s, <1>e, <2>1, <2>2, ExplainedCopies
  <2> QED BY <1>s, <1>n, <1>e, <2>1, <2>2, <2>3, WorkerExplained
<1>4. ASSUME NEW v \in Workers,
             \/ RepostDone(v) \/ FetchFails(v) \/ PollSkipsRepost(v) \/ Fetch(v) \/ DrainEnds(v)
             \/ PollReposts(v) \/ RunEnds(v)
             \/ \E n \in Nodes : Skip(v, n) \/ ClaimFails(v, n) \/ Claim(v, n)
      PROVE  Goal
  <2>1. /\ \A q \in Procs \ {v} : mem'[q] = mem[q] /\ pc'[q] = pc[q] /\ todo'[q] = todo[q]
        /\ \A q \in Procs \ {v} : cur'[q] = cur[q]
        /\ disk' \in {disk, mem[v]}
        /\ pc'[v] \notin {"off", "mark", "forget"}
        /\ pc'[v] = "report" => pc[v] = "run" /\ cur'[v] = cur[v]
        /\ pc'[v] = "repost" => todo'[v] = mem[v].pending
    BY <1>4, <1>s DEF RepostDone, FetchFails, PollSkipsRepost, Fetch, DrainEnds, PollReposts, RunEnds,
                      Skip, ClaimFails, Claim, Unseen, Goto, Flush, Write, store
  <2>2. /\ mem'[v].refused = mem[v].refused /\ mem'[v].pending = mem[v].pending
        /\ mem'[v].seen = mem[v].seen
    <3>1. mem' = mem \/ \E t \in Nat : mem' = [mem EXCEPT ![v].timestamp = t]
      <4>1. ASSUME NEW t \in Newest(mem[v], batch[v]) PROVE t \in Nat
        BY <1>s, <4>1, PollerAssumption DEF Newest, Stamps, StateFile, Inductive, TypeOK
      <4> QED
        BY <1>4, <4>1 DEF RepostDone, FetchFails, PollSkipsRepost, Fetch, DrainEnds, PollReposts,
                          RunEnds, Skip, ClaimFails, Claim
    <3>2. ASSUME NEW t \in Nat, mem' = [mem EXCEPT ![v].timestamp = t]
          PROVE  mem'[v] = [mem[v] EXCEPT !.timestamp = t]
      BY <1>s, <3>2
    <3>3. mem[v] \in StateFile
      BY <1>s
    <3> QED BY <3>1, <3>2, <3>3 DEF StateFile
  <2>3. Explains(mem'[v], Ended') /\ mem[v].pending \subseteq Ended'
    BY <1>s, <1>e, <2>2 DEF Explains, Seen
  <2>4. Explains(disk', Ended')
    BY <1>s, <1>e, <2>1
  <2>5. pc'[v] = "report" => cur'[v] \in Ended'
    BY <2>1
  <2> QED BY <1>n, <2>1, <2>3, <2>4, <2>5, WorkerExplained
<1>5. ASSUME NEW v \in Workers, NEW n \in Nodes, Refuse(v, n) PROVE Goal
  <2>1. /\ mem' = [mem EXCEPT ![v] = RefuseNode(mem[v], n)] /\ disk' = mem'[v] /\ todo' = todo
        /\ cur' = [cur EXCEPT ![v] = n] /\ pc' = [pc EXCEPT ![v] = "mark"]
    BY <1>5 DEF Refuse, Goto, Write
  <2>2. Explains(mem'[v], Ended') /\ n \in mem'[v].refused
    BY <1>s, <1>e, <2>1, ExplainedCopies
  <2> QED BY <1>s, <1>n, <2>1, <2>2, WorkerExplained
<1>6. ASSUME NEW v \in Workers, NEW answer \in {"accepted", "unheard", "refused"},
             NEW raised \in BOOLEAN, Deliver(v, answer, raised)
      PROVE  Goal
  <2>1. /\ pc[v] = "report" /\ UNCHANGED <<cur, todo>> /\ pc' = [pc EXCEPT ![v] = "mark"]
        /\ mem' = mem \/ mem' = [mem EXCEPT ![v] = Owe(mem[v], cur[v])]
        /\ disk' \in {disk, mem[v], mem'[v]}
    BY <1>6 DEF Deliver, Goto, Flush, Write, store
  <2>2. cur[v] \in Ended' /\ cur[v] \in Nodes
    BY <1>s, <2>1 DEF AllExplained
  <2>3. Explains(mem'[v], Ended') /\ \A q \in Procs \ {v} : mem'[q] = mem[q]
    BY <1>s, <1>e, <2>1, <2>2, ExplainedCopies
  <2>4. Explains(disk', Ended')
    BY <1>s, <1>e, <2>1, <2>3
  <2> QED BY <1>s, <1>n, <2>1, <2>2, <2>3, <2>4, WorkerExplained
<1>7. ASSUME NEW v \in Workers, Mark(v) PROVE Goal
  <2>1. /\ pc[v] = "mark" /\ pc' = [pc EXCEPT ![v] = "drain"]
        /\ mem' = [mem EXCEPT ![v] = MarkSeen(mem[v], cur[v])] /\ disk' = mem'[v]
        /\ cur' = [cur EXCEPT ![v] = NoNode] /\ todo' = [todo EXCEPT ![v] = todo[v] \ {cur[v]}]
    BY <1>7 DEF Mark, Goto, Write
  <2>2. cur[v] \in mem[v].refused \cup Ended' /\ cur[v] \in Nodes
    BY <1>s, <2>1 DEF AllExplained
  <2>3. Explains(mem'[v], Ended')
    BY <1>s, <1>e, <2>1, <2>2, ExplainedCopies
  <2> QED BY <1>s, <1>n, <2>1, <2>3, WorkerExplained
<1>8. ASSUME NEW p \in Procs, Leave(p), Explains(disk', Ended') PROVE Goal
  <2>1. /\ pc' = [pc EXCEPT ![p] = "off"] /\ mem' = [mem EXCEPT ![p] = EmptyState]
        /\ todo' = [todo EXCEPT ![p] = {}] /\ cur' = [cur EXCEPT ![p] = NoNode]
    BY <1>8 DEF Leave, Goto
  <2>2. \A q \in Procs : Explains(mem'[q], Ended')
    BY <1>s, <1>e, <2>1
  <2> QED BY <1>s, <1>8, <2>1, <2>2 DEF AllExplained
<1>9. ASSUME NEW v \in Workers, FetchGivesUp(v) \/ Finish(v) \/ Terminate(v) PROVE Goal
  <2>1. Leave(v) /\ disk' \in {disk, mem[v]}
    BY <1>9 DEF FetchGivesUp, Finish, Terminate, Flush, Write, store
  <2> QED BY <1>s, <1>e, <1>8, <2>1
<1>10. ASSUME NEW p \in Procs, Kill(p) PROVE Goal
  BY <1>e, <1>8, <1>10 DEF Kill, store
<1>11. ASSUME NEW g \in Pages, ForgetWrites(g) PROVE Goal
  <2>1. /\ Leave(g) /\ cur[g] \in Nodes
        /\ disk' = disk \/ (cur[g] \in Seen(mem[g]) /\ disk' = ForgetNode(mem[g], cur[g]))
    BY <1>s, <1>11 DEF ForgetWrites, Write, store
  <2>2. Explains(disk', Ended')
    BY <1>s, <1>e, <2>1, ExplainedCopies
  <2> QED BY <1>s, <1>8, <2>1, <2>2
<1>12. ASSUME NEW g \in Pages, NEW n \in Nodes, ForgetReads(g, n) PROVE Goal
  <2>1. /\ mem' = [mem EXCEPT ![g] = Load] /\ pc' = [pc EXCEPT ![g] = "forget"]
        /\ cur' = [cur EXCEPT ![g] = n] /\ UNCHANGED <<disk, todo>>
    BY <1>12 DEF ForgetReads, Goto, store
  <2>2. \A q \in Procs : Explains(mem'[q], Ended')
    BY <1>s, <1>e, <2>1
  <2>3. \A w \in Workers : pc'[w] = pc[w] /\ cur'[w] = cur[w] /\ mem'[w] = mem[w]
    BY <1>s, <2>1
  <2> QED BY <1>s, <1>e, <2>1, <2>2, <2>3 DEF AllExplained
<1>13. ASSUME \/ \E n \in Nodes : Dispatch(n) \/ Close(n)
              \/ SwitchOff \/ SwitchOn \/ UNCHANGED vars
       PROVE  Goal
  BY <1>1, <1>13 DEF Dispatch, Close, SwitchOff, SwitchOn, vars, locals, store
<1>14. ASSUME Corrupt PROVE Goal
  BY <1>14, <1>e DEF Corrupt, AllExplained, locals
<1> HIDE DEF Goal
<1>15. Goal
  BY <1>2, <1>3, <1>4, <1>5, <1>6, <1>7, <1>9, <1>10, <1>11, <1>12, <1>13, <1>14, StepCases
<1> QED BY <1>15 DEF Goal

\* No page says `seen` of a node this worker handled, but of one whose row could not be
\* written, whatever dies or is forgotten, and however far apart the page's two reads are.
THEOREM MarksAreExplained == PageSpec => []EveryMarkIsExplained
<1> DEFINE Known == Inductive /\ AllExplained
<1>1. PageInit => Known
  <2> SUFFICES ASSUME PageInit PROVE AllExplained
    BY InductiveInit DEF PageInit
  <2>1. \A q \in Procs : mem[q] = EmptyState /\ pc[q] = "off"
    BY DEF PageInit, Init
  <2>2. Explains(EmptyState, Ended)
    BY ExplainedLater
  <2> QED BY <2>1, <2>2 DEF PageInit, Init, AllExplained, Procs
<1>2. Known /\ [PageNext]_<<vars, pageVars>> => Known'
  <2> SUFFICES ASSUME Inductive, AllExplained, [PageNext]_<<vars, pageVars>>
               PROVE  Inductive' /\ AllExplained'
    OBVIOUS
  <2>1. Inductive'
    BY InductiveNext DEF PageNext, WorkerStep, PageRequest
  <2>v. UNCHANGED vars => UNCHANGED <<disk, readable, pc, mem, todo, cur>>
    BY DEF vars, store, locals
  <2>2. CASE WorkerStep
    <3>1. \/ ledger' = ledger \cup RunsOver /\ unrecorded' = unrecorded
          \/ unrecorded' = unrecorded \cup RunsOver /\ ledger' = ledger
      BY <2>2 DEF WorkerStep, LedgerKeeps
    <3>2. Ended \subseteq Ended' /\ RunsOver \subseteq Ended'
      BY <3>1 DEF Ended
    <3>3. \A w \in Workers : pc[w] = "run" /\ pc'[w] = "report" => cur[w] \in Ended'
      BY <3>2 DEF RunsOver
    <3> QED BY <2>1, <2>2, <3>2, <3>3, ExplainedNext DEF WorkerStep
  <2>3. CASE ReadState /\ UNCHANGED vars
    <3>1. Explains(Load, Ended)
      BY ExplainedLater DEF AllExplained, Load
    <3>2. /\ request'.held \subseteq Ended /\ request'.claimed \subseteq request'.refused \cup Ended
          /\ Ended' = Ended
      BY <2>3, <3>1 DEF ReadState, WorkerState, Explains, Ended
    <3> QED BY <2>1, <2>v, <2>3, <3>2 DEF AllExplained
  <2>4. CASE Draw /\ UNCHANGED vars
    <3>1. request' = NoRequest /\ Ended' = Ended
      BY <2>4 DEF Draw, Ended
    <3> QED BY <2>1, <2>v, <2>4, <3>1 DEF AllExplained
  <2>5. CASE UNCHANGED <<vars, pageVars>>
    <3>1. Ended' = Ended
      BY <2>5 DEF pageVars, Ended
    <3> QED BY <2>1, <2>v, <2>5, <3>1 DEF AllExplained, pageVars
  <2> QED BY <2>1, <2>2, <2>3, <2>4, <2>5 DEF PageNext, PageRequest
<1>3. Known => EveryMarkIsExplained
  BY DEF AllExplained, EveryMarkIsExplained, FateOf, Ended
<1> QED
  BY <1>1, <1>2, <1>3, PTL DEF PageSpec

-----------------------------------------------------------------------------
(* What the ledger names is marked while nothing goes wrong, so the page   *)
(* offers to forget nothing that could be run again owing a report.        *)

LedgerIsMarked ==
    /\ \A w \in Workers : pc[w] # "off" =>
          \A n \in ledger : n \in Seen(mem[w]) \/ (pc[w] \in {"report", "mark"} /\ cur[w] = n)
    /\ (\A w \in Workers : pc[w] = "off") => ledger \subseteq Seen(disk)

\* When one worker goes on running, only its copy matters.
LEMMA OneMarks ==
  ASSUME OneWriter', NEW v \in Workers, pc'[v] # "off",
         \A n \in ledger' : n \in Seen(mem'[v]) \/ (pc'[v] \in {"report", "mark"} /\ cur'[v] = n)
  PROVE  LedgerIsMarked'
<1>1. \A w \in Workers : pc'[w] # "off" => w = v
  BY DEF OneWriter, Live, Procs
<1> QED BY <1>1 DEF LedgerIsMarked

\* The ledger grows by the node of the worker whose run ends, or not.
LEMMA LedgerOf ==
  ASSUME OneWriter, LedgerKeeps, NEW v \in Workers, pc[v] # "off" \/ \A q \in Procs : pc[q] = "off"
  PROVE  /\ pc[v] = "run" /\ pc'[v] = "report" => ledger' \in {ledger, ledger \cup {cur[v]}}
         /\ ~(pc[v] = "run" /\ pc'[v] = "report") => ledger' = ledger
<1>1. \A w \in Workers : pc[w] # "off" => w = v
  BY DEF OneWriter, Live, Procs
<1> QED BY <1>1 DEF LedgerKeeps, RunsOver

LEMMA LedgerMarkedNext ==
  ASSUME NothingEvicted, Inductive, Handled, LedgerIsMarked, [Next]_vars, LedgerKeeps, faults' = 0
  PROVE  LedgerIsMarked'
<1> DEFINE Goal == LedgerIsMarked'
<1>s. /\ Workers \subseteq Procs /\ Pages \subseteq Procs
      /\ pc \in [Procs -> Labels] /\ mem \in [Procs -> StateFile] /\ \A q \in Procs : mem[q] \in Copies
      /\ cur \in [Procs -> Nodes \cup {NoNode}]
      /\ \A q \in Procs : pc[q] \in {"run", "report", "mark", "forget"} => cur[q] \in Nodes
      /\ faults \in Nat /\ OneWriter' /\ OneWriter /\ NoProc \notin Procs /\ readable
      /\ \A g \in Pages : pc[g] = "off"
  BY CopiesInPlay, PollerAssumption, OneWriterNext DEF Procs, Inductive, TypeOK, Handled
<1>a. ASSUME NEW v \in Workers, pc[v] # "off"
      PROVE  \A n \in ledger : n \in Seen(mem[v]) \/ (pc[v] \in {"report", "mark"} /\ cur[v] = n)
  BY <1>a DEF LedgerIsMarked
<1>1. ASSUME UNCHANGED <<locals, store>> PROVE Goal
  <2>1. UNCHANGED <<pc, mem, cur, disk>>
    BY <1>1 DEF locals, store
  <2>2. ledger' = ledger
    BY <2>1 DEF LedgerKeeps, RunsOver
  <2> QED BY <2>1, <2>2 DEF LedgerIsMarked
<1>2. ASSUME NEW v \in Workers, Start(v) PROVE Goal
  <2>1. /\ \A q \in Procs : pc[q] = "off"
        /\ mem' = [mem EXCEPT ![v] = disk] /\ pc' = [pc EXCEPT ![v] = "repost"]
    BY <1>2, <1>s DEF Start, Acquire, Goto, Load, OneWriter, Live
  <2>2. mem'[v] = disk /\ pc'[v] = "repost" /\ ledger' = ledger /\ ledger \subseteq Seen(disk)
    BY <1>s, <2>1, LedgerOf DEF LedgerIsMarked
  <2> QED BY <1>s, <2>2, OneMarks
<1>3. ASSUME NEW v \in Workers, NEW n \in Nodes,
             NEW answer \in {"accepted", "unheard", "refused"}, Repost(v, n, answer)
      PROVE  Goal
  <2>1. pc[v] = "repost" /\ pc' = pc
    BY <1>3 DEF Repost
  <2>2. Seen(mem[v]) \subseteq Seen(mem'[v])
    <3> DEFINE s == Settle(mem[v], n)
    <3>1. mem'[v] = mem[v] \/ mem'[v] = MarkSeen(s, n)
      BY <1>3, <1>s DEF Repost
    <3>2. s \in Copies /\ Seen(s) = Seen(mem[v])
      BY <1>s, SettleFacts
    <3> HIDE DEF s
    <3> QED BY <3>1, <3>2, MarkSeenAdds
  <2>3. ledger' = ledger
    BY <1>s, <2>1, LedgerOf
  <2> QED BY <1>a, <1>s, <2>1, <2>2, <2>3, OneMarks
<1>4. ASSUME NEW v \in Workers,
             \/ RepostDone(v) \/ Fetch(v) \/ FetchFails(v) \/ PollSkipsRepost(v) \/ DrainEnds(v)
             \/ PollReposts(v)
             \/ \E n \in Nodes : Skip(v, n) \/ ClaimFails(v, n) \/ Claim(v, n)
      PROVE  Goal
  <2>1. pc[v] \notin {"off", "run", "report", "mark"} /\ pc'[v] # "off"
    BY <1>4, <1>s DEF RepostDone, Fetch, FetchFails, PollSkipsRepost, DrainEnds, PollReposts, Skip,
                      ClaimFails, Claim, Unseen, Goto
  <2>2. mem'[v].seen = mem[v].seen
    <3>1. mem'[v] = mem[v] \/ \E t : mem' = [mem EXCEPT ![v].timestamp = t]
      BY <1>4 DEF RepostDone, Fetch, FetchFails, PollSkipsRepost, DrainEnds, PollReposts, Skip,
                  ClaimFails, Claim
    <3>2. ASSUME NEW t, mem' = [mem EXCEPT ![v].timestamp = t] PROVE mem'[v].seen = mem[v].seen
      BY <1>s, <3>2 DEF StateFile
    <3> QED BY <3>1, <3>2
  <2>3. ledger' = ledger
    BY <1>s, <2>1, LedgerOf
  <2> QED BY <1>a, <1>s, <2>1, <2>2, <2>3, OneMarks DEF Seen
<1>5. ASSUME NEW v \in Workers, NEW n \in Nodes, Refuse(v, n) PROVE Goal
  <2>1. pc[v] = "drain" /\ pc'[v] = "mark" /\ mem'[v] = RefuseNode(mem[v], n)
    BY <1>5, <1>s DEF Refuse, Unseen, Goto
  <2>2. Seen(mem'[v]) = Seen(mem[v]) /\ ledger' = ledger
    BY <1>s, <2>1, RefuseFacts, LedgerOf
  <2> QED BY <1>a, <1>s, <2>1, <2>2, OneMarks
<1>6. ASSUME NEW v \in Workers, RunEnds(v) PROVE Goal
  <2>1. pc[v] = "run" /\ pc'[v] = "report" /\ cur' = cur /\ mem' = mem
    BY <1>6, <1>s DEF RunEnds, Goto
  <2>2. ledger' \in {ledger, ledger \cup {cur[v]}}
    BY <1>s, <2>1, LedgerOf
  <2> QED BY <1>a, <1>s, <2>1, <2>2, OneMarks
<1>7. ASSUME NEW v \in Workers, NEW answer \in {"accepted", "unheard", "refused"},
             NEW raised \in BOOLEAN, Deliver(v, answer, raised)
      PROVE  Goal
  <2>1. /\ pc[v] = "report" /\ pc'[v] = "mark" /\ cur' = cur
        /\ mem' = mem \/ mem' = [mem EXCEPT ![v] = Owe(mem[v], cur[v])]
    BY <1>7, <1>s DEF Deliver, Goto
  <2>2. Seen(mem'[v]) = Seen(mem[v]) /\ ledger' = ledger
    BY <1>s, <2>1, OweFacts, LedgerOf
  <2> QED BY <1>a, <1>s, <2>1, <2>2, OneMarks
<1>8. ASSUME NEW v \in Workers, Mark(v) PROVE Goal
  <2>1. pc[v] = "mark" /\ pc'[v] = "drain" /\ mem'[v] = MarkSeen(mem[v], cur[v]) /\ cur[v] \in Nodes
    BY <1>8, <1>s DEF Mark, Goto
  <2>2. Seen(mem'[v]) = Seen(mem[v]) \cup {cur[v]} /\ ledger' = ledger
    BY <1>s, <2>1, MarkSeenAdds, LedgerOf
  <2> QED BY <1>a, <1>s, <2>1, <2>2, OneMarks
<1>9. ASSUME NEW v \in Workers, FetchGivesUp(v) \/ Finish(v) PROVE Goal
  <2>1. /\ pc[v] \in {"fetch", "sleep"} /\ pc' = [pc EXCEPT ![v] = "off"]
        /\ disk' = disk \/ disk' = mem[v]
    BY <1>9 DEF FetchGivesUp, Finish, Leave, Goto, Flush, Write, store
  <2>2. disk'.seen = mem[v].seen
    BY <1>s, <2>1 DEF Inductive, OnlyCursorUnsaved
  <2>3. \A q \in Procs : pc'[q] = "off"
    BY <1>s, <2>1 DEF OneWriter, Live
  <2>4. ledger' = ledger /\ ledger \subseteq Seen(mem[v])
    BY <1>a, <1>s, <2>1, LedgerOf
  <2> QED BY <1>s, <2>2, <2>3, <2>4 DEF LedgerIsMarked, Seen
<1>10. ASSUME \/ \E n \in Nodes : Dispatch(n) \/ Close(n)
              \/ SwitchOn \/ UNCHANGED vars
       PROVE  Goal
  BY <1>1, <1>10 DEF Dispatch, Close, SwitchOn, vars
<1>11. ASSUME \/ \E g \in Pages : ForgetWrites(g)
              \/ \E g \in Pages, n \in Nodes : ForgetReads(g, n)
              \/ \E v \in Workers : Terminate(v)
              \/ \E p \in Procs : Kill(p)
              \/ SwitchOff \/ Corrupt
       PROVE  Goal
  BY <1>11, <1>s DEF ForgetWrites, ForgetReads, Terminate, Kill, SwitchOff, Corrupt
<1> HIDE DEF Goal
<1>12. Goal
  BY <1>2, <1>3, <1>4, <1>5, <1>6, <1>7, <1>8, <1>9, <1>10, <1>11, StepCases
<1> QED BY <1>12 DEF Goal

-----------------------------------------------------------------------------
(* What a page read as marked and not owed stays so, however old the page. *)

\* The nodes whose report a worker has in hand.
OnItsWay(w) == {n \in {cur[w]} : pc[w] = "report"}

\* What a step does to the copies and the file while nothing goes wrong: nothing, a worker
\* begins with the file, goes on with a copy that lists no less and owes what it had in
\* hand at most, or leaves with the file as its copy says.
CleanStep ==
    \/ UNCHANGED <<pc, mem, disk>>
    \/ \E v \in Workers :
        /\ \A q \in Procs : pc[q] = "off"
        /\ pc'[v] = "repost" /\ mem'[v] = disk /\ disk' = disk
    \/ \E v \in Workers :
        /\ pc[v] # "off" /\ pc'[v] # "off"
        /\ Seen(mem[v]) \subseteq Seen(mem'[v])
        /\ mem'[v].pending \subseteq mem[v].pending \cup OnItsWay(v)
        /\ pc'[v] = "repost" => disk' = disk /\ (pc[v] = "repost" \/ (pc[v] = "sleep" /\ mem' = mem))
    \/ \E v \in Workers :
        /\ pc[v] \notin {"off", "repost"} /\ pc' = [pc EXCEPT ![v] = "off"]
        /\ disk' = disk \/ disk' = mem[v]

LEMMA CleanStepNext ==
  ASSUME NothingEvicted, Inductive, Handled, [Next]_vars, faults' = 0
  PROVE  CleanStep
<1> DEFINE Goal == CleanStep
<1>s. /\ Workers \subseteq Procs /\ Pages \subseteq Procs
      /\ pc \in [Procs -> Labels] /\ mem \in [Procs -> StateFile] /\ \A q \in Procs : mem[q] \in Copies
      /\ cur \in [Procs -> Nodes \cup {NoNode}]
      /\ \A q \in Procs : pc[q] \in {"run", "report", "mark", "forget"} => cur[q] \in Nodes
      /\ faults \in Nat /\ OneWriter /\ NoProc \notin Procs /\ readable
      /\ \A g \in Pages : pc[g] = "off"
  BY CopiesInPlay, PollerAssumption DEF Procs, Inductive, TypeOK, Handled
<1>1. ASSUME UNCHANGED <<locals, store>> PROVE Goal
  BY <1>1 DEF locals, store, CleanStep
<1>2. ASSUME NEW v \in Workers, Start(v) PROVE Goal
  <2>1. /\ \A q \in Procs : pc[q] = "off"
        /\ mem' = [mem EXCEPT ![v] = disk] /\ pc' = [pc EXCEPT ![v] = "repost"] /\ disk' = disk
    BY <1>2, <1>s DEF Start, Acquire, Goto, Load, OneWriter, Live, store
  <2> QED BY <1>s, <2>1 DEF CleanStep
<1>3. ASSUME NEW v \in Workers, NEW n \in Nodes,
             NEW answer \in {"accepted", "unheard", "refused"}, Repost(v, n, answer)
      PROVE  Goal
  <2> DEFINE s == Settle(mem[v], n)
  <2>1. pc[v] = "repost" /\ pc' = pc /\ disk' = disk
    BY <1>3 DEF Repost, store
  <2>2. mem'[v] = mem[v] \/ mem'[v] = MarkSeen(s, n)
    BY <1>3, <1>s DEF Repost
  <2>3. s \in Copies /\ Seen(s) = Seen(mem[v]) /\ s.pending \subseteq mem[v].pending
    BY <1>s, SettleFacts
  <2> HIDE DEF s
  <2>4. Seen(mem[v]) \subseteq Seen(mem'[v]) /\ mem'[v].pending \subseteq mem[v].pending
    BY <2>2, <2>3, MarkSeenAdds
  <2> QED BY <2>1, <2>4 DEF CleanStep
<1>4. ASSUME NEW v \in Workers,
             \/ RepostDone(v) \/ Fetch(v) \/ FetchFails(v) \/ PollSkipsRepost(v) \/ DrainEnds(v)
             \/ RunEnds(v)
             \/ \E n \in Nodes : Skip(v, n) \/ ClaimFails(v, n) \/ Claim(v, n)
      PROVE  Goal
  <2>1. pc[v] # "off" /\ pc'[v] \notin {"off", "repost"}
    BY <1>4, <1>s DEF RepostDone, Fetch, FetchFails, PollSkipsRepost, DrainEnds, RunEnds, Skip,
                      ClaimFails, Claim, Unseen, Goto
  <2>2. mem'[v].seen = mem[v].seen /\ mem'[v].pending = mem[v].pending
    <3>1. mem'[v] = mem[v] \/ \E t : mem' = [mem EXCEPT ![v].timestamp = t]
      BY <1>4 DEF RepostDone, Fetch, FetchFails, PollSkipsRepost, DrainEnds, RunEnds, Skip,
                  ClaimFails, Claim
    <3>2. ASSUME NEW t, mem' = [mem EXCEPT ![v].timestamp = t]
          PROVE  mem'[v].seen = mem[v].seen /\ mem'[v].pending = mem[v].pending
      BY <1>s, <3>2 DEF StateFile
    <3> QED BY <3>1, <3>2
  <2> QED BY <2>1, <2>2 DEF CleanStep, Seen
<1>5. ASSUME NEW v \in Workers, PollReposts(v) PROVE Goal
  <2>1. pc[v] = "sleep" /\ pc'[v] = "repost" /\ mem' = mem /\ disk' = disk
    BY <1>5, <1>s DEF PollReposts, Goto, store
  <2> QED BY <2>1 DEF CleanStep
<1>6. ASSUME NEW v \in Workers, NEW n \in Nodes, Refuse(v, n) PROVE Goal
  <2>1. pc[v] = "drain" /\ pc'[v] = "mark" /\ mem'[v] = RefuseNode(mem[v], n)
    BY <1>6, <1>s DEF Refuse, Unseen, Goto
  <2>2. Seen(mem'[v]) = Seen(mem[v]) /\ mem'[v].pending = mem[v].pending
    BY <1>s, <2>1, RefuseFacts
  <2> QED BY <2>1, <2>2 DEF CleanStep
<1>7. ASSUME NEW v \in Workers, NEW answer \in {"accepted", "unheard", "refused"},
             NEW raised \in BOOLEAN, Deliver(v, answer, raised)
      PROVE  Goal
  <2>1. /\ pc[v] = "report" /\ pc'[v] = "mark" /\ cur[v] \in Nodes
        /\ mem' = mem \/ mem' = [mem EXCEPT ![v] = Owe(mem[v], cur[v])]
    BY <1>7, <1>s DEF Deliver, Goto
  <2>2. Seen(mem'[v]) = Seen(mem[v]) /\ mem'[v].pending \subseteq mem[v].pending \cup {cur[v]}
    BY <1>s, <2>1, OweFacts
  <2> QED BY <2>1, <2>2 DEF CleanStep, OnItsWay
<1>8. ASSUME NEW v \in Workers, Mark(v) PROVE Goal
  <2>1. pc[v] = "mark" /\ pc'[v] = "drain" /\ mem'[v] = MarkSeen(mem[v], cur[v]) /\ cur[v] \in Nodes
    BY <1>8, <1>s DEF Mark, Goto
  <2>2. Seen(mem[v]) \subseteq Seen(mem'[v]) /\ mem'[v].pending = mem[v].pending
    BY <1>s, <2>1, MarkSeenAdds
  <2> QED BY <2>1, <2>2 DEF CleanStep
<1>9. ASSUME NEW v \in Workers, FetchGivesUp(v) \/ Finish(v) PROVE Goal
  <2>1. /\ pc[v] \in {"fetch", "sleep"} /\ pc' = [pc EXCEPT ![v] = "off"]
        /\ disk' = disk \/ disk' = mem[v]
    BY <1>9 DEF FetchGivesUp, Finish, Leave, Goto, Flush, Write, store
  <2> QED BY <2>1 DEF CleanStep
<1>10. ASSUME \/ \E n \in Nodes : Dispatch(n) \/ Close(n)
              \/ SwitchOn \/ UNCHANGED vars
       PROVE  Goal
  BY <1>1, <1>10 DEF Dispatch, Close, SwitchOn, vars
<1>11. ASSUME \/ \E g \in Pages : ForgetWrites(g)
              \/ \E g \in Pages, n \in Nodes : ForgetReads(g, n)
              \/ \E v \in Workers : Terminate(v)
              \/ \E p \in Procs : Kill(p)
              \/ SwitchOff \/ Corrupt
       PROVE  Goal
  BY <1>11, <1>s DEF ForgetWrites, ForgetReads, Terminate, Kill, SwitchOff, Corrupt
<1> HIDE DEF Goal
<1>12. Goal
  BY <1>2, <1>3, <1>4, <1>5, <1>6, <1>7, <1>8, <1>9, <1>10, <1>11, StepCases
<1> QED BY <1>12 DEF Goal

\* A node that every running copy, and the file when none runs, lists and does not owe.
PutAway(n) ==
    /\ \A w \in Workers : pc[w] # "off" => n \in Seen(mem[w]) /\ n \notin mem[w].pending
    /\ (\A w \in Workers : pc[w] = "off") => n \in Seen(disk) /\ n \notin disk.pending

\* A copy in the re-post loop lists what the file lists, and owes no more.
CopyIsAhead ==
    \A w \in Workers : pc[w] = "repost" =>
        Seen(disk) \subseteq Seen(mem[w]) /\ mem[w].pending \subseteq disk.pending

\* What the page read as marked and not held.
ReadIsPutAway ==
    request # NoRequest => \A n \in request.claimed : n \in request.held \/ PutAway(n)

LEMMA PutAwayNext ==
  ASSUME Inductive, OneWriter', Handled, CopyIsAhead, CleanStep
  PROVE  CopyIsAhead' /\ \A n : PutAway(n) => PutAway(n)'
<1> DEFINE Goal == CopyIsAhead' /\ \A n : PutAway(n) => PutAway(n)'
<1>s. /\ Workers \subseteq Procs /\ pc \in [Procs -> Labels] /\ OneWriter /\ readable
  BY DEF Procs, Inductive, TypeOK, Handled
<1>o. /\ \A v, w \in Workers : pc[v] # "off" /\ pc[w] # "off" => v = w
      /\ \A v, w \in Workers : pc'[v] # "off" /\ pc'[w] # "off" => v = w
  BY <1>s DEF OneWriter, Live
<1>1. CASE UNCHANGED <<pc, mem, disk>>
  BY <1>1 DEF CopyIsAhead, PutAway
<1>2. ASSUME NEW v \in Workers, \A q \in Procs : pc[q] = "off",
             pc'[v] = "repost", mem'[v] = disk, disk' = disk
      PROVE  Goal
  BY <1>o, <1>s, <1>2 DEF CopyIsAhead, PutAway
<1>3. ASSUME NEW v \in Workers, pc[v] # "off", pc'[v] # "off",
             Seen(mem[v]) \subseteq Seen(mem'[v]),
             mem'[v].pending \subseteq mem[v].pending \cup OnItsWay(v),
             pc'[v] = "repost" => disk' = disk /\ (pc[v] = "repost" \/ (pc[v] = "sleep" /\ mem' = mem))
      PROVE  Goal
  <2>1. pc[v] = "report" => cur[v] \notin Seen(mem[v])
    BY <1>3, <1>s DEF Inductive, CopyIsSound, Live
  <2>2. \A n : PutAway(n) => PutAway(n)'
    BY <1>o, <1>3, <2>1 DEF PutAway, OnItsWay
  <2>3. CASE pc'[v] = "repost" /\ pc[v] = "repost"
    BY <1>o, <1>3, <2>2, <2>3 DEF CopyIsAhead, OnItsWay
  <2>4. CASE pc'[v] = "repost" /\ pc[v] = "sleep"
    <3>1. Seen(disk) = Seen(mem[v]) /\ mem[v].pending = disk.pending
      BY <1>s, <2>4 DEF Inductive, OnlyCursorUnsaved, Seen
    <3> QED BY <1>o, <1>3, <2>2, <2>4, <3>1 DEF CopyIsAhead
  <2>5. CASE pc'[v] # "repost"
    BY <1>o, <1>3, <2>2, <2>5 DEF CopyIsAhead
  <2> QED BY <1>3, <2>3, <2>4, <2>5
<1>4. ASSUME NEW v \in Workers, pc[v] \notin {"off", "repost"}, pc' = [pc EXCEPT ![v] = "off"],
             disk' = disk \/ disk' = mem[v]
      PROVE  Goal
  <2>1. Seen(disk') = Seen(mem[v]) /\ disk'.pending = mem[v].pending
    BY <1>s, <1>4 DEF Inductive, OnlyCursorUnsaved, Seen
  <2>2. \A w \in Workers : pc'[w] = "off"
    BY <1>o, <1>s, <1>4
  <2> QED BY <1>4, <2>1, <2>2 DEF CopyIsAhead, PutAway
<1> HIDE DEF Goal
<1>5. Goal
  BY <1>1, <1>2, <1>3, <1>4 DEF CleanStep, Goal
<1> QED BY <1>5 DEF Goal

\* A page that reads the file reads what every copy and the file will keep.
LEMMA ReadingIsPutAway ==
  ASSUME Inductive, Handled, CopyIsAhead, NEW n, n \in Seen(Load), n \notin Load.pending
  PROVE  PutAway(n)
<1>1. Load = disk /\ readable
  BY DEF Handled, Load
<1>2. ASSUME NEW w \in Workers, pc[w] # "off"
      PROVE  n \in Seen(mem[w]) /\ n \notin mem[w].pending
  <2>1. CASE pc[w] = "repost"
    BY <1>1, <2>1 DEF CopyIsAhead
  <2>2. CASE pc[w] # "repost"
    BY <1>1, <1>2, <2>2 DEF Inductive, OnlyCursorUnsaved, Procs, Seen
  <2> QED BY <2>1, <2>2
<1> QED BY <1>1, <1>2 DEF PutAway

\* With no fault so far and no worker running, what a page drawn now offers to forget is
\* marked and owes nothing, and so is, on a page of any age, what it read the mark of: the
\* worker that takes it up again posts no report a second time.
THEOREM ForgettingIsSafe == NothingEvicted => (PageSpec => [](faults = 0 => ForgetIsSafe))
<1> SUFFICES ASSUME NothingEvicted PROVE PageSpec => [](faults = 0 => ForgetIsSafe)
  OBVIOUS
<1> DEFINE Marked == LedgerIsMarked /\ CopyIsAhead /\ ReadIsPutAway
           Known == Inductive /\ Clean /\ (faults = 0 => Marked)
<1>1. PageInit => Known
  <2> SUFFICES ASSUME PageInit PROVE Marked
    BY InductiveInit, CleanInit DEF PageInit
  <2>1. ledger = {} /\ request = NoRequest /\ pc = [p \in Procs |-> "off"]
    BY DEF PageInit, Init
  <2> QED BY <2>1 DEF LedgerIsMarked, CopyIsAhead, ReadIsPutAway, Procs
<1>2. Known /\ [PageNext]_<<vars, pageVars>> => Known'
  <2> SUFFICES ASSUME Known, [PageNext]_<<vars, pageVars>> PROVE Known'
    OBVIOUS
  <2>1. [Next]_vars
    BY DEF PageNext, WorkerStep, PageRequest
  <2>2. Inductive' /\ Clean' /\ (faults' = 0 => faults = 0)
    BY <2>1, InductiveNext, CleanNext
  <2>3. ASSUME faults' = 0, Inductive, Handled, Marked PROVE Marked'
    <3>1. CASE WorkerStep
      <4>1. LedgerIsMarked'
        BY <2>1, <2>3, <3>1, LedgerMarkedNext DEF WorkerStep
      <4>2. CleanStep /\ OneWriter'
        BY <2>1, <2>2, <2>3, CleanStepNext DEF Inductive
      <4>3. CopyIsAhead' /\ \A n : PutAway(n) => PutAway(n)'
        BY <2>3, <4>2, PutAwayNext
      <4>4. request' = request
        BY <3>1 DEF WorkerStep
      <4> QED BY <2>3, <4>1, <4>3, <4>4 DEF ReadIsPutAway
    <3>2. CASE ~WorkerStep
      <4>1. UNCHANGED vars /\ ledger' = ledger
        BY <3>2 DEF PageNext, PageRequest, ReadState, Draw, pageVars
      <4>2. UNCHANGED <<pc, mem, cur, disk>>
        BY <4>1 DEF vars, locals, store
      <4>3. LedgerIsMarked' /\ CopyIsAhead' /\ \A n : PutAway(n) => PutAway(n)'
        BY <2>3, <4>1, <4>2 DEF LedgerIsMarked, CopyIsAhead, PutAway
      <4>4. request' = request \/ request' = NoRequest \/ request' = WorkerState
        BY <3>2 DEF PageNext, PageRequest, ReadState, Draw, pageVars
      <4>5. CASE request' = WorkerState
        <5>1. request'.claimed = Seen(Load) /\ request'.held = Load.pending
          BY <4>5 DEF WorkerState
        <5>2. \A n \in Seen(Load) : n \in Load.pending \/ PutAway(n)
          BY <2>3, ReadingIsPutAway
        <5> QED BY <4>3, <5>1, <5>2 DEF ReadIsPutAway
      <4> QED BY <2>3, <4>3, <4>4, <4>5 DEF ReadIsPutAway
    <3> QED BY <3>1, <3>2
  <2> QED BY <2>2, <2>3 DEF Clean
<1>3. Known => (faults = 0 => ForgetIsSafe)
  <2> SUFFICES ASSUME Inductive, Handled, Marked, lock = NoProc, NEW n \in Nodes
               PROVE  /\ ForgetOffered(FateOf(WorkerState, ledger, n)) => ForgetHarmless(n)
                      /\ (/\ request # NoRequest /\ n \in request.claimed
                          /\ ForgetOffered(FateOf(request, ledger, n)))
                         => ForgetHarmless(n)
    BY DEF Clean, ForgetIsSafe
  <2>1. \A p \in Procs : pc[p] = "off"
    BY PollerAssumption DEF Inductive, OneWriter, Live, Procs
  <2>2. Load = disk /\ disk.refused \subseteq Seen(disk) /\ ledger \subseteq Seen(disk)
    BY <2>1 DEF Handled, Load, LedgerIsMarked, Procs
  <2>3. ASSUME ForgetOffered(FateOf(WorkerState, ledger, n)) PROVE ForgetHarmless(n)
    <3>1. n \notin Load.pending /\ n \in ledger \cup Load.refused \cup Seen(Load)
      BY <2>3 DEF ForgetOffered, FateOf, WorkerState
    <3> QED BY <2>2, <3>1 DEF ForgetHarmless
  <2>4. ASSUME request # NoRequest, n \in request.claimed, ForgetOffered(FateOf(request, ledger, n))
        PROVE  ForgetHarmless(n)
    <3>1. PutAway(n)
      BY <2>4 DEF ReadIsPutAway, ForgetOffered, FateOf
    <3> QED BY <2>1, <2>2, <3>1 DEF PutAway, Procs, ForgetHarmless
  <2> QED BY <2>3, <2>4
<1> QED
  BY <1>1, <1>2, <1>3, PTL DEF PageSpec
=============================================================================
