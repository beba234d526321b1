-------------------------- MODULE ApiClientProofs --------------------------
(***************************************************************************)
(* Theorems about ApiClient, for every number of threads, every size of a  *)
(* page, of a list, of a budget and of the cache: a list ends with the     *)
(* API's newest rows, no answer is older than it was asked to be, no       *)
(* comparison is made of a damaged text, and what Discovery makes of the   *)
(* rows is what there is to be found in them.                              *)
(*                                                                         *)
(* What a thread knows is said by one predicate of its record, the clock   *)
(* and the length of the API's list, which time and new rows cannot make   *)
(* false; so a step is a fact about one record.                            *)
(***************************************************************************)
EXTENDS Discovery, SequencingProofs
-----------------------------------------------------------------------------
(* Numbers and rows.                                                       *)

LEMMA MaxOfTwo ==
  ASSUME NEW a \in Int, NEW b \in Int
  PROVE  Max({a, b}) = IF a >= b THEN a ELSE b
<1>1. \E x \in {a, b} : \A y \in {a, b} : x >= y
  OBVIOUS
<1>2. Max({a, b}) \in {a, b} /\ \A y \in {a, b} : Max({a, b}) >= y
  BY <1>1 DEF Max
<1> QED
  BY <1>2

LEMMA MinOfTwo ==
  ASSUME NEW a \in Int, NEW b \in Int
  PROVE  Min({a, b}) = IF a <= b THEN a ELSE b
<1>1. \E x \in {a, b} : \A y \in {a, b} : x <= y
  OBVIOUS
<1>2. Min({a, b}) \in {a, b} /\ \A y \in {a, b} : Min({a, b}) <= y
  BY <1>1 DEF Min
<1> QED
  BY <1>2

\* The m rows of the API's list after its first s.
RowsAfter(s, m) == [i \in 1..m |-> s + i]

LEMMA RowsAfterType ==
  ASSUME NEW s \in Nat, NEW m \in Nat
  PROVE  /\ RowsAfter(s, m) \in Seq(Nat) /\ Len(RowsAfter(s, m)) = m
         /\ \A i \in 1..m : RowsAfter(s, m)[i] = s + i
BY DEF RowsAfter

LEMMA RowsInTurn ==
  ASSUME NEW s \in Nat, NEW m \in Nat, NEW l \in Nat
  PROVE  RowsAfter(s, m) \o RowsAfter(s + m, l) = RowsAfter(s, m + l)
BY RowsAfterType DEF RowsAfter
-----------------------------------------------------------------------------
(* What a key, an answer and a request are.                                *)

Keys == [path : {"count", "config", "node", "nodes"}, offset : Nat, limit : Nat]
Replies == [total : Nat, items : Seq(Nat), born : Nat, stored : Nat, rows : Nat, timed : BOOLEAN]
Memos == UNION {[K -> Replies] : K \in SUBSET Keys}

Askers == {"count", "first", "walk", "fetch", "claim"}
Places == Askers \cup {"idle", "sent", "read", "config", "pulled", "file.tmp", "file", "note.tmp", "note",
                       "done", "error"}

Records == [at : Places, scoped : BOOLEAN, ttl : Nat, memo : Memos, age : Int,
            deadline : Nat, back : Askers \cup {"idle"}, got : Replies, start : Nat,
            items : Seq(Nat), text : Texts, known : Nat]

\* What the API could have answered for key k at a time up to t, with at most n rows.
Truthful(k, a, t, n) ==
    /\ a \in Replies /\ a.born <= t /\ a.rows <= n
    /\ k = Config => a.total \in {1, 2, Part}
    /\ k # Config => a.total = a.rows
    /\ k.path = "nodes" =>
         \E m \in 0..k.limit : a.items = RowsAfter(k.offset, m) /\ (m = 0 => k.offset >= a.total)

\* A request knows answer a no later than it may.
Timely(q, a) ==
    /\ q.ttl = 0 => a.rows >= q.known
    /\ q.ttl > 0 => q.deadline - a.stored <= q.ttl + Budget - 1
    /\ a.timed => a.stored - a.born <= Budget - 1
    /\ q.scoped /\ a.born < q.deadline - Budget
         => q.age >= 0 /\ q.age >= (q.deadline - Budget) - a.stored

\* The place in its page a request is at, also while it waits for an answer.
Place(q) == IF q.at \in {"sent", "read"} THEN q.back ELSE q.at
Asked(q) == Key([q EXCEPT !.at = q.back])

Clocked(q, t, n) ==
    /\ q.ttl \in Ttls \cup {0} /\ -1 <= q.age /\ q.age <= MaxTtl
    /\ q.scoped => q.deadline - Budget <= t
    /\ q.ttl > 0 => q.scoped
    /\ q.known <= n

Knowing(q, t, n) == \A k \in DOMAIN q.memo : Truthful(k, q.memo[k], t, n) /\ Timely(q, q.memo[k])

Waiting(q, t, n) ==
    /\ q.at \in {"sent", "read"} => q.back \in Askers /\ Asked(q) \notin DOMAIN q.memo
    /\ q.at = "read" =>
         /\ Truthful(Asked(q), q.got, t, n) /\ q.got.rows >= q.known /\ q.got.timed = q.scoped
         /\ q.scoped => q.got.born >= q.deadline - Budget

\* The rows so far, and why enough of them are the tail.
Listing(q) ==
    /\ q.items = RowsAfter(q.start, Len(q.items))
    /\ Place(q) \notin {"walk", "done"} => q.items = <<>>
    /\ Place(q) = "walk" =>
         /\ Len(q.items) < Want
         /\ \E k \in DOMAIN q.memo : q.memo[k].total <= q.start + Want
    /\ q.at = "done" /\ q.items # <<>> =>
         /\ Len(q.items) <= Want
         /\ \E k \in DOMAIN q.memo : q.memo[k].total <= q.start + Len(q.items)

Good(q, t, n) ==
    /\ q \in Records /\ Clocked(q, t, n) /\ Knowing(q, t, n) /\ Waiting(q, t, n) /\ Listing(q)
    /\ q.text # Cut

\* What a request cached was stored before it ran out of budget.
Stored(c, k, t, n) ==
    /\ k \in Keys
    /\ c[k] \in Replies
    /\ Truthful(k, c[k], t, n)
    /\ c[k].stored <= t
    /\ c[k].timed => c[k].stored - c[k].born <= Budget - 1

CacheGood(c, t, n) ==
    /\ \A k \in DOMAIN c : Stored(c, k, t, n)
    /\ IsFiniteSet(DOMAIN c) /\ Cardinality(DOMAIN c) <= MaxCache

Around ==
    /\ now \in Nat /\ now <= MaxNow /\ rows \in Nat /\ 1 <= rows /\ rows <= MaxRows
    /\ text \in {1, 2} /\ pulled \in {NoText, 1, 2, Part}
    /\ file \in Texts /\ note \in Texts \ {Cut} /\ tmp \in [{"file", "note"} -> Texts \ {Cut}]
    /\ served \in 0..MaxServed /\ faults \in 0..MaxFaults

Inductive ==
    /\ Around
    /\ CacheGood(cache, now, rows)
    /\ request = [r \in Requests |-> request[r]]
    /\ \A r \in Requests : Good(request[r], now, rows)

-----------------------------------------------------------------------------
(* Keys and memos.                                                         *)

LEMMA AskType ==
  ASSUME NEW got \in Nat
  PROVE  /\ Ask(got) \in Nat /\ Ask(got) >= 1 /\ Ask(got) <= PageSize
         /\ got < Want => Ask(got) <= Want - got
<1>1. Want \in Nat /\ PageSize \in Nat /\ PageSize >= 1
  BY ApiAssumption
<1>2. Max({1, Want - got}) = IF 1 >= Want - got THEN 1 ELSE Want - got
  BY <1>1, MaxOfTwo
<1> DEFINE most == Max({1, Want - got})
<1>3. most \in Int /\ most >= 1 /\ (got < Want => most = Want - got)
  BY <1>1, <1>2
<1>4. Min({PageSize, most}) = IF PageSize <= most THEN PageSize ELSE most
  <2> HIDE DEF most
  <2> QED BY <1>1, <1>3, MinOfTwo
<1> QED
  BY <1>1, <1>3, <1>4 DEF Ask

\* A step that asks has a key, and only a list's pages carry rows.
LEMMA KeyType ==
  ASSUME NEW q \in Records, q.at \in Askers
  PROVE  /\ Key(q) \in Keys
         /\ Key(q).path = "nodes" <=> q.at \in {"first", "walk"}
         /\ Key(q).path = "nodes" => Key(q).limit >= 1
         /\ Key(q) = Config <=> q.at = "fetch"
<1>1. Len(q.items) \in Nat /\ q.start \in Nat
  BY DEF Records
<1>2. Ask(0) \in Nat /\ Ask(0) >= 1 /\ Ask(Len(q.items)) \in Nat /\ Ask(Len(q.items)) >= 1
  BY <1>1, AskType
<1>3. CASE q.at = "first"
  BY <1>2, <1>3 DEF Key, PageOf, Keys, Config
<1>4. CASE q.at = "walk"
  BY <1>1, <1>2, <1>4 DEF Key, PageOf, Keys, Config
<1>5. CASE q.at \in {"count", "fetch", "claim"}
  BY <1>5 DEF Key, Count, Config, Node, Keys
<1> QED
  BY <1>3, <1>4, <1>5 DEF Askers

\* The key depends on where the list is, not on what is known of it.
LEMMA SameKey ==
  ASSUME NEW p, NEW q, p.at = q.at, p.start = q.start, p.items = q.items
  PROVE  Key(p) = Key(q)
BY DEF Key

LEMMA LearnIs ==
  ASSUME NEW q \in Records, NEW key \in Keys, NEW a \in Replies
  PROVE  /\ Learn(q, key, a) \in Records
         /\ Learn(q, key, a) = [q EXCEPT !.memo = Learn(q, key, a).memo]
         /\ DOMAIN Learn(q, key, a).memo = DOMAIN q.memo \cup {key}
         /\ Learn(q, key, a).memo[key] = a
         /\ \A k \in DOMAIN q.memo : k # key => Learn(q, key, a).memo[k] = q.memo[k]
<1> DEFINE memo == [k \in DOMAIN q.memo \cup {key} |-> IF k = key THEN a ELSE q.memo[k]]
<1>1. q.memo \in Memos
  BY DEF Records
<1>2. PICK K \in SUBSET Keys : q.memo \in [K -> Replies]
  BY <1>1 DEF Memos
<1>3. /\ DOMAIN memo = K \cup {key} /\ memo[key] = a
      /\ \A k \in K : k # key => memo[k] = q.memo[k]
  BY <1>2
<1>5. memo \in [K \cup {key} -> Replies] /\ K \cup {key} \in SUBSET Keys
  BY <1>2
<1>6. memo \in Memos
  BY <1>5 DEF Memos
<1>7. Learn(q, key, a) = [q EXCEPT !.memo = memo]
  BY DEF Learn
<1> HIDE DEF memo
<1>8. Learn(q, key, a).memo = memo /\ Learn(q, key, a) \in Records
  BY <1>6, <1>7 DEF Records
<1> QED
  BY <1>2, <1>3, <1>7, <1>8
-----------------------------------------------------------------------------
(* Time and the API's list.                                                *)

LEMMA TruthStays ==
  ASSUME NEW k, NEW a, NEW t \in Int, NEW n \in Int, NEW u \in Int, NEW m \in Int,
         t <= u, n <= m, Truthful(k, a, t, n)
  PROVE  Truthful(k, a, u, m)
BY DEF Truthful, Replies

LEMMA GoodStays ==
  ASSUME NEW q, NEW t \in Int, NEW n \in Int, NEW u \in Int, NEW m \in Int,
         t <= u, n <= m, Good(q, t, n)
  PROVE  Good(q, u, m)
<1>1. Clocked(q, u, m)
  BY ApiAssumption DEF Good, Clocked, Records
<1>2. Knowing(q, u, m)
  BY TruthStays DEF Good, Knowing
<1>3. Waiting(q, u, m)
  BY TruthStays DEF Good, Waiting
<1> QED
  BY <1>1, <1>2, <1>3 DEF Good

LEMMA CacheStays ==
  ASSUME NEW c, NEW t \in Int, NEW n \in Int, NEW u \in Int, NEW m \in Int,
         t <= u, n <= m, CacheGood(c, t, n)
  PROVE  CacheGood(c, u, m)
<1> SUFFICES ASSUME NEW k \in DOMAIN c PROVE Stored(c, k, u, m)
  BY DEF CacheGood
<1>1. Stored(c, k, t, n)
  BY DEF CacheGood
<1>2. Truthful(k, c[k], u, m)
  BY <1>1, TruthStays DEF Stored
<1>3. c[k].stored \in Nat /\ c[k].stored <= t
  BY <1>1 DEF Stored, Replies
<1> QED
  BY <1>1, <1>2, <1>3 DEF Stored

\* A step of one request.
LEMMA SetKeeps ==
  ASSUME Inductive, NEW r \in Requests, NEW q, Set(r, q), Good(q, now, rows),
         UNCHANGED <<now, rows>>
  PROVE  /\ request' = [s \in Requests |-> request'[s]]
         /\ \A s \in Requests : Good(request'[s], now', rows')
<1>1. request = [s \in Requests |-> request[s]] /\ request' = [request EXCEPT ![r] = q]
  BY DEF Inductive, Set
<1>2. \A s \in Requests : request'[s] = IF s = r THEN q ELSE request[s]
  BY <1>1
<1>3. request' = [s \in Requests |-> request'[s]]
  BY <1>1
<1> QED
  BY <1>2, <1>3 DEF Inductive

\* A step of one request that leaves the disk, the cache and the API alone.
LEMMA RequestKeeps ==
  ASSUME Inductive, NEW r \in Requests, NEW q, Set(r, q), Good(q, now, rows), Fault \/ Fine,
         UNCHANGED <<outside, cache, disk, served>>
  PROVE  Inductive'
<1>1. Around'
  BY ApiAssumption DEF Inductive, Around, Fault, Fine, outside, disk
<1>2. UNCHANGED <<now, rows>> /\ cache' = cache
  BY DEF outside
<1>3. CacheGood(cache, now, rows)'
  BY <1>2 DEF Inductive
<1>4. /\ request' = [s \in Requests |-> request'[s]]
      /\ \A s \in Requests : Good(request'[s], now', rows')
  BY <1>2, SetKeeps
<1> QED
  BY <1>1, <1>3, <1>4 DEF Inductive
-----------------------------------------------------------------------------
(* A request begins, or ends in an error.                                  *)

\* A record that knows nothing yet is good.
LEMMA BlankIsGood ==
  ASSUME NEW q \in Records, NEW t \in Nat, NEW n \in Nat,
         q.at \notin {"sent", "read", "walk"}, q.memo = Idle.memo, q.age = Idle.age,
         q.items = Idle.items, q.text = Idle.text,
         q.ttl \in Ttls \cup {0}, q.scoped => q.deadline - Budget <= t, q.ttl > 0 => q.scoped,
         q.known <= n
  PROVE  Good(q, t, n)
<1>1. q.memo = <<>> /\ q.age = -1 /\ q.items = <<>> /\ q.text = NoText
  BY DEF Idle
<1>2. Clocked(q, t, n)
  BY <1>1, ApiAssumption DEF Clocked
<1>3. Knowing(q, t, n)
  BY <1>1 DEF Knowing
<1>4. Waiting(q, t, n)
  BY DEF Waiting
<1>5. Listing(q)
  <2>1. Len(q.items) = 0 /\ RowsAfter(q.start, 0) = <<>>
    BY <1>1 DEF RowsAfter
  <2>2. Place(q) # "walk"
    BY DEF Place
  <2> QED
    BY <1>1, <2>1, <2>2 DEF Listing
<1> QED
  BY <1>1, <1>2, <1>3, <1>4, <1>5 DEF Good, NoText, Cut

LEMMA IdleType == Idle \in Records
<1>1. <<>> \in Memos
  <2>1. <<>> \in [{} -> Replies]
    OBVIOUS
  <2> QED BY <2>1 DEF Memos
<1>2. NoAnswer \in Replies
  BY DEF NoAnswer, Replies
<1> QED
  BY <1>1, <1>2 DEF Idle, Records, Places, Texts, NoText

LEMMA IdleIsGood ==
  ASSUME NEW at \in {"idle", "error"}, NEW t \in Nat, NEW n \in Nat
  PROVE  Good([Idle EXCEPT !.at = at], t, n)
<1> DEFINE q == [Idle EXCEPT !.at = at]
<1>1. q \in Records
  BY IdleType DEF Records, Places
<1>2. /\ q.at = at /\ q.memo = Idle.memo /\ q.age = Idle.age /\ q.items = Idle.items
      /\ q.text = Idle.text /\ q.ttl = 0 /\ q.deadline = 0 /\ q.known = 0
  BY IdleType DEF Idle
<1> HIDE DEF q
<1>3. /\ q.at \notin {"sent", "read", "walk"} /\ q.ttl \in Ttls \cup {0}
      /\ q.deadline - Budget <= t /\ ~(q.ttl > 0) /\ q.known <= n
  BY <1>2, ApiAssumption
<1>4. Good(q, t, n)
  BY <1>1, <1>2, <1>3, BlankIsGood
<1> QED
  BY <1>4 DEF q

LEMMA ArriveKeeps ==
  ASSUME Inductive, NEW r \in Requests, Arrive(r)
  PROVE  Inductive'
<1>1. now \in Nat /\ rows \in Nat /\ Budget \in Nat
  BY ApiAssumption DEF Inductive, Around
<1>2. \E q : Set(r, q) /\ Good(q, now, rows)
  <2>1. ASSUME NEW page \in {"count", "config"}, NEW ttl \in Ttls, Begin(r, page, ttl)
        PROVE  \E q : Set(r, q) /\ Good(q, now, rows)
    <3> DEFINE q == [Idle EXCEPT !.at = page, !.ttl = ttl, !.deadline = now + Budget,
                                 !.known = rows]
    <3>1. ttl \in Nat /\ ttl \in Ttls /\ now + Budget \in Nat /\ now + Budget - Budget <= now
      BY <1>1, ApiAssumption
    <3>2. q \in Records
      BY <1>1, <3>1, IdleType DEF Records, Places, Askers
    <3>3. /\ q.at = page /\ q.memo = Idle.memo /\ q.age = Idle.age /\ q.items = Idle.items
          /\ q.text = Idle.text /\ q.ttl = ttl /\ q.deadline = now + Budget /\ q.known = rows
          /\ q.scoped
      BY IdleType DEF Idle
    <3>4. Set(r, q)
      BY <2>1 DEF Begin
    <3> HIDE DEF q
    <3> QED
      BY <1>1, <3>1, <3>2, <3>3, <3>4, BlankIsGood
  <2>2. ASSUME NEW page \in {"claim", "config"}, BeginUnscoped(r, page)
        PROVE  \E q : Set(r, q) /\ Good(q, now, rows)
    <3> DEFINE q == [Idle EXCEPT !.at = page, !.scoped = FALSE, !.known = rows]
    <3>1. q \in Records
      BY <1>1, IdleType DEF Records, Places, Askers
    <3>2. /\ q.at = page /\ q.memo = Idle.memo /\ q.age = Idle.age /\ q.items = Idle.items
          /\ q.text = Idle.text /\ q.ttl = 0 /\ q.known = rows /\ ~q.scoped
      BY IdleType DEF Idle
    <3>3. Set(r, q)
      BY <2>2 DEF BeginUnscoped
    <3> HIDE DEF q
    <3> QED
      BY <1>1, <3>1, <3>2, <3>3, BlankIsGood
  <2> QED
    BY <2>1, <2>2 DEF Arrive
<1>3. /\ served < MaxServed /\ served' = served + 1 /\ Fine
      /\ UNCHANGED <<outside, cache, disk>>
  BY DEF Arrive, Begin, BeginUnscoped
<1>4. Around'
  BY <1>3, ApiAssumption DEF Inductive, Around, Fine, outside, disk
<1>5. UNCHANGED <<now, rows>> /\ CacheGood(cache, now, rows)'
  BY <1>3 DEF Inductive, outside
<1>6. /\ request' = [s \in Requests |-> request'[s]]
      /\ \A s \in Requests : Good(request'[s], now', rows')
  BY <1>2, <1>5, SetKeeps
<1> QED
  BY <1>4, <1>5, <1>6 DEF Inductive

-----------------------------------------------------------------------------
(* A read.                                                                 *)

LEMMA CacheIsTyped ==
  ASSUME Inductive, NEW k \in DOMAIN cache
  PROVE  /\ k \in Keys /\ cache[k] \in Replies /\ cache[k].stored \in Nat
         /\ Truthful(k, cache[k], now, rows)
         /\ cache[k].stored <= now
         /\ cache[k].timed => cache[k].stored - cache[k].born <= Budget - 1
BY DEF Inductive, CacheGood, Stored, Replies

\* To learn a true and timely answer one had not is to know what one may, and no
\* reason for a list's place is lost by it.
LEMMA LearnedIsKnown ==
  ASSUME NEW q \in Records, NEW key \in Keys, NEW a, NEW t, NEW n,
         key \notin DOMAIN q.memo, Knowing(q, t, n), Truthful(key, a, t, n), Timely(q, a)
  PROVE  /\ Learn(q, key, a) \in Records
         /\ Learn(q, key, a) = [q EXCEPT !.memo = Learn(q, key, a).memo]
         /\ \A k \in DOMAIN Learn(q, key, a).memo :
               Truthful(k, Learn(q, key, a).memo[k], t, n) /\ Timely(q, Learn(q, key, a).memo[k])
         /\ \A x : (\E k \in DOMAIN q.memo : q.memo[k].total <= x)
                     => \E k \in DOMAIN Learn(q, key, a).memo : Learn(q, key, a).memo[k].total <= x
<1> DEFINE p == Learn(q, key, a)
<1>1. a \in Replies
  BY DEF Truthful
<1>2. /\ p \in Records /\ p = [q EXCEPT !.memo = p.memo]
      /\ DOMAIN p.memo = DOMAIN q.memo \cup {key} /\ p.memo[key] = a
      /\ \A k \in DOMAIN q.memo : k # key => p.memo[k] = q.memo[k]
  BY <1>1, LearnIs
<1> HIDE DEF p
<1>3. \A k \in DOMAIN q.memo : p.memo[k] = q.memo[k] /\ k \in DOMAIN p.memo
  BY <1>2
<1>4. \A k \in DOMAIN p.memo : Truthful(k, p.memo[k], t, n) /\ Timely(q, p.memo[k])
  BY <1>2, <1>3 DEF Knowing
<1>5. \A x : (\E k \in DOMAIN q.memo : q.memo[k].total <= x)
               => \E k \in DOMAIN p.memo : p.memo[k].total <= x
  BY <1>3
<1> QED
  BY <1>2, <1>4, <1>5 DEF p

\* So a request that asks and learns the answer is still a good one.
LEMMA AskerLearns ==
  ASSUME NEW q, NEW a, NEW t, NEW n, Good(q, t, n), q.at \in Askers,
         Key(q) \notin DOMAIN q.memo, Truthful(Key(q), a, t, n), Timely(q, a)
  PROVE  Good(Learn(q, Key(q), a), t, n)
<1> DEFINE p == Learn(q, Key(q), a)
<1>1. q \in Records /\ Knowing(q, t, n) /\ Clocked(q, t, n) /\ Listing(q) /\ q.text # Cut
  BY DEF Good
<1>2. Key(q) \in Keys
  BY <1>1, KeyType
<1>3. /\ p \in Records /\ p = [q EXCEPT !.memo = p.memo]
      /\ \A k \in DOMAIN p.memo : Truthful(k, p.memo[k], t, n) /\ Timely(q, p.memo[k])
      /\ \A x : (\E k \in DOMAIN q.memo : q.memo[k].total <= x)
                  => \E k \in DOMAIN p.memo : p.memo[k].total <= x
  <2> HIDE DEF p
  <2> QED BY <1>1, <1>2, LearnedIsKnown DEF p
<1> HIDE DEF p
<1>4. /\ p.at = q.at /\ p.scoped = q.scoped /\ p.ttl = q.ttl /\ p.age = q.age
      /\ p.deadline = q.deadline /\ p.start = q.start /\ p.items = q.items /\ p.text = q.text
      /\ p.known = q.known /\ p.back = q.back
  BY <1>1, <1>3 DEF Records
<1>5. Clocked(p, t, n)
  BY <1>1, <1>4 DEF Clocked
<1>6. Knowing(p, t, n)
  BY <1>3, <1>4 DEF Knowing, Timely
<1>7. p.at \notin {"sent", "read", "done"}
  BY <1>4 DEF Askers
<1>8. Waiting(p, t, n)
  BY <1>7 DEF Waiting
<1>9. Listing(p)
  <2>1. Place(p) = Place(q)
    BY <1>4 DEF Place
  <2> QED
    BY <1>1, <1>3, <1>4, <1>7, <2>1 DEF Listing
<1> QED
  BY <1>1, <1>3, <1>4, <1>5, <1>6, <1>8, <1>9 DEF Good, p

\* An answer of the cache: what it is old by is told, and is not more than was allowed.
LEMMA FromCacheKeeps ==
  ASSUME Inductive, NEW r \in Requests, FromCache(r)
  PROVE  Inductive'
<1> DEFINE q == request[r]
           found == cache[Key(q)]
           age == Max({q.age, now - found.stored})
           p == [q EXCEPT !.age = age]
<1>1. /\ q.at \in Askers /\ Key(q) \notin DOMAIN q.memo /\ Young(q)
      /\ Set(r, Learn(p, Key(q), found))
      /\ Fine /\ UNCHANGED <<outside, cache, disk, served>>
  BY DEF FromCache, Asking, Answered, Askers
<1>2. Good(q, now, rows) /\ now \in Nat /\ rows \in Nat
  BY DEF Inductive, Around
<1> HIDE DEF q
<1>3. /\ q \in Records /\ Knowing(q, now, rows) /\ Clocked(q, now, rows) /\ Listing(q)
      /\ q.text # Cut
  BY <1>2 DEF Good
<1>4. q.ttl \in Nat /\ q.ttl > 0 /\ Key(q) \in DOMAIN cache /\ now - found.stored < q.ttl
  BY <1>1, <1>3 DEF Young, Records
<1>5. /\ Key(q) \in Keys /\ found \in Replies /\ found.stored \in Nat /\ found.stored <= now
      /\ Truthful(Key(q), found, now, rows)
      /\ found.timed => found.stored - found.born <= Budget - 1
  BY <1>4, CacheIsTyped
<1> HIDE DEF found
<1>6. q.scoped /\ q.deadline - Budget <= now /\ q.deadline \in Nat
  BY <1>3, <1>4 DEF Clocked, Records
<1>7. /\ q.deadline - found.stored <= q.ttl + Budget - 1
      /\ (q.deadline - Budget) - found.stored <= now - found.stored
  <2>1. Budget \in Int
    BY ApiAssumption
  <2> QED
    BY <1>2, <1>4, <1>5, <1>6, <2>1
<1>8. age \in Int /\ age >= 0 /\ age <= MaxTtl /\ age >= q.age /\ age >= now - found.stored
  <2>1. q.age \in Int /\ -1 <= q.age /\ q.age <= MaxTtl /\ now - found.stored \in Int
    BY <1>2, <1>3, <1>5 DEF Clocked, Records
  <2>2. now - found.stored >= 0 /\ now - found.stored <= MaxTtl
    <3>1. q.ttl <= MaxTtl /\ MaxTtl \in Nat
      BY <1>3, <1>4, ApiAssumption DEF Clocked
    <3> QED BY <1>2, <1>4, <1>5, <3>1
  <2>3. age = IF q.age >= now - found.stored THEN q.age ELSE now - found.stored
    BY <2>1, MaxOfTwo
  <2> HIDE DEF age
  <2> QED
    BY <2>1, <2>2, <2>3
<1> HIDE DEF age
<1>9. /\ p \in Records /\ p.age = age /\ p.memo = q.memo /\ p.at = q.at /\ p.ttl = q.ttl
      /\ p.scoped = q.scoped /\ p.deadline = q.deadline /\ p.known = q.known
      /\ p.start = q.start /\ p.items = q.items /\ p.text = q.text
  BY <1>3, <1>8 DEF Records
<1> HIDE DEF p
<1>10. Good(p, now, rows)
  <2>1. Clocked(p, now, rows)
    BY <1>3, <1>8, <1>9 DEF Clocked
  <2>2. Knowing(p, now, rows)
    <3> SUFFICES ASSUME NEW k \in DOMAIN q.memo
                 PROVE  Truthful(k, q.memo[k], now, rows) /\ Timely(p, q.memo[k])
      BY <1>9 DEF Knowing
    <3>1. Truthful(k, q.memo[k], now, rows) /\ Timely(q, q.memo[k])
      BY <1>3 DEF Knowing
    <3>2. q.memo[k].stored \in Nat /\ q.age \in Int /\ q.deadline \in Nat /\ Budget \in Nat
      BY <1>3, <3>1, ApiAssumption DEF Truthful, Replies, Records
    <3>3. q.age >= 0 => age >= 0
      BY <1>8
    <3>4. q.age >= (q.deadline - Budget) - q.memo[k].stored
            => age >= (q.deadline - Budget) - q.memo[k].stored
      BY <1>8, <3>2
    <3> QED
      BY <1>9, <3>1, <3>3, <3>4 DEF Timely
  <2>3. p.at \notin {"sent", "read", "done"}
    BY <1>1, <1>9 DEF Askers
  <2>4. Place(p) = Place(q)
    BY <1>1, <1>9, <2>3 DEF Place
  <2>5. Waiting(p, now, rows) /\ Listing(p)
    BY <1>3, <1>9, <2>3, <2>4 DEF Waiting, Listing
  <2> QED
    BY <1>3, <1>9, <2>1, <2>2, <2>5 DEF Good
<1>11. Key(p) = Key(q)
  BY <1>9, SameKey
<1>12. Timely(p, found)
  <2>1. /\ found.stored \in Nat /\ q.deadline \in Nat /\ Budget \in Nat
        /\ now - found.stored \in Int
    BY <1>2, <1>5, <1>6, ApiAssumption
  <2>2. age >= 0 /\ age >= (q.deadline - Budget) - found.stored
    <3> DEFINE x == (q.deadline - Budget) - found.stored
               y == now - found.stored
    <3>1. x \in Int /\ y \in Int /\ x <= y /\ age \in Int /\ age >= y /\ age >= 0
      BY <1>7, <1>8, <2>1
    <3> HIDE DEF x, y
    <3>2. age >= x /\ age >= 0
      BY <3>1
    <3> QED BY <3>2 DEF x
  <2>3. p.ttl # 0
    BY <1>4, <1>9
  <2> QED
    BY <1>5, <1>7, <1>9, <2>2, <2>3 DEF Timely
<1>13. Good(Learn(p, Key(q), found), now, rows)
  BY <1>1, <1>5, <1>9, <1>10, <1>11, <1>12, AskerLearns
<1> QED
  BY <1>1, <1>13, RequestKeeps

LEMMA SendKeeps ==
  ASSUME Inductive, NEW r \in Requests, Send(r)
  PROVE  Inductive'
<1> DEFINE q == request[r]
           p == [q EXCEPT !.at = "sent", !.back = q.at]
<1>1. /\ q.at \in Askers /\ Key(q) \notin DOMAIN q.memo /\ Set(r, p)
      /\ Fine /\ UNCHANGED <<outside, cache, disk, served>>
  BY DEF Send, Asking, Answered, Askers
<1>2. Good(q, now, rows)
  BY DEF Inductive
<1> HIDE DEF q
<1>3. /\ q \in Records /\ Knowing(q, now, rows) /\ Clocked(q, now, rows) /\ Listing(q)
      /\ q.text # Cut
  BY <1>2 DEF Good
<1>4. /\ p \in Records /\ p.at = "sent" /\ p.back = q.at /\ p.age = q.age /\ p.memo = q.memo
      /\ p.ttl = q.ttl /\ p.scoped = q.scoped /\ p.deadline = q.deadline /\ p.known = q.known
      /\ p.start = q.start /\ p.items = q.items /\ p.text = q.text
  BY <1>1, <1>3 DEF Records, Places
<1> HIDE DEF p
<1>5. Asked(p) = Key(q)
  <2>1. /\ [p EXCEPT !.at = p.back].at = q.at /\ [p EXCEPT !.at = p.back].start = q.start
        /\ [p EXCEPT !.at = p.back].items = q.items
    BY <1>4 DEF Records
  <2> QED BY <2>1, SameKey DEF Asked
<1>6. Place(p) = q.at /\ Place(q) = q.at
  BY <1>1, <1>4 DEF Place, Askers
<1>7. Clocked(p, now, rows) /\ Knowing(p, now, rows)
  BY <1>3, <1>4 DEF Clocked, Knowing, Timely
<1>8. Waiting(p, now, rows) /\ Listing(p)
  BY <1>1, <1>3, <1>4, <1>5, <1>6 DEF Waiting, Listing, Askers
<1>9. Good(p, now, rows)
  BY <1>3, <1>4, <1>7, <1>8 DEF Good
<1> QED
  BY <1>1, <1>9, RequestKeeps

\* A page of the list as it now is, short or not.
LEMMA RowsOfIs ==
  ASSUME NEW key \in Keys, NEW most \in Nat, most >= 1, rows \in Nat
  PROVE  \E m \in 0..most : /\ RowsOf(key, most) = RowsAfter(key.offset, m)
                            /\ m = 0 => key.offset >= rows
<1> DEFINE last == Min({rows, key.offset + most})
           m == Max({0, last - key.offset})
<1>1. key.offset \in Nat
  BY DEF Keys
<1>2. last = IF rows <= key.offset + most THEN rows ELSE key.offset + most
  BY <1>1, MinOfTwo
<1> HIDE DEF last
<1>3. last \in Nat
  BY <1>1, <1>2
<1>4. m = IF 0 >= last - key.offset THEN 0 ELSE last - key.offset
  BY <1>1, <1>3, MaxOfTwo
<1> HIDE DEF m
<1>5. m \in 0..most /\ (m = 0 => key.offset >= rows)
  BY <1>1, <1>2, <1>3, <1>4
<1>6. RowsOf(key, most) = RowsAfter(key.offset, m)
  BY DEF RowsOf, RowsAfter, m, last
<1> QED
  BY <1>5, <1>6

LEMMA AnswersKeeps ==
  ASSUME Inductive, NEW r \in Requests, Answers(r)
  PROVE  Inductive'
<1> DEFINE q == request[r]
           key == Asked(q)
<1>1. q.at = "sent" /\ UNCHANGED <<outside, cache, disk, served>> /\ (Fault \/ Fine)
  BY DEF Answers
<1>2. Good(q, now, rows) /\ now \in Nat /\ rows \in Nat /\ text \in {1, 2}
  BY DEF Inductive, Around
<1>3. /\ q \in Records /\ Knowing(q, now, rows) /\ Clocked(q, now, rows) /\ Listing(q)
      /\ Waiting(q, now, rows) /\ q.text # Cut
  BY <1>2 DEF Good
<1>4. PICK most \in 1..Max({1, key.limit}), sent \in IF key = Config THEN {text, Part} ELSE {text} :
        Set(r, [q EXCEPT !.at = "read",
                  !.got = [total |-> IF key = Config THEN sent ELSE rows, born |-> now,
                           stored |-> 0, rows |-> rows, timed |-> q.scoped,
                           items |-> IF key.path = "nodes" THEN RowsOf(key, most) ELSE <<>>]])
  BY DEF Answers, Asked
<1> DEFINE got == [total |-> IF key = Config THEN sent ELSE rows, born |-> now,
                   stored |-> 0, rows |-> rows, timed |-> q.scoped,
                   items |-> IF key.path = "nodes" THEN RowsOf(key, most) ELSE <<>>]
           p == [q EXCEPT !.at = "read", !.got = got]
<1> HIDE DEF q
<1>5. q.back \in Askers
  BY <1>1, <1>3 DEF Waiting
<1>6. key \in Keys /\ (key.path = "nodes" => key.limit >= 1)
  <2> DEFINE w == [q EXCEPT !.at = q.back]
  <2>1. w \in Records /\ w.at \in Askers
    BY <1>3, <1>5 DEF Records, Places
  <2> HIDE DEF w
  <2>2. key = Key(w)
    BY DEF Asked, w
  <2> QED BY <2>1, <2>2, KeyType
<1> HIDE DEF key
<1>7. key.limit \in Nat
  BY <1>6 DEF Keys
<1>8. most \in Nat /\ most >= 1 /\ (key.path = "nodes" => most <= key.limit)
  <2>1. Max({1, key.limit}) = IF 1 >= key.limit THEN 1 ELSE key.limit
    BY <1>7, MaxOfTwo
  <2> QED BY <1>6, <1>7, <2>1
<1>9. PICK m \in 0..most : /\ RowsOf(key, most) = RowsAfter(key.offset, m)
                           /\ m = 0 => key.offset >= rows
  BY <1>2, <1>6, <1>8, RowsOfIs
<1>10. got.items \in Seq(Nat)
  <2>1. RowsAfter(key.offset, m) \in Seq(Nat)
    BY <1>6, <1>8, RowsAfterType DEF Keys
  <2> QED BY <1>9, <2>1
<1>11. /\ got.total = (IF key = Config THEN sent ELSE rows) /\ got.born = now /\ got.rows = rows
       /\ got.timed = q.scoped /\ sent \in {1, 2, Part} /\ sent \in Nat
       /\ key.path = "nodes" => got.items = RowsAfter(key.offset, m)
  BY <1>2, <1>9 DEF Part
<1>12. got \in Replies
  <2>1. got.total \in Nat
    BY <1>2, <1>11
  <2> QED
    BY <1>2, <1>3, <1>10, <2>1 DEF Replies, Records
<1> HIDE DEF got
<1>13. Truthful(key, got, now, rows)
  <2>1. key = Config => key.path # "nodes"
    BY DEF Config
  <2>2. key.path = "nodes" => m \in 0..key.limit
    BY <1>7, <1>8
  <2> QED
    BY <1>2, <1>9, <1>11, <1>12, <2>1, <2>2 DEF Truthful
<1>14. /\ p \in Records /\ p.at = "read" /\ p.back = q.back /\ p.got = got /\ p.age = q.age
       /\ p.memo = q.memo /\ p.ttl = q.ttl /\ p.scoped = q.scoped /\ p.deadline = q.deadline
       /\ p.known = q.known /\ p.start = q.start /\ p.items = q.items /\ p.text = q.text
  BY <1>3, <1>12 DEF Records, Places
<1>15. Set(r, p)
  BY <1>4 DEF got
<1> HIDE DEF p
<1>16. Asked(p) = key
  <2>1. /\ [p EXCEPT !.at = p.back].at = [q EXCEPT !.at = q.back].at
        /\ [p EXCEPT !.at = p.back].start = [q EXCEPT !.at = q.back].start
        /\ [p EXCEPT !.at = p.back].items = [q EXCEPT !.at = q.back].items
    BY <1>3, <1>14 DEF Records
  <2> QED BY <2>1, SameKey DEF Asked, key
<1>17. Clocked(p, now, rows) /\ Knowing(p, now, rows)
  BY <1>3, <1>14 DEF Clocked, Knowing, Timely
<1>18. Place(p) = Place(q)
  BY <1>1, <1>14 DEF Place
<1>19. Listing(p)
  BY <1>3, <1>14, <1>18 DEF Listing
<1>20. Waiting(p, now, rows)
  <2>1. Asked(p) \notin DOMAIN p.memo
    BY <1>1, <1>3, <1>14, <1>16 DEF Waiting, key
  <2>2. got.rows >= p.known
    BY <1>3, <1>2, <1>11, <1>14 DEF Clocked, Records
  <2>3. p.scoped => p.deadline \in Nat /\ Budget \in Nat
    BY <1>14, ApiAssumption DEF Records
  <2>4. p.scoped => got.born >= p.deadline - Budget
    BY <1>2, <1>3, <1>11, <1>14, <2>3 DEF Clocked
  <2> QED
    BY <1>5, <1>11, <1>13, <1>14, <1>16, <2>1, <2>2, <2>4 DEF Waiting
<1>21. Good(p, now, rows)
  BY <1>3, <1>14, <1>17, <1>19, <1>20 DEF Good
<1> QED
  BY <1>1, <1>15, <1>21, RequestKeeps

\* Without a count the first page is asked for; any other failure ends the request.
LEMMA FailedIsGood ==
  ASSUME NEW q, NEW t \in Nat, NEW n \in Nat, Good(q, t, n),
         Place(q) \notin {"walk", "done"} \/ q.back # "count"
  PROVE  Good(Failed(q), t, n)
<1>1. CASE q.back # "count"
  BY <1>1, IdleIsGood DEF Failed
<1>2. CASE q.back = "count" /\ Place(q) \notin {"walk", "done"}
  <2> DEFINE p == [q EXCEPT !.got = NoAnswer, !.at = "first"]
  <2>1. Failed(q) = p
    BY <1>2 DEF Failed
  <2>2. q \in Records /\ Knowing(q, t, n) /\ Clocked(q, t, n) /\ Listing(q) /\ q.text # Cut
    BY DEF Good
  <2>3. NoAnswer \in Replies
    BY DEF NoAnswer, Replies
  <2>4. /\ p \in Records /\ p.at = "first" /\ p.age = q.age
        /\ p.memo = q.memo /\ p.ttl = q.ttl /\ p.scoped = q.scoped /\ p.deadline = q.deadline
        /\ p.known = q.known /\ p.start = q.start /\ p.items = q.items /\ p.text = q.text
    BY <2>2, <2>3 DEF Records, Places, Askers
  <2> HIDE DEF p
  <2>5. Place(p) = "first"
    BY <2>4 DEF Place
  <2>6. Clocked(p, t, n) /\ Knowing(p, t, n)
    BY <2>2, <2>4 DEF Clocked, Knowing, Timely
  <2>7. Waiting(p, t, n) /\ Listing(p)
    BY <1>2, <2>2, <2>4, <2>5 DEF Waiting, Listing
  <2> QED
    BY <2>1, <2>2, <2>4, <2>6, <2>7 DEF Good
<1> QED
  BY <1>1, <1>2

LEMMA FailsKeeps ==
  ASSUME Inductive, NEW r \in Requests, Fails(r)
  PROVE  Inductive'
<1> DEFINE q == request[r]
<1>1. /\ q.at \in {"sent", "read"} /\ Fault /\ Set(r, Failed(q))
      /\ UNCHANGED <<outside, cache, disk, served>>
  BY DEF Fails
<1>2. Good(q, now, rows) /\ now \in Nat /\ rows \in Nat
  BY DEF Inductive, Around
<1> HIDE DEF q
<1>3. Place(q) = q.back
  BY <1>1 DEF Place
<1>4. Good(Failed(q), now, rows)
  BY <1>2, <1>3, FailedIsGood
<1> QED
  BY <1>1, <1>4, RequestKeeps

LEMMA TooLateKeeps ==
  ASSUME Inductive, NEW r \in Requests, TooLate(r)
  PROVE  Inductive'
<1> DEFINE q == request[r]
           p == [q EXCEPT !.back = q.at]
<1>1. /\ \/ q.at \in Askers /\ Set(r, Failed(p))
         \/ q.at \in {"sent", "read"} /\ Set(r, Failed(q))
      /\ Fine /\ UNCHANGED <<outside, cache, disk, served>>
  BY DEF TooLate, Asking, Askers
<1>2. Good(q, now, rows) /\ now \in Nat /\ rows \in Nat
  BY DEF Inductive, Around
<1> HIDE DEF q
<1>3. ASSUME q.at \in Askers PROVE Good(Failed(p), now, rows)
  <2>1. /\ q \in Records /\ Knowing(q, now, rows) /\ Clocked(q, now, rows) /\ Listing(q)
        /\ q.text # Cut
    BY <1>2 DEF Good
  <2>2. /\ p \in Records /\ p.at = q.at /\ p.back = q.at /\ p.age = q.age
        /\ p.memo = q.memo /\ p.ttl = q.ttl /\ p.scoped = q.scoped /\ p.deadline = q.deadline
        /\ p.known = q.known /\ p.start = q.start /\ p.items = q.items /\ p.text = q.text
    BY <1>3, <2>1 DEF Records, Places
  <2> HIDE DEF p
  <2>3. p.at \notin {"sent", "read"} /\ Place(p) = q.at /\ Place(q) = q.at
    BY <1>3, <2>2 DEF Place, Askers
  <2>4. Good(p, now, rows)
    BY <2>1, <2>2, <2>3 DEF Good, Clocked, Knowing, Timely, Waiting, Listing
  <2> QED
    BY <1>2, <2>2, <2>3, <2>4, FailedIsGood
<1>4. ASSUME q.at \in {"sent", "read"} PROVE Good(Failed(q), now, rows)
  BY <1>2, <1>4, FailedIsGood DEF Place
<1> QED
  BY <1>1, <1>3, <1>4, RequestKeeps

\* What is remembered stays within the limit: when the fresh answers fill the cache,
\* one of the oldest makes room.
LEMMA RememberIsGood ==
  ASSUME Inductive, NEW key \in Keys, NEW answer, Truthful(key, answer, now, rows),
         answer.stored = now, answer.timed => now - answer.born <= Budget - 1
  PROVE  CacheGood(Remember(key, answer), now, rows)
<1> DEFINE fresh == {k \in DOMAIN cache : now - cache[k].stored < MaxTtl}
           oldest == {k \in fresh : \A l \in fresh : cache[k].stored <= cache[l].stored}
           kept == IF Cardinality(fresh) < MaxCache THEN fresh
                   ELSE fresh \ {CHOOSE k \in oldest : TRUE}
           new == Remember(key, answer)
<1>1. /\ CacheGood(cache, now, rows) /\ now \in Nat /\ MaxCache \in Nat /\ MaxCache >= 1
  BY ApiAssumption DEF Inductive, Around
<1>2. IsFiniteSet(fresh) /\ Cardinality(fresh) <= MaxCache /\ Cardinality(fresh) \in Nat
  <2>1. IsFiniteSet(DOMAIN cache) /\ Cardinality(DOMAIN cache) <= MaxCache
    BY <1>1 DEF CacheGood
  <2>2. IsFiniteSet(fresh) /\ Cardinality(fresh) <= Cardinality(DOMAIN cache)
    BY <2>1, FS_Subset
  <2> QED
    BY <1>1, <2>1, <2>2, FS_CardinalityType
<1>3. ASSUME fresh # {} PROVE oldest # {}
  <2> DEFINE T == {cache[k].stored : k \in fresh}
  <2>1. T \subseteq Nat /\ T # {}
    BY <1>3, CacheIsTyped
  <2>2. PICK x \in T : \A y \in T : x <= y
    <3> HIDE DEF T
    <3> QED BY <2>1, LeastElement
  <2> QED
    BY <2>2
<1>4. kept \subseteq fresh /\ IsFiniteSet(kept) /\ Cardinality(kept) < MaxCache
  <2>1. CASE Cardinality(fresh) < MaxCache
    BY <1>2, <2>1
  <2>2. CASE ~(Cardinality(fresh) < MaxCache)
    <3> DEFINE gone == CHOOSE k \in oldest : TRUE
    <3>1. fresh # {}
      <4> SUFFICES ASSUME fresh = {} PROVE Cardinality(fresh) < MaxCache
        BY <2>2
      <4>1. Cardinality({}) = 0
        BY FS_EmptySet
      <4> HIDE DEF fresh
      <4> QED BY <1>1, <4>1
    <3>2. gone \in fresh
      BY <1>3, <3>1
    <3> HIDE DEF gone, fresh
    <3>3. IsFiniteSet(fresh \ {gone}) /\ Cardinality(fresh \ {gone}) = Cardinality(fresh) - 1
      BY <1>2, <3>2, FS_RemoveElement
    <3>4. Cardinality(fresh) - 1 < MaxCache
      BY <1>1, <1>2
    <3> QED
      BY <2>2, <3>3, <3>4 DEF gone
  <2> QED
    BY <2>1, <2>2
<1> HIDE DEF kept
<1>5. new = [k \in kept \cup {key} |-> IF k = key THEN answer ELSE cache[k]]
  BY DEF Remember, kept
<1> HIDE DEF new
<1>6. DOMAIN new = kept \cup {key}
  BY <1>5
<1>7. IsFiniteSet(DOMAIN new) /\ Cardinality(DOMAIN new) <= MaxCache
  <2>1. /\ IsFiniteSet(kept \cup {key})
        /\ Cardinality(kept \cup {key})
             = IF key \in kept THEN Cardinality(kept) ELSE Cardinality(kept) + 1
    BY <1>4, FS_AddElement
  <2>2. Cardinality(kept) \in Nat
    BY <1>4, FS_CardinalityType
  <2> QED
    BY <1>1, <1>4, <1>6, <2>1, <2>2
<1>8. ASSUME NEW k \in DOMAIN new PROVE Stored(new, k, now, rows)
  <2>1. CASE k = key
    <3>1. new[k] = answer
      BY <1>5, <1>6, <2>1
    <3> QED
      BY <1>1, <2>1, <3>1 DEF Stored, Truthful
  <2>2. CASE k # key
    <3>1. new[k] = cache[k] /\ k \in DOMAIN cache
      BY <1>4, <1>5, <1>6, <2>2
    <3> QED
      BY <1>1, <3>1 DEF CacheGood, Stored
  <2> QED
    BY <2>1, <2>2
<1> QED
  BY <1>7, <1>8 DEF CacheGood, new

LEMMA StoreKeeps ==
  ASSUME Inductive, NEW r \in Requests, Store(r)
  PROVE  Inductive'
<1> DEFINE q == request[r]
           p == [q EXCEPT !.at = q.back, !.got = NoAnswer]
           a == [q.got EXCEPT !.stored = now]
<1>1. /\ q.at = "read" /\ ~Late(q) /\ Set(r, Learn(p, Key(p), a))
      /\ cache' = Remember(Key(p), a)
      /\ Fine /\ UNCHANGED <<outside, disk, served>>
  BY DEF Store
<1>2. Good(q, now, rows) /\ now \in Nat /\ rows \in Nat
  BY DEF Inductive, Around
<1> HIDE DEF q
<1>3. /\ q \in Records /\ Knowing(q, now, rows) /\ Clocked(q, now, rows) /\ Listing(q)
      /\ Waiting(q, now, rows) /\ q.text # Cut
  BY <1>2 DEF Good
<1>4. NoAnswer \in Replies
  BY DEF NoAnswer, Replies
<1>5. q.back \in Askers
  BY <1>1, <1>3 DEF Waiting
<1>6. /\ p \in Records /\ p.at = q.back /\ p.age = q.age
      /\ p.memo = q.memo /\ p.ttl = q.ttl /\ p.scoped = q.scoped /\ p.deadline = q.deadline
      /\ p.known = q.known /\ p.start = q.start /\ p.items = q.items /\ p.text = q.text
  BY <1>3, <1>4, <1>5 DEF Records, Places
<1> HIDE DEF p
<1>7. Key(p) = Asked(q)
  <2>1. /\ [q EXCEPT !.at = q.back].at = p.at /\ [q EXCEPT !.at = q.back].start = p.start
        /\ [q EXCEPT !.at = q.back].items = p.items
    BY <1>3, <1>6 DEF Records
  <2> QED BY <2>1, SameKey DEF Asked
<1>8. Place(p) = q.back /\ Place(q) = q.back /\ p.at \notin {"sent", "read", "done"}
  BY <1>1, <1>5, <1>6 DEF Place, Askers
<1>9. Good(p, now, rows)
  <2>1. Clocked(p, now, rows) /\ Knowing(p, now, rows)
    BY <1>3, <1>6 DEF Clocked, Knowing, Timely
  <2>2. Waiting(p, now, rows) /\ Listing(p)
    BY <1>3, <1>6, <1>8 DEF Waiting, Listing
  <2> QED
    BY <1>3, <1>6, <2>1, <2>2 DEF Good
<1>10. /\ Truthful(Asked(q), q.got, now, rows) /\ q.got.rows >= q.known
       /\ q.scoped => q.got.born >= q.deadline - Budget
       /\ q.got.timed = q.scoped /\ Asked(q) \notin DOMAIN q.memo
  BY <1>1, <1>3 DEF Waiting
<1>11. /\ q.got.born \in Nat /\ q.deadline \in Nat /\ Budget \in Nat /\ Budget >= 1
       /\ q.ttl \in Nat
  BY <1>3, <1>10, ApiAssumption DEF Records, Replies
<1>12. /\ a \in Replies /\ a.stored = now /\ a.born = q.got.born /\ a.timed = q.scoped
       /\ a.total = q.got.total /\ a.items = q.got.items /\ a.rows = q.got.rows
  BY <1>2, <1>3, <1>10 DEF Records, Replies
<1> HIDE DEF a
<1>13. Truthful(Asked(q), a, now, rows)
  BY <1>10, <1>12 DEF Truthful
<1>14. q.scoped => now - a.born <= Budget - 1
  BY <1>1, <1>2, <1>10, <1>11, <1>12 DEF Late
<1>15. Timely(p, a)
  <2>1. q.scoped => q.deadline - Budget <= now
    BY <1>3 DEF Clocked
  <2>2. q.ttl > 0 => q.deadline - a.stored <= q.ttl + Budget - 1
    BY <1>2, <1>3, <1>11, <1>12, <2>1 DEF Clocked
  <2>3. q.ttl = 0 => a.rows >= q.known
    BY <1>10, <1>12
  <2>4. a.timed => a.stored - a.born <= Budget - 1
    BY <1>12, <1>14
  <2>5. ~(q.scoped /\ a.born < q.deadline - Budget)
    BY <1>10, <1>11, <1>12
  <2> QED
    BY <1>6, <2>2, <2>3, <2>4, <2>5 DEF Timely
<1>17. Good(Learn(p, Key(p), a), now, rows)
  BY <1>5, <1>6, <1>7, <1>9, <1>10, <1>13, <1>15, AskerLearns
<1>18. UNCHANGED <<now, rows>>
  BY <1>1 DEF outside
<1>19. CacheGood(cache, now, rows)'
  <2>1. Key(p) \in Keys
    BY <1>5, <1>6, KeyType
  <2>2. CacheGood(Remember(Key(p), a), now, rows)
    BY <1>7, <1>12, <1>13, <1>14, <2>1, RememberIsGood
  <2> QED
    BY <1>1, <1>18, <2>2
<1>20. Around'
  BY <1>1 DEF Inductive, Around, Fine, outside, disk
<1>21. /\ request' = [s \in Requests |-> request'[s]]
       /\ \A s \in Requests : Good(request'[s], now', rows')
  BY <1>1, <1>17, <1>18, SetKeeps
<1> QED
  BY <1>19, <1>20, <1>21 DEF Inductive

-----------------------------------------------------------------------------
(* The list.                                                               *)

LEMMA CountedKeeps ==
  ASSUME Inductive, NEW r \in Requests, Counted(r)
  PROVE  Inductive'
<1> DEFINE q == request[r]
           a == q.memo[Key(q)]
           start == Max({0, a.total - Want})
           p == [q EXCEPT !.at = "walk", !.start = start]
<1>1. /\ q.at = "count" /\ Key(q) \in DOMAIN q.memo /\ Set(r, p)
      /\ Fine /\ UNCHANGED <<outside, cache, disk, served>>
  BY DEF Counted, Answered, Answer
<1>2. Good(q, now, rows) /\ Want \in Nat /\ Want > 0
  BY ApiAssumption DEF Inductive
<1> HIDE DEF q
<1>3. /\ q \in Records /\ Knowing(q, now, rows) /\ Clocked(q, now, rows) /\ Listing(q)
      /\ q.text # Cut
  BY <1>2 DEF Good
<1>4. a.total \in Nat
  BY <1>1, <1>3 DEF Knowing, Truthful, Replies
<1> HIDE DEF a
<1>5. start = (IF 0 >= a.total - Want THEN 0 ELSE a.total - Want)
  BY <1>2, <1>4, MaxOfTwo
<1> HIDE DEF start
<1>6. start \in Nat /\ a.total <= start + Want
  BY <1>2, <1>4, <1>5
<1>7. /\ p \in Records /\ p.at = "walk" /\ p.age = q.age
      /\ p.memo = q.memo /\ p.ttl = q.ttl /\ p.scoped = q.scoped /\ p.deadline = q.deadline
      /\ p.known = q.known /\ p.start = start /\ p.items = q.items /\ p.text = q.text
  BY <1>3, <1>6 DEF Records, Places, Askers
<1> HIDE DEF p
<1>8. q.items = <<>> /\ Place(p) = "walk"
  BY <1>1, <1>3, <1>7 DEF Listing, Place
<1>9. Listing(p)
  <2>1. Len(p.items) = 0 /\ RowsAfter(p.start, 0) = <<>>
    BY <1>7, <1>8 DEF RowsAfter
  <2>2. \E k \in DOMAIN p.memo : p.memo[k].total <= p.start + Want
    BY <1>1, <1>6, <1>7 DEF a
  <2> QED
    BY <1>2, <1>7, <1>8, <2>1, <2>2 DEF Listing
<1>10. Good(p, now, rows)
  BY <1>3, <1>7, <1>9 DEF Good, Clocked, Knowing, Timely, Waiting
<1> QED
  BY <1>1, <1>10, RequestKeeps

\* Rows of a page of the list that is walked begin where the rows so far end.
LEMMA PageIsRows ==
  ASSUME NEW q \in Records, NEW t, NEW n, Knowing(q, t, n), q.at \in {"first", "walk"},
         Key(q) \in DOMAIN q.memo
  PROVE  LET a == q.memo[Key(q)]
         IN  /\ a \in Replies
             /\ \E m \in 0..Key(q).limit :
                   /\ a.items = RowsAfter(Key(q).offset, m)
                   /\ m = 0 => Key(q).offset >= a.total
<1>1. Key(q).path = "nodes"
  BY KeyType DEF Askers
<1> QED
  BY <1>1 DEF Knowing, Truthful

LEMMA FirstPageKeeps ==
  ASSUME Inductive, NEW r \in Requests, FirstPage(r)
  PROVE  Inductive'
<1> DEFINE q == request[r]
           a == q.memo[Key(q)]
           all == a.total <= Want
           items == IF all THEN a.items ELSE <<>>
           start == IF all THEN 0 ELSE a.total - Want
           at == IF all /\ Len(a.items) >= a.total THEN "done" ELSE "walk"
           p == [q EXCEPT !.items = items, !.start = start, !.at = at]
<1>1. /\ q.at = "first" /\ Key(q) \in DOMAIN q.memo /\ Set(r, p)
      /\ Fine /\ UNCHANGED <<outside, cache, disk, served>>
  BY DEF FirstPage, Answered, Answer
<1>2. Good(q, now, rows) /\ Want \in Nat /\ Want > 0
  BY ApiAssumption DEF Inductive
<1> HIDE DEF q
<1>3. /\ q \in Records /\ Knowing(q, now, rows) /\ Clocked(q, now, rows) /\ Listing(q)
      /\ q.text # Cut
  BY <1>2 DEF Good
<1>4. Key(q).offset = 0 /\ Key(q).limit = Ask(0) /\ Ask(0) \in Nat /\ Ask(0) <= Want
  BY <1>1, <1>2, AskType DEF Key, PageOf
<1>5. PICK m \in 0..Ask(0) : a.items = RowsAfter(0, m)
  BY <1>1, <1>3, <1>4, PageIsRows
<1>6. a.total \in Nat /\ a.items \in Seq(Nat)
  BY <1>1, <1>3, PageIsRows DEF Replies
<1> HIDE DEF a
<1>7. m \in Nat /\ m <= Want /\ Len(a.items) = m
  <2>1. m \in Nat /\ m <= Want
    BY <1>2, <1>4
  <2>2. Len(RowsAfter(0, m)) = m
    BY <2>1, RowsAfterType
  <2> QED
    BY <1>5, <2>1, <2>2
<1>8. start \in Nat /\ items \in Seq(Nat) /\ at \in {"done", "walk"}
  BY <1>2, <1>6
<1>9. items = RowsAfter(start, Len(items)) /\ Len(items) \in Nat /\ Len(items) <= Want
  <2>1. CASE all
    BY <1>5, <1>7, <2>1
  <2>2. CASE ~all
    BY <1>2, <2>2 DEF RowsAfter
  <2> QED
    BY <2>1, <2>2
<1>10. at = "walk" => Len(items) < Want /\ a.total <= start + Want
  <2>1. CASE all
    BY <1>2, <1>6, <1>7, <2>1
  <2>2. CASE ~all
    BY <1>2, <1>6, <2>2
  <2> QED
    BY <2>1, <2>2
<1>11. at = "done" => a.total <= start + Len(items)
  BY <1>6, <1>7
<1> HIDE DEF items, start, at
<1>12. /\ p \in Records /\ p.at = at /\ p.age = q.age
       /\ p.memo = q.memo /\ p.ttl = q.ttl /\ p.scoped = q.scoped /\ p.deadline = q.deadline
       /\ p.known = q.known /\ p.start = start /\ p.items = items /\ p.text = q.text
  BY <1>3, <1>8 DEF Records, Places, Askers
<1> HIDE DEF p
<1>13. Place(p) = at
  BY <1>8, <1>12 DEF Place
<1>14. Key(q) \in DOMAIN p.memo /\ p.memo[Key(q)] = a
  BY <1>1, <1>12 DEF a
<1>15. Listing(p)
  BY <1>8, <1>9, <1>10, <1>11, <1>12, <1>13, <1>14 DEF Listing
<1>16. Good(p, now, rows)
  BY <1>3, <1>8, <1>12, <1>15 DEF Good, Clocked, Knowing, Timely, Waiting
<1> QED
  BY <1>1, <1>16, RequestKeeps

LEMMA NextPageKeeps ==
  ASSUME Inductive, NEW r \in Requests, NextPage(r)
  PROVE  Inductive'
<1> DEFINE q == request[r]
           a == q.memo[Key(q)]
           all == q.items \o a.items
           over == Len(all) >= Want \/ a.items = <<>> \/ q.start + Len(all) >= a.total
           items == SubSeq(all, 1, Min({Want, Len(all)}))
           at == IF over THEN "done" ELSE "walk"
           p == [q EXCEPT !.items = items, !.at = at]
<1>1. /\ q.at = "walk" /\ Key(q) \in DOMAIN q.memo /\ Set(r, p)
      /\ Fine /\ UNCHANGED <<outside, cache, disk, served>>
  BY DEF NextPage, Answered, Answer
<1>2. Good(q, now, rows) /\ Want \in Nat /\ Want > 0
  BY ApiAssumption DEF Inductive
<1> HIDE DEF q
<1>3. /\ q \in Records /\ Knowing(q, now, rows) /\ Clocked(q, now, rows) /\ Listing(q)
      /\ q.text # Cut
  BY <1>2 DEF Good
<1> DEFINE had == Len(q.items)
<1>4. /\ q.items = RowsAfter(q.start, had) /\ had < Want /\ had \in Nat /\ q.start \in Nat
      /\ \E k \in DOMAIN q.memo : q.memo[k].total <= q.start + Want
  BY <1>1, <1>3 DEF Listing, Place, Records
<1>5. /\ Key(q).offset = q.start + had /\ Key(q).limit = Ask(had)
      /\ Ask(had) \in Nat /\ Ask(had) <= Want - had
  BY <1>1, <1>4, AskType DEF Key, PageOf
<1>6. PICK m \in 0..Ask(had) : /\ a.items = RowsAfter(q.start + had, m)
                               /\ m = 0 => q.start + had >= a.total
  BY <1>1, <1>3, <1>5, PageIsRows
<1>7. a.total \in Nat
  BY <1>1, <1>3, PageIsRows DEF Replies
<1> HIDE DEF a
<1>8. m \in Nat /\ had + m <= Want /\ had + m \in Nat
  <2>1. m \in Nat /\ m <= Ask(had)
    BY <1>5
  <2> HIDE DEF had
  <2>2. /\ had \in Nat /\ Want \in Nat /\ Ask(had) \in Nat
        /\ Ask(had) <= Want - had
    BY <1>2, <1>4, <1>5
  <2> QED
    BY ONLY <2>1, <2>2
<1>9. all = RowsAfter(q.start, had + m) /\ Len(all) = had + m /\ all \in Seq(Nat)
  <2>1. all = RowsAfter(q.start, had + m)
    <3> HIDE DEF had
    <3>1. RowsAfter(q.start, had) \o RowsAfter(q.start + had, m) = RowsAfter(q.start, had + m)
      BY <1>4, <1>8, RowsInTurn
    <3>2. q.items = RowsAfter(q.start, had) /\ a.items = RowsAfter(q.start + had, m)
      BY <1>4, <1>6
    <3> QED BY <3>1, <3>2
  <2>2. /\ RowsAfter(q.start, had + m) \in Seq(Nat)
        /\ Len(RowsAfter(q.start, had + m)) = had + m
    <3> HIDE DEF had
    <3> QED BY <1>4, <1>8, RowsAfterType
  <2> HIDE DEF all, had
  <2> QED
    BY <2>1, <2>2
<1> HIDE DEF all
<1>10. items = all
  <2>1. Min({Want, Len(all)}) = Len(all)
    BY <1>2, <1>8, <1>9, MinOfTwo
  <2> QED
    BY <1>9, <2>1
<1>11. a.items = <<>> => q.start + Len(all) >= a.total
  <2>1. Len(RowsAfter(q.start + had, m)) = m
    <3>1. q.start + had \in Nat
      BY <1>4
    <3> QED BY <1>8, <3>1, RowsAfterType
  <2> QED
    BY <1>4, <1>6, <1>9, <2>1
<1>12. over => Len(all) = Want \/ a.total <= q.start + Len(all)
  BY <1>2, <1>4, <1>7, <1>8, <1>9, <1>11
<1>13. ~over => Len(all) < Want
  BY <1>2, <1>8, <1>9
<1>14. at \in {"done", "walk"} /\ (at = "done" <=> over)
  OBVIOUS
<1> HIDE DEF items, at, over
<1>15. /\ p \in Records /\ p.at = at /\ p.age = q.age
       /\ p.memo = q.memo /\ p.ttl = q.ttl /\ p.scoped = q.scoped /\ p.deadline = q.deadline
       /\ p.known = q.known /\ p.start = q.start /\ p.items = all /\ p.text = q.text
  BY <1>3, <1>9, <1>10, <1>14 DEF Records, Places, Askers
<1> HIDE DEF p
<1>16. Place(p) = at
  BY <1>14, <1>15 DEF Place
<1>17. Key(q) \in DOMAIN p.memo /\ p.memo[Key(q)] = a
  BY <1>1, <1>15 DEF a
<1>18. at = "done" => \E k \in DOMAIN p.memo : p.memo[k].total <= p.start + Len(p.items)
  BY <1>4, <1>12, <1>14, <1>15, <1>17
<1>19. Listing(p)
  BY <1>4, <1>8, <1>9, <1>13, <1>14, <1>15, <1>16, <1>18 DEF Listing
<1>20. Good(p, now, rows)
  BY <1>3, <1>14, <1>15, <1>19 DEF Good, Clocked, Knowing, Timely, Waiting
<1> QED
  BY <1>1, <1>20, RequestKeeps

LEMMA ClaimedKeeps ==
  ASSUME Inductive, NEW r \in Requests, Claimed(r)
  PROVE  Inductive'
<1> DEFINE q == request[r]
           p == [q EXCEPT !.at = "done"]
<1>1. q.at = "claim" /\ Set(r, p) /\ Fine /\ UNCHANGED <<outside, cache, disk, served>>
  BY DEF Claimed
<1>2. Good(q, now, rows)
  BY DEF Inductive
<1> HIDE DEF q
<1>3. /\ q \in Records /\ Knowing(q, now, rows) /\ Clocked(q, now, rows) /\ Listing(q)
      /\ q.text # Cut
  BY <1>2 DEF Good
<1>4. /\ p \in Records /\ p.at = "done" /\ p.age = q.age
      /\ p.memo = q.memo /\ p.ttl = q.ttl /\ p.scoped = q.scoped /\ p.deadline = q.deadline
      /\ p.known = q.known /\ p.start = q.start /\ p.items = q.items /\ p.text = q.text
  BY <1>3 DEF Records, Places
<1> HIDE DEF p
<1>5. q.items = <<>>
  BY <1>1, <1>3 DEF Listing, Place
<1>6. Listing(p)
  BY <1>3, <1>4, <1>5 DEF Listing, Place
<1>7. Good(p, now, rows)
  BY <1>3, <1>4, <1>6 DEF Good, Clocked, Knowing, Timely, Waiting
<1> QED
  BY <1>1, <1>7, RequestKeeps

-----------------------------------------------------------------------------
(* The comparison, and the kept copy.                                      *)

Writing == {"config", "pulled", "fetch", "file.tmp", "file", "note.tmp", "note"}

\* A step of a comparison moves on with a text that is none, or one the API gave.
LEMMA ComparerMovesOn ==
  ASSUME NEW q, NEW t, NEW n, Good(q, t, n), q.at \in Writing,
         NEW at \in {"pulled", "fetch", "file.tmp", "file", "note.tmp", "note", "done"},
         NEW new \in Texts \ {Cut}
  PROVE  Good([q EXCEPT !.at = at, !.text = new], t, n)
<1> DEFINE p == [q EXCEPT !.at = at, !.text = new]
<1>1. q \in Records /\ Knowing(q, t, n) /\ Clocked(q, t, n) /\ Listing(q)
  BY DEF Good
<1>2. /\ p \in Records /\ p.at = at /\ p.age = q.age
      /\ p.memo = q.memo /\ p.ttl = q.ttl /\ p.scoped = q.scoped /\ p.deadline = q.deadline
      /\ p.known = q.known /\ p.start = q.start /\ p.items = q.items /\ p.text = new
  BY <1>1 DEF Records, Places, Askers
<1> HIDE DEF p
<1>3. q.items = <<>> /\ Place(p) # "walk"
  BY <1>1, <1>2 DEF Listing, Place, Writing
<1>4. Listing(p)
  BY <1>1, <1>2, <1>3 DEF Listing
<1>5. Good(p, t, n)
  BY <1>1, <1>2, <1>4 DEF Good, Clocked, Knowing, Timely, Waiting
<1> QED
  BY <1>5 DEF p

\* The text stays what it was.
LEMMA ComparerGoesOn ==
  ASSUME NEW q, NEW t, NEW n, Good(q, t, n), q.at \in Writing,
         NEW at \in {"pulled", "fetch", "file.tmp", "file", "note.tmp", "note", "done"}
  PROVE  Good([q EXCEPT !.at = at], t, n)
<1>1. q \in Records /\ q.text \in Texts \ {Cut}
  BY DEF Good, Records
<1>2. [q EXCEPT !.at = at] = [q EXCEPT !.at = at, !.text = q.text]
  BY <1>1 DEF Records
<1> QED
  BY <1>1, <1>2, ComparerMovesOn

LEMMA KeptKeeps ==
  ASSUME Inductive, NEW r \in Requests, Kept(r)
  PROVE  Inductive'
<1> DEFINE q == request[r]
<1>1. q.at = "config" /\ Fine /\ UNCHANGED <<outside, cache, disk, served>>
  BY DEF Kept
<1>2. Good(q, now, rows) /\ now \in Nat /\ rows \in Nat
  BY DEF Inductive, Around
<1>3. note \in Texts \ {Cut} /\ file \in Texts
  BY DEF Inductive, Around
<1>4. \/ Set(r, [q EXCEPT !.at = "pulled"])
      \/ file = note /\ Set(r, [q EXCEPT !.at = "done", !.text = file])
      \/ Set(r, [Idle EXCEPT !.at = "error"])
  BY DEF Kept
<1> HIDE DEF q
<1>5. Good([q EXCEPT !.at = "pulled"], now, rows)
  BY <1>1, <1>2, ComparerGoesOn DEF Writing
<1>6. file = note => Good([q EXCEPT !.at = "done", !.text = file], now, rows)
  BY <1>1, <1>2, <1>3, ComparerMovesOn DEF Writing
<1>7. Good([Idle EXCEPT !.at = "error"], now, rows)
  BY <1>2, IdleIsGood
<1> QED
  BY <1>1, <1>4, <1>5, <1>6, <1>7, RequestKeeps

\* What is taken to be compared is kept, or is being kept already.
LEMMA TakenIsKept ==
  ASSUME NEW q, Good(q, now, rows), q.at \in Writing, NEW got \in Texts \ {Cut}
  PROVE  Good(KeepConfig(q, got), now, rows)
<1> DEFINE at == IF file = got /\ note = got THEN "done" ELSE "file.tmp"
<1>1. at \in {"done", "file.tmp"} /\ q \in Records
  BY DEF Good
<1>2. KeepConfig(q, got) = [q EXCEPT !.at = at, !.text = got]
  BY <1>1 DEF KeepConfig, Records
<1>3. at \in {"pulled", "fetch", "file.tmp", "file", "note.tmp", "note", "done"}
  OBVIOUS
<1> HIDE DEF at
<1>4. Good([q EXCEPT !.at = at, !.text = got], now, rows)
  BY <1>3, ComparerMovesOn
<1> QED
  BY <1>2, <1>4

LEMMA PulledKeeps ==
  ASSUME Inductive, NEW r \in Requests, Pulled(r)
  PROVE  Inductive'
<1> DEFINE q == request[r]
<1>1. q.at = "pulled" /\ Fine /\ UNCHANGED <<outside, cache, disk, served>>
  BY DEF Pulled
<1>2. Good(q, now, rows) /\ pulled \in Texts \ {Cut}
  BY DEF Inductive, Around, Texts, NoText, Cut, Part
<1>3. Set(r, [q EXCEPT !.at = "fetch"]) \/ Set(r, KeepConfig(q, pulled))
  BY DEF Pulled
<1> HIDE DEF q
<1>4. Good([q EXCEPT !.at = "fetch"], now, rows) /\ Good(KeepConfig(q, pulled), now, rows)
  BY <1>1, <1>2, ComparerGoesOn, TakenIsKept DEF Writing
<1> QED
  BY <1>1, <1>3, <1>4, RequestKeeps

LEMMA FetchedKeeps ==
  ASSUME Inductive, NEW r \in Requests, Fetched(r)
  PROVE  Inductive'
<1> DEFINE q == request[r]
           got == q.memo[Key(q)].total
<1>1. /\ q.at = "fetch" /\ Key(q) \in DOMAIN q.memo /\ Set(r, KeepConfig(q, got))
      /\ Fine /\ UNCHANGED <<outside, cache, disk, served>>
  BY DEF Fetched, Answered, Answer
<1>2. Good(q, now, rows)
  BY DEF Inductive
<1> HIDE DEF q
<1>3. Knowing(q, now, rows)
  BY <1>2 DEF Good
<1>4. Key(q) = Config
  BY <1>1 DEF Key
<1>5. got \in {1, 2, Part}
  BY <1>1, <1>3, <1>4 DEF Knowing, Truthful
<1>6. got \in Texts \ {Cut}
  BY <1>5 DEF Texts, Cut, Part
<1> HIDE DEF got
<1>7. Good(KeepConfig(q, got), now, rows)
  BY <1>1, <1>2, <1>6, TakenIsKept DEF Writing
<1> QED
  BY <1>1, <1>7, RequestKeeps

\* A step of a writer: its own record, and the names it shares with the others.
LEMMA DiskKeeps ==
  ASSUME Inductive, NEW r \in Requests, NEW q, Set(r, q), Good(q, now, rows), Fine,
         UNCHANGED <<outside, cache, served>>,
         file' \in Texts, note' \in Texts \ {Cut}, tmp' \in [{"file", "note"} -> Texts \ {Cut}]
  PROVE  Inductive'
<1>1. Around'
  BY DEF Inductive, Around, Fine, outside
<1>2. UNCHANGED <<now, rows>> /\ CacheGood(cache, now, rows)'
  BY DEF Inductive, outside
<1>3. /\ request' = [s \in Requests |-> request'[s]]
      /\ \A s \in Requests : Good(request'[s], now', rows')
  BY <1>2, SetKeeps
<1> QED
  BY <1>1, <1>2, <1>3 DEF Inductive

LEMMA WriteTmpKeeps ==
  ASSUME Inductive, NEW r \in Requests, WriteTmp(r)
  PROVE  Inductive'
<1> DEFINE q == request[r]
<1>1. Good(q, now, rows) /\ q.text \in Texts \ {Cut}
  BY DEF Inductive, Good, Records
<1>2. file \in Texts /\ note \in Texts \ {Cut} /\ tmp \in [{"file", "note"} -> Texts \ {Cut}]
  BY DEF Inductive, Around
<1>3. \E next \in {"file", "note"} : Set(r, [q EXCEPT !.at = next]) /\ q.at \in Writing
  BY DEF WriteTmp, Writing
<1>4. PICK next \in {"file", "note"} : Set(r, [q EXCEPT !.at = next]) /\ q.at \in Writing
  BY <1>3
<1>5. Good([q EXCEPT !.at = next], now, rows)
  <2> HIDE DEF q
  <2> QED BY <1>1, <1>4, ComparerGoesOn
<1>6. tmp' \in [{"file", "note"} -> Texts \ {Cut}]
  BY <1>1, <1>2 DEF WriteTmp
<1>7. Fine /\ UNCHANGED <<outside, cache, served>> /\ file' \in Texts /\ note' \in Texts \ {Cut}
  BY <1>2 DEF WriteTmp
<1> HIDE DEF q
<1> QED
  BY <1>4, <1>5, <1>6, <1>7, DiskKeeps

LEMMA RenameTmpKeeps ==
  ASSUME Inductive, NEW r \in Requests, RenameTmp(r)
  PROVE  Inductive'
<1> DEFINE q == request[r]
<1>1. Good(q, now, rows)
  BY DEF Inductive
<1>2. file \in Texts /\ note \in Texts \ {Cut} /\ tmp \in [{"file", "note"} -> Texts \ {Cut}]
  BY DEF Inductive, Around
<1>3. PICK next \in {"note.tmp", "done"} : Set(r, [q EXCEPT !.at = next]) /\ q.at \in Writing
  BY DEF RenameTmp, Writing
<1>4. Good([q EXCEPT !.at = next], now, rows)
  <2> HIDE DEF q
  <2> QED BY <1>1, <1>3, ComparerGoesOn
<1>5. /\ tmp' \in [{"file", "note"} -> Texts \ {Cut}]
      /\ file' \in Texts /\ note' \in Texts \ {Cut}
  BY <1>2 DEF RenameTmp, Texts, NoText, Cut
<1>6. Fine /\ UNCHANGED <<outside, cache, served>>
  BY DEF RenameTmp
<1> HIDE DEF q
<1> QED
  BY <1>3, <1>4, <1>5, <1>6, DiskKeeps

LEMMA GiveUpKeeps ==
  ASSUME Inductive, NEW r \in Requests, GiveUpKeeping(r)
  PROVE  Inductive'
<1> DEFINE q == request[r]
<1>1. /\ q.at \in Writing /\ Set(r, [q EXCEPT !.at = "done"]) /\ (Fault \/ Fine)
      /\ UNCHANGED <<outside, cache, disk, served>>
  BY DEF GiveUpKeeping, Writing
<1>2. Good(q, now, rows)
  BY DEF Inductive
<1> HIDE DEF q
<1>3. Good([q EXCEPT !.at = "done"], now, rows)
  BY <1>1, <1>2, ComparerGoesOn
<1> QED
  BY <1>1, <1>3, RequestKeeps
-----------------------------------------------------------------------------
(* The invariant.                                                          *)

\* Time, the API and the disk: what was known stays true.
LEMMA OthersKeep ==
  ASSUME Inductive,
         Tick \/ NodeIsMade \/ ConfigIsReplaced \/ ConfigIsPulled \/ ConfigIsDamaged
  PROVE  Inductive'
<1>1. Around'
  BY ApiAssumption
  DEF Inductive, Around, Tick, NodeIsMade, ConfigIsReplaced, ConfigIsPulled, ConfigIsDamaged,
      Here, Fine, Fault, disk, outside, Texts, Cut
<1>2. now <= now' /\ rows <= rows' /\ UNCHANGED <<cache, request>>
  BY DEF Inductive, Around, Tick, NodeIsMade, ConfigIsReplaced, ConfigIsPulled, ConfigIsDamaged,
         Here, outside
<1>3. now \in Int /\ rows \in Int /\ now' \in Int /\ rows' \in Int
  BY <1>1 DEF Inductive, Around
<1>4. CacheGood(cache, now, rows)'
  BY <1>2, <1>3, CacheStays DEF Inductive
<1>5. \A r \in Requests : Good(request[r], now', rows')
  BY <1>2, <1>3, GoodStays DEF Inductive
<1> QED
  BY <1>1, <1>2, <1>4, <1>5 DEF Inductive

LEMMA InitInductive == Init => Inductive
<1> SUFFICES ASSUME Init PROVE Inductive
  OBVIOUS
<1>1. now = 0 /\ rows = Want /\ Want \in Nat /\ Want >= 1
  BY ApiAssumption DEF Init
<1>2. Around
  BY <1>1, ApiAssumption DEF Init, Around, Texts, NoText, Cut
<1>3. CacheGood(cache, now, rows)
  <2>1. DOMAIN cache = {}
    BY DEF Init
  <2>2. IsFiniteSet({}) /\ Cardinality({}) = 0
    BY FS_EmptySet
  <2> QED
    BY <2>1, <2>2, ApiAssumption DEF CacheGood
<1>4. \A r \in Requests : Good(request[r], now, rows)
  <2>1. Idle.at = "idle" /\ Idle.ttl = 0 /\ Idle.deadline = 0 /\ Idle.known = 0
    BY DEF Idle
  <2>2. Good(Idle, now, rows)
    BY <1>1, <2>1, IdleType, BlankIsGood, ApiAssumption
  <2> QED
    BY <2>2 DEF Init
<1> QED
  BY <1>2, <1>3, <1>4 DEF Inductive, Init

LEMMA NextInductive == Inductive /\ [Next]_vars => Inductive'
<1> SUFFICES ASSUME Inductive, [Next]_vars PROVE Inductive'
  OBVIOUS
<1>1. ASSUME NEW r \in Requests, Arrive(r) PROVE Inductive'
  BY <1>1, ArriveKeeps
<1>2. ASSUME NEW r \in Requests, Read(r) PROVE Inductive'
  BY <1>2, FromCacheKeeps, SendKeeps, AnswersKeeps, FailsKeeps, TooLateKeeps, StoreKeeps DEF Read
<1>3. ASSUME NEW r \in Requests, List(r) PROVE Inductive'
  BY <1>3, CountedKeeps, FirstPageKeeps, NextPageKeeps, ClaimedKeeps DEF List
<1>4. ASSUME NEW r \in Requests, Compare(r) PROVE Inductive'
  BY <1>4, KeptKeeps, PulledKeeps, FetchedKeeps, WriteTmpKeeps, RenameTmpKeeps, GiveUpKeeps DEF Compare
<1>5. ASSUME UNCHANGED vars PROVE Inductive'
  BY <1>5 DEF vars, outside, disk, Inductive, Around
<1> QED
  BY <1>1, <1>2, <1>3, <1>4, <1>5, OthersKeep DEF Next

\* The invariant the other theorems rest on.
THEOREM Invariance == Spec => []Inductive
<1>1. Init => Inductive
  BY InitInductive
<1>2. Inductive /\ [Next]_vars => Inductive'
  BY NextInductive
<1> QED
  BY <1>1, <1>2, PTL DEF Spec
-----------------------------------------------------------------------------
(* What the runs check, for any number of threads and any sizes.           *)

\* Every variable keeps its type, and the cache its limit.
THEOREM TypeCorrect == Spec => []TypeOK
<1>1. Inductive => TypeOK
  <2> SUFFICES ASSUME Inductive PROVE TypeOK
    OBVIOUS
  <2>1. now \in 0..MaxNow /\ rows \in 1..MaxRows
    BY ApiAssumption DEF Inductive, Around
  <2>2. Cardinality(DOMAIN cache) <= MaxCache
    BY DEF Inductive, CacheGood
  <2>3. \A k \in DOMAIN cache : cache[k].stored \in 0..now
    BY <2>1, CacheIsTyped
  <2>4. ASSUME NEW r \in Requests
        PROVE  /\ request[r].at \in Places /\ request[r].ttl \in Ttls \cup {0}
               /\ request[r].age \in -1..MaxTtl /\ Len(request[r].items) <= Want
    <3> DEFINE q == request[r]
    <3>1. q \in Records /\ Clocked(q, now, rows) /\ Listing(q) /\ Waiting(q, now, rows)
      BY DEF Inductive, Good
    <3> HIDE DEF q
    <3>2. q.at \in Places /\ q.ttl \in Ttls \cup {0} /\ q.age \in -1..MaxTtl
      BY <3>1, ApiAssumption DEF Clocked, Records
    <3>3. Len(q.items) <= Want
      <4>1. q.items = <<>> => Len(q.items) = 0
        OBVIOUS
      <4>2. Len(q.items) \in Nat /\ Want \in Nat
        BY <3>1, ApiAssumption DEF Records
      <4>3. CASE q.items = <<>>
        BY <4>1, <4>2, <4>3
      <4>4. CASE q.items # <<>>
        <5>1. Place(q) \in {"walk", "done"}
          BY <3>1, <4>4 DEF Listing
        <5>2. CASE Place(q) = "walk"
          BY <3>1, <4>2, <5>2 DEF Listing
        <5>3. CASE Place(q) = "done"
          <6>1. q.at = "done"
            BY <3>1, <5>3 DEF Place, Waiting, Askers
          <6> QED
            BY <3>1, <4>4, <6>1 DEF Listing
        <5> QED
          BY <5>1, <5>2, <5>3
      <4> QED
        BY <4>3, <4>4
    <3> QED
      BY <3>2, <3>3 DEF q
  <2> QED
    BY <2>1, <2>2, <2>3, <2>4 DEF TypeOK, Inductive, Around, Places, Askers
<1> QED
  BY <1>1, Invariance, PTL

\* A list ends with the API's newest rows: consecutive ones, up to the length the list
\* had in an answer it is made of, however it grew meanwhile and whether its pages came
\* short or out of the cache.
THEOREM ListsEndAtTheTail == Spec => []AnswerIsTheTail
<1>1. Inductive => AnswerIsTheTail
  <2> SUFFICES ASSUME Inductive, NEW r \in Requests,
                      request[r].at = "done", request[r].items # <<>>
               PROVE  /\ \A i \in 1..(Len(request[r].items) - 1) :
                            request[r].items[i + 1] = request[r].items[i] + 1
                      /\ \E k \in DOMAIN request[r].memo :
                            Last(request[r].items) >= request[r].memo[k].total
    BY DEF AnswerIsTheTail
  <2> DEFINE q == request[r]
             l == Len(q.items)
  <2>1. q \in Records /\ Listing(q) /\ Knowing(q, now, rows)
    BY DEF Inductive, Good
  <2>2. q.items \in Seq(Nat) /\ l \in Nat /\ l >= 1 /\ q.start \in Nat
    <3>1. q.items \in Seq(Nat) /\ q.start \in Nat
      BY <2>1 DEF Records
    <3> QED BY <3>1
  <2>3. q.items = RowsAfter(q.start, l)
    BY <2>1 DEF Listing
  <2> HIDE DEF l
  <2>4. \A i \in 1..l : q.items[i] = q.start + i
    <3>1. \A s \in Nat, m \in Nat : \A i \in 1..m : RowsAfter(s, m)[i] = s + i
      BY RowsAfterType
    <3>2. \A i \in 1..l : RowsAfter(q.start, l)[i] = q.start + i
      <4> HIDE DEF q
      <4> QED BY <2>2, <3>1
    <3> HIDE DEF q
    <3> QED BY <2>3, <3>2
  <2>5. ASSUME NEW i \in 1..(l - 1) PROVE q.items[i + 1] = q.items[i] + 1
    <3> HIDE DEF q
    <3>1. i \in 1..l /\ i + 1 \in 1..l /\ i \in Int
      BY <2>2
    <3>2. q.items[i] = q.start + i /\ q.items[i + 1] = q.start + (i + 1)
      BY <2>4, <3>1
    <3> QED
      BY <2>2, <3>1, <3>2
  <2>6. Last(q.items) = q.start + l
    BY <2>2, <2>4 DEF Last, l
  <2>7. \E k \in DOMAIN q.memo : q.memo[k].total <= q.start + l
    BY <2>1 DEF Listing, l
  <2>8. \A k \in DOMAIN q.memo : q.memo[k].total \in Nat
    BY <2>1 DEF Knowing, Truthful, Replies
  <2>9. \E k \in DOMAIN q.memo : Last(q.items) >= q.memo[k].total
    BY <2>2, <2>6, <2>7, <2>8
  <2> QED
    BY <2>5, <2>9 DEF l
<1> QED
  BY <1>1, Invariance, PTL

\* What was cached is used no longer than it was asked to be, what a request cached was
\* written within its budget, and a page that used an answer it did not ask for tells an
\* age, no less than by which the answer was stored before the page was asked for.
THEOREM AgesAreKeptAndTold == Spec => []AgesAreKept
<1>1. Inductive => AgesAreKept
  BY DEF Inductive, Good, Knowing, Timely, AgesAreKept, NothingOlderThanAsked, AgeIsTold
<1> QED
  BY <1>1, Invariance, PTL

\* Where the text of a request that asked for nothing kept comes from.
Sourced(q, p) ==
    q.ttl = 0 => \/ q.text \in {NoText, p}
                 \/ Config \in DOMAIN q.memo /\ q.text = q.memo[Config].total

FreshIsFresh == \A r \in Requests : Sourced(request[r], pulled)

\* A step of a read keeps the text, and what was known.
LEMMA ReadSourced ==
  ASSUME Inductive, NEW r \in Requests, Sourced(request[r], pulled), Read(r)
  PROVE  Sourced(request'[r], pulled)
<1> DEFINE q == request[r]
<1>1. /\ q \in Records /\ Waiting(q, now, rows) /\ Knowing(q, now, rows)
      /\ request = [s \in Requests |-> request[s]]
  BY DEF Inductive, Good
<1>2. \A x : Set(r, x) => request'[r] = x
  BY <1>1 DEF Set
<1>3. ASSUME NEW x, Set(r, x), x.ttl = q.ttl, x.text = q.text, x.memo = q.memo
      PROVE  Sourced(request'[r], pulled)
  BY <1>2, <1>3 DEF Sourced
<1>4. ASSUME NEW x \in Records, NEW key \in Keys, NEW a \in Replies, key \notin DOMAIN q.memo,
             Set(r, Learn(x, key, a)), x.ttl = q.ttl, x.text = q.text, x.memo = q.memo
      PROVE  Sourced(request'[r], pulled)
  <2>1. /\ Learn(x, key, a) = [x EXCEPT !.memo = Learn(x, key, a).memo]
        /\ DOMAIN Learn(x, key, a).memo = DOMAIN x.memo \cup {key}
        /\ \A k \in DOMAIN x.memo : k # key => Learn(x, key, a).memo[k] = x.memo[k]
    BY <1>4, LearnIs
  <2> DEFINE y == Learn(x, key, a)
  <2>2. request'[r] = y
    BY <1>2, <1>4
  <2> HIDE DEF y
  <2>3. y.ttl = q.ttl /\ y.text = q.text
    BY <1>4, <2>1 DEF y, Records
  <2>4. Config \in DOMAIN q.memo => Config \in DOMAIN y.memo /\ y.memo[Config] = q.memo[Config]
    BY <1>4, <2>1 DEF y
  <2> QED
    BY <2>2, <2>3, <2>4 DEF Sourced
<1>5. ASSUME NEW x \in Records, Set(r, Failed(x)), x.ttl = q.ttl, x.text = q.text, x.memo = q.memo
      PROVE  Sourced(request'[r], pulled)
  <2>1. CASE x.back = "count"
    <3>1. Set(r, [x EXCEPT !.got = NoAnswer, !.at = "first"])
      BY <1>5, <2>1 DEF Failed
    <3> QED
      BY <1>3, <1>5, <3>1 DEF Records
  <2>2. CASE x.back # "count"
    <3>1. request'[r] = [Idle EXCEPT !.at = "error"]
      BY <1>2, <1>5, <2>2 DEF Failed
    <3> QED
      BY <3>1 DEF Sourced, Idle
  <2> QED
    BY <2>1, <2>2
<1>6. ASSUME FromCache(r) PROVE Sourced(request'[r], pulled)
  <2> DEFINE found == cache[Key(q)]
             x == [q EXCEPT !.age = Max({@, now - found.stored})]
  <2>1. /\ Set(r, Learn(x, Key(q), found)) /\ Key(q) \notin DOMAIN q.memo /\ q.at \in Askers
        /\ Key(q) \in DOMAIN cache
    BY <1>6 DEF FromCache, Asking, Answered, Askers, Young
  <2>2. found \in Replies /\ found.stored \in Nat /\ now \in Nat /\ q.age \in Int
    BY <1>1, <2>1, CacheIsTyped DEF Inductive, Around, Records
  <2>3. Max({q.age, now - found.stored}) \in Int
    <3>1. now - found.stored \in Int
      BY <2>2
    <3> HIDE DEF found
    <3> QED BY <2>2, <3>1, MaxOfTwo
  <2>4. x \in Records /\ x.ttl = q.ttl /\ x.text = q.text /\ x.memo = q.memo
    <3> HIDE DEF found
    <3> QED BY <1>1, <2>3 DEF Records
  <2>5. Key(q) \in Keys
    BY <1>1, <2>1, KeyType
  <2> HIDE DEF x, found
  <2> QED
    BY <1>4, <2>1, <2>2, <2>4, <2>5
<1>7. ASSUME Send(r) PROVE Sourced(request'[r], pulled)
  BY <1>1, <1>3, <1>7 DEF Send, Records
<1>8. ASSUME Answers(r) PROVE Sourced(request'[r], pulled)
  <2>1. PICK got : Set(r, [q EXCEPT !.at = "read", !.got = got])
    BY <1>8 DEF Answers
  <2> QED
    BY <1>1, <1>3, <2>1 DEF Records
<1>9. ASSUME Fails(r) \/ TooLate(r) PROVE Sourced(request'[r], pulled)
  <2>1. \/ Set(r, Failed(q))
        \/ q.at \in Askers /\ Set(r, Failed([q EXCEPT !.back = q.at]))
    BY <1>9 DEF Fails, TooLate, Asking, Askers
  <2>2. q.at \in Askers => [q EXCEPT !.back = q.at] \in Records
    BY <1>1 DEF Records
  <2> QED
    BY <1>1, <1>5, <2>1, <2>2 DEF Records
<1>10. ASSUME Store(r) PROVE Sourced(request'[r], pulled)
  <2> DEFINE x == [q EXCEPT !.at = q.back, !.got = NoAnswer]
             a == [q.got EXCEPT !.stored = now]
  <2>1. Set(r, Learn(x, Key(x), a)) /\ q.at = "read"
    BY <1>10 DEF Store
  <2>2. q.back \in Askers /\ Asked(q) \notin DOMAIN q.memo /\ q.got \in Replies /\ now \in Nat
    <3>1. now \in Nat
      BY DEF Inductive, Around
    <3>2. q.got \in Replies
      BY <1>1 DEF Records
    <3> HIDE DEF q
    <3> QED
      BY <1>1, <2>1, <3>1, <3>2 DEF Waiting
  <2>3. NoAnswer \in Replies /\ a \in Replies
    <3>1. \A g \in Replies, t \in Nat : [g EXCEPT !.stored = t] \in Replies
      BY DEF Replies
    <3>2. NoAnswer \in Replies
      BY DEF NoAnswer, Replies
    <3> QED BY <2>2, <3>1, <3>2
  <2>4. /\ x \in Records /\ x.ttl = q.ttl /\ x.text = q.text /\ x.memo = q.memo
        /\ x.at = q.back /\ x.start = q.start /\ x.items = q.items
    BY <1>1, <2>2, <2>3 DEF Records, Places
  <2> HIDE DEF x, a
  <2>5. Key(x) \in Keys
    BY <2>2, <2>4, KeyType
  <2>6. Key(x) = Asked(q)
    <3>1. /\ [q EXCEPT !.at = q.back].at = x.at /\ [q EXCEPT !.at = q.back].start = x.start
          /\ [q EXCEPT !.at = q.back].items = x.items
      BY <1>1, <2>4 DEF Records
    <3> QED BY <3>1, SameKey DEF Asked
  <2> QED
    BY <1>4, <2>1, <2>2, <2>3, <2>4, <2>5, <2>6
<1> QED
  BY <1>6, <1>7, <1>8, <1>9, <1>10 DEF Read

LEMMA ListSourced ==
  ASSUME Inductive, NEW r \in Requests, Sourced(request[r], pulled), List(r)
  PROVE  Sourced(request'[r], pulled)
<1> DEFINE q == request[r]
<1>1. q \in Records /\ request = [s \in Requests |-> request[s]]
  BY DEF Inductive, Good
<1>2. \A x : Set(r, x) => request'[r] = x
  BY <1>1 DEF Set
<1>3. ASSUME NEW x, Set(r, x), x.ttl = q.ttl, x.text = q.text, x.memo = q.memo
      PROVE  Sourced(request'[r], pulled)
  BY <1>2, <1>3 DEF Sourced
<1>4. ASSUME Counted(r) PROVE Sourced(request'[r], pulled)
  <2>1. Set(r, [q EXCEPT !.at = "walk", !.start = Max({0, Answer(r).total - Want})])
    BY <1>4 DEF Counted
  <2> QED
    BY <1>1, <1>3, <2>1 DEF Records
<1>5. ASSUME FirstPage(r) PROVE Sourced(request'[r], pulled)
  <2> DEFINE a == Answer(r)
             all == a.total <= Want
             items == IF all THEN a.items ELSE <<>>
             start == IF all THEN 0 ELSE a.total - Want
             at == IF all /\ Len(a.items) >= a.total THEN "done" ELSE "walk"
  <2>1. Set(r, [q EXCEPT !.items = items, !.start = start, !.at = at])
    BY <1>5 DEF FirstPage
  <2> HIDE DEF items, start, at
  <2> QED
    BY <1>1, <1>3, <2>1 DEF Records
<1>6. ASSUME NextPage(r) PROVE Sourced(request'[r], pulled)
  <2> DEFINE all == q.items \o Answer(r).items
             over == \/ Len(all) >= Want
                     \/ Answer(r).items = <<>>
                     \/ q.start + Len(all) >= Answer(r).total
             items == SubSeq(all, 1, Min({Want, Len(all)}))
             at == IF over THEN "done" ELSE "walk"
  <2>1. Set(r, [q EXCEPT !.items = items, !.at = at])
    BY <1>6 DEF NextPage
  <2> HIDE DEF items, at
  <2> QED
    BY <1>1, <1>3, <2>1 DEF Records
<1>7. ASSUME Claimed(r) PROVE Sourced(request'[r], pulled)
  BY <1>1, <1>3, <1>7 DEF Claimed, Records
<1> QED
  BY <1>4, <1>5, <1>6, <1>7 DEF List

LEMMA CompareSourced ==
  ASSUME Inductive, NEW r \in Requests, Sourced(request[r], pulled), Compare(r)
  PROVE  Sourced(request'[r], pulled)
<1> DEFINE q == request[r]
<1>1. q \in Records /\ request = [s \in Requests |-> request[s]]
  BY DEF Inductive, Good
<1>2. \A x : Set(r, x) => request'[r] = x
  BY <1>1 DEF Set
<1>3. ASSUME NEW at, Set(r, [q EXCEPT !.at = at]) PROVE Sourced(request'[r], pulled)
  BY <1>1, <1>2, <1>3 DEF Sourced, Records
<1>4. ASSUME Kept(r) PROVE Sourced(request'[r], pulled)
  <2>1. \/ Set(r, [q EXCEPT !.at = "pulled"])
        \/ q.ttl > 0 /\ Set(r, [q EXCEPT !.at = "done", !.text = file])
        \/ Set(r, [Idle EXCEPT !.at = "error"])
    BY <1>4 DEF Kept
  <2>2. ASSUME q.ttl > 0, Set(r, [q EXCEPT !.at = "done", !.text = file])
        PROVE  Sourced(request'[r], pulled)
    <3>1. request'[r].ttl = q.ttl /\ q.ttl \in Nat
      BY <1>1, <1>2, <2>2 DEF Records
    <3> HIDE DEF q
    <3>2. request'[r].ttl # 0
      BY <2>2, <3>1
    <3> QED BY <3>2 DEF Sourced
  <2>3. ASSUME Set(r, [Idle EXCEPT !.at = "error"]) PROVE Sourced(request'[r], pulled)
    BY <1>2, <2>3 DEF Sourced, Idle
  <2> QED
    BY <1>3, <2>1, <2>2, <2>3
<1>5. ASSUME Pulled(r) PROVE Sourced(request'[r], pulled)
  <2>1. Set(r, [q EXCEPT !.at = "fetch"]) \/ Set(r, KeepConfig(q, pulled))
    BY <1>5 DEF Pulled
  <2>2. KeepConfig(q, pulled).text = pulled
    BY <1>1 DEF KeepConfig, Records
  <2> QED
    BY <1>2, <1>3, <2>1, <2>2 DEF Sourced
<1>6. ASSUME Fetched(r) PROVE Sourced(request'[r], pulled)
  <2>1. /\ Set(r, KeepConfig(q, q.memo[Config].total)) /\ Config \in DOMAIN q.memo
    BY <1>6 DEF Fetched, Answered, Answer, Key
  <2>2. /\ KeepConfig(q, q.memo[Config].total).text = q.memo[Config].total
        /\ KeepConfig(q, q.memo[Config].total).memo = q.memo
    BY <1>1 DEF KeepConfig, Records
  <2> QED
    BY <1>2, <2>1, <2>2 DEF Sourced
<1>7. ASSUME WriteTmp(r) \/ RenameTmp(r) \/ GiveUpKeeping(r) PROVE Sourced(request'[r], pulled)
  <2>1. \E at : Set(r, [q EXCEPT !.at = at])
    BY <1>7 DEF WriteTmp, RenameTmp, GiveUpKeeping
  <2> QED
    BY <1>3, <2>1
<1> QED
  BY <1>4, <1>5, <1>6, <1>7 DEF Compare

LEMMA FreshStaysFresh == Inductive /\ FreshIsFresh /\ [Next]_vars => FreshIsFresh'
<1> SUFFICES ASSUME Inductive, FreshIsFresh, [Next]_vars PROVE FreshIsFresh'
  OBVIOUS
<1>1. request = [s \in Requests |-> request[s]]
  BY DEF Inductive
<1>2. ASSUME NEW r \in Requests, Arrive(r) \/ Read(r) \/ List(r) \/ Compare(r)
      PROVE  FreshIsFresh'
  <2>1. (\E x : Set(r, x)) /\ pulled' = pulled
    <3>1. ASSUME Arrive(r) PROVE (\E x : Set(r, x)) /\ pulled' = pulled
      BY <3>1 DEF Arrive, Begin, BeginUnscoped, outside
    <3>2. ASSUME Read(r) PROVE (\E x : Set(r, x)) /\ pulled' = pulled
      BY <3>2 DEF Read, FromCache, Send, Answers, Fails, TooLate, Store, outside
    <3>3. ASSUME List(r) PROVE (\E x : Set(r, x)) /\ pulled' = pulled
      BY <3>3 DEF List, Counted, FirstPage, NextPage, Claimed, outside
    <3>4. ASSUME Compare(r) PROVE (\E x : Set(r, x)) /\ pulled' = pulled
      BY <3>4 DEF Compare, Kept, Pulled, Fetched, WriteTmp, RenameTmp, GiveUpKeeping, outside
    <3> QED
      BY <1>2, <3>1, <3>2, <3>3, <3>4
  <2>2. \A s \in Requests : s # r => request'[s] = request[s]
    BY <1>1, <2>1 DEF Set
  <2>3. Sourced(request'[r], pulled)
    <3>1. ASSUME Arrive(r) PROVE request'[r].text = NoText
      BY <1>1, <3>1 DEF Arrive, Begin, BeginUnscoped, Set, Idle
    <3> QED
      BY <1>2, <3>1, ReadSourced, ListSourced, CompareSourced DEF FreshIsFresh, Sourced
  <2> QED
    BY <2>1, <2>2, <2>3 DEF FreshIsFresh
<1>3. ASSUME Tick \/ NodeIsMade \/ ConfigIsReplaced \/ ConfigIsPulled \/ ConfigIsDamaged
      PROVE  FreshIsFresh'
  <2>1. request' = request /\ (pulled' = pulled \/ pulled = NoText)
    BY <1>3 DEF Tick, NodeIsMade, ConfigIsReplaced, ConfigIsPulled, ConfigIsDamaged, Here, outside
  <2> QED
    BY <2>1 DEF FreshIsFresh, Sourced
<1>4. ASSUME UNCHANGED vars PROVE FreshIsFresh'
  BY <1>4 DEF vars, outside, FreshIsFresh
<1> QED
  BY <1>2, <1>3, <1>4 DEF Next

\* No comparison is made of a text that was damaged after it was kept; and one that asked
\* for nothing kept is made of what the pull left or the URL answered.
THEOREM ComparesWhatIsSound == Spec => []ComparedIsSound
<1>1. Init => FreshIsFresh
  BY DEF Init, FreshIsFresh, Sourced, Idle
<1>2. Inductive /\ FreshIsFresh /\ [Next]_vars => FreshIsFresh'
  BY FreshStaysFresh
<1>3. Inductive /\ FreshIsFresh => ComparedIsSound
  BY DEF Inductive, Good, FreshIsFresh, Sourced, ComparedIsSound
<1> QED
  BY <1>1, <1>2, <1>3, Invariance, PTL DEF Spec
-----------------------------------------------------------------------------
(* What is made of the nodes.                                              *)

\* What a node is, a list of nodes with ids of their own, and a list of builds, newest first.
IsNode(node) ==
    /\ node.id \in Nat \ {0} /\ node.created \in Nat
    /\ \A k \in DOMAIN node.artifacts : node.artifacts[k] \in Nat
IsList(l) ==
    /\ l \in Seq(ToSet(l)) /\ \A node \in ToSet(l) : IsNode(node)
    /\ \A i, j \in DOMAIN l : l[i].id = l[j].id => i = j
Descends(t) == \A i, j \in DOMAIN t : i < j => ~Newer(t[j], t[i])

\* A read holds the rows that had been made.
LEMMA PartIs ==
  ASSUME NEW list \in Listings, NEW m \in Nat, m <= MaxRows
  PROVE  /\ IsList(SubSeq(list, 1, m)) /\ Len(SubSeq(list, 1, m)) = m
         /\ \A i \in 1..m : SubSeq(list, 1, m)[i] = list[i]
         /\ ToSet(SubSeq(list, 1, m)) = {list[i] : i \in 1..m}
         /\ IsList(list) /\ DOMAIN list = 1..MaxRows /\ MaxRows \in Nat
<1> DEFINE l == SubSeq(list, 1, m)
<1>1. /\ list \in Seq(ToSet(list)) /\ Len(list) = MaxRows /\ MaxRows \in Nat /\ IsList(list)
      /\ DOMAIN list = 1..MaxRows
  BY DiscoveryAssumption, ApiAssumption, LenProperties DEF IsList, IsNode
<1>2. l \in Seq(ToSet(list)) /\ Len(l) = m /\ \A i \in 1..m : l[i] = list[i]
  BY <1>1, SubSeqProperties
<1> HIDE DEF l
<1>3. DOMAIN l = 1..m
  BY <1>2, LenProperties
<1>4. ToSet(l) = {list[i] : i \in 1..m}
  BY <1>2, <1>3 DEF ToSet
<1>5. l = [i \in 1..m |-> l[i]] /\ \A i \in 1..m : l[i] \in ToSet(l)
  BY <1>2, <1>3 DEF ToSet
<1>6. l \in Seq(ToSet(l))
  BY <1>5, MadeSeq
<1>7. \A i \in 1..m : i \in DOMAIN list /\ list[i] \in ToSet(list)
  BY <1>1 DEF ToSet
<1>8. IsList(l)
  BY <1>1, <1>2, <1>3, <1>4, <1>6, <1>7 DEF IsList
<1> QED
  BY <1>1, <1>2, <1>4, <1>8 DEF l

\* A build goes by a number that is not NoId, and is as old as its node.
LEMMA BuildIs ==
  ASSUME NEW node, IsNode(node)
  PROVE  /\ BuildIdOf(node.artifacts) \in Nat /\ FromNode(node).build \in Nat \ {0}
         /\ FromNode(node).created = node.created /\ node.created \in Nat
         /\ FromNode(node).node = node.id /\ FromNode(node) # NoBuild
<1> DEFINE named == {i \in DOMAIN ArtifactKeys : /\ ArtifactKeys[i] \in DOMAIN node.artifacts
                                               /\ node.artifacts[ArtifactKeys[i]] # NoId}
<1>1. DOMAIN ArtifactKeys \subseteq Nat
  BY DiscoveryAssumption, LenProperties
<1>2. CASE named = {}
  <2>1. BuildIdOf(node.artifacts) = 0
    BY <1>2 DEF BuildIdOf, NoId
  <2> QED BY <2>1 DEF FromNode, IsNode, NoId, NoBuild
<1>3. CASE named # {}
  <2>1. Min(named) \in named
    BY <1>1, <1>3, MinOf
  <2>2. BuildIdOf(node.artifacts) = node.artifacts[ArtifactKeys[Min(named)]]
    BY <1>3 DEF BuildIdOf
  <2>3. BuildIdOf(node.artifacts) \in Nat
    BY <2>1, <2>2 DEF IsNode
  <2> QED BY <2>3 DEF FromNode, IsNode, NoId, NoBuild
<1> QED
  BY <1>2, <1>3

\* Newest first is an order of the places of a list of builds.
Firsts(t) == {p \in (DOMAIN t) \X (DOMAIN t) :
                Newer(t[p[1]], t[p[2]]) \/ (p[1] < p[2] /\ ~Newer(t[p[2]], t[p[1]]))}

LEMMA NewestFirst ==
  ASSUME NEW t, DOMAIN t \subseteq Nat, \A i \in DOMAIN t : t[i].created \in Nat /\ t[i].build \in Nat
  PROVE  /\ IsOrder(Firsts(t), DOMAIN t)
         /\ \A i, j \in DOMAIN t : <<i, j>> \in Firsts(t) => ~Newer(t[j], t[i])
<1>1. ASSUME NEW i \in DOMAIN t, NEW j \in DOMAIN t
      PROVE  <<i, j>> \in Firsts(t) <=> \/ Newer(t[i], t[j])
                                        \/ i < j /\ ~Newer(t[j], t[i])
  BY DEF Firsts
<1>2. \A i \in DOMAIN t : <<i, i>> \notin Firsts(t)
  BY <1>1 DEF Newer
<1>3. \A i, j \in DOMAIN t : i # j => (<<i, j>> \in Firsts(t) <=> <<j, i>> \notin Firsts(t))
  BY <1>1 DEF Newer
<1>4. \A i, j, k \in DOMAIN t :
        <<i, j>> \in Firsts(t) /\ <<j, k>> \in Firsts(t) => <<i, k>> \in Firsts(t)
  BY <1>1 DEF Newer
<1> QED
  BY <1>1, <1>2, <1>3, <1>4 DEF Newer, IsOrder

\* A sorted list holds the builds it held, the newest first.
LEMMA SortedIs ==
  ASSUME NEW S, NEW t \in Seq(S), \A b \in S : b.created \in Nat /\ b.build \in Nat
  PROVE  /\ SortedBy(t, Newer) \in Seq(S) /\ ToSet(SortedBy(t, Newer)) = ToSet(t)
         /\ Descends(SortedBy(t, Newer))
<1> DEFINE u == Arranged(t, Firsts(t))
<1>1. SortedBy(t, Newer) = u
  BY DEF SortedBy, Firsts
<1>2. DOMAIN t \subseteq Nat /\ \A i \in DOMAIN t : t[i] \in S
  BY LenProperties
<1>3. /\ IsOrder(Firsts(t), DOMAIN t)
      /\ \A i, j \in DOMAIN t : <<i, j>> \in Firsts(t) => ~Newer(t[j], t[i])
  BY <1>2, NewestFirst
<1>4. u \in Seq(S) /\ ToSet(u) = ToSet(t)
  BY <1>3, ArrangedHold
<1>5. \E e : Sorts(e, u, t, Firsts(t))
  BY <1>3, ArrangedAre
<1> HIDE DEF u
<1>6. PICK e : Sorts(e, u, t, Firsts(t))
  BY <1>5
<1> DEFINE n == Len(t)
<1>7. /\ DOMAIN u = 1..n /\ DOMAIN t = 1..n
      /\ \A k \in 1..n : e[k] \in 1..n /\ u[k] = t[e[k]]
      /\ \A k, l \in 1..n : k < l => <<e[k], e[l]>> \in Firsts(t)
  BY <1>6 DEF Sorts
<1> HIDE DEF n
<1>8. ASSUME NEW k \in 1..n, NEW l \in 1..n, k < l PROVE ~Newer(u[l], u[k])
  BY <1>3, <1>7, <1>8
<1>9. Descends(u)
  BY <1>7, <1>8 DEF Descends
<1> QED
  BY <1>1, <1>4, <1>9

\* What is left of a list that descends does.
LEMMA PartDescends ==
  ASSUME NEW S, NEW t \in Seq(S), NEW at, at \subseteq DOMAIN t, Descends(t)
  PROVE  Descends(Those(t, at))
<1> DEFINE u == Those(t, at)
<1>1. \E e : Selects(e, u, t, at)
  BY ThoseAre
<1> HIDE DEF u
<1>2. PICK e : Selects(e, u, t, at)
  BY <1>1
<1>3. Descends(u)
  BY <1>2 DEF Selects, Descends
<1> QED
  BY <1>3 DEF u

\* The end of a list.
LEMMA TailIs ==
  ASSUME NEW S, NEW t \in Seq(S), NEW k \in Nat
  PROVE  LET tail == SubSeq(t, Max({1, Len(t) - k + 1}), Len(t))
         IN  tail \in Seq(S) /\ ToSet(tail) \subseteq ToSet(t) /\ (k >= Len(t) => tail = t)
<1> DEFINE n == Len(t)
           m == Max({1, n - k + 1})
           tail == SubSeq(t, m, n)
<1>1. n \in Nat /\ DOMAIN t = 1..n
  BY LenProperties
<1>2. m \in Nat /\ m >= 1 /\ (k >= n => m = 1)
  <2> HIDE DEF n
  <2>1. m = IF 1 >= n - k + 1 THEN 1 ELSE n - k + 1
    BY <1>1, MaxOfTwo
  <2> QED BY <1>1, <2>1
<1> HIDE DEF m
<1>3. /\ tail \in Seq(S)
      /\ Len(tail) = IF m <= n THEN n - m + 1 ELSE 0
      /\ \A i \in 1..(n - m + 1) : tail[i] = t[m + i - 1]
  BY <1>1, <1>2, SubSeqProperties
<1>4. ToSet(tail) \subseteq ToSet(t)
  <2> SUFFICES ASSUME NEW i \in DOMAIN tail PROVE tail[i] \in ToSet(t)
    BY DEF ToSet
  <2>1. i \in 1..(n - m + 1)
    BY <1>1, <1>2, <1>3, LenProperties
  <2>2. m + i - 1 \in DOMAIN t /\ tail[i] = t[m + i - 1]
    BY <1>1, <1>2, <1>3, <2>1
  <2> QED BY <2>2 DEF ToSet
<1>5. ASSUME k >= n PROVE tail = t
  <2>1. m = 1
    BY <1>2, <1>5
  <2>2. Len(tail) = n /\ \A i \in 1..n : tail[i] = t[i]
    BY <1>1, <1>3, <2>1
  <2> QED BY <1>3, <2>2, SeqEqual
<1> QED
  BY <1>3, <1>4, <1>5 DEF m

\* What a read of a list may find.
Found(l, ask, days) ==
    {FromNode(node) : node \in {n \in ToSet(l) : Matches(n, ask, days) /\ IsBuild(n)}}

\* `_fetch`: builds of what matches, the newest first, and of all of it if there is no limit.
LEMMA FetchIs ==
  ASSUME NEW l, IsList(l), NEW ask, NEW days, NEW limit \in Nat
  PROVE  LET t == Fetch(l, ask, days, limit)
         IN  /\ t \in Seq({FromNode(node) : node \in ToSet(l)}) /\ Descends(t)
             /\ ToSet(t) \subseteq Found(l, ask, days)
             /\ limit >= Len(l) => ToSet(t) = Found(l, ask, days)
<1> DEFINE N == ToSet(l)
           B == {FromNode(node) : node \in N}
           at == {i \in DOMAIN l : Matches(l[i], ask, days)}
           matching == Those(l, at)
           tail == SubSeq(matching, Max({1, Len(matching) - limit + 1}), Len(matching))
           those == {i \in DOMAIN tail : IsBuild(tail[i])}
           builds == Those(tail, those)
           made == [i \in DOMAIN builds |-> FromNode(builds[i])]
           t == SortedBy(made, Newer)
<1>1. Fetch(l, ask, days, limit) = t
  BY DEF Fetch, Such
<1>2. l \in Seq(N)
  BY DEF IsList
<1> HIDE DEF N
<1>3. matching \in Seq(N) /\ ToSet(matching) = {n \in N : Matches(n, ask, days)} /\ Len(matching) <= Len(l)
  <2>1. at \subseteq DOMAIN l
    OBVIOUS
  <2>2. matching \in Seq(N) /\ ToSet(matching) = {l[i] : i \in at}
    <3> HIDE DEF at
    <3> QED BY <1>2, <2>1, ThoseHold
  <2>3. {l[i] : i \in at} = {n \in N : Matches(n, ask, days)}
    BY DEF ToSet, N
  <2>4. Len(matching) <= Len(l)
    <3>1. \E e : Selects(e, matching, l, at)
      <4> HIDE DEF at
      <4> QED BY <1>2, <2>1, ThoseAre
    <3>2. Len(matching) = Cardinality(at)
      BY <3>1 DEF Selects
    <3>3. IsFiniteSet(DOMAIN l) /\ Cardinality(DOMAIN l) = Len(l)
      BY <1>2, LenProperties, FS_Interval
    <3> HIDE DEF at, matching
    <3>4. Cardinality(at) <= Len(l)
      BY <2>1, <3>3, FS_Subset
    <3> QED BY <3>2, <3>4
  <2> QED BY <2>2, <2>3, <2>4
<1> HIDE DEF matching
<1>4. tail \in Seq(N) /\ ToSet(tail) \subseteq ToSet(matching) /\ (limit >= Len(l) => tail = matching)
  <2>1. Len(l) \in Nat /\ Len(matching) \in Nat
    BY <1>2, <1>3, LenProperties
  <2>2. /\ tail \in Seq(N) /\ ToSet(tail) \subseteq ToSet(matching)
        /\ limit >= Len(matching) => tail = matching
    BY <1>3, TailIs
  <2> HIDE DEF tail
  <2> QED BY <1>3, <2>1, <2>2
<1> HIDE DEF tail
<1>5. builds \in Seq(N) /\ ToSet(builds) = {n \in ToSet(tail) : IsBuild(n)}
  <2>1. those \subseteq DOMAIN tail
    OBVIOUS
  <2>2. builds \in Seq(N) /\ ToSet(builds) = {tail[i] : i \in those}
    <3> HIDE DEF those
    <3> QED BY <1>4, <2>1, ThoseHold
  <2>3. {tail[i] : i \in those} = {n \in ToSet(tail) : IsBuild(n)}
    BY DEF ToSet
  <2> QED BY <2>2, <2>3
<1> HIDE DEF builds
<1>6. made \in Seq(B) /\ ToSet(made) = {FromNode(n) : n \in ToSet(builds)}
  <2>1. DOMAIN builds = 1..Len(builds) /\ Len(builds) \in Nat /\ \A i \in DOMAIN builds : builds[i] \in N
    BY <1>5, LenProperties
  <2>2. made = [i \in 1..Len(builds) |-> made[i]] /\ DOMAIN made = 1..Len(builds)
    BY <2>1
  <2>3. \A i \in 1..Len(builds) : made[i] = FromNode(builds[i]) /\ made[i] \in B
    BY <2>1
  <2> HIDE DEF made, B
  <2>4. made \in Seq(B)
    BY <2>1, <2>2, <2>3, MadeSeq
  <2>5. ToSet(made) = {FromNode(n) : n \in ToSet(builds)}
    BY <2>1, <2>2, <2>3 DEF ToSet
  <2> QED BY <2>4, <2>5
<1>7. ASSUME NEW b \in B PROVE b.created \in Nat /\ b.build \in Nat
  BY BuildIs DEF IsList, N
<1> HIDE DEF made, B
<1>8. t \in Seq(B) /\ ToSet(t) = ToSet(made) /\ Descends(t)
  BY <1>6, <1>7, SortedIs
<1> HIDE DEF t
<1>9. ToSet(t) \subseteq Found(l, ask, days)
  BY <1>3, <1>4, <1>5, <1>6, <1>8 DEF Found, N
<1>10. ASSUME limit >= Len(l) PROVE ToSet(t) = Found(l, ask, days)
  <2>1. tail = matching
    BY <1>4, <1>10
  <2> QED BY <1>3, <1>5, <1>6, <1>8, <2>1 DEF Found, N
<1> QED
  BY <1>1, <1>8, <1>9, <1>10 DEF B, N

\* `getdays`: the usable ones of them.
LEMMA GetDaysIs ==
  ASSUME NEW l, IsList(l), NEW ask, NEW days, NEW limit \in Nat
  PROVE  LET t == GetDays(l, ask, days, limit)
         IN  /\ t \in Seq({FromNode(node) : node \in ToSet(l)}) /\ Descends(t)
             /\ ToSet(t) \subseteq {b \in Found(l, ask, days) : Usable(b)}
             /\ limit >= Len(l) => ToSet(t) = {b \in Found(l, ask, days) : Usable(b)}
<1> DEFINE B == {FromNode(node) : node \in ToSet(l)}
           f == Fetch(l, ask, days, limit)
           at == {i \in DOMAIN f : Usable(f[i])}
           t == Those(f, at)
<1>1. GetDays(l, ask, days, limit) = t
  BY DEF GetDays, Such
<1>2. /\ f \in Seq(B) /\ Descends(f) /\ ToSet(f) \subseteq Found(l, ask, days)
      /\ limit >= Len(l) => ToSet(f) = Found(l, ask, days)
  BY FetchIs
<1> HIDE DEF B, f
<1>3. at \subseteq DOMAIN f
  OBVIOUS
<1>4. t \in Seq(B) /\ ToSet(t) = {f[i] : i \in at} /\ Descends(t)
  <2> HIDE DEF at
  <2> QED BY <1>2, <1>3, ThoseHold, PartDescends
<1>5. {f[i] : i \in at} = {b \in ToSet(f) : Usable(b)}
  BY DEF ToSet
<1> HIDE DEF t
<1> QED
  BY <1>1, <1>2, <1>4, <1>5 DEF B

\* The last window is the widest, and none is empty.
LEMMA WindowsWiden ==
  /\ DOMAIN Windows = 1..Len(Windows) /\ Len(Windows) \in Nat /\ Len(Windows) >= 1
  /\ Last(Windows) = Windows[Len(Windows)]
  /\ \A w \in DOMAIN Windows : /\ Windows[w] \in Nat /\ Windows[w] > 0
                               /\ Windows[w] <= Last(Windows)
<1>1. /\ DOMAIN Windows = 1..Len(Windows) /\ Len(Windows) \in Nat
      /\ \A w \in DOMAIN Windows : Windows[w] \in Nat \ {0}
  BY DiscoveryAssumption, LenProperties
<1>2. Len(Windows) # 0
  BY DiscoveryAssumption, EmptySeq
<1>3. Last(Windows) = Windows[Len(Windows)]
  BY DEF Last
<1>4. \A w \in DOMAIN Windows : Windows[w] <= Windows[Len(Windows)]
  <2> SUFFICES ASSUME NEW w \in 1..Len(Windows) PROVE Windows[w] <= Windows[Len(Windows)]
    BY <1>1
  <2> DEFINE last == Len(Windows)
  <2>1. \A i, j \in DOMAIN Windows : i < j => Windows[i] < Windows[j]
    BY DiscoveryAssumption
  <2>2. /\ DOMAIN Windows = 1..last /\ last \in Nat /\ last \in 1..last
        /\ Windows[w] \in Nat /\ Windows[last] \in Nat
    BY <1>1
  <2> HIDE DEF last
  <2>3. w < last => Windows[w] < Windows[last]
    BY <2>1, <2>2
  <2>4. w = last \/ w < last
    BY <2>2
  <2>5. Windows[w] <= Windows[last]
    BY <2>2, <2>3, <2>4
  <2> QED BY <2>5 DEF last
<1> QED
  BY <1>1, <1>2, <1>3, <1>4

\* What a window holds is in every wider one.
LEMMA WiderFindsMore ==
  ASSUME NEW w \in DOMAIN Windows, NEW ask, NEW node, IsNode(node), Matches(node, ask, Windows[w])
  PROVE  Matches(node, ask, Last(Windows))
<1> DEFINE days == Windows[w]
           most == Last(Windows)
<1>1. days \in Nat /\ days > 0 /\ days <= most /\ most \in Nat
  BY WindowsWiden
<1>2. Today \in Nat
  BY DiscoveryAssumption
<1> HIDE DEF days, most
<1>3. Matches(node, ask, days)
  BY DEF days
<1>4. Matches(node, ask, most)
  <2>1. Today - node.created <= days
    BY <1>1, <1>3 DEF Matches
  <2>2. Today - node.created <= most
    <3> DEFINE at == node.created
    <3>1. at \in Nat /\ Today - at <= days
      BY <2>1 DEF IsNode
    <3> HIDE DEF at
    <3>2. Today - at <= most
      BY <1>1, <1>2, <3>1
    <3> QED BY <3>2 DEF at
  <2> QED BY <1>3, <2>2 DEF Matches
<1> QED
  BY <1>4 DEF most

\* What the widest window has of what is there, and is usable.
Eligible(l, ask) == {b \in Found(l, ask, Last(Windows)) : Usable(b)}

\* `getnew`: P is the list at the first read, Q what it is at the later ones.
LEMMA NewestOfAll ==
  ASSUME NEW P, IsList(P), NEW Q, IsList(Q), ToSet(P) \subseteq ToSet(Q), NEW ask,
         NEW lists, lists = [w \in DOMAIN Windows |-> IF w = 1 THEN P ELSE Q]
  PROVE  LET got == GetNew(lists, ask)
         IN  /\ \A b \in Eligible(P, ask) : got # NoBuild /\ ~Newer(b, got)
             /\ got = NoBuild \/ got \in Eligible(Q, ask)
<1> DEFINE F(w) == GetDays(lists[w], ask, Windows[w], Len(lists[w]))
           wide == {w \in DOMAIN Windows : F(w) # <<>>}
           got == GetNew(lists, ask)
           last == Len(Windows)
<1>1. got = IF wide = {} THEN NoBuild ELSE F(Min(wide))[1]
  BY DEF GetNew
<1>2. ASSUME NEW w \in DOMAIN Windows
      PROVE  /\ IsList(lists[w]) /\ ToSet(P) \subseteq ToSet(lists[w])
             /\ ToSet(lists[w]) \subseteq ToSet(Q)
  OBVIOUS
<1>3. ASSUME NEW w \in DOMAIN Windows
      PROVE  /\ Descends(F(w)) /\ ToSet(F(w)) = {b \in Found(lists[w], ask, Windows[w]) : Usable(b)}
             /\ DOMAIN F(w) = 1..Len(F(w)) /\ Len(F(w)) \in Nat
             /\ F(w) # <<>> => 1 \in DOMAIN F(w)
  <2>1. IsList(lists[w]) /\ Len(lists[w]) \in Nat
    <3>1. IsList(lists[w])
      BY <1>2
    <3> QED BY <3>1, LenProperties DEF IsList
  <2>2. /\ F(w) \in Seq({FromNode(node) : node \in ToSet(lists[w])}) /\ Descends(F(w))
        /\ ToSet(F(w)) = {b \in Found(lists[w], ask, Windows[w]) : Usable(b)}
    <3>1. Len(lists[w]) >= Len(lists[w])
      BY <2>1
    <3> QED BY <2>1, <3>1, GetDaysIs
  <2> HIDE DEF F
  <2>3. DOMAIN F(w) = 1..Len(F(w)) /\ Len(F(w)) \in Nat
    BY <2>2, LenProperties
  <2>4. F(w) # <<>> => Len(F(w)) # 0
    BY <2>2, EmptySeq
  <2> QED BY <2>2, <2>3, <2>4
<1> HIDE DEF F, got
<1>4. CASE wide = {}
  <2>1. last \in DOMAIN Windows /\ Windows[last] = Last(Windows)
    BY WindowsWiden
  <2>2. ToSet(F(last)) = {}
    <3>1. F(last) = <<>>
      BY <1>4, <2>1
    <3> QED BY <1>3, <2>1, <3>1 DEF ToSet
  <2>3. Eligible(P, ask) = {}
    <3>1. Eligible(P, ask) \subseteq ToSet(F(last))
      BY <1>2, <1>3, <2>1 DEF Eligible, Found
    <3> QED BY <2>2, <3>1
  <2> QED BY <1>1, <1>4, <2>3 DEF got
<1>5. CASE wide # {}
  <2> DEFINE w == Min(wide)
  <2>1. w \in wide
    <3>1. wide \in SUBSET Nat
      BY WindowsWiden
    <3> HIDE DEF wide
    <3> QED BY <1>5, <3>1, MinOf
  <2>2. got = F(w)[1]
    BY <1>1, <1>5
  <2> HIDE DEF w
  <2>3. w \in DOMAIN Windows /\ F(w) # <<>>
    BY <2>1
  <2> HIDE DEF wide
  <2>4. got \in ToSet(F(w)) /\ \A b \in ToSet(F(w)) : ~Newer(b, got)
    <3>1. Descends(F(w)) /\ 1 \in DOMAIN F(w) /\ DOMAIN F(w) = 1..Len(F(w)) /\ Len(F(w)) \in Nat
      BY <1>3, <2>3
    <3>2. got \in ToSet(F(w))
      BY <2>2, <3>1 DEF ToSet
    <3>3. ASSUME NEW j \in DOMAIN F(w) PROVE ~Newer(F(w)[j], got)
      <4>1. CASE j = 1
        <5>1. PICK x \in ToSet(lists[w]) : got = FromNode(x)
          BY <1>3, <2>3, <3>2 DEF Found
        <5>2. IsNode(x)
          BY <1>2, <2>3, <5>1 DEF IsList
        <5>3. got.created \in Nat /\ got.build \in Nat
          BY <5>1, <5>2, BuildIs
        <5> QED BY <2>2, <4>1, <5>3 DEF Newer
      <4>2. CASE j > 1
        BY <2>2, <3>1, <4>2 DEF Descends
      <4> QED BY <3>1, <4>1, <4>2
    <3> QED BY <3>2, <3>3 DEF ToSet
  <2>5. PICK x \in ToSet(lists[w]) : got = FromNode(x) /\ Matches(x, ask, Windows[w]) /\ IsBuild(x) /\ Usable(got)
    BY <1>3, <2>3, <2>4 DEF Found
  <2>6. IsNode(x) /\ x \in ToSet(Q)
    BY <1>2, <2>3, <2>5 DEF IsList
  <2>7. got \in Eligible(Q, ask)
    BY <2>3, <2>5, <2>6, WiderFindsMore DEF Eligible, Found
  <2>8. ASSUME NEW b \in Eligible(P, ask) PROVE got # NoBuild /\ ~Newer(b, got)
    <3>1. PICK n \in ToSet(P) : b = FromNode(n) /\ Matches(n, ask, Last(Windows)) /\ IsBuild(n) /\ Usable(b)
      BY DEF Eligible, Found
    <3>2. IsNode(n) /\ n \in ToSet(lists[w])
      BY <1>2, <2>3, <3>1 DEF IsList
    <3>3. CASE Matches(n, ask, Windows[w])
      <4>1. b \in ToSet(F(w))
        BY <1>3, <2>3, <3>1, <3>2, <3>3 DEF Found
      <4> QED BY <2>4, <2>5, <2>6, <4>1, BuildIs
    <3>4. CASE ~Matches(n, ask, Windows[w])
      <4>1. b.created < got.created /\ b.created \in Nat /\ got.created \in Nat
        <5> DEFINE days == Windows[w]
        <5>1. days \in Nat /\ days > 0
          BY <2>3, WindowsWiden
        <5>2. Today \in Nat
          BY DiscoveryAssumption
        <5>3. Today - x.created <= days
          BY <2>5, <5>1 DEF Matches
        <5>4. ~(Today - n.created <= days)
          BY <3>1, <3>4 DEF Matches
        <5>5. /\ b.created = n.created /\ got.created = x.created
              /\ n.created \in Nat /\ x.created \in Nat
          BY <2>5, <2>6, <3>1, <3>2, BuildIs
        <5> HIDE DEF days
        <5> QED BY <5>1, <5>2, <5>3, <5>4, <5>5
      <4> QED BY <2>5, <2>6, <4>1, BuildIs DEF Newer
    <3> QED BY <3>3, <3>4
  <2> QED BY <2>7, <2>8 DEF got
<1> QED
  BY <1>4, <1>5

\* No two entries of a collection are of one build.
Apart(items) == \A i, j \in DOMAIN items : items[i].build = items[j].build => i = j

\* `_keep`: the entries there were, then one of each build that had none, the first.
LEMMA KeepIs ==
  ASSUME NEW B, NEW items \in Seq(B), NEW builds \in Seq(B), Apart(items)
  PROVE  LET kept == Keep(items, builds)
         IN  /\ kept \in Seq(B) /\ Apart(kept) /\ ToSet(items) \subseteq ToSet(kept)
             /\ ToSet(kept) \subseteq ToSet(items) \cup ToSet(builds)
             /\ \A i \in DOMAIN builds :
                  \/ \E k \in DOMAIN items : items[k].build = builds[i].build
                  \/ \E j \in DOMAIN builds : /\ j <= i /\ builds[j].build = builds[i].build
                                              /\ builds[j] \in ToSet(kept)
<1> DEFINE at == {i \in DOMAIN builds :
                    /\ \A k \in DOMAIN items : items[k].build # builds[i].build
                    /\ \A j \in 1..(i - 1) : builds[j].build # builds[i].build}
           new == Those(builds, at)
           kept == items \o new
           m == Len(items)
           n == Len(new)
<1>1. Keep(items, builds) = kept
  BY DEF Keep
<1>2. at \subseteq DOMAIN builds /\ DOMAIN builds \subseteq Nat /\ \A i \in DOMAIN builds : 1 <= i
  BY LenProperties
<1>3. /\ DOMAIN builds = 1..Len(builds) /\ Len(builds) \in Nat /\ DOMAIN items = 1..m /\ m \in Nat
  BY LenProperties
<1>4. ASSUME NEW i \in at, NEW j \in at, builds[i].build = builds[j].build PROVE i = j
  BY <1>2, <1>4
<1>5. /\ new \in Seq(B) /\ ToSet(new) = {builds[i] : i \in at}
      /\ \A k, l \in DOMAIN new : new[k] = new[l] => k = l
  <2>1. \A i, j \in at : builds[i] = builds[j] => i = j
    BY <1>4
  <2> HIDE DEF at
  <2> QED BY <1>2, <2>1, ThoseHold
<1> HIDE DEF new
<1>6. \A k \in DOMAIN new : \E i \in at : new[k] = builds[i]
  <2> HIDE DEF at
  <2> SUFFICES ASSUME NEW k \in DOMAIN new PROVE new[k] \in {builds[i] : i \in at}
    OBVIOUS
  <2>1. new[k] \in ToSet(new)
    BY DEF ToSet
  <2> QED BY <1>5, <2>1
<1>7. DOMAIN new = 1..n /\ n \in Nat
  BY <1>5, LenProperties
<1>8. /\ kept \in Seq(B) /\ ToSet(kept) = ToSet(items) \cup ToSet(new)
      /\ Len(kept) = m + n /\ \A i \in 1..(m + n) : kept[i] = IF i <= m THEN items[i] ELSE new[i - m]
  <2>1. kept \in Seq(B) /\ ToSet(kept) = ToSet(items) \cup ToSet(new)
    BY <1>5, ToSetConcat
  <2>2. Len(kept) = m + n /\ \A i \in 1..(m + n) : kept[i] = IF i <= m THEN items[i] ELSE new[i - m]
    BY <1>5, ConcatProperties
  <2> QED BY <2>1, <2>2
<1> HIDE DEF kept, m, n
<1>9. DOMAIN kept = 1..(m + n)
  BY <1>8, LenProperties
<1>10. Apart(kept)
  <2>1. ASSUME NEW k \in DOMAIN new, NEW l \in DOMAIN new, new[k].build = new[l].build PROVE k = l
    <3>1. PICK i \in at : new[k] = builds[i]
      BY <1>6
    <3>2. PICK j \in at : new[l] = builds[j]
      BY <1>6
    <3>3. i = j
      BY <1>4, <2>1, <3>1, <3>2
    <3> QED BY <1>5, <3>1, <3>2, <3>3
  <2>2. ASSUME NEW k \in DOMAIN items, NEW l \in DOMAIN new PROVE items[k].build # new[l].build
    BY <1>6
  <2> SUFFICES ASSUME NEW i \in 1..(m + n), NEW j \in 1..(m + n), kept[i].build = kept[j].build PROVE i = j
    BY <1>9 DEF Apart
  <2>3. CASE i <= m /\ j <= m
    <3>1. kept[i] = items[i] /\ kept[j] = items[j] /\ i \in DOMAIN items /\ j \in DOMAIN items
      BY <1>3, <1>7, <1>8, <2>3
    <3> QED BY <3>1 DEF Apart
  <2>4. CASE i <= m /\ j > m
    <3>1. kept[i] = items[i] /\ kept[j] = new[j - m] /\ i \in DOMAIN items /\ j - m \in DOMAIN new
      BY <1>3, <1>7, <1>8, <2>4
    <3> QED BY <2>2, <3>1
  <2>5. CASE i > m /\ j <= m
    <3>1. kept[i] = new[i - m] /\ kept[j] = items[j] /\ i - m \in DOMAIN new /\ j \in DOMAIN items
      BY <1>3, <1>7, <1>8, <2>5
    <3> QED BY <2>2, <3>1
  <2>6. CASE i > m /\ j > m
    <3>1. kept[i] = new[i - m] /\ kept[j] = new[j - m] /\ i - m \in DOMAIN new /\ j - m \in DOMAIN new
      BY <1>3, <1>7, <1>8, <2>6
    <3>2. i - m = j - m
      BY <2>1, <3>1
    <3> QED BY <1>3, <1>7, <3>2
  <2> QED BY <1>3, <1>7, <2>3, <2>4, <2>5, <2>6
<1>11. ToSet(new) \subseteq ToSet(builds)
  BY <1>2, <1>5 DEF ToSet
<1>12. ASSUME NEW i \in DOMAIN builds, ~ \E k \in DOMAIN items : items[k].build = builds[i].build
       PROVE  \E j \in DOMAIN builds : /\ j <= i /\ builds[j].build = builds[i].build
                                       /\ builds[j] \in ToSet(kept)
  <2> DEFINE same == {j \in DOMAIN builds : builds[j].build = builds[i].build}
  <2>1. same \in SUBSET Nat /\ i \in same /\ same # {}
    BY <1>2
  <2> HIDE DEF same
  <2>2. PICK j \in same : \A y \in same : j <= y
    BY <2>1, LeastElement
  <2>3. j \in DOMAIN builds /\ j <= i /\ builds[j].build = builds[i].build
    BY <2>1, <2>2 DEF same
  <2>4. \A x \in 1..(j - 1) : builds[x].build # builds[j].build
    <3> SUFFICES ASSUME NEW x \in 1..(j - 1), builds[x].build = builds[j].build PROVE FALSE
      OBVIOUS
    <3>1. x \in DOMAIN builds /\ x < j
      BY <1>3, <2>3
    <3>2. x \in same
      BY <2>3, <3>1 DEF same
    <3> QED BY <1>3, <2>2, <2>3, <3>1, <3>2
  <2>5. j \in at
    BY <1>12, <2>3, <2>4
  <2>6. builds[j] \in ToSet(kept)
    BY <1>5, <1>8, <2>5
  <2> QED BY <2>3, <2>6
<1> QED
  BY <1>1, <1>8, <1>10, <1>11, <1>12

\* `get` of a build that is held: the entry that is held.
LEMMA GetIs ==
  ASSUME NEW B, NEW items \in Seq(B), NEW list, IsList(list), NEW scan \in Nat,
         NEW one \in ToSet(items), Apart(items)
  PROVE  Get(items, list, one.build, scan) = one
<1> DEFINE any == [tree |-> "", branch |-> "", passing |-> FALSE]
           scanned == Fetch(list, any, Last(Windows), scan)
           mine == {i \in DOMAIN items : items[i].build = one.build}
           theirs == {i \in DOMAIN scanned : scanned[i].build = one.build}
           held == Those(items, mine)
           rest == Those(scanned, theirs)
           C == B \cup {FromNode(node) : node \in ToSet(list)}
<1>1. Get(items, list, one.build, scan) = IF held \o rest = <<>> THEN NoBuild ELSE (held \o rest)[1]
  BY DEF Get, Such
<1>2. scanned \in Seq({FromNode(node) : node \in ToSet(list)})
  BY FetchIs
<1>3. theirs \subseteq DOMAIN scanned /\ mine \subseteq DOMAIN items
  OBVIOUS
<1>4. rest \in Seq({FromNode(node) : node \in ToSet(list)})
  <2> HIDE DEF scanned, theirs
  <2> QED BY <1>2, <1>3, ThoseHold
<1>5. held \in Seq(B) /\ ToSet(held) = {items[i] : i \in mine}
  <2>1. mine \subseteq DOMAIN items
    BY <1>3
  <2> HIDE DEF mine, scanned, theirs, rest, any, C
  <2> QED BY <2>1, ThoseHold
<1>6. PICK k \in DOMAIN items : items[k] = one
  BY DEF ToSet
<1>7. ToSet(held) = {one}
  BY <1>5, <1>6 DEF Apart
<1> HIDE DEF rest, held
<1>8. DOMAIN held = 1..Len(held) /\ Len(held) \in Nat /\ DOMAIN held # {}
  BY <1>5, <1>7, LenProperties DEF ToSet
<1>9. Len(held) >= 1 /\ held[1] = one
  BY <1>7, <1>8 DEF ToSet
<1> HIDE DEF C
<1>10. held \in Seq(C) /\ rest \in Seq(C)
  <2>1. B \subseteq C /\ {FromNode(node) : node \in ToSet(list)} \subseteq C
    BY DEF C
  <2>2. /\ held = [i \in 1..Len(held) |-> held[i]] /\ \A i \in 1..Len(held) : held[i] \in C
        /\ Len(held) \in Nat
    BY <1>5, <2>1, LenProperties
  <2>3. /\ rest = [i \in 1..Len(rest) |-> rest[i]] /\ \A i \in 1..Len(rest) : rest[i] \in C
        /\ Len(rest) \in Nat
    BY <1>4, <2>1, LenProperties
  <2>4. held \in Seq(C)
    BY <2>2, MadeSeq
  <2>5. rest \in Seq(C)
    BY <2>3, MadeSeq
  <2> QED BY <2>4, <2>5
<1>11. /\ held \o rest \in Seq(C) /\ Len(held \o rest) = Len(held) + Len(rest)
       /\ (held \o rest)[1] = one /\ Len(rest) \in Nat
  <2>1. Len(rest) \in Nat
    BY <1>4, LenProperties
  <2>2. 1 \in 1..(Len(held) + Len(rest))
    BY <1>8, <1>9, <2>1
  <2> QED BY <1>9, <1>10, <2>1, <2>2, ConcatProperties
<1>12. held \o rest # <<>>
  <2>1. Len(held \o rest) # 0
    BY <1>8, <1>9, <1>11
  <2> QED BY <2>1, EmptySeq
<1> QED
  BY <1>1, <1>11, <1>12

\* What a build that was made of a node of the list was filed under.
LEMMA NamedOnce ==
  ASSUME NEW list, IsList(list), NEW node \in ToSet(list)
  PROVE  {n \in ToSet(list) : n.id = FromNode(node).node} = {node}
<1>1. IsNode(node)
  BY DEF IsList
<1>2. FromNode(node).node = node.id
  BY <1>1, BuildIs
<1>3. ASSUME NEW n \in ToSet(list), n.id = node.id PROVE n = node
  <2>1. PICK i \in DOMAIN list : list[i] = n
    BY DEF ToSet
  <2>2. PICK j \in DOMAIN list : list[j] = node
    BY DEF ToSet
  <2> QED BY <1>3, <2>1, <2>2 DEF IsList
<1> QED
  BY <1>2, <1>3

\* One entry per build in a collection that is made of two reads, P and then Q.
Entered(list, P, Q, ask) ==
    LET first == GetDays(P, ask, 0, Want)
        items == Keep(Keep(<<>>, first), GetDays(Q, ask, 0, Want))
        Named(b) == {BuildIdOf(node.artifacts) : node \in {n \in ToSet(list) : n.id = b.node}}
    IN  /\ \A i, j \in DOMAIN items : i # j => Named(items[i]) \cap Named(items[j]) \subseteq {NoId}
        /\ IsInjective([i \in DOMAIN items |-> items[i].build])
        /\ {b.build : b \in ToSet(first)} \subseteq {b.build : b \in ToSet(items)}
        /\ \A b \in ToSet(first) : \E one \in ToSet(first) :
              /\ one.build = b.build /\ ~Newer(b, one)
              /\ Get(items, Q, b.build, Want) = one

LEMMA EntriesAre ==
  ASSUME NEW list, IsList(list), NEW P, IsList(P), ToSet(P) \subseteq ToSet(list),
         NEW Q, IsList(Q), ToSet(Q) \subseteq ToSet(list), NEW ask
  PROVE  Entered(list, P, Q, ask)
<1> DEFINE first == GetDays(P, ask, 0, Want)
           second == GetDays(Q, ask, 0, Want)
           kept == Keep(<<>>, first)
           items == Keep(kept, second)
           Named(b) == {BuildIdOf(node.artifacts) : node \in {n \in ToSet(list) : n.id = b.node}}
           B == {FromNode(node) : node \in ToSet(list)}
<1>1. Want \in Nat
  BY ApiAssumption
<1>2. first \in Seq(B) /\ Descends(first)
  <2>1. first \in Seq({FromNode(node) : node \in ToSet(P)}) /\ Descends(first)
    BY <1>1, GetDaysIs
  <2>2. {FromNode(node) : node \in ToSet(P)} \subseteq B
    OBVIOUS
  <2> HIDE DEF first, B
  <2> QED BY <2>1, <2>2, SeqWiden
<1>3. second \in Seq(B)
  <2>1. second \in Seq({FromNode(node) : node \in ToSet(Q)})
    BY <1>1, GetDaysIs
  <2>2. {FromNode(node) : node \in ToSet(Q)} \subseteq B
    OBVIOUS
  <2> HIDE DEF second, B
  <2> QED BY <2>1, <2>2, SeqWiden
<1>4. ASSUME NEW b \in B
      PROVE  /\ b.created \in Nat /\ b.build \in Nat
             /\ \E node \in ToSet(list) : b = FromNode(node)
  BY BuildIs DEF IsList
<1>5. ASSUME NEW node \in ToSet(list) PROVE Named(FromNode(node)) = {BuildIdOf(node.artifacts)}
  BY NamedOnce
<1>6. ASSUME NEW b \in B, NEW x \in Named(b), x # NoId PROVE b.build = x
  <2>1. PICK node \in ToSet(list) : b = FromNode(node)
    BY <1>4
  <2>2. x = BuildIdOf(node.artifacts)
    BY <1>5, <2>1
  <2> QED BY <1>6, <2>1, <2>2 DEF FromNode
<1> HIDE DEF first, second, kept, items, B, Named
<1>7. <<>> \in Seq(B) /\ Apart(<<>>) /\ DOMAIN <<>> = {}
  <2>1. DOMAIN <<>> = {}
    OBVIOUS
  <2> QED BY <2>1, EmptySeq DEF Apart
<1>8. /\ kept \in Seq(B) /\ Apart(kept)
      /\ \A i \in DOMAIN first : \E j \in DOMAIN first :
            j <= i /\ first[j].build = first[i].build /\ first[j] \in ToSet(kept)
  BY <1>2, <1>7, KeepIs DEF kept
<1>9. items \in Seq(B) /\ Apart(items) /\ ToSet(kept) \subseteq ToSet(items)
  BY <1>3, <1>8, KeepIs DEF items
<1>10. ASSUME NEW i \in DOMAIN items, NEW j \in DOMAIN items, i # j
       PROVE  Named(items[i]) \cap Named(items[j]) \subseteq {NoId}
  <2> SUFFICES ASSUME NEW x \in Named(items[i]) \cap Named(items[j]), x # NoId PROVE FALSE
    OBVIOUS
  <2>1. items[i] \in B /\ items[j] \in B
    BY <1>9, LenProperties
  <2>2. items[i].build = x /\ items[j].build = x
    BY <1>6, <2>1
  <2> QED BY <1>9, <1>10, <2>2 DEF Apart
<1>11. IsInjective([i \in DOMAIN items |-> items[i].build])
  BY <1>9 DEF Apart, IsInjective
<1>12. ASSUME NEW b \in ToSet(first)
       PROVE  \E one \in ToSet(first) : /\ one.build = b.build /\ ~Newer(b, one)
                                        /\ one \in ToSet(items)
                                        /\ Get(items, Q, b.build, Want) = one
  <2>1. PICK i \in DOMAIN first : b = first[i]
    BY DEF ToSet
  <2>2. PICK j \in DOMAIN first : /\ j <= i /\ first[j].build = b.build
                                  /\ first[j] \in ToSet(kept)
    BY <1>8, <2>1
  <2> DEFINE one == first[j]
  <2>3. i \in Nat /\ j \in Nat /\ b \in B
    BY <1>2, <2>1, LenProperties
  <2>4. ~Newer(b, one)
    <3>1. CASE j = i
      BY <1>4, <2>1, <2>3, <3>1 DEF Newer
    <3>2. CASE j < i
      BY <1>2, <2>1, <3>2 DEF Descends
    <3> QED BY <2>2, <2>3, <3>1, <3>2
  <2>5. one \in ToSet(first) /\ one.build = b.build /\ one \in ToSet(items)
    BY <1>9, <2>2 DEF ToSet
  <2> HIDE DEF one
  <2>6. Get(items, Q, one.build, Want) = one
    BY <1>1, <1>9, <2>5, GetIs
  <2> QED BY <2>4, <2>5, <2>6
<1>13. {b.build : b \in ToSet(first)} \subseteq {b.build : b \in ToSet(items)}
  <2> SUFFICES ASSUME NEW b \in ToSet(first) PROVE \E one \in ToSet(items) : one.build = b.build
    OBVIOUS
  <2> QED BY <1>12
<1> QED
  BY <1>10, <1>11, <1>12, <1>13 DEF first, second, kept, items, Named, Entered

\* The places of the jobs of a state, and those a worker may claim.
JobsAt(l, state) == {i \in DOMAIN l : l[i].kind = "job" /\ l[i].state = state}
Claimable(l) == {i \in DOMAIN l : "job_definition" \in DOMAIN l[i].artifacts}

\* `getjob` without a limit.
LEMMA JobsAre ==
  ASSUME NEW S, NEW l \in Seq(S), NEW state
  PROVE  GetJob(l, state, Len(l)) = Those(l, JobsAt(l, state)) /\ GetJob(l, state, Len(l)) \in Seq(S)
<1> DEFINE found == Those(l, JobsAt(l, state))
           most == Min({Len(l), Len(found)})
<1>1. GetJob(l, state, Len(l)) = SubSeq(found, 1, most)
  BY DEF GetJob, Such, JobsAt
<1>2. JobsAt(l, state) \subseteq DOMAIN l
  BY DEF JobsAt
<1>3. found \in Seq(S) /\ Len(found) <= Len(l)
  BY <1>2, ThoseHold, ThoseNoLonger
<1> HIDE DEF found
<1>4. Len(found) \in Nat /\ Len(l) \in Nat
  BY <1>3, LenProperties
<1>5. most = Len(found)
  BY <1>3, <1>4, MinOfTwo
<1> HIDE DEF most
<1> DEFINE got == SubSeq(found, 1, most)
<1>6. \A i \in 1..most : found[i] \in S
  BY <1>3, <1>5, LenProperties
<1>7. got \in Seq(S) /\ Len(got) = Len(found) /\ \A i \in 1..Len(found) : got[i] = found[i]
  <2>1. /\ got \in Seq(S) /\ Len(got) = IF 1 <= most THEN most - 1 + 1 ELSE 0
        /\ \A i \in 1..(most - 1 + 1) : got[i] = found[1 + i - 1]
    BY <1>4, <1>5, <1>6, SubSeqProperties
  <2> QED BY <1>4, <1>5, <2>1
<1>8. got = found
  BY <1>3, <1>7, SeqEqual
<1> QED
  BY <1>1, <1>3, <1>8 DEF found

\* `available`: a queue that has grown begins as it was.
LEMMA QueueGrows ==
  ASSUME NEW S, NEW P \in Seq(S), NEW Q \in Seq(S), Starts(P, Q)
  PROVE  Starts(AvailableJobs(P, ""), AvailableJobs(Q, ""))
<1> DEFINE p == GetJob(P, "available", Len(P))
           q == GetJob(Q, "available", Len(Q))
<1>1. p = Those(P, JobsAt(P, "available")) /\ p \in Seq(S)
  BY JobsAre
<1>2. q = Those(Q, JobsAt(Q, "available")) /\ q \in Seq(S)
  BY JobsAre
<1>3. AvailableJobs(P, "") = Those(p, Claimable(p)) /\ AvailableJobs(Q, "") = Those(q, Claimable(q))
  BY DEF AvailableJobs, Such, Claimable
<1> HIDE DEF p, q
<1>4. ASSUME NEW s \in Seq(S), NEW t \in Seq(S), Starts(s, t)
      PROVE  /\ JobsAt(s, "available") = JobsAt(t, "available") \cap DOMAIN s
             /\ Claimable(s) = Claimable(t) \cap DOMAIN s
  <2>1. /\ DOMAIN s = 1..Len(s) /\ DOMAIN t = 1..Len(t) /\ Len(s) \in Nat /\ Len(t) \in Nat
        /\ Len(s) <= Len(t) /\ \A i \in 1..Len(s) : s[i] = t[i]
    BY <1>4, LenProperties DEF Starts
  <2>2. \A i \in DOMAIN s : i \in DOMAIN t /\ s[i] = t[i]
    BY <2>1
  <2> QED BY <2>2 DEF JobsAt, Claimable
<1>5. JobsAt(Q, "available") \subseteq DOMAIN Q /\ Claimable(q) \subseteq DOMAIN q
  BY DEF JobsAt, Claimable
<1>6. Starts(p, q)
  <2>1. JobsAt(P, "available") = JobsAt(Q, "available") \cap DOMAIN P
    BY <1>4
  <2>2. Starts(Those(P, JobsAt(Q, "available") \cap DOMAIN P), Those(Q, JobsAt(Q, "available")))
    BY <1>5, ThoseStart
  <2> QED BY <1>1, <1>2, <2>1, <2>2
<1>7. Claimable(p) = Claimable(q) \cap DOMAIN p
  BY <1>1, <1>2, <1>4, <1>6
<1>8. Starts(Those(p, Claimable(q) \cap DOMAIN p), Those(q, Claimable(q)))
  BY <1>1, <1>2, <1>5, <1>6, ThoseStart
<1> QED
  BY <1>3, <1>7, <1>8

\* `done`: in the order they were made.
Sooner(one, other) ==
    one.created < other.created \/ (one.created = other.created /\ one.id < other.id)

\* And the places of a list in that order.
Soonest(t) == {p \in (DOMAIN t) \X (DOMAIN t) :
                Sooner(t[p[1]], t[p[2]]) \/ (p[1] < p[2] /\ ~Sooner(t[p[2]], t[p[1]]))}

\* The finished runs are listed oldest first.
LEMMA DoneInOrder ==
  ASSUME NEW l, IsList(l)
  PROVE  \A i \in 1..(Len(DoneJobs(l)) - 1) : DoneJobs(l)[i].created <= DoneJobs(l)[i + 1].created
<1> DEFINE N == ToSet(l)
           t == GetJob(l, "done", Len(l))
           u == DoneJobs(l)
           n == Len(t)
<1>1. t \in Seq(N)
  <2>1. l \in Seq(N)
    BY DEF IsList
  <2> QED BY <2>1, JobsAre
<1>2. u = Arranged(t, Soonest(t))
  BY DEF DoneJobs, SortedBy, Soonest, Sooner
<1>3. \A node \in N : node.created \in Nat /\ node.id \in Nat
  BY DEF IsList, IsNode
<1> HIDE DEF t, u, N
<1>4. DOMAIN t = 1..n /\ n \in Nat /\ \A i \in DOMAIN t : t[i].created \in Nat /\ t[i].id \in Nat
  BY <1>1, <1>3, LenProperties
<1> HIDE DEF n
<1>5. ASSUME NEW i \in DOMAIN t, NEW j \in DOMAIN t
      PROVE  <<i, j>> \in Soonest(t) <=> Sooner(t[i], t[j]) \/ (i < j /\ ~Sooner(t[j], t[i]))
  BY DEF Soonest
<1>6. IsOrder(Soonest(t), DOMAIN t)
  <2>1. \A i \in DOMAIN t : <<i, i>> \notin Soonest(t)
    BY <1>4, <1>5 DEF Sooner
  <2>2. \A i, j \in DOMAIN t : i # j => (<<i, j>> \in Soonest(t) <=> <<j, i>> \notin Soonest(t))
    BY <1>4, <1>5 DEF Sooner
  <2>3. ASSUME NEW i \in DOMAIN t, NEW j \in DOMAIN t, NEW k \in DOMAIN t,
               <<i, j>> \in Soonest(t), <<j, k>> \in Soonest(t)
        PROVE  <<i, k>> \in Soonest(t)
    <3>1. i \in Nat /\ j \in Nat /\ k \in Nat
      BY <1>4
    <3>2. /\ Sooner(t[i], t[j]) \/ (i < j /\ ~Sooner(t[j], t[i]))
          /\ Sooner(t[j], t[k]) \/ (j < k /\ ~Sooner(t[k], t[j]))
      BY <1>5, <2>3
    <3>3. Sooner(t[i], t[k]) \/ (i < k /\ ~Sooner(t[k], t[i]))
      BY <1>4, <3>1, <3>2 DEF Sooner
    <3> QED BY <1>5, <3>3
  <2> QED BY <2>1, <2>2, <2>3 DEF IsOrder
<1>7. \E e : Sorts(e, u, t, Soonest(t))
  BY <1>1, <1>2, <1>6, ArrangedAre
<1>8. PICK e : Sorts(e, u, t, Soonest(t))
  BY <1>7
<1>9. /\ Len(u) = n /\ \A k \in 1..n : e[k] \in DOMAIN t /\ u[k] = t[e[k]]
      /\ \A k, m \in 1..n : k < m => <<e[k], e[m]>> \in Soonest(t)
  BY <1>8 DEF Sorts, n
<1>10. ASSUME NEW i \in 1..(Len(u) - 1) PROVE u[i].created <= u[i + 1].created
  <2>1. i \in 1..n /\ i + 1 \in 1..n /\ i < i + 1
    BY <1>4, <1>9
  <2>2. <<e[i], e[i + 1]>> \in Soonest(t) /\ e[i] \in DOMAIN t /\ e[i + 1] \in DOMAIN t
    BY <1>9, <2>1
  <2>3. t[e[i]].created <= t[e[i + 1]].created
    BY <1>4, <1>5, <2>2 DEF Sooner
  <2> QED BY <1>9, <2>1, <2>3
<1> QED
  BY <1>10 DEF u

\* What is let through of a list of nodes is one.
LEMMA PartIsList ==
  ASSUME NEW l, IsList(l), NEW at, at \subseteq DOMAIN l
  PROVE  IsList(Those(l, at)) /\ ToSet(Those(l, at)) = {l[i] : i \in at}
<1> DEFINE u == Those(l, at)
<1>1. l \in Seq(ToSet(l)) /\ \A i, j \in DOMAIN l : l[i].id = l[j].id => i = j
  BY DEF IsList
<1>2. \A i, j \in at : l[i] = l[j] => i = j
  BY <1>1
<1>3. /\ u \in Seq(ToSet(l)) /\ ToSet(u) = {l[i] : i \in at}
      /\ \A k, m \in DOMAIN u : u[k] = u[m] => k = m
  BY <1>1, <1>2, ThoseHold
<1> HIDE DEF u
<1>4. u = [k \in 1..Len(u) |-> u[k]] /\ Len(u) \in Nat /\ DOMAIN u = 1..Len(u)
  BY <1>3, LenProperties
<1>5. \A k \in DOMAIN u : u[k] \in ToSet(u) /\ \E i \in at : u[k] = l[i]
  <2> SUFFICES ASSUME NEW k \in DOMAIN u
               PROVE  u[k] \in ToSet(u) /\ u[k] \in {l[i] : i \in at}
    OBVIOUS
  <2>1. u[k] \in ToSet(u)
    BY DEF ToSet
  <2> QED BY <1>3, <2>1
<1>6. u \in Seq(ToSet(u))
  BY <1>4, <1>5, MadeSeq
<1>7. ASSUME NEW k \in DOMAIN u, NEW m \in DOMAIN u, u[k].id = u[m].id PROVE k = m
  <2>1. PICK i \in at : u[k] = l[i]
    BY <1>5
  <2>2. PICK j \in at : u[m] = l[j]
    BY <1>5
  <2>3. i = j
    BY <1>1, <1>7, <2>1, <2>2
  <2> QED BY <1>3, <2>1, <2>2, <2>3
<1>8. ToSet(u) \subseteq ToSet(l)
  BY <1>3 DEF ToSet
<1>9. IsList(u)
  BY <1>6, <1>7, <1>8 DEF IsList
<1> QED
  BY <1>3, <1>9 DEF u

\* The builds a day takes are of that day, if it is asked for one.
LEMMA DayBuildsAre ==
  ASSUME NEW l, IsList(l), NEW ask, NEW day, NEW days, NEW limit \in Nat
  PROVE  LET t == DayBuilds(l, ask, day, days, limit)
         IN  /\ t \in Seq(ToSet(t))
             /\ day # NoId => \A b \in ToSet(t) : b.created = day
<1> DEFINE at == {i \in DOMAIN l : l[i].created = day}
           m == IF day # NoId THEN Those(l, at) ELSE l
           found == GetDays(m, ask, IF day # NoId THEN 0 ELSE days, Len(l))
           t == SubSeq(found, 1, Min({limit, Len(found)}))
           B == {FromNode(node) : node \in ToSet(m)}
<1>1. DayBuilds(l, ask, day, days, limit) = t
  BY DEF DayBuilds, OfTheDay, Such
<1>2. IsList(m) /\ (day # NoId => ToSet(m) = {l[i] : i \in at})
  <2>1. at \subseteq DOMAIN l
    OBVIOUS
  <2> HIDE DEF at
  <2> QED BY <2>1, PartIsList
<1>3. day # NoId => \A node \in ToSet(m) : node.created = day
  BY <1>2
<1>4. Len(l) \in Nat
  BY LenProperties DEF IsList
<1> HIDE DEF m
<1>5. found \in Seq(B)
  BY <1>2, <1>4, GetDaysIs
<1>6. \A b \in B : day # NoId => b.created = day
  BY <1>2, <1>3, BuildIs DEF IsList
<1> HIDE DEF found, B
<1>7. Len(found) \in Nat /\ DOMAIN found = 1..Len(found) /\ \A i \in 1..Len(found) : found[i] \in B
  BY <1>5, LenProperties
<1> DEFINE most == Min({limit, Len(found)})
<1>8. most \in Nat /\ most <= Len(found)
  BY <1>7, MinOfTwo
<1> HIDE DEF most
<1>9. t \in Seq(B)
  <2>1. \A i \in 1..most : found[i] \in B
    BY <1>7, <1>8
  <2>2. SubSeq(found, 1, most) \in Seq(B)
    BY <1>8, <2>1, SubSeqProperties
  <2> QED BY <2>2 DEF most
<1> HIDE DEF t
<1>10. t = [i \in 1..Len(t) |-> t[i]] /\ Len(t) \in Nat /\ DOMAIN t = 1..Len(t)
  BY <1>9, LenProperties
<1>11. \A i \in 1..Len(t) : t[i] \in ToSet(t) /\ t[i] \in B
  BY <1>9, <1>10, LenProperties DEF ToSet
<1>12. t \in Seq(ToSet(t))
  BY <1>10, <1>11, MadeSeq
<1>13. \A b \in ToSet(t) : b \in B
  BY <1>10, <1>11 DEF ToSet
<1> QED
  BY <1>1, <1>6, <1>12, <1>13

\* The pairs of a day: every test of every build, or those of them that are not recorded.
Pairs(builds) == {b.build : b \in ToSet(builds)} \X ToSet(Tests)

LEMMA DayRunsAre ==
  ASSUME NEW builds, builds \in Seq(ToSet(builds)), NEW recorded, NEW redo \in BOOLEAN
  PROVE  LET run == DayRuns(builds, Tests, recorded, redo)
         IN  /\ run \in Seq(Pairs(builds))
             /\ ToSet(run) = {p \in Pairs(builds) : redo \/ p \notin recorded}
             /\ redo => \A other : run = DayRuns(builds, Tests, other, redo)
<1> DEFINE n == Len(builds)
           k == Len(Tests)
           of(i) == [t \in DOMAIN Tests |-> <<builds[i].build, Tests[t]>>]
           seqs == [i \in DOMAIN builds |-> of(i)]
           all == FlattenSeq(seqs)
           at == {i \in DOMAIN all : redo \/ all[i] \notin recorded}
           run == Those(all, at)
           S == Pairs(builds)
<1>1. DayRuns(builds, Tests, recorded, redo) = run
  BY DEF DayRuns, Such
<1>2. n \in Nat /\ DOMAIN builds = 1..n
  BY LenProperties
<1>3. k \in Nat /\ DOMAIN Tests = 1..k
  BY LenProperties, DiscoveryAssumption
<1>4. ASSUME NEW i \in 1..n
      PROVE  of(i) \in Seq(S) /\ ToSet(of(i)) = {builds[i].build} \X ToSet(Tests)
  <2>1. builds[i] \in ToSet(builds) /\ \A t \in 1..k : Tests[t] \in ToSet(Tests)
    BY <1>2, <1>3 DEF ToSet
  <2>2. \A t \in 1..k : of(i)[t] = <<builds[i].build, Tests[t]>> /\ of(i)[t] \in S
    BY <1>3, <2>1 DEF Pairs
  <2>3. of(i) = [t \in 1..k |-> of(i)[t]] /\ DOMAIN of(i) = 1..k
    BY <1>3
  <2> HIDE DEF k, of, S
  <2>4. of(i) \in Seq(S)
    BY <1>3, <2>2, <2>3, MadeSeq
  <2>5. ToSet(of(i)) \subseteq {builds[i].build} \X ToSet(Tests)
    <3> SUFFICES ASSUME NEW t \in DOMAIN of(i) PROVE of(i)[t] \in {builds[i].build} \X ToSet(Tests)
      BY DEF ToSet
    <3>1. t \in 1..k
      BY <2>3
    <3>2. of(i)[t] = <<builds[i].build, Tests[t]>> /\ Tests[t] \in ToSet(Tests)
      BY <2>1, <2>2, <3>1
    <3> QED BY <3>2
  <2>6. {builds[i].build} \X ToSet(Tests) \subseteq ToSet(of(i))
    <3> SUFFICES ASSUME NEW t \in DOMAIN Tests PROVE <<builds[i].build, Tests[t]>> \in ToSet(of(i))
      BY DEF ToSet
    <3> QED BY <1>3, <2>2, <2>3 DEF ToSet
  <2> QED BY <2>4, <2>5, <2>6
<1>5. seqs \in [1..n -> Seq(S)] /\ \A i \in 1..n : seqs[i] = of(i)
  <2> HIDE DEF of, S, n
  <2> QED BY <1>2, <1>4
<1> HIDE DEF seqs, of, S, n
<1>6. all \in Seq(S) /\ ToSet(all) = UNION {ToSet(seqs[i]) : i \in 1..n}
  BY <1>2, <1>5, FlattenIs
<1>7. ToSet(all) = S
  <2>1. ToSet(all) \subseteq S
    BY <1>6, LenProperties DEF ToSet
  <2>2. S \subseteq ToSet(all)
    <3> SUFFICES ASSUME NEW b \in ToSet(builds), NEW t \in ToSet(Tests)
                 PROVE  <<b.build, t>> \in ToSet(all)
      BY DEF S, Pairs
    <3>1. PICK i \in 1..n : builds[i] = b
      BY <1>2 DEF ToSet
    <3>2. <<b.build, t>> \in ToSet(seqs[i])
      BY <1>4, <1>5, <3>1
    <3> QED BY <1>6, <3>2
  <2> QED BY <2>1, <2>2
<1> HIDE DEF all
<1>8. run \in Seq(S) /\ ToSet(run) = {all[i] : i \in at}
  <2>1. at \subseteq DOMAIN all
    OBVIOUS
  <2> HIDE DEF at
  <2> QED BY <1>6, <2>1, ThoseHold
<1>9. {all[i] : i \in at} = {p \in S : redo \/ p \notin recorded}
  BY <1>7 DEF ToSet
<1>10. ASSUME redo, NEW other PROVE run = DayRuns(builds, Tests, other, redo)
  <2>1. DayRuns(builds, Tests, other, redo) = Those(all, {i \in DOMAIN all : redo \/ all[i] \notin other})
    BY DEF DayRuns, Such, all, seqs, of
  <2>2. {i \in DOMAIN all : redo \/ all[i] \notin other} = at
    BY <1>10
  <2> QED BY <2>1, <2>2
<1> HIDE DEF run
<1> QED
  BY <1>1, <1>8, <1>9, <1>10 DEF S

\* The exit code: 0 is that every run passed.
LEMMA ExitIs ==
  ASSUME NEW run, \A p \in ToSet(run) : p[2] \in ToSet(Tests)
  PROVE  Exit(run) = 0 <=> \A p \in ToSet(run) : Verdict[p[2]] = "pass"
<1> DEFINE ended == {Verdict[p[2]] : p \in ToSet(run)}
<1>1. ended \subseteq {"pass", "fail", "infra"}
  BY DiscoveryAssumption
<1>2. Exit(run) = CASE "infra" \in ended -> 3
                    [] "infra" \notin ended /\ ~(ended \subseteq {"pass"}) -> 1
                    [] OTHER -> 0
  BY DEF Exit
<1>3. ended \subseteq {"pass"} <=> \A p \in ToSet(run) : Verdict[p[2]] = "pass"
  OBVIOUS
<1> HIDE DEF ended
<1>4. CASE "infra" \in ended
  BY <1>2, <1>3, <1>4
<1>5. CASE "infra" \notin ended /\ ~(ended \subseteq {"pass"})
  BY <1>2, <1>3, <1>5
<1>6. CASE ended \subseteq {"pass"}
  BY <1>2, <1>3, <1>6
<1> QED
  BY <1>4, <1>5, <1>6

LEMMA DayIsRight ==
  ASSUME NEW builds, builds \in Seq(ToSet(builds)), NEW recorded, NEW redo \in BOOLEAN,
         NEW kept, kept \subseteq ToSet(DayRuns(builds, Tests, recorded, redo))
  PROVE  DayIsTold(builds, recorded, redo, kept)
<1> DEFINE run == DayRuns(builds, Tests, recorded, redo)
           again == DayRuns(builds, Tests, recorded \cup kept, redo)
<1>1. /\ ToSet(run) = {p \in Pairs(builds) : redo \/ p \notin recorded}
      /\ redo => again = run
  BY DayRunsAre
<1>2. /\ again \in Seq(Pairs(builds))
      /\ ToSet(again) = {p \in Pairs(builds) : redo \/ p \notin recorded \cup kept}
  <2> DEFINE had == recorded \cup kept
  <2> HIDE DEF had, run
  <2>1. /\ DayRuns(builds, Tests, had, redo) \in Seq(Pairs(builds))
        /\ ToSet(DayRuns(builds, Tests, had, redo)) = {p \in Pairs(builds) : redo \/ p \notin had}
    BY DayRunsAre
  <2> QED BY <2>1 DEF had
<1>3. kept \subseteq ToSet(run)
  OBVIOUS
<1> HIDE DEF run, again
<1>4. Pairs(builds) \subseteq ToSet(run) \cup recorded /\ (~redo => ToSet(run) \cap recorded = {})
  BY <1>1
<1>5. ~redo => ToSet(again) = ToSet(run) \ kept
  BY <1>1, <1>2
<1>6. \A p \in ToSet(run) : p[2] \in ToSet(Tests)
  BY <1>1 DEF Pairs
<1>7. DayExit(run) = 0 <=> \A p \in ToSet(run) : Verdict[p[2]] = "pass"
  BY <1>6, ExitIs DEF DayExit
<1>8. kept = ToSet(run) => RunExit(again, run) = Exit(run)
  <2>1. CASE redo
    BY <1>1, <2>1 DEF RunExit
  <2>2. CASE ~redo /\ kept = ToSet(run)
    <3>1. ToSet(again) = {}
      BY <1>5, <2>2
    <3>2. DOMAIN again = 1..Len(again) /\ Len(again) \in Nat
      BY <1>2, LenProperties
    <3>3. ~(Len(again) \in Nat \ {0})
      <4> SUFFICES ASSUME Len(again) \in Nat \ {0} PROVE FALSE
        OBVIOUS
      <4>1. 1 \in DOMAIN again
        BY <3>2
      <4>2. again[1] \in ToSet(again)
        BY <4>1 DEF ToSet
      <4> QED BY <3>1, <4>2
    <3>4. again = <<>>
      BY <1>2, <3>3, EmptySeq
    <3> QED BY <3>4 DEF RunExit
  <2> QED BY <2>1, <2>2
<1> QED
  BY <1>4, <1>5, <1>7, <1>8 DEF DayIsTold, Pairs, run, again

\* What the reads of a request that is over may have found.
LEMMA ReadsAre ==
  ASSUME NEW r, request[r].known \in Nat, rows \in Nat, request[r].known <= rows, rows <= MaxRows,
         NEW list \in Listings
  PROVE  LET P == Before(r, list)
             Q == After(list)
         IN  /\ IsList(P) /\ IsList(Q) /\ IsList(list) /\ Starts(P, Q)
             /\ ToSet(P) \subseteq ToSet(Q) /\ ToSet(Q) \subseteq ToSet(list)
             /\ P \in Seq(ToSet(list)) /\ Q \in Seq(ToSet(list))
<1> DEFINE m == request[r].known
           n == rows
           P == SubSeq(list, 1, m)
           Q == SubSeq(list, 1, n)
<1>1. MaxRows \in Nat /\ m \in Nat /\ n \in Nat /\ m <= n /\ m <= MaxRows /\ n <= MaxRows
  BY ApiAssumption
<1> HIDE DEF m, n
<1>2. /\ IsList(P) /\ Len(P) = m /\ \A i \in 1..m : P[i] = list[i]
      /\ ToSet(P) = {list[i] : i \in 1..m} /\ IsList(list) /\ DOMAIN list = 1..MaxRows
  BY <1>1, PartIs
<1>3. /\ IsList(Q) /\ Len(Q) = n /\ \A i \in 1..n : Q[i] = list[i]
      /\ ToSet(Q) = {list[i] : i \in 1..n}
  BY <1>1, PartIs
<1>4. Starts(P, Q)
  BY <1>1, <1>2, <1>3 DEF Starts
<1>5. ToSet(P) \subseteq ToSet(Q)
  BY <1>1, <1>2, <1>3
<1>6. ToSet(Q) \subseteq ToSet(list)
  BY <1>1, <1>2, <1>3 DEF ToSet
<1>7. P \in Seq(ToSet(P)) /\ Q \in Seq(ToSet(Q))
  BY <1>2, <1>3 DEF IsList
<1>8. ToSet(P) \subseteq ToSet(list)
  BY <1>5, <1>6
<1> HIDE DEF P, Q
<1>9. P \in Seq(ToSet(list)) /\ Q \in Seq(ToSet(list))
  BY <1>6, <1>7, <1>8, SeqWiden
<1> QED
  BY <1>2, <1>3, <1>4, <1>5, <1>6, <1>9 DEF P, Q, m, n, Before, After

\* A window that widens finds the newest there is; a collection holds one entry of a
\* build; a queue is read in its order; a day has a record of every test.
LEMMA FoundNow ==
  ASSUME NEW r \in Requests, request[r].known \in Nat, rows \in Nat, request[r].known <= rows,
         rows <= MaxRows, NEW list \in Listings
  PROVE  LET P == Before(r, list)
             Q == After(list)
         IN  /\ \A ask \in Asks :
                  LET lists == [w \in DOMAIN Windows |-> IF w = 1 THEN P ELSE Q]
                      got == GetNew(lists, ask)
                      Candidates(l) == {FromNode(node) : node \in {n \in ToSet(l) :
                            IsBuild(n) /\ Matches(n, ask, Last(Windows)) /\ Usable(FromNode(n))}}
                  IN  /\ \A b \in Candidates(P) : got # NoBuild /\ ~Newer(b, got)
                      /\ got = NoBuild \/ got \in Candidates(Q)
             /\ \A i \in 1..(Len(DoneJobs(Q)) - 1) : DoneJobs(Q)[i].created <= DoneJobs(Q)[i + 1].created
             /\ \A i \in 1..Len(AvailableJobs(P, "")) : AvailableJobs(Q, "")[i] = AvailableJobs(P, "")[i]
<1> DEFINE P == Before(r, list)
           Q == After(list)
<1>1. /\ IsList(P) /\ IsList(Q) /\ IsList(list) /\ Starts(P, Q)
      /\ ToSet(P) \subseteq ToSet(Q) /\ ToSet(Q) \subseteq ToSet(list)
      /\ P \in Seq(ToSet(list)) /\ Q \in Seq(ToSet(list))
  BY ReadsAre
<1> HIDE DEF P, Q
<1>2. ASSUME NEW ask \in Asks
      PROVE  LET lists == [w \in DOMAIN Windows |-> IF w = 1 THEN P ELSE Q]
                 got == GetNew(lists, ask)
                 Candidates(l) == {FromNode(node) : node \in {n \in ToSet(l) :
                       IsBuild(n) /\ Matches(n, ask, Last(Windows)) /\ Usable(FromNode(n))}}
             IN  /\ \A b \in Candidates(P) : got # NoBuild /\ ~Newer(b, got)
                 /\ got = NoBuild \/ got \in Candidates(Q)
  <2> DEFINE lists == [w \in DOMAIN Windows |-> IF w = 1 THEN P ELSE Q]
             got == GetNew(lists, ask)
             Candidates(l) == {FromNode(node) : node \in {n \in ToSet(l) :
                   IsBuild(n) /\ Matches(n, ask, Last(Windows)) /\ Usable(FromNode(n))}}
  <2>1. Candidates(P) = Eligible(P, ask) /\ Candidates(Q) = Eligible(Q, ask)
    BY DEF Eligible, Found
  <2>2. lists = [w \in DOMAIN Windows |-> IF w = 1 THEN P ELSE Q]
    OBVIOUS
  <2> HIDE DEF lists, Candidates
  <2>3. /\ \A b \in Eligible(P, ask) : got # NoBuild /\ ~Newer(b, got)
        /\ got = NoBuild \/ got \in Eligible(Q, ask)
    BY <1>1, <2>2, NewestOfAll
  <2> QED BY <2>1, <2>3 DEF lists, Candidates
<1>3. \A i \in 1..(Len(DoneJobs(Q)) - 1) : DoneJobs(Q)[i].created <= DoneJobs(Q)[i + 1].created
  BY <1>1, DoneInOrder
<1>4. Starts(AvailableJobs(P, ""), AvailableJobs(Q, ""))
  BY <1>1, QueueGrows
<1>5. \A i \in 1..Len(AvailableJobs(P, "")) : AvailableJobs(Q, "")[i] = AvailableJobs(P, "")[i]
  BY <1>4 DEF Starts
<1> QED
  BY <1>2, <1>3, <1>5 DEF P, Q

\* Whatever the reads of a request have found.
LEMMA FoundInTime ==
  ASSUME \A r \in Requests : request[r].known \in Nat /\ request[r].known <= rows,
         rows \in Nat, rows <= MaxRows
  PROVE  FoundIsThere
<1>1. NewestIsFound
  BY FoundNow DEF NewestIsFound
<1>2. OneEntryPerBuild
  <2> SUFFICES ASSUME NEW r \in Requests, NEW list \in Listings, NEW ask \in Asks
               PROVE  Entered(list, Before(r, list), After(list), ask)
    BY DEF OneEntryPerBuild, Entered
  <2>1. /\ IsList(Before(r, list)) /\ IsList(After(list)) /\ IsList(list)
        /\ ToSet(Before(r, list)) \subseteq ToSet(list) /\ ToSet(After(list)) \subseteq ToSet(list)
    BY ReadsAre
  <2> QED BY <2>1, EntriesAre
<1>3. QueueIsInOrder
  BY FoundNow DEF QueueIsInOrder
<1>4. DayIsCovered
  <2> SUFFICES ASSUME NEW r \in Requests, NEW list \in Listings, NEW day \in {NoId, Today - 1},
                      NEW redo \in BOOLEAN
               PROVE  LET ask == [tree |-> "next", branch |-> "", passing |-> FALSE]
                          builds == DayBuilds(After(list), ask, day, 1, Want)
                          recorded == {b.build : b \in ToSet(Fetch(Before(r, list), ask, 0, Want))} \X {"boot"}
                          run == DayRuns(builds, Tests, recorded, redo)
                      IN  /\ \A kept \in SUBSET ToSet(run) : DayIsTold(builds, recorded, redo, kept)
                          /\ day # NoId => \A b \in ToSet(builds) : b.created = day
    BY DEF DayIsCovered
  <2> DEFINE ask == [tree |-> "next", branch |-> "", passing |-> FALSE]
             builds == DayBuilds(After(list), ask, day, 1, Want)
             recorded == {b.build : b \in ToSet(Fetch(Before(r, list), ask, 0, Want))} \X {"boot"}
  <2>1. IsList(After(list)) /\ Want \in Nat
    BY ReadsAre, ApiAssumption
  <2>2. builds \in Seq(ToSet(builds)) /\ (day # NoId => \A b \in ToSet(builds) : b.created = day)
    BY <2>1, DayBuildsAre
  <2> HIDE DEF builds, recorded
  <2>3. \A kept \in SUBSET ToSet(DayRuns(builds, Tests, recorded, redo)) :
            DayIsTold(builds, recorded, redo, kept)
    BY <2>2, DayIsRight
  <2> QED BY <2>2, <2>3 DEF builds, recorded
<1> QED
  BY <1>1, <1>2, <1>3, <1>4 DEF FoundIsThere

\* What is found is what there is, however many rows the API's list has, whatever is in
\* them, however many windows there are and however the list grows between two reads: the
\* newest build, one entry per build, the queue in its order, and of a day every test of
\* every build run or on record, whichever of its records could be written.
THEOREM WhatIsFoundIsThere == Spec => []FoundIsThere
<1>1. Inductive => FoundIsThere
  <2> SUFFICES ASSUME Inductive PROVE FoundIsThere
    OBVIOUS
  <2>1. \A r \in Requests : request[r].known \in Nat /\ request[r].known <= rows
    BY DEF Inductive, Good, Clocked, Records
  <2>2. rows \in Nat /\ rows <= MaxRows
    BY DEF Inductive, Around
  <2> QED BY <2>1, <2>2, FoundInTime
<1> QED
  BY <1>1, Invariance, PTL
=============================================================================
