----------------------------- MODULE ApiClient -----------------------------
(***************************************************************************)
(* The reads of lib/api.py as the requests of the page's server make them: *)
(* a memo per request, one cache per process with the time each answer was *)
(* stored, a deadline shared by all reads of a request; and two callers    *)
(* on top of them, the tail of a list of nodes (`Api.nodes`) and a build's *)
(* .config: the copy of it kept on disk, the one a pull of the build left, *)
(* or its URL's (`_config_text`, `_keep_config` of lib/drift.py).          *)
(*                                                                         *)
(* A caller that never began a request, like the worker's `_claim`, gets   *)
(* no memo, no answer of the cache and no deadline; what it is answered is *)
(* cached all the same, for the requests of its process.                   *)
(*                                                                         *)
(* The API's list only grows, and row i is the i-th node, so an answer is  *)
(* told by how long the list was when the API wrote it.  A read is three   *)
(* steps, asked, answered and stored, and time passes between any two.     *)
(***************************************************************************)
EXTENDS Integers, Sequences, SequencesExt, FiniteSetsExt, Functions

CONSTANTS
    Requests,   \* threads of the page's server, one request each at a time
    Want,       \* how many rows a list is asked for
    PageSize,   \* PAGE
    Ttls,       \* the freshness a request may ask for
    MaxTtl,     \* MAX_TTL
    MaxCache,   \* MAX_CACHE
    Budget,     \* the seconds a request may spend on the API
    MaxRows,    \* bound: the length of the list
    MaxNow,     \* bound: the clock
    MaxServed,  \* bound: requests begun
    MaxFaults   \* bound: failed reads, short pages, damaged, replaced and partial files

ASSUME ApiAssumption ==
    /\ Want \in Nat \ {0} /\ PageSize \in Nat \ {0}
    /\ Ttls \subseteq 0..MaxTtl
    /\ MaxTtl \in Nat /\ MaxCache \in Nat \ {0} /\ Budget \in Nat \ {0}
    /\ MaxRows \in Nat /\ Want <= MaxRows
    /\ MaxNow \in Nat /\ MaxServed \in Nat /\ MaxFaults \in Nat

VARIABLES
    now,       \* `time.monotonic()`
    rows,      \* the length of the API's list
    cache,     \* `_CACHE`: key -> the answer
    request,   \* a thread's scope, where it is, and its local variables
    file,      \* the kept .config: the text's version, NoText or Cut
    note,      \* the version its sidecar describes
    tmp,       \* the temporary name of each
    text,      \* the version of the .config at its URL
    pulled,    \* the .config a pull of the build left in its downloads, or NoText
    served, faults

disk == <<file, note, tmp>>
outside == <<now, rows, text, pulled>>
vars == <<outside, cache, request, disk, served, faults>>

NoText == 0
Cut == -1       \* not what any note describes, though it still parses
Part == 3       \* the beginning of one, of a host that declares no length; it parses too

Count == [path |-> "count", offset |-> 0, limit |-> 0]
Config == [path |-> "config", offset |-> 0, limit |-> 0]
Node == [path |-> "node", offset |-> 0, limit |-> 0]
PageOf(offset, limit) == [path |-> "nodes", offset |-> offset, limit |-> limit]

\* An answer: how long the list was (or which text it is), the rows it carries, when
\* the API wrote it and when it was stored, and whether its asker had a deadline.
NoAnswer == [total |-> 0, items |-> <<>>, born |-> 0, stored |-> 0, rows |-> 0, timed |-> TRUE]

Idle == [at |-> "idle", scoped |-> TRUE, ttl |-> 0, memo |-> <<>>, age |-> -1, deadline |-> 0,
         back |-> "idle", got |-> NoAnswer, start |-> 0, items |-> <<>>,
         text |-> NoText, known |-> 0]

Fault == faults < MaxFaults /\ faults' = faults + 1
Fine == UNCHANGED faults

Set(r, q) == request' = [request EXCEPT ![r] = q]
-----------------------------------------------------------------------------
(* A request begins: `begin_request`, or no scope at all.                  *)

\* Mutant: the throwaway scope stays on the thread, and its memo with it.
BeginOnTheThread(r, page) ==
    /\ request[r].at \in {"idle", "done", "error"} /\ served < MaxServed
    /\ Set(r, [Idle EXCEPT !.at = page, !.scoped = FALSE, !.known = rows,
                           !.memo = request[r].memo])
    /\ served' = served + 1 /\ Fine
    /\ UNCHANGED <<outside, cache, disk>>

Begin(r, page, ttl) ==
    /\ request[r].at \in {"idle", "done", "error"} /\ served < MaxServed
    /\ Set(r, [Idle EXCEPT !.at = page, !.ttl = ttl, !.deadline = now + Budget, !.known = rows])
    /\ served' = served + 1 /\ Fine
    /\ UNCHANGED <<outside, cache, disk>>

BeginUnscoped(r, page) ==
    /\ request[r].at \in {"idle", "done", "error"} /\ served < MaxServed
    /\ Set(r, [Idle EXCEPT !.at = page, !.scoped = FALSE, !.known = rows])
    /\ served' = served + 1 /\ Fine
    /\ UNCHANGED <<outside, cache, disk>>
-----------------------------------------------------------------------------
(* One read: `Api._request`.                                               *)

\* `_page_size`: the cap's remainder, never more.
Ask(got) == Min({PageSize, Max({1, Want - got})})

\* What a request at a step of its own asks for.
Key(q) ==
    CASE q.at = "count" -> Count
      [] q.at = "first" -> PageOf(0, Ask(0))
      [] q.at = "walk" -> PageOf(q.start + Len(q.items), Ask(Len(q.items)))
      [] q.at = "fetch" -> Config
      [] q.at = "claim" -> Node

Asking(r) == request[r].at \in {"count", "first", "walk", "fetch", "claim"}
Answered(r) == Key(request[r]) \in DOMAIN request[r].memo

\* Mutant: an answer as old as the freshness asked for will do.
OldAsAllowed(q) ==
    /\ q.ttl > 0 /\ Key(q) \in DOMAIN cache
    /\ now - cache[Key(q)].stored <= q.ttl

\* `_cached`: an answer younger than this request allows.
Young(q) ==
    /\ q.ttl > 0 /\ Key(q) \in DOMAIN cache
    /\ now - cache[Key(q)].stored < q.ttl

Learn(q, key, answer) ==
    [q EXCEPT !.memo = [k \in DOMAIN q.memo \cup {key} |->
                           IF k = key THEN answer ELSE q.memo[k]]]

\* Mutant: a cached answer passes for one just asked for.
FromCacheUntold(r) ==
    LET q == request[r]
        found == cache[Key(q)]
    IN  /\ Asking(r) /\ ~Answered(r) /\ Young(q)
        /\ Set(r, Learn(q, Key(q), found))
        /\ Fine /\ UNCHANGED <<outside, cache, disk, served>>

FromCache(r) ==
    LET q == request[r]
        found == cache[Key(q)]
    IN  /\ Asking(r) /\ ~Answered(r) /\ Young(q)
        /\ Set(r, Learn([q EXCEPT !.age = Max({@, now - found.stored})], Key(q), found))
        /\ Fine /\ UNCHANGED <<outside, cache, disk, served>>

Late(q) == q.scoped /\ now >= q.deadline

Send(r) ==
    LET q == request[r]
    IN  /\ Asking(r) /\ ~Answered(r) /\ ~Young(q) /\ ~Late(q)
        /\ Set(r, [q EXCEPT !.at = "sent", !.back = q.at])
        /\ Fine /\ UNCHANGED <<outside, cache, disk, served>>

\* The rows of a page of the list as it now is; a page may come back short.
RowsOf(key, most) ==
    LET last == Min({rows, key.offset + most})
    IN  [i \in 1..Max({0, last - key.offset}) |-> key.offset + i]

Answers(r) ==
    LET q == request[r]
        key == Key([q EXCEPT !.at = q.back])
    IN  /\ q.at = "sent"
        /\ \E most \in 1..Max({1, key.limit}),
              sent \in IF key = Config THEN {text, Part} ELSE {text} :
              /\ IF most = Max({1, key.limit}) /\ sent = text THEN Fine ELSE Fault
              /\ Set(r, [q EXCEPT !.at = "read",
                     !.got = [total |-> IF key = Config THEN sent ELSE rows, born |-> now,
                              stored |-> 0, rows |-> rows, timed |-> q.scoped,
                              items |-> IF key.path = "nodes" THEN RowsOf(key, most) ELSE <<>>]])
        /\ UNCHANGED <<outside, cache, disk, served>>

\* Neither a count that fails nor one that comes too late fails the page.
Failed(q) ==
    IF q.back = "count" THEN [q EXCEPT !.got = NoAnswer, !.at = "first"]
    ELSE [Idle EXCEPT !.at = "error"]

\* A connection that is refused three times, a bad status, a body cut short.
Fails(r) ==
    /\ request[r].at \in {"sent", "read"} /\ Fault
    /\ Set(r, Failed(request[r]))
    /\ UNCHANGED <<outside, cache, disk, served>>

\* Out of budget before it is asked, or while the body is still coming.
TooLate(r) ==
    LET q == request[r]
    IN  /\ \/ Asking(r) /\ ~Answered(r) /\ ~Young(q) /\ Set(r, Failed([q EXCEPT !.back = q.at]))
           \/ q.at \in {"sent", "read"} /\ Set(r, Failed(q))
        /\ Late(q) /\ Fine
        /\ UNCHANGED <<outside, cache, disk, served>>

\* `_remember`: what is stale goes first, then what is oldest.
Remember(key, answer) ==
    LET fresh == {k \in DOMAIN cache : now - cache[k].stored < MaxTtl}
        oldest == {k \in fresh : \A l \in fresh : cache[k].stored <= cache[l].stored}
        kept == IF Cardinality(fresh) < MaxCache THEN fresh
                ELSE fresh \ {CHOOSE k \in oldest : TRUE}
    IN  [k \in kept \cup {key} |-> IF k = key THEN answer ELSE cache[k]]

\* The clock is read after every piece of the body, the last one included.  What is
\* learnt is remembered, whoever asked.
Store(r) ==
    LET q == request[r]
        back == [q EXCEPT !.at = q.back, !.got = NoAnswer]
        answer == [q.got EXCEPT !.stored = now]
    IN  /\ q.at = "read" /\ ~Late(q)
        /\ Set(r, Learn(back, Key(back), answer))
        /\ cache' = Remember(Key(back), answer)
        /\ Fine /\ UNCHANGED <<outside, disk, served>>
-----------------------------------------------------------------------------
(* `Api.nodes`: the newest Want rows of a list that is served oldest first. *)

Answer(r) == request[r].memo[Key(request[r])]

Counted(r) ==
    LET q == request[r]
    IN  /\ q.at = "count" /\ Answered(r)
        /\ Set(r, [q EXCEPT !.at = "walk", !.start = Max({0, Answer(r).total - Want})])
        /\ Fine /\ UNCHANGED <<outside, cache, disk, served>>

\* Mutant: the first page is kept wherever the answer begins.
FirstPageKept(r) ==
    LET q == request[r]
        a == Answer(r)
        all == a.total <= Want
    IN  /\ q.at = "first" /\ Answered(r)
        /\ Set(r, [q EXCEPT !.items = a.items,
                            !.start = IF all THEN 0 ELSE a.total - Want,
                            !.at = IF all /\ Len(a.items) >= a.total THEN "done" ELSE "walk"])
        /\ Fine /\ UNCHANGED <<outside, cache, disk, served>>

\* Without a count the first page says how long the list is, and is part of the
\* answer only when the answer begins there.
FirstPage(r) ==
    LET q == request[r]
        a == Answer(r)
        all == a.total <= Want
    IN  /\ q.at = "first" /\ Answered(r)
        /\ Set(r, [q EXCEPT !.items = IF all THEN a.items ELSE <<>>,
                            !.start = IF all THEN 0 ELSE a.total - Want,
                            !.at = IF all /\ Len(a.items) >= a.total THEN "done" ELSE "walk"])
        /\ Fine /\ UNCHANGED <<outside, cache, disk, served>>

NextPage(r) ==
    LET q == request[r]
        items == q.items \o Answer(r).items
        over == \/ Len(items) >= Want
                \/ Answer(r).items = <<>>
                \/ q.start + Len(items) >= Answer(r).total
    IN  /\ q.at = "walk" /\ Answered(r)
        /\ Set(r, [q EXCEPT !.items = SubSeq(items, 1, Min({Want, Len(items)})),
                            !.at = IF over THEN "done" ELSE "walk"])
        /\ Fine /\ UNCHANGED <<outside, cache, disk, served>>

\* `Poller._claim`, and whoever else reads outside a request.
Claimed(r) ==
    /\ request[r].at = "claim" /\ Answered(r)
    /\ Set(r, [request[r] EXCEPT !.at = "done"])
    /\ Fine /\ UNCHANGED <<outside, cache, disk, served>>
-----------------------------------------------------------------------------
(* `_config_text`: the kept copy, else the pulled one, else the URL's, and *)
(* what is not yet kept is kept.                                           *)

\* Mutant: the note is not compared.
KeptUnchecked(r) ==
    LET q == request[r]
    IN  /\ q.at = "config"
        /\ Set(r, IF q.ttl = 0 \/ note = NoText \/ file = NoText THEN [q EXCEPT !.at = "pulled"]
                  ELSE [q EXCEPT !.at = "done", !.text = file])
        /\ Fine /\ UNCHANGED <<outside, cache, disk, served>>

\* A copy that does not match its note is refused; one without is not there.
Kept(r) ==
    LET q == request[r]
    IN  /\ q.at = "config"
        /\ Set(r, CASE q.ttl = 0 \/ note = NoText \/ file = NoText -> [q EXCEPT !.at = "pulled"]
                    [] q.ttl > 0 /\ note # NoText /\ file = note ->
                          [q EXCEPT !.at = "done", !.text = file]
                    [] OTHER -> [Idle EXCEPT !.at = "error"])
        /\ Fine /\ UNCHANGED <<outside, cache, disk, served>>

\* `_already_kept`: an identical copy is left alone.
KeepConfig(q, got) ==
    [q EXCEPT !.text = got, !.at = IF file = got /\ note = got THEN "done" ELSE "file.tmp"]

\* The copy of the pull is taken as it is, and whatever freshness was asked for.
Pulled(r) ==
    LET q == request[r]
    IN  /\ q.at = "pulled"
        /\ Set(r, IF pulled = NoText THEN [q EXCEPT !.at = "fetch"] ELSE KeepConfig(q, pulled))
        /\ Fine /\ UNCHANGED <<outside, cache, disk, served>>

Fetched(r) ==
    /\ request[r].at = "fetch" /\ Answered(r)
    /\ Set(r, KeepConfig(request[r], Answer(r).total))
    /\ Fine /\ UNCHANGED <<outside, cache, disk, served>>

\* `write_text`, twice: a temporary name that every writer shares, then its rename.
WriteTmp(r) ==
    LET q == request[r]
    IN  /\ Fine /\ UNCHANGED <<outside, cache, file, note, served>>
        /\ \/ /\ q.at = "file.tmp" /\ Set(r, [q EXCEPT !.at = "file"])
              /\ tmp' = [tmp EXCEPT !.file = q.text]
           \/ /\ q.at = "note.tmp" /\ Set(r, [q EXCEPT !.at = "note"])
              /\ tmp' = [tmp EXCEPT !.note = q.text]

RenameTmp(r) ==
    LET q == request[r]
    IN  /\ Fine /\ UNCHANGED <<outside, cache, served>>
        /\ \/ /\ q.at = "file" /\ tmp.file # NoText /\ Set(r, [q EXCEPT !.at = "note.tmp"])
              /\ file' = tmp.file /\ tmp' = [tmp EXCEPT !.file = NoText] /\ UNCHANGED note
           \/ /\ q.at = "note" /\ tmp.note # NoText /\ Set(r, [q EXCEPT !.at = "done"])
              /\ note' = tmp.note /\ tmp' = [tmp EXCEPT !.note = NoText] /\ UNCHANGED file

\* A cache that cannot be written is not a failure: another writer took the
\* temporary name, or the disk refused.
GiveUpKeeping(r) ==
    LET q == request[r]
    IN  /\ \/ q.at = "file" /\ tmp.file = NoText /\ Fine
           \/ q.at = "note" /\ tmp.note = NoText /\ Fine
           \/ q.at \in {"file.tmp", "note.tmp"} /\ Fault
        /\ Set(r, [q EXCEPT !.at = "done"])
        /\ UNCHANGED <<outside, cache, disk, served>>
-----------------------------------------------------------------------------
(* The others.                                                             *)

Here == UNCHANGED <<cache, request, served>>

Tick == now < MaxNow /\ now' = now + 1 /\ Fine /\ Here /\ UNCHANGED <<rows, text, pulled, disk>>

NodeIsMade ==
    rows < MaxRows /\ rows' = rows + 1 /\ Fine /\ Here /\ UNCHANGED <<now, text, pulled, disk>>

ConfigIsReplaced == text' = 3 - text /\ Fault /\ Here /\ UNCHANGED <<now, rows, pulled, disk>>

\* A pull of the build, whole or cut short (Fetch).
ConfigIsPulled ==
    /\ pulled = NoText
    /\ \/ pulled' = text /\ Fine
       \/ pulled' = Part /\ Fault
    /\ Here /\ UNCHANGED <<now, rows, text, disk>>

ConfigIsDamaged ==
    /\ file # NoText /\ file' = Cut /\ Fault
    /\ Here /\ UNCHANGED <<outside, note, tmp>>

Init ==
    /\ now = 0 /\ rows = Want /\ text = 1 /\ pulled = NoText
    /\ cache = <<>> /\ request = [r \in Requests |-> Idle]
    /\ file = NoText /\ note = NoText /\ tmp = [file |-> NoText, note |-> NoText]
    /\ served = 0 /\ faults = 0

Arrive(r) ==
    \/ \E page \in {"count", "config"}, ttl \in Ttls : Begin(r, page, ttl)
    \/ \E page \in {"claim", "config"} : BeginUnscoped(r, page)

Read(r) == FromCache(r) \/ Send(r) \/ Answers(r) \/ Fails(r) \/ TooLate(r) \/ Store(r)
List(r) == Counted(r) \/ FirstPage(r) \/ NextPage(r) \/ Claimed(r)
Compare(r) == Kept(r) \/ Pulled(r) \/ Fetched(r) \/ WriteTmp(r) \/ RenameTmp(r) \/ GiveUpKeeping(r)

Next ==
    \/ \E r \in Requests : Arrive(r) \/ Read(r) \/ List(r) \/ Compare(r)
    \/ Tick \/ NodeIsMade \/ ConfigIsReplaced \/ ConfigIsPulled \/ ConfigIsDamaged

Spec == Init /\ [][Next]_vars
-----------------------------------------------------------------------------
(* Correctness.                                                            *)

Texts == {NoText, Cut, 1, 2, Part}

\* Every variable has its type, and the cache its limit.
TypeOK ==
    /\ now \in 0..MaxNow /\ rows \in 1..MaxRows /\ text \in {1, 2}
    /\ pulled \in {NoText, 1, 2, Part}
    /\ Cardinality(DOMAIN cache) <= MaxCache
    /\ \A k \in DOMAIN cache : cache[k].stored \in 0..now
    /\ \A r \in Requests :
          /\ request[r].at \in {"idle", "count", "first", "walk", "claim", "sent", "read",
                                "config", "pulled", "fetch", "file.tmp", "file", "note.tmp", "note",
                                "done", "error"}
          /\ request[r].ttl \in Ttls \cup {0} /\ request[r].age \in -1..MaxTtl
          /\ Len(request[r].items) <= Want
    /\ file \in Texts /\ note \in Texts \ {Cut} /\ tmp \in [{"file", "note"} -> Texts \ {Cut}]
    /\ served \in 0..MaxServed /\ faults \in 0..MaxFaults

\* The rows a list ends with are consecutive and reach as far as the list did in one
\* of the answers it is made of, though it grows between the pages and pages come
\* back short or out of the cache (api.py, `nodes`: the tail).
AnswerIsTheTail ==
    \A r \in Requests :
        LET q == request[r]
        IN  q.at = "done" /\ q.items # <<>> =>
              /\ \A i \in 1..(Len(q.items) - 1) : q.items[i + 1] = q.items[i] + 1
              /\ \E k \in DOMAIN q.memo : Last(q.items) >= q.memo[k].total

\* A request that asked for some freshness knows nothing that was stored longer ago than
\* that when it was used, and what a request stored was written within its own budget (a
\* tick is the unit; who reads outside a request has no budget, and stores what may be
\* older).  One that asked for nothing old, or no request at all, knows nothing from
\* before it began (poller.py, `_claim`: is it still available).
NothingOlderThanAsked ==
    \A r \in Requests :
        LET q == request[r]
        IN  \A k \in DOMAIN q.memo :
              /\ q.ttl = 0 => q.memo[k].rows >= q.known
              /\ q.ttl > 0 => q.deadline - q.memo[k].stored <= q.ttl + Budget - 1
              /\ q.memo[k].timed => q.memo[k].stored - q.memo[k].born <= Budget - 1

\* A page built from an answer it did not ask for itself says so, and says an age no less
\* than by how much it was stored before the page was asked for (api.py, `read_age`:
\* "the page pretending it just asked").
AgeIsTold ==
    \A r \in Requests :
        LET q == request[r]
            start == q.deadline - Budget
        IN  q.scoped => \A k \in DOMAIN q.memo :
              q.memo[k].born < start => q.age >= 0 /\ q.age >= start - q.memo[k].stored

\* An answer is as fresh as it was asked to be, and a page says how old it is.
AgesAreKept == NothingOlderThanAsked /\ AgeIsTold

\* No comparison is made of a text that was damaged after it was kept, whoever is
\* writing the copy and its note meanwhile; and one that is asked for nothing kept is
\* made of what the pull left or of what the URL answered to it (drift.py,
\* `_config_text`: "A request that asked for freshness gets it").
ComparedIsSound ==
    \A r \in Requests :
        LET q == request[r]
        IN  q.at = "done" =>
              /\ q.text # Cut
              /\ q.ttl = 0 => \/ q.text \in {NoText, pulled}
                              \/ Config \in DOMAIN q.memo /\ q.text = q.memo[Config].total

\* No comparison is made of a part of a text (drift.py, `_config_local`: "proven whole
\* to be on disk at all"; `_config_text`: "a truncated body would parse into a wrong
\* answer ... and `_kept_config` is what catches it").
NeverComparesAPart == \A r \in Requests : request[r].at = "done" => request[r].text # Part
=============================================================================
