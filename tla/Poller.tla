------------------------------- MODULE Poller -------------------------------
(***************************************************************************)
(* The resident worker of lib/poller.py: it claims `available` job nodes   *)
(* from the API's queue, runs each one, writes the ledger row, posts the   *)
(* report to the pipeline, and remembers in one JSON state file what it    *)
(* has dealt with (`seen`), what it put down without running (`refused`)   *)
(* and which reports were written but never accepted (`pending`).          *)
(*                                                                         *)
(* Workers and the page's "forget this node" request are processes of one  *)
(* set.  Each keeps a private copy of the whole state file in memory and   *)
(* rewrites the file wholesale; only the flock on `<state>.lock` keeps two *)
(* copies from overwriting each other.  A process may be killed (nothing   *)
(* flushed) or told to stop (flushed) between any two steps.               *)
(*                                                                         *)
(* Steps are cut where another party, or a death, can tell the halves      *)
(* apart.  What a step does between two externally visible effects is one  *)
(* action: dying before the second effect is dying before the action.      *)
(***************************************************************************)
EXTENDS Integers, Sequences, SequencesExt, FiniteSets

CONSTANTS
    Nodes,        \* job nodes of the queue
    Workers,      \* worker processes (`pull_worker.py`)
    Pages,        \* requests of the page that forget a node
    Foreign,      \* nodes for another lab or a platform this host cannot boot
    Poison,       \* nodes whose definition never parses
    Rejected,     \* nodes whose report the endpoint answers with 4xx for ever
    Created,      \* a node's `created` stamp
    Now,          \* what `_iso_now()` answers
    SeenLimit,    \* SEEN_LIMIT
    MaxRetries,   \* MAX_RETRIES
    RepostEvery,  \* REPOST_EVERY, in polls that may pass without a re-post
    PageLimit,    \* EVENTS_PAGE_MAX
    MaxFaults,    \* bound: kills, signals, forgets, switch-offs and corruptions
    NoProc, NoNode

ASSUME PollerAssumption ==
    /\ Foreign \subseteq Nodes /\ Poison \subseteq Nodes /\ Rejected \subseteq Nodes
    /\ Created \in [Nodes -> Nat] /\ Now \in Nat
    /\ SeenLimit \in Nat \ {0} /\ MaxRetries \in Nat \ {0}
    /\ RepostEvery \in Nat /\ PageLimit \in Nat \ {0} /\ MaxFaults \in Nat
    /\ Workers \cap Pages = {}
    /\ NoProc \notin Workers \cup Pages /\ NoNode \notin Nodes

VARIABLES
    queue,      \* the API: a node is not created yet, available, or gone
    callbacks,  \* the operator's switch: reports go "on" or are "off"
    readable,   \* the state file parses (an absent file reads as EmptyState)
    disk,       \* what the state file says
    lock,       \* the process holding the flock
    pc,         \* where a process is
    mem,        \* a process's copy of the state file
    dirty,      \* the copy has changes the file has not
    todo,       \* nodes the loop at hand has yet to visit
    batch,      \* the events batch being drained
    cur,        \* the node being handled
    held,       \* some event of the batch was not handled
    failures,   \* consecutive failed event reads
    skips,      \* polls since pending reports were last re-posted
    wanted,     \* whether the sinks of the run at hand post its report: "on" or "off"
    spent,      \* history: nodes run, with nothing since to excuse a second run
    report,     \* history: where the report of a node's latest run got to
    faults      \* history: faults so far (bounded by MaxFaults)

queueVars == <<queue, callbacks>>
store == <<readable, disk>>
locals == <<pc, mem, dirty, todo, batch, cur, held, failures, skips, wanted>>
history == <<spent, report>>
vars == <<queueVars, store, lock, locals, history, faults>>

Procs == Workers \cup Pages

StateFile == [timestamp: Nat, seen: Seq(Nodes), refused: SUBSET Nodes, pending: SUBSET Nodes]
EmptyState == [timestamp |-> 0, seen |-> <<>>, refused |-> {}, pending |-> {}]

\* `seen` lists a node once and stays within SEEN_LIMIT.
WellFormed(s) ==
    /\ Len(s.seen) <= SeenLimit
    /\ IsInjective(s.seen)

-----------------------------------------------------------------------------
(* The state file's operations, as functions of a copy of it.              *)

Seen(s) == ToSet(s.seen)

\* Mutant: the limit is off by one.
MarkSeenPastLimit(s, n) ==
    IF n \in Seen(s) THEN s
    ELSE IF Len(s.seen) <= SeenLimit THEN [s EXCEPT !.seen = Append(@, n)]
    ELSE [s EXCEPT !.seen = Append(Tail(@), n), !.refused = @ \ {Head(s.seen)}]

\* Mutant: an undelivered report leaves its node unseen.
MarkSeenUnlessOwed(s, n) ==
    IF n \in Seen(s) \cup s.pending THEN s
    ELSE IF Len(s.seen) < SeenLimit THEN [s EXCEPT !.seen = Append(@, n)]
    ELSE [s EXCEPT !.seen = Append(Tail(@), n), !.refused = @ \ {Head(s.seen)}]

\* `mark_seen`: append once; past the limit the oldest entry goes, and its
\* refusal with it.  The limit held before, so at most one entry is over it.
MarkSeen(s, n) ==
    IF n \in Seen(s) THEN s
    ELSE IF Len(s.seen) < SeenLimit THEN [s EXCEPT !.seen = Append(@, n)]
    ELSE [s EXCEPT !.seen = Append(Tail(@), n), !.refused = @ \ {Head(s.seen)}]

Evicted(s, n) == Seen(s) \ Seen(MarkSeen(s, n))

\* Mutant: the node is put down without a reason.
RefuseSilently(s, n) == s

\* `refuse`: the reason beside the mark the caller is about to make.
RefuseNode(s, n) == [s EXCEPT !.refused = @ \cup {n}]

\* Mutants: a refused report is dropped; a delivered one is kept.
OweNothing(s, n) == s
SettleNothing(s, n) == s

\* `pending`, set and cleared.
Owe(s, n) == [s EXCEPT !.pending = @ \cup {n}]

Settle(s, n) == [s EXCEPT !.pending = @ \ {n}]

\* Mutant: forgetting a node forgets its unposted report.
ForgetEverything(s, n) ==
    [s EXCEPT !.seen = RemoveAt(@, CHOOSE i \in DOMAIN s.seen : s.seen[i] = n),
              !.refused = @ \ {n}, !.pending = @ \ {n}]

\* `forget`, for a node that is in `seen` (it is there once): the mark and the
\* refusal go, the unposted report stays.
ForgetNode(s, n) ==
    [s EXCEPT !.seen = RemoveAt(@, CHOOSE i \in DOMAIN s.seen : s.seen[i] = n),
              !.refused = @ \ {n}]

-----------------------------------------------------------------------------
(* Writing the file and leaving.                                           *)

Write(s) == readable' = TRUE /\ disk' = s

\* `flush`: the copy `s` goes out, if process p has changes.
Flush(p, s) == IF dirty[p] THEN Write(s) ELSE UNCHANGED store

Goto(p, label) == pc' = [pc EXCEPT ![p] = label]

\* The process is gone: its memory with it, and the kernel drops the flock.
Leave(p) ==
    /\ Goto(p, "off")
    /\ lock' = NoProc
    /\ mem' = [mem EXCEPT ![p] = EmptyState]
    /\ dirty' = [dirty EXCEPT ![p] = FALSE]
    /\ todo' = [todo EXCEPT ![p] = {}]
    /\ batch' = [batch EXCEPT ![p] = {}]
    /\ cur' = [cur EXCEPT ![p] = NoNode]
    /\ held' = [held EXCEPT ![p] = FALSE]
    /\ failures' = [failures EXCEPT ![p] = 0]
    /\ skips' = [skips EXCEPT ![p] = 0]
    /\ wanted' = [wanted EXCEPT ![p] = "on"]

\* Mutant: the second worker races instead of exiting.
AcquireRegardless(p) == lock' = p

\* `_acquire`, and the first lines of `forget_node`: the flock or nothing.  A
\* process that finds it taken exits (or answers "locked") and changes nothing.
Acquire(p) == lock = NoProc /\ lock' = p

-----------------------------------------------------------------------------
(* The worker: start, and the re-post of what is owed.                     *)

\* `load`: an unreadable file is refused with a warning and read as empty.
Load == IF readable THEN disk ELSE EmptyState

\* `loop`/`once` up to the first poll, whose re-post is never throttled.
Start(w) ==
    /\ pc[w] = "off"
    /\ Acquire(w)
    /\ mem' = [mem EXCEPT ![w] = Load]
    /\ todo' = [todo EXCEPT ![w] = Load.pending]
    /\ Goto(w, "repost")
    \* With the file lost, so is the memory of every run.
    /\ spent' = IF readable THEN spent ELSE {}
    /\ UNCHANGED <<queueVars, store, dirty, batch, cur, held, failures, skips, wanted,
                   report, faults>>

\* The POST's answers: accepted, accepted but the answer never arrived, or
\* refused (4xx, 5xx, no network).  With callbacks off there is no POST.
Answers(n, switch) ==
    IF switch = "off" \/ n \in Rejected THEN {"refused"}
    ELSE {"accepted", "unheard", "refused"}

Arrived(n, answer) ==
    CASE answer = "accepted" -> [report EXCEPT ![n] = "acked"]
      [] answer = "unheard" -> [report EXCEPT ![n] = "received"]
      [] OTHER -> report

\* Mutant: the debt is settled whatever was answered.
RepostRegardless(w, n, answer) ==
    /\ pc[w] = "repost" /\ n \in todo[w] /\ answer \in Answers(n, callbacks)
    /\ todo' = [todo EXCEPT ![w] = @ \ {n}]
    /\ report' = Arrived(n, answer)
    /\ mem' = [mem EXCEPT ![w] = MarkSeen(Settle(@, n), n)]
    /\ dirty' = [dirty EXCEPT ![w] = TRUE]
    /\ spent' = spent \ Evicted(mem[w], n)
    /\ UNCHANGED <<queueVars, store, lock, pc, batch, cur, held, failures, skips, wanted,
                   faults>>

\* One turn of `_repost_pending`: only an answer that was heard settles the debt.
Repost(w, n, answer) ==
    /\ pc[w] = "repost" /\ n \in todo[w] /\ answer \in Answers(n, callbacks)
    /\ todo' = [todo EXCEPT ![w] = @ \ {n}]
    /\ report' = Arrived(n, answer)
    /\ IF answer = "accepted"
       THEN /\ mem' = [mem EXCEPT ![w] = MarkSeen(Settle(@, n), n)]
            /\ dirty' = [dirty EXCEPT ![w] = TRUE]
            /\ spent' = spent \ Evicted(mem[w], n)
       ELSE UNCHANGED <<mem, dirty, spent>>
    /\ UNCHANGED <<queueVars, store, lock, pc, batch, cur, held, failures, skips, wanted,
                   faults>>

\* The flush that ends `_repost_pending`.
RepostDone(w) ==
    /\ pc[w] = "repost" /\ todo[w] = {}
    /\ Flush(w, mem[w])
    /\ dirty' = [dirty EXCEPT ![w] = FALSE]
    /\ skips' = [skips EXCEPT ![w] = 0]
    /\ Goto(w, "fetch")
    /\ UNCHANGED <<queueVars, lock, mem, todo, batch, cur, held, failures, wanted, history,
                   faults>>

-----------------------------------------------------------------------------
(* The worker: the events batch.                                           *)

Available == {n \in Nodes : queue[n] = "available"}

\* What the events feed may answer: the queue, and replayed nodes that have
\* left it since; one page of at most PageLimit, with no second page asked for.
Feed ==
    {S \in SUBSET {n \in Nodes : queue[n] # "none"} :
        Available \subseteq S \/ Cardinality(S) = PageLimit}

\* Mutant: the persisted cursor is the floor of the query.
FetchFromCursor(w) ==
    /\ pc[w] = "fetch"
    /\ \E S \in Feed :
        LET newer == {n \in S : Created[n] > mem[w].timestamp} IN
        /\ batch' = [batch EXCEPT ![w] = newer]
        /\ todo' = [todo EXCEPT ![w] = newer]
    /\ held' = [held EXCEPT ![w] = FALSE]
    /\ failures' = [failures EXCEPT ![w] = 0]
    /\ Goto(w, "drain")
    /\ UNCHANGED <<queueVars, store, lock, mem, dirty, cur, skips, wanted, history, faults>>

\* `events`, and the reset of the failure count.
Fetch(w) ==
    /\ pc[w] = "fetch"
    /\ \E S \in Feed :
        /\ batch' = [batch EXCEPT ![w] = S]
        /\ todo' = [todo EXCEPT ![w] = S]
    /\ held' = [held EXCEPT ![w] = FALSE]
    /\ failures' = [failures EXCEPT ![w] = 0]
    /\ Goto(w, "drain")
    /\ UNCHANGED <<queueVars, store, lock, mem, dirty, cur, skips, wanted, history, faults>>

\* The read fails and is retried after a sleep.
FetchFails(w) ==
    /\ pc[w] = "fetch" /\ failures[w] + 1 < MaxRetries
    /\ failures' = [failures EXCEPT ![w] = @ + 1]
    /\ Goto(w, "sleep")
    /\ UNCHANGED <<queueVars, store, lock, mem, dirty, todo, batch, cur, held, skips, wanted,
                   history, faults>>

\* The last retry is spent (`loop`), or `once` was told the API is down: the
\* worker exits.  `once` has nothing left to flush at this point.
FetchGivesUp(w) ==
    /\ pc[w] = "fetch"
    /\ failures[w] + 1 >= MaxRetries \/ (failures[w] = 0 /\ skips[w] = 0)
    /\ Flush(w, mem[w])
    /\ Leave(w)
    /\ UNCHANGED <<queueVars, history, faults>>

\* `_drain`'s "already seen" skip.
Skip(w, n) ==
    /\ pc[w] = "drain" /\ n \in todo[w] /\ n \in Seen(mem[w])
    /\ todo' = [todo EXCEPT ![w] = @ \ {n}]
    /\ UNCHANGED <<queueVars, store, lock, pc, mem, dirty, batch, cur, held, failures,
                   skips, wanted,
                   history, faults>>

\* A node of the batch this worker has not dealt with.
Unseen(w, n) == pc[w] = "drain" /\ n \in todo[w] /\ n \notin Seen(mem[w])

Ours(n) == queue[n] = "available" /\ n \notin Foreign

\* Mutant: the cursor does not wait for the event that failed.
ClaimFailsUnnoticed(w, n) ==
    /\ Unseen(w, n)
    /\ todo' = [todo EXCEPT ![w] = @ \ {n}]
    /\ Flush(w, mem[w])
    /\ dirty' = [dirty EXCEPT ![w] = FALSE]
    /\ UNCHANGED <<queueVars, lock, pc, mem, batch, cur, held, failures, skips, wanted,
                   history, faults>>

\* The re-read, the definition or its parsing raises: the node stays unseen and
\* holds the cursor; `finally` flushes.
ClaimFails(w, n) ==
    /\ Unseen(w, n)
    /\ todo' = [todo EXCEPT ![w] = @ \ {n}]
    /\ held' = [held EXCEPT ![w] = TRUE]
    /\ Flush(w, mem[w])
    /\ dirty' = [dirty EXCEPT ![w] = FALSE]
    /\ UNCHANGED <<queueVars, lock, pc, mem, batch, cur, failures, skips, wanted, history,
                   faults>>

\* Mutant: a refusal is answered as "not handled" and never marked.
RefuseUnmarked(w, n) ==
    /\ Unseen(w, n) /\ ~Ours(n)
    /\ mem' = [mem EXCEPT ![w] = RefuseNode(@, n)]
    /\ Write(mem'[w])
    /\ dirty' = [dirty EXCEPT ![w] = FALSE]
    /\ todo' = [todo EXCEPT ![w] = @ \ {n}]
    /\ held' = [held EXCEPT ![w] = TRUE]
    /\ UNCHANGED <<queueVars, lock, pc, batch, cur, failures, skips, wanted, history, faults>>

\* `_claim` answers None: the refusal is recorded and flushed, the mark is the
\* next step.
Refuse(w, n) ==
    /\ Unseen(w, n) /\ ~Ours(n)
    /\ mem' = [mem EXCEPT ![w] = RefuseNode(@, n)]
    /\ Write(mem'[w])
    /\ dirty' = [dirty EXCEPT ![w] = FALSE]
    /\ cur' = [cur EXCEPT ![w] = n]
    /\ Goto(w, "mark")
    /\ UNCHANGED <<queueVars, lock, todo, batch, held, failures, skips, wanted, history,
                   faults>>

\* `_claim` answers the node, its definition parses, and the sinks of the run are made:
\* where its report goes is read here (`delivery_url`), before the run.
Claim(w, n) ==
    /\ Unseen(w, n) /\ Ours(n) /\ n \notin Poison
    /\ cur' = [cur EXCEPT ![w] = n]
    /\ wanted' = [wanted EXCEPT ![w] = callbacks]
    /\ Goto(w, "run")
    /\ UNCHANGED <<queueVars, store, lock, mem, dirty, todo, batch, held, failures, skips,
                   history, faults>>

\* `Job.run` is over and its ledger row written, or refused, which the sink swallows
\* (WorkerPage tells the two apart); the report is in hand.
RunEnds(w) ==
    /\ pc[w] = "run"
    /\ spent' = spent \cup {cur[w]}
    /\ report' = [report EXCEPT ![cur[w]] = "none"]
    /\ Goto(w, "report")
    /\ UNCHANGED <<queueVars, store, lock, mem, dirty, todo, batch, cur, held, failures, skips,
                   wanted, faults>>

\* The callback sink, then `handle`'s two ways out and `_drain`'s flush.  A run
\* that ended in an internal error posts its record like any other and then
\* `raised`, so its report is kept even when it was accepted.  A sink made while
\* callbacks were off does not want the report: nothing is posted and nothing is owed.
Deliver(w, answer, raised) ==
    LET n == cur[w]
        kept == raised \/ (wanted[w] = "on" /\ answer # "accepted")
    IN  /\ pc[w] = "report" /\ answer \in Answers(n, wanted[w])
        /\ report' = IF wanted[w] = "off" THEN [report EXCEPT ![n] = "unsent"]
                     ELSE Arrived(n, IF raised /\ answer = "accepted" THEN "unheard" ELSE answer)
        /\ mem' = IF kept THEN [mem EXCEPT ![w] = Owe(@, n)] ELSE mem
        /\ IF kept THEN Write(mem'[w]) ELSE Flush(w, mem[w])
        /\ dirty' = [dirty EXCEPT ![w] = FALSE]
        /\ wanted' = [wanted EXCEPT ![w] = "on"]
        /\ Goto(w, "mark")
        /\ UNCHANGED <<queueVars, lock, todo, batch, cur, held, failures, skips, spent, faults>>

\* Mutant: `mark_seen` without the flush after it.
MarkInMemory(w) ==
    /\ pc[w] = "mark"
    /\ mem' = [mem EXCEPT ![w] = MarkSeen(@, cur[w])]
    /\ spent' = spent \ Evicted(mem[w], cur[w])
    /\ todo' = [todo EXCEPT ![w] = @ \ {cur[w]}]
    /\ cur' = [cur EXCEPT ![w] = NoNode]
    /\ Goto(w, "drain")
    /\ dirty' = [dirty EXCEPT ![w] = TRUE]
    /\ UNCHANGED <<queueVars, store, lock, batch, held, failures, skips, wanted, report,
                   faults>>

\* `mark_seen` and the flush after it.
Mark(w) ==
    /\ pc[w] = "mark"
    /\ mem' = [mem EXCEPT ![w] = MarkSeen(@, cur[w])]
    /\ Write(mem'[w])
    /\ dirty' = [dirty EXCEPT ![w] = FALSE]
    /\ spent' = spent \ Evicted(mem[w], cur[w])
    /\ todo' = [todo EXCEPT ![w] = @ \ {cur[w]}]
    /\ cur' = [cur EXCEPT ![w] = NoNode]
    /\ Goto(w, "drain")
    /\ UNCHANGED <<queueVars, lock, batch, held, failures, skips, wanted, report, faults>>

\* What `_drain` moves the cursor to: the newest stamp among it and the batch,
\* or now for an empty batch.
Stamps(s, S) == IF S = {} THEN {Now} ELSE {s.timestamp} \cup {Created[n] : n \in S}

Newest(s, S) == {t \in Stamps(s, S) : \A u \in Stamps(s, S) : u <= t}

\* The end of `_drain`: the cursor moves, in memory, if every event was handled.
DrainEnds(w) ==
    /\ pc[w] = "drain" /\ todo[w] = {}
    /\ IF held[w] THEN UNCHANGED <<mem, dirty>>
       ELSE /\ \E t \in Newest(mem[w], batch[w]) : mem' = [mem EXCEPT ![w].timestamp = t]
            /\ dirty' = [dirty EXCEPT ![w] = TRUE]
    /\ Goto(w, "sleep")
    /\ UNCHANGED <<queueVars, store, lock, todo, batch, cur, held, failures, skips, wanted,
                   history,
                   faults>>

\* Mutant: what is owed is re-posted at start-up only.
PollRepostsNothing(w) ==
    /\ pc[w] = "sleep"
    /\ todo' = [todo EXCEPT ![w] = {}]
    /\ batch' = [batch EXCEPT ![w] = {}]
    /\ held' = [held EXCEPT ![w] = FALSE]
    /\ Goto(w, "repost")
    /\ UNCHANGED <<queueVars, store, lock, mem, dirty, cur, failures, skips, wanted,
                   history, faults>>

\* The next poll, with the re-post it is due...
PollReposts(w) ==
    /\ pc[w] = "sleep"
    /\ todo' = [todo EXCEPT ![w] = mem[w].pending]
    /\ batch' = [batch EXCEPT ![w] = {}]
    /\ held' = [held EXCEPT ![w] = FALSE]
    /\ Goto(w, "repost")
    /\ UNCHANGED <<queueVars, store, lock, mem, dirty, cur, failures, skips, wanted,
                   history, faults>>

\* ...or, throttled, without it.
PollSkipsRepost(w) ==
    /\ pc[w] = "sleep" /\ skips[w] < RepostEvery
    /\ skips' = [skips EXCEPT ![w] = @ + 1]
    /\ batch' = [batch EXCEPT ![w] = {}]
    /\ held' = [held EXCEPT ![w] = FALSE]
    /\ Goto(w, "fetch")
    /\ UNCHANGED <<queueVars, store, lock, mem, dirty, todo, cur, failures, wanted,
                   history, faults>>

\* `once` returns, or the loop notices `_stopping`: the last flush.
Finish(w) ==
    /\ pc[w] = "sleep"
    /\ Flush(w, mem[w])
    /\ Leave(w)
    /\ UNCHANGED <<queueVars, history, faults>>

-----------------------------------------------------------------------------
(* The page's forget request (`forget_node`), under the worker's own flock. *)

\* Lock and parse; an unreadable file is answered and never rewritten.
ForgetReads(g, n) ==
    /\ pc[g] = "off" /\ faults < MaxFaults
    /\ readable
    /\ Acquire(g)
    /\ mem' = [mem EXCEPT ![g] = Load]
    /\ cur' = [cur EXCEPT ![g] = n]
    /\ faults' = faults + 1
    /\ Goto(g, "forget")
    /\ UNCHANGED <<queueVars, store, dirty, todo, batch, held, failures, skips, wanted,
                   history>>

\* `forget` and `flush`, then the handle is closed; "absent" writes nothing.
ForgetWrites(g) ==
    LET n == cur[g] IN
    /\ pc[g] = "forget"
    /\ IF n \in Seen(mem[g])
       THEN Write(ForgetNode(mem[g], n)) /\ spent' = spent \ {n}
       ELSE UNCHANGED <<store, spent>>
    /\ Leave(g)
    /\ UNCHANGED <<queueVars, report, faults>>

-----------------------------------------------------------------------------
(* What happens to the processes from outside.                             *)

\* Runs whose mark never reached the file may be repeated: the excuse.
Interrupted(p) == IF pc[p] \in {"report", "mark"} THEN {cur[p]} ELSE {}

\* SIGKILL, a reboot, or a signal `once` has no handler for.
Kill(p) ==
    /\ pc[p] # "off" /\ faults < MaxFaults
    /\ Leave(p)
    /\ spent' = spent \ Interrupted(p)
    /\ faults' = faults + 1
    /\ UNCHANGED <<queueVars, store, report>>

\* SIGTERM to a looping worker: the handler flushes what memory holds and exits.
Terminate(w) ==
    /\ pc[w] # "off" /\ faults < MaxFaults
    /\ Flush(w, mem[w])
    /\ Leave(w)
    /\ spent' = spent \ Interrupted(w)
    /\ faults' = faults + 1
    /\ UNCHANGED <<queueVars, report>>

\* The file stops parsing: a power loss on an unsynced rename, a hand edit.
Corrupt ==
    /\ readable /\ faults < MaxFaults
    /\ readable' = FALSE /\ disk' = EmptyState
    /\ faults' = faults + 1
    /\ UNCHANGED <<queueVars, lock, locals, history>>

\* `set_callback_override`, the two answers the worker tells apart.
SwitchOff ==
    /\ callbacks = "on" /\ faults < MaxFaults
    /\ callbacks' = "off"
    /\ faults' = faults + 1
    /\ UNCHANGED <<queue, store, lock, locals, history>>

SwitchOn ==
    /\ callbacks = "off" /\ callbacks' = "on"
    /\ UNCHANGED <<queue, store, lock, locals, history, faults>>

\* The pipeline dispatches a node; and a node leaves the queue, because its
\* report closed it, its deadline passed or another lab took it.
Dispatch(n) ==
    /\ queue[n] = "none" /\ queue' = [queue EXCEPT ![n] = "available"]
    /\ UNCHANGED <<callbacks, store, lock, locals, history, faults>>

Close(n) ==
    /\ queue[n] = "available" /\ queue' = [queue EXCEPT ![n] = "gone"]
    /\ UNCHANGED <<callbacks, store, lock, locals, history, faults>>

-----------------------------------------------------------------------------
Init ==
    /\ queue = [n \in Nodes |-> "none"]
    /\ callbacks = "on"
    /\ readable = TRUE /\ disk = EmptyState
    /\ lock = NoProc
    /\ pc = [p \in Procs |-> "off"]
    /\ mem = [p \in Procs |-> EmptyState]
    /\ dirty = [p \in Procs |-> FALSE]
    /\ todo = [p \in Procs |-> {}]
    /\ batch = [p \in Procs |-> {}]
    /\ cur = [p \in Procs |-> NoNode]
    /\ held = [p \in Procs |-> FALSE]
    /\ failures = [p \in Procs |-> 0]
    /\ skips = [p \in Procs |-> 0]
    /\ wanted = [p \in Procs |-> "on"]
    /\ spent = {}
    /\ report = [n \in Nodes |-> "none"]
    /\ faults = 0

\* One pass of the worker over one node of its loop.
Handle(w, n) == Skip(w, n) \/ Refuse(w, n) \/ Claim(w, n) \/ ClaimFails(w, n)

Drain(w) ==
    \/ \E n \in Nodes : Handle(w, n)
    \/ RunEnds(w)
    \/ \E answer \in {"accepted", "unheard", "refused"}, raised \in BOOLEAN :
            Deliver(w, answer, raised)
    \/ Mark(w)
    \/ DrainEnds(w)

RepostPending(w) ==
    \/ \E n \in Nodes, answer \in {"accepted", "unheard", "refused"} : Repost(w, n, answer)
    \/ RepostDone(w)

Poll(w) ==
    \/ Fetch(w) \/ FetchFails(w) \/ FetchGivesUp(w)
    \/ PollReposts(w) \/ PollSkipsRepost(w) \/ Finish(w)

Worker(w) == Start(w) \/ RepostPending(w) \/ Poll(w) \/ Drain(w)

Page(g) == (\E n \in Nodes : ForgetReads(g, n)) \/ ForgetWrites(g)

Environment ==
    \/ \E n \in Nodes : Dispatch(n) \/ Close(n)
    \/ SwitchOff \/ SwitchOn \/ Corrupt
    \/ \E p \in Procs : Kill(p)
    \/ \E w \in Workers : Terminate(w)

Next ==
    \/ \E w \in Workers : Worker(w)
    \/ \E g \in Pages : Page(g)
    \/ Environment

Spec == Init /\ [][Next]_vars

-----------------------------------------------------------------------------
(* Correctness.                                                            *)

Labels == {"off", "repost", "fetch", "drain", "run", "report", "mark", "sleep", "forget"}

\* Every variable has its type, `seen` respects SEEN_LIMIT and lists a node once,
\* and a process that acts on a node has one in hand.
TypeOK ==
    /\ queue \in [Nodes -> {"none", "available", "gone"}]
    /\ callbacks \in {"on", "off"}
    /\ readable \in BOOLEAN
    /\ disk \in StateFile
    /\ lock \in Procs \cup {NoProc}
    /\ pc \in [Procs -> Labels]
    /\ mem \in [Procs -> StateFile]
    /\ dirty \in [Procs -> BOOLEAN]
    /\ todo \in [Procs -> SUBSET Nodes]
    /\ batch \in [Procs -> SUBSET Nodes]
    /\ cur \in [Procs -> Nodes \cup {NoNode}]
    /\ held \in [Procs -> BOOLEAN]
    /\ failures \in [Procs -> Nat]
    /\ skips \in [Procs -> Nat]
    /\ wanted \in [Procs -> {"on", "off"}]
    /\ spent \in SUBSET Nodes
    /\ report \in [Nodes -> {"none", "unsent", "received", "acked"}]
    /\ faults \in Nat
    /\ WellFormed(disk) /\ \A p \in Procs : WellFormed(mem[p])
    /\ \A p \in Procs : pc[p] \in {"run", "report", "mark", "forget"} => cur[p] \in Nodes

InHand(n, labels) == \E w \in Workers : pc[w] \in labels /\ cur[w] = n

\* The file says what the one live process last wrote: no second process ever
\* wrote underneath it (`forget_node`: "a change the worker's next flush
\* silently undoes").
FlushedIsOnDisk ==
    \A p \in Procs : pc[p] # "off" /\ ~dirty[p] /\ readable => disk = mem[p]

\* A run that was not interrupted between its ledger row and its mark, and whose
\* node was neither forgotten nor evicted, is never started a second time,
\* through any number of restarts (poller.py: "a killed worker must not redo this").
NoUnexcusedRerun ==
    \A w \in Workers : pc[w] = "run" => cur[w] \notin spent

\* The report of such a run is never lost: while nobody is posting it, it has
\* arrived, was not to be sent, or is owed in the state file.
NoReportLost ==
    readable => \A n \in spent :
        report[n] # "none" \/ n \in disk.pending \/ InHand(n, {"report"})

\* A node the file lists as dealt with was put down for a reason, or its report
\* arrived, was not to be sent or is owed: no mark is left without its cause.
SeenIsAccountedFor ==
    readable => \A n \in Seen(disk) :
        \/ n \in disk.refused \/ n \in disk.pending
        \/ report[n] # "none"

\* A debt leaves the file only when the report was accepted: no crash, flush,
\* eviction or forget request loses one from a file that can be read.
DebtLeavesOnlyPaid ==
    [][\A n \in Nodes :
         readable /\ readable' /\ n \in disk.pending /\ n \notin disk'.pending
            => report'[n] \in {"received", "acked"}]_vars

\* A node recorded as refused is one that is marked seen, or the worker is about
\* to mark it (poller.py, `refuse`: "so the two lists cannot drift").
RefusedIsSeen ==
    readable => \A n \in disk.refused : n \in Seen(disk) \/ InHand(n, {"mark"})

\* A node whose report is owed is re-posted, never run again (poller.py, header).
PendingNeverRerun ==
    \A w \in Workers : pc[w] = "run" => cur[w] \notin mem[w].pending

\* A report whose acceptance the worker was told of is not owed any more: the
\* pipeline is not sent a node's report after it acknowledged a newer one.
AckedIsNotOwed ==
    \A w \in Workers, n \in Nodes :
        pc[w] # "off" /\ report[n] = "acked" => n \notin mem[w].pending

\* What the worker has dealt with, by refusing it, by owing its report or by having
\* it accepted, it does not take up again.
HandledIsLeftAlone == RefusedIsSeen /\ PendingNeverRerun /\ AckedIsNotOwed

\* The cursor moves only past a batch whose every node has been dealt with
\* (poller.py: "only advances when a whole batch was handled").
CursorWaitsForBatch ==
    [][\A w \in Workers :
         pc[w] = "drain" /\ pc'[w] # "off" /\ mem'[w].timestamp # mem[w].timestamp
            => batch[w] \subseteq Seen(mem[w])]_vars

-----------------------------------------------------------------------------
(* The inductive invariant.  Each property above is about the file; it is  *)
(* kept because the one live process's copy has the same property, so that *)
(* whenever that copy is written the file gets it too.                     *)

Live(p) == pc[p] # "off"

\* Only the holder of the flock is running, and only it has unsaved changes.
OneWriter ==
    /\ \A p \in Procs : Live(p) <=> lock = p
    /\ \A g \in Pages : pc[g] \in {"off", "forget"}
    /\ \A w \in Workers : pc[w] # "forget"
    /\ \A p \in Procs : dirty[p] => pc[p] \notin {"off", "forget"}

\* Outside the re-post loop, what is unsaved is the cursor alone.
OnlyCursorUnsaved ==
    readable => \A p \in Procs : pc[p] \notin {"off", "repost"} =>
        /\ mem[p].seen = disk.seen
        /\ mem[p].refused = disk.refused
        /\ mem[p].pending = disk.pending

Accounted(n, s) == n \in s.refused \/ n \in s.pending \/ report[n] # "none"

\* A running process's copy: the node in hand is not listed yet; what was run is
\* listed or about to be; its report has been delivered, is owed or is being
\* posted; and what is listed, or about to be, has its cause.
CopyIsSound(p) ==
    /\ pc[p] \in {"run", "report", "mark"} => cur[p] \notin Seen(mem[p])
    /\ \A n \in spent : n \in Seen(mem[p]) \/ (pc[p] \in {"report", "mark"} /\ cur[p] = n)
    /\ \A n \in spent :
        report[n] # "none" \/ n \in mem[p].pending \/ (pc[p] = "report" /\ cur[p] = n)
    /\ \A n \in Seen(mem[p]) : Accounted(n, mem[p])
    /\ pc[p] = "mark" => Accounted(cur[p], mem[p])

\* The file: what was run is listed or about to be, and what it owes and a copy
\* does not has been delivered.
RunsAreOnFile == readable => \A n \in spent : n \in Seen(disk) \/ InHand(n, {"report", "mark"})

UnsavedDebtsArePaid ==
    readable => \A p \in Procs : Live(p) =>
        \A n \in disk.pending \ mem[p].pending : report[n] \in {"received", "acked"}

FileIsSound == RunsAreOnFile /\ NoReportLost /\ SeenIsAccountedFor /\ UnsavedDebtsArePaid

Inductive ==
    /\ TypeOK /\ OneWriter /\ FlushedIsOnDisk /\ OnlyCursorUnsaved
    /\ \A p \in Procs : Live(p) => CopyIsSound(p)
    /\ FileIsSound

-----------------------------------------------------------------------------
(* The worker implements the specification of what it promises.            *)

Posting == {cur[w] : w \in {v \in Workers : pc[v] = "report"}}

Debt == INSTANCE ReportDebt WITH
    lost <- ~readable,
    ran <- IF readable THEN spent ELSE {},
    posting <- Posting,
    owed <- IF readable THEN disk.pending ELSE {}

\* Whatever the workers, the page, the endpoint and the deaths do, seen from
\* outside it is a step of ReportDebt: runs, reports and debts move only in the
\* ways the header of poller.py describes.
Promise == Debt!Spec

-----------------------------------------------------------------------------
(* Liveness.  The worker's own steps are weakly fair: it is one thread that *)
(* never waits for anyone.  An operator starts it again when it is down.    *)
(* What is asked of others (the API's answers, the endpoint's) is strongly  *)
(* fair: asked for ever, they answer at last.  Nothing makes a fault, a     *)
(* dispatch, a close or a voluntary exit happen.                            *)

Settled(n) ==
    n \in Seen(disk) \/ queue[n] = "gone" \/ \E w \in Workers : n \in Seen(mem[w])

Steps(w) ==
    \/ RepostPending(w) \/ Drain(w)
    \/ Fetch(w) \/ FetchFails(w) \/ FetchGivesUp(w)
    \/ PollReposts(w) \/ PollSkipsRepost(w)

Fairness ==
    /\ WF_vars(SwitchOn)
    /\ \A g \in Pages : WF_vars(ForgetWrites(g))
    /\ \A w \in Workers :
        /\ WF_vars(Start(w))
        /\ WF_vars(Steps(w))
        /\ SF_vars(Fetch(w))
        /\ \A n \in Nodes :
            /\ SF_vars(Refuse(w, n) \/ Claim(w, n))
            /\ SF_vars(Repost(w, n, "accepted"))

FairSpec == Spec /\ Fairness

\* A node the queue offers is dealt with in the end, whatever other nodes of the
\* queue do: one whose definition never parses holds the cursor, not the loop.
EveryJobSettles ==
    \A n \in Nodes \ Poison : queue[n] = "available" ~> Settled(n)

\* A report the state file owes is delivered in the end, unless the endpoint
\* refuses it for ever.
EveryDebtIsPaid ==
    \A n \in Nodes \ Rejected : n \in disk.pending ~> n \notin disk.pending

\* Once callbacks are off no run's report leaves (poller.py:286 and sink.py:455, the
\* override is read at delivery).  The code reads it before the run: see README.
OffIsOff ==
    [][callbacks = "off" => \A n \in Nodes :
          report[n] = "none" => report'[n] \notin {"received", "acked"}]_vars

\* A report the endpoint will never accept is given up (errors.py,
\* CallbackPermanentError: "give up and move on").
RejectedIsGivenUp ==
    \A n \in Rejected : n \in disk.pending ~> n \notin disk.pending
=============================================================================
