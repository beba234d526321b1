------------------------------ MODULE Discovery ------------------------------
(***************************************************************************)
(* What is made of the nodes that ApiClient reads: the builds of           *)
(* lib/kbuild.py, the job nodes of lib/kjob.py, and the day of runs of     *)
(* runday.py, as operators on the list the API holds while a request goes  *)
(* on.                                                                     *)
(*                                                                         *)
(* A node is a record; row i of the API's list is the i-th that was made.  *)
(* An artifact's URL is told by the build id in it, or NoId when it holds  *)
(* none; a node that lacks the artifact does not name it.  `created` is a  *)
(* day, and Today is the one on which it is asked.                         *)
(***************************************************************************)
EXTENDS ApiClient, Sequencing

CONSTANTS
    Listings,      \* what the API's list may hold
    Windows,       \* WINDOWS: a sequence of days, each longer than the one before
    ArtifactKeys,  \* ARTIFACT_KEYS, in their order
    Today,
    Tests,         \* the tests a day runs, in their order
    Verdict        \* how a run of a test of a build ends: "pass", "fail" or "infra"

ASSUME DiscoveryAssumption ==
    /\ Windows \in Seq(Nat \ {0}) /\ Windows # <<>>
    /\ \A i, j \in DOMAIN Windows : i < j => Windows[i] < Windows[j]
    /\ ArtifactKeys \in Seq(ToSet(ArtifactKeys)) /\ Today \in Nat
    /\ \A list \in Listings :
          /\ list \in Seq(ToSet(list)) /\ Len(list) = MaxRows
          /\ \A i, j \in DOMAIN list : list[i].id = list[j].id => i = j
          /\ \A node \in ToSet(list) :
                /\ node.id \in Nat \ {0} /\ node.created \in Nat
                /\ \A k \in DOMAIN node.artifacts : node.artifacts[k] \in Nat
    /\ Tests \in Seq(ToSet(Tests)) /\ Verdict \in [ToSet(Tests) -> {"pass", "fail", "infra"}]

NoId == 0
NoBuild == [build |-> NoId]
-----------------------------------------------------------------------------
(* One build: `Kbuild`.                                                    *)

\* `build_id_of`: the id in the first artifact URL that holds one, whatever the order
\* the node names them in.
BuildIdOf(artifacts) ==
    LET named == {i \in DOMAIN ArtifactKeys : /\ ArtifactKeys[i] \in DOMAIN artifacts
                                             /\ artifacts[ArtifactKeys[i]] # NoId}
    IN  IF named = {} THEN NoId ELSE artifacts[ArtifactKeys[Min(named)]]

\* Mutant: a build goes by its node's id.
FromNodeById(node) ==
    [build |-> node.id, created |-> node.created, state |-> node.state, node |-> node.id]

\* `from_node`: the identity is the build's, and the node's only for a kernel made here.
FromNode(node) ==
    [build   |-> IF BuildIdOf(node.artifacts) # NoId THEN BuildIdOf(node.artifacts) ELSE node.id,
     created |-> node.created, state |-> node.state, node |-> node.id]

IsBuild(node) == node.kind \in {"", "kbuild"} /\ "kernel" \in DOMAIN node.artifacts

Usable(build) == build.state \in {"", "done", "available"}

\* The order of a list: newest first, by the id where two share a stamp.
Newer(a, b) == a.created > b.created \/ (a.created = b.created /\ a.build > b.build)
-----------------------------------------------------------------------------
(* A read: `Kbuilds`.                                                      *)

\* What the query of `_fetch` matches: nodes of one kind and one name, KBUILD_JOB's; no
\* tree and no branch mean any.
Matches(node, ask, days) ==
    /\ node.kind = "kbuild" /\ node.name = "kbuild-riscv"
    /\ days > 0 => Today - node.created <= days
    /\ ask.tree = "" \/ node.tree = ask.tree
    /\ ask.branch = "" \/ node.branch = ask.branch
    /\ ask.passing => node.state = "done" /\ node.result = "pass"

\* `_fetch`: the newest `limit` nodes that match, those of them that are builds.
Fetch(list, ask, days, limit) ==
    LET matching == Such(list, LAMBDA node : Matches(node, ask, days))
        tail == SubSeq(matching, Max({1, Len(matching) - limit + 1}), Len(matching))
        builds == Such(tail, IsBuild)
    IN  SortedBy([i \in DOMAIN builds |-> FromNode(builds[i])], Newer)

GetDays(list, ask, days, limit) == Such(Fetch(list, ask, days, limit), Usable)

\* Mutant: the first window is the only one.
GetNewAtOnce(lists, ask) ==
    LET found == GetDays(lists[1], ask, Windows[1], Len(lists[1]))
    IN  IF found = <<>> THEN NoBuild ELSE found[1]

\* `getnew`: the window widens until something is in it, and the list may have grown
\* from one read to the next.
GetNew(lists, ask) ==
    LET Found(w) == GetDays(lists[w], ask, Windows[w], Len(lists[w]))
        wide == {w \in DOMAIN Windows : Found(w) # <<>>}
    IN  IF wide = {} THEN NoBuild ELSE Found(Min(wide))[1]

\* Mutant: the read after the last one is what counts.
KeepLast(items, builds) ==
    Such(items, LAMBDA b : \A i \in DOMAIN builds : builds[i].build # b.build) \o builds

\* `_keep`: what the collection has not got yet, one entry per build.
Keep(items, builds) ==
    items \o Those(builds, {i \in DOMAIN builds :
                /\ \A k \in DOMAIN items : items[k].build # builds[i].build
                /\ \A j \in 1..(i - 1) : builds[j].build # builds[i].build})

\* `get`: the one that is held, or else the newest of a scan of the widest window.
Get(items, list, id, scan) ==
    LET any == [tree |-> "", branch |-> "", passing |-> FALSE]
        Named(builds) == Such(builds, LAMBDA b : b.build = id)
        found == Named(items) \o Named(Fetch(list, any, Last(Windows), scan))
    IN  IF found = <<>> THEN NoBuild ELSE found[1]
-----------------------------------------------------------------------------
(* The queue: `Kjobs`.                                                     *)

\* `getjob`: the head of the queue, and of the finished runs of one job, in the order
\* they were made.
GetJob(list, state, limit) ==
    LET found == Such(list, LAMBDA node : node.kind = "job" /\ node.state = state)
    IN  SubSeq(found, 1, Min({limit, Len(found)}))

\* `available`: those with a definition to fetch and of this runtime, if one is named.
AvailableJobs(list, runtime) ==
    Such(GetJob(list, "available", Len(list)), LAMBDA node :
        "job_definition" \in DOMAIN node.artifacts /\ (runtime = "" \/ node.runtime = runtime))

\* `done`: oldest first.
DoneJobs(list) ==
    SortedBy(GetJob(list, "done", Len(list)), LAMBDA one, other :
        one.created < other.created \/ (one.created = other.created /\ one.id < other.id))
-----------------------------------------------------------------------------
(* A day of runs: runday.py.                                               *)

\* A `--day` is that day alone, whatever `--days` says.
OfTheDay(list, day) == Such(list, LAMBDA node : node.created = day)

DayBuilds(list, ask, day, days, limit) ==
    LET found == IF day # NoId THEN GetDays(OfTheDay(list, day), ask, 0, Len(list))
                 ELSE GetDays(list, ask, days, Len(list))
    IN  SubSeq(found, 1, Min({limit, Len(found)}))

\* Mutant: a record is looked for by its test alone.
DayRunsByTest(builds, tests, recorded, redo) ==
    Such(FlattenSeq([i \in DOMAIN builds |-> [t \in DOMAIN tests |-> <<builds[i].build, tests[t]>>]]),
         LAMBDA p : redo \/ \A q \in recorded : q[2] # p[2])

\* The pairs it runs, build by build: all of them, or those the ledger had no record of
\* when it began.
DayRuns(builds, tests, recorded, redo) ==
    Such(FlattenSeq([i \in DOMAIN builds |-> [t \in DOMAIN tests |-> <<builds[i].build, tests[t]>>]]),
         LAMBDA p : redo \/ p \notin recorded)

\* A verdict that was never reached is not a test that failed.
Exit(run) ==
    LET ended == {Verdict[p[2]] : p \in ToSet(run)}
    IN  CASE "infra" \in ended -> 3
          [] "infra" \notin ended /\ ~(ended \subseteq {"pass"}) -> 1
          [] OTHER -> 0

DayExit(run) == Exit(run)

\* `table.py run` answers with what the ledger has of them when it had it of all.
RunExit(run, skipped) == IF run = <<>> THEN Exit(skipped) ELSE Exit(run)
-----------------------------------------------------------------------------
(* Correctness.                                                            *)

\* A request that is over (the first: the lists are all that counts here), and what its
\* reads may have found: the list there was when it came in, and what that has grown to.
Over(r) == request[r].at = "done" /\ served = 1
Before(r, list) == SubSeq(list, 1, request[r].known)
After(list) == SubSeq(list, 1, rows)

Asks == [tree : {"", "next"}, branch : {""}, passing : BOOLEAN]

\* Widening the window finds what one read of the widest would have: nothing newer was
\* there when the search began, and it gives up only if there is nothing at all
\* (kbuild.py, WINDOWS: "nothing in three days" is not "no build").
NewestIsFound ==
    \A r \in Requests : Over(r) => \A list \in Listings, ask \in Asks :
        LET lists == [w \in DOMAIN Windows |-> IF w = 1 THEN Before(r, list) ELSE After(list)]
            got == GetNew(lists, ask)
            Candidates(l) == {FromNode(node) : node \in {n \in ToSet(l) :
                                IsBuild(n) /\ Matches(n, ask, Last(Windows)) /\ Usable(FromNode(n))}}
        IN  /\ \A b \in Candidates(Before(r, list)) : got # NoBuild /\ ~Newer(b, got)
            /\ got = NoBuild \/ got \in Candidates(After(list))

\* However many reads a collection is made of, it holds one entry per build, though two
\* databases file a build under two nodes, and it answers for a build with the entry it
\* listed first (kbuild.py: "a build seen twice is one entry").
OneEntryPerBuild ==
    \A r \in Requests : Over(r) => \A list \in Listings, ask \in Asks :
        LET first == GetDays(Before(r, list), ask, 0, Want)
            items == Keep(Keep(<<>>, first), GetDays(After(list), ask, 0, Want))
            Named(b) == {BuildIdOf(node.artifacts) : node \in {n \in ToSet(list) : n.id = b.node}}
        IN  /\ \A i, j \in DOMAIN items : i # j => Named(items[i]) \cap Named(items[j]) \subseteq {NoId}
            /\ IsInjective([i \in DOMAIN items |-> items[i].build])
            /\ {b.build : b \in ToSet(first)} \subseteq {b.build : b \in ToSet(items)}
            /\ \A b \in ToSet(first) : \E one \in ToSet(first) :
                  /\ one.build = b.build /\ ~Newer(b, one)
                  /\ Get(items, After(list), b.build, Want) = one

\* What a worker may claim is claimed in the order it was made, and a trend reads the
\* finished runs in it: a queue is read at its head (kjob.py, `getjob`).
QueueIsInOrder ==
    \A r \in Requests : Over(r) => \A list \in Listings :
        LET queue == AvailableJobs(Before(r, list), "")
            done == DoneJobs(After(list))
        IN  /\ \A i \in 1..(Len(done) - 1) : done[i].created <= done[i + 1].created
            /\ \A i \in 1..Len(queue) : AvailableJobs(After(list), "")[i] = queue[i]

\* A day of some builds, of whose runs only those in `kept` could be recorded: nothing is
\* left out, what was on record is not run again unless it is asked for, the exit status
\* forgets no run, a second day runs what has no record and nothing else, and
\* `table.py run` after a day that was recorded whole says what it said.
DayIsTold(builds, recorded, redo, kept) ==
    LET run == DayRuns(builds, Tests, recorded, redo)
        again == DayRuns(builds, Tests, recorded \cup kept, redo)
    IN  /\ {b.build : b \in ToSet(builds)} \X ToSet(Tests) \subseteq ToSet(run) \cup recorded
        /\ ~redo => ToSet(run) \cap recorded = {}
        /\ DayExit(run) = 0 <=> \A p \in ToSet(run) : Verdict[p[2]] = "pass"
        /\ ~redo => ToSet(again) = ToSet(run) \ kept
        /\ kept = ToSet(run) => RunExit(again, run) = Exit(run)

\* Every test of every build of the day was run or was on record when it began, whatever
\* window or `--day` named it (runday.py: "a day re-run twice runs nothing twice"; the
\* record of a run may be lost, sink.py, `Ledger.deliver`, and then it is run again).
DayIsCovered ==
    \A r \in Requests : Over(r) => \A list \in Listings, day \in {NoId, Today - 1}, redo \in BOOLEAN :
        LET ask == [tree |-> "next", branch |-> "", passing |-> FALSE]
            builds == DayBuilds(After(list), ask, day, 1, Want)
            recorded == {b.build : b \in ToSet(Fetch(Before(r, list), ask, 0, Want))} \X {"boot"}
            run == DayRuns(builds, Tests, recorded, redo)
        IN  /\ \A kept \in SUBSET ToSet(run) : DayIsTold(builds, recorded, redo, kept)
            /\ day # NoId => \A b \in ToSet(builds) : b.created = day

\* What is found is what there is.
FoundIsThere == NewestIsFound /\ OneEntryPerBuild /\ QueueIsInOrder /\ DayIsCovered

\* A day that is asked for once more says what it said (runday.py, the exit status: "The
\* same classification `table.py run` makes").
DaySaysTheSame ==
    \A r \in Requests : Over(r) => \A list \in Listings :
        LET builds == DayBuilds(After(list), [tree |-> "next", branch |-> "", passing |-> FALSE], NoId, 0, Want)
            run == DayRuns(builds, Tests, {}, FALSE)
        IN  DayExit(DayRuns(builds, Tests, ToSet(run), FALSE)) = DayExit(run)
=============================================================================
