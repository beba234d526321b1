# A TLA+ model of kernelci-riscv

`kernelci-riscv` runs KernelCI jobs on a RISC-V host. A resident worker takes
job nodes from the pipeline's queue, runs each one, records the result in a
ledger of files and posts a report back; commands index, download, serve and
prune kernel builds; a local web page starts the same programs as child
processes and shows what they wrote. There is no database and no broker: the
parts meet in JSON files, and what keeps them apart is one `flock`, atomic
renames, a check for running writers, and the order of the writes.

The specification follows that. Every part that runs beside another one, or that
can die between two writes, is a state machine cut where another process, another
thread or a death can tell the halves apart. Every part that only computes (the
verdict of a console, the readings of the ledger, the rows, numbers and links of
a page) is a module of operators, checked over the states those machines reach.

| file | what it is | extends |
| --- | --- | --- |
| `Poller.tla` | the resident worker and the page's forget request (`lib/poller.py`) | |
| `ReportDebt.tla` | what the worker promises about reports, without files or processes | |
| `WorkerPage.tla` | a page that reads the state file and the ledger beside the worker | `Poller` |
| `StartForm.tla` | the worker page's question, its links, badge and start button | `WorkerPage`, `Questions` |
| `Activity.tla` | the activities the page starts, and the writer gate (`lib/run.py`) | |
| `Ledger.tla` | the two files of a pair, written by several processes (`lib/sink.py`, `lib/atomic.py`) | `Views` |
| `Views.tla` | the readings of the ledger (`lib/re.py`, `trend.py`) | `Sequencing` |
| `Analysis.tla` | the analysis and trend pages over the ledger | `Ledger`, `Sorting` |
| `Fetch.tla` | one build's download, unpacking and disk (`lib/build/{model,fetch,rootfs}.py`) | |
| `Builds.tla` | the build table, the copies and the served image (`table.py`, `lib/build/*`, `lib/retention.py`) | `Sequencing` |
| `Desk.tla` | the builds page over `Builds` | `Builds`, `Questions` |
| `Shelf.tla` | the activities page | `Questions` |
| `Gap.tla` | the jobs page over the worlds of `Desk` | `Desk`, `Shelf` |
| `Judge.tla` | the verdict of a console and the body the pipeline gets (`lib/judge.py`) | |
| `Reports.tla` | what `drift.py`, `results.py` and the two analysis endpoints answer | `Analysis` |
| `Job.tla` | one run of one job (`lib/job.py`, `lib/runner.py`) | `Judge` |
| `ApiClient.tla` | the API's cache, memo, budget and paging, and the kept .config (`lib/api.py`, `lib/drift.py`) | |
| `Discovery.tla` | the builds and job nodes made of what was read, and a day of runs (`lib/kbuild.py`, `lib/kjob.py`, `runday.py`) | `ApiClient`, `Sequencing` |
| `Commands.tla` | what a press turns into (`lib/gui/actions.py`) | |
| `Page.tla` | one browser tab and the script that polls (`lib/gui/design/script.py`) | `Commands` |
| `Questions.tla`, `Sorting.tla` | how a query string is read, kept and written back; orders | `Sorting` over `Sequencing` |
| `Sequencing.tla` | rows selected, arranged and sorted, in definitions that can be reasoned about | |
| `PollerProofs.tla`, `PageProofs.tla`, `LedgerProofs.tla`, `FetchProofs.tla`, `BuildsProofs.tla`, `JobProofs.tla`, `ApiClientProofs.tla`, `SequencingProofs.tla` | theorems for every value of the constants, see *Proofs* | the module they name; `PollerProofs` also `WorkerPage`, `PageProofs` also `Activity`, `LedgerProofs` also `Analysis`, `ApiClientProofs` also `Discovery`, `BuildsProofs` also `Desk` and `Gap` |
| `MC*.tla`, `*.cfg` | instances for TLC | |
| `PROJECT.json` | components, runs, mutants, the map to the source, findings, hazards, theorems | |

## Inventory

| component | state it keeps | operations | hard part | what makes it correct | status |
| --- | --- | --- | --- | --- | --- |
| resident worker, `lib/poller.py` | `worker-state.json` (cursor, seen, refused, pending) and its copy | poll, claim, run, deliver, mark, re-post, forget, flush | death between two flushes, eviction, three writers of one file | no run repeated, no report lost, debts leave only paid | partly: its log and the day's loop are not in |
| activities and the writer gate, `lib/run.py`, `lib/gui/actions.py` | `run.json` each, `_LIVE`, reaper threads, children | start, reap, cancel, load_all, busy | no lock, a thread per request, restarts | one directory each, the record tells the truth, the gate sees writers | modelled |
| sinks, `lib/sink.py` | a record and a history per pair | deliver, write, append | two files per result, unlocked read-modify-write | one line per run, the note agrees with the disk | modelled |
| job execution, `lib/job.py`, `lib/runner.py` | in-flight log, a process group, a container | make, run, beat, timeout, kill, drain, keep, report | timeout against exit, nested clients, a beat that hangs | every run ends, in one true record | modelled |
| verdicts, `lib/judge.py` | none | console to verdict to body | precedence of evidence | never better than the console | modelled |
| job node, `lib/kjob.py` | none | a node's definition, what is claimable | none | the worker takes what the page counts | partly |
| API client, `lib/api.py` | process cache, request memo | events, node, pages | page limits, a list that grows, ages | nothing older than asked for | partly |
| atomic writes, `lib/atomic.py` | a temporary name per file | write, rename | a name two writers share | readers see whole files | modelled |
| downloads, `lib/build/fetch.py`, `model.py` | `<dest>.part`, `provenance.json` | resume, prove, publish, unpack | truncation, ignored ranges, no length | nothing partial in place | partly |
| build table, `lib/build/{model,table}.py`, `table.py` | `builds.json`, `downloads/` | index, pull, remember, merge, save | a snapshot saved minutes later | no card lost, exit 0 means done | partly |
| published kernel and retention, `lib/build/publish.py`, `lib/retention.py` | `serve/Image`, `served.json` | provision, publish, prune | three writes that may be split | what is served is recorded and kept | modelled |
| ledger views, `lib/re.py`, `trend.py` | none | todo, tally, transitions | order of records | a regression is a pass and the first failure after it | partly |
| config drift, `lib/drift.py` | kept configs | keep, diff, series | a damaged copy; direction | no comparison with half a text; numbers and doors agree | partly |
| test catalogue and rootfs | a baked disk | needs, bake | an archive that is not whole | no disk made of half an archive | partly |
| page server and read models, `lib/gui/*.py` | per-request scratch | rows, counts | two reads at two moments | what a row says is true of both | partly |
| forms and action schema | none | read, refuse, write back | a key that a link drops | links and bars keep the question | partly |
| page rendering, `lib/gui/design/*` | a tab's session | draw, poll, tick, press | lost and overtaken answers | numbers lead where they say; ticks survive | partly |
| build discovery, `lib/kbuild.py` | none | widening windows, one entry per build | paging, two nodes of one build | no build missed or listed twice | partly |
| day runs and entry points, `runday.py`, `run.py` | none | the pairs of a day, exit codes | what was recorded already | every pair once, the exit tells the outcome | partly |
| configuration and paths, translations, deployment scripts, gate tests | none | argparse, paths, text, shell | none | | not modelled |

How they meet: the page (`Page`, `Commands`) starts activities (`Activity`), an
activity is a command of `table.py`, `provision.py` or `prune.py` (`Builds`, whose
`Make` is what `Fetch` cuts into steps), `run.py` or `pull_worker.py` (`Poller`,
whose `RunEnds` is what `Job` cuts into steps, with the verdict of `Judge`), and a
run ends in the files of `Ledger`, which `Views`, `Analysis` and `WorkerPage` read.
Modules that are cut differently are not composed in one instance; each takes from
the other what it promises: a run of `Poller` ends, with a ledger row or a refused write
(`WorkerPage` tells the two apart), as `Job` shows; `Make` of `Builds` leaves a whole copy or none, as `Fetch` shows.

## Poller, ReportDebt

State. `disk` and `readable` are the state file, `lock` the holder of the
`flock` on `<state>.lock`, `queue` the pipeline's job nodes, `callbacks` the
operator's override. Per process: `pc`, `mem` (its copy of the file), `dirty`
(the code's `_dirty`), `todo` (what the loop at hand has left), `batch`, `cur`
(the node in hand), `held` (some event failed: `handled_all = False`), `wanted`
(where the report of the run at hand will go, resolved when its node is claimed),
`failures` and `skips` (the throttle of `_repost_pending`, counted in polls).
`spent` and `report` are history variables: they say what has been run and where
its report got to, they guard nothing and only the properties read them.

A state file is a record of the cursor, the list `seen`, and the sets of nodes
with an entry under `refused` and `pending`; reasons and report bodies are data.
The code's `_seen_index` is `Seen(s)`.

| step of the code | action |
| --- | --- |
| `_acquire`, `load`, the first re-post of `loop` and `once` | `Start` |
| one turn of `_repost_pending`; its flush | `Repost`; `RepostDone` |
| `events`, its failures and the retry limit | `Fetch`, `FetchFails`, `FetchGivesUp` |
| `_drain`: seen; re-read or definition fails; put down; claimed, and the sinks made | `Skip`, `ClaimFails`, `Refuse`, `Claim` |
| `Job.run` with its ledger row, or a write that was refused | `RunEnds` |
| the callback sink, both exits of `handle`, the flush in `finally` | `Deliver` |
| `mark_seen` and the flush after it | `Mark` |
| the cursor | `DrainEnds` |
| sleep, throttled re-post, the end | `PollReposts`, `PollSkipsRepost`, `Finish` |
| `forget_node` | `ForgetReads`, `ForgetWrites` |
| SIGKILL or reboot; SIGTERM; a file that no longer parses | `Kill`, `Terminate`, `Corrupt` |
| the override page | `SwitchOff`, `SwitchOn` |
| the pipeline (not this repository's code) | `Dispatch`, `Close` |

`Claim` also reads the operator's override, since `handle` resolves `delivery_url`
before it runs the job: an override turned during a run does not change where that
run's report goes. `Refuse` writes the refusal and leaves the mark to `Mark`, as `_drain` has it:
the flush of `finally` and the flush after `mark_seen` are two. `Deliver` covers
an internal error too, after whose re-raise the report is kept though it was
posted. The signal handler flushes and raises at once, so `_stopping` is never seen
by a loop and is no variable. A POST is accepted, accepted without the answer
arriving, or refused. The events feed answers with the queue or a page of it, and
may replay a node that has left since.

`ReportDebt` says what all this amounts to: a run that nothing excuses happens
once, and its report is in the worker's hands, has left, or is owed, until the
file is lost. `Poller` implements it: `Debt == INSTANCE ReportDebt WITH ...` maps
the state file and the history variables to its five variables, and TLC checks
`Promise == Debt!Spec` in `poller_crash`.

* `poller_crash`: two workers, one forget request, two nodes, a `seen` list of
  **one** entry so that every second mark evicts, three faults of any kind. A run
  is repeated only when it was interrupted before its mark, or its node was
  forgotten or evicted, or the file was lost (`NoUnexcusedRerun`); its report
  arrives, is not wanted, or is owed (`NoReportLost`); nothing is marked without
  a cause (`SeenIsAccountedFor`); a debt leaves only by being accepted
  (`DebtLeavesOnlyPaid`); nobody writes under the lock's holder
  (`FlushedIsOnDisk`); and `Promise`.
* `poller_steady`: what the header of `poller.py` promises outright, with no kill
  and nothing evicted: three nodes, one of them another lab's, two workers that
  exit and start again. A refused node is marked, an owed node is not run again, an
  acknowledged report is not owed (`HandledIsLeftAlone`), the cursor waits for its
  batch (`CursorWaitsForBatch`). The page is drawn beside it, see *Worker's page*.
* `poller_live`: one worker, one fault, one node whose definition never parses.
  Every other node of the queue is dealt with (`EveryJobSettles`), and every kept
  report leaves (`EveryDebtIsPaid`).

Bounds. Two nodes with a `seen` list of one entry reach eviction, re-claim after
eviction, and a debt that outlives its mark. Three faults are enough for a kill
after a forget after a corruption, one more than any of the counterexamples met
while writing the invariants needed. `MaxRetries` 2 gives one retry and one
giving up; `RepostEvery` 1 gives one throttled poll between two that are not.
The page limit is the size of the queue, so a queue longer than a page is not in
these runs.

Fairness (`FairSpec`). A worker is one thread that waits for nobody, so its own
steps are weakly fair. A worker that is down is started again, and an operator
who turned callbacks off turns them on again (`WF` of `Start` and `SwitchOn`): the
page shows both, and without them nothing can be promised. The answers of others
are strongly fair: an events read that is tried for ever succeeds at last, a
claim of a definition that parses succeeds at last, and an endpoint asked for
ever accepts at last, unless it rejects that report. Faults, dispatch, close and
voluntary exits have no fairness.

### Worker's page: WorkerPage, StartForm

`WorkerPage` adds a request that reads the state file (`ReadState`) and walks the
ledger later (`Draw`), with the worker stepping in between. A run that is over leaves
its row in `ledger` or, where `Ledger.deliver` swallowed the write's failure, its node in
the history variable `unrecorded`. No row is drawn as merely `seen` for a node this
worker handled, but for those (`EveryMarkIsExplained`). `StartForm`
is the page's form: what a query means, which rows of the queue are drawn, what
the rails, pairs, bars and links ask next, what the badge beside the start button
counts, and what the started worker would claim. `ButtonsDoWhatTheySay` joins
them: a forget button on a page drawn now, or on one of any age that had read the
node's mark, lets no owed report be run again when it is pressed while no worker holds the
file (`ForgetIsSafe`; the button of an older page may, see *Observations*); a link changes
what it names and keeps the rest; and the start button is refused only where it is drawn
blocked (or the runtime is one nobody knows) and starts a worker that takes what the badge
counts and it has not dealt with before.

The form is checked in every reachable state of `poller_steady` for its queue, over
three assignments of what nodes say of themselves (and, for the rest, every node
one of three shapes) and seven queries, which use every argument of the command and
every axis of the table, alone and together. Facts about a page that depend on the
state only through a few values are computed once as a constant set (`SoundQueues`)
and the invariant is membership of the present values in it; the same is done below
(`GoodBases`, `Trends`, `Doors`).

## Activity

State. Per name (the suffix `_free_id` adds within one second): whether the directory
exists (`dirs`), the `state` in `run.json` (`json`) and in the `run.json.tmp` beside it
(`tmp`; `torn` is what a refused write left), the child process (`proc`, `status`; `mine` if the present server is its
parent), the `_LIVE` entry (`live`), the reaper thread (`reaper`). Per request thread,
its place and its local variables (`request`). `refused`, which only the properties read,
has the activities a save of which the filesystem refused. All activities are of one kind, and
that kind is a writer; a kind that writes nothing runs the same code without the
gate. Suffixes restart with each second, so one second is the only interesting case.

| step of the code | action |
| --- | --- |
| `actions.status`, `log` | `Look`, then `Load` and `ReapFindsRunning` or `ReapSettles` per activity |
| `actions.start`: `busy()` | `AskToStart`, the same looks, `Looked` |
| `_free_id`, `makedirs`, `Popen`, `_LIVE` and the thread | `FreeId`, `MakeDir`, `Spawn` or `SpawnFails`, `Enlist` |
| `save` (`atomic.write_json`) | `RequestWrites` or `RequestWriteRefused`, then `RequestRenames` or `RequestRenameFails`; `ReaperWrites` or `ReaperWriteRefused`, `ReaperRenames` |
| `cancel` | `Cancel`, `Signal` or `SignalFindsNobody`, `ReapSettles` or `KillsAtLast`, two saves |
| `_settle_when_done` | `ReaperWaits`, `ReaperPuts`, `ReaperWrites`, `ReaperRenames` |
| the child exits; the server is restarted | `Exits`, `Restart` |

The reaper's `Run` object is the one `start` made and no request ever gets it, so the
test `run.state == RUNNING` at `run.py:88` is always true and is not a guard of the
model. A status somebody else took reads as 0 in the reaper, CPython's answer to
`ECHILD`. The temporary file is written in one step, or the write is refused, before the
file is touched or with its body cut short: either ends the request or the reaper's thread
with a `DiskError`, and nobody removes the rest. Two writers of one path race for
the rename, which is modelled, not for single bytes of the body. A pid that the system
gives to another process after a restart is not modelled.

* `activity`: two requests, two names, one server, one refused save. A settled record is
  true of the process, which is what the gate reads, and a child that no record names as
  running is being recorded by the request that started it, unless that very save was
  refused (`RecordsAreTrue`): a later save that is refused, or loses its rename, takes no
  running child off the record. No two activities share a directory, whatever the
  collisions, and what is settled never returns to running (`RecordsStay`).
* `activity_restart`: one request thread, up to two restarts. A start that passed
  the gate left no running writer behind that was on record when it came in, also
  writers an earlier server started (`GateSeesWriters`); an activity whose child has
  ended leaves `running` though nobody looks, also when a request renamed the
  reaper's temporary file away, unless a save of it was refused (`EndedIsSettled`). Request and reaper threads are weakly
  fair, because each is a thread that waits for nothing; nobody has to send a request
  and no child has to end.
* `activity_two_writers` fails, on purpose, see *Findings*.

Two threads and two names are what every race here needs: one activity being
started or settled while another request looks at it or starts the next. With two
threads and restarts together the instance is too large for a quick run, so the restarts have a
run with one thread; the reaper is then the second writer. `MaxRefused` 1 refuses one save,
of any writer at any point.

## Ledger, Views, Analysis, Reports

`Ledger` is one delivery, cut at every system call: the history is read (`known`),
written to a temporary name (`open`, `fill`) and renamed, then the same for the
record. A name is bound to an inode, and a handle stays with its inode, because the
temporary name is shared by all writers of a pair. `Deliver` begins or repeats a
delivery, `Write` is a step of it (or the refusal of that step), `Die` a death,
`Damage` a history that no longer parses. A run is identified as the code does it,
by the console's name or the stamp, so two runs of one second may be joined.

`Views` has the readings (`Series`, `Transitions`, todo and tallies), and `Analysis`
the two pages made of them: which builds there are (`_known_builds`), their order, the
window, marks, bars, regressions, points and bands of each test, and the comparison of
each build's config with its neighbours and the links to it. `Reports` has what the commands
`drift.py` and `results.py` print and exit with, and what the endpoints beside them answer.

* `ledger`: three runs of one pair, two of which may start in one second, apart or at
  the same time, one fault (a death, a refused write, a damaged history), each result
  delivered up to twice. `ReadersSeeWholeFiles`; `HistoryIsKept` (no run twice, no line
  gone, no record without its line); `NoteIsTrue` (what the console says was recorded
  was). Over every history such a state can hold and every verdict its runs may have come
  back with, a trend tells every regression once and one way wherever it is told
  (`TrendIsTrue`): the fold counts each regression once (`TurnsAreRegressions`); over two
  tests, four builds, two of them held, three worlds and five questions (orders, filters,
  limits, deltas) the page is one answer about one window (`TrendIsOneAnswer`); and the
  commands print every record asked for once, exit with 0 only for two configs that were
  read and are equal, and agree with the endpoints (`ReportsAreTrue`). Each number beside a
  build opens the comparison with these numbers, that way round (`DoorsOpenWhatTheyShow`).

Bounds. Three runs of one pair are the fewest with a first record, a record that
replaces it and a run that comes back late. Readers of whole files are only promised to
one writer per pair at a time (`apart`); both values are explored, and what does not
need `apart` (`NoLineTwice`) is stated without it. Four builds give a neighbour on each
side, one beyond a cap of three and a pair that is refused.

## Fetch

State. `name` binds the files of a build's directory to inodes and `data` says what
chunks an inode holds; `proven` is the newest successful act that `provenance.json` still
has, and `above` how many failed ones lie above it, of the `MaxKept` (`PROVENANCE_ACTS`)
acts that are kept; `gzipped` is whether the kernel arrives gzipped; per process the place in `Build.make` and `download`, the attempts left, the offset, the
handle and whether it appends. `lengths` is whether the host says how long an artifact is.

| step of the code | action |
| --- | --- |
| `make`: begin; is it here and proven; the host's HEAD | `Begin`, `Ask`, `AskHost` |
| one attempt: the part's size; 4xx; 5xx; 416; 206; 200 | `Request`, `Refuse`, `Unavailable`, `RangeRefused`, `Resume`, `SendAll` |
| `_read`; the end, an exception; the rename | `Chunk`, `End`, `Break`, `Publish` |
| `_kernel`: left alone or unpacked | `Fetched`, `Unpack`, `Place` |
| `_remember`; what a test wants besides is not there; a failed act | `Record`; `Lack`; `Raise` |
| `bake_rootfs` | `Bake`, `Mkfs` |
| a death anywhere | `Die` |

* `fetch`: two processes one after the other, artifacts of three chunks, two attempts,
  three pulls, four faults. What is in place is the artifact if the host says how long it
  is, and in any case its beginning; no disk and no Image of a gzipped kernel is made of a
  part (`PublishedIsSound`). A kernel that is no gzip is copied as it came, so of a host that
  names no length its beginning may become the Image. What a pull has proven stays proven,
  until as many failed pulls as the record keeps lie above it (`WitnessStays`). A record of
  two acts (`MaxKept`) is the smallest in which one failed pull leaves the proof and the
  next takes it.

Three chunks are the fewest with a resume that is neither at the start nor at the end;
three pulls let a third find what two left. Two pulls of one build at the same time are
what the writer gate excludes; the module can be run with `Modes = {FALSE}`, see
*Observations*. A part's name is a record of
its own (`PartOf`), where the code appends `.part`. Left out: the copy of a local source, the size limit and the guest
tarball's cache.

## Builds, Desk, Gap, Shelf

State. `table` is `builds.json` (a card says under whose name the kernel's URL is
filed), `copies` and `whole` the directories under `var/downloads`, `image`, `aside` and
`placed` the served path and what somebody put there by hand, `served` the record. Per
process the command, the table it loaded (`snap`), what it has left, and its exit status.

| step of the code | action |
| --- | --- |
| `table.py index`, the load and the first part of every command | `Begin`, `Index` |
| `_pull`, `Build.make`, its failures | `Make`, `MakeFails`, `NoSuchBuild` |
| `Builds.save`, `remember` (load, merge, save) | `Save`, `Remember` |
| `_link_served`: look, unlink, move aside, symlink | `Look`, `Vanished`, `Unlink`, `Move`, `Symlink`, `Publish` |
| `served.json` | `Record` |
| `prune`: the plan; each removal | `Plan`, `Rmtree`, `RmtreeFails` |
| a death anywhere | `Die` |

`Desk`, `Gap` and `Shelf` are the pages of builds, jobs and activities: the rows a
question has, the numbers, chips, presets, pagers and bars, the boxes that can be ticked,
and what a press then runs (`Commands`).

* `builds`: three builds (one whose URL names no build), two processes, four commands one
  after the other or two of a smaller set at a time, one death or refusal, one copy kept.
  No card is lost and no URL given up for a worse one (`CardsStay`); what is served, and
  what was pulled, has a card (`CardsAreThere`); the served copy and an image put there by
  hand survive (`ImagesAreKept`); a pull that exits 0 pulled everything (`PassMeansPulled`).
  Over every disk these commands leave, with partial copies, an API that answers or not
  and thirteen queries: the chips and the union preset lead to as many rows as they print,
  the other two presets to no rows but those of their view, pages partition the rows, a bar
  submitted as drawn asks the same again (`LinksLeadWhereTheySay`, with every shelf of up
  to four activities of three kinds); and the smart button picks its step by the rows
  furthest behind and acts on every row that is behind and on no other, so that `run` and
  `pull` are given no row that `table.py` would end at (`ButtonsGoThrough`). Of its
  `index_pull` no more is claimed: an id the index does not bring ends that pull for all.
  The number of cards is the whole table's while its link keeps the reader's question, and
  the number of the window is the API's answer while its view has cards beside it; neither
  is claimed to be the size of its view.

Four commands are index, pull, provision and prune in any order, with repetition. Three
builds leave one to serve, one to keep and one to remove. Most properties speak of
commands that run `apart`, which is the writer gate's promise for the page.

## Job, Judge

State. The run's place, its child, the runtime's client (which has a process group of its
own and holds the child's pipes), the container, the beat thread, what was printed and
how much of it the run has, the log file, the record, what the pipeline accepted and
what is owed. Lines of a console are the marks `judge.py` looks for.

| step of the code | action |
| --- | --- |
| `make`, `argv`, the in-flight log, `Popen` | `Make`, `Argv`, `Flight`, `Spawn` |
| `communicate` ends, raises (the drain's too: a console that does not decode), times out | `Answered`, `Bug`, `TimesOut` |
| `_clients`, `killpg`, `docker rm`, the drain | `ListClients`, `KillGroup`, `RemoveContainer`, `Drain` |
| the verdict; the beat's stop and join; the console kept | `JudgeIt`, `Stop`, `KeepConsole` |
| ledger and callback; a later re-post | `FileRecord`, `Post`, `Repost` |
| the beat; the log's loss; the child and its container | `BeatOpens`, `BeatWrites`, `LoseLog`, `Prints`, `StartClient`, `StartContainer`, `EndClient`, `ChildExits` |

* `job`: a boot or a suite of one selftest, two console lines, one beat, one re-post, two
  faults. A verdict is only given by a run that ended by itself, a pass only when nothing it
  printed speaks against it, and a kept log begins with the whole console, whatever the beat
  does (`RecordIsTrue`); the pipeline is never told of a pass that was none
  (`NeverGreenElsewhere`); a run ends though the child never does, a client holds the
  pipes or a beat hangs (`EveryRunEnds`, under weak fairness of the run's own steps: its
  clocks, the timeout and the drain's, are among them, and nothing is assumed of anybody else).

Two lines are what precedence needs: any two marks in any order. Two faults are a failed
write and a lost log in one run.

## ApiClient, Discovery

State. The process's cache with the times answers were stored, the API's list, the kept
`.config`, its note and the temporary name of each, and the `.config` a pull of the build
left; per thread its scope, deadline, memo and place. Who reads outside any request (a claim
of the worker, a command) is given nothing from the cache or a memo and has no deadline, but
what it is answered is cached for the requests of its process.

| step of the code | action |
| --- | --- |
| `begin_request`; a read outside one | `Begin`, `BeginUnscoped` |
| `_get`: memo and cache; sent; answered; failed; out of budget; stored | `FromCache`, `Send`, `Answers`, `Fails`, `TooLate`, `Store` |
| `Api.nodes`: the count, the pages | `Counted`, `FirstPage`, `NextPage` |
| `_config_text`: the kept copy, the pulled one, the URL's | `Kept`, `Pulled`, `Fetched` |
| `_keep_config` | `WriteTmp`, `RenameTmp`, `GiveUpKeeping` |
| a node is made; the host replaces the text; a pull leaves one, perhaps a beginning; damage | `NodeIsMade`, `ConfigIsReplaced`, `ConfigIsPulled`, `ConfigIsDamaged` |

* `api_client`: two requests over a list of two to three rows in pages of one, ages asked
  for of 0 and 2, a cache of two answers, one failed, short, partial or damaged read. The
  rows are the tail of one list (`AnswerIsTheTail`). What a request uses was stored no
  longer ago than it asked for, and written within a budget of that if a request stored it
  (who reads outside one has no budget, so what it stores has no bound); a page made of a
  cached answer tells an age no less than the answer's (`AgesAreKept`). No comparison is
  made of a damaged copy or half a note, and one that asks for nothing kept is made of the
  pulled copy or of what the URL answered to it (`ComparedIsSound`). That the pulled copy
  or the URL's answer is the whole text is not claimed: see *Observations*.

`Discovery` is what is made of the rows of such a read: which node is a build and which id
it has, the window, the order, the search that widens its window (`getnew`), one entry per
build (`Keep`), the lookup by id, the job nodes a worker may claim, and the pairs and exit
codes of a day of runs. It is evaluated over the list before and after a request of
`ApiClient`, so a node may be made between two reads.

* `FoundIsThere`, in the same run: the widening search returns what one read of the widest
  window would have, nothing newer and nothing lost (`NewestIsFound`); a collection holds
  one entry per build, however many reads it was made of (`OneEntryPerBuild`); what may be
  claimed is claimed in the order it was made (`QueueIsInOrder`); every
  test of every build of a day was run in it or was on record when it began, the exit status
  forgets no run, and a day asked for again runs what could not be recorded and nothing else
  (`DayIsCovered`).

Two rows wanted in pages of one make a list of two reads between which a node may be
made; a cache of two evicts when a third answer is stored. The eight lists of
`Discovery` are three nodes long: a build under two nodes, a kernel made here whose URLs hold
no id, a failed and a running build, one of another tree, one without a kernel, builds of one
stamp, jobs queued and finished out of the order of their ids.

## Page, Commands, Questions, Sorting

`Page` is one tab: the page on the screen (digest, rows, ticks, announced activities),
a reload on its way, the polls under way, `sessionStorage`, whether the reader types, and
what the reader means to be ticked. The server side is what changes meanwhile: the rows'
stages, activities and foreign writes.

| step of the code | action |
| --- | --- |
| `/api/state`: runs, then digest; lost | `Ask`, `PollRuns`, `PollDigest`, `PollLost` |
| `livePoll` on the answer: notices, reload now or deferred | `Answer` |
| `document()`: reads, then digest; the new page | `LoadRead`, `LoadStamp`, `Land` |
| a tick, select-all, a press, typing, a visit | `Tick`, `TickAll`, `Press`, `TypeOn`, `TypeOff`, `Visit` |
| an activity works and is settled; another program writes | `Work`, `Settle`, `Elsewhere` |

* `page`: one build, one poll at a time, one activity, one foreign write, one visit.
  Nothing that ended before the tab was opened is announced (`NothingFromBefore`); the
  ticks are the reader's (`TicksAreMeant`); a page nobody types in comes to rest on the
  newest digest (`PageSettles`).

Fairness: the timer asks for ever (`WF` of `Ask`), the server is a thread per request and
takes the first step of a load (`WF` of `LoadRead`); a poll or a load can be lost or
replaced, but not every one for ever (`SF` of `PollRuns`, `PollDigest`, `Answer`,
`LoadStamp`, `Land`). With one poll slot, polls do not overtake each other; what two
do is under *Observations*.

`Questions` and `Sorting` are operators: `FromQuery`, `ToQuery`, `Url`, `Carried` (what a
form's hidden fields keep), and orders with their chips. They are checked through the
pages.

## Proofs

The theorems hold for every value of the constants their modules' `ASSUME`s allow: any
set of nodes, threads, runs, builds or processes, any limit, any number of faults. The
assumptions are the shapes of the constants (limits natural and positive where the code
has them so, markers such as `None` not among the data) and, where it says more, what
the source guarantees: `ApiAssumption` has `Want <= MaxRows`, because the list a request
begins with is as long as what it wants; `BuildsAssumption` has the ids a command takes
by its kind and `Keep` positive, which `prune.py` checks. `DiscoveryAssumption` gives the
nodes of `Discovery` the fields the code reads off them, with no node twice in a list, and
says that the search's windows widen, as the code's do (`kbuild.getnew`: each is longer than
the one before). `QuestionsAssumption`, `DeskAssumption` and `GapAssumption` say what a page
is asked: the keys that take several values are among the code's (`schema.py`,
`MULTI_FIELDS`), a query maps keys to lists of numbers or of words, the ledger says a verdict
of each record, the table has finitely many builds and the catalogue lists each test once.
`AnalysisAssumption` says what a page of the ledger is drawn of (`IsWorld`): what is held
and what the API answers are lists without repetition, a card gives numbers, an order is a
list of words with directions (any words, known or not), limits and deltas are natural.

| module | theorems about what the runs check | others |
| --- | --- | --- |
| `PollerProofs` | `TypeCorrect`, `FileIsTheWritersOwn` (`FlushedIsOnDisk`), `RunsAreNotRepeated` (`NoUnexcusedRerun`), `ReportsAreKept` (`NoReportLost`), `MarksAreAccountedFor` (`SeenIsAccountedFor`), `DebtsAreOnlyPaid` (`DebtLeavesOnlyPaid`), `PromiseIsKept` (`Promise`: `Poller` implements `ReportDebt`), `CursorWaits` (`CursorWaitsForBatch`), `HandledNodesAreLeft` (`HandledIsLeftAlone`), `MarksAreExplained` (`EveryMarkIsExplained`) | `InductiveInvariant`, `ForgettingIsSafe` (`ForgetIsSafe`, the worker page's part of `ButtonsDoWhatTheySay`) |
| `LedgerProofs` | `FilesAreWhole` (`ReadersSeeWholeFiles`), `NotesAreTrue` (`NoteIsTrue`), `HistoriesAreKept` (`HistoryIsKept`), `DoorsAreRight` (`DoorsOpenWhatTheyShow`) | `Invariance`, `TypeCorrect`, `RegressionsAreFound` (`TurnsAreRegressions`, a conjunct of `TrendIsTrue`) |
| `FetchProofs` | `WholeOrBeginning` (`PublishedIsSound`), `ProofsStay` (`WitnessStays`) | `Invariance` (with the types) |
| `BuildsProofs` | `CardsThere` (`CardsAreThere`), `ImagesKept` (`ImagesAreKept`), `CardsAreKept` (`CardsStay`), `PassIsPulled` (`PassMeansPulled`), `PressesGoThrough` (`ButtonsGoThrough`) | `Invariance` (with the types), `WholeIsOnDisk` |
| `JobProofs` | `RecordsAreTrue` (`RecordIsTrue`), `NeverGreenerThanTheRun` (`NeverGreenElsewhere`) | `Invariance`, `TypeCorrect` |
| `ApiClientProofs` | `ListsEndAtTheTail` (`AnswerIsTheTail`), `AgesAreKeptAndTold` (`AgesAreKept`), `ComparesWhatIsSound` (`ComparedIsSound`), `WhatIsFoundIsThere` (`FoundIsThere`) | `Invariance`, `TypeCorrect` |
| `PageProofs` | of `Activity`: `RecordsTrue` (`RecordsAreTrue`), `RecordsAreFinal` (`RecordsStay`), `GateSound` (`GateSeesWriters`); of `Page`: `NoticesAreNews` (`NothingFromBefore`), `TicksSurvive` (`TicksAreMeant`) | `Invariance`, `TypeCorrect`; `TabInvariance`, `TabTypeCorrect` |
| `SequencingProofs` | | `ThoseAre`, `ArrangedAre`, `LoopRuns`, `FoldRuns`: what selecting, arranging, a loop and a fold over a sequence give |

Each module has the lemmas about its operators first, then one lemma per action (or per
part of the invariant, with one step per action), then the theorems by `PTL`. None of the
properties is inductive by itself; why, and what closes the gap:

* `PollerProofs`. The properties speak of the file, and a step writes the file from a
  process's copy, so the copy must have the property first. `Inductive` says who runs and
  holds the lock (`OneWriter`); that outside the re-post loop file and copy differ at most
  in the cursor (`FlushedIsOnDisk`, `OnlyCursorUnsaved`); the safety properties for the
  copy, with the window between a run and its mark made explicit (`CopyIsSound`); the same
  for the file, with `UnsavedDebtsArePaid`: a debt the file has and a running copy lacks is
  one whose report was accepted, without which a death in the re-post loop cannot be
  reasoned about. The lemmas on the list say that `MarkSeen` keeps the limit and the absence
  of duplicates, adds its node and drops exactly `Evicted`. `CopyIsSound` is proved for the
  holder of the lock only, since `OneWriter` leaves no other.
* The refinement (end of `PollerProofs`). Each action of `Poller` is a step of `ReportDebt`
  or a stutter, by one lemma per kind of action. One more invariant was needed,
  `DebtsAreKnown`: a running copy owes nothing that a readable file does not; otherwise a
  flush in the re-post loop could add a debt, which no step of `ReportDebt` does.
* A worker without faults (end of `PollerProofs`). That what is handled is left alone, and that
  the cursor waits for its batch, is proved for a queue whose nodes fit into `seen`
  (`NothingEvicted`: finitely many nodes, no more than `SEEN_LIMIT`), as those of the run do.
  With an eviction the mark of a node of the batch itself can go before the batch is through,
  and then both are false. The first also needs `faults = 0`, as its run has it;
  *Observations* has the kill that breaks it.
* The worker's page (end of `PollerProofs`). A request reads the state file and then the
  ledger, and the ledger only grows, so a mark that was there at the first read has its row
  at the second, or is a refusal or a debt of the first, or its row was refused
  (`MarksAreExplained`). This one needs neither hypothesis. That what the page offers to
  forget is marked and owes nothing (`ForgettingIsSafe`) needs both, a forget being one of
  the faults: a forgotten node keeps its ledger row. For a page of any age it holds of the
  nodes whose mark that page had read: marks are not taken back, and a marked node that
  owed nothing is never run again. What is inductive is `LedgerIsMarked`: every node of the ledger is marked
  in the copy that runs, or in the file when none does, but for the one whose run has just
  ended and whose mark is the copy's next act.
* `PageProofs`, activities. `NameFits` orders the life of one name (directory, process, first
  record, an end that is only ever written of a process that has ended); `Fits` says of each
  request what its local copy was loaded from and what its walk over the other records has
  shown so far; `OneOwner` that an activity being started belongs to one request;
  `RecordedOrRefused` that a child without a record is being recorded or its save was refused.
* `LedgerProofs`. What holds however many write: names are bound to different inodes, of
  their kind, made by a run that is past making them, and no history has a line twice. What
  holds of a pair that one process writes at a time (`PairFits`): the temporary file is the
  writer's and holds the history it read and one line, and the lines cover the record and
  every run that was told "recorded". That a trend counts each regression once
  (`RegressionsAreFound`) is a fact about the fold of `trend.py`: the moves it holds after any
  number of records are the places where a verdict follows another, and a regression is such
  a place with a pass before it. `DoorsAreRight` is about every list of builds: the loop of
  `_config_edges` is followed from the last row to the first, one edge or one stretch at a
  time, so that edge i is of the rows i and i + 1 (`EdgesAre`); sorting, whatever the order,
  only moves rows (`SortByMoves`, `SortRowsMoves`), so a page has each build once, so only
  one edge is of two neighbours, and `_directed` finds that one (`DoorOpens`).
* `FetchProofs`. Every inode holds a beginning of the artifact at all times, so a content is
  known by its length (`BeginningFacts`), and appending the next chunk and writing it at its
  position are the same (`NextChunk`). What a command knows at each label (`Knows`: the
  part is as long as its count, the handle is the part's inode, the artifact it is at is
  one the record does not vouch for) and what its act will say (`EntriesTrue`) is an
  invariant while one command pulls at a time: then the others hold nothing (`OneAtATime`),
  which is what the writer gate is for. The antecedent `apart` is part of the statements,
  as in the run; without it they are false (*Observations*).
* `BuildsProofs`. Per process, what the command has made and what it is about to save:
  `snap` has every card of the table (`CardsFit`), the whole copies have or will have a card
  and a pull that has not failed has the rest still to do (`CopiesFit`), the image at the
  path is the one the step left there (`ImageFits`). `PressesGoThrough` is about the pages
  over such a disk: a copy that is whole has its directory (`WholeIsOnDisk`: a removal takes
  the directory last, and only of a copy that is no longer whole), so what is on disk between
  the commands is one of the `Bases`. What the smart button starts, and on which rows, is
  decided by the stages of the ticked rows, for every set of them; and a box that can be ticked is a card and a test,
  because ordering the table, filtering it, joining it with the tests and cutting out a page
  each add nothing.
* `JobProofs`. A verdict was taken from all that will ever be printed (`TakenFromAll`),
  because the console is complete and nobody is left to print when the judge reads it
  (`JudgedWhole`, unless the timeout hit, which is no verdict); that a body saying pass is a
  pass is a fact about `tap_summary`, a loop over the lines: `TapIsSound` says what its
  state means after any number of lines, by `LoopRuns` and `UpTo`.
* `ApiClientProofs`. Everything a request knows was true of the API at a time it is old
  enough for (`Truthful`, `Timely`), in the memo, in the cache and on its way (`Waiting`);
  the rows so far are consecutive ones after `start`, and some answer known to the request
  bounds the list from that start (`Listing`), which is why the walk ends at the tail though
  its pages were read at different times. What is made of the rows (`WhatIsFoundIsThere`)
  rests on one property of the filters and sorts: they keep each node they let through, once,
  in order. The window that finds a build lets through what every wider one does
  (`WindowsWiden`), so the newest of the first is the newest of the widest; and a collection
  begins with what its first read found, so the entry a build has stays the one it was given.
* `SequencingProofs`. A list is selected from by its places: `Those(s, at)` reads them off
  in order, `Ranked` is that order, and it enumerates every finite set once when the order is
  total (`RankedEnumerates`, from the cardinality of what lies before a place). From it what
  is selected or sorted holds the members it should, and nothing twice. A fold is a
  function that follows its step, and what it holds after the first k members holds by
  induction over the natural number k (`LoopRuns`, `FoldRuns`).
* `PageProofs`, the tab. What any answer under way says of an activity was true, and is still about
  something that ran after the page was drawn (`PageIsPast`); the saved ticks are the boxes
  unless the header box set them (`TicksAreSaved`).

Each invariant was checked by TLC on the instance of its module before it was proved. What
was wrong or could not be reasoned about was in the models, not in the code: the type
invariant of `ApiClient` did not hold for a list shorter than what is wanted (now excluded
by its assumption), `Builds` needed its commands' shapes stated, `FateOf` of `WorkerPage`
was a `CASE` whose arms overlapped, which in TLA+ leaves the choice open where Python takes
the first (now `IF`), and `Fetch` put its names together from strings. `SelectSeq` and
`SortSeq` are opaque to the proof system, so a list comprehension or a `sorted` of the code
that a theorem is about is written with `Sequencing`, as a function of a list and a set.

What is checked by TLC only, and why:

* Liveness (`EveryJobSettles`, `EveryDebtIsPaid`, `EndedIsSettled`, `EveryRunEnds`,
  `PageSettles`): fairness and `ENABLED` are out of the proof system's reach.
* The pages and readings (`TrendIsTrue`, `LinksLeadWhereTheySay`, `ButtonsDoWhatTheySay`):
  they are made of queries parsed and written back, of rows paged and grouped, and of sets
  that are constants of an instance, such as the worlds a page is asked about. They are
  checked over the states the machines reach. Of `TrendIsTrue` the first conjunct,
  `TurnsAreRegressions`, is proved, and of `ButtonsDoWhatTheySay` the first, `ForgetIsSafe`.
  The other two walk every question of the instance through its links; the link to another
  API gives the base it names only for some choices of the base the console is started on,
  which the constants of the run make and no assumption of a module fixes.

## Findings

| run | the source says | the code does |
| --- | --- | --- |
| `activity_two_writers` | `run.py:47`: only one writer at a time | two presses pass the gate together |

## Observations

Sentences of the source that the model refutes, or that reading for it showed not to hold,
without a run of their own. Where a formula is named, putting it into the cfg of its
module shows the behaviour.

* Worker: a worker killed between the two flushes runs an owed node again (`poller.py:26`),
  and leaves a refusal without a mark (`poller.py:401`); both are `HandledIsLeftAlone` with
  a fault allowed. Callbacks turned off during a run do not stop that run's report,
  though `poller.py:286` and `sink.py:455` say it is read at delivery (`OffIsOff`). The
  ledger row is not always written by the time the mark is, as `poller.py:294` and `fate_of`
  (`data.py:489`) have it: `Ledger.deliver` swallows a refused write, `sink.py:163`, and the
  page then says a bare `seen`. A 4xx is posted again for ever, though `errors.py:101` says give up
  (`RejectedIsGivenUp`, with a node in `Rejected`).
* Activities: the reaper saves its verdict over a cancellation, `run.py:88` (`CancelledStays`);
  a look before `_LIVE` is set takes the exit status and a failed command is recorded as
  done, `run.py:246` (`DoneMeansPassed`; both are action properties). A save that is refused
  after `Popen` leaves a child the gate never sees.
* Ledger: two processes that write one pair can publish a half-written file, `sink.py:745`
  (`ReadersAlwaysSeeWholeFiles`).
* Fetch: two downloads of one artifact can publish a mixture, `fetch.py:35`
  (`AlwaysPublishedWhole`, with `Modes = {FALSE}`; a host that names no length publishes a
  beginning, and so refutes it, with one). "A witness the host cannot take away",
  `model.py:172`, is taken away by `PROVENANCE_ACTS` failed pulls (`WitnessNeverLost`). A
  gzipped kernel cut short is an `EOFError` at `rootfs.py:46`, which the `except` there does
  not name: the command ends with a traceback and no act.
* Builds: a build that is being provisioned can be pruned, `prune.py:13`
  (`ServedIsAlwaysKept`). `model.py:447` says a URL naming another build is ignored, the
  merge keeps it when there was none. `_pull` looks a card up outside its `try`, so an id
  without a card ends the whole pull and nothing is saved.
* Configs: the pulled copy is taken as "proven whole to be on disk at all",
  `drift.py:376`, which a host that names no length does not make true; and the check of
  `_kept_config` that `drift.py:442` trusts with a truncated body compares a length that was
  noted of that same body (`NeverComparesAPart`).
* Job: a pass whose console could not be archived is reported as a failure, `job.py:295`
  (`PassIsReportedAsPass`). A silent run's console is a newline, so the start line is not
  kept as `_keep_console` says. A client started between `_clients` and `killpg` survives.
  A passing suite with a failing login case is reported as failed.
* Analysis: `analysis.py:761-765` has the bounds of its two arms swapped, so the row just
  past the cap says "no config" for a pair nobody compared, and a refused pair at the last
  place within it says "beyond the cap". The end rows' arms without a number say "first" or
  "last" though there is a neighbour. `_timelines` takes marks and the legend's runs from the
  whole ledger and the counts from the window. A build held without a card is not given the
  API's, and its comparisons are refused. `verdict:desc` flipped reads as the alias
  `verdict,date`. `_points` carries to the right edge though its docstring says nothing is
  carried after the last run. A failure after an undecided run counts as a regression and
  marks no comparison. `design/pages/pairs.py` is not reached.
* Day runs: `runday.py` exits with 0 when everything it was asked for is on record already,
  whatever the records say, though `runday.py:17` and `runday.py:142` say it classifies as
  `table.py run` does (`DaySaysTheSame`). The list of a window is not made unique, so a build under two nodes is
  run twice in one day. `drift.py --older X` alone compares the newest two builds and says
  nothing of X, `lib/drift.py:75`.
* Pages: the digest is taken last (`shell.py:428`), so a write between a page's reads and its
  digest is not reloaded for. A finish announced while the reader types is lost at the
  deferred reload. A second poll during a slow reload overwrites the carried notice. Two
  overlapping polls answered out of order announce a started activity as gone. Select-all sets
  boxes without a change event. On a console launched on the local stack `?api=local` is
  dropped by every link, and chips drop `api` altogether. `_origins` of local and both answers
  local. The number of what is here counts empty directories that its link does not show. The
  number of the card preset is the whole table's while its link keeps the other filters, and
  the window's view has more rows than its number (`builds.py:682-693`, which says the
  latter itself). A
  HEAD makes later GETs of its connection bodiless (`server.py:392`). `/builds?origin=card`
  counts pages of the slice. With several branches chosen the one-shot buttons are enabled and
  refused. `/jobs?ran=never` without a test is fewer rows than the gap. The redrawn activities
  table has group rows and cancel buttons the server does not draw.
* Worker's page: an unknown runtime is drawn off but its start button is not blocked; the bar
  drops `job` when the table is empty and replaces a state of several words; the badge leaves
  out nodes that name no platform and counts nodes already seen; a forget button may stand on
  a page that read the state file before a node's mark and the ledger after its row, and
  pressed when the report was refused it runs the node again, since `forget_node` does not
  look at `pending` (`ForgetStaysSafe`). A worker started for the wrong lab marks every
  other node seen.

`PROJECT.json` gives the run of each finding; the formulas above are definitions of their
modules. `TypeOK` is an invariant of every machine, though only `poller_crash` spends on it:
it is proved for `Poller`, `Activity`, `Page`, `Ledger`, `Job` and `ApiClient`, for `Builds`
as part of its `Invariance`, and for `Fetch` while one command pulls at a time (`Shape`).

## Not modelled

* What a timestamp of the API looks like and how old the printed line of `kbuild.py` says it is;
  a definition's YAML, of which a claim models that it parses or does not.
* Command lines, paths, ports, output: wrappers with no state that outlives a call. Of the
  entry points only what `runday.py` selects, skips and exits with is in (`Discovery`);
  `run_latest.py` is a search, a make, a card and a run in a row; the switch of the worker
  that runs a day instead is not in.
* Markup, styles, wording, translations; the pages of tests, reports and settings, which draw
  what the modelled readings return.
* Shell scripts that install the stack, and the repository's own gate tests.
* Bytes of JSON, of consoles and of archives: a file is whole, a part, or damaged.

## Plan

1. The readings and pages that only TLC checks, as far as they do without folds: the
   partition of rows into pages, and that a link changes one key of its question.
2. `NothingEvicted` replaced, in the theorems that have it, by what is
   true when a mark is evicted: that only nodes no longer in a batch are.
3. `Fetch` without `apart`: what two downloads of one artifact cannot do to each other's
   record, though they can mix their bytes.
4. The refinement of `Builds.Make` by `Fetch`, with the copy's completeness as the mapping.
