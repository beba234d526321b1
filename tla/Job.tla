-------------------------------- MODULE Job --------------------------------
(***************************************************************************)
(* One run of one job: `Job.run` of lib/job.py with the artifacts it       *)
(* prepares, the tuxrun process lib/runner.py starts and, when the timeout *)
(* hits, kills, the log file that says a run is in flight, the verdict     *)
(* (Judge) and the two sinks it is filed in, the record and the report.    *)
(*                                                                         *)
(* Beside the run there are the child it started; the container runtime's  *)
(* client the child starts, which is in a process group of its own and     *)
(* holds the child's pipes; the container; and the thread that adds a      *)
(* line to the log every BEAT seconds.  Each goes on by itself, so the     *)
(* run is cut wherever one of them can get in between.                     *)
(***************************************************************************)
EXTENDS Judge

CONSTANTS
    MaxLines,     \* bound: lines of console
    MaxBeats,     \* bound: beats written
    MaxPosts,     \* bound: re-posts of an owed report
    MaxFaults     \* bound: failures of the disk, the network and the tools

ASSUME JobAssumption ==
    MaxLines \in Nat /\ MaxBeats \in Nat /\ MaxPosts \in Nat /\ MaxFaults \in Nat

Artifacts == {"kernel", "rootfs", "modules", "kselftest"}
Nothing == [a \in Artifacts |-> "none"]
NoConsole == -1      \* nothing was executed: `console` is still ''

VARIABLES
    pc,         \* where the run is
    job,        \* the test, what its definition names and what is on this disk
    child,      \* tuxrun: "none", "alive", "zombie", "reaped"
    rc,         \* its exit status; NoExit once the timeout decided
    client,     \* the runtime's client: "none", "alive", "gone"
    container,  \* "none", "up", "gone"
    found,      \* `_clients` saw the client
    printed,    \* everything the child and its container printed
    captured,   \* how many lines of it the run has in hand
    outcome,    \* the run's verdict; "none" so far
    raised,     \* the run ends in an exception
    log,        \* what is in the log file
    beat,       \* the beat thread: "off", "waiting", "writing"
    kept,       \* the outcome's `log` names the file
    record,     \* the verdict in the ledger
    accepted,   \* the verdicts the pipeline was told, and took
    owed,       \* the report is pending
    posts, faults

processes == <<child, rc, client, container, printed>>
result == <<captured, outcome, raised>>
files == <<log, beat, kept>>
reports == <<record, accepted, owed, posts>>
vars == <<pc, job, processes, found, result, files, reports, faults>>

Fault == faults < MaxFaults /\ faults' = faults + 1
Fine == UNCHANGED faults

Goes(from, to) == pc = from /\ pc' = to
-----------------------------------------------------------------------------
(* Before tuxrun: the artifacts, the command line, the log.                *)

\* A job-level problem is an outcome without a verdict and goes on to be filed.
Infra(from) ==
    /\ Goes(from, "stop") /\ outcome' = "incomplete"
    /\ UNCHANGED <<job, processes, found, captured, raised, files, reports>>

\* `make`: a definition's guest disk is baked here, and the tarball of the KVM
\* suite is fetched to read its list of tests unless the caller named them.
Make(named) ==
    \/ /\ Goes("make", "argv") /\ Fine
       /\ LET suite == job.test # Boot
              baked == IF suite /\ job.given.rootfs # "none" THEN "path" ELSE "none"
              tarball == IF suite /\ ~named THEN "path" ELSE "none"
          IN  /\ tarball = "path" => job.given.kselftest # "none"
              /\ job' = [job EXCEPT !.local.rootfs = baked, !.local.kselftest = tarball]
       /\ UNCHANGED <<processes, found, result, files, reports>>
    \/ Infra("make") /\ Fault
    \/ Infra("make") /\ Fine /\ job.test # Boot /\ ~named /\ job.given.kselftest = "none"

\* `_artifact`: the copy on this disk, else what the definition names.
Artifact(a) == IF job.local[a] # "none" THEN job.local[a] ELSE job.given[a]

\* The artifacts the command line has to name, and the modules beside them when
\* the guest disk was not baked with them.
Needed == IF job.test = Boot THEN {"kernel"} ELSE {"kernel", "rootfs", "kselftest"}
Overlay ==
    IF job.test # Boot /\ Artifact("modules") # "none" /\ job.local.rootfs = "none"
    THEN {"modules"} ELSE {}

\* A path that is not absolute is refused, as is an artifact there is none of.
Spellable == \A a \in Needed \cup Overlay : Artifact(a) \notin {"none", "relative"}

Argv ==
    \/ /\ Spellable /\ Goes("argv", "flight") /\ Fine
       /\ job' = [job EXCEPT !.given = Nothing, !.local = Nothing]
       /\ UNCHANGED <<processes, found, result, files, reports>>
    \/ ~Spellable /\ Infra("argv") /\ Fine

\* `_InFlight.start`: the line that says the run began, and the beat; neither may
\* cost the run.
Flight ==
    /\ Goes("flight", "spawn")
    /\ \/ log' = <<"running">> /\ beat' = "waiting" /\ Fine
       \/ UNCHANGED <<log, beat>> /\ Fault
    /\ UNCHANGED <<job, processes, found, result, kept, reports>>

Spawn ==
    \/ /\ Goes("spawn", "wait") /\ child' = "alive" /\ Fine
       /\ UNCHANGED <<job, rc, client, container, printed, found, result, files, reports>>
    \/ Infra("spawn") /\ Fault
-----------------------------------------------------------------------------
(* `execute`: wait for the end of the output, or the timeout.              *)

\* Whoever holds the pipes' write ends: the child, and the client it started.
EndOfFile == child # "alive" /\ client # "alive"

Answered ==
    /\ Goes("wait", "judge") /\ EndOfFile
    /\ child' = "reaped" /\ captured' = Len(printed)
    /\ Fine
    /\ UNCHANGED <<job, rc, client, container, printed, found, outcome, raised, files, reports>>

\* Any other exception, such as output that does not decode, read to its end here or in
\* `_drain`: it is recorded as an error and then allowed to be loud.
Bug ==
    /\ pc \in {"wait", "drain"} /\ pc' = "stop" /\ EndOfFile /\ Fault
    /\ child' = "reaped" /\ outcome' = "error" /\ raised' = TRUE
    /\ UNCHANGED <<job, rc, client, container, printed, found, captured, files, reports>>

TimesOut ==
    /\ Goes("wait", "kill") /\ Fine
    /\ UNCHANGED <<job, processes, found, result, files, reports>>

\* `_clients`: the child's children, read before the kill; a dead child has none.
ListClients ==
    /\ Goes("kill", "killpg")
    /\ \/ found' = (child = "alive" /\ client = "alive") /\ Fine
       \/ found' = FALSE /\ Fault
    /\ UNCHANGED <<job, processes, result, files, reports>>

\* The session of the child, which the client has left.
KillGroup ==
    /\ Goes("killpg", "remove") /\ Fine
    /\ child' = IF child = "alive" THEN "zombie" ELSE child
    /\ UNCHANGED <<job, rc, client, container, printed, found, result, files, reports>>

RemoveContainer ==
    /\ Goes("remove", "drain")
    /\ \/ container' = (IF found /\ container = "up" THEN "gone" ELSE container) /\ Fine
       \/ found /\ UNCHANGED container /\ Fault
    /\ UNCHANGED <<job, child, rc, client, printed, found, result, files, reports>>

\* Mutant: the second wait is not bounded.
DrainToTheEnd ==
    /\ Goes("drain", "judge") /\ Fine
    /\ EndOfFile /\ captured' = Len(printed)
    /\ child' = "reaped" /\ rc' = NoExit
    /\ UNCHANGED <<job, client, container, printed, found, outcome, raised, files, reports>>

\* `_drain`: until the end of the output or DRAIN, and with what was read by then.
Drain ==
    /\ Goes("drain", "judge") /\ Fine
    /\ \/ EndOfFile /\ captured' = Len(printed)
       \/ ~EndOfFile /\ captured' \in 0..Len(printed)
    /\ child' = "reaped" /\ rc' = NoExit
    /\ UNCHANGED <<job, client, container, printed, found, outcome, raised, files, reports>>

Console == IF captured = NoConsole THEN <<>> ELSE SubSeq(printed, 1, captured)

JudgeIt ==
    /\ Goes("judge", "stop") /\ Fine
    /\ outcome' = Verdict(rc, Console, job.test)
    /\ UNCHANGED <<job, processes, found, captured, raised, files, reports>>
-----------------------------------------------------------------------------
(* After it: the beat stops, the log, the record, the report.              *)

\* `_InFlight.stop`: joined for BEAT_JOIN at most, so a beat whose write hangs is
\* left behind.
Stop ==
    /\ Goes("stop", "keep") /\ Fine
    /\ beat' = IF beat = "writing" THEN beat ELSE "off"
    /\ UNCHANGED <<job, processes, found, result, log, kept, reports>>

\* Mutant: the console is added to what the run in flight wrote.
KeepConsoleBelow ==
    /\ Goes("keep", "ledger")
    /\ \/ captured = NoConsole /\ UNCHANGED <<log, kept>> /\ Fine
       \/ captured # NoConsole /\ log' = Append(log, "console") /\ kept' = TRUE /\ Fine
       \/ captured # NoConsole /\ UNCHANGED <<log, kept>> /\ Fault
    /\ UNCHANGED <<job, processes, found, result, beat, reports>>

KeepConsole ==
    /\ Goes("keep", "ledger")
    /\ \/ captured = NoConsole /\ UNCHANGED <<log, kept>> /\ Fine
       \/ captured # NoConsole /\ log' = <<"console">> /\ kept' = TRUE /\ Fine
       \/ captured # NoConsole /\ UNCHANGED <<log, kept>> /\ Fault
    /\ UNCHANGED <<job, processes, found, result, beat, reports>>

\* The ledger reports a failure to write and does not raise it.
FileRecord ==
    /\ Goes("ledger", "post")
    /\ \/ record' = outcome /\ Fine
       \/ UNCHANGED record /\ Fault
    /\ UNCHANGED <<job, processes, found, result, files, accepted, owed, posts>>

\* The body replays the console from the file the outcome names, if it is there.
Archived == IF kept /\ log # <<>> THEN Console ELSE <<>>

Told == VerdictFromBody(LavaBody(outcome, Archived, job.test))

\* A refused post raises out of the run like a bug does, and the worker then keeps
\* the report.
Post ==
    /\ Goes("post", "over")
    /\ \/ accepted' = accepted \cup {Told} /\ owed' = raised /\ Fine
       \/ UNCHANGED accepted /\ owed' = TRUE /\ Fault
    /\ UNCHANGED <<job, processes, found, result, files, record, posts>>

\* `_repost_pending`, with the outcome the worker kept.
Repost ==
    /\ pc = "over" /\ owed /\ posts < MaxPosts /\ posts' = posts + 1
    /\ \/ accepted' = accepted \cup {Told} /\ owed' = FALSE /\ Fine
       \/ UNCHANGED <<accepted, owed>> /\ Fault
    /\ UNCHANGED <<pc, job, processes, found, result, files, record>>
-----------------------------------------------------------------------------
(* The others.                                                             *)

Alone == UNCHANGED <<pc, job, found, result, kept, reports>>

\* `_beat`: the flag is read before the file is opened, not after.
BeatOpens ==
    /\ beat = "waiting" /\ beat' = "writing" /\ Fine
    /\ Alone /\ UNCHANGED <<processes, log>>

Stopped == pc \in {"keep", "ledger", "post", "over"}

BeatWrites ==
    /\ beat = "writing" /\ Len(log) <= MaxBeats /\ Fine
    /\ log' = Append(log, "beat") /\ beat' = IF Stopped THEN "off" ELSE "waiting"
    /\ Alone /\ UNCHANGED processes

LoseLog ==
    /\ pc = "over" /\ beat = "off" /\ log # <<>> /\ log' = <<>> /\ Fault
    /\ Alone /\ UNCHANGED <<processes, beat>>

Prints(line) ==
    /\ child = "alive" \/ container = "up"
    /\ Len(printed) < MaxLines /\ printed' = Append(printed, line) /\ Fine
    /\ Alone /\ UNCHANGED <<child, rc, client, container, log, beat>>

StartClient ==
    /\ child = "alive" /\ client = "none" /\ client' = "alive" /\ Fine
    /\ Alone /\ UNCHANGED <<child, rc, container, printed, log, beat>>

StartContainer ==
    /\ client = "alive" /\ container = "none" /\ container' = "up" /\ Fine
    /\ Alone /\ UNCHANGED <<child, rc, client, printed, log, beat>>

\* A container ends by itself, or was removed; its client ends with it.
EndClient ==
    /\ client = "alive" /\ container # "none"
    /\ client' = "gone" /\ container' = "gone" /\ Fine
    /\ Alone /\ UNCHANGED <<child, rc, printed, log, beat>>

\* The child waits for its client, unless it dies.
ChildExits(status) ==
    /\ child = "alive" /\ child' = "zombie" /\ rc' = status
    /\ \/ client # "alive" /\ Fine
       \/ client = "alive" /\ status \notin {0, RefusedRc} /\ Fault
    /\ Alone /\ UNCHANGED <<client, container, printed, log, beat>>
-----------------------------------------------------------------------------
Init ==
    /\ pc = "make"
    /\ job \in [test : {Boot, Suite}, given : [Artifacts -> {"none", "url", "relative"}],
                local : {Nothing}]
    /\ child = "none" /\ rc = 0 /\ client = "none" /\ container = "none"
    /\ found = FALSE /\ printed = <<>> /\ captured = NoConsole
    /\ outcome = "none" /\ raised = FALSE
    /\ log = <<>> /\ beat = "off" /\ kept = FALSE
    /\ record = "none" /\ accepted = {} /\ owed = FALSE /\ posts = 0 /\ faults = 0

Execute ==
    \/ Answered \/ Bug \/ TimesOut
    \/ ListClients \/ KillGroup \/ RemoveContainer \/ Drain \/ JudgeIt

Run ==
    \/ \E named \in BOOLEAN : Make(named)
    \/ Argv \/ Flight \/ Spawn
    \/ Execute
    \/ Stop \/ KeepConsole \/ FileRecord \/ Post

Others ==
    \/ BeatOpens \/ BeatWrites \/ LoseLog
    \/ \E line \in Lines : Prints(line)
    \/ StartClient \/ StartContainer \/ EndClient
    \/ \E status \in {0, 1, RefusedRc} : ChildExits(status)

Next == Run \/ Repost \/ Others

Spec == Init /\ [][Next]_vars

\* The run's own steps are taken, its clocks among them (the timeout and DRAIN);
\* nothing is assumed of the child, its client or the beat.
FairSpec == Spec /\ WF_vars(Run)
-----------------------------------------------------------------------------
(* Correctness.                                                            *)

Verdicts == {"pass", "fail", "incomplete"}

\* Every variable has its type.
TypeOK ==
    /\ pc \in {"make", "argv", "flight", "spawn", "wait", "kill", "killpg", "remove", "drain",
               "judge", "stop", "keep", "ledger", "post", "over"}
    /\ job \in [test : {Boot, Suite}, given : [Artifacts -> {"none", "url", "relative"}],
                local : [Artifacts -> {"none", "path"}]]
    /\ child \in {"none", "alive", "zombie", "reaped"}
    /\ rc \in {0, 1, RefusedRc, NoExit}
    /\ client \in {"none", "alive", "gone"} /\ container \in {"none", "up", "gone"}
    /\ found \in BOOLEAN /\ raised \in BOOLEAN /\ kept \in BOOLEAN /\ owed \in BOOLEAN
    /\ printed \in BoundedSeq(Lines, MaxLines) /\ captured \in NoConsole..Len(printed)
    /\ outcome \in Verdicts \cup {"none", "error"} /\ record \in Verdicts \cup {"none", "error"}
    /\ log \in BoundedSeq({"running", "beat", "console"}, MaxBeats + 1)
    /\ beat \in {"off", "waiting", "writing"}
    /\ accepted \subseteq Verdicts /\ posts \in 0..MaxPosts /\ faults \in 0..MaxFaults

Reported(name, kinds) ==
    \E i \in DOMAIN printed : printed[i].name = name /\ printed[i].kind \in kinds

\* A verdict is only given by a run that ended by itself, and a pass only when
\* everything the run printed, seen or not, is without a failure: no selftest
\* failed in any of its attempts, none was started without a result, and a boot
\* shows one (judge.py: "that is how a failure disappears from a report").
VerdictsAreEarned ==
    /\ outcome \in {"pass", "fail"} => rc # NoExit
    /\ outcome = "pass" =>
         /\ ~Has(printed, "infra")
         /\ job.test = Boot =>
              /\ rc = 0 /\ ~Has(printed, "boot_case_fail")
              /\ \E i \in DOMAIN printed :
                    printed[i].kind \in {"kernel", "boot_case_pass", "job_pass"}
         /\ job.test # Boot =>
              /\ \E n \in Selftests : Reported(n, {"ok", "skip"})
              /\ \A n \in Selftests :
                    /\ ~Reported(n, {"not_ok"})
                    /\ Reported(n, {"started"}) => Reported(n, {"ok", "skip"})

\* The pipeline is never told of a pass the run did not end in, whether at once or
\* by a re-post whose log has gone (sink.py, `_status`: "green in one place and red
\* in the other is the one disagreement this body may not have").
NeverGreenElsewhere == "pass" \in accepted => outcome = "pass"

\* The file a record names as its log begins with the whole console, whatever the
\* beat does: what it wrote before is replaced, and what hung comes after.
KeptLogIsTheConsole == kept /\ log # <<>> => log[1] = "console"

\* What a run leaves behind, its verdict and its console, is what it did.
RecordIsTrue == VerdictsAreEarned /\ KeptLogIsTheConsole

\* A run ends, though its child never does, a client survives the kill and holds the
\* pipes, or a beat hangs (runner.py: "a run that never returns").
EveryRunEnds == <>(pc = "over")

\* A run that passed is reported as a pass (job.py, `_keep_console`: "failing to
\* write it must not cost the result").
PassIsReportedAsPass == accepted # {} /\ outcome = "pass" => accepted = {"pass"}
=============================================================================
