------------------------------ MODULE Activity ------------------------------
(***************************************************************************)
(* The activities of lib/run.py as the page drives them: every button      *)
(* starts one command as a child process with a directory, a log and a     *)
(* run.json of its own, and any request that looks at the activities       *)
(* settles the ones whose process has gone.                                *)
(*                                                                         *)
(* Four kinds of actor share the directories and the server's memory: the  *)
(* request threads of the page's server, one reaper thread per activity    *)
(* the present server started, the child processes, and a restart of the   *)
(* server, which loses the threads and `_LIVE` but not the children.  No   *)
(* lock is taken anywhere, so the steps are cut at every file operation,   *)
(* system call and access to `_LIVE`.                                      *)
(*                                                                         *)
(* All activities are of one kind, a writer, and start within one second,  *)
(* the case `_free_id` is for: a name is the suffix that tells two of them *)
(* apart, the newest the largest.  A kind that writes nothing runs the     *)
(* same code and only skips the gate.                                      *)
(***************************************************************************)
EXTENDS Integers, FiniteSetsExt

CONSTANTS
    Threads,      \* request threads of the page's server
    MaxNames,     \* the names one second has (99 in `_free_id`)
    Tries,        \* attempts at a directory of one's own (3 in `start`)
    MaxRestarts,  \* bound: restarts of the server
    MaxRefused    \* bound: activities a save of which is refused, once each

ASSUME ActivityAssumption ==
    MaxNames \in Nat \ {0} /\ Tries \in Nat \ {0}
    /\ MaxRestarts \in Nat /\ MaxRefused \in Nat

Names == 1..MaxNames
NoName == 0

VARIABLES
    dirs,       \* the directories there are
    json,       \* the `state` in an activity's run.json ("torn": no JSON, `load` finds none)
    tmp,        \* the `state` in the run.json.tmp beside it ("torn": a refused write's rest)
    refused,    \* the activities a save of which was refused (for the properties only)
    proc,       \* the child: "none" yet, "alive", "zombie" (its status unread) or "gone"
    status,     \* the child's exit status, until somebody has waited for it
    mine,       \* the activities whose child is the present server's
    live,       \* `_LIVE`: "absent", "none", or the exit status
    reaper,     \* an activity's reaper thread: where it is, and the status it has
    request,    \* a request thread: where it is, and its local variables
    restarts    \* restarts so far (bounded by MaxRestarts)

files == <<dirs, json, tmp, refused>>
children == <<proc, status, mine>>
vars == <<files, children, live, reaper, request, restarts>>

\* A request's local variables: its operation, the activities it has yet to
\* look at, whether a start found one running, the activity in hand and its copy of
\* that run's state, the saves that copy still needs, the names it tried; and,
\* for the properties only, the ones there to be found when a start came in,
\* until the gate has answered it.
Idle == [at |-> "idle", op |-> "none", todo |-> {}, busy |-> FALSE, id |-> NoName,
         copy |-> "absent", saves |-> 0, tries |-> 0, known |-> {}]
NoReaper == [at |-> "off", code |-> "none"]

Settled == {"done", "failed", "cancelled"}

\* `_settle`: the exit code decides between done and failed.
StateOf(code) == IF code = "ok" THEN "done" ELSE "failed"

Do(t, r) == request' = [request EXCEPT ![t] = r]

-----------------------------------------------------------------------------
(* A request comes in.                                                     *)

OnRecord == {n \in Names : json[n] = "running" /\ proc[n] = "alive"}

\* `status` (the page's poll) and the writer gate of `start` list every
\* activity; `log` looks at one.
Look(t, S) ==
    /\ request[t].at = "idle"
    /\ Do(t, [Idle EXCEPT !.at = "visit", !.op = "look", !.todo = S])
    /\ UNCHANGED <<files, children, live, reaper, restarts>>

AskToStart(t) ==
    /\ request[t].at = "idle"
    /\ Do(t, [Idle EXCEPT !.at = "visit", !.op = "start", !.todo = dirs, !.known = OnRecord])
    /\ UNCHANGED <<files, children, live, reaper, restarts>>

\* `cancel` loads its run and leaves at once unless it is running.
Cancel(t, n) ==
    /\ request[t].at = "idle" /\ json[n] = "running"
    /\ Do(t, [Idle EXCEPT !.at = "kill", !.op = "cancel", !.id = n, !.copy = "running"])
    /\ UNCHANGED <<files, children, live, reaper, restarts>>

-----------------------------------------------------------------------------
(* `load_all`: read one run.json after another, newest first, and reap     *)
(* what says "running".                                                    *)

Load(t) ==
    LET r == request[t]
        n == Max(r.todo)
    IN  /\ r.at = "visit" /\ r.todo # {}
        /\ Do(t, IF json[n] = "running"
                 THEN [r EXCEPT !.at = "reap", !.id = n, !.copy = "running"]
                 ELSE [r EXCEPT !.todo = @ \ {n}])
        /\ UNCHANGED <<files, children, live, reaper, restarts>>

\* Mutant: a run this server did not start counts as over.
StillRunningHere(n) == live[n] = "none" \/ (live[n] = "absent" /\ n \in mine /\ proc[n] = "alive")

\* What `reap` takes for running: a run of this server's whose reaper has no
\* status yet; otherwise one whose process is there.
StillRunning(n) == live[n] = "none" \/ (live[n] = "absent" /\ proc[n] = "alive")

\* On to the next activity of the list.
GoOn(r) ==
    [r EXCEPT !.at = "visit", !.todo = @ \ {r.id}, !.id = NoName, !.copy = "absent", !.saves = 0]

\* `reap` finds it running.
ReapFindsRunning(t) ==
    LET r == request[t] IN
    /\ r.at = "reap" /\ r.op # "cancel" /\ StillRunning(r.id)
    /\ Do(t, [GoOn(r) EXCEPT !.busy = (r.op = "start"), !.known = {}])
    /\ UNCHANGED <<files, children, live, reaper, restarts>>

\* `reap` finds it ended: by the reaper's status, by `waitpid` on a child not
\* yet in `_LIVE` (which takes the status), or by the pid being gone, where
\* `alive` settles and `reap` settles again.
ReapSettles(t) ==
    LET r == request[t]
        n == r.id
        waited == live[n] = "absent" /\ proc[n] = "zombie"
        unknown == live[n] = "absent" /\ proc[n] = "gone"
        code == IF unknown THEN "none" ELSE IF waited THEN status[n] ELSE live[n]
    IN  /\ r.at = "reap" /\ ~StillRunning(n)
        /\ proc' = IF waited THEN [proc EXCEPT ![n] = "gone"] ELSE proc
        /\ Do(t, [r EXCEPT !.at = "write", !.copy = StateOf(code),
                           !.saves = IF unknown THEN 2 ELSE 1])
        /\ status' = IF waited THEN [status EXCEPT ![n] = "none"] ELSE status
        /\ UNCHANGED <<files, mine, live, reaper, restarts>>

-----------------------------------------------------------------------------
(* `save`: the body into run.json.tmp, then renamed over run.json.         *)

Write(n, state) == tmp' = [tmp EXCEPT ![n] = state] /\ UNCHANGED <<dirs, json, refused>>

\* The filesystem refuses the write: the file cannot be opened and stays as it
\* was, or it was emptied and its body is cut short.  Nobody removes the rest.
WriteRefused(n) ==
    /\ n \notin refused /\ Cardinality(refused) < MaxRefused
    /\ tmp' \in {tmp, [tmp EXCEPT ![n] = "torn"]}
    /\ refused' = refused \cup {n}
    /\ UNCHANGED <<dirs, json>>

\* Another writer may have renamed the file away: the rename then raises.
Rename(n) ==
    /\ tmp[n] # "absent"
    /\ json' = [json EXCEPT ![n] = tmp[n]]
    /\ tmp' = [tmp EXCEPT ![n] = "absent"]
    /\ UNCHANGED <<dirs, refused>>

RequestWrites(t) ==
    LET r == request[t] IN
    /\ r.at = "write"
    /\ Write(r.id, r.copy)
    /\ Do(t, [r EXCEPT !.at = "rename"])
    /\ UNCHANGED <<children, live, reaper, restarts>>

\* The DiskError ends the request: of a start, with the child already running
\* and no record of it.
RequestWriteRefused(t) ==
    /\ request[t].at = "write"
    /\ WriteRefused(request[t].id)
    /\ Do(t, Idle)
    /\ UNCHANGED <<children, live, reaper, restarts>>

\* Where a request goes on after a save: to the next save of the same copy, to
\* the rest of `start`, from `reap` back to `cancel`, which has its own state to
\* save, or to the next activity of the list.
Resume(r) ==
    IF r.saves > 1 THEN [r EXCEPT !.at = "write", !.saves = @ - 1]
    ELSE IF r.copy = "running" THEN [r EXCEPT !.at = "enlist"]
    ELSE IF r.op = "cancel" /\ r.copy # "cancelled"
         THEN [r EXCEPT !.at = "write", !.copy = "cancelled"]
    ELSE IF r.op = "cancel" THEN Idle
    ELSE GoOn(r)

RequestRenames(t) ==
    LET r == request[t] IN
    /\ r.at = "rename"
    /\ Rename(r.id)
    /\ Do(t, Resume(r))
    /\ UNCHANGED <<children, live, reaper, restarts>>

\* So does the DiskError of a lost rename.
RequestRenameFails(t) ==
    LET r == request[t] IN
    /\ r.at = "rename" /\ tmp[r.id] = "absent"
    /\ Do(t, Idle)
    /\ UNCHANGED <<files, children, live, reaper, restarts>>

-----------------------------------------------------------------------------
(* `cancel`: signal the process group, wait for it, record "cancelled".    *)

\* SIGTERM only asks: the child exits when it likes, with the status it likes.
Signal(t) ==
    LET r == request[t] IN
    /\ r.at = "kill" /\ proc[r.id] \in {"alive", "zombie"}
    /\ Do(t, [r EXCEPT !.at = "reap"])
    /\ UNCHANGED <<files, children, live, reaper, restarts>>

\* Nobody to signal: the run is settled without a code and `cancel` says no.
SignalFindsNobody(t) ==
    LET r == request[t] IN
    /\ r.at = "kill" /\ proc[r.id] = "gone"
    /\ Do(t, [r EXCEPT !.at = "write", !.op = "look", !.copy = StateOf("none"), !.saves = 1,
                       !.todo = {}])
    /\ UNCHANGED <<files, children, live, reaper, restarts>>

\* Mutant: ten seconds are up and the process is left alone.
GivesUpWaiting(t) ==
    LET r == request[t] IN
    /\ r.at = "reap" /\ r.op = "cancel" /\ StillRunning(r.id)
    /\ Do(t, [r EXCEPT !.at = "write", !.copy = StateOf("none"), !.saves = 1])
    /\ UNCHANGED <<files, children, live, reaper, restarts>>

\* Ten seconds are up: SIGKILL, and the run is settled without a code.
KillsAtLast(t) ==
    LET r == request[t] IN
    /\ r.at = "reap" /\ r.op = "cancel" /\ StillRunning(r.id)
    /\ IF proc[r.id] = "alive"
       THEN /\ proc' = [proc EXCEPT ![r.id] = IF r.id \in mine THEN "zombie" ELSE "gone"]
            /\ status' = [status EXCEPT ![r.id] = "bad"]
       ELSE UNCHANGED <<proc, status>>
    /\ Do(t, [r EXCEPT !.at = "write", !.copy = StateOf("none"), !.saves = 1])
    /\ UNCHANGED <<files, mine, live, reaper, restarts>>

-----------------------------------------------------------------------------
(* `start`: the writer gate, a directory, a child, a record, a reaper.     *)

\* The list is read: a look is over, and a start is refused if one was found.
Looked(t) ==
    LET r == request[t] IN
    /\ r.at = "visit" /\ r.todo = {}
    /\ Do(t, IF r.op = "start" /\ ~r.busy THEN [r EXCEPT !.at = "free"] ELSE Idle)
    /\ UNCHANGED <<files, children, live, reaper, restarts>>

\* `_free_id`: the first name nobody uses, if the second has one left.
FreeId(t) ==
    LET r == request[t]
        free == Names \ dirs
    IN  /\ r.at = "free"
        /\ Do(t, IF free = {} THEN Idle
                 ELSE [r EXCEPT !.at = "mkdir",
                                !.id = Min(free)])
        /\ UNCHANGED <<files, children, live, reaper, restarts>>

\* Mutant: an existing directory is good enough.
MakeDirExistOk(t) ==
    LET r == request[t] IN
    /\ r.at = "mkdir"
    /\ dirs' = dirs \cup {r.id}
    /\ Do(t, [r EXCEPT !.at = "spawn"])
    /\ UNCHANGED <<json, tmp, refused, children, live, reaper, restarts>>

\* The directory is this request's own, or the name is taken and another tried.
MakeDir(t) ==
    LET r == request[t] IN
    /\ r.at = "mkdir"
    /\ IF r.id \in dirs
       THEN /\ Do(t, IF r.tries + 1 < Tries THEN [r EXCEPT !.at = "free", !.tries = @ + 1]
                     ELSE Idle)
            /\ UNCHANGED dirs
       ELSE /\ dirs' = dirs \cup {r.id}
            /\ Do(t, [r EXCEPT !.at = "spawn"])
    /\ UNCHANGED <<json, tmp, refused, children, live, reaper, restarts>>

\* Mutant: the reaper is started before the record is written.
SpawnAndWatch(t) ==
    LET r == request[t] IN
    /\ r.at = "spawn"
    /\ proc' = [proc EXCEPT ![r.id] = "alive"]
    /\ mine' = mine \cup {r.id}
    /\ reaper' = [reaper EXCEPT ![r.id] = [NoReaper EXCEPT !.at = "wait"]]
    /\ Do(t, [r EXCEPT !.at = "write", !.copy = "running", !.saves = 1, !.known = {}])
    /\ UNCHANGED <<files, status, live, restarts>>

\* The child runs before anything records it...
Spawn(t) ==
    LET r == request[t] IN
    /\ r.at = "spawn"
    /\ proc' = [proc EXCEPT ![r.id] = "alive"]
    /\ status' = [status EXCEPT ![r.id] = "none"]
    /\ mine' = mine \cup {r.id}
    /\ Do(t, [r EXCEPT !.at = "write", !.copy = "running", !.saves = 1, !.known = {}])
    /\ UNCHANGED <<files, live, reaper, restarts>>

\* ...or there is no such program, and the directory stays without a record.
SpawnFails(t) ==
    /\ request[t].at = "spawn"
    /\ Do(t, Idle)
    /\ UNCHANGED <<files, children, live, reaper, restarts>>

\* The record is written; `_LIVE` and the reaper thread come after it.
Enlist(t) ==
    LET r == request[t] IN
    /\ r.at = "enlist"
    /\ live' = [live EXCEPT ![r.id] = "none"]
    /\ reaper' = [reaper EXCEPT ![r.id] = [NoReaper EXCEPT !.at = "wait"]]
    /\ Do(t, Idle)
    /\ UNCHANGED <<files, children, restarts>>

-----------------------------------------------------------------------------
(* `_settle_when_done`, one thread per activity this server started.  The  *)
(* Run object it holds is the starter's own: no other thread ever has it,  *)
(* so its `state` is "running" when the child ends, whatever run.json says.*)

\* `process.wait()`.  A status somebody else took reads as 0 (Popen's answer to
\* ECHILD).
ReaperWaits(n) ==
    /\ reaper[n].at = "wait" /\ proc[n] \in {"zombie", "gone"}
    /\ reaper' = [reaper EXCEPT ![n] =
                    [at |-> "put", code |-> IF proc[n] = "zombie" THEN status[n] ELSE "ok"]]
    /\ proc' = [proc EXCEPT ![n] = "gone"]
    /\ status' = [status EXCEPT ![n] = "none"]
    /\ UNCHANGED <<files, mine, live, request, restarts>>

\* Mutant: the reaper leaves the settling to whoever looks next.
ReaperPutsAndLeaves(n) ==
    /\ reaper[n].at = "put"
    /\ live' = [live EXCEPT ![n] = reaper[n].code]
    /\ reaper' = [reaper EXCEPT ![n] = NoReaper]
    /\ UNCHANGED <<files, children, request, restarts>>

ReaperPuts(n) ==
    /\ reaper[n].at = "put"
    /\ live' = [live EXCEPT ![n] = reaper[n].code]
    /\ reaper' = [reaper EXCEPT ![n].at = "write"]
    /\ UNCHANGED <<files, children, request, restarts>>

ReaperWrites(n) ==
    /\ reaper[n].at = "write"
    /\ Write(n, StateOf(reaper[n].code))
    /\ reaper' = [reaper EXCEPT ![n].at = "rename"]
    /\ UNCHANGED <<children, live, request, restarts>>

\* A refused write ends the thread.
ReaperWriteRefused(n) ==
    /\ reaper[n].at = "write"
    /\ WriteRefused(n)
    /\ reaper' = [reaper EXCEPT ![n] = NoReaper]
    /\ UNCHANGED <<children, live, request, restarts>>

\* The thread ends with its rename, or with the DiskError of a lost one.
ReaperRenames(n) ==
    /\ reaper[n].at = "rename"
    /\ Rename(n) \/ (tmp[n] = "absent" /\ UNCHANGED files)
    /\ reaper' = [reaper EXCEPT ![n] = NoReaper]
    /\ UNCHANGED <<children, live, request, restarts>>

-----------------------------------------------------------------------------
(* The children and the server.                                            *)

\* A child of a server that is gone is waited for by init.
Exits(n) ==
    /\ proc[n] = "alive"
    /\ proc' = [proc EXCEPT ![n] = IF n \in mine THEN "zombie" ELSE "gone"]
    /\ \E code \in {"ok", "bad"} : status' = [status EXCEPT ![n] = code]
    /\ UNCHANGED <<files, mine, live, reaper, request, restarts>>

\* The children are sessions of their own: they outlive the server.
Restart ==
    /\ restarts < MaxRestarts
    /\ request' = [t \in Threads |-> Idle]
    /\ reaper' = [n \in Names |-> NoReaper]
    /\ live' = [n \in Names |-> "absent"]
    /\ mine' = {}
    /\ proc' = [n \in Names |-> IF proc[n] = "zombie" THEN "gone" ELSE proc[n]]
    /\ restarts' = restarts + 1
    /\ UNCHANGED <<files, status>>

-----------------------------------------------------------------------------
Init ==
    /\ dirs = {}
    /\ json = [n \in Names |-> "absent"]
    /\ tmp = [n \in Names |-> "absent"]
    /\ refused = {}
    /\ proc = [n \in Names |-> "none"]
    /\ status = [n \in Names |-> "none"]
    /\ mine = {}
    /\ live = [n \in Names |-> "absent"]
    /\ reaper = [n \in Names |-> NoReaper]
    /\ request = [t \in Threads |-> Idle]
    /\ restarts = 0

\* What a thread does once its request has come in.
Proceed(t) ==
    \/ Load(t) \/ ReapFindsRunning(t) \/ ReapSettles(t)
    \/ RequestWrites(t) \/ RequestWriteRefused(t) \/ RequestRenames(t) \/ RequestRenameFails(t)
    \/ Signal(t) \/ SignalFindsNobody(t) \/ KillsAtLast(t)
    \/ Looked(t) \/ FreeId(t) \/ MakeDir(t) \/ Spawn(t) \/ SpawnFails(t) \/ Enlist(t)

Arrive(t) ==
    \/ Look(t, dirs) \/ AskToStart(t)
    \/ \E n \in dirs : Look(t, {n}) \/ Cancel(t, n)

Reaper(n) ==
    \/ ReaperWaits(n) \/ ReaperPuts(n)
    \/ ReaperWrites(n) \/ ReaperWriteRefused(n) \/ ReaperRenames(n)

Next ==
    \/ \E t \in Threads : Arrive(t) \/ Proceed(t)
    \/ \E n \in Names : Reaper(n) \/ Exits(n)
    \/ Restart

Spec == Init /\ [][Next]_vars

\* Threads run; nobody has to send a request, and a child need not end.
FairSpec ==
    /\ Spec
    /\ \A t \in Threads : WF_vars(Proceed(t))
    /\ \A n \in Names : WF_vars(Reaper(n))

-----------------------------------------------------------------------------
(* Correctness.                                                            *)

States == {"absent", "running"} \cup Settled

Requests ==
    [at : {"idle", "visit", "reap", "kill", "write", "rename", "free", "mkdir", "spawn", "enlist"},
     op : {"none", "look", "start", "cancel"},
     todo : SUBSET Names, busy : BOOLEAN, id : Names \cup {NoName},
     copy : States, saves : 0..2, tries : 0..(Tries - 1), known : SUBSET Names]

\* Every variable has its type.
TypeOK ==
    /\ dirs \subseteq Names
    /\ json \in [Names -> States \cup {"torn"}]
    /\ tmp \in [Names -> States \cup {"torn"}]
    /\ refused \subseteq Names
    /\ proc \in [Names -> {"none", "alive", "zombie", "gone"}]
    /\ status \in [Names -> {"none", "ok", "bad"}]
    /\ mine \subseteq Names
    /\ live \in [Names -> {"absent", "none", "ok", "bad"}]
    /\ reaper \in [Names -> [at : {"off", "wait", "put", "write", "rename"},
                             code : {"none", "ok", "bad"}]]
    /\ request \in [Threads -> Requests]
    /\ restarts \in 0..MaxRestarts

\* Two activities never share a directory, a log and a run.json, however close
\* together they start (run.py, `_free_id`).
OwnDirectory ==
    \A n \in Names : proc'[n] = "alive" /\ proc[n] # "alive" => proc[n] = "none"

\* A record that says an activity is over is right: its process has ended.
SettledIsOver == \A n \in Names : json[n] \in Settled => proc[n] # "alive"

\* A child that no run.json names as running is being recorded by the request that
\* started it, unless that save was refused or the server died in between (run.py,
\* `start`: Popen, then `save`).  No other save, refused or lost, takes the record
\* of a running child away.
ChildrenAreRecorded ==
    restarts = 0 => \A n \in Names :
        proc[n] = "alive" /\ json[n] # "running" =>
            \/ json[n] = "absent" /\ n \in refused
            \/ \E t \in Threads : request[t].id = n /\ request[t].at \in {"write", "rename"}

\* Record and process agree: what every reader of `state` and the gate stand on.
RecordsAreTrue == SettledIsOver /\ ChildrenAreRecorded

\* An activity that has been settled is never "running" again: what remains of a
\* slow save, a restart or a late reaper changes how it ended, not that it did
\* (and a refused save, renamed by another writer, that there is a record at all).
SettledStays == \A n \in Names : json[n] \in Settled => json'[n] # "running"

\* What is on record of an activity is its own, and does not reopen it.
RecordsStay == [][OwnDirectory /\ SettledStays]_vars

\* The gate never lets a writer pass a running one that was on record when the
\* request came in, across restarts and whoever started it.
GateSeesWriters ==
    \A t \in Threads :
        request[t].at \in {"free", "mkdir", "spawn"}
            => \A n \in request[t].known : proc[n] # "alive"

\* An activity whose child has ended leaves "running" without anybody looking,
\* though its reaper and a request may be renaming one temporary file away from
\* each other, unless the server goes first or a save of it was refused
\* (run.py: "a run must not depend on a page's poll to leave `running`").
EndedIsSettled ==
    \A n \in Names :
        n \in mine /\ proc[n] # "alive" /\ json[n] = "running"
            ~> json[n] # "running" \/ n \notin mine \/ n \in refused

\* Only one command that writes to the ledger or the downloads runs at a time
\* (run.py, WRITERS: "only one of these may run at a time").
OneWriterAtATime ==
    \A m, n \in Names :
        proc[m] = "alive" /\ proc[n] = "alive" => m = n

\* A cancelled activity stays cancelled (run.py, `_settle_when_done`: "cancel()
\* may have settled it first").
CancelledStays == [][\A n \in Names : json[n] = "cancelled" => json'[n] = "cancelled"]_vars

\* An activity recorded as done exited with 0 (run.py, `_settle`: "the exit code
\* decides between done and failed"): the reaper's 0 is the child's own.
DoneMeansPassed ==
    [][\A n \in Names :
           reaper[n].at = "wait" /\ reaper'[n].at = "put" => proc[n] = "zombie"]_vars
=============================================================================
