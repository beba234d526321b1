------------------------------- MODULE Ledger -------------------------------
(***************************************************************************)
(* The ledger of lib/sink.py.  A run that is over writes two files of its  *)
(* (build, test) pair: a line more in the pair's history, which is read    *)
(* and rewritten whole, and then the pair's current record.  Both go       *)
(* through lib/atomic.py: the temporary file beside the target is opened,  *)
(* filled and renamed over it.                                             *)
(*                                                                         *)
(* A file is a name bound to an inode.  Opening a temporary file that is   *)
(* there already truncates that inode, and a handle stays with its inode   *)
(* when somebody renames it, so two writers of one path are modelled as    *)
(* they are.  The worker writes here, and so does every command that runs  *)
(* a test; nothing but the worker's flock and the page's writer gate keeps *)
(* them apart.  `apart` says whether they are.                             *)
(***************************************************************************)
EXTENDS Views

CONSTANTS
    Runs,       \* runs that end, each a process of its own; also the records they leave
    Builds, Tests,
    BuildOf, TestOf, \* the pair a run is of
    Clocks,     \* the seconds runs may start in: a set of functions
    Printed,    \* runs that printed something, so that their record names a console
    Deliveries, \* bound: how often one result is delivered
    MaxFaults,  \* bound: deaths, refused writes, damaged lines and second deliveries
    Damaged,    \* a history that cannot be parsed
    None

Kinds == {"history", "record"}

\* An inode is known by who made it: in a delivery a process makes one of a kind.
Inodes == Runs \X Kinds \X (1..Deliveries)

ASSUME LedgerAssumption ==
    /\ BuildOf \in [Runs -> Builds] /\ TestOf \in [Runs -> Tests] /\ Clocks \subseteq [Runs -> Nat]
    /\ Printed \subseteq Runs
    /\ Deliveries \in Nat /\ MaxFaults \in Nat
    /\ None \notin Runs \cup Inodes /\ Damaged \notin Seq(Runs)

VARIABLES
    apart,      \* no two processes write one pair's files at the same time
    stamp,      \* the second a run started in; it also names the run's console
    path,       \* the inode a pair's file is bound to: "history" or "record"
    temp,       \* the inode its temporary name is bound to
    data,       \* what an inode holds: the records written to it, or Damaged
    pc,         \* where a run's process is
    handle,     \* the inode it has open
    known,      \* the history it read
    note,       \* what `deliver` last answered
    delivered,  \* how often it delivered
    faults

files == <<path, temp, data>>
vars == <<apart, stamp, files, pc, handle, known, note, delivered, faults>>

Pairs == {<<BuildOf[r], TestOf[r]>> : r \in Runs}
PairOf(r) == <<BuildOf[r], TestOf[r]>>

\* `os.path.basename(one.log)`: the console's name is built from the pair and the stamp.
NamesConsole(r) == r \in Printed

\* `_same_run`, for two records of one pair.
SameRun(r, s) ==
    IF NamesConsole(r) /\ NamesConsole(s) THEN stamp[r] = stamp[s]
    ELSE <<stamp[r], PairOf(r)>> = <<stamp[s], PairOf(s)>>

\* `_history_at`: a file that is not there has no line.
History(pair) == IF path[pair]["history"] = None THEN <<>> ELSE data[path[pair]["history"]]

\* `_record_at` of a pair that has a record file.
Recorded(pair) == path[pair]["record"] # None
Record(pair) == data[path[pair]["record"]]

\* Mutant: the record is written, then its history.
OrderSwapped == <<"record", "history">>

\* `Ledger.write`: the history line goes first.
Order == <<"history", "record">>

\* Where a process is with a file of a kind.
Opens   == [history |-> "open_history", record |-> "open_record"]
Fills   == [history |-> "fill_history", record |-> "fill_record"]
Renames == [history |-> "rename_history", record |-> "rename_record"]

Goto(r, label) == pc' = [pc EXCEPT ![r] = label]

-----------------------------------------------------------------------------
(* A run ends and its outcome is delivered.                                *)

Writing(r) == pc[r] \notin {"running", "over", "dead"}

\* `Job._file` hands the outcome to the ledger; the contract allows it again.
Deliver(r) ==
    /\ pc[r] \in {"running", "over"} /\ delivered[r] < Deliveries
    /\ apart => \A s \in Runs \ {r} : PairOf(s) = PairOf(r) => ~Writing(s)
    /\ pc[r] = "over" => faults < MaxFaults
    /\ faults' = IF pc[r] = "over" THEN faults + 1 ELSE faults
    /\ delivered' = [delivered EXCEPT ![r] = @ + 1]
    /\ Goto(r, "read")
    /\ UNCHANGED <<apart, stamp, files, handle, known, note>>

\* Mutant: a second delivery is a second line.
ReadAndAppend(r) ==
    LET found == History(PairOf(r)) IN
    /\ pc[r] = "read" /\ found # Damaged
    /\ known' = [known EXCEPT ![r] = found]
    /\ Goto(r, Opens[Order[1]])
    /\ UNCHANGED <<apart, stamp, files, handle, note, delivered, faults>>

\* `_append_history` reads what is there: nothing to add, or a line to write.
Read(r) ==
    LET found == History(PairOf(r)) IN
    /\ pc[r] = "read" /\ found # Damaged
    /\ known' = [known EXCEPT ![r] = found]
    /\ Goto(r, IF \E s \in ToSet(found) : SameRun(s, r) THEN "open_record" ELSE Opens[Order[1]])
    /\ UNCHANGED <<apart, stamp, files, handle, note, delivered, faults>>

Answer(r, n) ==
    /\ note' = [note EXCEPT ![r] = n]
    /\ handle' = [handle EXCEPT ![r] = None]
    /\ known' = [known EXCEPT ![r] = <<>>]
    /\ Goto(r, "over")

\* A history with a line that is no record raises `LedgerError`, which `deliver`
\* answers: nothing has been written.
ReadFails(r) ==
    /\ pc[r] = "read" /\ History(PairOf(r)) = Damaged
    /\ Answer(r, "NOT_recorded")
    /\ UNCHANGED <<apart, stamp, files, delivered, faults>>

-----------------------------------------------------------------------------
(* `write_text`, once for the history and once for the record.             *)

KindAt(r, steps) == {k \in Kinds : pc[r] = steps[k]}

\* Mutant: the target itself is opened.
OpenInPlace(r) ==
    LET p == PairOf(r) IN
    \E k \in KindAt(r, Opens) :
        LET inode == IF path[p][k] # None THEN path[p][k] ELSE <<r, k, delivered[r]>>
        IN  /\ temp' = [temp EXCEPT ![p][k] = inode]
            /\ data' = [data EXCEPT ![inode] = <<>>]
            /\ handle' = [handle EXCEPT ![r] = inode]
            /\ Goto(r, Fills[k])
            /\ UNCHANGED <<apart, stamp, path, known, note, delivered, faults>>

\* `open(tmp, "w")`: a new empty inode, or the one that is there, emptied.
Open(r) ==
    LET p == PairOf(r) IN
    \E k \in KindAt(r, Opens) :
        LET inode == IF temp[p][k] # None THEN temp[p][k] ELSE <<r, k, delivered[r]>>
        IN  /\ temp' = [temp EXCEPT ![p][k] = inode]
            /\ data' = [data EXCEPT ![inode] = <<>>]
            /\ handle' = [handle EXCEPT ![r] = inode]
            /\ Goto(r, Fills[k])
            /\ UNCHANGED <<apart, stamp, path, known, note, delivered, faults>>

\* Mutant: the history is the run at hand.
FillAlone(r) ==
    \E k \in KindAt(r, Fills) :
        /\ data' = [data EXCEPT ![handle[r]] = <<r>>]
        /\ Goto(r, Renames[k])
        /\ UNCHANGED <<apart, stamp, path, temp, handle, known, note, delivered, faults>>

\* The body reaches the file with the flush that `_settle` ends in.
Fill(r) ==
    \E k \in KindAt(r, Fills) :
        /\ data' = [data EXCEPT ![handle[r]] =
                        IF k = "history" THEN Append(known[r], r) ELSE <<r>>]
        /\ Goto(r, Renames[k])
        /\ UNCHANGED <<apart, stamp, path, temp, handle, known, note, delivered, faults>>

\* Mutant: the temporary name stays, as with a link.
Link(r) ==
    LET p == PairOf(r) IN
    \E k \in KindAt(r, Renames) :
        /\ path' = [path EXCEPT ![p][k] = temp[p][k]]
        /\ Goto(r, IF k = Order[1] THEN Opens[Order[2]] ELSE "over")
        /\ handle' = [handle EXCEPT ![r] = None]
        /\ known' = [known EXCEPT ![r] = <<>>]
        /\ UNCHANGED <<apart, stamp, temp, data, note, delivered, faults>>

\* `os.replace`: whatever inode the temporary name is bound to by now.
Rename(r) ==
    LET p == PairOf(r) IN
    \E k \in KindAt(r, Renames) :
        /\ temp[p][k] # None
        /\ path' = [path EXCEPT ![p][k] = temp[p][k]]
        /\ temp' = [temp EXCEPT ![p][k] = None]
        \* An inode without a name or a handle is gone.
        /\ LET gone == {i \in {path[p][k]} : \A s \in Runs \ {r} : handle[s] # i}
           IN  data' = [i \in Inodes |-> IF i \in gone THEN <<>> ELSE data[i]]
        /\ IF k = Order[1]
           THEN /\ Goto(r, Opens[Order[2]])
                /\ handle' = [handle EXCEPT ![r] = None]
                /\ known' = [known EXCEPT ![r] = <<>>]
                /\ UNCHANGED note
           ELSE Answer(r, "recorded")
        /\ UNCHANGED <<apart, stamp, delivered, faults>>

\* Somebody else renamed the temporary file away.
RenameFails(r) ==
    /\ \E k \in KindAt(r, Renames) : temp[PairOf(r)][k] = None
    /\ Answer(r, "NOT_recorded")
    /\ UNCHANGED <<apart, stamp, files, delivered, faults>>

\* Mutant: the failure is not reported.
RefusedUnnoticed(r) ==
    /\ \E k \in Kinds : pc[r] \in {Opens[k], Fills[k], Renames[k]}
    /\ faults < MaxFaults
    /\ Answer(r, "recorded")
    /\ faults' = faults + 1
    /\ UNCHANGED <<apart, stamp, files, delivered>>

\* The filesystem refuses a step: `DiskError`.  The temporary file stays.
Refused(r) ==
    /\ \E k \in Kinds : pc[r] \in {Opens[k], Fills[k], Renames[k]}
    /\ faults < MaxFaults
    /\ Answer(r, "NOT_recorded")
    /\ faults' = faults + 1
    /\ UNCHANGED <<apart, stamp, files, delivered>>

-----------------------------------------------------------------------------
(* From outside.                                                           *)

\* The process dies where it is.
Die(r) ==
    /\ Writing(r) /\ faults < MaxFaults
    /\ Goto(r, "dead")
    /\ handle' = [handle EXCEPT ![r] = None]
    /\ known' = [known EXCEPT ![r] = <<>>]
    /\ faults' = faults + 1
    /\ UNCHANGED <<apart, stamp, files, note, delivered>>

\* A hand edit leaves a line no reader can parse.
Damage(p) ==
    /\ path[p]["history"] # None /\ faults < MaxFaults
    /\ data' = [data EXCEPT ![path[p]["history"]] = Damaged]
    /\ faults' = faults + 1
    /\ UNCHANGED <<apart, stamp, path, temp, pc, handle, known, note, delivered>>

Init ==
    /\ apart \in BOOLEAN
    /\ stamp \in Clocks
    /\ path = [p \in Pairs |-> [k \in Kinds |-> None]]
    /\ temp = [p \in Pairs |-> [k \in Kinds |-> None]]
    /\ data = [i \in Inodes |-> <<>>]
    /\ pc = [r \in Runs |-> "running"]
    /\ handle = [r \in Runs |-> None]
    /\ known = [r \in Runs |-> <<>>]
    /\ note = [r \in Runs |-> "none"]
    /\ delivered = [r \in Runs |-> 0]
    /\ faults = 0

Write(r) ==
    Read(r) \/ ReadFails(r) \/ Open(r) \/ Fill(r) \/ Rename(r) \/ RenameFails(r) \/ Refused(r)

Next ==
    \/ \E r \in Runs : Deliver(r) \/ Write(r) \/ Die(r)
    \/ \E p \in Pairs : Damage(p)

Spec == Init /\ [][Next]_vars

-----------------------------------------------------------------------------
(* What the readers see.                                                   *)

\* A record, for runs that came back with `verdict`.
Shown(r, verdict) == [build |-> BuildOf[r], test |-> TestOf[r], stamp |-> stamp[r],
                      verdict |-> verdict[r], run |-> r]

\* `Ledger.history` of a pair, as its panel shows it.
HistoryItems(p, verdict) == [i \in DOMAIN History(p) |-> Shown(History(p)[i], verdict)]

-----------------------------------------------------------------------------
(* Correctness.                                                            *)

Stages == {steps[k] : steps \in {Opens, Fills, Renames}, k \in Kinds}
Lines == Seq(Runs) \cup {Damaged}

\* Every variable has its type, and no inode is bound to two names.
TypeOK ==
    /\ apart \in BOOLEAN
    /\ stamp \in Clocks
    /\ path \in [Pairs -> [Kinds -> Inodes \cup {None}]]
    /\ temp \in [Pairs -> [Kinds -> Inodes \cup {None}]]
    /\ data \in [Inodes -> Lines]
    /\ pc \in [Runs -> {"running", "read", "over", "dead"} \cup Stages]
    /\ handle \in [Runs -> Inodes \cup {None}]
    /\ known \in [Runs -> Lines]
    /\ note \in [Runs -> {"none", "recorded", "NOT_recorded"}]
    /\ delivered \in [Runs -> 0..Deliveries]
    /\ faults \in 0..MaxFaults
    /\ \A p, q \in Pairs, k, l \in Kinds :
        /\ path[p][k] # None => path[p][k] # temp[q][l]
        /\ path[p][k] # None /\ <<p, k>> # <<q, l>> => path[p][k] # path[q][l]

Whole(p) ==
    /\ Recorded(p) => Len(Record(p)) = 1
    /\ path[p]["history"] # None => History(p) # <<>>

\* While one process writes a pair at a time, no reader opens a file of it that is
\* empty or half written, whatever died or was refused in between, with whatever
\* temporary file it left (sink.py, `_append_history`: "a reader must never open
\* a file that is halfway written").
ReadersSeeWholeFiles == apart => \A p \in Pairs : Whole(p)

\* No history holds two lines that a reader would join to one run, however often
\* a result is delivered and whoever else writes (sink.py, `_append_history`:
\* "the append is idempotent, and that is a requirement").
NoLineTwice ==
    \A p \in Pairs : History(p) # Damaged =>
        \A i, j \in DOMAIN History(p) :
            i # j => ~SameRun(History(p)[i], History(p)[j])

\* A line once written stays: a run whose record a later one replaced can still be
\* read (sink.py, `Ledger`: the history "keeps the runs it replaced").
LinesStay ==
    apart => \A p \in Pairs :
        History(p) # Damaged /\ History(p)' # Damaged => IsPrefix(History(p), History(p)')

\* The pair's current record is a run its history holds: a death or a refusal
\* between the two files leaves a line without a record, never the reverse.
RecordHasItsLine ==
    apart => \A p \in Pairs :
        Recorded(p) /\ History(p) # Damaged =>
            \E i \in DOMAIN History(p) : SameRun(History(p)[i], Record(p)[1])

\* A history holds every run that was written to it, holds it once, and holds the one
\* the record shows.
HistoryIsKept == [][NoLineTwice' /\ LinesStay /\ RecordHasItsLine']_vars

\* What the console is told is true of the disk: a run reported as recorded is in
\* the history, and one reported as not recorded is not the pair's record
\* (sink.py, `Ledger.write`: "`deliver`'s message is true whichever of the two
\* fails").
NoteIsTrue ==
    apart => \A r \in Runs : LET p == PairOf(r) IN
        /\ note[r] = "recorded" /\ History(p) # Damaged =>
                \E i \in DOMAIN History(p) : SameRun(History(p)[i], r)
        /\ note[r] = "NOT_recorded" /\ delivered[r] = 1 =>
                ~(Recorded(p) /\ Record(p) = <<r>>)

\* What runs may come back with, as far as a reading tells verdicts apart.
Answers == [Runs -> {"pass", "fail", "incomplete"}]

\* The fold that counts regressions finds exactly the failures whose nearest
\* decided predecessor passed, each once, in every history there is between
\* deliveries, whatever the runs came back with (re.py, `transitions`:
\* "consecutive failures are ONE regression").
TurnsAreRegressions ==
    (\A r \in Runs : ~Writing(r)) =>
        \A p \in Pairs, verdict \in Answers : History(p) # Damaged =>
            LET series == Series(HistoryItems(p, verdict), p[2]) IN
            /\ ToSet(Transitions(series)) = Regressions(series)
            /\ Len(Transitions(series)) = Cardinality(Regressions(series))

\* No reader ever opens a file that is halfway written (sink.py, `_append_history`:
\* "every write in this tree goes through those two functions for one reason"),
\* also when two processes write one pair.
ReadersAlwaysSeeWholeFiles == \A p \in Pairs : Whole(p)
=============================================================================
