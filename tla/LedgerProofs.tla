---------------------------- MODULE LedgerProofs ----------------------------
(***************************************************************************)
(* Theorems about Ledger, for every set of runs and pairs, any number of   *)
(* deliveries, deaths, refusals and damaged lines.                         *)
(***************************************************************************)
EXTENDS Analysis, SequencingProofs

-----------------------------------------------------------------------------
(* The inductive invariant: what holds however many processes write.       *)

Pcs == {"running", "read", "over", "dead", "open_history", "open_record", "fill_history",
        "fill_record", "rename_history", "rename_record"}

FileTypes ==
    /\ apart \in BOOLEAN /\ stamp \in Clocks
    /\ path \in [Pairs -> [Kinds -> Inodes \cup {None}]]
    /\ temp \in [Pairs -> [Kinds -> Inodes \cup {None}]]
    /\ data \in [Inodes -> Lines]

Bounded == faults \in 0..MaxFaults

RunTypes ==
    /\ pc \in [Runs -> Pcs]
    /\ handle \in [Runs -> Inodes \cup {None}]
    /\ known \in [Runs -> Seq(Runs)]
    /\ note \in [Runs -> {"none", "recorded", "NOT_recorded"}]
    /\ delivered \in [Runs -> Nat] /\ \A r \in Runs : delivered[r] <= Deliveries
    /\ Bounded

Types == FileTypes /\ RunTypes

\* No inode has two names.
NamesDiffer ==
    \A p, q \in Pairs, k, l \in Kinds :
        /\ path[p][k] # None => path[p][k] # temp[q][l]
        /\ path[p][k] # None /\ <<p, k>> # <<q, l>> => path[p][k] # path[q][l]
        /\ temp[p][k] # None /\ <<p, k>> # <<q, l>> => temp[p][k] # temp[q][l]

\* A run that made this delivery's inode of a kind is past the opening of that file,
\* and has delivered as often as the inode says.
Made(r, k, n) ==
    /\ n <= delivered[r]
    /\ n = delivered[r] =>
        /\ k = "history" => pc[r] \notin {"read", "open_history"}
        /\ k = "record"  => pc[r] \notin {"read", "open_history", "fill_history",
                                          "rename_history", "open_record"}

MadeBy(i) == Made(i[1], i[2], i[3])

\* A name of a kind is bound to an inode of that kind, and it has been made.
NamesFit ==
    \A p \in Pairs, k \in Kinds :
        /\ path[p][k] # None => path[p][k][2] = k /\ MadeBy(path[p][k])
        /\ temp[p][k] # None => temp[p][k][2] = k /\ MadeBy(temp[p][k])

NoTwice(lines) == \A i, j \in DOMAIN lines : i # j => ~SameRun(lines[i], lines[j])
Holds(lines, r) == \E i \in DOMAIN lines : SameRun(lines[i], r)

\* A file that has been a history, or that will be one, has no line twice.
LinesDiffer == \A i \in Inodes : i[2] = "history" => data[i] = Damaged \/ NoTwice(data[i])

\* A process has open what its step is about, and adds no line that is there.
HandsFit(r) ==
    /\ Writing(r) => delivered[r] >= 1
    /\ pc[r] \in {"fill_history", "rename_history"} =>
           handle[r] # None /\ handle[r][2] = "history"
    /\ pc[r] \in {"fill_record", "rename_record"} => handle[r] # None /\ handle[r][2] = "record"
    /\ NoTwice(known[r])
    /\ pc[r] \in {"open_history", "fill_history", "rename_history"} => ~Holds(known[r], r)

Always == NamesDiffer /\ NamesFit /\ LinesDiffer /\ \A r \in Runs : HandsFit(r)

-----------------------------------------------------------------------------
(* What holds of a pair that one process at a time writes.                 *)

RunsOf(p) == {r \in Runs : PairOf(r) = p}

OneWrites(p) == \A r, s \in RunsOf(p) : Writing(r) /\ Writing(s) => r = s

\* The lines hold the record's run and every run that was told so.
Covers(lines, p) ==
    /\ Recorded(p) => \E s \in RunsOf(p) : Record(p) = <<s>> /\ Holds(lines, s)
    /\ \A r \in RunsOf(p) : note[r] = "recorded" => Holds(lines, r)

\* The record is one run, of this pair, whose first delivery ended there.
RecordFits(p) ==
    Recorded(p) => \E s \in RunsOf(p) :
        /\ Record(p) = <<s>>
        /\ delivered[s] >= 1
        /\ delivered[s] = 1 => /\ pc[s] = "over"
                               /\ note[s] = "recorded"

HistoryFits(p) ==
    /\ path[p]["history"] # None => History(p) # <<>>
    /\ History(p) # Damaged => Covers(History(p), p)

\* The file in hand is the temporary one, with what was written to it; the history it
\* will be is the one there is and a line.
WriterFits(p, r) ==
    /\ pc[r] \in {"fill_history", "rename_history"} =>
           temp[p]["history"] # None /\ handle[r] = temp[p]["history"]
    /\ pc[r] \in {"fill_record", "rename_record"} =>
           temp[p]["record"] # None /\ handle[r] = temp[p]["record"]
    /\ pc[r] = "rename_history" => data[temp[p]["history"]] = Append(known[r], r)
    /\ pc[r] = "rename_record" => data[temp[p]["record"]] = <<r>>
    /\ pc[r] \in {"open_history", "fill_history", "rename_history"} =>
           /\ History(p) # Damaged => known[r] = History(p)
           /\ Covers(known[r], p)
    /\ pc[r] \in {"open_record", "fill_record", "rename_record"} /\ History(p) # Damaged =>
           Holds(History(p), r)

PairFits(p) ==
    /\ OneWrites(p) /\ RecordFits(p) /\ HistoryFits(p)
    /\ \A r \in RunsOf(p) : WriterFits(p, r)

Inductive == Types /\ Always /\ (apart => \A p \in Pairs : PairFits(p))

-----------------------------------------------------------------------------
(* Constants and steps.                                                    *)

LEMMA Labels ==
    /\ Opens["history"] = "open_history" /\ Opens["record"] = "open_record"
    /\ Fills["history"] = "fill_history" /\ Fills["record"] = "fill_record"
    /\ Renames["history"] = "rename_history" /\ Renames["record"] = "rename_record"
    /\ Order[1] = "history" /\ Order[2] = "record"
    /\ Kinds = {"history", "record"}
<1>1. Opens["history"] = "open_history" /\ Opens["record"] = "open_record"
  BY DEF Opens
<1>2. Fills["history"] = "fill_history" /\ Fills["record"] = "fill_record"
  BY DEF Fills
<1>3. Renames["history"] = "rename_history" /\ Renames["record"] = "rename_record"
  BY DEF Renames
<1>4. Order[1] = "history" /\ Order[2] = "record"
  BY DEF Order
<1> QED BY <1>1, <1>2, <1>3, <1>4 DEF Kinds

LEMMA PcsAreLabels == Pcs \subseteq {"running", "read", "over", "dead"} \cup Stages
<1>1. \A l \in Kinds : Opens[l] \in Stages /\ Fills[l] \in Stages /\ Renames[l] \in Stages
  BY DEF Stages
<1> QED BY <1>1, Labels DEF Pcs

LEMMA PairIsOne == \A r \in Runs : PairOf(r) \in Pairs /\ r \in RunsOf(PairOf(r))
BY DEF PairOf, Pairs, RunsOf

LEMMA MadeInodes ==
    /\ None \notin Inodes /\ None \notin Runs
    /\ \A r \in Runs, k \in Kinds, n \in 1..Deliveries :
        /\ <<r, k, n>> \in Inodes /\ <<r, k, n>> # None
        /\ <<r, k, n>>[1] = r /\ <<r, k, n>>[2] = k /\ <<r, k, n>>[3] = n
    /\ \A i \in Inodes : i[1] \in Runs /\ i[2] \in Kinds /\ i[3] \in 1..Deliveries
BY LedgerAssumption DEF Inodes

LEMMA DeliveriesIsNat == Deliveries \in Nat /\ MaxFaults \in Nat
BY LedgerAssumption

\* A damaged history is no list of lines.
LEMMA DamagedIsNoList == Damaged \notin Seq(Runs) /\ Damaged # <<>>
<1>1. <<>> \in Seq(Runs)
  OBVIOUS
<1> QED BY <1>1, LedgerAssumption

\* To be one run for the readers goes both ways.
LEMMA SameBothWays == \A r, s : SameRun(r, s) => SameRun(s, r)
BY DEF SameRun

LEMMA SameAsItself == \A r : SameRun(r, r)
BY DEF SameRun

\* A line that is not there makes no line twice, and then it is there.
LEMMA OneLineMore ==
    ASSUME NEW lines \in Seq(Runs), NEW r \in Runs, NoTwice(lines), ~Holds(lines, r)
    PROVE  /\ Append(lines, r) \in Seq(Runs) /\ Append(lines, r) # <<>>
           /\ NoTwice(Append(lines, r))
           /\ Holds(Append(lines, r), r)
           /\ \A s : Holds(lines, s) => Holds(Append(lines, r), s)
<1> DEFINE more == Append(lines, r)
<1>1. more \in Seq(Runs) /\ Len(more) = Len(lines) + 1 /\ more[Len(lines) + 1] = r
  OBVIOUS
<1>2. \A i \in 1..Len(lines) : more[i] = lines[i]
  OBVIOUS
<1>3. DOMAIN lines = 1..Len(lines) /\ DOMAIN more = 1..(Len(lines) + 1) /\ Len(lines) \in Nat
  OBVIOUS
<1> HIDE DEF more
<1>4. NoTwice(more)
  <2> SUFFICES ASSUME NEW i \in DOMAIN more, NEW j \in DOMAIN more, i # j
               PROVE  ~SameRun(more[i], more[j])
    BY DEF NoTwice
  <2>1. CASE i \in 1..Len(lines) /\ j \in 1..Len(lines)
    BY <2>1, <1>2, <1>3 DEF NoTwice
  <2>2. CASE i = Len(lines) + 1
    <3>1. j \in 1..Len(lines)
      BY <2>2, <1>3
    <3> QED BY <2>2, <3>1, <1>1, <1>2, <1>3, SameBothWays DEF Holds
  <2>3. CASE j = Len(lines) + 1
    <3>1. i \in 1..Len(lines)
      BY <2>3, <1>3
    <3> QED BY <2>3, <3>1, <1>1, <1>2, <1>3, SameBothWays DEF Holds
  <2> QED BY <2>1, <2>2, <2>3, <1>3
<1>5. Holds(more, r)
  BY <1>1, <1>3, SameAsItself DEF Holds
<1>6. \A s : Holds(lines, s) => Holds(more, s)
  BY <1>2, <1>3 DEF Holds
<1>7. more # <<>>
  BY <1>1, <1>3
<1> QED BY <1>1, <1>4, <1>5, <1>6, <1>7 DEF more

-----------------------------------------------------------------------------
(* What a step leaves alone.                                               *)

LEMMA NoTwiceKeeps ==
    ASSUME NEW s \in Runs, NoTwice(known[s]), stamp' = stamp, known'[s] = known[s]
    PROVE  NoTwice(known[s])'
BY DEF NoTwice, SameRun, NamesConsole, PairOf

LEMMA HandKeeps ==
    ASSUME NEW s \in Runs, HandsFit(s), stamp' = stamp, pc'[s] = pc[s], handle'[s] = handle[s],
           known'[s] = known[s], delivered'[s] = delivered[s]
    PROVE  HandsFit(s)'
<1>1. NoTwice(known[s])'
  BY NoTwiceKeeps DEF HandsFit
<1>2. ~Holds(known[s], s) => ~Holds(known[s], s)'
  BY DEF Holds, SameRun, NamesConsole, PairOf
<1> QED BY <1>1, <1>2 DEF HandsFit, Writing

LEMMA LinesKeep ==
    ASSUME LinesDiffer, stamp' = stamp,
           \A i \in Inodes : i[2] = "history" => data'[i] \in {data[i], <<>>, Damaged}
    PROVE  LinesDiffer'
<1> SUFFICES ASSUME NEW i \in Inodes, i[2] = "history"
             PROVE  data'[i] = Damaged \/ NoTwice(data[i])'
  BY DEF LinesDiffer
<1>1. CASE data'[i] = data[i]
  BY <1>1 DEF LinesDiffer, NoTwice, SameRun, NamesConsole, PairOf
<1>2. CASE data'[i] = <<>>
  BY <1>2 DEF NoTwice
<1> QED BY <1>1, <1>2

\* No process goes back to before it made its inode without another delivery.
Onward(s) ==
    \/ delivered'[s] > delivered[s]
    \/ /\ delivered'[s] = delivered[s]
       /\ pc'[s] \in {"read", "open_history"} => pc[s] \in {"read", "open_history"}
       /\ pc'[s] \in {"read", "open_history", "fill_history", "rename_history", "open_record"} =>
          pc[s] \in {"read", "open_history", "fill_history", "rename_history", "open_record"}

LEMMA MadeKeeps ==
    ASSUME Types, Types', NEW r \in Runs, NEW k, NEW n \in Nat, Made(r, k, n), Onward(r)
    PROVE  Made(r, k, n)'
<1>1. delivered[r] \in Nat /\ delivered'[r] \in Nat
  BY DEF Types, RunTypes
<1>2. n <= delivered[r]
  BY DEF Made
<1>3. CASE delivered'[r] > delivered[r]
  <2>1. n <= delivered'[r] /\ n # delivered'[r]
    BY <1>1, <1>2, <1>3
  <2> QED BY <2>1 DEF Made
<1>4. CASE delivered'[r] = delivered[r]
  <2>1. ~(delivered'[r] > delivered[r])
    BY <1>1, <1>4
  <2> QED BY <1>4, <2>1 DEF Made, Onward
<1> QED BY <1>3, <1>4 DEF Onward

LEMMA MadeByKeeps ==
    ASSUME Types, Types', \A s \in Runs : Onward(s)
    PROVE  \A i \in Inodes : MadeBy(i) => MadeBy(i)'
BY MadeKeeps, MadeInodes, DeliveriesIsNat DEF MadeBy

LEMMA NamesKeep ==
    ASSUME Types, Types', NamesFit, path' = path, temp' = temp, \A s \in Runs : Onward(s)
    PROVE  NamesFit'
<1> SUFFICES ASSUME NEW p \in Pairs, NEW k \in Kinds
             PROVE  /\ path[p][k] # None => path[p][k][2] = k /\ MadeBy(path[p][k])'
                    /\ temp[p][k] # None => temp[p][k][2] = k /\ MadeBy(temp[p][k])'
  BY DEF NamesFit
<1>1. ASSUME path[p][k] # None PROVE path[p][k] \in Inodes /\ path[p][k][1] \in Runs
  BY <1>1, MadeInodes DEF Types, FileTypes
<1>2. ASSUME temp[p][k] # None PROVE temp[p][k] \in Inodes /\ temp[p][k][1] \in Runs
  BY <1>2, MadeInodes DEF Types, FileTypes
<1>3. \A i \in Inodes : MadeBy(i) => MadeBy(i)'
  BY MadeByKeeps
<1> QED BY <1>1, <1>2, <1>3 DEF NamesFit

\* Nothing that matters to a pair has changed.
PairIsLeft(q) ==
    /\ path'[q] = path[q] /\ temp'[q] = temp[q]
    /\ \A k \in Kinds : /\ path[q][k] # None => data'[path[q][k]] = data[path[q][k]]
                        /\ temp[q][k] # None => data'[temp[q][k]] = data[temp[q][k]]
    /\ \A s \in RunsOf(q) :
        /\ pc'[s] = pc[s] /\ handle'[s] = handle[s] /\ known'[s] = known[s]
        /\ note'[s] = note[s] /\ delivered'[s] = delivered[s]

\* What a reader of the pair sees is as before.
LEMMA ReadersSeeTheSame ==
    ASSUME NEW q \in Pairs, path'[q] = path[q],
           \A k \in Kinds : path[q][k] # None => data'[path[q][k]] = data[path[q][k]]
    PROVE  /\ History(q)' = History(q)
           /\ Recorded(q)' <=> Recorded(q)
           /\ Recorded(q) => Record(q)' = Record(q)
BY Labels DEF History, Recorded, Record

LEMMA HoldsKeeps ==
    ASSUME stamp' = stamp, NEW lines, NEW s, Holds(lines, s)
    PROVE  Holds(lines, s)'
BY DEF Holds, SameRun, NamesConsole, PairOf

LEMMA PairKeeps ==
    ASSUME NEW q \in Pairs, PairFits(q), stamp' = stamp, PairIsLeft(q)
    PROVE  PairFits(q)'
<1>1. /\ History(q)' = History(q)
      /\ Recorded(q)' <=> Recorded(q)
      /\ Recorded(q) => Record(q)' = Record(q)
  BY ReadersSeeTheSame DEF PairIsLeft
<1>2. OneWrites(q)'
  BY DEF PairFits, OneWrites, Writing, PairIsLeft, RunsOf, PairOf
<1>3. RecordFits(q)'
  BY <1>1 DEF PairFits, RecordFits, PairIsLeft, RunsOf, PairOf
<1>4. \A lines : Covers(lines, q) => Covers(lines, q)'
  BY <1>1, HoldsKeeps DEF Covers, PairIsLeft, RunsOf, PairOf
<1>5. HistoryFits(q)'
  BY <1>1, <1>4 DEF PairFits, HistoryFits, PairIsLeft
<1>6. \A s \in RunsOf(q) : WriterFits(q, s)'
  <2> SUFFICES ASSUME NEW s \in RunsOf(q)
               PROVE  WriterFits(q, s)'
    OBVIOUS
  <2>1. WriterFits(q, s)
    BY DEF PairFits
  <2>2. /\ path'[q] = path[q] /\ temp'[q] = temp[q]
        /\ pc'[s] = pc[s] /\ handle'[s] = handle[s] /\ known'[s] = known[s]
    BY DEF PairIsLeft
  <2>3. \A k \in Kinds : temp[q][k] # None => data'[temp[q][k]] = data[temp[q][k]]
    BY DEF PairIsLeft
  <2>4. Covers(known[s], q) => Covers(known[s], q)'
    BY <2>2, <1>4
  <2>5. Holds(History(q), s) => Holds(History(q), s)'
    BY <1>1, HoldsKeeps
  <2> QED BY <2>1, <2>2, <2>3, <2>4, <2>5, <1>1, Labels DEF WriterFits
<1> QED BY <1>2, <1>3, <1>5, <1>6 DEF PairFits, RunsOf, PairOf

\* What a step of one process must show, when it touches no name of another pair.
LEMMA StepKeeps ==
    ASSUME Inductive, NEW r \in Runs, Types', NamesDiffer', NamesFit', LinesDiffer', HandsFit(r)',
           apart' = apart, stamp' = stamp,
           \A s \in Runs \ {r} :
                /\ pc'[s] = pc[s] /\ handle'[s] = handle[s] /\ known'[s] = known[s]
                /\ note'[s] = note[s] /\ delivered'[s] = delivered[s],
           apart => \A q \in Pairs \ {PairOf(r)} :
                /\ path'[q] = path[q] /\ temp'[q] = temp[q]
                /\ \A k \in Kinds :
                    /\ path[q][k] # None => data'[path[q][k]] = data[path[q][k]]
                    /\ temp[q][k] # None => data'[temp[q][k]] = data[temp[q][k]],
           apart => PairFits(PairOf(r))'
    PROVE  Inductive'
<1>1. \A s \in Runs : HandsFit(s)'
  <2>1. \A s \in Runs \ {r} : HandsFit(s)'
    BY HandKeeps DEF Inductive, Always
  <2> QED BY <2>1
<1>2. ASSUME apart, NEW q \in Pairs \ {PairOf(r)}
      PROVE  PairFits(q)'
  <2>1. PairIsLeft(q)
    BY <1>2 DEF PairIsLeft, RunsOf
  <2> QED BY <1>2, <2>1, PairKeeps DEF Inductive
<1>3. apart' => \A q \in Pairs : PairFits(q)'
  BY <1>2
<1> QED BY <1>1, <1>3 DEF Inductive, Always, Pairs, PairOf

LEMMA MoreThanOnce ==
    \A m, n \in Nat : m >= 1 /\ (n > m \/ (n = m /\ m # 1)) => n >= 1 /\ n # 1
OBVIOUS

\* Its own pair, when what a reader of it sees has not changed.
LEMMA OwnPairKeeps ==
    ASSUME Inductive, Types', apart, NEW r \in Runs, NEW p \in Pairs, p = PairOf(r), stamp' = stamp,
           path'[p] = path[p],
           \A k \in Kinds : path[p][k] # None => data'[path[p][k]] = data[path[p][k]],
           \A s \in Runs \ {r} :
                /\ pc'[s] = pc[s] /\ note'[s] = note[s] /\ delivered'[s] = delivered[s],
           \A s \in RunsOf(p) \ {r} : ~Writing(s),
           note'[r] = note[r] \/ note'[r] = "NOT_recorded",
           delivered'[r] > delivered[r] \/ (delivered'[r] = delivered[r] /\ pc[r] # "over"),
           WriterFits(p, r)'
    PROVE  PairFits(p)'
<1>1. /\ History(p)' = History(p)
      /\ Recorded(p)' <=> Recorded(p)
      /\ Recorded(p) => Record(p)' = Record(p)
  BY ReadersSeeTheSame
<1>2. PairFits(p)
  BY DEF Inductive
<1>3. OneWrites(p)'
  BY DEF OneWrites, Writing, RunsOf, PairOf
<1>4. RecordFits(p)'
  <2> SUFFICES ASSUME Recorded(p)
               PROVE  \E s \in RunsOf(p) :
                        /\ Record(p)' = <<s>>
                        /\ delivered'[s] >= 1
                        /\ delivered'[s] = 1 => pc'[s] = "over" /\ note'[s] = "recorded"
    BY <1>1 DEF RecordFits, RunsOf, PairOf
  <2>1. PICK s \in RunsOf(p) :
            /\ Record(p) = <<s>> /\ delivered[s] >= 1
            /\ delivered[s] = 1 => pc[s] = "over" /\ note[s] = "recorded"
    BY <1>2 DEF PairFits, RecordFits
  <2>2. CASE s # r
    BY <2>1, <2>2, <1>1 DEF RunsOf
  <2>3. CASE s = r
    <3>1. delivered[r] \in Nat /\ delivered[r] >= 1
      BY <2>1, <2>3 DEF Inductive, Types, RunTypes
    <3>2. delivered'[r] > delivered[r] \/ (delivered'[r] = delivered[r] /\ delivered[r] # 1)
      BY <2>1, <2>3
    <3>3. delivered'[r] \in Nat
      BY DEF Types, RunTypes
    <3>4. delivered'[r] >= 1 /\ delivered'[r] # 1
      BY <3>1, <3>2, <3>3, MoreThanOnce
    <3> QED BY <2>1, <2>3, <3>4, <1>1
  <2> QED BY <2>2, <2>3
<1>5. HistoryFits(p)'
  <2>1. Covers(History(p), p) => Covers(History(p), p)'
    <3>1. \A lines, s : Holds(lines, s) => Holds(lines, s)'
      BY HoldsKeeps
    <3>2. \A s \in RunsOf(p) : note'[s] = "recorded" => note[s] = "recorded"
      BY DEF RunsOf
    <3> QED BY <1>1, <3>1, <3>2 DEF Covers, RunsOf, PairOf
  <2> QED BY <2>1, <1>1, <1>2 DEF PairFits, HistoryFits
<1>6. \A s \in RunsOf(p) \ {r} : WriterFits(p, s)'
  BY DEF RunsOf, Writing, WriterFits
<1> QED BY <1>3, <1>4, <1>5, <1>6 DEF PairFits, RunsOf, PairOf

-----------------------------------------------------------------------------
(* The initial states, and the steps that touch no file.                   *)

LEMMA NamesAreTyped ==
    ASSUME Inductive, NEW p \in Pairs, NEW k \in Kinds
    PROVE  /\ path[p][k] # None => path[p][k] \in Inodes /\ path[p][k][2] = k
           /\ temp[p][k] # None => temp[p][k] \in Inodes /\ temp[p][k][2] = k
<1>1. path[p][k] \in Inodes \cup {None} /\ temp[p][k] \in Inodes \cup {None}
  BY DEF Inductive, Types, FileTypes
<1> QED BY <1>1 DEF Inductive, Always, NamesFit

LEMMA EmptyIsFine == NoTwice(<<>>) /\ <<>> \in Seq(Runs)
BY DEF NoTwice

LEMMA InductiveInit == Init => Inductive
<1> SUFFICES ASSUME Init
             PROVE  Inductive
  OBVIOUS
<1>1. FileTypes
  BY EmptyIsFine DEF Init, FileTypes, Lines
<1>2. RunTypes
  BY EmptyIsFine, DeliveriesIsNat DEF Init, RunTypes, Pcs, Bounded
<1>3. \A p \in Pairs, k \in Kinds : path[p][k] = None /\ temp[p][k] = None
  BY DEF Init
<1>4. NamesDiffer /\ NamesFit
  BY <1>3 DEF NamesDiffer, NamesFit
<1>5. LinesDiffer
  BY EmptyIsFine DEF Init, LinesDiffer
<1>6. \A r \in Runs : HandsFit(r)
  BY EmptyIsFine DEF Init, HandsFit, Writing
<1>7. \A p \in Pairs : PairFits(p)
  <2> SUFFICES ASSUME NEW p \in Pairs
               PROVE  PairFits(p)
    OBVIOUS
  <2>1. ~Recorded(p) /\ History(p) = <<>> /\ path[p]["history"] = None
    BY <1>3, Labels DEF Recorded, History
  <2>2. \A r \in RunsOf(p) : pc[r] = "running" /\ note[r] = "none"
    BY DEF Init, RunsOf
  <2>3. HistoryFits(p)
    BY <2>1, <2>2 DEF HistoryFits, Covers
  <2> QED BY <2>1, <2>2, <2>3 DEF PairFits, OneWrites, RecordFits, WriterFits, Writing
<1> QED BY <1>1, <1>2, <1>4, <1>5, <1>6, <1>7 DEF Inductive, Types, Always

\* A process that writes its pair writes it alone.
LEMMA WritesAlone ==
    ASSUME Inductive, apart, NEW r \in Runs, Writing(r)
    PROVE  \A s \in RunsOf(PairOf(r)) \ {r} : ~Writing(s)
BY PairIsOne DEF Inductive, PairFits, OneWrites

LEMMA StaysBounded ==
    ASSUME Inductive, faults' = faults \/ (faults < MaxFaults /\ faults' = faults + 1)
    PROVE  Bounded'
<1>1. faults \in 0..MaxFaults
  BY DEF Inductive, Types, RunTypes, Bounded
<1> QED BY <1>1, DeliveriesIsNat DEF Bounded

LEMMA DeliverStep ==
    ASSUME Inductive, NEW r \in Runs, Deliver(r)
    PROVE  Inductive'
<1> DEFINE p == PairOf(r)
<1>1. p \in Pairs
  BY PairIsOne
<1>2. /\ pc[r] \in {"running", "over"} /\ pc' = [pc EXCEPT ![r] = "read"]
      /\ delivered' = [delivered EXCEPT ![r] = delivered[r] + 1] /\ delivered[r] < Deliveries
      /\ UNCHANGED <<apart, stamp, path, temp, data, handle, known, note>>
  BY DEF Deliver, Goto, files
<1>3. FileTypes'
  BY <1>2 DEF Inductive, Types, FileTypes
<1>4. Bounded'
  BY StaysBounded DEF Deliver
<1>5. delivered' \in [Runs -> Nat] /\ delivered'[r] = delivered[r] + 1 /\ delivered[r] \in Nat
      /\ \A s \in Runs : delivered'[s] <= Deliveries
  <2>1. delivered \in [Runs -> Nat] /\ \A s \in Runs : delivered[s] <= Deliveries
    BY DEF Inductive, Types, RunTypes
  <2> QED BY <1>2, <2>1, DeliveriesIsNat
<1>6. RunTypes'
  BY <1>2, <1>4, <1>5 DEF Inductive, Types, RunTypes, Pcs
<1>7. Types'
  BY <1>3, <1>6 DEF Types
<1>8. pc'[r] = "read" /\ \A s \in Runs \ {r} : pc'[s] = pc[s] /\ delivered'[s] = delivered[s]
  BY <1>2 DEF Inductive, Types, RunTypes
<1>9. \A s \in Runs : Onward(s)
  <2>1. delivered'[r] > delivered[r]
    BY <1>5
  <2> QED BY <1>8, <2>1 DEF Onward
<1>10. NamesDiffer' /\ NamesFit' /\ LinesDiffer'
  BY <1>2, <1>7, <1>9, NamesKeep, LinesKeep DEF Inductive, Always, NamesDiffer
<1>11. HandsFit(r)'
  <2>1. delivered'[r] >= 1
    BY <1>5
  <2>2. NoTwice(known[r])'
    BY <1>2, NoTwiceKeeps DEF Inductive, Always, HandsFit
  <2>3. pc'[r] = "read"
    BY <1>8
  <2> QED BY <2>1, <2>2, <2>3 DEF HandsFit
<1>12. ASSUME apart PROVE PairFits(p)'
  <2>1. \A s \in RunsOf(p) \ {r} : ~Writing(s)
    BY <1>12 DEF Deliver, RunsOf
  <2>2. WriterFits(p, r)'
    BY <1>8 DEF WriterFits
  <2>3. delivered'[r] > delivered[r]
    BY <1>5
  <2> QED BY <1>1, <1>2, <1>7, <1>8, <1>12, <2>1, <2>2, <2>3, OwnPairKeeps
<1> QED BY <1>2, <1>7, <1>8, <1>10, <1>11, <1>12, StepKeeps

LEMMA ReadStep ==
    ASSUME Inductive, NEW r \in Runs, Read(r)
    PROVE  Inductive'
<1> DEFINE p == PairOf(r)
<1>1. p \in Pairs
  BY PairIsOne
<1>2. /\ pc[r] = "read" /\ History(p) # Damaged /\ known' = [known EXCEPT ![r] = History(p)]
      /\ UNCHANGED <<apart, stamp, path, temp, data, handle, note, delivered, faults>>
  BY DEF Read, files
<1>3. \/ pc' = [pc EXCEPT ![r] = "open_record"] /\ Holds(History(p), r)
      \/ pc' = [pc EXCEPT ![r] = "open_history"] /\ ~Holds(History(p), r)
  <2>1. (\E s \in ToSet(History(p)) : SameRun(s, r)) <=> Holds(History(p), r)
    BY DEF ToSet, Holds
  <2> QED BY <2>1, Labels DEF Read, Goto
<1>4. History(p) \in Seq(Runs) /\ NoTwice(History(p))
  <2>1. CASE path[p]["history"] = None
    BY <2>1, EmptyIsFine DEF History
  <2>2. CASE path[p]["history"] # None
    <3>1. path[p]["history"] \in Inodes /\ path[p]["history"][2] = "history"
      BY <1>1, <2>2, Labels, NamesAreTyped
    <3>2. History(p) = data[path[p]["history"]]
      BY <2>2 DEF History
    <3>3. data[path[p]["history"]] \in Lines
      BY <3>1 DEF Inductive, Types, FileTypes
    <3> QED BY <1>2, <3>1, <3>2, <3>3 DEF Lines, Inductive, Always, LinesDiffer
  <2> QED BY <2>1, <2>2
<1>5. Types'
  <2>1. FileTypes'
    BY <1>2 DEF Inductive, Types, FileTypes
  <2>2. RunTypes'
    <3>1. Bounded'
      BY <1>2, StaysBounded
    <3> QED BY <1>2, <1>3, <1>4, <3>1 DEF Inductive, Types, RunTypes, Pcs
  <2> QED BY <2>1, <2>2 DEF Types
<1>6. /\ pc'[r] \in {"open_record", "open_history"} /\ known'[r] = History(p)
      /\ \A s \in Runs \ {r} : pc'[s] = pc[s] /\ known'[s] = known[s]
  BY <1>2, <1>3 DEF Inductive, Types, RunTypes
<1>7. \A s \in Runs : Onward(s)
  BY <1>2, <1>6 DEF Onward
<1>8. NamesDiffer' /\ NamesFit' /\ LinesDiffer'
  BY <1>2, <1>5, <1>7, NamesKeep, LinesKeep DEF Inductive, Always, NamesDiffer
<1>9. \A lines, s : Holds(lines, s)' <=> Holds(lines, s)
  BY <1>2 DEF Holds, SameRun, NamesConsole, PairOf
<1>10. pc'[r] = "open_history" => ~Holds(History(p), r)
  BY <1>3 DEF Inductive, Types, RunTypes
<1>11. pc'[r] = "open_record" => Holds(History(p), r)
  BY <1>3 DEF Inductive, Types, RunTypes
<1>12. HandsFit(r)'
  <2>1. delivered'[r] >= 1
    BY <1>2 DEF Inductive, Always, HandsFit, Writing
  <2>2. PICK lines : lines = History(p)
    OBVIOUS
  <2>3. NoTwice(lines) => NoTwice(lines)'
    BY <1>2 DEF NoTwice, SameRun, NamesConsole, PairOf
  <2>4. NoTwice(known[r])'
    BY <1>4, <1>6, <2>2, <2>3
  <2>5. pc'[r] = "open_history" => ~Holds(known[r], r)'
    BY <1>6, <1>9, <1>10, <2>2
  <2> QED BY <1>6, <2>1, <2>4, <2>5 DEF HandsFit
<1>13. ASSUME apart PROVE PairFits(p)'
  <2>1. \A s \in RunsOf(p) \ {r} : ~Writing(s)
    BY <1>2, <1>13, WritesAlone DEF Writing
  <2>2. History(p)' = History(p) /\ (Recorded(p)' <=> Recorded(p)) /\ Record(p)' = Record(p)
    BY <1>2 DEF History, Recorded, Record
  <2>3. Covers(History(p), p)
    BY <1>1, <1>2, <1>13 DEF Inductive, PairFits, HistoryFits
  <2>4. Covers(known[r], p)'
    <3>1. PICK lines : lines = History(p)
      OBVIOUS
    <3>2. Covers(lines, p)'
      BY <1>2, <1>9, <2>2, <2>3, <3>1 DEF Covers, RunsOf, PairOf
    <3> QED BY <1>6, <3>1, <3>2
  <2>5. Holds(History(p), r) => Holds(History(p), r)'
    BY <1>9, <2>2
  <2>6. WriterFits(p, r)'
    BY <1>6, <1>11, <2>2, <2>4, <2>5 DEF WriterFits
  <2> QED BY <1>1, <1>2, <1>5, <1>6, <1>13, <2>1, <2>6, OwnPairKeeps
<1> QED BY <1>2, <1>5, <1>6, <1>8, <1>12, <1>13, StepKeeps

\* A process that has something to say is over, whatever it left behind.
LEMMA AnswerKeeps ==
    ASSUME Inductive, NEW r \in Runs, Writing(r),
           note' = [note EXCEPT ![r] = "NOT_recorded"], handle' = [handle EXCEPT ![r] = None],
           known' = [known EXCEPT ![r] = <<>>], pc' = [pc EXCEPT ![r] = "over"],
           apart' = apart, stamp' = stamp, path' = path, temp' = temp, data' = data,
           delivered' = delivered, Bounded'
    PROVE  Inductive'
<1> DEFINE p == PairOf(r)
<1>1. p \in Pairs
  BY PairIsOne
<1>2. FileTypes'
  BY DEF Inductive, Types, FileTypes
<1>3. RunTypes'
  BY EmptyIsFine DEF Inductive, Types, RunTypes, Pcs
<1>4. /\ pc'[r] = "over" /\ known'[r] = <<>> /\ note'[r] = "NOT_recorded"
      /\ \A s \in Runs \ {r} : /\ pc'[s] = pc[s] /\ known'[s] = known[s]
                               /\ handle'[s] = handle[s] /\ note'[s] = note[s]
  BY DEF Inductive, Types, RunTypes
<1>5. Types'
  BY <1>2, <1>3 DEF Types
<1>6. \A s \in Runs : Onward(s)
  BY <1>4 DEF Onward
<1>7. NamesDiffer' /\ NamesFit' /\ LinesDiffer'
  <2>1. NamesDiffer'
    BY DEF Inductive, Always, NamesDiffer
  <2>2. NamesFit'
    BY <1>5, <1>6, NamesKeep DEF Inductive, Always
  <2>3. LinesDiffer'
    BY LinesKeep DEF Inductive, Always
  <2> QED BY <2>1, <2>2, <2>3
<1>8. HandsFit(r)'
  <2>1. NoTwice(known[r])'
    BY <1>4 DEF NoTwice
  <2>2. pc'[r] = "over"
    BY <1>4
  <2> QED BY <2>1, <2>2 DEF HandsFit, Writing
<1>9. ASSUME apart PROVE PairFits(p)'
  <2>1. \A s \in RunsOf(p) \ {r} : ~Writing(s)
    BY <1>9, WritesAlone
  <2>2. WriterFits(p, r)'
    BY <1>4 DEF WriterFits
  <2>3. pc[r] # "over"
    BY DEF Writing
  <2> QED BY <1>1, <1>4, <1>5, <1>9, <2>1, <2>2, <2>3, OwnPairKeeps
<1> QED BY <1>4, <1>5, <1>7, <1>8, <1>9, StepKeeps

LEMMA AnswerSteps ==
    ASSUME Inductive, NEW r \in Runs, ReadFails(r) \/ RenameFails(r) \/ Refused(r)
    PROVE  Inductive'
<1>1. CASE ReadFails(r)
  <2>1. Writing(r)
    BY <1>1 DEF ReadFails, Writing
  <2> QED BY <1>1, <2>1, StaysBounded, AnswerKeeps
    DEF ReadFails, Answer, Goto, files
<1>2. CASE RenameFails(r)
  <2>1. Writing(r)
    BY <1>2, Labels DEF RenameFails, KindAt, Writing
  <2> QED BY <1>2, <2>1, StaysBounded, AnswerKeeps
    DEF RenameFails, Answer, Goto, files
<1>3. CASE Refused(r)
  <2>1. Writing(r)
    BY <1>3, Labels DEF Refused, Writing
  <2> QED BY <1>3, <2>1, StaysBounded, AnswerKeeps
    DEF Refused, Answer, Goto, files
<1> QED BY <1>1, <1>2, <1>3

LEMMA DieStep ==
    ASSUME Inductive, NEW r \in Runs, Die(r)
    PROVE  Inductive'
<1> DEFINE p == PairOf(r)
<1>1. p \in Pairs
  BY PairIsOne
<1>2. /\ handle' = [handle EXCEPT ![r] = None] /\ Writing(r)
      /\ known' = [known EXCEPT ![r] = <<>>] /\ pc' = [pc EXCEPT ![r] = "dead"]
      /\ UNCHANGED <<apart, stamp, path, temp, data, note, delivered>>
  BY DEF Die, Goto, files
<1>3. FileTypes'
  BY <1>2 DEF Inductive, Types, FileTypes
<1>4. Bounded'
  BY StaysBounded DEF Die
<1>5. RunTypes'
  BY <1>2, <1>4, EmptyIsFine DEF Inductive, Types, RunTypes, Pcs
<1>6. /\ pc'[r] = "dead" /\ known'[r] = <<>>
      /\ \A s \in Runs \ {r} : /\ pc'[s] = pc[s] /\ known'[s] = known[s]
                               /\ handle'[s] = handle[s]
  BY <1>2 DEF Inductive, Types, RunTypes
<1>7. Types'
  BY <1>3, <1>5 DEF Types
<1>8. \A s \in Runs : Onward(s)
  BY <1>2, <1>6 DEF Onward
<1>9. NamesDiffer' /\ NamesFit' /\ LinesDiffer'
  <2>1. path' = path /\ temp' = temp /\ data' = data /\ stamp' = stamp
    BY <1>2
  <2>2. NamesDiffer'
    BY <2>1 DEF Inductive, Always, NamesDiffer
  <2>3. NamesFit'
    BY <2>1, <1>7, <1>8, NamesKeep DEF Inductive, Always
  <2>4. LinesDiffer'
    BY <2>1, LinesKeep DEF Inductive, Always
  <2> QED BY <2>2, <2>3, <2>4
<1>10. HandsFit(r)'
  <2>1. NoTwice(known[r])'
    BY <1>6 DEF NoTwice
  <2> QED BY <1>6, <2>1 DEF HandsFit, Writing
<1>11. ASSUME apart PROVE PairFits(p)'
  <2>1. \A s \in RunsOf(p) \ {r} : ~Writing(s)
    BY <1>2, <1>11, WritesAlone
  <2>2. WriterFits(p, r)'
    BY <1>6 DEF WriterFits
  <2>3. pc[r] # "over"
    BY <1>2 DEF Writing
  <2> QED BY <1>1, <1>2, <1>6, <1>7, <1>11, <2>1, <2>2, <2>3, OwnPairKeeps
<1> QED BY <1>2, <1>6, <1>7, <1>9, <1>10, <1>11, StepKeeps

-----------------------------------------------------------------------------
(* The steps of `write_text`.                                              *)

\* The inode a process opens is the temporary file's, or one that nobody has named.
LEMMA OpenedInode ==
    ASSUME Inductive, NEW r \in Runs, NEW k \in Kinds, pc[r] = Opens[k],
           NEW inode, inode = IF temp[PairOf(r)][k] # None THEN temp[PairOf(r)][k]
                              ELSE <<r, k, delivered[r]>>
    PROVE  /\ inode \in Inodes /\ inode # None /\ inode[2] = k
           /\ (inode = temp[PairOf(r)][k] /\ MadeBy(inode)) \/ inode = <<r, k, delivered[r]>>
           /\ \A q \in Pairs, l \in Kinds :
                /\ path[q][l] # inode
                /\ temp[q][l] = inode => q = PairOf(r) /\ l = k
<1> DEFINE p == PairOf(r)
<1>1. p \in Pairs
  BY PairIsOne
<1>2. CASE temp[p][k] # None
  <2>1. inode \in Inodes /\ inode # None /\ inode[2] = k /\ inode = temp[p][k] /\ MadeBy(inode)
    BY <1>1, <1>2, NamesAreTyped DEF Inductive, Always, NamesFit
  <2>2. \A q \in Pairs, l \in Kinds :
            path[q][l] # inode /\ (temp[q][l] = inode => q = p /\ l = k)
    BY <1>1, <2>1 DEF Inductive, Always, NamesDiffer
  <2> QED BY <2>1, <2>2
<1>3. CASE temp[p][k] = None
  <2>1. inode = <<r, k, delivered[r]>>
    BY <1>3
  <2>2. delivered[r] \in 1..Deliveries
    <3>1. delivered[r] \in Nat /\ delivered[r] <= Deliveries
      BY DEF Inductive, Types, RunTypes
    <3>2. delivered[r] >= 1
      BY Labels DEF Inductive, Always, HandsFit, Writing
    <3> QED BY <3>1, <3>2, DeliveriesIsNat
  <2>3. /\ inode \in Inodes /\ inode # None
        /\ inode[1] = r /\ inode[2] = k /\ inode[3] = delivered[r]
    BY <2>1, <2>2, MadeInodes
  <2>4. ~MadeBy(inode)
    BY <2>3, Labels DEF MadeBy, Made
  <2>5. \A q \in Pairs, l \in Kinds : path[q][l] # inode /\ temp[q][l] # inode
    BY <2>3, <2>4 DEF Inductive, Always, NamesFit
  <2> QED BY <2>1, <2>3, <2>5
<1> QED BY <1>2, <1>3

LEMMA OpenStep ==
    ASSUME Inductive, NEW r \in Runs, Open(r)
    PROVE  Inductive'
<1> DEFINE p == PairOf(r)
<1>1. p \in Pairs
  BY PairIsOne
<1>2. PICK k \in Kinds : /\ pc[r] = Opens[k]
                         /\ LET inode == IF temp[p][k] # None THEN temp[p][k]
                                         ELSE <<r, k, delivered[r]>>
                            IN  /\ temp' = [temp EXCEPT ![p][k] = inode]
                                /\ data' = [data EXCEPT ![inode] = <<>>]
                                /\ handle' = [handle EXCEPT ![r] = inode]
                         /\ pc' = [pc EXCEPT ![r] = Fills[k]]
                         /\ UNCHANGED <<apart, stamp, path, known, note, delivered, faults>>
  BY DEF Open, KindAt, Goto
<1>3. PICK inode : inode = IF temp[p][k] # None THEN temp[p][k] ELSE <<r, k, delivered[r]>>
  OBVIOUS
<1>4. /\ temp' = [temp EXCEPT ![p][k] = inode] /\ data' = [data EXCEPT ![inode] = <<>>]
      /\ handle' = [handle EXCEPT ![r] = inode] /\ pc' = [pc EXCEPT ![r] = Fills[k]]
      /\ apart' = apart /\ stamp' = stamp /\ path' = path /\ known' = known /\ note' = note
      /\ delivered' = delivered /\ faults' = faults
  BY <1>2, <1>3
<1>5. /\ inode \in Inodes /\ inode # None /\ inode[2] = k
      /\ (inode = temp[p][k] /\ MadeBy(inode)) \/ inode = <<r, k, delivered[r]>>
      /\ \A q \in Pairs, l \in Kinds :
            /\ path[q][l] # inode
            /\ temp[q][l] = inode => q = p /\ l = k
  BY <1>2, <1>3, OpenedInode
<1>6. /\ temp'[p][k] = inode
      /\ \A q \in Pairs, l \in Kinds : q # p \/ l # k => temp'[q][l] = temp[q][l]
      /\ \A q \in Pairs \ {p} : temp'[q] = temp[q]
      /\ temp' \in [Pairs -> [Kinds -> Inodes \cup {None}]]
  BY <1>1, <1>4, <1>5 DEF Inductive, Types, FileTypes
<1>7. /\ data' \in [Inodes -> Lines] /\ data'[inode] = <<>>
      /\ \A i \in Inodes \ {inode} : data'[i] = data[i]
  BY <1>4, <1>5, EmptyIsFine DEF Inductive, Types, FileTypes, Lines
<1>8. /\ pc'[r] = Fills[k] /\ handle'[r] = inode
      /\ \A s \in Runs \ {r} : pc'[s] = pc[s] /\ handle'[s] = handle[s]
  BY <1>4 DEF Inductive, Types, RunTypes
<1>9. Types'
  <2>1. FileTypes'
    BY <1>4, <1>6, <1>7 DEF Inductive, Types, FileTypes
  <2>2. Bounded'
    BY <1>4, StaysBounded
  <2>3. RunTypes'
    BY <1>4, <1>5, <2>2, Labels DEF Inductive, Types, RunTypes, Pcs
  <2> QED BY <2>1, <2>3 DEF Types
<1>10. \A s \in Runs : Onward(s)
  BY <1>2, <1>4, <1>8, Labels DEF Onward
<1>11. NamesDiffer'
  <2>1. \A q \in Pairs, l \in Kinds : temp'[q][l] \in {temp[q][l], inode}
    BY <1>6
  <2>2. \A q \in Pairs, l \in Kinds : temp'[q][l] = inode => q = p /\ l = k
    BY <1>5, <1>6
  <2> QED BY <1>4, <1>5, <2>1, <2>2 DEF Inductive, Always, NamesDiffer
<1>12. NamesFit'
  <2>1. \A i \in Inodes : MadeBy(i) => MadeBy(i)'
    BY <1>9, <1>10, MadeByKeeps DEF Inductive
  <2>2. MadeBy(inode)'
    <3>1. CASE MadeBy(inode)
      BY <1>5, <2>1, <3>1
    <3>2. CASE inode = <<r, k, delivered[r]>>
      <4>1. inode[1] = r /\ inode[3] = delivered'[r]
        BY <1>4, <3>2
      <4>2. delivered'[r] \in Nat
        BY <1>9 DEF Types, RunTypes
      <4> QED BY <1>5, <1>8, <4>1, <4>2, Labels DEF MadeBy, Made
    <3> QED BY <1>5, <3>1, <3>2
  <2> SUFFICES ASSUME NEW q \in Pairs, NEW l \in Kinds
               PROVE  /\ path'[q][l] # None => path'[q][l][2] = l /\ MadeBy(path[q][l])'
                      /\ temp'[q][l] # None => temp'[q][l][2] = l /\ MadeBy(temp[q][l])'
    BY DEF NamesFit
  <2>3. path[q][l] # None => path[q][l] \in Inodes /\ path[q][l][2] = l /\ MadeBy(path[q][l])
    BY NamesAreTyped DEF Inductive, Always, NamesFit
  <2>4. temp[q][l] # None => temp[q][l] \in Inodes /\ temp[q][l][2] = l /\ MadeBy(temp[q][l])
    BY NamesAreTyped DEF Inductive, Always, NamesFit
  <2>5. path[q][l] # None => MadeBy(path[q][l])'
    <3>1. PICK i : i = path[q][l]
      OBVIOUS
    <3> QED BY <1>4, <2>1, <2>3, <3>1
  <2>6. temp'[q][l] # None => temp'[q][l][2] = l /\ MadeBy(temp[q][l])'
    <3>1. CASE q = p /\ l = k
      BY <1>5, <1>6, <2>2, <3>1
    <3>2. CASE q # p \/ l # k
      <4>1. temp'[q][l] = temp[q][l]
        BY <1>6, <3>2
      <4>2. PICK i : i = temp[q][l]
        OBVIOUS
      <4> QED BY <2>1, <2>4, <4>1, <4>2
    <3> QED BY <3>1, <3>2
  <2> QED BY <1>4, <2>3, <2>5, <2>6
<1>13. LinesDiffer'
  BY <1>4, <1>7, LinesKeep DEF Inductive, Always
<1>14. HandsFit(r)'
  <2>1. delivered'[r] >= 1
    BY <1>2, <1>4, Labels DEF Inductive, Always, HandsFit, Writing
  <2>2. NoTwice(known[r])'
    BY <1>4, NoTwiceKeeps DEF Inductive, Always, HandsFit
  <2>3. ~Holds(known[r], r) => ~Holds(known[r], r)'
    BY <1>4 DEF Holds, SameRun, NamesConsole, PairOf
  <2> QED BY <1>2, <1>5, <1>8, <2>1, <2>2, <2>3, Labels DEF Inductive, Always, HandsFit
<1>15. ASSUME apart PROVE PairFits(p)'
  <2>1. Writing(r)
    BY <1>2, Labels DEF Writing
  <2>2. \A s \in RunsOf(p) \ {r} : ~Writing(s)
    BY <1>15, <2>1, WritesAlone
  <2>3. \A l \in Kinds : path[p][l] # None => data'[path[p][l]] = data[path[p][l]]
    BY <1>1, <1>5, <1>7, NamesAreTyped
  <2>4. History(p)' = History(p) /\ (Recorded(p)' <=> Recorded(p))
        /\ (Recorded(p) => Record(p)' = Record(p))
    BY <1>1, <1>4, <2>3, ReadersSeeTheSame
  <2>5. WriterFits(p, r)
    BY <1>1, <1>15, PairIsOne DEF Inductive, PairFits
  <2>6. WriterFits(p, r)'
    <3>1. Holds(History(p), r) => Holds(History(p), r)'
      BY <1>4, <2>4, HoldsKeeps
    <3>2. Covers(known[r], p) => Covers(known[r], p)'
      BY <1>4, <2>4, HoldsKeeps DEF Covers, RunsOf, PairOf
    <3> QED BY <1>2, <1>4, <1>5, <1>6, <1>8, <2>4, <2>5, <3>1, <3>2, Labels DEF WriterFits
  <2>7. pc[r] # "over"
    BY <1>2, Labels
  <2> QED BY <1>1, <1>4, <1>8, <1>9, <1>15, <2>2, <2>3, <2>6, <2>7, OwnPairKeeps
<1>16. \A q \in Pairs \ {p} :
        /\ path'[q] = path[q] /\ temp'[q] = temp[q]
        /\ \A l \in Kinds : /\ path[q][l] # None => data'[path[q][l]] = data[path[q][l]]
                            /\ temp[q][l] # None => data'[temp[q][l]] = data[temp[q][l]]
  BY <1>4, <1>5, <1>6, <1>7, NamesAreTyped
<1> QED BY <1>4, <1>8, <1>9, <1>11, <1>12, <1>13, <1>14, <1>15, <1>16, StepKeeps

LEMMA FillStep ==
    ASSUME Inductive, NEW r \in Runs, Fill(r)
    PROVE  Inductive'
<1> DEFINE p == PairOf(r)
           body(k) == IF k = "history" THEN Append(known[r], r) ELSE <<r>>
<1>1. p \in Pairs
  BY PairIsOne
<1>2. PICK k \in Kinds : /\ pc[r] = Fills[k]
                         /\ data' = [data EXCEPT ![handle[r]] = body(k)]
                         /\ pc' = [pc EXCEPT ![r] = Renames[k]]
                         /\ apart' = apart /\ stamp' = stamp /\ path' = path /\ temp' = temp
                         /\ handle' = handle /\ known' = known /\ note' = note
                         /\ delivered' = delivered /\ faults' = faults
  BY DEF Fill, KindAt, Goto
<1>3. known[r] \in Seq(Runs) /\ NoTwice(known[r]) /\ (k = "history" => ~Holds(known[r], r))
  BY <1>2, Labels DEF Inductive, Types, RunTypes, Always, HandsFit
<1>4. handle[r] \in Inodes /\ handle[r][2] = k
  BY <1>2, Labels DEF Inductive, Types, RunTypes, Always, HandsFit
<1>5. body(k) \in Seq(Runs) /\ (k = "history" => NoTwice(body(k)))
  BY <1>3, OneLineMore
<1> HIDE DEF body
<1>6. /\ data' \in [Inodes -> Lines] /\ data'[handle[r]] = body(k)
      /\ \A i \in Inodes \ {handle[r]} : data'[i] = data[i]
  BY <1>2, <1>4, <1>5 DEF Inductive, Types, FileTypes, Lines
<1>7. pc'[r] = Renames[k] /\ \A s \in Runs \ {r} : pc'[s] = pc[s]
  BY <1>2 DEF Inductive, Types, RunTypes
<1>8. Types'
  <2>1. FileTypes'
    BY <1>2, <1>6 DEF Inductive, Types, FileTypes
  <2>2. Bounded'
    BY <1>2, StaysBounded
  <2>3. RunTypes'
    BY <1>2, <2>2, Labels DEF Inductive, Types, RunTypes, Pcs
  <2> QED BY <2>1, <2>3 DEF Types
<1>9. \A s \in Runs : Onward(s)
  BY <1>2, <1>7, Labels DEF Onward
<1>10. NamesDiffer' /\ NamesFit'
  <2>1. NamesDiffer'
    BY <1>2 DEF Inductive, Always, NamesDiffer
  <2> QED BY <1>2, <1>8, <1>9, <2>1, NamesKeep DEF Inductive, Always
<1>11. \A lines : NoTwice(lines) => NoTwice(lines)'
  BY <1>2 DEF NoTwice, SameRun, NamesConsole, PairOf
<1>12. LinesDiffer'
  <2> SUFFICES ASSUME NEW i \in Inodes, i[2] = "history"
               PROVE  data'[i] = Damaged \/ NoTwice(data[i])'
    BY DEF LinesDiffer
  <2>1. PICK lines : lines = data'[i]
    OBVIOUS
  <2>2. lines = Damaged \/ NoTwice(lines)
    BY <1>4, <1>5, <1>6, <2>1 DEF Inductive, Always, LinesDiffer
  <2> QED BY <1>11, <2>1, <2>2
<1>13. HandsFit(r)'
  <2>1. delivered'[r] >= 1
    BY <1>2, Labels DEF Inductive, Always, HandsFit, Writing
  <2>2. NoTwice(known[r])'
    BY <1>2, <1>3, NoTwiceKeeps
  <2>3. ~Holds(known[r], r) => ~Holds(known[r], r)'
    BY <1>2 DEF Holds, SameRun, NamesConsole, PairOf
  <2> QED BY <1>2, <1>3, <1>4, <1>7, <2>1, <2>2, <2>3, MadeInodes, Labels DEF HandsFit
<1>14. ASSUME apart
       PROVE  handle[r] = temp[p][k] /\ temp[p][k] # None
  BY <1>1, <1>2, <1>14, PairIsOne, Labels DEF Inductive, PairFits, WriterFits
<1>15. ASSUME apart PROVE PairFits(p)'
  <2>1. Writing(r)
    BY <1>2, Labels DEF Writing
  <2>2. \A s \in RunsOf(p) \ {r} : ~Writing(s)
    BY <1>15, <2>1, WritesAlone
  <2>3. \A l \in Kinds : path[p][l] # None => data'[path[p][l]] = data[path[p][l]]
    BY <1>1, <1>6, <1>14, <1>15, NamesAreTyped DEF Inductive, Always, NamesDiffer
  <2>4. History(p)' = History(p) /\ (Recorded(p)' <=> Recorded(p))
        /\ (Recorded(p) => Record(p)' = Record(p))
    BY <1>1, <1>2, <2>3, ReadersSeeTheSame
  <2>5. WriterFits(p, r)
    BY <1>1, <1>15, PairIsOne DEF Inductive, PairFits
  <2>6. WriterFits(p, r)'
    <3>1. Holds(History(p), r) => Holds(History(p), r)'
      BY <1>2, <2>4, HoldsKeeps
    <3>2. Covers(known[r], p) => Covers(known[r], p)'
      BY <1>2, <2>4, HoldsKeeps DEF Covers, RunsOf, PairOf
    <3>3. data'[temp'[p][k]] = body(k)
      BY <1>2, <1>6, <1>14, <1>15
    <3> QED BY <1>2, <1>7, <1>14, <1>15, <2>4, <2>5, <3>1, <3>2, <3>3, Labels
            DEF WriterFits, body
  <2>7. pc[r] # "over"
    BY <1>2, Labels
  <2> QED BY <1>1, <1>2, <1>7, <1>8, <1>15, <2>2, <2>3, <2>6, <2>7, OwnPairKeeps
<1>16. ASSUME apart
       PROVE  \A q \in Pairs \ {p} :
        /\ path'[q] = path[q] /\ temp'[q] = temp[q]
        /\ \A l \in Kinds : /\ path[q][l] # None => data'[path[q][l]] = data[path[q][l]]
                            /\ temp[q][l] # None => data'[temp[q][l]] = data[temp[q][l]]
  BY <1>1, <1>2, <1>6, <1>14, <1>16, NamesAreTyped DEF Inductive, Always, NamesDiffer
<1> QED BY <1>2, <1>7, <1>8, <1>10, <1>12, <1>13, <1>15, <1>16, StepKeeps

LEMMA RenameStep ==
    ASSUME Inductive, NEW r \in Runs, Rename(r)
    PROVE  Inductive'
<1> DEFINE p == PairOf(r)
<1>1. p \in Pairs
  BY PairIsOne
<1>2. PICK k \in Kinds :
        /\ pc[r] = Renames[k] /\ temp[p][k] # None
        /\ path' = [path EXCEPT ![p][k] = temp[p][k]]
        /\ temp' = [temp EXCEPT ![p][k] = None]
        /\ LET gone == {i \in {path[p][k]} : \A s \in Runs \ {r} : handle[s] # i}
           IN  data' = [i \in Inodes |-> IF i \in gone THEN <<>> ELSE data[i]]
        /\ handle' = [handle EXCEPT ![r] = None]
        /\ known' = [known EXCEPT ![r] = <<>>]
        /\ \/ k = "history" /\ pc' = [pc EXCEPT ![r] = "open_record"] /\ note' = note
           \/ /\ k = "record" /\ pc' = [pc EXCEPT ![r] = "over"]
              /\ note' = [note EXCEPT ![r] = "recorded"]
        /\ apart' = apart /\ stamp' = stamp /\ delivered' = delivered /\ faults' = faults
  <2>1. PICK k \in Kinds :
        /\ pc[r] = Renames[k] /\ temp[p][k] # None
        /\ path' = [path EXCEPT ![p][k] = temp[p][k]]
        /\ temp' = [temp EXCEPT ![p][k] = None]
        /\ LET gone == {i \in {path[p][k]} : \A s \in Runs \ {r} : handle[s] # i}
           IN  data' = [i \in Inodes |-> IF i \in gone THEN <<>> ELSE data[i]]
        /\ IF k = Order[1]
           THEN /\ Goto(r, Opens[Order[2]])
                /\ handle' = [handle EXCEPT ![r] = None]
                /\ known' = [known EXCEPT ![r] = <<>>]
                /\ UNCHANGED note
           ELSE Answer(r, "recorded")
        /\ UNCHANGED <<apart, stamp, delivered, faults>>
    BY DEF Rename, KindAt
  <2>2. CASE k = "history"
    <3>1. Goto(r, "open_record") /\ note' = note
          /\ handle' = [handle EXCEPT ![r] = None] /\ known' = [known EXCEPT ![r] = <<>>]
      BY <2>1, <2>2, Labels
    <3> QED BY <2>1, <2>2, <3>1 DEF Goto
  <2>3. CASE k = "record"
    <3>1. Answer(r, "recorded")
      BY <2>1, <2>3, Labels
    <3> QED BY <2>1, <2>3, <3>1 DEF Goto, Answer
  <2> QED BY <2>2, <2>3, Labels
<1>3. PICK new \in Inodes : new = temp[p][k] /\ new # None /\ new # path[p][k]
  BY <1>1, <1>2, NamesAreTyped DEF Inductive, Always, NamesDiffer
<1>4. /\ path'[p][k] = new /\ temp'[p][k] = None
      /\ \A q \in Pairs, l \in Kinds : q # p \/ l # k =>
            path'[q][l] = path[q][l] /\ temp'[q][l] = temp[q][l]
      /\ \A q \in Pairs \ {p} : path'[q] = path[q] /\ temp'[q] = temp[q]
      /\ path' \in [Pairs -> [Kinds -> Inodes \cup {None}]]
      /\ temp' \in [Pairs -> [Kinds -> Inodes \cup {None}]]
  BY <1>1, <1>2, <1>3 DEF Inductive, Types, FileTypes
<1>5. /\ \A i \in Inodes : data'[i] \in {data[i], <<>>}
      /\ \A i \in Inodes : i # path[p][k] => data'[i] = data[i]
      /\ data' \in [Inodes -> Lines]
  <2>1. \A i \in Inodes : /\ data'[i] \in {data[i], <<>>}
                          /\ i # path[p][k] => data'[i] = data[i]
    BY <1>2
  <2>2. \A i \in Inodes : data'[i] \in Lines
    BY <2>1, EmptyIsFine DEF Inductive, Types, FileTypes, Lines
  <2> QED BY <1>2, <2>1, <2>2
<1>6. /\ pc'[r] = IF k = "history" THEN "open_record" ELSE "over"
      /\ note'[r] = IF k = "history" THEN note[r] ELSE "recorded"
      /\ known'[r] = <<>>
      /\ \A s \in Runs \ {r} : /\ pc'[s] = pc[s] /\ known'[s] = known[s]
                               /\ handle'[s] = handle[s] /\ note'[s] = note[s]
  BY <1>2, Labels DEF Inductive, Types, RunTypes
<1>7. Types'
  <2>1. FileTypes'
    BY <1>2, <1>4, <1>5 DEF Inductive, Types, FileTypes
  <2>2. Bounded'
    BY <1>2, StaysBounded
  <2>3. RunTypes'
    BY <1>2, <2>2, EmptyIsFine DEF Inductive, Types, RunTypes, Pcs
  <2> QED BY <2>1, <2>3 DEF Types
<1>8. \A s \in Runs : Onward(s)
  BY <1>2, <1>6, Labels DEF Onward
<1>9. NamesDiffer'
  <2>1. \A q \in Pairs, l \in Kinds :
            /\ temp'[q][l] # None => temp'[q][l] = temp[q][l] /\ (q # p \/ l # k)
            /\ (q = p /\ l = k) \/ path'[q][l] = path[q][l]
    BY <1>4
  <2> QED BY <1>1, <1>3, <1>4, <2>1 DEF Inductive, Always, NamesDiffer
<1>10. NamesFit'
  <2>1. \A i \in Inodes : MadeBy(i) => MadeBy(i)'
    BY <1>7, <1>8, MadeByKeeps DEF Inductive
  <2>2. new[2] = k /\ MadeBy(new)
    BY <1>1, <1>3 DEF Inductive, Always, NamesFit
  <2> SUFFICES ASSUME NEW q \in Pairs, NEW l \in Kinds
               PROVE  /\ path'[q][l] # None => path'[q][l][2] = l /\ MadeBy(path[q][l])'
                      /\ temp'[q][l] # None => temp'[q][l][2] = l /\ MadeBy(temp[q][l])'
    BY DEF NamesFit
  <2>3. path[q][l] # None => path[q][l] \in Inodes /\ path[q][l][2] = l /\ MadeBy(path[q][l])
    BY NamesAreTyped DEF Inductive, Always, NamesFit
  <2>4. temp[q][l] # None => temp[q][l] \in Inodes /\ temp[q][l][2] = l /\ MadeBy(temp[q][l])
    BY NamesAreTyped DEF Inductive, Always, NamesFit
  <2>5. PICK i, j : i = path'[q][l] /\ j = temp'[q][l]
    OBVIOUS
  <2>6. i # None => i[2] = l /\ i \in Inodes /\ MadeBy(i)
    BY <1>3, <1>4, <2>2, <2>3, <2>5
  <2>7. j # None => j[2] = l /\ j \in Inodes /\ MadeBy(j)
    BY <1>4, <2>4, <2>5
  <2> QED BY <2>1, <2>5, <2>6, <2>7
<1>11. LinesDiffer'
  BY <1>2, <1>5, LinesKeep DEF Inductive, Always
<1>12. HandsFit(r)'
  <2>1. delivered'[r] >= 1
    BY <1>2, Labels DEF Inductive, Always, HandsFit, Writing
  <2>2. NoTwice(known[r])'
    BY <1>6 DEF NoTwice
  <2> QED BY <1>6, <2>1, <2>2 DEF HandsFit
<1>13. ASSUME NEW q \in Pairs, NEW l \in Kinds, q # p \/ l # k
       PROVE  /\ path[q][l] # None => data'[path[q][l]] = data[path[q][l]]
              /\ temp[q][l] # None => data'[temp[q][l]] = data[temp[q][l]]
  <2>1. path[q][l] # None => path[q][l] \in Inodes /\ path[q][l] # path[p][k]
    BY <1>1, <1>13, NamesAreTyped DEF Inductive, Always, NamesDiffer
  <2>2. temp[q][l] # None => temp[q][l] \in Inodes /\ temp[q][l] # path[p][k]
    BY <1>1, <1>13, NamesAreTyped DEF Inductive, Always, NamesDiffer
  <2> QED BY <1>5, <2>1, <2>2
<1>14. ASSUME apart PROVE PairFits(p)'
  <2>1. Writing(r)
    BY <1>2, Labels DEF Writing
  <2>2. \A s \in RunsOf(p) \ {r} : ~Writing(s)
    BY <1>14, <2>1, WritesAlone
  <2>3. PairFits(p) /\ WriterFits(p, r)
    BY <1>1, <1>14, PairIsOne DEF Inductive, PairFits
  <2>4. OneWrites(p)'
    BY <1>6, <2>2 DEF OneWrites, Writing, RunsOf, PairOf
  <2>5. \A s \in RunsOf(p) \ {r} : WriterFits(p, s)'
    BY <1>6, <2>2 DEF RunsOf, Writing, WriterFits
  <2>6. data'[new] = data[new]
    BY <1>3, <1>5
  <2>7. \A lines, s : Holds(lines, s) => Holds(lines, s)'
    BY <1>2, HoldsKeeps
  <2>8. delivered[r] \in Nat /\ delivered[r] >= 1
    BY <2>1 DEF Inductive, Types, RunTypes, Always, HandsFit
  <2>9. CASE k = "history"
    <3>1. PICK more : more = Append(known[r], r)
      OBVIOUS
    <3>2. data[new] = more
      BY <1>2, <1>3, <2>3, <2>9, <3>1, Labels DEF WriterFits
    <3>3. History(p)' = more /\ path'[p]["history"] # None
      BY <1>3, <1>4, <2>6, <2>9, <3>2 DEF History
    <3>4. (Recorded(p)' <=> Recorded(p)) /\ (Recorded(p) => Record(p)' = Record(p))
      BY <1>1, <1>4, <1>13, <2>9, Labels DEF Recorded, Record
    <3>5. /\ more # <<>> /\ Holds(more, r)
          /\ \A s : Holds(known[r], s) => Holds(more, s)
      BY <1>2, <2>9, <3>1, OneLineMore, Labels DEF Inductive, Types, RunTypes, Always, HandsFit
    <3>6. Covers(known[r], p)
      BY <1>2, <2>3, <2>9, Labels DEF WriterFits
    <3>7. Covers(more, p)'
      BY <1>6, <2>7, <2>9, <3>4, <3>5, <3>6 DEF Covers, RunsOf, PairOf
    <3>8. HistoryFits(p)'
      BY <3>3, <3>5, <3>7 DEF HistoryFits
    <3>9. RecordFits(p)'
      <4>1. pc[r] # "over"
        BY <1>2, Labels
      <4> QED BY <1>2, <1>6, <2>3, <3>4, <4>1 DEF PairFits, RecordFits, RunsOf, PairOf
    <3>10. WriterFits(p, r)'
      <4>1. Holds(History(p), r)'
        BY <2>7, <3>3, <3>5
      <4> QED BY <1>6, <2>9, <4>1 DEF WriterFits
    <3> QED BY <2>4, <2>5, <3>8, <3>9, <3>10 DEF PairFits, RunsOf, PairOf
  <2>10. CASE k = "record"
    <3>1. Recorded(p)' /\ Record(p)' = <<r>>
      BY <1>2, <1>3, <1>4, <2>3, <2>6, <2>10, Labels DEF Recorded, Record, WriterFits
    <3>2. History(p)' = History(p) /\ (path'[p]["history"] = path[p]["history"])
      BY <1>1, <1>4, <1>13, <2>10, Labels DEF History
    <3>3. History(p) # Damaged => Holds(History(p), r)
      BY <1>2, <2>3, <2>10, Labels DEF WriterFits
    <3>4. HistoryFits(p)'
      <4>1. History(p) # Damaged => Covers(History(p), p)'
        <5>1. PICK lines : lines = History(p)
          OBVIOUS
        <5>2. lines # Damaged => Covers(lines, p)
          BY <2>3, <5>1 DEF PairFits, HistoryFits
        <5>3. lines # Damaged => Covers(lines, p)'
          BY <1>1, <1>6, <2>7, <2>10, <3>1, <3>3, <5>1, <5>2, PairIsOne
             DEF Covers, RunsOf, PairOf
        <5> QED BY <3>2, <5>1, <5>3
      <4> QED BY <2>3, <3>2, <4>1 DEF PairFits, HistoryFits
    <3>5. RecordFits(p)'
      <4>1. pc'[r] = "over" /\ note'[r] = "recorded" /\ delivered'[r] >= 1
        BY <1>2, <1>6, <2>8, <2>10
      <4> QED BY <3>1, <4>1, PairIsOne DEF RecordFits, RunsOf, PairOf
    <3>6. WriterFits(p, r)'
      BY <1>6, <2>10 DEF WriterFits
    <3> QED BY <2>4, <2>5, <3>4, <3>5, <3>6 DEF PairFits, RunsOf, PairOf
  <2> QED BY <2>9, <2>10, Labels
<1>15. apart' = apart /\ stamp' = stamp /\ delivered' = delivered
  BY <1>2
<1> QED BY <1>4, <1>6, <1>7, <1>9, <1>10, <1>11, <1>12, <1>13, <1>14, <1>15, StepKeeps

LEMMA DamageStep ==
    ASSUME Inductive, NEW p \in Pairs, Damage(p)
    PROVE  Inductive'
<1> DEFINE torn == path[p]["history"]
<1>1. /\ data' = [data EXCEPT ![torn] = Damaged]
      /\ apart' = apart /\ stamp' = stamp /\ path' = path /\ temp' = temp /\ pc' = pc
      /\ handle' = handle /\ known' = known /\ note' = note /\ delivered' = delivered
  BY DEF Damage
<1>2. torn \in Inodes /\ torn # None /\ torn[2] = "history"
  BY Labels, NamesAreTyped DEF Damage
<1>3. /\ data' \in [Inodes -> Lines] /\ data'[torn] = Damaged
      /\ \A i \in Inodes \ {torn} : data'[i] = data[i]
  BY <1>1, <1>2 DEF Inductive, Types, FileTypes, Lines
<1>4. Types'
  <2>1. FileTypes'
    BY <1>1, <1>3 DEF Inductive, Types, FileTypes
  <2>2. Bounded'
    BY StaysBounded DEF Damage
  <2>3. RunTypes'
    BY <1>1, <2>2 DEF Inductive, Types, RunTypes
  <2> QED BY <2>1, <2>3 DEF Types
<1>5. NamesDiffer' /\ NamesFit'
  <2>1. NamesDiffer'
    BY <1>1 DEF Inductive, Always, NamesDiffer
  <2>2. \A s \in Runs : Onward(s)
    BY <1>1 DEF Onward
  <2> QED BY <1>1, <1>4, <2>1, <2>2, NamesKeep DEF Inductive, Always
<1>6. LinesDiffer'
  BY <1>1, <1>2, <1>3, LinesKeep DEF Inductive, Always
<1>7. \A s \in Runs : HandsFit(s)'
  BY <1>1, HandKeeps DEF Inductive, Always
<1>8. ASSUME NEW q \in Pairs, NEW l \in Kinds
      PROVE  /\ path[q][l] # None /\ (q # p \/ l # "history") => data'[path[q][l]] = data[path[q][l]]
             /\ temp[q][l] # None => data'[temp[q][l]] = data[temp[q][l]]
  BY <1>2, <1>3, Labels, NamesAreTyped DEF Inductive, Always, NamesDiffer
<1>9. ASSUME apart, NEW q \in Pairs \ {p}
      PROVE  PairFits(q)'
  <2>1. PairIsLeft(q)
    BY <1>1, <1>8 DEF PairIsLeft
  <2> QED BY <1>1, <1>9, <2>1, PairKeeps DEF Inductive
<1>10. ASSUME apart PROVE PairFits(p)'
  <2>1. PairFits(p)
    BY <1>10 DEF Inductive
  <2>2. History(p)' = Damaged
    BY <1>1, <1>2, <1>3 DEF History
  <2>3. (Recorded(p)' <=> Recorded(p)) /\ (Recorded(p) => Record(p)' = Record(p))
    BY <1>1, <1>8, Labels DEF Recorded, Record
  <2>4. OneWrites(p)'
    BY <1>1, <2>1 DEF PairFits, OneWrites, Writing, RunsOf, PairOf
  <2>5. RecordFits(p)'
    BY <1>1, <2>1, <2>3 DEF PairFits, RecordFits, RunsOf, PairOf
  <2>6. HistoryFits(p)'
    BY <2>2, DamagedIsNoList DEF HistoryFits
  <2>7. ASSUME NEW s \in RunsOf(p)
        PROVE  WriterFits(p, s)'
    <3>1. WriterFits(p, s)
      BY <2>1 DEF PairFits
    <3>2. Covers(known[s], p) => Covers(known[s], p)'
      BY <1>1, <2>3, HoldsKeeps DEF Covers, RunsOf, PairOf
    <3>3. /\ temp[p]["history"] # None => data'[temp[p]["history"]] = data[temp[p]["history"]]
          /\ temp[p]["record"] # None => data'[temp[p]["record"]] = data[temp[p]["record"]]
      BY <1>8, Labels
    <3> QED BY <1>1, <2>2, <3>1, <3>2, <3>3 DEF WriterFits
  <2> QED BY <2>4, <2>5, <2>6, <2>7 DEF PairFits, RunsOf, PairOf
<1>11. apart' => \A q \in Pairs : PairFits(q)'
  BY <1>1, <1>9, <1>10
<1> QED BY <1>4, <1>5, <1>6, <1>7, <1>11 DEF Inductive, Always, Pairs, PairOf

LEMMA InductiveStep == Inductive /\ [Next]_vars => Inductive'
<1> SUFFICES ASSUME Inductive, [Next]_vars
             PROVE  Inductive'
  OBVIOUS
<1>1. ASSUME NEW r \in Runs, Deliver(r) \/ Write(r) \/ Die(r)
      PROVE  Inductive'
  BY <1>1, DeliverStep, ReadStep, AnswerSteps, OpenStep, FillStep, RenameStep, DieStep DEF Write
<1>2. ASSUME NEW p \in Pairs, Damage(p)
      PROVE  Inductive'
  BY <1>2, DamageStep
<1>3. CASE UNCHANGED vars
  <2>1. /\ apart' = apart /\ stamp' = stamp /\ path' = path /\ temp' = temp /\ data' = data
        /\ pc' = pc /\ handle' = handle /\ known' = known /\ note' = note
        /\ delivered' = delivered /\ faults' = faults
    BY <1>3 DEF vars, files
  <2>2. Types'
    BY <2>1 DEF Inductive, Types, FileTypes, RunTypes, Bounded
  <2>3. NamesDiffer' /\ NamesFit'
    <3>1. NamesDiffer'
      BY <2>1 DEF Inductive, Always, NamesDiffer
    <3>2. \A s \in Runs : Onward(s)
      BY <2>1 DEF Onward
    <3> QED BY <2>1, <2>2, <3>1, <3>2, NamesKeep DEF Inductive, Always
  <2>4. LinesDiffer' /\ \A s \in Runs : HandsFit(s)'
    BY <2>1, LinesKeep, HandKeeps DEF Inductive, Always
  <2>5. \A q \in Pairs : PairIsLeft(q)
    BY <2>1 DEF PairIsLeft
  <2>6. apart' => \A q \in Pairs : PairFits(q)'
    BY <2>1, <2>5, PairKeeps DEF Inductive
  <2> QED BY <2>2, <2>3, <2>4, <2>6 DEF Inductive, Always, Pairs, PairOf
<1> QED BY <1>1, <1>2, <1>3 DEF Next

-----------------------------------------------------------------------------
(* The theorems.                                                           *)

\* Files, processes and what they hold fit together in every reachable state, whatever
\* died, was refused or was damaged, and fit closer where one process writes a pair.
THEOREM Invariance == Spec => []Inductive
<1> QED BY InductiveInit, InductiveStep, PTL DEF Spec

\* Every variable has its type, and no inode is bound to two names.
THEOREM TypeCorrect == Spec => []TypeOK
<1>1. Inductive => TypeOK
  <2> SUFFICES ASSUME Inductive
               PROVE  TypeOK
    OBVIOUS
  <2>1. \A k \in Kinds, p, q \in Pairs, l \in Kinds :
            /\ path[p][k] # None => path[p][k] # temp[q][l]
            /\ path[p][k] # None /\ <<p, k>> # <<q, l>> => path[p][k] # path[q][l]
    BY DEF Inductive, Always, NamesDiffer
  <2>2. known \in [Runs -> Lines]
    BY DEF Inductive, Types, RunTypes, Lines
  <2>3. delivered \in [Runs -> 0..Deliveries]
    <3>1. ASSUME NEW r \in Runs PROVE delivered[r] \in 0..Deliveries
      <4>1. PICK n : n = delivered[r]
        OBVIOUS
      <4>2. n \in Nat /\ n <= Deliveries
        BY <4>1 DEF Inductive, Types, RunTypes
      <4>3. n \in 0..Deliveries
        BY <4>2, DeliveriesIsNat
      <4> QED BY <4>1, <4>3
    <3> QED BY <3>1 DEF Inductive, Types, RunTypes
  <2>4. pc \in [Runs -> {"running", "read", "over", "dead"} \cup Stages]
    <3>1. pc \in [Runs -> Pcs]
      BY DEF Inductive, Types, RunTypes
    <3> QED BY <3>1, PcsAreLabels
  <2>5. FileTypes /\ RunTypes /\ Bounded
    BY DEF Inductive, Types, RunTypes
  <2> QED BY Zenon, <2>1, <2>2, <2>3, <2>4, <2>5 DEF TypeOK, FileTypes, RunTypes, Bounded
<1> QED BY <1>1, Invariance, PTL

\* While one process writes a pair at a time, no reader opens a file of it that is empty or
\* half written (sink.py, `_append_history`), with any deaths, refusals and left-overs.
THEOREM FilesAreWhole == Spec => []ReadersSeeWholeFiles
<1>1. Inductive => ReadersSeeWholeFiles
  <2> SUFFICES ASSUME Inductive, apart, NEW p \in Pairs
               PROVE  Whole(p)
    BY DEF ReadersSeeWholeFiles
  <2>1. Recorded(p) => \E s \in Runs : Record(p) = <<s>>
    BY DEF Inductive, PairFits, RecordFits, RunsOf
  <2>2. path[p]["history"] # None => History(p) # <<>>
    BY DEF Inductive, PairFits, HistoryFits
  <2> QED BY <2>1, <2>2 DEF Whole
<1> QED BY <1>1, Invariance, PTL

\* What the console is told is true of the disk (sink.py, `Ledger.write`).
THEOREM NotesAreTrue == Spec => []NoteIsTrue
<1>1. Inductive => NoteIsTrue
  <2> SUFFICES ASSUME Inductive, apart, NEW r \in Runs, NEW p \in Pairs, p = PairOf(r)
               PROVE  /\ note[r] = "recorded" /\ History(p) # Damaged =>
                            \E i \in DOMAIN History(p) : SameRun(History(p)[i], r)
                      /\ note[r] = "NOT_recorded" /\ delivered[r] = 1 =>
                            ~(Recorded(p) /\ Record(p) = <<r>>)
    BY PairIsOne DEF NoteIsTrue
  <2>1. note[r] = "recorded" /\ History(p) # Damaged => Holds(History(p), r)
    BY PairIsOne DEF Inductive, PairFits, HistoryFits, Covers
  <2>2. Recorded(p) /\ Record(p) = <<r>> => (delivered[r] = 1 => note[r] = "recorded")
    <3> SUFFICES ASSUME Recorded(p), Record(p) = <<r>>
                 PROVE  delivered[r] = 1 => note[r] = "recorded"
      OBVIOUS
    <3>1. PICK s \in RunsOf(p) : Record(p) = <<s>> /\ (delivered[s] = 1 => note[s] = "recorded")
      BY DEF Inductive, PairFits, RecordFits
    <3>2. s = r
      BY <3>1
    <3> QED BY <3>1, <3>2
  <2> QED BY <2>1, <2>2 DEF Holds
<1> QED BY <1>1, Invariance, PTL

LEMMA APrefixOfMore ==
    ASSUME NEW S, NEW lines \in Seq(S), NEW r \in S
    PROVE  IsPrefix(lines, Append(lines, r))
<1>1. SubSeq(Append(lines, r), 1, Len(lines)) = lines
  OBVIOUS
<1>2. Len(lines) \in Nat /\ Len(Append(lines, r)) = Len(lines) + 1
  OBVIOUS
<1> QED BY <1>1, <1>2 DEF IsPrefix

\* One step leaves a pair's history, adds a line to it or damages it.
LEMMA HistoryGrows ==
    ASSUME Inductive, apart, [Next]_vars, NEW p \in Pairs, History(p) # Damaged
    PROVE  \/ History(p)' \in {History(p), Damaged}
           \/ \E r \in Runs : History(p)' = Append(History(p), r)
<1> DEFINE file == path[p]["history"]
<1>1. file # None => file \in Inodes /\ file[2] = "history"
  BY Labels, NamesAreTyped
<1>2. ASSUME path'[p]["history"] = file, file # None => data'[file] = data[file]
      PROVE  History(p)' = History(p)
  BY <1>2 DEF History
<1>3. CASE path' = path /\ data' = data
  BY <1>2, <1>3
<1>4. ASSUME NEW r \in Runs, Open(r)
      PROVE  History(p)' = History(p)
  <2>1. PICK k \in Kinds :
            /\ pc[r] = Opens[k] /\ path' = path
            /\ LET inode == IF temp[PairOf(r)][k] # None THEN temp[PairOf(r)][k]
                            ELSE <<r, k, delivered[r]>>
               IN  data' = [data EXCEPT ![inode] = <<>>]
    BY <1>4 DEF Open, KindAt
  <2>2. PICK inode : inode = IF temp[PairOf(r)][k] # None THEN temp[PairOf(r)][k]
                             ELSE <<r, k, delivered[r]>>
    OBVIOUS
  <2>3. file # inode
    BY <2>1, <2>2, OpenedInode, Labels
  <2>4. data' = [data EXCEPT ![inode] = <<>>]
    BY <2>1, <2>2
  <2>5. file # None => data'[file] = data[file]
    BY <1>1, <2>3, <2>4 DEF Inductive, Types, FileTypes
  <2> QED BY <1>2, <2>1, <2>5
<1>5. ASSUME NEW r \in Runs, Fill(r)
      PROVE  History(p)' = History(p)
  <2>1. PICK k \in Kinds :
            /\ pc[r] = Fills[k] /\ path' = path
            /\ data' = [data EXCEPT ![handle[r]] = IF k = "history" THEN Append(known[r], r) ELSE <<r>>]
    BY <1>5 DEF Fill, KindAt
  <2>2. handle[r] = temp[PairOf(r)][k] /\ temp[PairOf(r)][k] # None
    BY <2>1, PairIsOne, Labels DEF Inductive, PairFits, WriterFits
  <2>3. file # None => file # handle[r]
    BY <2>2, PairIsOne, Labels DEF Inductive, Always, NamesDiffer
  <2>4. file # None => data'[file] = data[file]
    BY <1>1, <2>1, <2>3 DEF Inductive, Types, FileTypes
  <2> QED BY <1>2, <2>1, <2>4
<1>6. ASSUME NEW r \in Runs, Rename(r)
      PROVE  \/ History(p)' = History(p)
             \/ History(p)' = Append(History(p), r)
  <2> DEFINE q == PairOf(r)
  <2>1. PICK k \in Kinds :
            /\ pc[r] = Renames[k] /\ temp[q][k] # None
            /\ path' = [path EXCEPT ![q][k] = temp[q][k]]
            /\ LET gone == {i \in {path[q][k]} : \A s \in Runs \ {r} : handle[s] # i}
               IN  data' = [i \in Inodes |-> IF i \in gone THEN <<>> ELSE data[i]]
    BY <1>6 DEF Rename, KindAt
  <2>2. q \in Pairs /\ r \in RunsOf(q)
    BY PairIsOne
  <2>3. \A i \in Inodes : i # path[q][k] => data'[i] = data[i]
    BY <2>1
  <2>4. CASE q = p /\ k = "history"
    <3>1. temp[p][k] \in Inodes /\ temp[p][k] # path[p][k]
      BY <2>1, <2>4, NamesAreTyped DEF Inductive, Always, NamesDiffer
    <3>2. path'[p]["history"] = temp[p][k]
      BY <2>1, <2>4 DEF Inductive, Types, FileTypes
    <3>3. data[temp[p][k]] = Append(known[r], r) /\ known[r] = History(p)
      BY <2>1, <2>2, <2>4, Labels DEF Inductive, PairFits, WriterFits
    <3> QED BY <2>1, <2>3, <2>4, <3>1, <3>2, <3>3 DEF History
  <2>5. CASE q # p \/ k # "history"
    <3>1. path'[p]["history"] = file
      BY <2>1, <2>2, <2>5, Labels DEF Inductive, Types, FileTypes
    <3>2. file # None => file # path[q][k]
      BY <2>2, <2>5, Labels DEF Inductive, Always, NamesDiffer
    <3> QED BY <1>1, <1>2, <2>3, <3>1, <3>2
  <2> QED BY <2>4, <2>5
<1>7. ASSUME NEW q \in Pairs, Damage(q)
      PROVE  History(p)' \in {History(p), Damaged}
  <2>1. path' = path /\ data' = [data EXCEPT ![path[q]["history"]] = Damaged]
        /\ path[q]["history"] # None
    BY <1>7 DEF Damage
  <2>2. data \in [Inodes -> Lines]
    BY DEF Inductive, Types, FileTypes
  <2> QED BY <1>1, <2>1, <2>2 DEF History
<1>8. ASSUME NEW r \in Runs,
             Deliver(r) \/ Read(r) \/ ReadFails(r) \/ RenameFails(r) \/ Refused(r) \/ Die(r)
      PROVE  path' = path /\ data' = data
  BY <1>8 DEF Deliver, Read, ReadFails, RenameFails, Refused, Die, files
<1>9. CASE UNCHANGED vars
  BY <1>3, <1>9 DEF vars, files
<1> QED BY <1>3, <1>4, <1>5, <1>6, <1>7, <1>8, <1>9 DEF Next, Write

\* A history holds every run that was written to it, holds it once, and holds the one the
\* record shows (sink.py, `_append_history`), whoever else writes where that says so.
THEOREM HistoriesAreKept == Spec => HistoryIsKept
<1>1. Inductive => NoLineTwice /\ RecordHasItsLine
  <2> SUFFICES ASSUME Inductive
               PROVE  NoLineTwice /\ RecordHasItsLine
    OBVIOUS
  <2>1. \A p \in Pairs : History(p) # Damaged => NoTwice(History(p))
    <3> SUFFICES ASSUME NEW p \in Pairs, History(p) # Damaged
                 PROVE  NoTwice(History(p))
      OBVIOUS
    <3>1. CASE path[p]["history"] = None
      BY <3>1, EmptyIsFine DEF History
    <3>2. CASE path[p]["history"] # None
      <4>1. path[p]["history"] \in Inodes /\ path[p]["history"][2] = "history"
        BY <3>2, Labels, NamesAreTyped
      <4>2. History(p) = data[path[p]["history"]]
        BY <3>2 DEF History
      <4> QED BY <4>1, <4>2 DEF Inductive, Always, LinesDiffer
    <3> QED BY <3>1, <3>2
  <2>2. ASSUME apart, NEW p \in Pairs, Recorded(p), History(p) # Damaged
        PROVE  Holds(History(p), Record(p)[1])
    BY <2>2 DEF Inductive, PairFits, HistoryFits, Covers
  <2> QED BY <2>1, <2>2 DEF NoLineTwice, RecordHasItsLine, NoTwice, Holds
<1>2. Inductive /\ [Next]_vars => LinesStay
  <2> SUFFICES ASSUME Inductive, [Next]_vars, apart, NEW p \in Pairs,
                      History(p) # Damaged, History(p)' # Damaged
               PROVE  IsPrefix(History(p), History(p)')
    BY DEF LinesStay
  <2>1. PICK lines, later : lines = History(p) /\ later = History(p)'
    OBVIOUS
  <2>2. lines \in Seq(Runs)
    <3>1. CASE path[p]["history"] = None
      BY <2>1, <3>1, EmptyIsFine DEF History
    <3>2. CASE path[p]["history"] # None
      <4>1. path[p]["history"] \in Inodes
        BY <3>2, Labels, NamesAreTyped
      <4>2. lines \in Lines
        BY <2>1, <3>2, <4>1 DEF History, Inductive, Types, FileTypes
      <4> QED BY <2>1, <4>2 DEF Lines
    <3> QED BY <3>1, <3>2
  <2>3. later = lines \/ \E r \in Runs : later = Append(lines, r)
    BY <2>1, HistoryGrows
  <2>4. IsPrefix(lines, later)
    <3>1. CASE later = lines
      <4>1. IsPrefix(lines, lines)
        <5>1. SubSeq(lines, 1, Len(lines)) = lines /\ Len(lines) \in Nat
          BY <2>2
        <5> QED BY <5>1 DEF IsPrefix
      <4> QED BY <3>1, <4>1
    <3>2. ASSUME NEW r \in Runs, later = Append(lines, r)
          PROVE  IsPrefix(lines, later)
      <4>1. IsPrefix(lines, Append(lines, r))
        BY <2>2, APrefixOfMore
      <4> QED BY <3>2, <4>1
    <3> QED BY <2>3, <3>1, <3>2
  <2> QED BY <2>1, <2>4
<1> QED BY <1>1, <1>2, Invariance, InductiveStep, PTL DEF Spec, HistoryIsKept

-----------------------------------------------------------------------------
(* The readings: what `transitions` finds in a history.                    *)

\* What a turn of the fold of `transitions` makes of what it has.
Turned(acc, one) ==
    IF one.verdict = "pass" THEN [acc EXCEPT !.armed = {one}]
    ELSE IF one.verdict = "fail" /\ acc.armed # {}
    THEN [found |-> Append(acc.found, <<one, CHOOSE p \in acc.armed : TRUE>>), armed |-> {}]
    ELSE acc

\* What it begins with, and what it has with lines of R.
NoTurn == [found |-> <<>>, armed |-> {}]
Accs(R) == [found : Seq(R \X R), armed : SUBSET R]

\* It keeps the types.
LEMMA TurnedType ==
  ASSUME NEW R, NEW acc \in Accs(R), NEW one \in R
  PROVE  Turned(acc, one) \in Accs(R)
<1>1. acc.found \in Seq(R \X R) /\ acc.armed \in SUBSET R
  BY DEF Accs
<1>2. acc.armed # {} => (CHOOSE p \in acc.armed : TRUE) \in R
  BY <1>1
<1>3. acc.armed # {} => Append(acc.found, <<one, CHOOSE p \in acc.armed : TRUE>>) \in Seq(R \X R)
  BY <1>1, <1>2
<1> QED
  BY <1>1, <1>3 DEF Accs, Turned

\* The values the fold goes through.
LEMMA TransitionsRun ==
  ASSUME NEW R, NEW h \in Seq(R)
  PROVE  \E acc \in [0..Len(h) -> Accs(R)] :
            /\ acc[0] = NoTurn /\ Transitions(h) = acc[Len(h)].found
            /\ \A i \in 1..Len(h) : acc[i] = Turned(acc[i - 1], h[i])
<1> DEFINE n == Len(h)
           S == Accs(R)
           turn == [i \in 1..n |-> [a \in S |-> Turned(a, h[i])]]
           Follows(it) == it = [s \in SUBSET (1..n) |->
                                   IF s = {} THEN NoTurn ELSE Turned(it[s \ {Max(s)}], h[Max(s)])]
           fold == CHOOSE it : Follows(it)
           acc == [m \in 0..n |-> fold[1..m]]
<1>1. n \in Nat /\ DOMAIN h = 1..n /\ \A i \in 1..n : h[i] \in R
  BY LenProperties
<1>2. NoTurn \in S
  <2>1. <<>> \in Seq(R \X R)
    OBVIOUS
  <2> QED BY <2>1 DEF NoTurn, Accs
<1>3. turn \in [1..n -> [S -> S]]
  <2> HIDE DEF S
  <2>1. \A i \in 1..n, a \in S : Turned(a, h[i]) \in S
    BY <1>1, TurnedType DEF S
  <2> QED BY <2>1
<1>4. Transitions(h) = fold[1..n].found
  BY <1>1 DEF Transitions, FoldLeft, MapThenFoldSet, Turned, NoTurn
<1>5. \E it : Follows(it)
  <2> HIDE DEF S
  <2>1. turn \in [1..n -> [S -> S]] /\ NoTurn \in S /\ n \in Nat
    BY <1>1, <1>2, <1>3
  <2>2. ASSUME NEW i \in 1..n, NEW a \in S PROVE turn[i][a] = Turned(a, h[i])
    OBVIOUS
  <2>3. turn \in Turns(n, S)
    BY <2>1 DEF Turns
  <2> HIDE DEF turn, n, Follows
  <2>4. PICK it : Folds(it, S, NoTurn, n, turn)
    BY <2>1, <2>3, FoldRuns
  <2>5. /\ it \in [SUBSET (1..n) -> S]
        /\ \A s \in SUBSET (1..n) :
             it[s] = IF s = {} THEN NoTurn ELSE turn[Max(s)][it[s \ {Max(s)}]]
    BY <2>4 DEF Folds
  <2>6. ASSUME NEW s \in SUBSET (1..n)
        PROVE  it[s] = IF s = {} THEN NoTurn ELSE Turned(it[s \ {Max(s)}], h[Max(s)])
    <3>1. CASE s = {}
      BY <2>5, <3>1
    <3>2. CASE s # {}
      <4>1. Max(s) \in 1..n
        BY <2>1, <3>2, MaxIs
      <4>2. it[s \ {Max(s)}] \in S
        BY <2>5
      <4> QED BY <2>2, <2>5, <3>2, <4>1, <4>2
    <3> QED BY <3>1, <3>2
  <2>7. Follows(it)
    <3>1. it = [s \in SUBSET (1..n) |-> it[s]]
      BY <2>5
    <3> QED BY <2>6, <3>1 DEF Follows
  <2> QED BY <2>7
<1>6. Follows(fold)
  <2> HIDE DEF Follows
  <2> QED BY <1>5
<1> HIDE DEF fold, n
<1>7. fold[{}] = NoTurn /\ \A m \in 1..n : fold[1..m] = Turned(fold[1..(m - 1)], h[m])
  <2>1. \A s \in SUBSET (1..n) :
          fold[s] = IF s = {} THEN NoTurn ELSE Turned(fold[s \ {Max(s)}], h[Max(s)])
    BY <1>6
  <2>2. ASSUME NEW m \in 1..n PROVE fold[1..m] = Turned(fold[1..(m - 1)], h[m])
    <3>1. m \in Nat /\ m # 0 /\ 1..m \in SUBSET (1..n)
      BY <1>1
    <3>2. Max(1..m) = m /\ (1..m) \ {m} = 1..(m - 1) /\ 1..m # {}
      BY <3>1, MaxUpTo
    <3> HIDE DEF Follows
    <3> QED BY <2>1, <3>1, <3>2
  <2>3. {} \in SUBSET (1..n)
    OBVIOUS
  <2> HIDE DEF Follows
  <2> QED BY <2>1, <2>2, <2>3
<1> HIDE DEF Follows
<1>8. acc[0] = NoTurn
  <2>1. 1..0 = {} /\ 0 \in 0..n
    BY <1>1
  <2> QED BY <1>7, <2>1
<1>9. ASSUME NEW i \in 1..n PROVE acc[i] = Turned(acc[i - 1], h[i])
  <2>1. i \in 0..n /\ i - 1 \in 0..n
    BY <1>1
  <2> QED BY <1>7, <2>1
<1>10. DOMAIN acc = 0..n /\ acc = [m \in 0..n |-> acc[m]]
  OBVIOUS
<1>11. acc[n].found = Transitions(h)
  <2>1. n \in 0..n
    BY <1>1
  <2> QED BY <1>4, <2>1
<1> HIDE DEF acc, S
<1>12. \A m \in 0..n : acc[m] \in S
  <2> DEFINE good == {m \in 0..n : acc[m] \in S}
  <2>1. 0 \in good
    BY <1>1, <1>2, <1>8
  <2>2. ASSUME NEW i \in 1..n, i - 1 \in good PROVE i \in good
    BY <1>1, <1>9, <2>2, TurnedType DEF S
  <2> HIDE DEF good
  <2>3. \A m \in 0..n : m \in good
    BY <1>1, <2>1, <2>2, UpTo
  <2> QED BY <2>3 DEF good
<1>13. acc \in [0..n -> S]
  BY <1>10, <1>12
<1> QED
  BY <1>8, <1>9, <1>11, <1>13 DEF S, n
\* A list and one more hold what the list held and that.
LEMMA ToSetAppend ==
  ASSUME NEW S, NEW s \in Seq(S), NEW x \in S
  PROVE  ToSet(Append(s, x)) = ToSet(s) \cup {x}
<1> DEFINE n == Len(s)
           t == Append(s, x)
<1>1. n \in Nat /\ DOMAIN s = 1..n
  BY LenProperties
<1>2. DOMAIN t = 1..(n + 1) /\ t[n + 1] = x /\ \A i \in 1..n : t[i] = s[i]
  BY <1>1, AppendProperties
<1>3. 1..(n + 1) = 1..n \cup {n + 1}
  BY <1>1
<1> HIDE DEF t, n
<1> QED BY <1>1, <1>2, <1>3 DEF ToSet, t

\* In a history of different lines the fold finds the regressions, each once.
LEMMA TurnsFound ==
  ASSUME NEW R, NEW h \in Seq(R), \A i, j \in DOMAIN h : h[i] = h[j] => i = j
  PROVE  /\ ToSet(Transitions(h)) = Regressions(h)
         /\ Len(Transitions(h)) = Cardinality(Regressions(h))
<1> DEFINE n == Len(h)
           Pass(i) == h[i].verdict = "pass"
           Fail(i) == h[i].verdict = "fail"
           Armed(m) == {i \in 1..n : i <= m /\ Pass(i) /\ \A k \in (i + 1)..m : ~Pass(k) /\ ~Fail(k)}
           Found(m) == {x \in R \X R : \E i, j \in 1..n :
                           j <= m /\ i \in Armed(j - 1) /\ Fail(j) /\ x = <<h[j], h[i]>>}
<1>1. n \in Nat /\ DOMAIN h = 1..n /\ \A i \in 1..n : h[i] \in R
  BY LenProperties
<1>2. PICK acc \in [0..n -> Accs(R)] :
            /\ acc[0] = NoTurn /\ Transitions(h) = acc[n].found
            /\ \A i \in 1..n : acc[i] = Turned(acc[i - 1], h[i])
  BY TransitionsRun
<1>3. \A m \in 0..n : \A i, j \in Armed(m) : i = j
  <2> SUFFICES ASSUME NEW m \in 0..n, NEW i \in Armed(m), NEW j \in Armed(m), i < j PROVE FALSE
    BY <1>1
  <2>1. j \in (i + 1)..m
    BY <1>1
  <2> QED BY <2>1
<1> HIDE DEF n
<1>4. ASSUME NEW m \in 1..n
      PROVE  /\ Pass(m) => Armed(m) = {m}
             /\ Fail(m) => Armed(m) = {}
             /\ ~Pass(m) /\ ~Fail(m) => Armed(m) = Armed(m - 1)
  <2>1. m \in Nat /\ (m + 1)..m = {}
    BY <1>1
  <2>2. ASSUME NEW i \in 1..n, i < m PROVE (i + 1)..m = (i + 1)..(m - 1) \cup {m}
    BY <1>1, <2>2
  <2>3. ~(Pass(m) /\ Fail(m))
    OBVIOUS
  <2>4. ASSUME NEW i \in 1..n, i # m
        PROVE  i \in Armed(m) <=> i \in Armed(m - 1) /\ ~Pass(m) /\ ~Fail(m)
    <3>1. CASE i < m
      <4>1. i <= m /\ i <= m - 1
        BY <1>1, <3>1
      <4> HIDE DEF Pass, Fail
      <4> QED BY <2>2, <3>1, <4>1
    <3>2. CASE ~(i < m)
      BY <1>1, <2>1, <2>4, <3>2
    <3> QED BY <3>1, <3>2
  <2>5. m \in Armed(m) <=> Pass(m)
    BY <1>1, <2>1
  <2>6. m \notin Armed(m - 1)
    BY <1>1
  <2>7. \A x \in Armed(m) : x \in 1..n
    OBVIOUS
  <2>8. \A x \in Armed(m - 1) : x \in 1..n
    OBVIOUS
  <2> HIDE DEF Armed, Pass, Fail
  <2>9. Pass(m) => Armed(m) = {m}
    <3> SUFFICES ASSUME Pass(m) PROVE \A x : x \in Armed(m) <=> x = m
      OBVIOUS
    <3> QED BY <2>4, <2>5, <2>7
  <2>10. Fail(m) => Armed(m) = {}
    <3> SUFFICES ASSUME Fail(m), NEW x \in Armed(m) PROVE FALSE
      OBVIOUS
    <3> QED BY <2>3, <2>4, <2>5, <2>7
  <2>11. ~Pass(m) /\ ~Fail(m) => Armed(m) = Armed(m - 1)
    <3> SUFFICES ASSUME ~Pass(m), ~Fail(m) PROVE \A x : x \in Armed(m) <=> x \in Armed(m - 1)
      OBVIOUS
    <3> QED BY <2>4, <2>5, <2>6, <2>7, <2>8
  <2> QED BY <2>9, <2>10, <2>11
<1>5. Found(0) = {}
  BY <1>1
<1>6. ASSUME NEW m \in 1..n, ~Fail(m) \/ Armed(m - 1) = {}
      PROVE  Found(m) = Found(m - 1)
  <2>1. ASSUME NEW j \in 1..n, NEW i \in Armed(j - 1), Fail(j) PROVE j <= m <=> j <= m - 1
    <3>1. j # m
      BY <1>6, <2>1
    <3> QED BY <1>1, <3>1
  <2> HIDE DEF Armed, Fail
  <2> QED BY <2>1
<1>7. ASSUME NEW m \in 1..n, Fail(m), NEW i \in Armed(m - 1)
      PROVE  /\ Found(m) = Found(m - 1) \cup {<<h[m], h[i]>>}
             /\ <<h[m], h[i]>> \notin Found(m - 1)
  <2>1. i \in 1..n /\ \A l \in Armed(m - 1) : l = i
    <3>1. m - 1 \in 0..n
      BY <1>1
    <3>2. \A l \in Armed(m - 1) : l \in 1..n
      OBVIOUS
    <3> HIDE DEF Armed
    <3> QED BY <1>3, <1>7, <3>1, <3>2
  <2>2. \A j \in 1..n : j <= m <=> j <= m - 1 \/ j = m
    BY <1>1
  <2>3. <<h[m], h[i]>> \in R \X R
    BY <1>1, <2>1
  <2> HIDE DEF Armed, Fail
  <2>4. Found(m) = Found(m - 1) \cup {<<h[m], h[i]>>}
    <3>1. <<h[m], h[i]>> \in Found(m)
      BY <1>1, <1>7, <2>1, <2>3
    <3>2. Found(m - 1) \subseteq Found(m)
      BY <2>2
    <3>3. ASSUME NEW x \in Found(m), x \notin Found(m - 1) PROVE x = <<h[m], h[i]>>
      <4>1. PICK l, j \in 1..n : j <= m /\ l \in Armed(j - 1) /\ Fail(j) /\ x = <<h[j], h[l]>>
        OBVIOUS
      <4>2. j = m
        BY <2>2, <3>3, <4>1
      <4> QED BY <2>1, <4>1, <4>2
    <3> HIDE DEF Found
    <3> QED BY <3>1, <3>2, <3>3
  <2>5. <<h[m], h[i]>> \notin Found(m - 1)
    <3> SUFFICES ASSUME NEW j \in 1..n, NEW l \in 1..n, j <= m - 1, <<h[m], h[i]>> = <<h[j], h[l]>>
                 PROVE  FALSE
      OBVIOUS
    <3>1. h[m] = h[j] /\ j # m
      BY <1>1
    <3> QED BY <1>1, <3>1
  <2> QED BY <2>4, <2>5
<1> DEFINE Fits(m) == /\ acc[m].armed = {h[i] : i \in Armed(m)}
                      /\ IsFiniteSet(Found(m)) /\ ToSet(acc[m].found) = Found(m)
                      /\ Len(acc[m].found) = Cardinality(Found(m))
           good == {m \in 0..n : Fits(m)}
<1>8. Fits(0)
  <2>1. Armed(0) = {}
    BY <1>1
  <2>2. acc[0].found = <<>> /\ acc[0].armed = {} /\ ToSet(<<>>) = {} /\ Len(<<>>) = 0
    BY <1>2 DEF NoTurn, ToSet
  <2>3. IsFiniteSet({}) /\ Cardinality({}) = 0
    BY FS_EmptySet
  <2> HIDE DEF Armed, Found
  <2> QED BY <1>5, <2>1, <2>2, <2>3
<1>9. ASSUME NEW m \in 1..n, Fits(m - 1) PROVE Fits(m)
  <2> DEFINE was == acc[m - 1]
             is == acc[m]
  <2>1. m - 1 \in 0..n /\ m \in 0..n
    BY <1>1
  <2>2. was \in Accs(R) /\ is = Turned(was, h[m])
    BY <1>2, <2>1
  <2>3. /\ was.armed = {h[i] : i \in Armed(m - 1)}
        /\ IsFiniteSet(Found(m - 1)) /\ ToSet(was.found) = Found(m - 1)
        /\ Len(was.found) = Cardinality(Found(m - 1)) /\ was.found \in Seq(R \X R)
    BY <1>9, <2>2 DEF Accs
  <2> HIDE DEF Armed, Found, was, is
  <2>4. CASE Pass(m)
    <3>1. Armed(m) = {m} /\ ~Fail(m)
      BY <1>4, <2>4
    <3>2. is.armed = {h[m]} /\ is.found = was.found
      BY <2>2, <2>4 DEF Turned, Accs
    <3>3. Found(m) = Found(m - 1)
      BY <1>6, <3>1
    <3> QED BY <2>3, <3>1, <3>2, <3>3 DEF is
  <2>5. CASE Fail(m) /\ Armed(m - 1) # {}
    <3>1. PICK i \in Armed(m - 1) : TRUE
      BY <2>5
    <3>2. was.armed = {h[i]} /\ h[i] \in R /\ h[m] \in R
      <4>1. \A l \in Armed(m - 1) : l = i
        BY <1>3, <2>1
      <4>2. i \in 1..n
        BY DEF Armed
      <4> QED BY <1>1, <2>3, <4>1, <4>2
    <3>3. (CHOOSE p \in was.armed : TRUE) = h[i]
      BY <3>2
    <3>4. is.armed = {} /\ is.found = Append(was.found, <<h[m], h[i]>>)
      BY <2>2, <2>5, <3>2, <3>3 DEF Turned
    <3>5. Armed(m) = {}
      BY <1>4, <2>5
    <3>6. Found(m) = Found(m - 1) \cup {<<h[m], h[i]>>} /\ <<h[m], h[i]>> \notin Found(m - 1)
      <4> HIDE DEF Fail
      <4> QED BY <1>7, <2>5
    <3>7. IsFiniteSet(Found(m)) /\ Cardinality(Found(m)) = Cardinality(Found(m - 1)) + 1
      <4> DEFINE F == Found(m - 1)
                 x == <<h[m], h[i]>>
      <4>1. IsFiniteSet(F) /\ x \notin F
        BY <2>3, <3>6
      <4> HIDE DEF F, x
      <4>2. IsFiniteSet(F \cup {x}) /\ Cardinality(F \cup {x}) = Cardinality(F) + 1
        BY <4>1, FS_AddElement
      <4> QED BY <3>6, <4>2 DEF F, x
    <3>8. ToSet(is.found) = ToSet(was.found) \cup {<<h[m], h[i]>>}
      <4> DEFINE P == R \X R
                 x == <<h[m], h[i]>>
      <4>1. was.found \in Seq(P) /\ x \in P
        BY <2>3, <3>2
      <4> HIDE DEF P, x
      <4>2. ToSet(Append(was.found, x)) = ToSet(was.found) \cup {x}
        BY <4>1, ToSetAppend
      <4> QED BY <3>4, <4>2 DEF x
    <3>9. Len(is.found) = Len(was.found) + 1
      BY <2>3, <3>4, AppendProperties
    <3> QED BY <2>3, <3>4, <3>5, <3>6, <3>7, <3>8, <3>9 DEF is
  <2>6. CASE ~Pass(m) /\ (~Fail(m) \/ Armed(m - 1) = {})
    <3>1. Found(m) = Found(m - 1)
      BY <1>6, <2>6
    <3>2. Armed(m) = Armed(m - 1)
      BY <1>4, <2>6
    <3>3. Fail(m) => was.armed = {}
      BY <2>3, <2>6
    <3>4. is = was
      BY <2>2, <2>6, <3>3 DEF Turned
    <3> QED BY <2>3, <3>1, <3>2, <3>4 DEF is
  <2> HIDE DEF Fits
  <2> QED BY <2>4, <2>5, <2>6
<1>10. Fits(n)
  <2>1. 0 \in good /\ \A m \in 1..n : m - 1 \in good => m \in good
    <3> HIDE DEF Fits
    <3> QED BY <1>1, <1>8, <1>9
  <2> HIDE DEF good
  <2>2. \A m \in 0..n : m \in good
    BY <1>1, <2>1, UpTo
  <2>3. n \in good
    BY <1>1, <2>2
  <2> HIDE DEF Fits
  <2> QED BY <2>3 DEF good
<1>11. Found(n) = Regressions(h)
  <2>1. ASSUME NEW i \in 1..n, NEW j \in 1..n
        PROVE  i \in Armed(j - 1) /\ Fail(j) <=>
                 /\ i < j /\ h[i].verdict = "pass" /\ h[j].verdict = "fail"
                 /\ \A k \in (i + 1)..(j - 1) : h[k].verdict \notin {"pass", "fail"}
    BY <1>1
  <2> HIDE DEF Armed, Fail, Pass
  <2>2. \A j \in 1..n : j <= n
    BY <1>1
  <2>3. Regressions(h) \subseteq Found(n)
    <3> SUFFICES ASSUME NEW q \in (1..n) \X (1..n), q[1] < q[2],
                        h[q[1]].verdict = "pass", h[q[2]].verdict = "fail",
                        \A k \in (q[1] + 1)..(q[2] - 1) : h[k].verdict \notin {"pass", "fail"}
                 PROVE  <<h[q[2]], h[q[1]]>> \in Found(n)
      BY <1>1 DEF Regressions
    <3>1. q[1] \in 1..n /\ q[2] \in 1..n
      OBVIOUS
    <3>2. q[1] \in Armed(q[2] - 1) /\ Fail(q[2])
      BY <2>1, <3>1
    <3> QED BY <1>1, <2>2, <3>1, <3>2
  <2>4. Found(n) \subseteq Regressions(h)
    <3> SUFFICES ASSUME NEW i \in 1..n, NEW j \in 1..n, i \in Armed(j - 1), Fail(j)
                 PROVE  <<h[j], h[i]>> \in Regressions(h)
      OBVIOUS
    <3> DEFINE q == <<i, j>>
    <3>1. q \in (1..n) \X (1..n) /\ q[1] = i /\ q[2] = j
      OBVIOUS
    <3>2. /\ q[1] < q[2] /\ h[q[1]].verdict = "pass" /\ h[q[2]].verdict = "fail"
          /\ \A k \in (q[1] + 1)..(q[2] - 1) : h[k].verdict \notin {"pass", "fail"}
      BY <2>1, <3>1
    <3>3. <<h[q[2]], h[q[1]]>> \in Regressions(h)
      <4> HIDE DEF q
      <4> QED BY <1>1, <3>1, <3>2 DEF Regressions
    <3> QED BY <3>1, <3>3
  <2> QED BY <2>3, <2>4
<1> HIDE DEF Found
<1> QED BY <1>2, <1>10, <1>11

\* Places in the order of a number, and of the places where that is the same.
LEMMA StableOrder ==
  ASSUME NEW D, D \subseteq Nat, NEW key \in [D -> Int]
  PROVE  IsOrder({p \in D \X D : key[p[1]] < key[p[2]] \/ (key[p[1]] = key[p[2]] /\ p[1] < p[2])}, D)
<1> DEFINE R == {p \in D \X D : key[p[1]] < key[p[2]] \/ (key[p[1]] = key[p[2]] /\ p[1] < p[2])}
<1>1. \A i, j \in D : <<i, j>> \in R <=> key[i] < key[j] \/ (key[i] = key[j] /\ i < j)
  OBVIOUS
<1>2. \A i \in D : i \in Nat /\ key[i] \in Int
  OBVIOUS
<1> HIDE DEF R
<1> QED BY <1>1, <1>2 DEF IsOrder, R

\* A series holds lines of what it is read from, no line twice if that holds none twice.
LEMMA SeriesIs ==
  ASSUME NEW R, \A one \in R : one.stamp \in Int, NEW items \in Seq(R), NEW test
  PROVE  /\ Series(items, test) \in Seq(R)
         /\ (\A i, j \in DOMAIN items : items[i] = items[j] => i = j) =>
              \A i, j \in DOMAIN Series(items, test) :
                 Series(items, test)[i] = Series(items, test)[j] => i = j
<1> DEFINE at == {i \in DOMAIN items : items[i].test = test}
           some == Those(items, at)
           key == [i \in DOMAIN some |-> some[i].stamp]
           B == {p \in (DOMAIN some) \X (DOMAIN some) :
                   key[p[1]] < key[p[2]] \/ (key[p[1]] = key[p[2]] /\ p[1] < p[2])}
<1>1. /\ some \in Seq(R)
      /\ (\A i, j \in at : items[i] = items[j] => i = j) =>
            \A i, j \in DOMAIN some : some[i] = some[j] => i = j
  <2>1. at \subseteq DOMAIN items
    OBVIOUS
  <2> HIDE DEF at
  <2> QED BY <2>1, ThoseHold
<1>2. DOMAIN some \subseteq Nat /\ \A i \in DOMAIN some : some[i] \in R
  <2> HIDE DEF some
  <2> QED BY <1>1, LenProperties
<1>3. key \in [DOMAIN some -> Int]
  <2> HIDE DEF some
  <2> QED BY <1>2
<1>4. IsOrder(B, DOMAIN some)
  <2> HIDE DEF some, key
  <2> QED BY <1>2, <1>3, StableOrder
<1>5. Series(items, test) = Arranged(some, B)
  <2> HIDE DEF some
  <2>1. {p \in (DOMAIN some) \X (DOMAIN some) :
            \/ some[p[1]].stamp < some[p[2]].stamp
            \/ some[p[1]].stamp = some[p[2]].stamp /\ p[1] < p[2]} = B
    OBVIOUS
  <2>2. Series(items, test) = ByStamp(some)
    BY DEF Series, ForTest, some
  <2> HIDE DEF B
  <2> QED BY <2>1, <2>2 DEF ByStamp
<1>6. /\ Arranged(some, B) \in Seq(R)
      /\ (\A i, j \in DOMAIN some : some[i] = some[j] => i = j) =>
            \A k, l \in DOMAIN Arranged(some, B) :
               Arranged(some, B)[k] = Arranged(some, B)[l] => k = l
  <2> HIDE DEF some, B
  <2> QED BY <1>1, <1>4, ArrangedHold
<1>7. (\A i, j \in DOMAIN items : items[i] = items[j] => i = j) =>
        \A i, j \in at : items[i] = items[j] => i = j
  OBVIOUS
<1> HIDE DEF at, some, B
<1> QED BY <1>1, <1>5, <1>6, <1>7

\* A history that can be read is a list of runs and holds none of them twice.
LEMMA HistoryIsSound ==
  ASSUME Inductive, NEW p \in Pairs, History(p) # Damaged
  PROVE  History(p) \in Seq(Runs) /\ NoTwice(History(p))
<1>1. CASE path[p]["history"] = None
  BY <1>1, EmptyIsFine DEF History
<1>2. CASE path[p]["history"] # None
  <2>1. path[p]["history"] \in Inodes /\ path[p]["history"][2] = "history"
    BY <1>2, Labels, NamesAreTyped
  <2>2. History(p) = data[path[p]["history"]]
    BY <1>2 DEF History
  <2>3. History(p) \in Lines
    BY <2>1, <2>2 DEF Inductive, Types, FileTypes
  <2> QED BY <2>1, <2>2, <2>3 DEF Inductive, Always, LinesDiffer, Lines
<1> QED BY <1>1, <1>2

\* What a panel shows of it is a list of records, no two of one run.
LEMMA ItemsAreSound ==
  ASSUME Inductive, NEW p \in Pairs, History(p) # Damaged, NEW verdict
  PROVE  LET R == {Shown(r, verdict) : r \in Runs}
             items == HistoryItems(p, verdict)
         IN  /\ items \in Seq(R) /\ \A one \in R : one.stamp \in Int
             /\ \A i, j \in DOMAIN items : items[i] = items[j] => i = j
<1> DEFINE R == {Shown(r, verdict) : r \in Runs}
           items == HistoryItems(p, verdict)
           lines == History(p)
           n == Len(lines)
<1>1. lines \in Seq(Runs) /\ NoTwice(lines)
  BY HistoryIsSound
<1>2. \A r \in Runs : Shown(r, verdict).run = r /\ Shown(r, verdict).stamp = stamp[r]
  BY DEF Shown
<1>3. stamp \in [Runs -> Nat]
  BY LedgerAssumption DEF Inductive, Types, FileTypes
<1>4. items = [i \in DOMAIN lines |-> Shown(lines[i], verdict)]
  BY DEF HistoryItems
<1> HIDE DEF lines
<1>5. n \in Nat /\ DOMAIN lines = 1..n /\ \A i \in 1..n : lines[i] \in Runs
  BY <1>1, LenProperties
<1> HIDE DEF n, items
<1>6. DOMAIN items = 1..n /\ \A i \in 1..n : items[i] = Shown(lines[i], verdict)
  BY <1>4, <1>5
<1>7. items \in Seq(R)
  <2>1. items = [i \in 1..n |-> items[i]] /\ \A i \in 1..n : items[i] \in R
    BY <1>4, <1>5, <1>6
  <2> HIDE DEF R
  <2> QED BY <1>5, <2>1, MadeSeq
<1>8. \A one \in R : one.stamp \in Int
  BY <1>2, <1>3
<1>9. ASSUME NEW i \in 1..n, NEW j \in 1..n, items[i] = items[j] PROVE i = j
  <2>1. lines[i] = lines[j]
    BY <1>2, <1>5, <1>6, <1>9
  <2> QED BY <1>1, <1>5, <2>1, SameAsItself DEF NoTwice
<1> QED BY <1>6, <1>7, <1>8, <1>9 DEF items

\* The fold that counts regressions finds exactly the failures whose nearest decided
\* predecessor passed, each once (re.py, `transitions`), in every history there can be,
\* whatever the runs came back with.
THEOREM RegressionsAreFound == Spec => []TurnsAreRegressions
<1>1. Inductive => TurnsAreRegressions
  <2> SUFFICES ASSUME Inductive, NEW p \in Pairs, NEW verdict \in Answers, History(p) # Damaged
               PROVE  LET series == Series(HistoryItems(p, verdict), p[2]) IN
                      /\ ToSet(Transitions(series)) = Regressions(series)
                      /\ Len(Transitions(series)) = Cardinality(Regressions(series))
    BY DEF TurnsAreRegressions
  <2> DEFINE R == {Shown(r, verdict) : r \in Runs}
             items == HistoryItems(p, verdict)
             series == Series(items, p[2])
  <2>1. /\ items \in Seq(R) /\ \A one \in R : one.stamp \in Int
        /\ \A i, j \in DOMAIN items : items[i] = items[j] => i = j
    BY ItemsAreSound
  <2> HIDE DEF R, items
  <2>2. series \in Seq(R) /\ \A i, j \in DOMAIN series : series[i] = series[j] => i = j
    BY <2>1, SeriesIs
  <2> HIDE DEF series
  <2>3. /\ ToSet(Transitions(series)) = Regressions(series)
        /\ Len(Transitions(series)) = Cardinality(Regressions(series))
    BY <2>2, TurnsFound
  <2> QED BY <2>3 DEF series, items
<1> QED BY <1>1, Invariance, PTL

-----------------------------------------------------------------------------
(* What changed between neighbours, and the doors to it.                   *)

\* An edge is about two neighbours, one way round or the other, and it has a report of them
\* when both have a card and both of their configs can be read.
SidesAre(e, a, b) == {e.older, e.newer} = {a.build, b.build}

EdgeOf(world, e, a, b) ==
    /\ SidesAre(e, a, b)
    /\ e.report = IF a.card /\ b.card THEN Between(world, e.older, e.newer) ELSE <<>>

EdgeSet(world, B) ==
    [older : B, newer : B, report : {<<>>} \cup {Between(world, q[1], q[2]) : q \in B \X B}]

\* The engine's pairs of a stretch of rows with a card.
LEMMA SeriesEdges ==
  ASSUME NEW B, NEW R, \A row \in R : row.build \in B, NEW rows \in Seq(R), NEW world,
         Len(rows) >= 1, \A i \in DOMAIN rows : rows[i].card
  PROVE  LET edges == DriftSeries(world, rows)
         IN  /\ edges \in Seq(EdgeSet(world, B)) /\ Len(edges) = Len(rows) - 1
             /\ \A i \in 1..(Len(rows) - 1) : EdgeOf(world, edges[i], rows[i], rows[i + 1])
<1> DEFINE n == Len(rows)
           edges == DriftSeries(world, rows)
           side(i) == Ordered(rows[i], rows[i + 1])
           S == EdgeSet(world, B)
<1>1. n \in Nat /\ DOMAIN rows = 1..n /\ \A i \in 1..n : rows[i] \in R
  BY LenProperties
<1>2. n - 1 \in Nat /\ \A i \in 1..(n - 1) : i \in 1..n /\ i + 1 \in 1..n
  BY <1>1
<1>3. edges = [i \in 1..(n - 1) |-> [older |-> side(i)[1], newer |-> side(i)[2],
                                     report |-> Between(world, side(i)[1], side(i)[2])]]
  BY DEF DriftSeries
<1>4. \A i \in 1..(n - 1) : {side(i)[1], side(i)[2]} = {rows[i].build, rows[i + 1].build}
  BY DEF Ordered
<1>5. \A i \in 1..(n - 1) : side(i)[1] \in B /\ side(i)[2] \in B
  <2> HIDE DEF n, side
  <2> QED BY <1>1, <1>2, <1>4
<1> HIDE DEF n, edges, side
<1>6. ASSUME NEW i \in 1..(n - 1) PROVE EdgeOf(world, edges[i], rows[i], rows[i + 1])
  BY <1>1, <1>2, <1>3, <1>4 DEF EdgeOf, SidesAre
<1>7. edges = [i \in 1..(n - 1) |-> edges[i]]
  BY <1>3
<1>8. \A i \in 1..(n - 1) : edges[i] \in S
  <2> SUFFICES ASSUME NEW i \in 1..(n - 1) PROVE edges[i] \in S
    OBVIOUS
  <2> DEFINE q == <<side(i)[1], side(i)[2]>>
  <2>1. q \in B \X B /\ edges[i] = [older |-> q[1], newer |-> q[2], report |-> Between(world, q[1], q[2])]
    BY <1>3, <1>5
  <2> HIDE DEF q
  <2> QED BY <2>1 DEF EdgeSet
<1> HIDE DEF S
<1>9. edges \in Seq(S) /\ Len(edges) = n - 1
  BY <1>2, <1>7, <1>8, MadeSeq
<1> QED BY <1>6, <1>9 DEF n, edges, S

\* The adjacent pairs of a list, in order, each with its edge.
LEMMA EdgesAre ==
  ASSUME NEW R, NEW rows \in Seq(R), NEW world, \A row \in R : row.card \in BOOLEAN
  PROVE  LET edges == ConfigEdges(world, rows)
         IN  /\ DOMAIN edges = 1..(Len(rows) - 1)
             /\ \A i \in DOMAIN edges : EdgeOf(world, edges[i], rows[i], rows[i + 1])
<1> DEFINE n == Len(rows)
           EndOf(at) == CHOOSE e \in at..Len(rows) :
                           /\ \A i \in at..e : rows[i].card
                           /\ e = Len(rows) \/ ~rows[e + 1].card
           Body(f, at) ==
              IF at = Len(rows) THEN <<>>
              ELSE IF ~rows[at].card \/ ~rows[at + 1].card
              THEN <<[older |-> rows[at].build, newer |-> rows[at + 1].build,
                      report |-> <<>>]>> \o f[at + 1]
              ELSE DriftSeries(world, SubSeq(rows, at, EndOf(at))) \o f[EndOf(at)]
           from == CHOOSE f : f = [at \in 1..Len(rows) |-> Body(f, at)]
           B == {row.build : row \in R}
           S == EdgeSet(world, B)
<1>1. ConfigEdges(world, rows) = IF n > 1 THEN from[1] ELSE <<>>
  BY DEF ConfigEdges
<1>2. n \in Nat /\ DOMAIN rows = 1..n /\ \A i \in 1..n : rows[i] \in R
  BY LenProperties
\* A stretch of rows with a card ends behind its second row.
<1>3. ASSUME NEW at \in 1..n, at # n, rows[at].card, rows[at + 1].card
      PROVE  EndOf(at) \in (at + 1)..n /\ \A i \in at..EndOf(at) : rows[i].card
  <2> DEFINE T == {e \in at..n : e = n \/ ~rows[e + 1].card}
  <2>1. T \subseteq Nat /\ n \in T
    BY <1>2
  <2>2. PICK e \in T : \A x \in T : e <= x
    <3> HIDE DEF T
    <3> QED BY <2>1, LeastElement
  <2>3. ASSUME NEW i \in at..e PROVE rows[i].card
    <3>1. CASE i = at
      BY <1>3, <3>1
    <3>2. CASE i # at
      <4>1. i - 1 \in at..n /\ i - 1 # n /\ ~(e <= i - 1) /\ (i - 1) + 1 = i
        <5>1. e \in at..n
          OBVIOUS
        <5> HIDE DEF T, n
        <5> QED BY <1>2, <3>2, <5>1
      <4>2. i - 1 \notin T
        BY <2>2, <4>1
      <4> QED BY <4>1, <4>2
    <3> QED BY <3>1, <3>2
  <2>4. e \in at..n /\ (e = n \/ ~rows[e + 1].card)
    OBVIOUS
  <2> HIDE DEF T
  <2>5. /\ EndOf(at) \in at..n /\ \A i \in at..EndOf(at) : rows[i].card
        /\ EndOf(at) = n \/ ~rows[EndOf(at) + 1].card
    BY <2>3, <2>4
  <2> HIDE DEF EndOf
  <2>6. EndOf(at) # at
    BY <1>3, <2>5
  <2> QED BY <1>2, <2>5, <2>6
<1> HIDE DEF EndOf
<1>4. ASSUME NEW m \in Nat, NEW f, NEW g, NEW at \in m..n, m >= 1,
             \A i \in (at + 1)..n : f[i] = g[i]
      PROVE  Body(f, at) = Body(g, at)
  <2>1. CASE at = n
    BY <2>1
  <2>2. CASE at # n
    <3>1. at + 1 \in (at + 1)..n /\ at \in 1..n
      <4> HIDE DEF n, Body
      <4> QED BY <1>2, <1>4, <2>2
    <3>2. rows[at].card /\ rows[at + 1].card => EndOf(at) \in (at + 1)..n
      BY <1>3, <2>2, <3>1
    <3> QED BY <1>4, <2>2, <3>1, <3>2
  <2> QED BY <2>1, <2>2
\* The function there is, from the last row to the first.
<1>5. \E f : f = [at \in 1..n |-> Body(f, at)]
  <2> DEFINE Follows(f, m) == f = [at \in m..n |-> Body(f, at)]
             good == {m \in 0..n : \E f : Follows(f, n - m + 1)}
  <2>1. 0 \in good
    <3> DEFINE f == [at \in {} |-> 0]
    <3>1. (n - 0 + 1)..n = {}
      BY <1>2
    <3>2. f = [at \in {} |-> Body(f, at)]
      OBVIOUS
    <3>3. Follows(f, n - 0 + 1)
      <4> HIDE DEF f, Body
      <4> QED BY <3>1, <3>2
    <3> HIDE DEF Follows, f
    <3> QED BY <1>2, <3>3
  <2>2. ASSUME NEW m \in 1..n, m - 1 \in good PROVE m \in good
    <3> DEFINE a == n - m + 1
    <3>1. n - (m - 1) + 1 = a + 1 /\ a \in 1..n
      BY <1>2
    <3>2. PICK f : Follows(f, a + 1)
      <4>1. \E f : Follows(f, n - (m - 1) + 1)
        <5> HIDE DEF Follows
        <5> QED BY <2>2
      <4> HIDE DEF Follows, a
      <4> QED BY <3>1, <4>1
    <3> DEFINE g == [at \in a..n |-> IF at = a THEN Body(f, a) ELSE f[at]]
    <3> HIDE DEF a
    <3>3. \A at \in (a + 1)..n : at \in a..n /\ g[at] = f[at] /\ f[at] = Body(f, at)
      <4>1. \A at \in (a + 1)..n : at \in a..n /\ at # a
        BY <1>2, <3>1
      <4>2. \A at \in (a + 1)..n : f[at] = Body(f, at)
        <5> HIDE DEF Body
        <5>1. f = [at \in (a + 1)..n |-> Body(f, at)]
          BY <3>2
        <5> QED BY <5>1
      <4> HIDE DEF Body
      <4> QED BY <4>1, <4>2
    <3>4. ASSUME NEW at \in a..n PROVE g[at] = Body(g, at)
      <4>1. \A i \in (at + 1)..n : i \in (a + 1)..n
        BY <1>2, <3>1
      <4>2. \A i \in (at + 1)..n : f[i] = g[i]
        <5> HIDE DEF g, Body
        <5> QED BY <3>3, <4>1
      <4>3. Body(f, at) = Body(g, at)
        <5> HIDE DEF g, Body
        <5> QED BY <1>4, <3>1, <4>2
      <4>4. at = a \/ at \in (a + 1)..n
        BY <1>2, <3>1
      <4>5. g[at] = Body(f, at)
        <5>1. CASE at = a
          <6> HIDE DEF Body
          <6> QED BY <5>1
        <5>2. CASE at \in (a + 1)..n
          <6> HIDE DEF g, Body
          <6> QED BY <3>3, <5>2
        <5> QED BY <4>4, <5>1, <5>2
      <4> HIDE DEF g, Body
      <4> QED BY <4>3, <4>5
    <3>5. g = [at \in a..n |-> g[at]]
      OBVIOUS
    <3>6. Follows(g, a)
      <4> HIDE DEF g, Body
      <4> QED BY <3>4, <3>5
    <3>7. \E h : Follows(h, n - m + 1)
      <4> HIDE DEF Follows, g
      <4> QED BY <3>6 DEF a
    <3> HIDE DEF Follows
    <3> QED BY <1>2, <3>7
  <2>3. n \in good
    <3> HIDE DEF good
    <3>1. \A m \in 0..n : m \in good
      BY <1>2, <2>1, <2>2, UpTo
    <3> QED BY <1>2, <3>1
  <2>4. n - n + 1 = 1
    BY <1>2
  <2>5. \E f : Follows(f, n - n + 1)
    <3> HIDE DEF Follows
    <3> QED BY <2>3
  <2>6. \E f : Follows(f, 1)
    <3> HIDE DEF Follows
    <3> QED BY <2>4, <2>5
  <2> HIDE DEF Body
  <2> QED BY <2>6
<1>6. from = [at \in 1..n |-> Body(from, at)]
  <2> HIDE DEF Body
  <2> QED BY <1>5
<1> HIDE DEF from
<1> DEFINE Fits(at) == /\ from[at] \in Seq(S) /\ Len(from[at]) = n - at
                       /\ \A i \in 1..(n - at) :
                            EdgeOf(world, from[at][i], rows[at + i - 1], rows[at + i])
<1>7. ASSUME NEW at \in 1..n, NEW left \in Seq(S), at + Len(left) <= n, Fits(at + Len(left)),
             \A i \in 1..Len(left) : EdgeOf(world, left[i], rows[at + i - 1], rows[at + i]),
             from[at] = left \o from[at + Len(left)]
      PROVE  Fits(at)
  <2> DEFINE c == Len(left)
             right == from[at + c]
  <2>1. c \in Nat /\ n - (at + c) \in Nat /\ n - at = c + (n - (at + c))
    <3>1. c \in Nat /\ at + c <= n /\ n \in Nat
      BY <1>2, <1>7, LenProperties
    <3> HIDE DEF c, n, Body, Fits
    <3> QED BY <1>7, <3>1
  <2>2. right \in Seq(S) /\ Len(right) = n - (at + c)
    BY <1>7
  <2>3. /\ left \o right \in Seq(S) /\ Len(left \o right) = c + Len(right)
        /\ \A i \in 1..(c + Len(right)) :
              (left \o right)[i] = IF i <= c THEN left[i] ELSE right[i - c]
    <3> HIDE DEF right, S
    <3> QED BY <2>2, ConcatProperties
  <2>4. ASSUME NEW i \in 1..(n - at)
        PROVE  EdgeOf(world, from[at][i], rows[at + i - 1], rows[at + i])
    <3>1. CASE i <= c
      <4>1. i \in 1..c /\ i \in 1..(c + Len(right))
        <5> HIDE DEF c, right, n
        <5> QED BY <1>2, <2>1, <2>2, <3>1
      <4>2. from[at][i] = left[i]
        BY <1>7, <2>3, <3>1, <4>1
      <4> QED BY <1>7, <4>1, <4>2
    <3>2. CASE ~(i <= c)
      <4> DEFINE k == i - c
      <4>1. /\ k \in 1..(n - (at + c)) /\ i \in 1..(c + Len(right))
            /\ (at + c) + k - 1 = at + i - 1 /\ (at + c) + k = at + i
        <5> HIDE DEF c, right, n
        <5> QED BY <1>2, <2>1, <2>2, <3>2
      <4>2. from[at][i] = right[k]
        BY <1>7, <2>3, <3>2, <4>1
      <4> HIDE DEF k
      <4>3. EdgeOf(world, right[k], rows[(at + c) + k - 1], rows[(at + c) + k])
        <5>1. Fits(at + c)
          BY <1>7
        <5> QED BY <4>1, <5>1
      <4> QED BY <4>1, <4>2, <4>3
    <3> QED BY <3>1, <3>2
  <2>5. from[at] \in Seq(S) /\ Len(from[at]) = n - at
    BY <1>7, <2>1, <2>2, <2>3
  <2> QED BY <2>4, <2>5
<1>8. ASSUME NEW at \in 1..n, \A i \in (at + 1)..n : Fits(i)
      PROVE  Fits(at)
  <2>1. from[at] = Body(from, at)
    <3> HIDE DEF Body
    <3> QED BY <1>6
  <2>2. CASE at = n
    <3>1. from[at] = <<>> /\ n - at = 0 /\ 1..(n - at) = {}
      BY <1>2, <2>1, <2>2
    <3>2. from[at] \in Seq(S) /\ Len(from[at]) = 0
      <4> HIDE DEF S
      <4> QED BY <3>1
    <3> QED BY <3>1, <3>2
  <2>3. CASE at # n /\ ~(rows[at].card /\ rows[at + 1].card)
    <3> DEFINE edge == [older |-> rows[at].build, newer |-> rows[at + 1].build, report |-> <<>>]
               left == <<edge>>
    <3>1. at + 1 \in (at + 1)..n /\ at + 1 \in 1..n /\ at + 1 - 1 = at
      <4> HIDE DEF n, Body, Fits
      <4> QED BY <1>2, <1>8, <2>3
    <3>2. edge \in S /\ EdgeOf(world, edge, rows[at], rows[at + 1])
      <4>1. rows[at].build \in B /\ rows[at + 1].build \in B
        BY <1>2, <3>1
      <4> QED BY <2>3, <4>1 DEF EdgeSet, EdgeOf, SidesAre
    <3>3. from[at] = left \o from[at + 1]
      BY <2>1, <2>3
    <3>4. Fits(at + 1)
      <4> HIDE DEF Fits
      <4> QED BY <1>8, <3>1
    <3> HIDE DEF edge, S
    <3>5. left \in Seq(S) /\ Len(left) = 1 /\ left[1] = edge
      BY <3>2
    <3> HIDE DEF left
    <3>6. \A i \in 1..Len(left) : EdgeOf(world, left[i], rows[at + i - 1], rows[at + i])
      <4> SUFFICES ASSUME NEW i \in 1..Len(left)
                   PROVE  EdgeOf(world, left[i], rows[at + i - 1], rows[at + i])
        OBVIOUS
      <4>1. i = 1
        BY <3>5
      <4> QED BY <3>1, <3>2, <3>5, <4>1
    <3>7. at + Len(left) <= n /\ at + Len(left) = at + 1
      BY <1>2, <3>1, <3>5
    <3>8. Fits(at + Len(left)) /\ from[at] = left \o from[at + Len(left)]
      <4> HIDE DEF Fits
      <4> QED BY <3>3, <3>4, <3>7
    <3> HIDE DEF Fits
    <3> QED BY <1>7, <3>5, <3>6, <3>7, <3>8
  <2>4. CASE at # n /\ rows[at].card /\ rows[at + 1].card
    <3> DEFINE e == EndOf(at)
               seg == SubSeq(rows, at, e)
               left == DriftSeries(world, seg)
    <3>1. at + 1 \in 1..n
      <4> HIDE DEF n, Body, Fits
      <4> QED BY <1>2, <1>8, <2>4
    <3>2. e \in (at + 1)..n /\ \A i \in at..e : rows[i].card
      BY <1>3, <2>4
    <3>3. from[at] = left \o from[e]
      BY <2>1, <2>4
    <3>4. Fits(e)
      <4> HIDE DEF Fits, e
      <4> QED BY <1>8, <3>2
    <3> HIDE DEF e
    <3>5. /\ at \in 1..n /\ e \in 1..n /\ at <= e /\ e - at + 1 \in Nat /\ e - at \in Nat
          /\ \A i \in 1..(e - at + 1) : at + i - 1 \in at..e /\ at + i - 1 \in 1..n
      BY <1>2, <3>2
    <3>6. seg \in Seq(R) /\ Len(seg) = e - at + 1 /\ DOMAIN seg = 1..(e - at + 1)
          /\ \A i \in 1..(e - at + 1) : seg[i] = rows[at + i - 1]
      <4>1. seg = [i \in 1..(e - at + 1) |-> rows[at + i - 1]]
        BY <3>5
      <4>2. seg = [i \in 1..(e - at + 1) |-> seg[i]] /\ \A i \in 1..(e - at + 1) : seg[i] \in R
        BY <1>2, <3>5, <4>1
      <4> HIDE DEF seg
      <4>3. seg \in Seq(R) /\ Len(seg) = e - at + 1 /\ DOMAIN seg = 1..(e - at + 1)
        BY <3>5, <4>2, MadeSeq
      <4> QED BY <4>1, <4>3
    <3> HIDE DEF seg
    <3>7. Len(seg) >= 1 /\ \A i \in DOMAIN seg : seg[i].card
      BY <3>2, <3>5, <3>6
    <3>8. /\ left \in Seq(S) /\ Len(left) = Len(seg) - 1
          /\ \A i \in 1..(Len(seg) - 1) : EdgeOf(world, left[i], seg[i], seg[i + 1])
      <4>1. \A row \in R : row.build \in B
        OBVIOUS
      <4> HIDE DEF B
      <4> QED BY <3>6, <3>7, <4>1, SeriesEdges
    <3> HIDE DEF left, S
    <3>9. Len(left) = e - at /\ at + Len(left) = e /\ at + Len(left) <= n
      BY <1>2, <3>2, <3>5, <3>6, <3>8
    <3>10. \A i \in 1..Len(left) : EdgeOf(world, left[i], rows[at + i - 1], rows[at + i])
      <4> SUFFICES ASSUME NEW i \in 1..(e - at)
                   PROVE  EdgeOf(world, left[i], rows[at + i - 1], rows[at + i])
        BY <3>9
      <4>1. /\ i \in 1..(e - at + 1) /\ i + 1 \in 1..(e - at + 1) /\ i \in 1..(Len(seg) - 1)
            /\ at + (i + 1) - 1 = at + i
        BY <3>5, <3>6
      <4>2. seg[i] = rows[at + i - 1] /\ seg[i + 1] = rows[at + i]
        BY <3>6, <4>1
      <4> QED BY <3>8, <4>1, <4>2
    <3>11. Fits(at + Len(left)) /\ from[at] = left \o from[at + Len(left)]
      <4> HIDE DEF Fits
      <4> QED BY <3>3, <3>4, <3>9
    <3> HIDE DEF Fits
    <3> QED BY <1>7, <3>8, <3>9, <3>10, <3>11
  <2> QED BY <2>2, <2>3, <2>4
<1>9. \A at \in 1..n : Fits(at)
  <2> DEFINE good == {m \in 0..n : \A at \in (n - m + 1)..n : Fits(at)}
  <2> HIDE DEF Fits
  <2>1. 0 \in good
    <3>1. (n - 0 + 1)..n = {}
      BY <1>2
    <3> QED BY <1>2, <3>1
  <2>2. ASSUME NEW m \in 1..n, m - 1 \in good PROVE m \in good
    <3> DEFINE a == n - m + 1
    <3>1. /\ n - (m - 1) + 1 = a + 1 /\ a \in 1..n /\ m \in 0..n
          /\ \A at \in a..n : at = a \/ at \in (a + 1)..n
      BY <1>2
    <3>2. \A at \in (n - (m - 1) + 1)..n : Fits(at)
      BY <2>2
    <3> HIDE DEF a
    <3>3. \A at \in (a + 1)..n : Fits(at)
      BY <3>1, <3>2
    <3>4. \A at \in a..n : Fits(at)
      BY <1>8, <3>1, <3>3
    <3> QED BY <3>1, <3>4 DEF a
  <2> HIDE DEF good
  <2>3. n \in good
    <3>1. \A m \in 0..n : m \in good
      BY <1>2, <2>1, <2>2, UpTo
    <3> QED BY <1>2, <3>1
  <2>4. n - n + 1 = 1
    BY <1>2
  <2> QED BY <2>3, <2>4 DEF good
<1> DEFINE edges == ConfigEdges(world, rows)
<1>10. CASE n > 1
  <2>1. 1 \in 1..n /\ n - 1 \in Nat /\ edges = from[1] /\ \A i \in 1..(n - 1) : 1 + i - 1 = i /\ 1 + i = i + 1
    BY <1>1, <1>2, <1>10
  <2>2. Fits(1)
    <3> HIDE DEF Fits
    <3> QED BY <1>9, <2>1
  <2> HIDE DEF edges, S
  <2>3. DOMAIN edges = 1..(n - 1)
    BY <2>1, <2>2, LenProperties
  <2>4. ASSUME NEW i \in 1..(n - 1) PROVE EdgeOf(world, edges[i], rows[i], rows[i + 1])
    <3>1. EdgeOf(world, from[1][i], rows[1 + i - 1], rows[1 + i])
      BY <2>2
    <3> QED BY <2>1, <3>1
  <2> QED BY <2>3, <2>4 DEF edges
<1>11. CASE ~(n > 1)
  <2>1. edges = <<>> /\ 1..(n - 1) = {}
    BY <1>1, <1>2, <1>11
  <2> HIDE DEF edges
  <2>2. DOMAIN edges = {}
    BY <2>1
  <2> QED BY <2>1, <2>2 DEF edges
<1> QED BY <1>10, <1>11

\* Whether two configs can be compared does not depend on which is named first.
LEMMA BetweenBoth ==
  ASSUME NEW world, NEW a, NEW b
  PROVE  Between(world, a, b) = <<>> <=> Between(world, b, a) = <<>>
BY DEF Between

\* The edges are those of a list of builds that the page can name, each once.
EdgesFit(world, pairs, list, len) ==
    /\ \A i, j \in 1..len : list[i].build = list[j].build => i = j
    /\ \A i \in 1..len : list[i].build \in ToSet(KnownBuilds(world).ids)
    /\ \A i \in DOMAIN pairs :
          i \in 1..(len - 1) /\ EdgeOf(world, pairs[i], list[i], list[i + 1])

\* x and y stand at the k-th place and the next, one way round or the other.
Beside(list, k, x, y) ==
    \/ x = list[k].build /\ y = list[k + 1].build
    \/ x = list[k + 1].build /\ y = list[k].build

\* What a door shows is the comparison it is the door of, and there is only one.
LEMMA DoorOpens ==
  ASSUME NEW len \in Nat, NEW list, NEW pairs, NEW world, EdgesFit(world, pairs, list, len),
         NEW at \in DOMAIN pairs, pairs[at].report # <<>>, NEW x, NEW y, Beside(list, at, x, y)
  PROVE  /\ ToSet(Directed(pairs, x, y)) = {x, y}
         /\ Opened(world, Directed(pairs, x, y)) = pairs[at].report
<1> DEFINE e == pairs[at]
           door == Directed(pairs, x, y)
<1>1. door = <<e.older, e.newer>>
  <2> DEFINE read == {one \in ToSet(pairs) : one.report # <<>> /\ {one.older, one.newer} = {x, y}}
             Build(i) == list[i].build
  <2>1. \A i \in 1..(len - 1) : i \in 1..len /\ i + 1 \in 1..len
    OBVIOUS
  <2>2. \A i \in DOMAIN pairs :
           i \in 1..(len - 1) /\ {pairs[i].older, pairs[i].newer} = {Build(i), Build(i + 1)}
    BY DEF EdgesFit, EdgeOf, SidesAre
  <2>3. \A i, j \in 1..len : Build(i) = Build(j) => i = j
    BY <2>1 DEF EdgesFit
  <2>4. {x, y} = {Build(at), Build(at + 1)}
    BY DEF Beside
  <2> HIDE DEF Build
  <2>5. pairs[at] \in read
    BY <2>2, <2>4 DEF ToSet
  <2>6. ASSUME NEW one \in read PROVE one = pairs[at]
    <3>1. PICK i \in DOMAIN pairs : one = pairs[i]
      BY DEF ToSet
    <3>2. {Build(i), Build(i + 1)} = {Build(at), Build(at + 1)}
      BY <2>2, <2>4, <3>1
    <3>3. i \in 1..len /\ i + 1 \in 1..len /\ at \in 1..len /\ at + 1 \in 1..len
      BY <2>1, <2>2
    <3>4. i \in {at, at + 1} /\ i + 1 \in {at, at + 1}
      BY <2>3, <3>2, <3>3
    <3>5. i = at
      BY <2>1, <3>3, <3>4
    <3> QED BY <3>1, <3>5
  <2>7. door = IF read = {} THEN <<x, y>>
               ELSE LET one == CHOOSE one \in read : TRUE IN <<one.older, one.newer>>
    BY DEF Directed
  <2> HIDE DEF read
  <2>8. (CHOOSE one \in read : TRUE) = pairs[at] /\ read # {}
    BY <2>5, <2>6
  <2> QED BY <2>7, <2>8
<1>2. {e.older, e.newer} = {x, y} /\ e.report = Between(world, e.older, e.newer)
  <2>1. EdgeOf(world, pairs[at], list[at], list[at + 1])
    BY DEF EdgesFit
  <2> QED BY <2>1 DEF EdgeOf, SidesAre, Beside
<1>3. {x, y} \subseteq ToSet(KnownBuilds(world).ids)
  <2>1. at \in 1..len /\ at + 1 \in 1..len
    BY DEF EdgesFit
  <2> QED BY <2>1 DEF EdgesFit, Beside
<1> HIDE DEF e, door
<1>4. ToSet(door) = {e.older, e.newer}
  BY <1>1 DEF ToSet
<1>5. Opened(world, door) = Between(world, door[1], door[2])
  BY <1>2, <1>3, <1>4 DEF Opened
<1>6. door[1] = e.older /\ door[2] = e.newer
  BY <1>1
<1> QED BY <1>2, <1>4, <1>5, <1>6 DEF e, door

\* What an arm says, and what the page behind it shows.
TrueArm(rows, world, delta, at, side) ==
    LET edges == ConfigEdges(world, Upto(rows, delta))
        picks == Picks(rows, edges)
        arm   == Arm(picks, edges, at, side, delta)
        other == IF side = "up" THEN at - 1 ELSE at + 1
        low   == IF side = "up" THEN other ELSE at
    IN  /\ arm.says = "number" =>
             /\ ToSet(arm.door) = {rows[at].build, rows[other].build}
             /\ Opened(world, arm.door) # <<>>
             /\ Numbers(Opened(world, arm.door)[1]) = arm.number
        /\ arm.says = "number" <=>
             /\ low >= 1 /\ low + 1 <= Len(rows) /\ low + 1 <= delta
             /\ rows[low].card /\ rows[low + 1].card
             /\ Between(world, rows[low].build, rows[low + 1].build) # <<>>

\* The arms of any list of builds the page can name, each once, are true.
LEMMA ArmsOpen ==
  ASSUME NEW R, NEW rows \in Seq(R), NEW world, NEW delta \in Nat,
         \A row \in R : row.card \in BOOLEAN /\ row.build \in ToSet(KnownBuilds(world).ids),
         \A i, j \in DOMAIN rows : rows[i].build = rows[j].build => i = j,
         NEW at \in DOMAIN rows, NEW side \in {"up", "down"}
  PROVE  TrueArm(rows, world, delta, at, side)
<1> DEFINE n == Len(rows)
           head == Upto(rows, delta)
           m == IF delta < n THEN delta ELSE n
           edges == ConfigEdges(world, head)
           picks == Picks(rows, edges)
           arm   == Arm(picks, edges, at, side, delta)
           other == IF side = "up" THEN at - 1 ELSE at + 1
           low   == IF side = "up" THEN other ELSE at
           pair  == Delta(edges, low)
           door  == Directed(edges, rows[at].build, rows[other].build)
<1>1. n \in Nat /\ DOMAIN rows = 1..n /\ \A i \in 1..n : rows[i] \in R
  BY LenProperties
<1>2. m \in Nat /\ m <= n /\ m <= delta /\ \A i \in Int : i <= n /\ i <= delta => i <= m
  BY <1>1
<1>3. head \in Seq(R) /\ Len(head) = m /\ \A i \in 1..m : head[i] = rows[i]
  <2>1. head = SubSeq(rows, 1, m)
    BY DEF Upto
  <2> HIDE DEF m, head
  <2>2. head = [i \in 1..m |-> rows[i]]
    BY <1>1, <1>2, <2>1
  <2>3. head = [i \in 1..m |-> head[i]] /\ \A i \in 1..m : head[i] \in R
    BY <1>1, <1>2, <2>2
  <2> QED BY <1>2, <2>2, <2>3, MadeSeq
<1> HIDE DEF n, m, head
<1>4. /\ DOMAIN edges = 1..(m - 1)
      /\ \A i \in DOMAIN edges : EdgeOf(world, edges[i], rows[i], rows[i + 1])
  <2>1. /\ DOMAIN edges = 1..(Len(head) - 1)
        /\ \A i \in DOMAIN edges : EdgeOf(world, edges[i], head[i], head[i + 1])
    BY <1>3, EdgesAre
  <2>2. \A i \in 1..(m - 1) : i \in 1..m /\ i + 1 \in 1..m
    BY <1>2
  <2> HIDE DEF edges
  <2> QED BY <1>3, <2>1, <2>2
<1> HIDE DEF edges
<1>5. /\ at \in 1..n /\ other \in Int /\ low \in Int
      /\ {at, other} = {low, low + 1}
  BY <1>1
<1>6. DOMAIN picks = DOMAIN rows /\ Len(picks) = n
      /\ \A i \in DOMAIN rows : picks[i] = [build |-> rows[i].build, up |-> Delta(edges, i - 1),
                                            down |-> Delta(edges, i)]
  BY <1>1, LenProperties DEF Picks, n
<1>7. low \in DOMAIN edges <=> low >= 1 /\ low + 1 <= n /\ low + 1 <= delta
  <2> HIDE DEF other, low
  <2>1. low \in DOMAIN edges <=> low >= 1 /\ low + 1 <= m
    BY <1>2, <1>4, <1>5
  <2>2. low + 1 <= m <=> low + 1 <= n /\ low + 1 <= delta
    BY <1>1, <1>2, <1>5
  <2> QED BY <2>1, <2>2
<1>8. pair # <<>> <=> low \in DOMAIN edges /\ edges[low].report # <<>>
  BY DEF Delta
<1>9. low \in DOMAIN edges =>
        (edges[low].report # <<>> <=> /\ rows[low].card /\ rows[low + 1].card
                                      /\ Between(world, rows[low].build, rows[low + 1].build) # <<>>)
  <2> SUFFICES ASSUME low \in DOMAIN edges
               PROVE  edges[low].report # <<>> <=>
                        /\ rows[low].card /\ rows[low + 1].card
                        /\ Between(world, rows[low].build, rows[low + 1].build) # <<>>
    OBVIOUS
  <2> DEFINE e == edges[low]
             a == rows[low]
             b == rows[low + 1]
  <2>1. EdgeOf(world, e, a, b)
    BY <1>4
  <2> HIDE DEF e, a, b
  <2>2. e.report # <<>> <=> a.card /\ b.card /\ Between(world, a.build, b.build) # <<>>
    <3>1. (e.older = a.build /\ e.newer = b.build) \/ (e.older = b.build /\ e.newer = a.build)
      <4>1. {e.older, e.newer} = {a.build, b.build}
        BY <2>1 DEF EdgeOf, SidesAre
      <4> DEFINE p == e.older
                 q == e.newer
                 c == a.build
                 d == b.build
      <4>2. {p, q} = {c, d}
        BY <4>1
      <4> HIDE DEF p, q, c, d
      <4>3. p \in {c, d} /\ q \in {c, d} /\ c \in {p, q} /\ d \in {p, q}
        BY <4>2
      <4>4. (p = c /\ q = d) \/ (p = d /\ q = c)
        BY <4>3
      <4> QED BY <4>4 DEF p, q, c, d
    <3>2. Between(world, e.older, e.newer) = <<>> <=> Between(world, a.build, b.build) = <<>>
      BY <3>1, BetweenBoth
    <3> QED BY <2>1, <3>2 DEF EdgeOf, SidesAre
  <2> QED BY <2>2 DEF e, a, b
<1> DEFINE own == IF side = "up" THEN picks[at].up ELSE picks[at].down
<1>10. own = pair /\ picks[at].build = rows[at].build
  BY <1>6
<1>11. ASSUME pair # <<>> PROVE picks[other].build = rows[other].build
  <2>1. low \in 1..n /\ low + 1 \in 1..n
    <3> HIDE DEF other, low
    <3> QED BY <1>1, <1>5, <1>7, <1>8, <1>11
  <2>2. other \in 1..n
    BY <2>1
  <2> QED BY <1>1, <1>6, <2>2
<1>12. arm = IF pair # <<>> THEN [says |-> "number", number |-> pair[1],
                                  door |-> Directed(edges, picks[at].build, picks[other].build)]
             ELSE arm
  <2> HIDE DEF picks, pair
  <2> QED BY <1>10 DEF Arm
<1>13. arm.says = "number" <=> pair # <<>>
  <2> HIDE DEF picks, pair
  <2> QED BY <1>10 DEF Arm
<1> HIDE DEF arm, picks
<1>14. ASSUME pair # <<>>
       PROVE  /\ ToSet(arm.door) = {rows[at].build, rows[other].build}
              /\ Opened(world, arm.door) # <<>>
              /\ Numbers(Opened(world, arm.door)[1]) = arm.number
  <2> DEFINE e == edges[low]
  <2>1. arm.number = pair[1] /\ arm.door = door
    BY <1>10, <1>11, <1>12, <1>14
  <2>2. low \in DOMAIN edges /\ e.report # <<>> /\ pair[1] = Numbers(e.report[1])
    BY <1>8, <1>14 DEF Delta
  <2>3. {rows[at].build, rows[other].build} = {rows[low].build, rows[low + 1].build}
    OBVIOUS
  <2>4. \A i \in DOMAIN edges :
           i \in 1..(n - 1) /\ EdgeOf(world, edges[i], rows[i], rows[i + 1])
    <3>1. \A i \in 1..(m - 1) : i \in 1..(n - 1)
      <4> HIDE DEF other, low
      <4> QED BY <1>1, <1>2
    <3> QED BY <1>4, <3>1
  <2>5. \/ rows[at].build = rows[low].build /\ rows[other].build = rows[low + 1].build
        \/ rows[at].build = rows[low + 1].build /\ rows[other].build = rows[low].build
    <3>1. (at = low /\ other = low + 1) \/ (at = low + 1 /\ other = low)
      BY <1>1
    <3> HIDE DEF other, low
    <3> QED BY <3>1
  <2>6. /\ ToSet(door) = {rows[at].build, rows[other].build}
        /\ Opened(world, door) = edges[low].report
    <3> DEFINE x == rows[at].build
               y == rows[other].build
               l == low
    <3>1. n \in Nat /\ l \in DOMAIN edges /\ edges[l].report # <<>>
      BY <1>1, <2>2
    <3>2. EdgesFit(world, edges, rows, n)
      BY <1>1, <2>4 DEF EdgesFit
    <3>3. Beside(rows, l, x, y)
      BY <2>5 DEF Beside
    <3> HIDE DEF x, y, l
    <3>4. /\ ToSet(Directed(edges, x, y)) = {x, y}
          /\ Opened(world, Directed(edges, x, y)) = edges[l].report
      BY <3>1, <3>2, <3>3, DoorOpens
    <3> QED BY <3>4 DEF x, y, l
  <2> HIDE DEF e, door, pair, other
  <2> QED BY <2>1, <2>2, <2>6 DEF e
<1>15. /\ arm.says = "number" =>
            /\ ToSet(arm.door) = {rows[at].build, rows[other].build}
            /\ Opened(world, arm.door) # <<>>
            /\ Numbers(Opened(world, arm.door)[1]) = arm.number
       /\ arm.says = "number" <=>
            /\ low >= 1 /\ low + 1 <= n /\ low + 1 <= delta
            /\ rows[low].card /\ rows[low + 1].card
            /\ Between(world, rows[low].build, rows[low + 1].build) # <<>>
  <2> HIDE DEF pair, other, low
  <2> QED BY <1>7, <1>8, <1>9, <1>13, <1>14
<1> QED BY <1>15 DEF TrueArm, arm, picks, edges, head, n

-----------------------------------------------------------------------------
(* Putting rows in order only moves them.                                  *)

\* An order names keys and directions.
Keyed == SortKeys \X {"asc", "desc"}

\* A whole value that stands for an order stands for keys with directions.
LEMMA AliasesAre == \A words : Aliases(words) \in Seq(Keyed)
<1> SUFFICES ASSUME NEW words PROVE Aliases(words) \in Seq(Keyed)
  OBVIOUS
<1> DEFINE one == NewestFirst
           two == << <<"date", "asc">> >>
           three == << <<"id", "asc">> >>
           four == << <<"tree-branch", "asc">>, <<"date", "desc">> >>
           five == << <<"verdict", "asc">>, <<"date", "desc">> >>
<1>1. /\ one \in Seq(Keyed) /\ two \in Seq(Keyed) /\ three \in Seq(Keyed) /\ four \in Seq(Keyed)
      /\ five \in Seq(Keyed) /\ <<>> \in Seq(Keyed)
  BY DEF NewestFirst, Keyed, SortKeys
<1>2. Aliases(words) \in {one, two, three, four, five, <<>>}
  <2> HIDE DEF one
  <2> QED BY DEF Aliases, one
<1> HIDE DEF one, two, three, four, five
<1> QED BY <1>1, <1>2

\* So is every order, whatever words a reader wrote.
LEMMA OrderIs ==
  ASSUME NEW words \in Seq(STRING \X STRING)
  PROVE  SortOrder(words) \in Seq(Keyed)
<1> DEFINE first == {i \in DOMAIN words : /\ words[i][1] \in SortKeys
                                          /\ \A j \in 1..(i - 1) : words[j][1] # words[i][1]}
           named == Those(words, first)
           read  == [k \in DOMAIN named |->
                       <<named[k][1], IF named[k][2] \in {"asc", "desc"} THEN named[k][2]
                                      ELSE DirOf(named[k][1])>>]
<1>1. NewestFirst \in Seq(Keyed)
  BY DEF NewestFirst, Keyed, SortKeys
<1>2. first \subseteq DOMAIN words /\ \A i \in first : words[i][1] \in SortKeys
  OBVIOUS
<1>3. SortOrder(words) \in {Aliases(words), NewestFirst, read}
  BY DEF SortOrder
<1> HIDE DEF first
<1>4. named \in Seq(STRING \X STRING) /\ ToSet(named) = {words[i] : i \in first}
  BY <1>2, ThoseHold
<1>5. \A k \in DOMAIN named : named[k][1] \in SortKeys
  <2> HIDE DEF named
  <2> SUFFICES ASSUME NEW k \in DOMAIN named PROVE named[k][1] \in SortKeys
    OBVIOUS
  <2>1. named[k] \in {words[i] : i \in first}
    BY <1>4 DEF ToSet
  <2> QED BY <1>2, <2>1
<1> DEFINE n == Len(named)
<1>6. n \in Nat /\ DOMAIN named = 1..n
  BY <1>4, LenProperties
<1> HIDE DEF named, n
<1>7. \A k \in 1..n : read[k] \in Keyed
  <2> SUFFICES ASSUME NEW k \in 1..n PROVE read[k] \in Keyed
    OBVIOUS
  <2>1. DirOf(named[k][1]) \in {"asc", "desc"}
    BY DEF DirOf
  <2> QED BY <1>5, <1>6, <2>1 DEF Keyed
<1>8. read = [k \in 1..n |-> read[k]]
  BY <1>6
<1> HIDE DEF read
<1>9. read \in Seq(Keyed)
  BY <1>6, <1>7, <1>8, MadeSeq
<1> QED BY <1>1, <1>3, <1>9, AliasesAre

\* What a page compares its rows by is two numbers, the second for keys with a tie.
Cells(row) == /\ row.build \in Int /\ row.created \in Int /\ row.tree \in Int
              /\ row.branch \in Int /\ row.series \in Int

\* Two numbers and the place a row was in order the rows.
LEMMA LexOrder ==
  ASSUME NEW D, D \subseteq Nat, NEW p \in [D -> Int], NEW q \in [D -> Int], NEW R, R \subseteq D \X D,
         \A i, j \in D : <<i, j>> \in R <=>
            \/ p[i] < p[j]
            \/ p[i] = p[j] /\ q[i] < q[j]
            \/ p[i] = p[j] /\ q[i] = q[j] /\ i < j
  PROVE  IsOrder(R, D)
<1>1. \A i \in D : i \in Nat /\ p[i] \in Int /\ q[i] \in Int
  OBVIOUS
<1>2. \A i \in D : <<i, i>> \notin R
  BY <1>1
<1>3. \A i, j \in D : i # j => (<<i, j>> \in R <=> <<j, i>> \notin R)
  BY <1>1
<1>4. \A i, j, k \in D : <<i, j>> \in R /\ <<j, k>> \in R => <<i, k>> \in R
  BY <1>1
<1> QED BY <1>2, <1>3, <1>4 DEF IsOrder

\* A verdict, known or not, has a place.
LEMMA RankIs == \A verdict : RankOf(verdict) \in Int
<1> SUFFICES ASSUME NEW verdict PROVE RankOf(verdict) \in Int
  OBVIOUS
<1> DEFINE ranks == VerdictRanks
<1>1. DOMAIN ranks = 1..5 /\ Len(ranks) = 5
  BY DEF VerdictRanks
<1> HIDE DEF ranks
<1>2. RankOf(verdict) = IF Contains(ranks, verdict)
                        THEN CHOOSE i \in DOMAIN ranks : ranks[i] = verdict ELSE Len(ranks) + 1
  BY DEF RankOf, ranks
<1>3. Contains(ranks, verdict) => \E i \in DOMAIN ranks : ranks[i] = verdict
  BY <1>1 DEF Contains
<1> QED BY <1>1, <1>2, <1>3

\* The keys with a tie to break.
Doubles == {"tree-branch", "date"}

\* A row says one number or two of any key.
LEMMA CellIs ==
  ASSUME NEW row, Cells(row), NEW name \in SortKeys
  PROVE  \E a, b \in Int : SortCell(row, name) = IF name \in Doubles THEN <<a, b>> ELSE <<a>>
<1>1. RankOf(row.verdict) \in Int
  BY RankIs
<1>2. CASE name = "tree-branch"
  BY <1>2 DEF SortCell, Cells, Doubles
<1>3. CASE name = "verdict"
  BY <1>1, <1>3 DEF SortCell, Cells, Doubles
<1>4. CASE name = "id"
  BY <1>4 DEF SortCell, Cells, Doubles
<1>5. CASE name = "date"
  BY <1>5 DEF SortCell, Cells, Doubles
<1>6. CASE name \in {"tree", "branch", "series"}
  BY <1>6 DEF SortCell, Cells, Doubles
<1> QED BY <1>2, <1>3, <1>4, <1>5, <1>6 DEF SortKeys

\* They are compared from the left.
LEMMA LessIs ==
  ASSUME NEW a \in Int, NEW b \in Int, NEW c \in Int, NEW d \in Int
  PROVE  /\ Less(<<a>>, <<c>>) <=> a < c
         /\ Less(<<a, b>>, <<c, d>>) <=> a < c \/ (a = c /\ b < d)
<1> DEFINE x == <<a>>
           y == <<c>>
           u == <<a, b>>
           v == <<c, d>>
<1>1. DOMAIN x = {1} /\ x[1] = a /\ y[1] = c /\ DOMAIN u = {1, 2} /\ u[1] = a /\ u[2] = b /\ v[1] = c /\ v[2] = d
  OBVIOUS
<1>2. 1..(1 - 1) = {} /\ 1..(2 - 1) = {1}
  OBVIOUS
<1> HIDE DEF x, y, u, v
<1>3. Less(x, y) <=> a < c
  BY <1>1, <1>2 DEF Less
<1>4. Less(u, v) <=> a < c \/ (a = c /\ b < d)
  BY <1>1, <1>2 DEF Less
<1> QED BY <1>3, <1>4 DEF x, y, u, v

\* Sorting by one key only moves rows.
LEMMA SortByMoves ==
  ASSUME NEW S, \A row \in S : Cells(row), NEW rows \in Seq(S), NEW key \in Keyed
  PROVE  LET sorted == SortBy(rows, key[1], key[2])
         IN  /\ sorted \in Seq(S) /\ ToSet(sorted) = ToSet(rows)
             /\ (\A i, j \in DOMAIN rows : rows[i] = rows[j] => i = j) =>
                  \A i, j \in DOMAIN sorted : sorted[i] = sorted[j] => i = j
<1> DEFINE name == key[1]
           dir == key[2]
           D == DOMAIN rows
           cell == [i \in D |-> SortCell(rows[i], name)]
           Fits(i, a) == SortCell(rows[i], name) = IF name \in Doubles THEN <<a[1], a[2]>> ELSE <<a[1]>>
           at == [i \in D |-> CHOOSE a \in Int \X Int : Fits(i, a)]
           p == [i \in D |-> IF dir = "asc" THEN at[i][1] ELSE 0 - at[i][1]]
           q == [i \in D |-> IF name \notin Doubles THEN 0 ELSE IF dir = "asc" THEN at[i][2] ELSE 0 - at[i][2]]
           R == {pq \in D \X D :
                   \/ dir = "asc"  /\ Less(cell[pq[1]], cell[pq[2]])
                   \/ dir = "desc" /\ Less(cell[pq[2]], cell[pq[1]])
                   \/ cell[pq[1]] = cell[pq[2]] /\ pq[1] < pq[2]}
<1>1. name \in SortKeys /\ dir \in {"asc", "desc"}
  BY DEF Keyed
<1>2. D \subseteq Nat /\ \A i \in D : rows[i] \in S
  BY LenProperties
<1> HIDE DEF name, dir, D
<1>3. ASSUME NEW i \in D PROVE at[i] \in Int \X Int /\ Fits(i, at[i])
  <2>1. PICK a, b \in Int : SortCell(rows[i], name) = IF name \in Doubles THEN <<a, b>> ELSE <<a>>
    BY <1>1, <1>2, CellIs
  <2> DEFINE ab == <<a, b>>
  <2>2. ab \in Int \X Int /\ ab[1] = a /\ ab[2] = b
    OBVIOUS
  <2> HIDE DEF ab
  <2>3. Fits(i, ab)
    BY <2>1, <2>2
  <2> HIDE DEF Fits
  <2> QED BY <2>2, <2>3
<1> HIDE DEF at
<1>4. p \in [D -> Int] /\ q \in [D -> Int]
  <2>1. \A i \in D : at[i][1] \in Int /\ at[i][2] \in Int
    BY <1>3
  <2> QED BY <2>1
<1>5. ASSUME NEW i \in D, NEW j \in D
      PROVE  /\ cell[i] = cell[j] <=> p[i] = p[j] /\ q[i] = q[j]
             /\ Less(cell[i], cell[j]) <=>
                  IF dir = "asc" THEN p[i] < p[j] \/ (p[i] = p[j] /\ q[i] < q[j])
                  ELSE p[j] < p[i] \/ (p[j] = p[i] /\ q[j] < q[i])
  <2> DEFINE a == at[i][1]
             b == at[i][2]
             c == at[j][1]
             d == at[j][2]
  <2>1. a \in Int /\ b \in Int /\ c \in Int /\ d \in Int
    BY <1>3
  <2>2. /\ cell[i] = IF name \in Doubles THEN <<a, b>> ELSE <<a>>
        /\ cell[j] = IF name \in Doubles THEN <<c, d>> ELSE <<c>>
    BY <1>3
  <2>3. /\ p[i] = IF dir = "asc" THEN a ELSE 0 - a
        /\ q[i] = IF name \notin Doubles THEN 0 ELSE IF dir = "asc" THEN b ELSE 0 - b
        /\ p[j] = IF dir = "asc" THEN c ELSE 0 - c
        /\ q[j] = IF name \notin Doubles THEN 0 ELSE IF dir = "asc" THEN d ELSE 0 - d
    OBVIOUS
  <2> HIDE DEF a, b, c, d, cell, p, q
  <2>4. CASE name \in Doubles
    <3>1. cell[i] = <<a, b>> /\ cell[j] = <<c, d>>
      BY <2>2, <2>4
    <3>2. Less(cell[i], cell[j]) <=> a < c \/ (a = c /\ b < d)
      <4>1. Less(<<a, b>>, <<c, d>>) <=> a < c \/ (a = c /\ b < d)
        BY ONLY <2>1, LessIs
      <4> QED BY ONLY <3>1, <4>1, Zenon
    <3>3. cell[i] = cell[j] <=> a = c /\ b = d
      BY <3>1
    <3> QED BY <2>1, <2>3, <2>4, <3>2, <3>3
  <2>5. CASE name \notin Doubles
    <3>1. cell[i] = <<a>> /\ cell[j] = <<c>>
      BY <2>2, <2>5
    <3>2. Less(cell[i], cell[j]) <=> a < c
      <4>1. Less(<<a>>, <<c>>) <=> a < c
        BY ONLY <2>1, LessIs
      <4> QED BY ONLY <3>1, <4>1, Zenon
    <3>3. cell[i] = cell[j] <=> a = c
      BY <3>1
    <3> QED BY <2>1, <2>3, <2>5, <3>2, <3>3
  <2> QED BY <2>4, <2>5
<1>6. SortBy(rows, name, dir) = Arranged(rows, R)
  BY DEF SortBy, D
<1> HIDE DEF cell, p, q
<1>7. R \subseteq D \X D /\ \A i, j \in D : <<i, j>> \in R <=>
            \/ p[i] < p[j]
            \/ p[i] = p[j] /\ q[i] < q[j]
            \/ p[i] = p[j] /\ q[i] = q[j] /\ i < j
  <2>1. ASSUME NEW i \in D, NEW j \in D
        PROVE  <<i, j>> \in R <=>
                 \/ dir = "asc"  /\ Less(cell[i], cell[j])
                 \/ dir = "desc" /\ Less(cell[j], cell[i])
                 \/ cell[i] = cell[j] /\ i < j
    OBVIOUS
  <2>2. R \subseteq D \X D
    OBVIOUS
  <2> HIDE DEF R
  <2> QED BY <1>1, <1>5, <2>1, <2>2
<1> HIDE DEF R
<1>8. IsOrder(R, D)
  BY <1>2, <1>4, <1>7, LexOrder
<1> QED BY <1>6, <1>8, ArrangedHold DEF name, dir, D

\* The rows in any order.
Moved(S, rows) ==
    {t \in Seq(S) : ToSet(t) = ToSet(rows) /\ \A i, j \in DOMAIN t : t[i] = t[j] => i = j}

Move(sorted, key) == SortBy(sorted, key[1], key[2])

\* Sorting by every key of an order only moves rows.
LEMMA SortRowsMoves ==
  ASSUME NEW S, \A row \in S : Cells(row), NEW rows \in Seq(S), NEW order \in Seq(Keyed),
         \A i, j \in DOMAIN rows : rows[i] = rows[j] => i = j
  PROVE  SortRows(rows, order) \in Moved(S, rows)
<1> DEFINE h == Reverse(order)
           n == Len(h)
           M == Moved(S, rows)
           turn == [i \in 1..n |-> [t \in M |-> Move(t, h[i])]]
           Follows(it) == it = [s \in SUBSET (1..n) |->
                                   IF s = {} THEN rows ELSE Move(it[s \ {Max(s)}], h[Max(s)])]
           fold == CHOOSE it : Follows(it)
<1>1. n \in Nat /\ DOMAIN h = 1..n /\ \A i \in 1..n : h[i] \in Keyed
  <2>1. h = [k \in 1..Len(order) |-> h[k]]
    BY DEF Reverse
  <2>2. Len(order) \in Nat /\ \A k \in 1..Len(order) : h[k] \in Keyed
    <3>1. ASSUME NEW k \in 1..Len(order) PROVE h[k] \in Keyed
      <4>1. Len(order) - k + 1 \in 1..Len(order)
        BY LenProperties
      <4> QED BY <4>1, LenProperties DEF Reverse
    <3> QED BY <3>1, LenProperties
  <2> HIDE DEF h
  <2>3. h \in Seq(Keyed)
    BY <2>1, <2>2, MadeSeq
  <2> QED BY <2>3, LenProperties
<1>2. rows \in M
  BY DEF Moved
<1>3. \A t \in M, key \in Keyed : Move(t, key) \in M
  BY SortByMoves DEF Moved, Move
<1> HIDE DEF M
<1>4. turn \in [1..n -> [M -> M]]
  <2>1. \A i \in 1..n, t \in M : Move(t, h[i]) \in M
    BY <1>1, <1>3
  <2> QED BY <2>1
<1>5. SortRows(rows, order) = fold[1..n]
  BY <1>1 DEF SortRows, FoldLeft, MapThenFoldSet, Move
<1>6. \E it : Follows(it)
  <2>1. turn \in [1..n -> [M -> M]] /\ rows \in M /\ n \in Nat
    BY <1>1, <1>2, <1>4
  <2>2. ASSUME NEW i \in 1..n, NEW t \in M PROVE turn[i][t] = Move(t, h[i])
    OBVIOUS
  <2>3. turn \in Turns(n, M)
    BY <2>1 DEF Turns
  <2> HIDE DEF turn, n, h, Follows
  <2>4. PICK it : Folds(it, M, rows, n, turn)
    BY <2>1, <2>3, FoldRuns
  <2>5. /\ it \in [SUBSET (1..n) -> M]
        /\ \A s \in SUBSET (1..n) :
             it[s] = IF s = {} THEN rows ELSE turn[Max(s)][it[s \ {Max(s)}]]
    BY <2>4 DEF Folds
  <2>6. ASSUME NEW s \in SUBSET (1..n)
        PROVE  it[s] = IF s = {} THEN rows ELSE Move(it[s \ {Max(s)}], h[Max(s)])
    <3>1. CASE s = {}
      BY <2>5, <3>1
    <3>2. CASE s # {}
      <4>1. Max(s) \in 1..n
        BY <2>1, <3>2, MaxIs
      <4>2. it[s \ {Max(s)}] \in M
        BY <2>5
      <4> QED BY <2>2, <2>5, <3>2, <4>1, <4>2
    <3> QED BY <3>1, <3>2
  <2>7. Follows(it)
    <3>1. it = [s \in SUBSET (1..n) |-> it[s]]
      BY <2>5
    <3> QED BY <2>6, <3>1 DEF Follows
  <2> QED BY <2>7
<1>7. Follows(fold)
  <2> HIDE DEF Follows
  <2> QED BY <1>6
<1> HIDE DEF fold, n, h
<1>8. fold[{}] = rows /\ \A m \in 1..n : fold[1..m] = Move(fold[1..(m - 1)], h[m])
  <2>1. \A s \in SUBSET (1..n) :
          fold[s] = IF s = {} THEN rows ELSE Move(fold[s \ {Max(s)}], h[Max(s)])
    BY <1>7
  <2>2. ASSUME NEW m \in 1..n PROVE fold[1..m] = Move(fold[1..(m - 1)], h[m])
    <3>1. m \in Nat /\ m # 0 /\ 1..m \in SUBSET (1..n)
      BY <1>1
    <3>2. Max(1..m) = m /\ (1..m) \ {m} = 1..(m - 1) /\ 1..m # {}
      BY <3>1, MaxUpTo
    <3> HIDE DEF Follows
    <3> QED BY <2>1, <3>1, <3>2
  <2>3. {} \in SUBSET (1..n)
    OBVIOUS
  <2> HIDE DEF Follows
  <2> QED BY <2>1, <2>2, <2>3
<1> HIDE DEF Follows
<1>9. \A m \in 0..n : fold[1..m] \in M
  <2> DEFINE good == {m \in 0..n : fold[1..m] \in M}
  <2>1. 0 \in good
    <3>1. 1..0 = {}
      OBVIOUS
    <3> QED BY <1>1, <1>2, <1>8, <3>1
  <2>2. \A m \in 1..n : m - 1 \in good => m \in good
    <3> SUFFICES ASSUME NEW m \in 1..n, m - 1 \in good PROVE m \in good
      OBVIOUS
    <3>1. fold[1..m] = Move(fold[1..(m - 1)], h[m]) /\ m \in 0..n
      BY <1>1, <1>8
    <3>2. fold[1..(m - 1)] \in M /\ h[m] \in Keyed
      BY <1>1
    <3> QED BY <1>3, <3>1, <3>2
  <2> HIDE DEF good
  <2>3. \A m \in 0..n : m \in good
    BY <1>1, <2>1, <2>2, UpTo
  <2> QED BY <2>3 DEF good
<1> QED BY <1>1, <1>5, <1>9 DEF M

-----------------------------------------------------------------------------
(* The rows of a page, and its arms.                                       *)

\* A page can name a build once.
LEMMA KnownAre ==
  ASSUME NEW world, IsWorld(world)
  PROVE  LET ids == KnownBuilds(world).ids
         IN  /\ ids \in Seq(Int) /\ \A i, j \in DOMAIN ids : ids[i] = ids[j] => i = j
             /\ ToSet(ids) \subseteq ToSet(world.held) \cup ToSet(world.answered)
<1> DEFINE held == world.held
           answered == world.answered
           at == {i \in DOMAIN answered : ~Contains(held, answered[i])}
           news == Those(answered, at)
           ids == held \o news
<1>1. KnownBuilds(world).ids = ids
  BY DEF KnownBuilds, Such
<1>2. /\ held \in Seq(Int) /\ answered \in Seq(Int)
      /\ \A i, j \in DOMAIN held : held[i] = held[j] => i = j
      /\ \A i, j \in DOMAIN answered : answered[i] = answered[j] => i = j
  BY DEF IsWorld, IsInjective
<1>3. at \subseteq DOMAIN answered /\ \A i \in at : ~Contains(held, answered[i])
  OBVIOUS
<1> HIDE DEF held, answered, at
<1>4. /\ news \in Seq(Int) /\ ToSet(news) = {answered[i] : i \in at}
      /\ \A k, l \in DOMAIN news : news[k] = news[l] => k = l
  <2>1. \A i, j \in at : answered[i] = answered[j] => i = j
    BY <1>2, <1>3
  <2> QED BY <1>2, <1>3, <2>1, ThoseHold
<1> HIDE DEF news
<1>5. /\ DOMAIN held = 1..Len(held) /\ DOMAIN news = 1..Len(news)
      /\ Len(held) \in Nat /\ Len(news) \in Nat
  BY <1>2, <1>4, LenProperties
<1>6. /\ ids \in Seq(Int) /\ DOMAIN ids = 1..(Len(held) + Len(news))
      /\ \A i \in 1..Len(held) : ids[i] = held[i]
      /\ \A i \in (Len(held) + 1)..(Len(held) + Len(news)) : ids[i] = news[i - Len(held)]
  BY <1>2, <1>4, <1>5, ConcatProperties
<1>7. \A k \in DOMAIN news, i \in DOMAIN held : held[i] # news[k]
  <2>1. ASSUME NEW k \in DOMAIN news, NEW i \in DOMAIN held PROVE held[i] # news[k]
    <3>1. news[k] \in ToSet(news)
      BY DEF ToSet
    <3>2. PICK j \in at : news[k] = answered[j]
      BY <1>4, <3>1
    <3> QED BY <1>3, <3>2 DEF Contains
  <2> QED BY <2>1
<1>8. ToSet(ids) = ToSet(held) \cup ToSet(news) /\ ToSet(news) \subseteq ToSet(answered)
  <2>1. ToSet(ids) = ToSet(held) \cup ToSet(news)
    BY <1>2, <1>4, ToSetConcat
  <2> QED BY <1>3, <1>4, <2>1 DEF ToSet
<1> HIDE DEF ids
<1>9. \A i, j \in DOMAIN ids : ids[i] = ids[j] => i = j
  <2> DEFINE a == Len(held)
             b == Len(news)
  <2>1. a \in Nat /\ b \in Nat /\ DOMAIN ids = 1..(a + b)
    BY <1>5, <1>6
  <2>2. \A i \in 1..a : ids[i] = held[i] /\ i \in DOMAIN held
    BY <1>5, <1>6
  <2>3. \A i \in (a + 1)..(a + b) : ids[i] = news[i - a] /\ i - a \in DOMAIN news
    BY <1>5, <1>6
  <2> HIDE DEF a, b
  <2> SUFFICES ASSUME NEW i \in DOMAIN ids, NEW j \in DOMAIN ids, ids[i] = ids[j] PROVE i = j
    OBVIOUS
  <2>4. \A k \in DOMAIN ids : k \in 1..a \/ k \in (a + 1)..(a + b)
    BY <2>1
  <2>5. CASE i \in 1..a /\ j \in 1..a
    BY <1>2, <2>2, <2>5
  <2>6. CASE i \in (a + 1)..(a + b) /\ j \in (a + 1)..(a + b)
    <3>1. i - a = j - a
      BY <1>4, <2>3, <2>6
    <3> QED BY <2>1, <2>6, <3>1
  <2>7. CASE i \in 1..a /\ j \in (a + 1)..(a + b)
    BY <1>7, <2>2, <2>3, <2>7
  <2>8. CASE i \in (a + 1)..(a + b) /\ j \in 1..a
    BY <1>7, <2>2, <2>3, <2>8
  <2> QED BY <2>4, <2>5, <2>6, <2>7, <2>8
<1> QED BY <1>1, <1>6, <1>8, <1>9 DEF held, answered

\* A row of the table of builds.
RowOf(world, items, b) ==
    LET named == KnownBuilds(world)
        Says(fact) == IF b \in named.cards THEN world.facts[b][fact] ELSE 0
    IN  [build |-> b, card |-> b \in named.cards, verdict |-> LastListed(items, b),
         created |-> Says("created"), tree |-> Says("tree"),
         branch |-> Says("branch"), series |-> Says("series")]
RowSet(world, items) == {RowOf(world, items, b) : b \in ToSet(KnownBuilds(world).ids)}

\* It can be sorted by any key, and it is the only one of its build.
LEMMA RowSetIs ==
  ASSUME NEW world, IsWorld(world), NEW items
  PROVE  /\ \A row \in RowSet(world, items) : 
               Cells(row) /\ row.card \in BOOLEAN /\ row.build \in ToSet(KnownBuilds(world).ids)
         /\ \A x, y \in RowSet(world, items) : x.build = y.build => x = y
<1> DEFINE ids == KnownBuilds(world).ids
<1>1. \A b \in ToSet(ids) : /\ b \in Int /\ world.facts[b].created \in Int /\ world.facts[b].tree \in Int
                            /\ world.facts[b].branch \in Int /\ world.facts[b].series \in Int
  <2>1. ids \in Seq(Int) /\ ToSet(ids) \subseteq ToSet(world.held) \cup ToSet(world.answered)
    BY KnownAre
  <2>2. ToSet(ids) \subseteq Int
    BY <2>1, LenProperties DEF ToSet
  <2> QED BY <2>1, <2>2 DEF IsWorld
<1> HIDE DEF ids
<1>2. ASSUME NEW b \in ToSet(ids)
      PROVE  LET row == RowOf(world, items, b)
             IN  Cells(row) /\ row.card \in BOOLEAN /\ row.build = b
  BY <1>1 DEF RowOf, Cells
<1> QED BY <1>2 DEF RowSet, ids

\* The table of a page is of such rows, none twice.
LEMMA RowsAre ==
  ASSUME NEW world, IsWorld(world), NEW items, NEW let
  PROVE  LET pool == BuildRows(world, items, let)
         IN  /\ pool \in Seq(RowSet(world, items))
             /\ \A i, j \in DOMAIN pool : pool[i] = pool[j] => i = j
<1> DEFINE ids == KnownBuilds(world).ids
           at == {i \in DOMAIN ids : ids[i] \in let}
           kept == Those(ids, at)
           pool == BuildRows(world, items, let)
<1>1. ids \in Seq(Int) /\ \A i, j \in DOMAIN ids : ids[i] = ids[j] => i = j
  BY KnownAre
<1>2. pool = [i \in DOMAIN kept |-> RowOf(world, items, kept[i])]
  BY DEF BuildRows, RowOf, Such
<1>3. at \subseteq DOMAIN ids
  OBVIOUS
<1> HIDE DEF ids, at, pool
<1>4. ids \in Seq(ToSet(ids))
  BY <1>1, LenProperties, SeqDef DEF ToSet
<1>5. /\ kept \in Seq(ToSet(ids))
      /\ \A i, j \in DOMAIN kept : kept[i] = kept[j] => i = j
  BY <1>1, <1>3, <1>4, ThoseHold
<1> HIDE DEF kept
<1>6. Len(kept) \in Nat /\ DOMAIN kept = 1..Len(kept) /\ \A i \in 1..Len(kept) : kept[i] \in ToSet(ids)
  BY <1>5, LenProperties
<1>7. \A i \in 1..Len(kept) : pool[i] = RowOf(world, items, kept[i]) /\ pool[i].build = kept[i]
  BY <1>2, <1>6 DEF RowOf
<1>8. pool = [i \in 1..Len(kept) |-> pool[i]] /\ \A i \in 1..Len(kept) : pool[i] \in RowSet(world, items)
  BY <1>2, <1>6, <1>7 DEF RowSet, ids
<1>9. pool \in Seq(RowSet(world, items)) /\ DOMAIN pool = 1..Len(kept)
  BY <1>6, <1>8, MadeSeq
<1>10. \A i, j \in DOMAIN pool : pool[i] = pool[j] => i = j
  BY <1>5, <1>6, <1>7, <1>9
<1> QED BY <1>9, <1>10 DEF pool

\* The rows of a page are what is in the table, each build once.
LEMMA PageRows ==
  ASSUME NEW asked \in Asked, NEW items, AnalysisAssumption
  PROVE  LET rows == Rows(items, asked)
         IN  /\ rows \in Seq(RowSet(asked.world, items))
             /\ \A i, j \in DOMAIN rows : rows[i].build = rows[j].build => i = j
<1> DEFINE S == RowSet(asked.world, items)
           pool == BuildRows(asked.world, items, asked.let)
           order == SortOrder(asked.order)
           sorted == SortRows(pool, order)
           m == IF asked.limit < Len(sorted) THEN asked.limit ELSE Len(sorted)
           rows == SubSeq(sorted, 1, m)
<1>1. IsWorld(asked.world) /\ asked.order \in Seq(STRING \X STRING) /\ asked.limit \in Nat
  BY DEF AnalysisAssumption
<1>2. order \in Seq(Keyed)
  BY <1>1, OrderIs
<1>3. /\ \A row \in S : Cells(row)
      /\ \A x, y \in S : x.build = y.build => x = y
  BY <1>1, RowSetIs
<1>4. pool \in Seq(S) /\ \A i, j \in DOMAIN pool : pool[i] = pool[j] => i = j
  BY <1>1, RowsAre
<1>5. Rows(items, asked) = rows
  BY DEF Rows, Upto
<1> HIDE DEF S, pool, order
<1>6. sorted \in Moved(S, pool)
  BY <1>2, <1>3, <1>4, SortRowsMoves
<1>7. sorted \in Seq(S) /\ \A i, j \in DOMAIN sorted : sorted[i] = sorted[j] => i = j
  BY <1>6 DEF Moved
<1> HIDE DEF sorted
<1>8. /\ Len(sorted) \in Nat /\ DOMAIN sorted = 1..Len(sorted) /\ m \in 0..Len(sorted)
      /\ \A i \in 1..Len(sorted) : sorted[i] \in S
  BY <1>1, <1>7, LenProperties
<1> HIDE DEF m
<1>9. /\ rows = [i \in 1..m |-> rows[i]] /\ DOMAIN rows = 1..m /\ m \in Nat
      /\ \A i \in 1..m : rows[i] = sorted[i] /\ i \in DOMAIN sorted
  BY <1>7, <1>8
<1> HIDE DEF rows
<1>10. rows \in Seq(S)
  BY <1>8, <1>9, MadeSeq
<1>11. \A i, j \in DOMAIN rows : rows[i].build = rows[j].build => i = j
  BY <1>3, <1>7, <1>8, <1>9
<1> QED BY <1>5, <1>10, <1>11 DEF S

\* The arms of every page are true, whatever the ledger holds.
LEMMA ArmsAlwaysAgree ==
  ASSUME NEW asked \in Asked, NEW items, AnalysisAssumption
  PROVE  ArmsAgree(items, asked)
<1> DEFINE rows == Rows(items, asked)
           S == RowSet(asked.world, items)
<1>1. IsWorld(asked.world) /\ asked.delta \in Nat
  BY DEF AnalysisAssumption
<1>2. rows \in Seq(S) /\ \A i, j \in DOMAIN rows : rows[i].build = rows[j].build => i = j
  BY PageRows
<1>3. \A row \in S : row.card \in BOOLEAN /\ row.build \in ToSet(KnownBuilds(asked.world).ids)
  BY <1>1, RowSetIs
<1> HIDE DEF rows, S
<1>4. ASSUME NEW at \in DOMAIN rows, NEW side \in {"up", "down"}
      PROVE  TrueArm(rows, asked.world, asked.delta, at, side)
  <2> DEFINE D == asked.delta
             W == asked.world
  <2>1. D \in Nat /\ \A row \in S : row.card \in BOOLEAN /\ row.build \in ToSet(KnownBuilds(W).ids)
    BY <1>1, <1>3
  <2> HIDE DEF D, W
  <2>2. TrueArm(rows, W, D, at, side)
    BY <1>2, <2>1, ArmsOpen
  <2> QED BY <2>2 DEF D, W
<1> QED BY <1>4, Zenon DEF ArmsAgree, TrueArm, rows

\* What the ledger holds between deliveries is one of the things a page may be drawn of.
LEMMA OnRecordIsPossible ==
  ASSUME Inductive, apart, NEW verdict \in Answers
  PROVE  OnRecord(verdict) \in Possible
<1> DEFINE some == {q \in Pairs : Recorded(q) /\ Len(Record(q)) = 1}
           Ends == {[stamp |-> clock[r], verdict |-> v] :
                       clock \in Clocks, r \in Runs, v \in DOMAIN Counted}
           end == [p \in some |-> [stamp |-> stamp[Record(p)[1]], verdict |-> verdict[Record(p)[1]]]]
           Ended(e) == {[build |-> p[1], test |-> p[2], stamp |-> e[p].stamp, verdict |-> e[p].verdict,
                         results |-> Counted[e[p].verdict]] : p \in DOMAIN e}
<1>1. ASSUME NEW p \in some PROVE Record(p)[1] \in Runs
  <2>1. PairFits(p) /\ Recorded(p)
    BY DEF Inductive
  <2>2. PICK s \in RunsOf(p) : Record(p) = <<s>>
    BY <2>1 DEF PairFits, RecordFits
  <2> QED BY <2>2 DEF RunsOf
<1>2. ASSUME NEW r \in Runs
      PROVE  [stamp |-> stamp[r], verdict |-> verdict[r]] \in Ends
  <2>1. stamp \in Clocks
    BY DEF Inductive, Types, FileTypes
  <2>2. verdict[r] \in DOMAIN Counted
    BY AnalysisAssumption DEF Answers
  <2> QED BY <2>1, <2>2
<1>3. some \in SUBSET Pairs
  OBVIOUS
<1> HIDE DEF some, Ends
<1>4. end \in [some -> Ends]
  BY <1>1, <1>2
<1>5. OnRecord(verdict) = Ended(end)
  <2>1. DOMAIN end = some /\ \A p \in some : /\ end[p].stamp = stamp[Record(p)[1]]
                                              /\ end[p].verdict = verdict[Record(p)[1]]
    OBVIOUS
  <2> HIDE DEF end
  <2>2. OnRecord(verdict) =
          {[build |-> p[1], test |-> p[2], stamp |-> stamp[Record(p)[1]],
            verdict |-> verdict[Record(p)[1]], results |-> Counted[verdict[Record(p)[1]]]] : p \in some}
    BY DEF OnRecord, some
  <2> QED BY <2>1, <2>2
<1>6. end \in UNION {[at -> Ends] : at \in SUBSET Pairs}
  BY <1>3, <1>4
<1> HIDE DEF end, Ended
<1>7. Possible = {Ended(e) : e \in UNION {[at -> Ends] : at \in SUBSET Pairs}}
  BY DEF Possible, Ended, Ends
<1> QED BY <1>5, <1>6, <1>7

\* Whatever pages are asked for, of whatever worlds, between deliveries every number
\* beside a build opens the comparison it is of, and none is missing (analysis.py,
\* `_edge_body` and `_directed`).
THEOREM DoorsAreRight == Spec => []DoorsOpenWhatTheyShow
<1>1. Inductive => DoorsOpenWhatTheyShow
  <2> SUFFICES ASSUME Inductive, apart, NEW verdict \in Answers PROVE OnRecord(verdict) \in Doors
    BY DEF DoorsOpenWhatTheyShow
  <2>1. OnRecord(verdict) \in Possible
    BY OnRecordIsPossible
  <2>2. \A asked \in Asked : ArmsAgree(Listed(OnRecord(verdict)), asked)
    BY AnalysisAssumption, ArmsAlwaysAgree
  <2> QED BY <2>1, <2>2 DEF Doors
<1> QED BY <1>1, Invariance, PTL
=============================================================================
