------------------------------ MODULE Reports ------------------------------
(***************************************************************************)
(* What the commands and the two analysis endpoints say of the ledger and  *)
(* of two configs: drift.py with the report of lib/drift.py, results.py    *)
(* with the text of lib/re.py, and `drift` and `trend` of                  *)
(* lib/gui/reports.py.  A build nobody named is 0, and a file handed to    *)
(* drift.py is the build whose config it is a copy of.                     *)
(***************************************************************************)
EXTENDS Analysis

CONSTANT Comparisons    \* what drift.py is asked: builds, files and a cap on the lines

-----------------------------------------------------------------------------
(* Two configs.                                                            *)

\* The newest two builds the API has, the newest first.
NewestTwo(world) ==
    LET At(b) == <<-world.facts[b].created, b>>
    IN  Upto(SetToSortSeq(ToSet(world.answered), LAMBDA x, y : Less(At(x), At(y))), 2)

\* `Drift.between` of a caller with nothing in hand: the builds as they were named, when
\* both were; else the newest two.  A build the API does not have is refused.
Named(world, older, newer) ==
    LET newest == NewestTwo(world)
        sides  == IF older # 0 /\ newer # 0 THEN <<older, newer>>
                  ELSE IF Len(newest) = 2 THEN <<newest[2], newest[1]>> ELSE <<>>
    IN  IF sides # <<>> /\ ToSet(sides) \subseteq ToSet(world.answered)
        THEN Between(world, sides[1], sides[2]) ELSE <<>>

\* Gui.drift: two builds by name, their numbers or the reason there are none, and
\* whether both are of one branch.
DriftAnswer(world, older, newer) ==
    LET Where(b) == <<world.facts[b].tree, world.facts[b].branch>>
        sides == {older, newer}
        report == IF 0 \in sides THEN <<>> ELSE Named(world, older, newer)
    IN  [summary |-> IF report = <<>> THEN <<>> ELSE <<Numbers(report[1])>>,
         same |-> IF sides \subseteq ToSet(world.answered) THEN <<Where(older) = Where(newer)>>
                  ELSE <<>>]

\* `Drift.lines`: each list up to the cap, and how many of it are not shown; no cap is 0.
DriftLines(report, cap) ==
    LET Cut(n) == IF cap = 0 \/ n <= cap THEN <<n, 0>> ELSE <<cap, n - cap>>
        numbers == Numbers(report)
    IN  [i \in 1..3 |-> Cut(numbers[i])]

\* Mutant: the status asks whether there is a report, not what it says.
AlwaysDrifted(report) == TRUE

Drifted(report) == Numbers(report) # <<0, 0, 0>>

\* drift.py: a cap below zero or one file without the other is refused before anything
\* is read; 0 is no drift, 1 is drift, and 3 is no answer.
DriftCommand(world, asked) ==
    LET half   == (asked.files[1] = 0) # (asked.files[2] = 0)
        report == IF asked.cap < 0 \/ half THEN <<>>
                  ELSE IF asked.files[1] # 0
                  THEN Between(world, asked.files[1], asked.files[2])
                  ELSE Named(world, asked.older, asked.newer)
    IN  IF report = <<>> THEN [exit |-> 3, lines |-> <<>>]
        ELSE [exit  |-> IF Drifted(report[1]) THEN 1 ELSE 0,
              lines |-> DriftLines(report[1], asked.cap)]

-----------------------------------------------------------------------------
(* The records.                                                            *)

\* `_builds_of`: the build with the newest record first, ties as they were listed.
BuildsOf(items) ==
    LET At(b)   == CHOOSE i \in DOMAIN items :
                      /\ items[i].build = b
                      /\ \A j \in 1..(i - 1) : items[j].build # b
        Top(b) == Last(ByStamp(SelectSeq(items, LAMBDA one : one.build = b))).stamp
        Key(b)  == <<-Top(b), At(b)>>
    IN  SetToSortSeq({one.build : one \in ToSet(items)}, LAMBDA x, y : Less(Key(x), Key(y)))

\* `_render_lines`: a block for each build, its newest record first.
Blocks(items) ==
    LET builds == BuildsOf(items)
        Block(b) ==
            LET found == SelectSeq(items, LAMBDA one : one.build = b)
            IN  [build |-> b, passing |-> Len(SelectSeq(found, LAMBDA one : one.verdict = "pass")),
                 lines |-> Reverse(ByStamp(found))]
    IN  [i \in DOMAIN builds |-> Block(builds[i])]

\* results.py: a filter that matched nothing is told from a ledger that holds nothing.
Results(items, build, test) ==
    LET found == SelectSeq(items, LAMBDA one : /\ build \in {0, one.build}
                                               /\ test \in {0, one.test})
    IN  [says |-> IF found # <<>> THEN "records"
                  ELSE IF <<build, test>> # <<0, 0>> /\ items # <<>> THEN "matched none"
                  ELSE "empty ledger",
         blocks |-> Blocks(found)]

\* Gui.trend: the end of a test's history, and the builds of every regression it has.
TrendAnswer(items, test, scope) ==
    LET series == Series(items, test)
        most   == IF scope < 1 THEN 1 ELSE scope
        first  == IF Len(series) > most THEN Len(series) - most + 1 ELSE 1
        pairs  == Transitions(series)
        marks  == UNION {{p[1].build, p[2].build} : p \in ToSet(pairs)}
        shown  == SubSeq(series, first, Len(series))
    IN  [points |-> [i \in DOMAIN shown |-> [of |-> shown[i], regression |-> shown[i].build \in marks]],
         transitions |-> Len(pairs)]

-----------------------------------------------------------------------------
(* Correctness.                                                            *)

\* The status of drift.py is 0 exactly when two configs were read and hold the same, no
\* list is cut without saying by how much, and the endpoint has the same numbers.
DriftsAgree(world) ==
    \A asked \in Comparisons :
        LET ran   == DriftCommand(world, asked)
            named == IF asked.files = <<0, 0>> THEN <<asked.older, asked.newer>> ELSE asked.files
            told  == DriftAnswer(world, asked.older, asked.newer)
            Holds(b) == world.facts[b].config
        IN  /\ ran.exit = 0 => \A line \in ToSet(ran.lines) : line = <<0, 0>>
            /\ asked.cap > 0 => \A line \in ToSet(ran.lines) : line[1] <= asked.cap
            /\ 0 \notin ToSet(named) =>
                 /\ ran.exit = 0 => Holds(named[1]) = Holds(named[2]) /\ DOMAIN Holds(named[1]) # {}
                 /\ ran.exit = 1 => Holds(named[1]) # Holds(named[2])
            /\ (0 \notin {asked.older, asked.newer} /\ asked.files = <<0, 0>> /\ asked.cap >= 0) =>
                 /\ (told.summary = <<>>) <=> (ran.exit = 3)
                 /\ told.summary # <<>> =>
                      told.summary[1] = [i \in 1..3 |-> ran.lines[i][1] + ran.lines[i][2]]

\* results.py prints every record asked for once, in the block of its build, and says
\* that nothing has run only of a ledger that is empty; the endpoint counts and marks
\* the regressions of the whole history, however much of it is shown.
RecordsAgree(items, build, test) ==
    LET said   == Results(items, build, test)
        asked  == {one \in ToSet(items) : build \in {0, one.build} /\ test \in {0, one.test}}
        printed == FoldLeft(LAMBDA sofar, block : sofar \o block.lines, <<>>, said.blocks)
    IN  /\ ToSet(printed) = asked /\ Len(printed) = Cardinality(asked)
        /\ \A block \in ToSet(said.blocks) : \A one \in ToSet(block.lines) : one.build = block.build
        /\ \A i, j \in DOMAIN said.blocks :
              i < j => said.blocks[i].lines[1].stamp >= said.blocks[j].lines[1].stamp
        /\ (said.says = "empty ledger") <=> (items = <<>>)
        /\ said.says = "matched none" => asked = {}

PointsAgree(items, test, scope) ==
    LET told   == TrendAnswer(items, test, scope)
        actual == Regressions(Series(items, test))
    IN  /\ told.transitions = Cardinality(actual)
        /\ \A point \in ToSet(told.points) :
              point.regression <=> \E pair \in actual : point.of \in {pair[1], pair[2]}

Compared == {asked \in Asked : DriftsAgree(asked.world)}

Told == {here \in Possible : \A rest \in Standing :
            LET items == Listed(here \cup rest)
            IN  /\ \A build \in Builds \cup {0}, test \in Tests \cup {0} :
                      RecordsAgree(items, build, test)
                /\ \A test \in Tests, scope \in 0..3 : PointsAgree(items, test, scope)}

\* A command and the endpoint beside it say the same of the same two builds, and what
\* they print of the records is all of them (results.py: "the ledger is not empty: ...
\* this filter matched none of them").
ReportsAreTrue ==
    /\ Compared = Asked
    /\ apart /\ (\A r \in Runs : ~Writing(r)) =>
            \A verdict \in Answers : OnRecord(verdict) \in Told

\* A trend tells every regression of the histories it is drawn from, once, and tells of
\* them one way wherever a page, an endpoint or a command speaks of them.
TrendIsTrue == TurnsAreRegressions /\ TrendIsOneAnswer /\ ReportsAreTrue
=============================================================================
