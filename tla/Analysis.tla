------------------------------ MODULE Analysis ------------------------------
(***************************************************************************)
(* The pages /analysis and /trend over the ledger: which builds a page can *)
(* name and in which order (lib/gui/reads.py, lib/gui/sorting.py), what    *)
(* each build's config changed against its neighbour (lib/drift.py), what  *)
(* each test came back with (lib/gui/design/data.py), and what the panels  *)
(* draw of both (lib/gui/design/pages/analysis.py, lib/gui/design/ui.py).  *)
(*                                                                         *)
(* A page is drawn in one request from one reading of the ledger.  The     *)
(* filters, which only leave builds out, are a set of builds let through;  *)
(* a percentage is a pair <<part, whole>>; and a config is a function from *)
(* its options to their values, empty when nothing could be read of it.    *)
(***************************************************************************)
EXTENDS Ledger, Sorting

CONSTANTS
    Asked,      \* pages: the world there is, and the builds let through, the order,
                \* the limit and the delta a reader asked for
    Lined,      \* the tests a page draws a line for, in order
    Colours,    \* how many colours there are for lines (SERIES in ui.py)
    Standing,   \* what the ledger holds of other pairs: a set of sets of items
    Counted     \* what a run of a verdict counted: its cases, failed and skipped

\* What is held and what the API answers are lists without repetition; a build and what
\* a card says of it are numbers.
IsWorld(world) ==
    LET ids == ToSet(world.held) \cup ToSet(world.answered)
    IN  /\ world.held \in Seq(Int) /\ IsInjective(world.held)
        /\ world.answered \in Seq(Int) /\ IsInjective(world.answered)
        /\ \A b \in ids, fact \in {"created", "tree", "branch", "series"} : world.facts[b][fact] \in Int

ASSUME AnalysisAssumption ==
    /\ Colours \in Nat /\ Len(Lined) \in 1..Colours
    /\ {"pass", "fail", "incomplete"} \subseteq DOMAIN Counted
    /\ \A asked \in Asked :
        /\ IsWorld(asked.world) /\ asked.order \in Seq(STRING \X STRING)
        /\ asked.limit \in Nat /\ asked.delta \in Nat

-----------------------------------------------------------------------------
(* Which builds a page can name.                                           *)

\* `_known_builds`.  A world is what is held here, in order, and which of it has a
\* card, what the API answered, in order, and what a card says of its build.  A
\* build that is held without a card is not given the one the API has.
KnownBuilds(world) ==
    LET news == Such(world.answered, LAMBDA b : ~Contains(world.held, b))
    IN  [ids   |-> world.held \o news, cards |-> world.carded \cup ToSet(news)]

\* `found.items[-1]`: the record of the build that was listed last.
LastListed(items, build) ==
    LET found == SelectSeq(items, LAMBDA one : one.build = build)
    IN  IF found = <<>> THEN "" ELSE Last(found).verdict

\* `_build_rows`: a build without a card says nothing of itself.
BuildRows(world, items, let) ==
    LET named == KnownBuilds(world)
        Says(b, fact) == IF b \in named.cards THEN world.facts[b][fact] ELSE 0
        Row(b) == [build |-> b, card |-> b \in named.cards, verdict |-> LastListed(items, b),
                   created |-> Says(b, "created"), tree |-> Says(b, "tree"),
                   branch |-> Says(b, "branch"), series |-> Says(b, "series")]
        kept == Such(named.ids, LAMBDA b : b \in let)
    IN  [i \in DOMAIN kept |-> Row(kept[i])]

Upto(rows, n) == SubSeq(rows, 1, IF n < Len(rows) THEN n ELSE Len(rows))

-----------------------------------------------------------------------------
(* What changed between two configs.                                       *)

Diff(older, newer) ==
    [added   |-> DOMAIN newer \ DOMAIN older,
     removed |-> DOMAIN older \ DOMAIN newer,
     changed |-> {o \in DOMAIN older \cap DOMAIN newer : older[o] # newer[o]}]

Numbers(report) ==
    <<Cardinality(report.added), Cardinality(report.removed), Cardinality(report.changed)>>

\* `Drift.between`: nothing is compared with a config that says nothing.
Between(world, older, newer) ==
    LET left == world.facts[older].config  right == world.facts[newer].config
    IN  IF DOMAIN left = {} \/ DOMAIN right = {} THEN <<>> ELSE <<Diff(left, right)>>

\* `_ordered`: the older one first, when both say how old they are.
Ordered(first, second) ==
    IF first.created # 0 /\ second.created # 0 /\ first.created > second.created
    THEN <<second.build, first.build>> ELSE <<first.build, second.build>>

\* `Drift.series`: the adjacent pairs of a list of builds, each its oldest first.
DriftSeries(world, rows) ==
    [i \in 1..(Len(rows) - 1) |->
        LET sides == Ordered(rows[i], rows[i + 1])
        IN  [older |-> sides[1], newer |-> sides[2],
             report |-> Between(world, sides[1], sides[2])]]

\* `_config_edges`: one call of the engine for each stretch of rows with a card; a
\* pair with a side that has none keeps its place.
ConfigEdges(world, rows) ==
    LET EndOf(at) == CHOOSE e \in at..Len(rows) :
                        /\ \A i \in at..e : rows[i].card
                        /\ e = Len(rows) \/ ~rows[e + 1].card
        from[at \in 1..Len(rows)] ==
            IF at = Len(rows) THEN <<>>
            ELSE IF ~rows[at].card \/ ~rows[at + 1].card
            THEN <<[older |-> rows[at].build, newer |-> rows[at + 1].build,
                    report |-> <<>>]>> \o from[at + 1]
            ELSE DriftSeries(world, SubSeq(rows, at, EndOf(at))) \o from[EndOf(at)]
    IN  IF Len(rows) > 1 THEN from[1] ELSE <<>>

\* `_delta`.
Delta(edges, at) ==
    IF at \in DOMAIN edges /\ edges[at].report # <<>>
    THEN <<Numbers(edges[at].report[1])>> ELSE <<>>

\* `_picks`: each row with what it changed against the rows above and below it.
Picks(rows, edges) ==
    [at \in DOMAIN rows |->
        [build |-> rows[at].build, up |-> Delta(edges, at - 1), down |-> Delta(edges, at)]]

\* Mutant: a pair keeps the order the reader is looking at.
AsListed(edges, first, second) == <<first, second>>

\* `_directed`: two builds as the engine compared them, when it did.
Directed(edges, first, second) ==
    LET read == {e \in ToSet(edges) : e.report # <<>> /\ {e.older, e.newer} = {first, second}}
    IN  IF read = {} THEN <<first, second>>
        ELSE LET e == CHOOSE e \in read : TRUE IN <<e.older, e.newer>>

\* `_edge_body`: what an arm says, and the comparison it is a door to.
Arm(picks, edges, at, side, delta) ==
    LET pair  == IF side = "up" THEN picks[at].up ELSE picks[at].down
        other == IF side = "up" THEN at - 1 ELSE at + 1
        head  == IF delta < Len(picks) THEN delta ELSE Len(picks)
        door  == Directed(edges, picks[at].build, picks[other].build)
        tried == other <= (IF side = "up" THEN head ELSE head - 1)
    IN  IF pair # <<>>              THEN [says |-> "number", number |-> pair[1], door |-> door]
        ELSE IF at = 1              THEN [says |-> "first", door |-> <<>>]
        ELSE IF at = Len(picks)     THEN [says |-> "last", door |-> <<>>]
        ELSE IF tried               THEN [says |-> "no config", door |-> door]
        ELSE                             [says |-> "beyond", door |-> door]

\* The page a door opens: `_detail_url`, `_route_id`, `_other_side` and `_drift`.
\* The two builds are among those the page can name, as they were where the door is.
Opened(world, door) ==
    IF ToSet(door) \subseteq ToSet(KnownBuilds(world).ids)
    THEN Between(world, door[1], door[2]) ELSE <<>>

-----------------------------------------------------------------------------
(* What each test came back with.                                          *)

Window(items, rows) ==
    SelectSeq(items, LAMBDA one : \E i \in DOMAIN rows : rows[i].build = one.build)

\* `_last_verdict_row`: the newest record of a pair, if there is one.
NewestOf(items, test, build) ==
    LET found == Series(SelectSeq(items, LAMBDA one : one.build = build), test)
    IN  IF found = <<>> THEN <<>> ELSE <<Last(found)>>

\* `_wave_slots`: one place for each row, with or without a verdict.
WaveSlots(rows, items, test) ==
    [at \in DOMAIN rows |->
        LET found == NewestOf(items, test, rows[at].build)
        IN  IF found = <<>> THEN "" ELSE found[1].verdict]

\* Mutant: the regressions of the whole ledger beside the marks of a window.
TurnsOfAll(items, rows, test) == Transitions(Series(items, test))

TurnsOf(items, rows, test) == Transitions(Series(Window(items, rows), test))

\* `_timelines`: the runs of a test in the window, its regressions, and every pair
\* of runs next to each other, marked when it is one of those.
Timeline(rows, items, test) ==
    LET series == Series(Window(items, rows), test)
        turns  == TurnsOf(items, rows, test)
        regressed == {<<t[1].build, t[2].build>> : t \in ToSet(turns)}
    IN  [runs        |-> Len(series),
         regressions |-> Len(turns),
         marks       |-> WaveSlots(rows, Window(items, rows), test),
         comparisons |->
            [i \in 1..(Len(series) - 1) |->
                [older |-> series[i], newer |-> series[i + 1],
                 regression |-> <<series[i + 1].build, series[i].build>> \in regressed]]]

\* `_record_rows`: the panel's lines, the first run and then one for each pair.
RecordRows(line) ==
    LET pairs == line.comparisons
    IN  IF pairs = <<>> THEN <<>>
        ELSE <<[of |-> pairs[1].older, from |-> "", regression |-> FALSE]>>
             \o [i \in DOMAIN pairs |-> [of |-> pairs[i].newer, from |-> pairs[i].older.verdict,
                                         regression |-> pairs[i].regression]]

\* `_change_cell`.
Change(row) ==
    CASE row.from = "" -> "first"
      [] row.regression -> "regression"
      [] row.from = "fail" /\ row.of.verdict = "fail" -> "failing"
      [] row.from = "fail" /\ row.of.verdict = "pass" -> "recovered"
      [] row.from = "pass" /\ row.of.verdict = "pass" -> "holding"
      [] OTHER -> "other"

AtLeast0(n) == IF n < 0 THEN 0 ELSE n
Passed(results) == AtLeast0(results.total - results.failed - results.skipped)

\* `_tally`: the cases of a run that counted them, or the one its verdict is.
Tally(found) ==
    IF found = <<>> THEN [ok |-> 0, bad |-> 0, warn |-> 0]
    ELSE LET results == found[1].results  verdict == found[1].verdict
             One(is) == IF is THEN 1 ELSE 0
         IN  IF results.total > 0
             THEN [ok |-> Passed(results), bad |-> results.failed, warn |-> results.skipped]
             ELSE [ok |-> One(verdict = "pass"), bad |-> One(verdict = "fail"),
                   warn |-> One(verdict \notin {"pass", "fail"})]

\* `_test_bars`.
TestBars(rows, items, test) ==
    [at \in DOMAIN rows |-> Tally(NewestOf(items, test, rows[at].build))]

-----------------------------------------------------------------------------
(* The chart.                                                              *)

\* `_own_pct`.
OwnPct(one) ==
    IF one.results.total > 0 THEN <<Passed(one.results), one.results.total>>
    ELSE IF one.verdict = "pass" THEN <<1, 1>> ELSE <<0, 1>>

\* `_points`: the accumulated rate from the left end of the order, carried over a
\* position without a run once there was one; or each build's own rate, with gaps.
Points(rows, items, test, mode) ==
    LET Step(acc, at) ==
            LET found == NewestOf(items, test, rows[at].build)
                runs  == acc.runs + 1
                passed == acc.passed + (IF found # <<>> /\ found[1].verdict = "pass" THEN 1 ELSE 0)
                Point(pct, carried) == Append(acc.points,
                                              [at |-> at, pct |-> pct, carried |-> carried])
            IN  IF found = <<>>
                THEN IF mode = "each" \/ acc.runs = 0 THEN acc
                     ELSE [acc EXCEPT !.points = Point(Last(acc.points).pct, TRUE)]
                ELSE [runs |-> runs, passed |-> passed,
                      points |-> Point(IF mode = "each" THEN OwnPct(found[1])
                                       ELSE <<passed, runs>>, FALSE)]
    IN  FoldLeft(Step, [runs |-> 0, passed |-> 0, points |-> <<>>],
                 [at \in DOMAIN rows |-> at]).points

\* The legend's numerator: the points that are records.
Kept(points) == Len(SelectSeq(points, LAMBDA point : ~point.carried))

\* `_contiguous`: a line is broken where a position is missing.
Contiguous(points) ==
    LET Step(runs, point) ==
            IF runs # <<>> /\ point.at = Last(Last(runs)).at + 1
            THEN [runs EXCEPT ![Len(runs)] = Append(@, point)]
            ELSE Append(runs, <<point>>)
    IN  FoldLeft(Step, <<>>, points)

ColourOf(at) == (at - 1) % Colours

\* `_chart_series`: a test's pieces, each preceded by as many empty entries as bring
\* it to the test's own colour.
ChartSeries(lines) ==
    LET Padded(out, test, colour) ==
            LET gap == CHOOSE n \in 0..(Colours - 1) : ColourOf(Len(out) + n + 1) = colour
            IN  out \o [i \in 1..gap |-> [test |-> test, points |-> <<>>]]
        Lay(out, t) ==
            FoldLeft(LAMBDA sofar, piece :
                        Append(Padded(sofar, lines[t].test, ColourOf(t)),
                               [test |-> lines[t].test, points |-> piece]),
                     out, Contiguous(lines[t].points))
    IN  FoldLeft(Lay, <<>>, [t \in DOMAIN lines |-> t])

\* `line_chart`: a band for each colour with a point, named by its first entry.
BandName(entries, colour) ==
    LET drawn == {at \in DOMAIN entries : entries[at].points # <<>> /\ ColourOf(at) = colour}
    IN  entries[CHOOSE at \in drawn : \A other \in drawn : at <= other].test

Marks(entries) ==
    UNION {{[test |-> entries[at].test, band |-> BandName(entries, ColourOf(at)),
             at |-> point.at, pct |-> point.pct] : point \in ToSet(entries[at].points)} :
           at \in DOMAIN entries}

-----------------------------------------------------------------------------
(* A page over what the ledger holds.                                      *)

\* `Ledger.read`: the build with the newest record first, its tests by name.
Listed(found) ==
    LET NewestIn(b) == CHOOSE s \in {one.stamp : one \in found} :
                          /\ \E one \in found : one.build = b /\ one.stamp = s
                          /\ \A one \in found : one.build = b => one.stamp <= s
        Key(one) == <<-NewestIn(one.build), -one.build, one.test>>
    IN  SetToSortSeq(found, LAMBDA x, y : Less(Key(x), Key(y)))

\* The record of a pair that is in no one's hands, if it has one.
OnRecord(verdict) ==
    {[build |-> p[1], test |-> p[2], stamp |-> stamp[Record(p)[1]],
      verdict |-> verdict[Record(p)[1]], results |-> Counted[verdict[Record(p)[1]]]] :
        p \in {q \in Pairs : Recorded(q) /\ Len(Record(q)) = 1}}

Rows(items, asked) ==
    Upto(SortRows(BuildRows(asked.world, items, asked.let), SortOrder(asked.order)), asked.limit)

-----------------------------------------------------------------------------
(* Correctness.                                                            *)

\* Each place of the order says one thing of a test: its mark, its bar and its point
\* on the chart are there or missing together.
MarksAgree(rows, line, bars, points) ==
    /\ {point.at : point \in {p \in ToSet(points) : ~p.carried}}
          = {at \in DOMAIN rows : line.marks[at] # ""}
    /\ \A at \in DOMAIN rows :
            (line.marks[at] = "") <=> (bars[at] = [ok |-> 0, bad |-> 0, warn |-> 0])
    /\ Kept(points) = line.runs

\* The count is of the regressions of the window, and the pairs marked as one are
\* those of them with no undecided run in between.
PairsAgree(line, series) ==
    LET marked == {c \in ToSet(line.comparisons) : c.regression}
        lines  == RecordRows(line)
    IN  /\ line.regressions = Cardinality(Regressions(series))
        /\ {<<c.newer, c.older>> : c \in marked}
              = {pair \in Regressions(series) :
                    \E i \in 1..(Len(series) - 1) : pair = <<series[i + 1], series[i]>>}
        /\ Len(series) > 1 => [i \in DOMAIN lines |-> lines[i].of] = series
        /\ \A i \in DOMAIN lines :
                Change(lines[i]) = "regression"
                    <=> lines[i].from = "pass" /\ lines[i].of.verdict = "fail"

\* A point is the share of the runs up to it that passed, whatever lies between them;
\* no share is more than all.
RatesAgree(line, mode, points) ==
    LET CountUpto(at, verdicts) == Cardinality({i \in 1..at : line.marks[i] \in verdicts})
    IN  \A point \in ToSet(points) :
            /\ point.pct[1] \in 0..point.pct[2]
            /\ mode = "cumulative" =>
                 point.pct = <<CountUpto(point.at, {"pass"}), CountUpto(point.at, Verdicts)>>

\* Every point is drawn, in the band that bears its test's name.
BandsAgree(lines) ==
    LET drawn == Marks(ChartSeries(lines))
    IN  \A t \in DOMAIN lines :
            {<<m.at, m.pct>> : m \in {m \in drawn : m.test = lines[t].test}}
                = {<<point.at, point.pct>> : point \in ToSet(lines[t].points)}
         /\ \A m \in drawn : m.band = m.test

Modes == {"cumulative", "each"}

Agrees(items, asked) ==
    LET order  == SortOrder(asked.order)
        pool   == BuildRows(asked.world, items, asked.let)
        rows   == Rows(items, asked)
        line   == [t \in DOMAIN Lined |-> Timeline(rows, items, Lined[t])]
        points == [mode \in Modes |->
                    [t \in DOMAIN Lined |-> Points(rows, items, Lined[t], mode)]]
    IN  /\ InOrder(SortRows(pool, order), order, pool) /\ ChipsKeep(order)
        /\ \A t \in DOMAIN Lined : PairsAgree(line[t], Series(Window(items, rows), Lined[t]))
        /\ \A mode \in Modes :
            /\ BandsAgree([t \in DOMAIN Lined |->
                             [test |-> Lined[t], points |-> points[mode][t]]])
            /\ \A t \in DOMAIN Lined :
                  /\ MarksAgree(rows, line[t], TestBars(rows, items, Lined[t]), points[mode][t])
                  /\ RatesAgree(line[t], mode, points[mode][t])

\* Whatever the pairs may have come back with, one record for a pair.
Possible ==
    LET Ends == {[stamp |-> clock[r], verdict |-> v] :
                    clock \in Clocks, r \in Runs, v \in DOMAIN Counted}
    IN  {{[build |-> p[1], test |-> p[2], stamp |-> end[p].stamp, verdict |-> end[p].verdict,
           results |-> Counted[end[p].verdict]] : p \in DOMAIN end} :
         end \in UNION {[some -> Ends] : some \in SUBSET Pairs}}

Trends == {here \in Possible : \A rest \in Standing :
              LET items == Listed(here \cup rest) IN \A asked \in Asked : Agrees(items, asked)}

\* Between deliveries the page of any order, filter and limit is one answer about one
\* window: its marks, counts, pairs, bars and curves never speak of other runs
\* (data.py, `_timelines`: "cells, counts and the curve below them are one answer
\* about one window").
TrendIsOneAnswer ==
    apart /\ (\A r \in Runs : ~Writing(r)) =>
        \A verdict \in Answers : OnRecord(verdict) \in Trends

\* An arm with numbers is about the rows it stands between, and opens the comparison
\* that has these numbers, in that direction; a pair with a side that cannot be read
\* has none, and none is missing within the cap.
ArmsAgree(items, asked) ==
    LET rows  == Rows(items, asked)
        edges == ConfigEdges(asked.world, Upto(rows, asked.delta))
        picks == Picks(rows, edges)
    IN  \A at \in DOMAIN rows, side \in {"up", "down"} :
            LET arm   == Arm(picks, edges, at, side, asked.delta)
                other == IF side = "up" THEN at - 1 ELSE at + 1
                low   == IF side = "up" THEN other ELSE at
            IN  /\ arm.says = "number" =>
                     /\ ToSet(arm.door) = {rows[at].build, rows[other].build}
                     /\ Opened(asked.world, arm.door) # <<>>
                     /\ Numbers(Opened(asked.world, arm.door)[1]) = arm.number
                /\ arm.says = "number" <=>
                     /\ low >= 1 /\ low + 1 <= Len(rows) /\ low + 1 <= asked.delta
                     /\ rows[low].card /\ rows[low + 1].card
                     /\ Between(asked.world, rows[low].build, rows[low + 1].build) # <<>>

Doors == {here \in Possible : \A asked \in Asked : ArmsAgree(Listed(here), asked)}

\* Whatever order the ledger's verdicts put the builds in, every number beside a build
\* is the comparison with the neighbour the arm points at, and the page behind it shows
\* the same three numbers the same way round (analysis.py, `_edge_body`: "the direction
\* of that door is the direction of the number beside it").
DoorsOpenWhatTheyShow ==
    apart /\ (\A r \in Runs : ~Writing(r)) =>
        \A verdict \in Answers : OnRecord(verdict) \in Doors
=============================================================================
