-------------------------------- MODULE Gap --------------------------------
(***************************************************************************)
(* The jobs page (lib/gui/design/pages/jobs.py) over the worlds of Desk:   *)
(* one row for each test of each build in the table (activities.py,        *)
(* job_rows), which of them have no record yet (re.py, todo), which can be *)
(* run here (build/model.py, lacking), and what the button under them runs *)
(* (table.py, run).                                                        *)
(***************************************************************************)
EXTENDS Desk, Shelf

CONSTANTS
    Catalogue,   \* the tests, in the order of the catalogue
    Needs        \* the artifacts a test needs

ASSUME GapAssumption ==
    Catalogue \in Seq(Tests) /\ ToSet(Catalogue) = Tests /\ IsInjective(Catalogue) /\ Needs \in [Tests -> SUBSET Artifacts]

-----------------------------------------------------------------------------
(* Rows                                                                    *)

\* The table, the newest card first.
TableOrder(w) ==
    Ranked(w.card, {p \in w.card \X w.card :
        \/ Dates[p[1]] > Dates[p[2]]
        \/ Dates[p[1]] = Dates[p[2]] /\ Rank[p[1]] < Rank[p[2]]})

\* `_tests_of`: the chosen test, or all of them.
TestsOf(f) == IF f["test"] # <<>> THEN f["test"] ELSE Catalogue

RecordsOf(b, test) == Such(Said[b], LAMBDA r : r[1] = test)

\* `Build.lacking`: what a test cannot find here, and whether a pull would bring it.
Lacking(w, b, test) ==
    [a \in Needs[test] \ Present(w, b) |-> IF a \in RemoteHas[b] THEN "no-bytes" ELSE "no-url"]

\* `re.todo`: the pairs of the table without a record.
Todo(f, w) == {p \in w.card \X ToSet(TestsOf(f)) : RecordsOf(p[1], p[2]) = <<>>}

\* `job_rows` before it is cut: a build is asked about as a whole, then for each test.
JobPairs(f, w) ==
    LET For(b) == Such(TestsOf(f), LAMBDA t : Accepts([f EXCEPT !["test"] = <<t>>], w, b, TRUE))
        cards  == Such(TableOrder(w), LAMBDA b : Accepts(f, w, b, TRUE))
        row(b, test) == [build |-> b, test |-> test, gap |-> <<b, test>> \in Todo(f, w),
                         ready |-> DOMAIN Lacking(w, b, test) = {},
                         last  |-> IF RecordsOf(b, test) = <<>> THEN ""
                                   ELSE Last(RecordsOf(b, test))[2]]
    IN FlattenSeq([i \in DOMAIN cards |-> [j \in DOMAIN For(cards[i]) |-> row(cards[i], For(cards[i])[j])]])

JobRows(f, w) ==
    LET pairs == JobPairs(f, w)  end == f["offset"][1] + f["limit"][1]
    IN SubSeq(pairs, f["offset"][1] + 1, IF end < Len(pairs) THEN end ELSE Len(pairs))

\* The ledger below them, newest first, as many records as the page has rows.
AllRecords == FoldSet(LAMBDA b, n : n + Len(Said[b]), 0, Ids)
LedgerRows(f) == IF f["limit"][1] < AllRecords THEN f["limit"][1] ELSE AllRecords

-----------------------------------------------------------------------------
(* Links, bars and the button                                              *)

\* The chips of the builds page that lead here.
JobsChip(f, n) == Follow("/jobs", f, FilterKeys, "limit" :> Countable(n))

JobsMain == {"tree", "test", "ran", "verdict", "days", "limit"} \cap Keys
JobsFold == {"api", "origin", "evidence", "missing"} \cup (Fields \ {"tree"})
SubmitJobs(f, bar) == FromQuery(Carried("/jobs", f, bar) @@ [k \in bar |-> Drawn(f, k)])

\* A box that can be ticked, and the pairs `table.py run` runs of the ticked ones.
Tickable(f, w) == {<<row.build, row.test>> : row \in {r \in ToSet(JobRows(f, w)) : r.ready}}
RunOf(ticks, redo) == {p \in ticks : redo \/ RecordsOf(p[1], p[2]) = <<>>}

-----------------------------------------------------------------------------
(* Correctness.                                                            *)

\* A row is in the gap when it shows no verdict; the two records chips lead to as many
\* rows as they count; and "never run" asks for rows of the gap, for all of them when
\* the question names the test.
GapIsRight(f, w) ==
    LET pairs == ToSet(JobPairs(f, w))
        never == [f EXCEPT !["ran"] = <<"never">>]
        open  == [f EXCEPT !["ran"] = <<"any">>]
    IN /\ \A row \in pairs : row.gap <=> row.last = ""
       /\ Todo(f, w) # {} =>
            Len(JobRows(JobsChip(f, Cardinality(Todo(f, w))), w)) = Countable(Cardinality(Todo(f, w)))[1]
       /\ AllRecords # 0 => LedgerRows(JobsChip(f, AllRecords)) = Countable(AllRecords)[1]
       /\ \A row \in ToSet(JobPairs(never, w)) : row.gap
       /\ f["test"] # <<>> /\ f["verdict"] = <<>> =>
            ToSet(JobPairs(never, w)) = {row \in ToSet(JobPairs(open, w)) : row.gap}

JobsBarsKeep ==
    \A f \in Questions :
        LET unpaged == [f EXCEPT !["offset"] = <<0>>]
        IN /\ SubmitJobs(f, JobsMain) = unpaged
           /\ f["origin"] \notin {<<"card">>, <<"both">>} => SubmitJobs(f, JobsFold) = unpaged

\* What the button runs of the boxes that can be ticked is in the table, lacks nothing,
\* and has no record; the rest of them has one.
RunIsRight(f, w) ==
    LET ticks == Tickable(f, w)
    IN /\ \A p \in RunOf(ticks, FALSE) :
            p[1] \in w.card /\ DOMAIN Lacking(w, p[1], p[2]) = {} /\ p \in Todo([f EXCEPT !["test"] = <<>>], w)
       /\ ticks \ RunOf(ticks, FALSE) \subseteq
            {<<row.build, row.test>> : row \in {r \in ToSet(JobRows(f, w)) : r.last # ""}}

ShelvesAreRight ==
    \A shelf \in Shelves, page \in {PageOf(q) : q \in {one \in Asked : ~Refused(one)}} :
        ShelfIsRight(shelf, page)
GapBases == {base \in Bases : \A w \in WorldsOf(base) : \A f \in Questions : GapIsRight(f, w)}
RunBases == {base \in Bases : \A w \in WorldsOf(base) : \A f \in Questions : RunIsRight(f, w)}

\* Whatever the commands have left on disk: the chips of the builds page drop the reader's
\* question and lead to as many rows as they print, of what they count; the union preset
\* leads to as many as it prints; a page is drawn once, none is empty and together they are
\* all rows; "never run" leads to the gap; a bar that is submitted as it was drawn asks the
\* same question again (pages/builds.py, `_chip`, `_matched`, `_presets`, `_bar`;
\* pages/jobs.py and pages/runs.py).  The other two presets do not promise their number:
\* that of the cards is the whole table's and its link keeps the reader's question, so it
\* leads to cards and to no more than that, and that of the window counts the API's answer
\* and leads to it and to cards beside it.  Not claimed, as the code has it otherwise: the
\* count of what is here where a failed pull left an empty directory, the bar over the two
\* origins it has no box for, and a console launched on a named API (Launch is none here),
\* whose links drop that name.
LinksLeadWhereTheySay ==
    (\A p \in Processes : ~Busy(p)) =>
        BarsKeep /\ JobsBarsKeep /\ ShelvesAreRight /\ Now \in GoodBases \cap GapBases

\* Whatever is on disk and whichever rows are ticked, the smart button picks by the rows
\* furthest behind and acts on every row that is behind and on no other: `run` only when
\* all have card and bytes, `pull` only when all have cards, so that table.py looks up no
\* id the table lacks (actions.py, `_smart`; table.py:86).  Of `index_pull` nothing more is
\* said: an id its index does not bring ends the pull for all, and so does a row whose card
\* went between press and pull.  The jobs page runs of the boxes it lets a reader tick
\* exactly the pairs without a record, and none that has to be fetched first
\* (pages/jobs.py, `_tick_cell`; table.py, `_main`).
ButtonsGoThrough ==
    (\A p \in Processes : ~Busy(p)) => Now \in SmartBases \cap RunBases
=============================================================================
