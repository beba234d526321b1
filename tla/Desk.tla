------------------------------- MODULE Desk --------------------------------
(***************************************************************************)
(* The builds page over the builds of this machine: which rows a question  *)
(* has (models.py, Filter.accepts; reads.py, build_rows), the numbers the  *)
(* page prints beside links (pages/builds.py) and what a link or a bar of  *)
(* the page asks next.  Everything is a function of a world, what the disk *)
(* holds and whether the API answers; WorldsOf says which worlds a state   *)
(* of Builds stands for.                                                   *)
(***************************************************************************)
EXTENDS Builds, Questions, TLC

CONSTANTS
    Dates,        \* when a build was made: the higher, the newer
    Rank,         \* the order of the build ids
    Facts,        \* what a card says of a build: field -> word
    Texts,        \* the searches that find it
    Said,         \* its records, oldest first: <<test, verdict>>
    RemoteHas,    \* the artifacts the API names for it
    Some,         \* the artifacts of a copy that is not whole
    Asked,        \* bound: the queries a reader starts from
    Today

Press == INSTANCE Commands WITH Builds <- Ids

ASSUME DeskAssumption ==
    /\ Dates \in [Ids -> 1..Today] /\ Rank \in [Ids -> Nat] /\ IsInjective(Rank)
    /\ Some \subseteq Artifacts /\ Some # {} /\ IsFiniteSet(Ids)
    /\ Said \in [Ids -> Seq(Tests \X Verdicts)]
    /\ Asked # {} /\ \A q \in Asked, k \in Keys : k \in DOMAIN q =>
          /\ q[k] \in Seq(ToSet(q[k]))
          /\ \A value \in ToSet(q[k]) : value \in Seq(IF k \in Numbers THEN Int ELSE ToSet(value))

-----------------------------------------------------------------------------
(* What this machine holds of a build                                      *)

\* Bytes of every artifact, of some, or none in a directory a failed pull left; the
\* newest act of a whole copy names files, remote URLs, or there is none.
Acts == {"none", "file", "fetched"}

Present(w, b) == IF b \in w.whole THEN Artifacts ELSE IF b \in w.part THEN Some ELSE {}
Entries(w, b) == IF b \in w.whole THEN w.act ELSE "none"
Locals(w)     == w.card \cup w.dirs

\* `Local.state`; every card here came from a node.
StateOf(w, b) ==
    CASE Entries(w, b) = "file"    -> "made-here"
      [] Entries(w, b) = "fetched" -> "pulled"
      [] Entries(w, b) = "none" /\ Present(w, b) # {} -> "unrecorded"
      [] Entries(w, b) = "none" /\ Present(w, b) = {} ->
             IF b \in w.card THEN "registered" ELSE "empty"

-----------------------------------------------------------------------------
(* Which rows a question has                                               *)

\* The origin axis.  `told`: a card is at hand, this machine's or the API's.
OriginHolds(f, w, b, told) ==
    LET sides == ToSet(f["origin"])
        here  == b \in Locals(w) /\ (b \in w.card \/ Present(w, b) # {})
    IN CASE sides = {"any"}   -> TRUE
         [] "card" \in sides  -> b \in w.card
         [] "both" \in sides  -> here /\ told
         [] OTHER -> ("local" \in sides /\ here) \/ ("remote" \in sides /\ told)

ArtifactsHold(f, w, b, told) ==
    LET has == IF b \in Locals(w) THEN Present(w, b) ELSE IF told THEN RemoteHas[b] ELSE {}
    IN ToSet(f["has"]) \subseteq has /\ ToSet(f["missing"]) \cap has = {}

EvidenceHolds(f, w, b) ==
    LET wanted == ToSet(f["evidence"]) \ {"any"}
    IN wanted # {} =>
        /\ b \in Locals(w)
        /\ StateOf(w, b) \in wanted \/ ("bytes" \in wanted /\ Present(w, b) # {})

\* The record axes, narrowed to one test when the question names it.
RecordsHold(f, b) ==
    LET mine == SelectSeq(Said[b], LAMBDA r : f["test"] = <<>> \/ r[1] = f["test"][1])
        ran  == f["ran"][1]
    IN /\ ran = "never" => mine = <<>>
       /\ ran = "ever"  => mine # <<>>
       /\ ran = "failing" => \E i \in DOMAIN mine : mine[i][2] = "fail"
       /\ f["verdict"] # <<>> => mine # <<>> /\ Last(mine)[2] \in ToSet(f["verdict"])

\* `Filter.accepts`: a row without a card has no field and no text to be asked about,
\* and no record axis.
Accepts(f, w, b, told) ==
    /\ IF told
       THEN /\ \A k \in Fields : f[k] # <<>> => Facts[b][k] \in ToSet(f[k])
            /\ f["text"] # <<>> => f["text"][1] \in Texts[b]
       ELSE f["text"] = <<>> /\ \A k \in Fields : f[k] = <<>>
    /\ OriginHolds(f, w, b, told)
    /\ ArtifactsHold(f, w, b, told)
    /\ EvidenceHolds(f, w, b)
    /\ told => RecordsHold(f, b)

\* What the wire half of the question (`_api_query`) matches.
ApiMatches(f, b) ==
    /\ \A k \in Fields : f[k] # <<>> => Facts[b][k] \in ToSet(f[k])
    /\ f["days"] # <<0>> => Today - Dates[b] <= f["days"][1]

\* `remote_rows`: the newest of them, then the rest of the question.
Answer(f, w) ==
    LET matching == {b \in Ids : w.api /\ ApiMatches(f, b)}
        newest == {b \in matching :
                      Cardinality({c \in matching : Dates[c] > Dates[b]}) < f["limit"][1]}
    IN {b \in newest : Accepts(f, w, b, TRUE)}

\* `filtered_locals`.
FilteredLocals(f, w) == {b \in Locals(w) : Accepts(f, w, b, b \in w.card)}

AllRows(f, w) == Answer(f, w) \cup FilteredLocals(f, w)

\* A row's date: that of a card, this machine's or the API's, or that of the act of a
\* copy without one, which is newer than any card, or none at all.
When(w, b, told) == IF told THEN Dates[b] ELSE IF Entries(w, b) # "none" THEN Today + 1 ELSE 0

\* `build_rows`: newest first, and the cap after the merge; the view of the cards has
\* no cap but the largest there is.
Cap(f) == IF f["origin"] = <<"card">> THEN MaxLimit ELSE f["limit"][1]

BuildRows(f, w) ==
    LET answer == Answer(f, w)
        all == answer \cup FilteredLocals(f, w)
        when == [b \in all |-> When(w, b, b \in w.card \cup answer)]
        Above(c, b) == when[c] > when[b] \/ (when[c] = when[b] /\ Rank[c] > Rank[b])
        place == [b \in all |-> Cardinality({c \in all : Above(c, b)})]
    IN {b \in all : place[b] >= f["offset"][1] /\ place[b] < f["offset"][1] + Cap(f)}

-----------------------------------------------------------------------------
(* Links                                                                   *)

Follow(route, f, dropped, over) == FromQuery(Url(route, f, dropped, over))

\* `_countable`: a number no link can carry is cut.
Countable(n) == <<IF n > MaxLimit THEN MaxLimit ELSE n>>

\* The chips that lead to rows of this page, with the sets their numbers count.
ChipSet(chip, w) ==
    CASE chip = "cards" -> w.card
      [] chip = "here"  -> Locals(w)
      [] chip = "bytes" -> {b \in Locals(w) : Present(w, b) # {}}

\* Mutant: the link inherits the side of the page it is drawn on.
ChipKeepsSide(chip, f, w) ==
    LET n == Countable(Cardinality(ChipSet(chip, w)))
    IN CASE chip = "cards" -> Follow("/", f, FilterKeys, ("origin" :> <<"card">>) @@ ("limit" :> n))
         [] chip = "here"  -> Follow("/", f, FilterKeys, ("origin" :> <<"local">>) @@ ("limit" :> n))
         [] chip = "bytes" -> Follow("/", f, FilterKeys \ {"origin"},
                                     ("evidence" :> <<"bytes">>) @@ ("limit" :> n))

\* `_chip`: the number is the limit, and the rest of the question is dropped.
Chip(chip, f, w) ==
    LET n == Countable(Cardinality(ChipSet(chip, w)))
    IN CASE chip = "cards" -> Follow("/", f, FilterKeys, ("origin" :> <<"card">>) @@ ("limit" :> n))
         [] chip = "here"  -> Follow("/", f, FilterKeys, ("origin" :> <<"local">>) @@ ("limit" :> n))
         [] chip = "bytes" -> Follow("/", f, FilterKeys, ("origin" :> <<"any">>)
                                     @@ ("evidence" :> <<"bytes">>) @@ ("limit" :> n))

\* `pager`: the pages and the question behind each.
Pages(f, w) ==
    LET total == IF f["origin"] = <<"card">> THEN Cardinality(BuildRows(f, w))
                 ELSE Cardinality(AllRows(f, w))
    IN {n \in 1..(Cardinality(Ids) + 1) : n = 1 \/ (n - 1) * Cap(f) < total}

PageLink(f, n) == Follow("/", f, {}, "offset" :> <<(n - 1) * Cap(f)>>)

\* `_presets`: the view each leads to; the union's own number is counted with the origin
\* open, as is the API's answer, whose size is the number of the window.
View(side, f, w) == AllRows(Follow("/", f, {}, "origin" :> <<side>>), w)
Opened(f) == [f EXCEPT !["origin"] = <<"any">>]
UnionCount(f, w) == Cardinality(AllRows(Opened(f), w))

\* The two bars: what a submitted one asks.  The two boxes of the origin are ticked
\* one by one; `card` is neither of them.
Main == (Fields \cup {"api"}) \ {"state", "result"}
Fold == {"origin", "evidence", "missing", "days", "limit", "text"}
            \cup (Fields \cap {"state", "result"})

Drawn(f, k) ==
    IF k # "origin" THEN <<f[k]>>
    ELSE LET sides == IF f[k] = <<"both">> THEN <<"local", "remote">>
                      ELSE SelectSeq(f[k], LAMBDA w : w \in {"local", "remote"})
         IN [i \in DOMAIN sides |-> <<sides[i]>>]

Submit(f, bar) == FromQuery(Carried("/", f, bar) @@ [k \in bar |-> Drawn(f, k)])

-----------------------------------------------------------------------------
(* The smart button                                                        *)

\* Mutant: bytes on disk are taken for a build that can be run.
StageByBytes(w, b) == IF Present(w, b) # {} THEN Press!Held
                      ELSE IF b \in w.card THEN Press!Known ELSE Press!Unknown

\* The step a ticked row needs, read off the copy (actions.py, `_smart`).
Stage(w, b) == IF b \notin w.card THEN Press!Unknown
               ELSE IF Present(w, b) # {} THEN Press!Held ELSE Press!Known

-----------------------------------------------------------------------------
(* Correctness.                                                            *)

Questions == {FromQuery(q) : q \in {one \in Asked : ~Refused(one)}}

ChipsAreRight(w) ==
    \A f \in Questions, chip \in {"cards", "here", "bytes"} :
        LET n == Cardinality(ChipSet(chip, w))
            rows == BuildRows(Chip(chip, f, w), w)
        IN n # 0 /\ (chip = "here" => w.dirs \subseteq w.card \cup w.whole \cup w.part)
               => Cardinality(rows) = Countable(n)[1] /\ rows \subseteq ChipSet(chip, w)

PagesPartition(f, w) ==
    LET all == AllRows(f, w)
        rows == [n \in Pages(f, w) |-> BuildRows(PageLink(f, n), w)]
    IN /\ \A n \in DOMAIN rows : PageLink(f, n) = [f EXCEPT !["offset"] = <<(n - 1) * Cap(f)>>]
       /\ \A n \in DOMAIN rows : rows[n] # {} \/ all = {}
       /\ \A m, n \in DOMAIN rows : m # n => rows[m] \cap rows[n] = {}
       /\ UNION {rows[n] : n \in DOMAIN rows} = all

LinksAreRight(f, w) ==
    /\ f["origin"] # <<"card">> => PagesPartition(f, w)
    /\ Cardinality(View("any", f, w)) = UnionCount(f, w)
    /\ View("card", f, w) \subseteq w.card
    /\ Answer(Opened(f), w) \subseteq View("remote", f, w)
    /\ View("remote", f, w) \subseteq Answer(Opened(f), w) \cup w.card
    /\ Locals(w) \subseteq AllRows(Follow("/", f, FilterKeys, <<>>), w)

BarsKeep ==
    \A f \in Questions :
        LET unpaged == [f EXCEPT !["offset"] = <<0>>]
        IN /\ Submit(f, Main) = unpaged
           /\ f["origin"] \notin {<<"card">>, <<"both">>} => Submit(f, Fold) = unpaged

SmartGoesThrough(w) ==
    \A ticks \in (SUBSET Ids) \ {{}} :
        LET stage == [b \in Ids |-> Stage(w, b)]
            acted == Press!ActedOn("smart", stage, ticks)
            behind == {b \in ticks : b \notin w.card \/ Present(w, b) = {}}
        IN CASE Press!CommandOf("smart", stage, ticks) = "index_pull" ->
                    acted = behind /\ ~(acted \subseteq w.card)
             [] Press!CommandOf("smart", stage, ticks) = "pull" ->
                    acted = behind /\ acted \subseteq w.card /\ acted # {}
             [] Press!CommandOf("smart", stage, ticks) = "run" ->
                    acted = ticks /\ \A b \in acted : b \in w.card /\ Present(w, b) # {}

\* What a state of Builds is to the page, and the worlds that can be behind it.
Bases == UNION {{[card |-> card, dirs |-> dirs, whole |-> held] :
                    card \in SUBSET Ids, held \in SUBSET dirs} : dirs \in SUBSET Ids}

WorldsOf(base) ==
    {[card |-> base.card, dirs |-> base.dirs, whole |-> base.whole, part |-> part,
      act |-> act, api |-> act # "none"] :
        part \in SUBSET (base.dirs \ base.whole), act \in Acts}

GoodBases ==
    {base \in Bases : \A w \in WorldsOf(base) :
        ChipsAreRight(w) /\ \A f \in Questions : LinksAreRight(f, w)}

SmartBases == {base \in Bases : \A w \in WorldsOf(base) : SmartGoesThrough(w)}

Now == [card |-> Known(table), dirs |-> ToSet(copies), whole |-> whole]
=============================================================================
