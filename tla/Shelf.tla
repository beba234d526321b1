------------------------------- MODULE Shelf -------------------------------
(***************************************************************************)
(* The activities page (lib/gui/design/pages/runs.py) and the poll that    *)
(* draws its table again (script.py, drawTable): the kinds that are folded *)
(* away, the groups, the pages (ui.py, page_slice and pager) and the links *)
(* that lead here.  A shelf is the activities on disk, newest first, each  *)
(* with an id, a kind and a state.  The page's kinds are no part of a      *)
(* question: a page asked is a question and the kinds beside it.           *)
(***************************************************************************)
EXTENDS Questions, TLC

CONSTANTS
    KindOrder,   \* KIND_ORDER: every kind of activity, in the order of the groups
    Folded,      \* FOLDED_KINDS
    Shelves      \* bound: the activities there may be

ASSUME ShelfAssumption == Folded \subseteq ToSet(KindOrder) /\ IsInjective(KindOrder)

\* `_page_state`: the kinds are read as a set of words, like a field.
PageOf(q) == [kinds |-> Once(Words(q, "kind")), f |-> FromQuery(q)]

KindsOn(shelf) == {shelf[i].kind : i \in DOMAIN shelf}

\* The kinds shown, `{}` for all: those asked for, or the ones that are not folded.
Wanted(shelf, page) ==
    IF page.kinds # <<>> THEN ToSet(page.kinds) ELSE KindsOn(shelf) \ Folded
StatesOf(page) == IF "state" \in Keys THEN ToSet(page.f["state"]) ELSE {}

Grouped(rows) ==
    FlattenSeq([i \in DOMAIN KindOrder |-> SelectSeq(rows, LAMBDA r : r.kind = KindOrder[i])])

Shown(shelf, page) ==
    Grouped(SelectSeq(shelf, LAMBDA r :
        /\ Wanted(shelf, page) = {} \/ r.kind \in Wanted(shelf, page)
        /\ StatesOf(page) = {} \/ r.state \in StatesOf(page)))

\* `page_slice`: an offset past the end is the last page's.
OffsetOf(total, page) ==
    LET limit == page.f["limit"][1]
        last  == ((IF total = 0 THEN 0 ELSE total - 1) \div limit) * limit
    IN IF page.f["offset"][1] < last THEN page.f["offset"][1] ELSE last

Slice(shelf, page) ==
    LET rows  == Shown(shelf, page)
        from  == OffsetOf(Len(rows), page)
        upto  == from + page.f["limit"][1]
    IN SubSeq(rows, from + 1, IF upto < Len(rows) THEN upto ELSE Len(rows))

\* The rows that open a group on the page, and what their captions count.
Opens(rows) == {i \in DOMAIN rows : \A j \in 1..(i - 1) : rows[j].kind # rows[i].kind}
CountOf(shelf, page, kind) == Len(SelectSeq(Shown(shelf, page), LAMBDA r : r.kind = kind))

\* `data-rows="all"`: nothing is left out, so that the poll may draw the table again.
Whole(shelf, page) ==
    /\ StatesOf(page) = {}
    /\ Wanted(shelf, page) = {} \/ KindsOn(shelf) \subseteq Wanted(shelf, page)
    /\ OffsetOf(Len(Shown(shelf, page)), page) = 0
    /\ Len(Shown(shelf, page)) <= page.f["limit"][1]

\* `drawTable`: the groups in the order the server gave, over everything on disk.
DrawnAgain(shelf) ==
    LET kinds == SelectSeq(KindOrder, LAMBDA k : k \in KindsOn(shelf))
    IN FlattenSeq([i \in DOMAIN kinds |-> SelectSeq(shelf, LAMBDA r : r.kind = kinds[i])])

-----------------------------------------------------------------------------
(* Links                                                                   *)

KindList(shelf) == SelectSeq(KindOrder, LAMBDA k : k \in KindsOn(shelf))
OrderOfPages(shelf, page) ==
    LET total == Len(Shown(shelf, page))  limit == page.f["limit"][1]
    IN IF total = 0 THEN <<1>> ELSE [n \in 1..((total + limit - 1) \div limit) |-> n]

\* A page link keeps the kinds that were asked for, and no others.
ToPage(page, n) ==
    PageOf(Url("/runs", page.f, {},
               ("offset" :> <<(n - 1) * page.f["limit"][1]>>) @@ ("kind" :> page.kinds)))

\* The line that says rows are folded away, and the chip that counts them all.
ShowAll(shelf, page) == PageOf(Url("/runs", page.f, {}, "kind" :> KindList(shelf)))
ActivitiesChip(shelf, f) ==
    LET n == IF Len(shelf) > MaxLimit THEN MaxLimit ELSE Len(shelf)
    IN PageOf(Url("/runs", f, FilterKeys, ("kind" :> KindList(shelf)) @@ ("limit" :> <<n>>)))

-----------------------------------------------------------------------------
(* Correctness.                                                            *)

\* The pages, one after the other, are the rows; a page opens each of its groups; a
\* table the poll may draw again stays as it is; and the chip and the line that unfolds
\* lead to every activity there is.
ShelfIsRight(shelf, page) ==
    LET rows  == Shown(shelf, page)
        drawn == Slice(shelf, page)
    IN /\ FlattenSeq([n \in DOMAIN OrderOfPages(shelf, page) |->
                        Slice(shelf, ToPage(page, OrderOfPages(shelf, page)[n]))]) = rows
       /\ drawn = <<>> => rows = <<>>
       /\ {drawn[i].kind : i \in Opens(drawn)} = KindsOn(drawn)
       /\ FoldSet(LAMBDA k, n : n + CountOf(shelf, page, k), 0, KindsOn(rows)) = Len(rows)
       /\ Whole(shelf, page) => DrawnAgain(shelf) = drawn
       /\ page.kinds = <<>> /\ StatesOf(page) = {} =>
            ToSet(Shown(shelf, ShowAll(shelf, page))) = ToSet(shelf)
       /\ shelf # <<>> =>
            LET led == ActivitiesChip(shelf, page.f)
            IN /\ ToSet(Shown(shelf, led)) = ToSet(shelf)
               /\ Len(Slice(shelf, led)) = (IF Len(shelf) > MaxLimit THEN MaxLimit ELSE Len(shelf))
               /\ Len(shelf) <= MaxLimit => Whole(shelf, led)
=============================================================================
