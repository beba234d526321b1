------------------------------ MODULE Sorting ------------------------------
(***************************************************************************)
(* Orders (lib/gui/sorting.py): how a page's `sort` is read, written and   *)
(* changed by its chips, and how it puts rows in order.  A word of `sort`  *)
(* is a key with a direction, or with "" for the key's own.  A row has a   *)
(* number for every text the sort compares, in the order of the texts; the *)
(* number 0 is the empty text.                                             *)
(***************************************************************************)
EXTENDS Sequencing, SequencesExt

SortKeys == {"date", "tree", "branch", "tree-branch", "series", "verdict", "id"}
DirOf(name) == IF name = "date" THEN "desc" ELSE "asc"
NewestFirst == << <<"date", "desc">> >>

\* SORT_ALIASES: whole values that stand for an order of their own.
Aliases(words) ==
    CASE words \in {<<>>, << <<"date", "">> >>} -> NewestFirst
      [] words = << <<"date-asc", "">> >>    -> << <<"date", "asc">> >>
      [] words = << <<"build", "">> >>       -> << <<"id", "asc">> >>
      [] words = << <<"same-branch", "">> >> -> << <<"tree-branch", "asc">>, <<"date", "desc">> >>
      [] words = << <<"verdict", "">> >>     -> << <<"verdict", "asc">>, <<"date", "desc">> >>
      [] OTHER -> <<>>

\* Unknown keys are left out and a key named twice counts where it first stands.
SortOrder(words) ==
    IF Aliases(words) # <<>> THEN Aliases(words)
    ELSE LET first == {i \in DOMAIN words : /\ words[i][1] \in SortKeys
                                            /\ \A j \in 1..(i - 1) : words[j][1] # words[i][1]}
             named == Those(words, first)
             read  == [k \in DOMAIN named |->
                         <<named[k][1], IF named[k][2] \in {"asc", "desc"} THEN named[k][2]
                                        ELSE DirOf(named[k][1])>>]
         IN IF read = <<>> THEN NewestFirst ELSE read

\* A direction is spelled when it is not the key's own.
Spelled(order) ==
    [i \in DOMAIN order |-> <<order[i][1], IF order[i][2] = DirOf(order[i][1]) THEN ""
                                           ELSE order[i][2]>>]
SortSpec(words) == IF SortOrder(words) = NewestFirst THEN <<>> ELSE Spelled(SortOrder(words))

Reversed(dir) == IF dir = "asc" THEN "desc" ELSE "asc"

\* The links of a sort chip, and the ones that add a key.
Flip(order, name) ==
    Spelled([i \in DOMAIN order |-> IF order[i][1] = name
                                    THEN <<name, Reversed(order[i][2])>> ELSE order[i]])
Drop(order, name) == Spelled(SelectSeq(order, LAMBDA w : w[1] # name))
Add(order, name)  == Spelled(Append(order, <<name, DirOf(name)>>))

-----------------------------------------------------------------------------
(* Rows                                                                    *)

VerdictRanks == <<"fail", "error", "incomplete", "pass", "">>

\* The place of a verdict in the order "by verdict" means: the worst first, no
\* record at all last but for a verdict nobody knows.
RankOf(verdict) ==
    IF Contains(VerdictRanks, verdict)
    THEN CHOOSE i \in DOMAIN VerdictRanks : VerdictRanks[i] = verdict
    ELSE Len(VerdictRanks) + 1

SortCell(row, name) ==
    CASE name = "tree-branch" -> <<row.tree, row.branch>>
      [] name = "verdict"     -> <<RankOf(row.verdict)>>
      [] name = "id"          -> <<row.build>>
      [] name = "date"        -> <<row.created, row.build>>
      [] OTHER                -> <<row[name]>>

\* Two cells of one key: tuples are compared from the left.
Less(a, b) ==
    \E i \in DOMAIN a : a[i] < b[i] /\ \A j \in 1..(i - 1) : a[j] = b[j]

\* `list.sort` by one key, in either direction: rows that are equal stay as they are.
SortBy(rows, name, dir) ==
    LET cell == [i \in DOMAIN rows |-> SortCell(rows[i], name)]
    IN  Arranged(rows, {p \in (DOMAIN rows) \X (DOMAIN rows) :
            \/ dir = "asc"  /\ Less(cell[p[1]], cell[p[2]])
            \/ dir = "desc" /\ Less(cell[p[2]], cell[p[1]])
            \/ cell[p[1]] = cell[p[2]] /\ p[1] < p[2]})

\* `_sort_rows`: the last key first, so that the first one decides.
SortRows(rows, order) ==
    FoldLeft(LAMBDA sorted, key : SortBy(sorted, key[1], key[2]), rows, Reverse(order))

-----------------------------------------------------------------------------
(* What an order is for.                                                   *)

\* Rows are in an order when the first key two of them differ in is the right way
\* round, and rows that differ in none are as they were given.
InOrder(sorted, order, given) ==
    LET At(i, row) == SortCell(row, order[i][1])
        Place(row) == CHOOSE i \in DOMAIN given : given[i] = row
    IN  /\ ToSet(sorted) = ToSet(given) /\ Len(sorted) = Len(given)
        /\ \A i, j \in DOMAIN sorted : i < j =>
            LET differ == {k \in DOMAIN order : At(k, sorted[i]) # At(k, sorted[j])}
                first  == CHOOSE k \in differ : \A l \in differ : k <= l
            IN  IF differ = {} THEN Place(sorted[i]) < Place(sorted[j])
                ELSE IF order[first][2] = "asc"
                THEN Less(At(first, sorted[i]), At(first, sorted[j]))
                ELSE Less(At(first, sorted[j]), At(first, sorted[i]))

\* What a chip leads to is read as the order the chip says.  One whole value is an
\* alias for more than its word ("verdict"), so that an order may go on after it.
ChipsKeep(order) ==
    LET names == {order[i][1] : i \in DOMAIN order}
        Says(link, wanted) == IsPrefix(wanted, SortOrder(link))
    IN  /\ \A name \in names :
            /\ Says(Flip(order, name), [i \in DOMAIN order |->
                    IF order[i][1] = name THEN <<name, Reversed(order[i][2])>> ELSE order[i]])
            /\ Len(order) > 1 => Says(Drop(order, name), SelectSeq(order, LAMBDA w : w[1] # name))
        /\ \A name \in SortKeys \ names : Says(Add(order, name), Append(order, <<name, DirOf(name)>>))
=============================================================================
