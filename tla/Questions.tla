----------------------------- MODULE Questions -----------------------------
(***************************************************************************)
(* A question as the pages of lib/gui carry it: read from a query string   *)
(* (models.py, Filter.from_query, forms.py), written back into the links   *)
(* and the hidden fields of the next page (urls.py) and kept by every      *)
(* control that changes one part of it (sorting.py).                       *)
(*                                                                         *)
(* A query maps each key it carries to its values in order, a value being  *)
(* the words of a comma list: tree=a,b&tree=c is <<<<"a","b">>,<<"c">>>>.  *)
(* A question maps every key to one value.  A number is one word; text     *)
(* that is no number reads as 0.  The language, which every link keeps,    *)
(* and the question's own notes on what it refused are left out.           *)
(***************************************************************************)
EXTENDS Sorting

CONSTANTS
    Fields,        \* MULTI_FIELDS: what a card says of itself (tree, branch, ...)
    Tokens,        \* words forms._token lets through
    Artifacts, Tests, States,
    DefaultLimit, MaxLimit, MaxDays,
    ApiNames,      \* Apis.names: name -> base
    Launch         \* Apis.launch: the base this console was started on

ASSUME QuestionsAssumption ==
    /\ DefaultLimit \in 1..MaxLimit /\ MaxLimit \in Nat /\ MaxDays \in Nat
    /\ Fields \subseteq {"tree", "branch", "arch", "defconfig", "compiler", "state", "result"}
    /\ Launch # "" /\ "" \notin DOMAIN ApiNames
    /\ \A m, n \in DOMAIN ApiNames : ApiNames[m] = ApiNames[n] => m = n

Production == ApiNames["production"]
Origins    == <<"any", "local", "remote", "both", "card">>
Rans       == {"any", "never", "ever", "failing"}
Evidence   == States \cup {"any", "bytes"}
Verdicts   == {"pass", "fail", "infra", "error"}

Numbers    == {"days", "limit", "offset", "delta"}
Chosen     == {"verdict", "evidence"}
OneOf      == {"ran", "test", "mode", "tz"}
Lists      == {"has", "missing"}
Free       == {"text", "job"}
Keys       == Fields \cup Numbers \cup Chosen \cup OneOf \cup Lists \cup Free
                  \cup {"api", "tests", "origin", "sort"}

Options(k) == CASE k = "verdict"  -> Verdicts
                [] k = "evidence" -> Evidence
                [] k = "ran"      -> Rans
                [] k = "test"     -> Tests
                [] k = "mode"     -> {"each"}
                [] k = "tz"       -> {"local", "utc"}

DefaultOf(k) == CASE k \in {"ran", "evidence", "origin"} -> <<"any">>
                  [] k = "tz"                  -> <<"local">>
                  [] k \in {"days", "offset"}  -> <<0>>
                  [] k = "limit"               -> <<DefaultLimit>>
                  [] k = "delta"               -> <<3>>
                  [] OTHER                     -> <<>>

-----------------------------------------------------------------------------
(* Reading words                                                           *)

Query(k, value) == [one \in {k} |-> <<value>>]
Values(q, k) == IF k \in DOMAIN q THEN q[k] ELSE <<>>
FirstValue(q, k) == IF Values(q, k) = <<>> THEN <<>> ELSE Head(q[k])
Words(q, k)  == FlattenSeq(Values(q, k))

\* dict.fromkeys: every word once, where it first stands.
Once(words) == FoldLeft(LAMBDA met, w : IF Contains(met, w) THEN met ELSE Append(met, w),
                        <<>>, words)

Clamp(n, low, high) == IF n < low THEN low ELSE IF n > high THEN high ELSE n
Number(q, k) == IF FirstValue(q, k) = <<>> THEN DefaultOf(k)[1] ELSE FirstValue(q, k)[1]

\* A name on the command line is never made of anything but a token, and a
\* choice is never one that is not offered: such a question is refused.
Refused(q) ==
    \/ \E k \in Fields : ~(ToSet(Words(q, k)) \subseteq Tokens)
    \/ \E k \in Chosen : ~(ToSet(Words(q, k)) \subseteq Options(k))

\* Both sides are a pair of ticks; a view is one word, the first there is.
OriginOf(words) ==
    LET named == (ToSet(words) \cap ToSet(Origins)) \ {"any"}
    IN CASE named = {} -> <<"any">>
         [] named # {} /\ named \subseteq {"local", "remote"} ->
                SelectSeq(<<"local", "remote">>, LAMBDA w : w \in named)
         [] OTHER -> <<Head(SelectSeq(Origins, LAMBDA w : w \in named))>>

-----------------------------------------------------------------------------
(* The deployment asked (models.py, Apis)                                  *)

\* Only http and https URLs are taken for one.
ApiUrls == {ApiNames[n] : n \in DOMAIN ApiNames} \cup {Launch}

Base(value) ==
    CASE value = ""       -> Launch
      [] value = "launch" -> Launch
      [] value \in DOMAIN ApiNames -> ApiNames[value]
      [] value \in ApiUrls   -> value
      [] OTHER            -> ""

\* The launch base is the key no link carries; a base with a name is the name.
KeyOf(base) ==
    IF base \in {"", Launch} THEN <<>>
    ELSE IF \E n \in DOMAIN ApiNames : ApiNames[n] = base
    THEN <<CHOOSE n \in DOMAIN ApiNames : ApiNames[n] = base>> ELSE <<base>>

\* The base a page reads.  A query that names none is about production.
ApiBase(q) == IF FirstValue(q, "api") = <<>> THEN Base("production") ELSE Base(FirstValue(q, "api")[1])

-----------------------------------------------------------------------------
(* Questions                                                               *)

FromQuery(q) ==
    LET limit == Clamp(Number(q, "limit"), 1, MaxLimit)
        OneOfThem(k) == IF FirstValue(q, k) # <<>> /\ Len(FirstValue(q, k)) = 1
                            /\ FirstValue(q, k)[1] \in Options(k)
                        THEN FirstValue(q, k) ELSE DefaultOf(k)
    IN [k \in Keys |->
          CASE k = "api"     -> KeyOf(ApiBase(q))
            [] k \in Fields  -> Once(Words(q, k))
            [] k \in Chosen  -> IF Words(q, k) = <<>> THEN DefaultOf(k) ELSE Once(Words(q, k))
            [] k \in OneOf   -> OneOfThem(k)
            [] k \in Lists   -> SelectSeq(Words(q, k), LAMBDA w : w \in Artifacts)
            [] k = "tests"   -> Once(SelectSeq(Words(q, k), LAMBDA w : w \in Tests))
            [] k = "origin"  -> OriginOf(Words(q, k))
            [] k = "days"    -> <<Clamp(Number(q, k), 0, MaxDays)>>
            [] k = "limit"   -> <<limit>>
            [] k = "offset"  -> <<IF Number(q, k) < 0 THEN 0 ELSE Number(q, k)>>
            [] k = "delta"   -> <<Clamp(Number(q, k), 0, limit)>>
            [] k = "sort"    -> SortSpec(FirstValue(q, k))
            [] OTHER         -> FirstValue(q, k)]

\* What a link of this question carries: everything that is not the default,
\* and never how far the reader has paged.
ToQuery(f) ==
    [k \in {one \in Keys \ {"offset"} : f[one] # DefaultOf(one)} |-> <<f[k]>>]

\* FILTER_ORDER and ROUTE_KEYS: the part of a question each page reads.
FilterKeys == Keys \ {"offset", "delta", "mode", "tz", "tests", "job"}
RouteKeys(route) ==
    CASE route \in {"/", "/jobs"} -> FilterKeys \cup {"tz"}
      [] route = "/runs"     -> {"state", "limit", "api", "tz"} \cap Keys
      [] route = "/worker"   -> {"state", "job", "text", "limit", "mode", "api", "tz"} \cap Keys
      [] route = "/analysis" -> FilterKeys \cup {"delta", "tz"}
      [] route = "/trend"    -> FilterKeys \cup {"tests", "mode", "tz"}

\* `_url`: the question without the dropped keys, with what is laid over it in
\* their place (an empty value takes a key away), and of all this only what the
\* page there reads or the link named itself.
Url(route, f, dropped, over) ==
    LET asked == ToQuery(f)
        laid  == {k \in DOMAIN over : over[k] # <<>>}
        kept  == (DOMAIN asked \ (dropped \cup DOMAIN over)) \cap (RouteKeys(route) \cup {"api"})
    IN [k \in laid \cup kept |-> IF k \in laid THEN <<over[k]>> ELSE asked[k]]

\* The hidden fields of a bar: what its own controls do not ask.
Carried(route, f, drawn) ==
    LET asked == ToQuery(f)
    IN [k \in ((DOMAIN asked \cap RouteKeys(route)) \ drawn) |-> asked[k]]
=============================================================================
