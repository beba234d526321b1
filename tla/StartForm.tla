------------------------------ MODULE StartForm ------------------------------
(***************************************************************************)
(* What the worker's page asks and what its start button runs              *)
(* (lib/gui/design/pages/worker.py; actions.py, `command`; kjob.py and     *)
(* poller.py for what the worker then claims).  A page asked is a question *)
(* and, beside it, the keys no question holds: the command's own arguments *)
(* and the fate its table is narrowed to.                                  *)
(***************************************************************************)
EXTENDS WorkerPage, Questions, TLC

CONSTANTS
    Platforms, Runtimes,   \* PLATFORMS_KNOWN and RUNTIMES_KNOWN
    Bootable, Lab,         \* DEFAULT_DEVICE and DEFAULT_LAB
    Typed,                \* what a reader types after `since`, and the stamp it is, if any
    Age,                   \* the order of the nodes by (created, id)
    Offer,                 \* what each node says of itself: platform, runtime, definition, name
    Offers,                \* bound: what they may say instead
    Asked                  \* bound: the queries a reader starts from

JobStates  == <<"available", "done", "running", "reserved", "closing">>
LocalFates == {"any", "never", "seen", "ran", "held", "refused"}
PageKeys   == {"mode", "platform", "runtime", "since", "local"}

-----------------------------------------------------------------------------
(* The page's question                                                     *)

\* `from_query` and `_page_state`.
PageOf(q) == [f |-> FromQuery(q), said |-> [k \in PageKeys |-> FirstValue(q, k)]]

\* `_iso_stamp`: one spelling of a stamp, or nothing.
IsoStamp(value) == IF value = <<>> THEN <<>> ELSE Typed[value[1]]

\* `_picked`.
Picked(page) ==
    [k \in PageKeys |->
        LET value == page.said[k]
        IN CASE k = "mode"     -> IF value = <<"resident">> THEN value ELSE <<"once">>
             [] k = "platform" -> IF value = <<>> THEN <<Bootable>> ELSE value
             [] k = "runtime"  -> IF value = <<>> THEN <<Lab>> ELSE value
             [] k = "since"    -> IsoStamp(value)
             [] k = "local"    -> IF ToSet(value) \subseteq LocalFates THEN value ELSE <<>>]

StateInForce(page) ==
    IF "state" \in Keys /\ page.f["state"] # <<>> THEN page.f["state"] ELSE <<"available">>

\* What rides along in every link of the page; the mode is written as it came.
Riding(page) ==
    LET asked == ToQuery(page.f)
        mode  == IF page.said["mode"] = <<>> THEN {} ELSE {"mode"}
    IN [k \in ((DOMAIN asked \ {"mode"}) \cap RouteKeys("/worker")) \cup mode |->
            IF k = "mode" THEN <<page.said[k]>> ELSE asked[k]]

\* Mutant: a rail keeps only the other rails.
KeepRails(page, but) ==
    [k \in {one \in {"platform", "runtime"} \ {but} : Picked(page)[one] # <<>>} |-> <<Picked(page)[k]>>]

\* `_keep`.
Keep(page, but) ==
    [k \in {one \in PageKeys \ {but} : Picked(page)[one] # <<>>} |-> <<Picked(page)[k]>>]

\* `_page_url`: a link of this page to itself.
To(page, but, over) ==
    LET base == Keep(page, but) @@ Riding(page)
        laid == {k \in DOMAIN over : over[k] # <<>>}
    IN PageOf([k \in laid \cup (DOMAIN base \ DOMAIN over) |->
                  IF k \in laid THEN <<over[k]>> ELSE base[k]])

Rail(page, k, value)   == To(page, k, k :> value)
ToPair(page, pair)     == To(page, "platform", ("platform" :> <<pair[1]>>) @@ ("runtime" :> <<pair[2]>>))
OtherApi(page, base)   == To(page, "api", "api" :> KeyOf(base))
Reset(page) == To(page, "", [k \in {"api", "state", "job", "text", "limit"} \cup PageKeys |-> <<>>])

\* `_whole_question`: what a form of this page spells out again.
Whole(page) == Keep(page, "") @@ Riding(page)

SinceBox(page, typed) ==
    PageOf([k \in (DOMAIN Whole(page) \ {"since"}) \cup {"since"} |->
               IF k = "since" THEN <<typed>> ELSE Whole(page)[k]])

\* `_bar`, submitted as it was drawn: a box shows the first of its words for a value
\* that is none of them.
Bar(page, rows) ==
    LET names == {Offer[n].name : n \in rows}
        drawn == [k \in {"api", "state", "job", "text", "limit", "mode", "local"} |->
            CASE k = "api"   -> IF page.f[k] # <<>> THEN page.f[k]
                                ELSE <<IF \E m \in DOMAIN ApiNames : ApiNames[m] = Launch
                                       THEN CHOOSE m \in DOMAIN ApiNames : ApiNames[m] = Launch
                                       ELSE Launch>>
              [] k = "state" -> IF \E i \in DOMAIN JobStates : StateInForce(page) = <<JobStates[i]>>
                                THEN StateInForce(page) ELSE <<JobStates[1]>>
              [] k = "job"   -> IF ToSet(page.f[k]) \subseteq names THEN page.f[k] ELSE <<>>
              [] k = "mode"  -> Picked(page)[k]
              [] k = "local" -> IF Picked(page)[k] = <<>> THEN <<"any">> ELSE Picked(page)[k]
              [] OTHER       -> page.f[k]]
    IN PageOf([k \in DOMAIN drawn \cup DOMAIN Whole(page) |->
                  IF k \in DOMAIN drawn THEN <<drawn[k]>> ELSE Whole(page)[k]])

-----------------------------------------------------------------------------
(* The table and what is counted of it                                     *)

\* `job_node_rows` and `_queue`: `open` are the nodes that are available, `fate` what
\* became of each here.  No other state is modelled: its rows are none.
QueueRows(page, offer, open, fate) ==
    LET local == Picked(page)["local"]
        met == {n \in open :
                  /\ StateInForce(page) = <<"available">>
                  /\ ToSet(page.f["job"]) \subseteq {offer[n].name}
                  /\ ToSet(page.f["text"]) \subseteq {offer[n].name}
                  /\ local \in {<<>>, <<"any">>, <<fate[n]>>}}
    IN {n \in met : Cardinality({m \in met : Age[m] > Age[n]}) < page.f["limit"][1]}

PairOf(offer, n) == <<offer[n].platform, offer[n].runtime>>

\* `_claim_badge`.
Badge(page, offer, rows) ==
    {n \in rows : PairOf(offer, n) = <<Picked(page)["platform"][1], Picked(page)["runtime"][1]>>}

\* `_pairs`: how many rows each pair has, and which of them a link leads to.
Pairs(offer, rows) == {p \in {PairOf(offer, n) : n \in rows} : p[1] # "" /\ p[2] # ""}
Linked(page, offer, rows) ==
    IF Pairs(offer, rows) = {<<Picked(page)["platform"][1], Picked(page)["runtime"][1]>>} THEN {}
    ELSE {p \in Pairs(offer, rows) : p[1] = Bootable}

-----------------------------------------------------------------------------
(* The button                                                              *)

\* `_platform_refusal`, and a stamp that cannot be read.
Blocked(page) ==
    \/ Picked(page)["platform"] # <<Bootable>>
    \/ page.said["since"] # <<>> /\ Picked(page)["since"] = <<>>

\* `command("worker")`.
StartRefused(page) ==
    \/ Picked(page)["platform"][1] \notin Platforms
    \/ Picked(page)["runtime"][1] \notin Runtimes
    \/ page.said["since"] # <<>> /\ Picked(page)["since"] = <<>>

Argv(page) ==
    [api      |-> Base(IF page.f["api"] = <<>> THEN "" ELSE page.f["api"][1]),
     once     |-> Picked(page)["mode"] = <<"once">>,
     platform |-> Picked(page)["platform"][1],
     runtime  |-> Picked(page)["runtime"][1],
     since    |-> Picked(page)["since"]]

\* `Kjob.claimable` and `_claim`: a node that names no platform is anybody's.
Claims(argv, offer, open) ==
    {n \in open : /\ offer[n].defined /\ offer[n].runtime = argv.runtime
                  /\ offer[n].platform \in {"", argv.platform}}

ASSUME StartAssumption ==
    /\ Bootable \in Platforms /\ Lab \in Runtimes /\ Offer \in Offers
    /\ Foreign = Nodes \ Claims(Argv(PageOf(<<>>)), Offer, Nodes)

-----------------------------------------------------------------------------
(* Correctness.                                                            *)

SameBut(new, old, changed) ==
    /\ \A k \in PageKeys \ changed : Picked(new)[k] = Picked(old)[k]
    /\ \A k \in RouteKeys("/worker") \ (changed \cup {"mode"}) : new.f[k] = old.f[k]

\* A rail, a pair, a form and a link to another API change what they name, and nothing
\* else of what was asked.
LinksKeep(page) ==
    /\ \A platform \in Platforms :
          LET led == Rail(page, "platform", <<platform>>)
          IN SameBut(led, page, {"platform"}) /\ Picked(led)["platform"] = <<platform>>
    /\ \A platform \in Platforms, runtime \in Runtimes :
          LET led == ToPair(page, <<platform, runtime>>)
          IN /\ SameBut(led, page, {"platform", "runtime"})
             /\ Argv(led) = [Argv(page) EXCEPT !.platform = platform, !.runtime = runtime]
    /\ \A typed \in DOMAIN Typed :
          LET led == SinceBox(page, <<typed>>)
          IN SameBut(led, page, {"since"}) /\ Picked(led)["since"] = Typed[typed]
    /\ \A base \in ApiUrls :
          LET led == OtherApi(page, base)
          IN SameBut(led, page, {"api"}) /\ Argv(led) = [Argv(page) EXCEPT !.api = base]
    /\ SameBut(Reset(page), PageOf(<<>>), {"tz"})

\* The bar asks again what it shows; the button is not refused; it starts a worker that
\* takes whatever the badge counts, has a definition and was not dealt with here before
\* (the badge counts those too), and on an unnarrowed table nothing else but nodes that
\* name no platform; a pair's number is that page's badge.
StartIsRight(page, offer, open, fate) ==
    LET rows  == QueueRows(page, offer, open, fate)
        badge == Badge(page, offer, rows)
        taken == {n \in Claims(Argv(page), offer, open) : fate[n] = "never"}
    IN /\ ToSet(page.f["job"]) \subseteq {Offer[n].name : n \in rows} /\ Len(StateInForce(page)) = 1 =>
            SameBut(Bar(page, rows), page, {"state", "local"})
            /\ QueueRows(Bar(page, rows), offer, open, fate) = rows
       /\ ~Blocked(page) /\ Picked(page)["runtime"][1] \in Runtimes => ~StartRefused(page)
       /\ {n \in badge : offer[n].defined /\ fate[n] = "never"} \subseteq taken
       /\ rows = open => {n \in taken : offer[n].platform # ""} \subseteq badge
       /\ \A p \in Linked(page, offer, rows) :
            LET led == ToPair(page, p)
            IN Badge(led, offer, QueueRows(led, offer, open, fate))
                  = {n \in rows : PairOf(offer, n) = p}

StartPages == {PageOf(q) : q \in {one \in Asked : ~Refused(one)}}
KeepingPages == {page \in StartPages : LinksKeep(page)}
AnyOpen == {{n \in Nodes : shown[n]} : shown \in [Nodes -> BOOLEAN]}
SoundQueues ==
    {open \in AnyOpen : \A offer \in Offers, fate \in [Nodes -> {"never", "ran"}] :
        \A page \in StartPages : StartIsRight(page, offer, open, fate)}

\* The two buttons of the page: pressed where a page drawn now offers it, or a page of any
\* age that had read the node's mark, the one lets no owed report be run again; the other
\* starts a worker that takes what the badge counts and it has not dealt with, over
\* whatever the queue holds by then, and every link on the way keeps the rest (worker.py,
\* `_forget_button`, `_claim_badge`: "this is what that command can take").
ButtonsDoWhatTheySay ==
    /\ ForgetIsSafe
    /\ StartPages = KeepingPages
    /\ {n \in Nodes : queue[n] = "available"} \in SoundQueues
=============================================================================
