------------------------------ MODULE MCLedger ------------------------------
(* Instances of Ledger, and of the pages over it, for TLC. *)
EXTENDS Reports, TLC

\* Three runs of one pair, one of them without a console.
MCRuns == 1..3
MCBuildOf == <<1, 1, 1>>
MCTestOf == <<1, 1, 1>>

\* Two runs in one second, or none, the first to be written not the first to start.
MCClocks == {<<1, 2, 2>>, <<2, 1, 3>>}

\* Four builds of two trees, two of them held, with a card or without, and one of these
\* answered as well; some of them without a date or without a config.
Config(one) == CASE one = "x"  -> [x |-> 1]
                 [] one = "xy" -> [x |-> 1, y |-> 1]
                 [] one = "X"  -> [x |-> 2, z |-> 1]
                 [] one = "-"  -> [o \in {} |-> 0]
Card(made, tree, config) ==
    [created |-> made, tree |-> tree, branch |-> 1, series |-> 1, config |-> Config(config)]
World(carded, facts) ==
    [held |-> <<2, 1>>, carded |-> carded, answered |-> <<1, 3, 4>>, facts |-> facts]
Mixed  == World({1, 2}, <<Card(2, 1, "x"), Card(1, 2, "xy"), Card(4, 1, "X"), Card(3, 2, "x")>>)
Bare   == World({2}, <<Card(1, 1, "x"), Card(2, 1, "xy"), Card(3, 2, "X"), Card(4, 2, "-")>>)
Undated == World({1, 2}, <<Card(2, 1, "X"), Card(0, 1, "xy"), Card(3, 2, "-"), Card(3, 2, "x")>>)

\* What runs of a verdict counted.
MCCounted == "pass" :> [total |-> 3, failed |-> 0, skipped |-> 1]
          @@ "fail" :> [total |-> 1, failed |-> 2, skipped |-> 0]
          @@ "incomplete" :> [total |-> 0, failed |-> 0, skipped |-> 0]

Item(b, t, s, v) == [build |-> b, test |-> t, stamp |-> s, verdict |-> v, results |-> MCCounted[v]]
Maybe(b, t, S) == {{}} \cup {{Item(b, t, s, v)} : s \in S, v \in DOMAIN MCCounted}
MCStanding ==
    {two \cup three \cup other : two \in Maybe(2, 1, {1, 3}), three \in Maybe(3, 1, {2}),
        other \in {{Item(1, 2, 1, "fail"), Item(3, 2, 2, "pass")}}}

MCLined == <<1, 2>>
Ask(world, let, order, limit, delta) ==
    [world |-> world, let |-> let, order |-> order, limit |-> limit, delta |-> delta]
MCAsked ==
    {Ask(Mixed, 1..4, <<>>, 4, 3), Ask(Mixed, 1..4, << <<"date-asc", "">> >>, 3, 4),
     Ask(Bare, 1..4, << <<"verdict", "">> >>, 3, 4),
     Ask(Undated, {1, 2, 4}, << <<"tree-branch", "desc">>, <<"verdict", "desc">> >>, 4, 2),
     Ask(Undated, 1..4, << <<"verdict", "desc">>, <<"verdict", "asc">> >>, 4, 4)}

\* Two builds or fewer by name, two files, one or none, and a cap.
MCComparisons ==
    {[older |-> 0, newer |-> 0, files |-> named, cap |-> 1] :
        named \in {<<0, 0>>, <<1, 0>>, <<0, 2>>, <<1, 1>>, <<2, 3>>, <<4, 3>>}}
    \cup {[older |-> older, newer |-> newer, files |-> <<0, 0>>, cap |-> cap] :
        older \in 0..4, newer \in 0..4, cap \in {-1, 0, 1}}
=============================================================================
