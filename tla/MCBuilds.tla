------------------------------ MODULE MCBuilds ------------------------------
(* Instances of Builds, and of the page over it, for TLC. *)
EXTENDS Gap

Perms == Permutations(Processes)

CONSTANTS b1, b2, b3

\* What the API says of each kernel: filed under its build, under no build, nowhere.
MCApiUrl == (b1 :> "own") @@ (b2 :> "own") @@ (b3 :> "none")

Run(do, ids) == [do |-> do, ids |-> ids]

\* Every command, with the builds it may be asked for.
MCCommands ==
    {Run("index", <<>>), Run("prune", <<>>), Run("pull", <<b1, b2>>), Run("pull", <<b3>>),
     Run("index-pull", <<b2, b1, b3>>), Run("job", <<b1>>), Run("job", <<b2>>),
     Run("provision", <<b1>>), Run("provision", <<b2>>), Run("publish", <<b1>>), Run("publish", <<b3>>)}

\* Enough to serve a build, to have more copies than are kept, and to prune.
MCOverlapping ==
    {Run("prune", <<>>), Run("job", <<b2>>), Run("provision", <<b1>>)}

-----------------------------------------------------------------------------
\* Two trees, three days, one build that never ran and one that failed last.
MCDates  == (b1 :> 2) @@ (b2 :> 3) @@ (b3 :> 1)
MCRank   == (b1 :> 1) @@ (b2 :> 2) @@ (b3 :> 3)
MCFacts  == (b1 :> [tree |-> "next", state |-> "done"]) @@ (b2 :> [tree |-> "main", state |-> "done"]) @@ (b3 :> [tree |-> "next", state |-> "done"])
MCTexts  == (b1 :> {"rc1"}) @@ (b2 :> {}) @@ (b3 :> {"rc1"})
MCSaid   == (b1 :> << <<"boot", "fail">>, <<"kselftest", "pass">> >>) @@ (b2 :> <<>>)
               @@ (b3 :> << <<"boot", "pass">>, <<"boot", "fail">> >>)
MCHas    == (b1 :> {"kernel", "modules"}) @@ (b2 :> {"kernel"}) @@ (b3 :> {"kernel", "modules"})
MCNames  == ("local" :> "http://l") @@ ("production" :> "http://p")

\* Questions that narrow every axis, alone and together.
MCAsked ==
    {<<>>,
     Query("origin", <<"local", "remote">>) @@ Query("limit", <<1>>),
     Query("origin", <<"remote">>) @@ Query("text", <<"rc1">>),
     Query("origin", <<"card">>) @@ Query("tree", <<"next", "next", "main">>),
     Query("origin", <<"both">>) @@ Query("days", <<1>>) @@ Query("limit", <<2>>),
     Query("evidence", <<"pulled", "made-here">>) @@ Query("tree", <<"next">>) @@ Query("limit", <<9>>),
     Query("ran", <<"failing">>) @@ Query("test", <<"boot">>) @@ Query("api", <<"local">>),
     Query("verdict", <<"fail", "pass">>) @@ Query("offset", <<1>>),
     Query("missing", <<"kernel">>) @@ Query("sort", << <<"verdict", "">> >>),
     Query("ran", <<"never">>) @@ Query("state", <<"done", "running">>),
     Query("test", <<"kselftest">>) @@ Query("kind", <<"table", "pull">>) @@ Query("limit", <<2>>),
     Query("kind", <<"drift">>) @@ Query("offset", <<9>>),
     Query("verdict", <<"nobody's">>)}

MCCatalogue == <<"boot", "kselftest">>
MCNeeds     == ("boot" :> {"kernel"}) @@ ("kselftest" :> {"kernel", "modules"})

\* Activities of a kind that is folded away, and of others, over and under what one
\* page can hold.
MCKindOrder == <<"run", "pull", "table">>
Act(id, kind, state) == [id |-> id, kind |-> kind, state |-> state]
MCShelves ==
    LET Rows(n) == {[i \in 1..n |-> Act(n - i, kinds[i], IF i = 1 THEN state ELSE "done")] :
                      kinds \in [1..n -> ToSet(MCKindOrder)], state \in {"running", "done"}}
    IN UNION {Rows(n) : n \in 0..4}
=============================================================================
