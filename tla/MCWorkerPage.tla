------------------------------ MODULE MCWorkerPage ------------------------------
(* Instances of the worker's page, over a worker, for TLC. *)
EXTENDS StartForm

CONSTANTS a, b, c, w1, w2, g1

\* `a` is the newer node.
CreatedStamps == [n \in Nodes |-> IF n = a THEN 2 ELSE 1]

\* The two workers run the same program.
WorkerSymmetry == Permutations({w1, w2})

-----------------------------------------------------------------------------
\* One node that is ours, one that names no platform, one of another lab; and a board
\* this host cannot boot, and a node without a definition.
Says(platform, runtime, defined, name) ==
    [platform |-> platform, runtime |-> runtime, defined |-> defined, name |-> name]
MCOffer ==
    (a :> Says("qemu", "lab", TRUE, "boot")) @@ (b :> Says("", "lab", TRUE, "kvm"))
        @@ (c :> Says("qemu", "other", TRUE, "boot"))
MCOffers ==
    {MCOffer} \cup [Nodes -> {Says("qemu", "lab", TRUE, "boot"), Says("board", "other", TRUE, "kvm"),
                              Says("qemu", "lab", FALSE, "boot")}]
MCAge    == (a :> 3) @@ (b :> 2) @@ (c :> 1)
MCTyped == ("stamp" :> <<"stamp">>) @@ ("pasted" :> <<"stamp">>) @@ ("words" :> <<>>)
MCNames  == ("local" :> "http://l") @@ ("production" :> "http://p")

\* Every argument of the command, and every axis of the table, alone and together.
MCAsked ==
    {<<>>,
     Query("platform", <<"board">>) @@ Query("limit", <<1>>) @@ Query("since", <<"stamp">>),
     Query("runtime", <<"other">>) @@ Query("mode", <<"resident">>) @@ Query("api", <<"local">>),
     Query("runtime", <<"nobody's">>) @@ Query("since", <<"pasted">>) @@ Query("tz", <<"utc">>),
     Query("since", <<"words">>) @@ Query("local", <<"ran">>) @@ Query("job", <<"boot">>),
     Query("state", <<"done">>) @@ Query("mode", <<"each">>) @@ Query("local", <<"nothing">>),
     Query("state", <<"available">>) @@ Query("text", <<"kvm">>) @@ Query("platform", <<"nobody's">>)}
=============================================================================
