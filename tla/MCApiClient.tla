---------------------------- MODULE MCApiClient -----------------------------
(* Instances of ApiClient, and of what is made of its answers, for TLC. *)
EXTENDS Discovery

CONSTANTS r1, r2

\* The threads of the server are interchangeable.
Perms == Permutations(Requests)

-----------------------------------------------------------------------------
\* Nodes: one that is filed under its build and one of a kernel made here, a second node
\* of a build, one of another name, one without a kernel, jobs with a definition and without.
Urls(kernel, modules) == ("kernel" :> kernel) @@ ("modules" :> modules)
Node_(id, kind, created, state, artifacts) ==
    [id |-> id, kind |-> kind, name |-> kind \o "-riscv", created |-> created, state |-> state, artifacts |-> artifacts,
     result |-> IF state = "done" THEN "pass" ELSE "", tree |-> "next", branch |-> "b", runtime |-> "lab"]
Filed(id, build, created)  == Node_(id, "kbuild", created, "done", Urls(NoId, build))
Other(id, build, created)  == [Filed(id, build, created) EXCEPT !.tree = "main"]
Failed_(id, build, created) == [Filed(id, build, created) EXCEPT !.result = "fail"]
Running(id, build, created) == Node_(id, "kbuild", created, "running", Urls(build, build))
Named(id, build, created)  == [Filed(id, build, created) EXCEPT !.name = "kbuild-arm64"]
MadeHere(id, created)      == Node_(id, "kbuild", created, "available", Urls(NoId, NoId))
Bare(id, created)          == Node_(id, "kbuild", created, "done", "modules" :> 3)
Queued(id, created)        == Node_(id, "job", created, "available", "job_definition" :> NoId)
Finished(id, created)      == Node_(id, "job", created, "done", <<>>)

MCListings ==
    {<<Filed(11, 1, 1), Filed(12, 2, 5), Filed(13, 1, 8)>>, <<Filed(11, 2, 7), Failed_(12, 1, 7), MadeHere(13, 7)>>,
     <<Filed(11, 1, 2), Running(12, 2, 8), Other(13, 3, 9)>>, <<MadeHere(11, 5), Bare(12, 8), Failed_(13, 2, 9)>>,
     <<Filed(11, 1, 8), Filed(12, 1, 8), Filed(13, 2, 8)>>, <<Filed(11, 1, 5), Named(12, 2, 9), Filed(13, 3, 6)>>, <<Filed(11, 1, 4), Filed(12, 2, 9), Filed(13, 3, 9)>>,
     <<Queued(12, 5), Filed(13, 2, 6), Queued(11, 7)>>, <<Finished(13, 6), Finished(12, 6), Queued(11, 9)>>}

MCKeys == <<"kernel", "modules">>
MCWindows == <<1, 4>>
MCTests == <<"boot", "kvm">>
MCVerdict == ("boot" :> "pass") @@ ("kvm" :> "fail")
=============================================================================
