----------------------------- MODULE JobProofs -----------------------------
(***************************************************************************)
(* Theorems about Job, for every suite and every bound: what a run records *)
(* is what it did, and the pipeline is never told of a pass that was none. *)
(*                                                                         *)
(* The verdict is a loop over the console, so the proof has two halves:    *)
(* what the loop's result says of the lines it went through (by UpTo and   *)
(* LoopRuns), and that the lines a verdict was taken from are all that     *)
(* the run will ever have printed.                                         *)
(***************************************************************************)
EXTENDS Job, SequencingProofs

-----------------------------------------------------------------------------
(* What `tap_summary` makes of a console.                                  *)

TapStates == [failed : SUBSET Selftests, skipped : SUBSET Selftests,
              passed : SUBSET Selftests, sticky : SUBSET Selftests]

Said(console, i, name, kinds) ==
    \E k \in 1..i : console[k].name = name /\ console[k].kind \in kinds

\* What the summary of the first i lines owes to them: a failure is there and final,
\* whatever was started is there, and a result is one that was printed.
Owed(tap, console, i) ==
    /\ \A n \in Selftests : Said(console, i, n, {"not_ok"}) => n \in tap.sticky
    /\ tap.sticky \subseteq tap.failed
    /\ \A n \in Selftests : Said(console, i, n, {"started"}) => n \in Names(tap)
    /\ \A n \in tap.passed \cup tap.skipped : Said(console, i, n, {"ok", "skip"})

Sound(tap, console, i) == tap \in TapStates /\ Owed(tap, console, i)

\* `Put` files a name in one place, and keeps what else it was told.
LEMMA PutFiles ==
  ASSUME NEW tap \in TapStates, NEW name \in Selftests,
         NEW where \in {"failed", "skipped", "passed"}
  PROVE  /\ Put(tap, name, where) \in TapStates
         /\ Put(tap, name, where).sticky = tap.sticky
         /\ Put(tap, name, where).failed
              = IF where = "failed" THEN tap.failed \cup {name} ELSE tap.failed \ {name}
         /\ Put(tap, name, where).skipped
              = IF where = "skipped" THEN tap.skipped \cup {name} ELSE tap.skipped \ {name}
         /\ Put(tap, name, where).passed
              = IF where = "passed" THEN tap.passed \cup {name} ELSE tap.passed \ {name}
BY DEF Put, TapStates

\* A line keeps the type of the summary.
LEMMA TapLineType ==
  ASSUME NEW tap \in TapStates, NEW line \in Lines
  PROVE  TapLine(tap, line) \in TapStates
<1>1. line.kind \in TapKinds => line.name \in Selftests
  BY DEF Lines, TapKinds, OtherKinds
<1>2. CASE line.kind = "not_ok"
  <2>1. line.name \in Selftests
    BY <1>1, <1>2 DEF TapKinds
  <2> DEFINE p == Put(tap, line.name, "failed")
  <2>2. p \in TapStates
    BY <2>1, PutFiles
  <2>3. TapLine(tap, line) = [p EXCEPT !.sticky = @ \cup {line.name}]
    BY <1>2 DEF TapLine
  <2> QED
    <3> HIDE DEF p
    <3> QED BY <2>1, <2>2, <2>3 DEF TapStates
<1>3. CASE line.kind = "started"
  BY <1>1, <1>3, PutFiles DEF TapLine, TapKinds
<1>4. CASE line.kind = "ok"
  BY <1>1, <1>4, PutFiles DEF TapLine, TapKinds
<1>5. CASE line.kind = "skip"
  BY <1>1, <1>5, PutFiles DEF TapLine, TapKinds
<1>6. CASE line.kind \notin TapKinds
  BY <1>6 DEF TapLine, TapKinds
<1> QED
  BY <1>2, <1>3, <1>4, <1>5, <1>6 DEF TapKinds

\* What was said by line i was said before it or by it.
LEMMA SaidSoFar ==
  ASSUME NEW console, NEW i \in Nat, i >= 1, NEW name, NEW kinds
  PROVE  Said(console, i, name, kinds)
           <=> \/ Said(console, i - 1, name, kinds)
               \/ console[i].name = name /\ console[i].kind \in kinds
<1>1. \A k : k \in 1..i <=> k \in 1..(i - 1) \/ k = i
  OBVIOUS
<1> QED
  BY <1>1 DEF Said

\* One turn of the loop keeps what the summary owes.
LEMMA TurnIsSound ==
  ASSUME NEW console \in Seq(Lines), NEW i \in 1..Len(console), NEW tap,
         Sound(tap, console, i - 1)
  PROVE  Sound(TapLine(tap, console[i]), console, i)
<1> DEFINE line == console[i]
           new == TapLine(tap, line)
<1>1. line \in Lines /\ tap \in TapStates /\ i \in Nat /\ i >= 1
  BY DEF Sound
<1>2. new \in TapStates
  BY <1>1, TapLineType
<1> SUFFICES Owed(new, console, i)
  BY <1>2 DEF Sound
<1>3. line.kind \in TapKinds => line.name \in Selftests
  BY <1>1 DEF Lines, TapKinds, OtherKinds
<1>4. \A n, kinds : Said(console, i, n, kinds)
          <=> Said(console, i - 1, n, kinds) \/ (line.name = n /\ line.kind \in kinds)
  BY <1>1, SaidSoFar
<1>5. Owed(tap, console, i - 1)
  BY DEF Sound
<1>6. tap.sticky \subseteq Selftests
  BY <1>1 DEF TapStates
<1>7. CASE line.kind = "not_ok"
  <2>1. /\ line.name \in Selftests
        /\ new = [Put(tap, line.name, "failed") EXCEPT !.sticky = @ \cup {line.name}]
    BY <1>3, <1>7 DEF TapLine, TapKinds
  <2>2. /\ new.sticky = tap.sticky \cup {line.name}
        /\ new.failed = tap.failed \cup {line.name}
        /\ new.skipped = tap.skipped \ {line.name}
        /\ new.passed = tap.passed \ {line.name}
    <3> HIDE DEF line
    <3> QED BY <1>1, <2>1 DEF TapStates, Put
  <2> QED
    <3> HIDE DEF new, line
    <3> QED BY <1>4, <1>5, <1>7, <2>1, <2>2 DEF Owed, Names
<1>8. CASE line.kind = "started"
  <2>1. CASE line.name \in Names(tap)
    <3>1. new = tap
      BY <1>8, <2>1 DEF TapLine
    <3> QED
      <4> HIDE DEF new, line
      <4> QED BY <1>4, <1>5, <1>8, <2>1, <3>1 DEF Owed
  <2>2. CASE line.name \notin Names(tap)
    <3>1. new = Put(tap, line.name, "failed") /\ line.name \in Selftests
      BY <1>3, <1>8, <2>2 DEF TapLine, TapKinds
    <3>2. /\ new.sticky = tap.sticky
          /\ new.failed = tap.failed \cup {line.name}
          /\ new.skipped = tap.skipped \ {line.name}
          /\ new.passed = tap.passed \ {line.name}
      <4> HIDE DEF new, line
      <4> QED BY <1>1, <3>1, PutFiles
    <3> QED
      <4> HIDE DEF new, line
      <4> QED BY <1>4, <1>5, <1>8, <3>1, <3>2 DEF Owed, Names
  <2> QED
    BY <2>1, <2>2
<1>9. CASE line.kind \in {"ok", "skip"} /\ line.name \in tap.sticky
  <2>1. new = tap
    BY <1>9 DEF TapLine
  <2> QED
    <3> HIDE DEF new, line
    <3> QED BY <1>4, <1>5, <1>9, <2>1 DEF Owed
<1>10. CASE line.kind = "ok" /\ line.name \notin tap.sticky
  <2>1. new = Put(tap, line.name, "passed") /\ line.name \in Selftests
    BY <1>3, <1>10 DEF TapLine, TapKinds
  <2>2. /\ new.sticky = tap.sticky
        /\ new.failed = tap.failed \ {line.name}
        /\ new.skipped = tap.skipped \ {line.name}
        /\ new.passed = tap.passed \cup {line.name}
    <3> HIDE DEF new, line
    <3> QED BY <1>1, <2>1, PutFiles
  <2> QED
    <3> HIDE DEF new, line
    <3> QED BY <1>4, <1>5, <1>10, <2>1, <2>2 DEF Owed, Names
<1>11. CASE line.kind = "skip" /\ line.name \notin tap.sticky
  <2>1. new = Put(tap, line.name, "skipped") /\ line.name \in Selftests
    BY <1>3, <1>11 DEF TapLine, TapKinds
  <2>2. /\ new.sticky = tap.sticky
        /\ new.failed = tap.failed \ {line.name}
        /\ new.skipped = tap.skipped \cup {line.name}
        /\ new.passed = tap.passed \ {line.name}
    <3> HIDE DEF new, line
    <3> QED BY <1>1, <2>1, PutFiles
  <2> QED
    <3> HIDE DEF new, line
    <3> QED BY <1>4, <1>5, <1>11, <2>1, <2>2 DEF Owed, Names
<1>12. CASE line.kind \notin TapKinds
  <2>1. new = tap
    BY <1>12 DEF TapLine, TapKinds
  <2> QED
    <3> HIDE DEF new, line
    <3> QED BY <1>4, <1>5, <1>12, <2>1 DEF Owed, TapKinds
<1> QED
  BY <1>7, <1>8, <1>9, <1>10, <1>11, <1>12 DEF TapKinds

\* The loop has a result for every console, and it is sound.
LEMMA TapIsSound ==
  ASSUME NEW console \in Seq(Lines)
  PROVE  Sound(Tap(console), console, Len(console))
<1> DEFINE n == Len(console)
           turn == [i \in 1..n |-> [t \in TapStates |-> TapLine(t, console[i])]]
           Follows(f) == f = [i \in 0..n |-> IF i = 0 THEN NoTap
                                             ELSE TapLine(f[i - 1], console[i])]
           tap == CHOOSE f : Follows(f)
<1>1. n \in Nat /\ \A i \in 1..n : console[i] \in Lines
  OBVIOUS
<1>2. NoTap \in TapStates
  BY DEF NoTap, TapStates
<1>3. turn \in [1..n -> [TapStates -> TapStates]]
  BY <1>1, TapLineType
<1>4. \E f : Follows(f)
  <2>1. PICK f : Loops(f, TapStates, NoTap, n, turn)
    <3>1. n \in Nat /\ turn \in Turns(n, TapStates)
      BY <1>1, <1>3 DEF Turns
    <3> HIDE DEF turn, n
    <3> QED BY <1>2, <3>1, LoopRuns
  <2>2. f \in [0..n -> TapStates] /\ f[0] = NoTap /\ \A i \in 1..n : f[i] = turn[i][f[i - 1]]
    BY <2>1 DEF Loops
  <2>3. ASSUME NEW i \in 1..n PROVE f[i] = TapLine(f[i - 1], console[i])
    <3>1. i - 1 \in 0..n
      BY <1>1
    <3>2. f[i - 1] \in TapStates
      BY <2>2, <3>1
    <3> QED
      BY <2>2, <3>2
  <2>4. \A i \in 0..n : i = 0 \/ i \in 1..n
    BY <1>1
  <2>5. Follows(f)
    BY <2>2, <2>3, <2>4
  <2> QED
    BY <2>5
<1>5. Follows(tap)
  <2> HIDE DEF Follows
  <2> QED BY <1>4
<1> DEFINE good == {i \in 0..n : Sound(tap[i], console, i)}
<1>6. 0 \in good
  <2> HIDE DEF tap
  <2>1. 0 \in 0..n /\ tap[0] = NoTap
    BY <1>1, <1>5
  <2>2. \A name, kinds : ~Said(console, 0, name, kinds)
    BY DEF Said
  <2>3. Sound(NoTap, console, 0)
    BY <1>2, <2>2 DEF Sound, Owed, NoTap
  <2> QED
    BY <2>1, <2>3
<1>7. ASSUME NEW i \in 1..n, i - 1 \in good PROVE i \in good
  <2> HIDE DEF tap
  <2>1. i \in 0..n /\ i # 0
    BY <1>1
  <2>2. tap[i] = TapLine(tap[i - 1], console[i])
    BY <1>5, <2>1
  <2>3. Sound(tap[i - 1], console, i - 1)
    BY <1>7
  <2> QED
    BY <2>1, <2>2, <2>3, TurnIsSound
<1>8. n \in good
  <2>1. n \in 0..n
    BY <1>1
  <2> HIDE DEF good, n
  <2> QED BY <1>1, <1>6, <1>7, <2>1, UpTo
<1>9. Tap(console) = tap[n]
  BY DEF Tap
<1> QED
  BY <1>8, <1>9

-----------------------------------------------------------------------------
(* What a verdict says of its console.                                     *)

Exits == {0, 1, RefusedRc, NoExit}

\* `VerdictsAreEarned`, of any console.
Earned(rcode, console, test) ==
    /\ rcode # NoExit /\ ~Has(console, "infra")
    /\ test = Boot =>
         /\ rcode = 0 /\ ~Has(console, "boot_case_fail")
         /\ \E i \in DOMAIN console :
               console[i].kind \in {"kernel", "boot_case_pass", "job_pass"}
    /\ test # Boot =>
         /\ \E n \in Selftests : Said(console, Len(console), n, {"ok", "skip"})
         /\ \A n \in Selftests :
               /\ ~Said(console, Len(console), n, {"not_ok"})
               /\ Said(console, Len(console), n, {"started"})
                    => Said(console, Len(console), n, {"ok", "skip"})

LEMMA VerdictType ==
  ASSUME NEW rcode, NEW console, NEW test
  PROVE  Verdict(rcode, console, test) \in Verdicts
BY DEF Verdict, Verdicts, BootVerdict, TapVerdict

\* A suite that passed has a result for everything it started, and no failure.
LEMMA SuitePassIsEarned ==
  ASSUME NEW rcode, NEW console \in Seq(Lines), TapVerdict(rcode, console) = "pass"
  PROVE  /\ \E n \in Selftests : Said(console, Len(console), n, {"ok", "skip"})
         /\ \A n \in Selftests :
               /\ ~Said(console, Len(console), n, {"not_ok"})
               /\ Said(console, Len(console), n, {"started"})
                    => Said(console, Len(console), n, {"ok", "skip"})
<1> DEFINE tap == Tap(console)
<1>1. Sound(tap, console, Len(console))
  BY TapIsSound
<1>2. Names(tap) # {} /\ tap.failed = {}
  BY DEF TapVerdict
<1> HIDE DEF tap
<1>3. tap.passed \cup tap.skipped \subseteq Selftests
  BY <1>1 DEF Sound, TapStates
<1>4. Names(tap) = tap.passed \cup tap.skipped
  BY <1>2 DEF Names
<1> QED
  BY <1>1, <1>2, <1>3, <1>4 DEF Sound, Owed

\* A pass is only given for an end by itself and a console without a failure.
LEMMA PassIsEarned ==
  ASSUME NEW rcode \in Exits, NEW console \in Seq(Lines), NEW test,
         Verdict(rcode, console, test) = "pass"
  PROVE  Earned(rcode, console, test)
<1>1. ~NoVerdict(rcode, console)
  BY DEF Verdict
<1>2. rcode # NoExit /\ ~Has(console, "infra")
  BY <1>1 DEF NoVerdict
<1>3. CASE test = Boot
  <2>1. BootVerdict(rcode, console) = "pass"
    BY <1>1, <1>3 DEF Verdict
  <2>2. /\ rcode = 0 /\ ~Has(console, "boot_case_fail")
        /\ \/ Has(console, "boot_case_pass") \/ LastJobCase(console, "job_pass")
           \/ Has(console, "kernel")
    BY <2>1 DEF BootVerdict
  <2>3. LastJobCase(console, "job_pass") => Has(console, "job_pass")
    BY DEF LastJobCase, Has
  <2> QED
    BY <1>2, <1>3, <2>2, <2>3 DEF Earned, Has
<1>4. CASE test # Boot
  <2>1. TapVerdict(rcode, console) = "pass"
    BY <1>1, <1>4 DEF Verdict
  <2> QED
    BY <1>2, <1>4, <2>1, SuitePassIsEarned DEF Earned
<1> QED
  BY <1>3, <1>4

\* The two functions of sink.py agree with the verdict as far as a pass goes: a body
\* that reads as one is the body of one, whatever console it was made from.
LEMMA BodyOfAPass ==
  ASSUME NEW verdict, NEW console, NEW test,
         VerdictFromBody(LavaBody(verdict, console, test)) = "pass"
  PROVE  verdict = "pass"
<1> DEFINE failing == Has(console, "boot_case_fail") \/ (test # Boot /\ SuiteFails(console))
<1>1. Complete(verdict, console, test) /\ ~failing
  BY DEF VerdictFromBody, LavaBody
<1>2. Evidence(console, test) => failing
  BY DEF Evidence, SuiteFails
<1> QED
  BY <1>1, <1>2 DEF Complete
-----------------------------------------------------------------------------
(* The invariant.                                                          *)

\* No one is left who could print.
Still == child # "alive" /\ client # "alive"

Jobs == [test : {Boot, Suite}, given : [Artifacts -> {"none", "url", "relative"}],
         local : [Artifacts -> {"none", "path"}]]

\* `TypeOK`, with the sequences as sequences of a bounded length.
Types ==
    /\ pc \in {"make", "argv", "flight", "spawn", "wait", "kill", "killpg", "remove", "drain",
               "judge", "stop", "keep", "ledger", "post", "over"}
    /\ job \in Jobs
    /\ child \in {"none", "alive", "zombie", "reaped"} /\ rc \in Exits
    /\ client \in {"none", "alive", "gone"} /\ container \in {"none", "up", "gone"}
    /\ found \in BOOLEAN /\ raised \in BOOLEAN /\ kept \in BOOLEAN /\ owed \in BOOLEAN
    /\ printed \in Seq(Lines) /\ Len(printed) <= MaxLines
    /\ captured \in Int /\ NoConsole <= captured /\ captured <= Len(printed)
    /\ outcome \in Verdicts \cup {"none", "error"} /\ record \in Verdicts \cup {"none", "error"}
    /\ log \in Seq({"running", "beat", "console"}) /\ Len(log) <= MaxBeats + 1
    /\ beat \in {"off", "waiting", "writing"}
    /\ accepted \subseteq Verdicts /\ posts \in 0..MaxPosts /\ faults \in 0..MaxFaults

\* Nothing is decided before its turn.
InTurn ==
    /\ pc \in {"make", "argv", "flight", "spawn", "wait", "kill", "killpg", "remove", "drain",
               "judge"} => outcome = "none"
    /\ kept => pc \in {"ledger", "post", "over"}
    /\ accepted # {} => pc = "over"

\* A container goes with its client.
InStep == client # "alive" => container # "up"

\* The console that is judged, and the one a verdict was taken from, is all there is
\* unless the timeout hit; the child is gone in either case.
JudgedWhole ==
    pc = "judge" => child = "reaped" /\ (rc # NoExit => Still /\ captured = Len(printed))

TakenFromAll ==
    outcome \in {"pass", "fail"} =>
        /\ rc # NoExit /\ Still /\ captured = Len(printed)
        /\ outcome = Verdict(rc, printed, job.test)

\* A lost log stays lost: no beat is left that could begin another.
LostStaysLost == kept /\ log = <<>> => beat = "off"

Inductive ==
    /\ Types /\ InTurn /\ InStep
    /\ JudgedWhole /\ TakenFromAll
    /\ LostStaysLost /\ KeptLogIsTheConsole
    /\ NeverGreenElsewhere

\* What `make` and the command line change of a job leaves it one, of the same test.
LEMMA BakedJob ==
  ASSUME NEW j \in Jobs, NEW disk \in {"none", "path"}, NEW tarball \in {"none", "path"}
  PROVE  /\ [j EXCEPT !.local.rootfs = disk, !.local.kselftest = tarball] \in Jobs
         /\ [j EXCEPT !.local.rootfs = disk, !.local.kselftest = tarball].test = j.test
BY DEF Jobs, Artifacts

LEMMA SpentJob ==
  ASSUME NEW j \in Jobs
  PROVE  /\ [j EXCEPT !.given = Nothing, !.local = Nothing] \in Jobs
         /\ [j EXCEPT !.given = Nothing, !.local = Nothing].test = j.test
BY DEF Jobs, Artifacts, Nothing

\* `make`: the artifacts.
LEMMA MakeKeeps ==
  ASSUME Inductive, NEW named \in BOOLEAN, Make(named)
  PROVE  Inductive'
<1>1. CASE Infra("make") /\ (Fault \/ Fine)
  BY <1>1, JobAssumption DEF Infra,
         Inductive, Types, InTurn, InStep, Still, JudgedWhole, TakenFromAll,
         LostStaysLost, KeptLogIsTheConsole, NeverGreenElsewhere, Goes, Fine, Fault,
         Exits, Verdicts, processes, result, files, reports, NoConsole
<1>2. CASE ~Infra("make")
  <2>1. Goes("make", "argv") /\ Fine /\ UNCHANGED <<processes, found, result, files, reports>>
    BY <1>2 DEF Make
  <2>2. PICK disk \in {"none", "path"}, tarball \in {"none", "path"} :
           job' = [job EXCEPT !.local.rootfs = disk, !.local.kselftest = tarball]
    BY <1>2 DEF Make
  <2>3. job' \in Jobs /\ job'.test = job.test
    <3>1. job \in Jobs
      BY DEF Inductive, Types
    <3> QED BY <2>2, <3>1, BakedJob
  <2> QED
    BY <2>1, <2>3 DEF
           Inductive, Types, InTurn, InStep, Still, JudgedWhole, TakenFromAll,
           LostStaysLost, KeptLogIsTheConsole, NeverGreenElsewhere, Goes, Fine, Fault,
           Exits, Verdicts, processes, result, files, reports, NoConsole
<1> QED
  BY <1>1, <1>2 DEF Make

\* The command line.
LEMMA ArgvKeeps ==
  ASSUME Inductive, Argv
  PROVE  Inductive'
<1>1. CASE Infra("argv") /\ (Fault \/ Fine)
  BY <1>1, JobAssumption DEF Infra,
         Inductive, Types, InTurn, InStep, Still, JudgedWhole, TakenFromAll,
         LostStaysLost, KeptLogIsTheConsole, NeverGreenElsewhere, Goes, Fine, Fault,
         Exits, Verdicts, processes, result, files, reports, NoConsole
<1>2. CASE ~Infra("argv")
  <2>1. Goes("argv", "flight") /\ Fine /\ UNCHANGED <<processes, found, result, files, reports>>
    BY <1>2 DEF Argv
  <2>2. job' \in Jobs /\ job'.test = job.test
    BY <1>2, SpentJob DEF Argv, Inductive, Types
  <2> QED
    BY <2>1, <2>2 DEF
           Inductive, Types, InTurn, InStep, Still, JudgedWhole, TakenFromAll,
           LostStaysLost, KeptLogIsTheConsole, NeverGreenElsewhere, Goes, Fine, Fault,
           Exits, Verdicts, processes, result, files, reports, NoConsole
<1> QED
  BY <1>1, <1>2 DEF Argv

\* A log that begins with one line.
LEMMA OneLine ==
  ASSUME NEW line \in {"running", "beat", "console"}
  PROVE  /\ <<line>> \in Seq({"running", "beat", "console"}) /\ Len(<<line>>) <= MaxBeats + 1
         /\ <<line>> # <<>> /\ <<line>>[1] = line
BY JobAssumption

\* The line that says the run began.
LEMMA FlightKeeps ==
  ASSUME Inductive, Flight
  PROVE  Inductive'
<1>1. log' \in Seq({"running", "beat", "console"}) /\ Len(log') <= MaxBeats + 1
  BY OneLine DEF Flight, Inductive, Types
<1>2. beat' \in {"off", "waiting", "writing"} /\ faults' \in 0..MaxFaults
  BY JobAssumption DEF Flight, Inductive, Types, Fault, Fine
<1>3. Goes("flight", "spawn") /\ UNCHANGED <<job, processes, found, result, kept, reports>>
  BY DEF Flight
<1> QED
  BY <1>1, <1>2, <1>3 DEF
         Inductive, Types, InTurn, InStep, Still, JudgedWhole, TakenFromAll,
         LostStaysLost, KeptLogIsTheConsole, NeverGreenElsewhere, Goes, Fine, Fault,
         Exits, Verdicts, processes, result, files, reports, NoConsole

\* The clients, listed before the kill.
LEMMA ListClientsKeeps ==
  ASSUME Inductive, ListClients
  PROVE  Inductive'
<1>1. found' \in BOOLEAN
  BY Zenon DEF ListClients
<1>2. faults' \in 0..MaxFaults
  BY JobAssumption DEF ListClients, Inductive, Types, Fault, Fine
<1>3. Goes("kill", "killpg") /\ UNCHANGED <<job, processes, result, files, reports>>
  BY DEF ListClients
<1> QED
  BY <1>1, <1>2, <1>3 DEF
         Inductive, Types, InTurn, InStep, Still, JudgedWhole, TakenFromAll,
         LostStaysLost, KeptLogIsTheConsole, NeverGreenElsewhere, Goes, Fine, Fault,
         Exits, Verdicts, processes, result, files, reports, NoConsole

\* The verdict: after the timeout there is none, and otherwise it is taken from everything
\* that will ever be printed.
LEMMA JudgeItKeeps ==
  ASSUME Inductive, JudgeIt
  PROVE  Inductive'
<1>1. outcome' \in Verdicts
  BY VerdictType DEF JudgeIt
<1>2. rc = NoExit => outcome' = "incomplete"
  BY DEF JudgeIt, Verdict, NoVerdict
<1>3. rc # NoExit => Still /\ captured = Len(printed) /\ outcome' = Verdict(rc, printed, job.test)
  <2> SUFFICES ASSUME rc # NoExit
               PROVE Still /\ captured = Len(printed) /\ outcome' = Verdict(rc, printed, job.test)
    OBVIOUS
  <2>1. Still /\ captured = Len(printed)
    BY DEF JudgeIt, Goes, Inductive, JudgedWhole
  <2>2. printed \in Seq(Lines)
    BY DEF Inductive, Types
  <2>3. SubSeq(printed, 1, Len(printed)) = printed /\ Len(printed) # NoConsole
    BY <2>2 DEF NoConsole
  <2>4. Console = printed
    BY <2>1, <2>3 DEF Console
  <2> QED
    BY <2>1, <2>4 DEF JudgeIt
<1>4. Goes("judge", "stop") /\ Fine /\ UNCHANGED <<job, processes, found, captured, raised, files, reports>>
  BY DEF JudgeIt
<1> QED
  BY <1>1, <1>2, <1>3, <1>4 DEF
         Inductive, Types, InTurn, InStep, Still, JudgedWhole, TakenFromAll,
         LostStaysLost, KeptLogIsTheConsole, NeverGreenElsewhere, Goes, Fine, Fault,
         Exits, Verdicts, processes, result, files, reports, NoConsole

\* The console in the place of what the run in flight wrote.
LEMMA KeepConsoleKeeps ==
  ASSUME Inductive, KeepConsole
  PROVE  Inductive'
<1>1. log' \in Seq({"running", "beat", "console"}) /\ Len(log') <= MaxBeats + 1
  BY OneLine DEF KeepConsole, Inductive, Types
<1>2. kept' => log' # <<>> /\ log'[1] = "console"
  BY OneLine DEF KeepConsole, Inductive, InTurn, Goes
<1>3. kept' \in BOOLEAN
  BY Zenon DEF KeepConsole, Inductive, Types
<1>4. faults' \in 0..MaxFaults
  BY JobAssumption DEF KeepConsole, Inductive, Types, Fault, Fine
<1>5. Goes("keep", "ledger") /\ UNCHANGED <<job, processes, found, result, beat, reports>>
  BY DEF KeepConsole
<1> QED
  BY <1>1, <1>2, <1>3, <1>4, <1>5 DEF
         Inductive, Types, InTurn, InStep, Still, JudgedWhole, TakenFromAll,
         LostStaysLost, KeptLogIsTheConsole, NeverGreenElsewhere, Goes, Fine, Fault,
         Exits, Verdicts, processes, result, files, reports, NoConsole

\* What the pipeline is told is a verdict, and a pass only if the run's is one.
LEMMA ToldOfAPass == Told \in Verdicts /\ (Told = "pass" => outcome = "pass")
BY BodyOfAPass DEF Told, VerdictFromBody, Verdicts

\* The report.
LEMMA PostKeeps ==
  ASSUME Inductive, Post
  PROVE  Inductive'
<1>1. \/ accepted' = accepted \cup {Told}
      \/ accepted' = accepted
  BY DEF Post
<1>2. accepted' \subseteq Verdicts /\ ("pass" \in accepted' => outcome = "pass")
  BY <1>1, ToldOfAPass DEF Inductive, Types, NeverGreenElsewhere
<1>3. owed' \in BOOLEAN
  BY Zenon DEF Post, Inductive, Types
<1>4. faults' \in 0..MaxFaults
  BY JobAssumption DEF Post, Inductive, Types, Fault, Fine
<1>5. Goes("post", "over") /\ UNCHANGED <<job, processes, found, result, files, record, posts>>
  BY DEF Post
<1> QED
  BY <1>2, <1>3, <1>4, <1>5 DEF
         Inductive, Types, InTurn, InStep, Still, JudgedWhole, TakenFromAll,
         LostStaysLost, KeptLogIsTheConsole, NeverGreenElsewhere, Goes, Fine, Fault,
         Exits, Verdicts, processes, result, files, reports, NoConsole

\* The re-post.
LEMMA RepostKeeps ==
  ASSUME Inductive, Repost
  PROVE  Inductive'
<1>1. \/ accepted' = accepted \cup {Told}
      \/ accepted' = accepted
  BY DEF Repost
<1>2. accepted' \subseteq Verdicts /\ ("pass" \in accepted' => outcome = "pass")
  BY <1>1, ToldOfAPass DEF Inductive, Types, NeverGreenElsewhere
<1>3. owed' \in BOOLEAN
  BY Zenon DEF Repost, Inductive, Types
<1>4. faults' \in 0..MaxFaults
  <2>1. Fault \/ Fine
    BY DEF Repost
  <2> QED BY <2>1, JobAssumption DEF Inductive, Types, Fault, Fine
<1>6. posts' \in 0..MaxPosts
  <2>1. posts \in 0..MaxPosts /\ posts < MaxPosts /\ posts' = posts + 1
    BY DEF Repost, Inductive, Types
  <2> QED BY <2>1, JobAssumption
<1>5. pc = "over" /\ UNCHANGED <<pc, job, processes, found, result, files, record>>
  BY DEF Repost
<1> QED
  BY <1>2, <1>3, <1>4, <1>5, <1>6 DEF
         Inductive, Types, InTurn, InStep, Still, JudgedWhole, TakenFromAll,
         LostStaysLost, KeptLogIsTheConsole, NeverGreenElsewhere, Goes, Fine, Fault,
         Exits, Verdicts, processes, result, files, reports, NoConsole

\* The child's end: nothing was judged while it was alive.
LEMMA ChildExitsKeeps ==
  ASSUME Inductive, NEW status \in {0, 1, RefusedRc}, ChildExits(status)
  PROVE  Inductive'
<1>1. rc' \in Exits /\ child = "alive" /\ child' = "zombie"
  BY DEF ChildExits, Exits
<1>2. faults' \in 0..MaxFaults
  BY JobAssumption DEF ChildExits, Inductive, Types, Fault, Fine
<1>3. Alone /\ UNCHANGED <<client, container, printed, log, beat>>
  BY DEF ChildExits
<1> QED
  BY <1>1, <1>2, <1>3 DEF Alone,
         Inductive, Types, InTurn, InStep, Still, JudgedWhole, TakenFromAll,
         LostStaysLost, KeptLogIsTheConsole, NeverGreenElsewhere, Goes, Fine, Fault,
         Exits, Verdicts, processes, result, files, reports, NoConsole

\* The other steps: each is the invariant before it, the step and the bounds.
LEMMA OtherStepsKeep ==
  ASSUME Inductive,
         \/ Spawn \/ Answered \/ Bug \/ TimesOut \/ KillGroup \/ RemoveContainer \/ Drain
         \/ Stop \/ FileRecord \/ BeatOpens \/ BeatWrites \/ LoseLog
         \/ StartClient \/ StartContainer \/ EndClient
         \/ \E line \in Lines : Prints(line)
  PROVE  Inductive'
<1> USE JobAssumption
    DEF Inductive, Types, InTurn, InStep, Still, JudgedWhole, TakenFromAll, LostStaysLost,
        KeptLogIsTheConsole, NeverGreenElsewhere, Goes, Fine, Fault, Exits, Verdicts,
        processes, result, files, reports, NoConsole
<1>1. CASE Spawn
  BY <1>1 DEF Spawn, Infra
<1>2. CASE Answered
  BY <1>2 DEF Answered, EndOfFile
<1>3. CASE Bug
  BY <1>3 DEF Bug, EndOfFile
<1>4. CASE TimesOut
  BY <1>4 DEF TimesOut
<1>5. CASE KillGroup
  BY <1>5 DEF KillGroup
<1>6. CASE RemoveContainer
  BY <1>6 DEF RemoveContainer
<1>7. CASE Drain
  BY <1>7 DEF Drain, EndOfFile
<1>8. CASE Stop
  BY <1>8 DEF Stop
<1>9. CASE FileRecord
  BY <1>9 DEF FileRecord
<1>10. CASE BeatOpens
  BY <1>10 DEF BeatOpens, Alone
<1>11. CASE BeatWrites
  BY <1>11 DEF BeatWrites, Alone
<1>12. CASE LoseLog
  BY <1>12 DEF LoseLog, Alone
<1>13. CASE StartClient
  BY <1>13 DEF StartClient, Alone
<1>14. CASE StartContainer
  BY <1>14 DEF StartContainer, Alone
<1>15. CASE EndClient
  BY <1>15 DEF EndClient, Alone
<1>16. ASSUME NEW line \in Lines, Prints(line) PROVE Inductive'
  BY <1>16 DEF Prints, Alone
<1> QED
  BY <1>1, <1>2, <1>3, <1>4, <1>5, <1>6, <1>7, <1>8, <1>9, <1>10, <1>11, <1>12, <1>13, <1>14, <1>15, <1>16

LEMMA StutterKeeps ==
  ASSUME Inductive, UNCHANGED vars
  PROVE  Inductive'
BY DEF vars, Inductive, Types, InTurn, InStep, Still, JudgedWhole, TakenFromAll,
       LostStaysLost, KeptLogIsTheConsole, NeverGreenElsewhere,
       processes, result, files, reports

\* A run begins with nothing printed, decided or told.
LEMMA InitInductive == Init => Inductive
<1> SUFFICES ASSUME Init PROVE Inductive
  OBVIOUS
<1>1. job \in Jobs
  BY DEF Init, Jobs, Nothing
<1>2. /\ printed \in Seq(Lines) /\ Len(printed) = 0
      /\ log \in Seq({"running", "beat", "console"}) /\ Len(log) = 0
  BY DEF Init
<1>3. 0 <= MaxLines /\ 0 <= MaxBeats + 1 /\ 0 \in 0..MaxPosts /\ 0 \in 0..MaxFaults
  BY JobAssumption
<1>4. Types
  <2>1. captured = NoConsole /\ NoConsole \in Int /\ NoConsole <= 0
    BY DEF Init, NoConsole
  <2>2. found \in BOOLEAN /\ raised \in BOOLEAN /\ kept \in BOOLEAN /\ owed \in BOOLEAN
    BY Zenon DEF Init
  <2>3. /\ pc = "make" /\ child = "none" /\ rc = 0 /\ client = "none" /\ container = "none"
        /\ outcome = "none" /\ record = "none" /\ beat = "off" /\ accepted = {}
        /\ posts = 0 /\ faults = 0
    BY DEF Init
  <2> QED
    BY <1>1, <1>2, <1>3, <2>1, <2>2, <2>3 DEF Types, Exits
<1>5. outcome = "none" /\ pc = "make" /\ ~kept /\ accepted = {} /\ container = "none"
  BY DEF Init
<1> QED
  BY <1>4, <1>5
  DEF Inductive, InTurn, InStep, JudgedWhole, TakenFromAll, LostStaysLost,
      KeptLogIsTheConsole, NeverGreenElsewhere

LEMMA NextInductive == Inductive /\ [Next]_vars => Inductive'
<1> SUFFICES ASSUME Inductive, [Next]_vars PROVE Inductive'
  OBVIOUS
<1>1. ASSUME Run PROVE Inductive'
  BY <1>1, MakeKeeps, ArgvKeeps, FlightKeeps, ListClientsKeeps, JudgeItKeeps,
     KeepConsoleKeeps, PostKeeps, OtherStepsKeep DEF Run, Execute
<1>2. ASSUME Others PROVE Inductive'
  BY <1>2, ChildExitsKeeps, OtherStepsKeep DEF Others
<1> QED
  BY <1>1, <1>2, RepostKeeps, StutterKeeps DEF Next

\* The invariant the other theorems rest on.
THEOREM Invariance == Spec => []Inductive
<1>1. Init => Inductive
  BY InitInductive
<1>2. Inductive /\ [Next]_vars => Inductive'
  BY NextInductive
<1> QED
  BY <1>1, <1>2, PTL DEF Spec
-----------------------------------------------------------------------------
(* What the runs check, for every suite and every bound.                   *)

\* Every variable keeps its type, the console and the log their bounds.
THEOREM TypeCorrect == Spec => []TypeOK
<1>1. Inductive => TypeOK
  <2> SUFFICES ASSUME Inductive PROVE TypeOK
    OBVIOUS
  <2>1. Types
    BY DEF Inductive
  <2>2. \A S : \A s \in Seq(S), n \in Nat : Len(s) <= n => s \in BoundedSeq(S, n)
    <3> SUFFICES ASSUME NEW S, NEW s \in Seq(S), NEW n \in Nat, Len(s) <= n
                 PROVE s \in BoundedSeq(S, n)
      OBVIOUS
    <3>1. Len(s) \in 0..n /\ s \in [1..Len(s) -> S]
      OBVIOUS
    <3> QED
      BY <3>1 DEF BoundedSeq, SeqOf
  <2>3. printed \in BoundedSeq(Lines, MaxLines)
    BY <2>1, <2>2, JobAssumption DEF Types
  <2>4. log \in BoundedSeq({"running", "beat", "console"}, MaxBeats + 1)
    BY <2>1, <2>2, JobAssumption DEF Types
  <2>5. captured \in NoConsole..Len(printed)
    BY <2>1 DEF Types, NoConsole
  <2> QED
    BY <2>1, <2>3, <2>4, <2>5 DEF Types, TypeOK, Jobs, Exits
<1> QED
  BY <1>1, Invariance, PTL

\* What is on record is what happened: a verdict is given only by a run that ended by
\* itself, a pass only if nothing the run printed, then or later, speaks against it, and
\* a log the record names begins with the console, whatever the beats do.
THEOREM RecordsAreTrue == Spec => []RecordIsTrue
<1>1. Inductive => VerdictsAreEarned
  <2> SUFFICES ASSUME Inductive PROVE VerdictsAreEarned
    OBVIOUS
  <2>1. outcome \in {"pass", "fail"} => rc # NoExit
    BY DEF Inductive, TakenFromAll
  <2>2. ASSUME outcome = "pass" PROVE Earned(rc, printed, job.test)
    <3>1. rc \in Exits /\ printed \in Seq(Lines)
      BY DEF Inductive, Types
    <3>2. Verdict(rc, printed, job.test) = "pass"
      BY <2>2 DEF Inductive, TakenFromAll
    <3> QED
      BY <3>1, <3>2, PassIsEarned
  <2>3. DOMAIN printed = 1..Len(printed)
    BY DEF Inductive, Types
  <2>4. \A n, kinds : Reported(n, kinds) <=> Said(printed, Len(printed), n, kinds)
    BY <2>3 DEF Reported, Said
  <2> QED
    BY <2>1, <2>2, <2>4 DEF Earned, VerdictsAreEarned
<1>2. Inductive => RecordIsTrue
  BY <1>1 DEF RecordIsTrue, Inductive
<1> QED
  BY <1>2, Invariance, PTL

\* The pipeline is never told of a pass the run did not end in, at once or by a re-post
\* long after, with the log there or lost.
THEOREM NeverGreenerThanTheRun == Spec => []NeverGreenElsewhere
<1>1. Inductive => NeverGreenElsewhere
  BY DEF Inductive
<1> QED
  BY <1>1, Invariance, PTL
=============================================================================
