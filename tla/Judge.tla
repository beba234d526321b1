------------------------------- MODULE Judge -------------------------------
(***************************************************************************)
(* What a run's console means: lib/judge.py, which turns tuxrun's exit     *)
(* status and output into a verdict, and the two functions of lib/sink.py  *)
(* that put the verdict into the body the pipeline is sent and read it     *)
(* back out.  Operators only; Job uses them.                               *)
(*                                                                         *)
(* A console is the sequence of the lines these functions look for.  A     *)
(* TAP line names a selftest; of the others only the kind matters.         *)
(***************************************************************************)
EXTENDS Integers, SequencesExt

CONSTANT Selftests    \* the names of a kselftest suite's tests

Boot == "boot"
Suite == "kselftest-kvm"

TapKinds == {"started", "ok", "skip", "not_ok"}
OtherKinds == {"boot_case_pass", "boot_case_fail",  \* login-action, kernel-messages
               "job_pass", "job_fail",              \* LAVA's own case
               "kernel",                            \* BOOT_EVIDENCE_RE
               "infra",                             \* an Infrastructure error, an unclean end
               "refused"}                           \* argparse: error and usage

Lines == [kind : TapKinds, name : Selftests] \cup [kind : OtherKinds, name : {""}]

Has(console, kind) == \E i \in DOMAIN console : console[i].kind = kind

NoExit == -1        \* `returncode` None: the timeout hit
RefusedRc == 2
-----------------------------------------------------------------------------
(* `tap_summary`: each name's status, a failure being final.               *)

NoTap == [failed |-> {}, skipped |-> {}, passed |-> {}, sticky |-> {}]

Names(tap) == tap.failed \cup tap.skipped \cup tap.passed

Put(tap, name, where) ==
    [tap EXCEPT !.failed = IF where = "failed" THEN @ \cup {name} ELSE @ \ {name},
                !.skipped = IF where = "skipped" THEN @ \cup {name} ELSE @ \ {name},
                !.passed = IF where = "passed" THEN @ \cup {name} ELSE @ \ {name}]

TapLine(tap, line) ==
    CASE line.kind = "not_ok" ->
            [Put(tap, line.name, "failed") EXCEPT !.sticky = @ \cup {line.name}]
      [] line.kind = "started" /\ line.name \notin Names(tap) -> Put(tap, line.name, "failed")
      [] line.kind = "ok" /\ line.name \notin tap.sticky -> Put(tap, line.name, "passed")
      [] line.kind = "skip" /\ line.name \notin tap.sticky -> Put(tap, line.name, "skipped")
      [] OTHER -> tap

\* The last line about a name decides: a retry erases the failure before it.
LastTapLine(tap, line) ==
    CASE line.kind \in {"not_ok", "started"} -> Put(tap, line.name, "failed")
      [] line.kind = "ok" -> Put(tap, line.name, "passed")
      [] line.kind = "skip" -> Put(tap, line.name, "skipped")
      [] OTHER -> tap

\* Mutant: a name's last line decides.
LastTap(console) ==
    LET tap[i \in 0..Len(console)] ==
            IF i = 0 THEN NoTap ELSE LastTapLine(tap[i - 1], console[i])
    IN  tap[Len(console)]

\* The loop over the lines, from the first to the last.
Tap(console) ==
    LET tap[i \in 0..Len(console)] ==
            IF i = 0 THEN NoTap ELSE TapLine(tap[i - 1], console[i])
    IN  tap[Len(console)]

-----------------------------------------------------------------------------
(* `verdict`, in the order of its questions.                               *)

\* Mutant: a timeout is judged by what the console shows.
NoVerdictButMarked(rc, console) ==
    \/ rc = RefusedRc /\ Has(console, "refused")
    \/ Has(console, "infra")

NoVerdict(rc, console) ==
    \/ rc = RefusedRc /\ Has(console, "refused")
    \/ Has(console, "infra")
    \/ rc = NoExit

\* The last of LAVA's own cases decides.
LastJobCase(console, kind) ==
    \E i \in DOMAIN console :
        /\ console[i].kind = kind
        /\ \A j \in i + 1..Len(console) : console[j].kind \notin {"job_pass", "job_fail"}

BootVerdict(rc, console) ==
    LET failed == Has(console, "boot_case_fail") \/ LastJobCase(console, "job_fail")
        booted == \/ Has(console, "boot_case_pass")
                  \/ LastJobCase(console, "job_pass")
                  \/ Has(console, "kernel")
    IN  CASE rc # 0 \/ failed -> "fail"
          [] rc = 0 /\ ~failed /\ booted -> "pass"
          [] OTHER -> "incomplete"

\* tuxrun exits 0 also when selftests fail: its status only matters without TAP.
TapVerdict(rc, console) ==
    LET tap == Tap(console)
    IN  CASE Names(tap) = {} -> IF rc = 0 THEN "fail" ELSE "incomplete"
          [] tap.failed # {} -> "fail"
          [] OTHER -> "pass"

Verdict(rc, console, test) ==
    IF NoVerdict(rc, console) THEN "incomplete"
    ELSE IF test = Boot THEN BootVerdict(rc, console) ELSE TapVerdict(rc, console)
-----------------------------------------------------------------------------
(* `lava_body` and `verdict_from_body`.                                    *)

\* The suite case is failing for a console without TAP as well, and is then no
\* evidence of the failure.
SuiteFails(console) == Names(Tap(console)) = {} \/ Tap(console).failed # {}

Evidence(console, test) ==
    IF test = Boot THEN Has(console, "boot_case_fail") ELSE Tap(console).failed # {}

\* Mutant: a verdict is enough.
CompleteWithVerdict(outcome, console, test) == outcome \in {"pass", "fail"}

Complete(outcome, console, test) ==
    \/ outcome = "pass"
    \/ outcome = "fail" /\ Evidence(console, test)

LavaBody(outcome, console, test) ==
    [complete |-> Complete(outcome, console, test),
     failing |-> Has(console, "boot_case_fail") \/ (test # Boot /\ SuiteFails(console))]

VerdictFromBody(body) ==
    IF ~body.complete THEN "incomplete" ELSE IF body.failing THEN "fail" ELSE "pass"
=============================================================================
