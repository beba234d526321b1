------------------------------- MODULE Views -------------------------------
(***************************************************************************)
(* The readings of the ledger: lib/re.py over the records of lib/sink.py,  *)
(* and the fold of trend.py over the nodes of the API.  A record is a      *)
(* record with at least a build, a test, a stamp and a verdict; what a     *)
(* reading is given is a sequence of them, in the order they were listed.  *)
(***************************************************************************)
EXTENDS Sequencing, SequencesExt

Verdicts == {"pass", "fail", "incomplete", "error"}

\* A run with nothing to say for itself: a node that is neither pass nor fail is
\* a run without a verdict.
VerdictOf(result) == IF result \in {"pass", "fail"} THEN result ELSE "incomplete"

\* Python's `sorted` by stamp, oldest first: stable, so equal stamps stay in the
\* order they were listed.
ByStamp(items) ==
    Arranged(items, {p \in (DOMAIN items) \X (DOMAIN items) :
        \/ items[p[1]].stamp < items[p[2]].stamp
        \/ items[p[1]].stamp = items[p[2]].stamp /\ p[1] < p[2]})

\* `Records.for_test`.
ForTest(items, test) == Those(items, {i \in DOMAIN items : items[i].test = test})

\* `Records.series`: one test's history, the order a trend reads it in.
Series(items, test) == ByStamp(ForTest(items, test))

\* Mutant: a failure does not disarm the detector.
TurnsEveryFailure(history) ==
    LET Step(acc, one) ==
        IF one.verdict = "pass" THEN [acc EXCEPT !.armed = {one}]
        ELSE IF one.verdict = "fail" /\ acc.armed # {}
        THEN [acc EXCEPT !.found = Append(@, <<one, CHOOSE p \in acc.armed : TRUE>>)]
        ELSE acc
    IN FoldLeft(Step, [found |-> <<>>, armed |-> {}], history).found

\* The fold of `transitions` over a history that is already in order: a pass arms
\* the detector, the first failure after it is reported and disarms it.
Transitions(history) ==
    LET Step(acc, one) ==
        IF one.verdict = "pass" THEN [acc EXCEPT !.armed = {one}]
        ELSE IF one.verdict = "fail" /\ acc.armed # {}
        THEN [found |-> Append(acc.found, <<one, CHOOSE p \in acc.armed : TRUE>>), armed |-> {}]
        ELSE acc
    IN FoldLeft(Step, [found |-> <<>>, armed |-> {}], history).found

-----------------------------------------------------------------------------
(* What the readings are for.                                              *)

\* A regression is a failure whose nearest decided run before it is a pass: the
\* runs between the two, if any, had no verdict (re.py, `transitions`:
\* "consecutive failures are ONE regression").
Regressions(history) ==
    {<<history[ij[2]], history[ij[1]]>> : ij \in
        {ij \in (DOMAIN history) \X (DOMAIN history) :
            /\ ij[1] < ij[2]
            /\ history[ij[1]].verdict = "pass" /\ history[ij[2]].verdict = "fail"
            /\ \A k \in (ij[1] + 1)..(ij[2] - 1) : history[k].verdict \notin {"pass", "fail"}}}
=============================================================================
