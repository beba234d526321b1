----------------------------- MODULE WorkerPage -----------------------------
(***************************************************************************)
(* The queue table of the worker's page (lib/gui/activities.py             *)
(* job_node_rows, lib/gui/design/data.py, pages/worker.py) beside a        *)
(* running worker.  A request reads the state file and then walks the      *)
(* ledger, at two moments; each row says what became of its node here, and *)
(* has a forget button where that can be undone.                           *)
(***************************************************************************)
EXTENDS Poller

VARIABLES ledger,     \* nodes a record or a history line of this machine names
          request,    \* what a request of the page has read, or NoRequest
          unrecorded  \* history: nodes of a run whose row could not be written

pageVars == <<ledger, request, unrecorded>>

NoRequest == [read |-> FALSE]

\* What the page takes of the state file; one that cannot be read is empty.
WorkerState ==
    [read |-> TRUE, claimed |-> Seen(Load), held |-> Load.pending, refused |-> Load.refused]

\* `fate_of`: what is certain goes before what is remembered.
FateOf(state, ran, n) ==
    IF n \in state.held THEN "held"
    ELSE IF n \in ran THEN "ran"
    ELSE IF n \in state.refused THEN "refused"
    ELSE IF n \in state.claimed THEN "seen"
    ELSE "never"

\* Mutant: the button is there for whatever the worker dealt with.
ForgetAnything(fate) == fate # "never"

\* The button is drawn where the worker remembers the node and owes nothing.
ForgetOffered(fate) == fate \in {"refused", "seen", "ran"}

-----------------------------------------------------------------------------
(* One request of the page.                                                *)

ReadState ==
    /\ request = NoRequest
    /\ request' = WorkerState
    /\ UNCHANGED <<ledger, unrecorded>>

\* `Ledger.node_ids`, and the rows: what the page says of each node is
\* FateOf(request, ledger, n), and at any time before it may be said.
Draw ==
    /\ request # NoRequest
    /\ request' = NoRequest
    /\ UNCHANGED <<ledger, unrecorded>>

PageRequest == (ReadState \/ Draw) /\ UNCHANGED vars

RunsOver == {cur[w] : w \in {v \in Workers : pc[v] = "run" /\ pc'[v] = "report"}}

\* `Ledger.deliver`: a run that is over leaves a row that names its node, or the write
\* fails, which is a note and no error.
LedgerKeeps ==
    \/ ledger' = ledger \cup RunsOver /\ UNCHANGED unrecorded
    \/ unrecorded' = unrecorded \cup RunsOver /\ UNCHANGED ledger

WorkerStep == Next /\ LedgerKeeps /\ UNCHANGED request

PageInit == Init /\ ledger = {} /\ request = NoRequest /\ unrecorded = {}
PageNext == WorkerStep \/ PageRequest
PageSpec == PageInit /\ [][PageNext]_<<vars, pageVars>>

-----------------------------------------------------------------------------
(* Properties                                                              *)

\* A page says `seen` of a node this worker handled only where the row of its run could
\* not be written: what it put down says why, and what it ran is in the ledger by the time
\* the file names it, though a run can end between the page's two reads.
EveryMarkIsExplained ==
    request # NoRequest => \A n \in Nodes :
        FateOf(request, ledger, n) = "seen" => n \in unrecorded

\* A press of the button, while no worker holds the file, lets no owed report be run
\* again: the node is marked and nothing is owed for it (worker.py, _forget_button: it is
\* not drawn for a held node, "the one thing `seen` exists to prevent").
ForgetHarmless(n) == n \in Seen(Load) /\ n \notin Load.pending

\* So it is on a page drawn now, and on one of any age for the nodes whose mark it read.
ForgetIsSafe ==
    lock = NoProc => \A n \in Nodes :
        /\ ForgetOffered(FateOf(WorkerState, ledger, n)) => ForgetHarmless(n)
        /\ (/\ request # NoRequest /\ n \in request.claimed
            /\ ForgetOffered(FateOf(request, ledger, n)))
           => ForgetHarmless(n)

\* The same of every button of a page of any age.  It does not hold: a page that read the
\* file before the mark and the ledger after the row offers to forget a node whose report
\* is owed by the time of the press, which forget_node does not look at.
ForgetStaysSafe ==
    lock = NoProc /\ request # NoRequest => \A n \in Nodes :
        ForgetOffered(FateOf(request, ledger, n)) => ForgetHarmless(n)
=============================================================================
