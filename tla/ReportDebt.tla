----------------------------- MODULE ReportDebt -----------------------------
(***************************************************************************)
(* What the resident worker promises about reports, with no processes, no  *)
(* lock, no memory and no events feed: a node whose run is over and which  *)
(* nothing excuses is not run again, and its report is being posted, has   *)
(* left, or is owed, until the file that remembers all this is lost.       *)
(* Poller implements this specification (Poller!Promise).                  *)
(***************************************************************************)
CONSTANT Nodes

VARIABLES
    lost,     \* the file cannot be read: nothing is promised until it is written
    ran,      \* nodes that have been run, with nothing to excuse a second run
    posting,  \* nodes whose report is in the worker's hands
    owed,     \* nodes whose report is owed
    report    \* where the report of a node's latest run got to

vars == <<lost, ran, posting, owed, report>>

Arrived == {"received", "acked"}
Outcomes == {"unsent"} \cup Arrived

\* The promise: no report of a run that counts is nowhere.
Accounted(n) == report[n] \in Outcomes \/ n \in owed \/ n \in posting

Kept == lost \/ \A n \in ran : Accounted(n)

Init ==
    /\ lost = FALSE
    /\ ran = {} /\ posting = {} /\ owed = {}
    /\ report = [n \in Nodes |-> "none"]

\* A run ends, the first that counts; its report is new.
Finish(n) ==
    /\ n \notin ran /\ n \notin posting
    /\ ran' = IF lost THEN ran ELSE ran \cup {n}
    /\ posting' = posting \cup {n}
    /\ report' = [report EXCEPT ![n] = "none"]
    /\ UNCHANGED <<lost, owed>>

\* The report leaves, or is from now on owed, or both (its answer was not heard);
\* with the file lost this is also the write that ends the loss.
HandOver(n) ==
    /\ n \in posting
    /\ posting' = posting \ {n}
    /\ \E what \in Outcomes \cup {report[n]} : report' = [report EXCEPT ![n] = what]
    /\ \/ lost /\ lost' = FALSE
       \/ /\ UNCHANGED <<lost, ran>>
          /\ owed' \in {owed, owed \cup {n}, owed \ {n}}
          /\ n \in owed \ owed' => report'[n] \in Arrived
    /\ owed' \subseteq Nodes /\ ran' \subseteq Nodes
    /\ Kept'

\* An owed report is posted again and arrives; settling the debt comes later.
\* Marking the node may evict another.
Repost(n) ==
    /\ \E what \in Arrived : report' = [report EXCEPT ![n] = what]
    /\ ran' \subseteq ran
    /\ UNCHANGED <<lost, posting, owed>>

\* The file is written: debts that were paid leave it.
Settle ==
    /\ ~lost
    /\ \E S \in SUBSET owed :
        /\ \A n \in S : report[n] \in Arrived
        /\ owed' = owed \ S
    /\ UNCHANGED <<lost, posting, report>>
    /\ ran' \subseteq ran

\* A node is forgotten or evicted, or dies with its report in hand: it may be
\* run again.  What is owed stays owed.
Excuse ==
    /\ ran' \subseteq ran /\ posting' \subseteq posting
    /\ posting \ posting' \subseteq Nodes \ ran'
    /\ UNCHANGED <<lost, owed, report>>

\* The file is lost, and written again from whatever is remembered.
Lose ==
    /\ lost' = TRUE /\ ran' = {} /\ owed' = {}
    /\ UNCHANGED <<posting, report>>

Rewrite ==
    /\ lost /\ lost' = FALSE
    /\ ran' \subseteq Nodes /\ owed' \subseteq Nodes /\ posting' \subseteq posting
    /\ UNCHANGED report
    /\ Kept'

Next ==
    \/ \E n \in Nodes : Finish(n) \/ HandOver(n) \/ Repost(n)
    \/ Settle \/ Excuse \/ Lose \/ Rewrite

Spec == Init /\ [][Next]_vars
=============================================================================
