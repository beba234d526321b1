------------------------------ MODULE MCPoller ------------------------------
(* Instances of Poller for TLC. *)
EXTENDS Poller, TLC

CONSTANTS a, b, c, w1, w2, g1

\* `a` is the newer node.
CreatedStamps == [n \in Nodes |-> IF n = a THEN 2 ELSE 1]

\* The two workers run the same program.
WorkerSymmetry == Permutations({w1, w2})
=============================================================================
