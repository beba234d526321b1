----------------------------- MODULE MCActivity -----------------------------
(* Instances of Activity for TLC. *)
EXTENDS Activity, TLC

CONSTANTS t1, t2

\* The request threads are interchangeable.
ThreadSymmetry == Permutations(Threads)
=============================================================================
