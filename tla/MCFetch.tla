------------------------------- MODULE MCFetch ------------------------------
(* Instances of Fetch for TLC. *)
EXTENDS Fetch, TLC

Perms == Permutations(Processes)
=============================================================================
