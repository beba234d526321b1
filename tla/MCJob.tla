------------------------------- MODULE MCJob --------------------------------
(* Instances of Job for TLC. *)
EXTENDS Job, TLC

CONSTANTS s1, s2
=============================================================================
