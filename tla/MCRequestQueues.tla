-------------------------- MODULE MCRequestQueues --------------------------
(* RequestQueues for TLC.                                                   *)
EXTENDS RequestQueues

=============================================================================
