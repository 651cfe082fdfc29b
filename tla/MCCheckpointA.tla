---------------------------- MODULE MCCheckpointA ----------------------------
(* TLC instances of CheckpointA. *)
EXTENDS CheckpointA

CONSTANTS q1, q2, generator

=============================================================================
