-------------------------- MODULE MCProgressStream --------------------------
(* TLC instances of ProgressStream. *)
EXTENDS ProgressStream

CONSTANTS j1, j2, w1, w2, free, nojob

=============================================================================
