----------------------------- MODULE MCWaveRun -----------------------------
(* TLC instances of WaveRun. *)
EXTENDS WaveRun

CONSTANTS e1, e2, r1, r2, a, b, c, nomodel

\* Two waves, a model that two waves share, one wave with a repeated model, and the
\* wave without models of an execution that generated nothing.
ManyPlans == {<<<<a, b>>, <<a>>>>, <<<<a>>, <<b>>>>, <<<<a, a>>, <<b>>>>, <<<<>>>>}

\* One model, which two executions share.
OnePlan == {<<<<a>>>>}

=============================================================================
