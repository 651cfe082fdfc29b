------------------------------ MODULE MCStreams ------------------------------
(* TLC instances of the two kinds of progress streams: those of bulk jobs, which *)
(* share a lock with the workers, and those of live jobs, which do not.  They    *)
(* share no variable, so a behaviour is one of one kind (kind), with the other   *)
(* at rest.                                                                      *)
EXTENDS MCProgressStream, LivePages

VARIABLE kind  \* the streams that move

StInit == kind \in {"bulk", "live"} /\ Init /\ LpInit

StNext ==
    \/ kind = "bulk" /\ Next /\ UNCHANGED <<lpVars, kind>>
    \/ kind = "live" /\ LpNext /\ UNCHANGED <<vars, kind>>

stVars == <<kind, vars, lpVars>>

\* At rest nothing is enabled that either fairness asks for.
StSpec == StInit /\ [][StNext]_stVars /\ Fairness /\ LpFairness

=============================================================================
