------------------------------ MODULE BulkReport ------------------------------
(***************************************************************************)
(* What a reader of bulk jobs is promised, whatever the pool, dbt, clears  *)
(* and restarts do behind it: a job collects one outcome after another for *)
(* the tables it accepted, an outcome once shown is never withdrawn, a job *)
(* is settled only when every table has one, and a settled job changes no  *)
(* more. A job may be forgotten at any time; a forgotten job can come back *)
(* only with an empty report.                                              *)
(***************************************************************************)

CONSTANTS Jobs, Tables

VARIABLES
    asked,    \* tables the job accepted
    shown,    \* whether the job is known to readers
    settled,  \* whether it is shown as done
    success,  \* tables shown as migrated
    failed    \* tables shown as failed

reportVars == <<asked, shown, settled, success, failed>>

Init ==
    /\ asked = [j \in Jobs |-> {}]
    /\ shown = [j \in Jobs |-> FALSE]
    /\ settled = [j \in Jobs |-> FALSE]
    /\ success = [j \in Jobs |-> {}]
    /\ failed = [j \in Jobs |-> {}]

\* A job appears, with nothing decided; its request is fixed the first time.
Show(j) ==
    /\ ~shown[j]
    /\ shown' = [shown EXCEPT ![j] = TRUE]
    /\ \E a \in SUBSET Tables : asked' = [asked EXCEPT ![j] = a]
    /\ asked[j] # {} => asked' = asked
    /\ UNCHANGED <<settled, success, failed>>

\* One accepted table gets an outcome.
Record(j, t) ==
    /\ shown[j]
    /\ ~settled[j]
    /\ t \in asked[j]
    /\ \/ success' = [success EXCEPT ![j] = @ \cup {t}] /\ UNCHANGED failed
       \/ failed' = [failed EXCEPT ![j] = @ \cup {t}] /\ UNCHANGED success
    /\ UNCHANGED <<asked, shown, settled>>

\* Every accepted table has one.
Settle(j) ==
    /\ shown[j]
    /\ asked[j] # {}
    /\ asked[j] \subseteq success[j] \cup failed[j]
    /\ settled' = [settled EXCEPT ![j] = TRUE]
    /\ UNCHANGED <<asked, shown, success, failed>>

\* Jobs are cleared, or the process that knew them ends.
Forget(S) ==
    /\ shown' = [j \in Jobs |-> shown[j] /\ j \notin S]
    /\ settled' = [j \in Jobs |-> settled[j] /\ j \notin S]
    /\ success' = [j \in Jobs |-> IF j \in S THEN {} ELSE success[j]]
    /\ failed' = [j \in Jobs |-> IF j \in S THEN {} ELSE failed[j]]
    /\ UNCHANGED asked

Next ==
    \/ \E j \in Jobs : Show(j) \/ Settle(j)
    \/ \E j \in Jobs, t \in Tables : Record(j, t)
    \/ \E S \in SUBSET Jobs : Forget(S)

Spec == Init /\ [][Next]_reportVars

=============================================================================
