------------------------------ MODULE LiveBoard ------------------------------
(***************************************************************************)
(* What whoever follows live ingestion jobs is promised, whatever their     *)
(* workers run into: a job is queued until it is one of at most Slots that  *)
(* run, and then gets one verdict, which stands. A job whose worker is lost *)
(* stays as it is and takes no place. The end of the server turns every     *)
(* unfinished job into a failure; only the worker of a job so marked may    *)
(* still move it, once more into running and once to its own verdict.       *)
(***************************************************************************)
EXTENDS Naturals, FiniteSets

CONSTANTS Jobs, Slots

VARIABLES
    shown,   \* the status each job is shown with
    lost,    \* jobs whose worker is gone without a verdict
    marked,  \* jobs the end of the server found unfinished, their workers still there
    down     \* the server has ended

boardVars == <<shown, lost, marked, down>>

Verdicts == {"success", "partial", "failure"}

Init ==
    /\ shown = [j \in Jobs |-> "none"]
    /\ lost = {}
    /\ marked = {}
    /\ down = FALSE

Running == {j \in Jobs : shown[j] = "running"} \ lost

Submit(j) ==
    /\ shown[j] = "none"
    /\ ~down
    /\ shown' = [shown EXCEPT ![j] = "queued"]
    /\ UNCHANGED <<lost, marked, down>>

\* There is room for one more.
Begin(j) ==
    /\ shown[j] = "queued" \/ j \in marked
    /\ Cardinality(Running) < Slots
    /\ shown' = [shown EXCEPT ![j] = "running"]
    /\ marked' = marked \ {j}
    /\ UNCHANGED <<lost, down>>

Finish(j, verdict) ==
    /\ j \in Running \cup marked
    /\ shown' = [shown EXCEPT ![j] = verdict]
    /\ marked' = marked \ {j}
    /\ UNCHANGED <<lost, down>>

Lose(j) ==
    /\ j \in Running \cup marked
    /\ lost' = lost \cup {j}
    /\ marked' = marked \ {j}
    /\ UNCHANGED <<shown, down>>

Shutdown ==
    LET unfinished == {j \in Jobs : shown[j] \in {"queued", "running"}} IN
    /\ ~down
    /\ down' = TRUE
    /\ shown' = [j \in Jobs |-> IF j \in unfinished THEN "failure" ELSE shown[j]]
    /\ marked' = unfinished \ lost
    /\ UNCHANGED lost

Next ==
    \/ \E j \in Jobs : Submit(j) \/ Begin(j) \/ Lose(j)
    \/ \E j \in Jobs, verdict \in Verdicts : Finish(j, verdict)
    \/ Shutdown

Spec == Init /\ [][Next]_boardVars

=============================================================================
