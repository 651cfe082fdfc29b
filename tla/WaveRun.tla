------------------------------ MODULE WaveRun ------------------------------
(***************************************************************************)
(* The execution of approved models: waves one after another behind a      *)
(* gate, a bounded fix loop for each model, Checkpoint B for the models    *)
(* whose attempts are exhausted, and the reviewers that approve or reject  *)
(* them, at any time. Executions share the project and checkpoint folders. *)
(***************************************************************************)
EXTENDS Naturals, Sequences, SequencesExt

CONSTANTS
    Execs,       \* executions that may be launched
    Reviewers,   \* people that decide on Checkpoint B artifacts
    Models,      \* dbt models
    Plans,       \* wave_to_model_names an execution may have, waves in order
    Bypasses,    \* values of bypass_wave, 0 for none
    NoModel,     \* what an idle reviewer reviews
    MaxAttempts  \* max_fix_attempts, validated to be at least 1

ASSUME WaveAssumption ==
    /\ Plans \subseteq Seq(Seq(Models)) \ {<<>>}
    /\ Bypasses \subseteq Nat
    /\ NoModel \notin Models
    /\ MaxAttempts \in Nat \ {0}

VARIABLES
    pc,      \* where each execution is
    plan,    \* its waves
    bypass,  \* the wave whose gate it skips, 0 for none
    stop,    \* stop_on_first_error
    wave,    \* the current wave
    next,    \* the current model, an index into the wave
    attempt, \* attempt_no of the fix loop
    state,   \* model_state, "none" for a model without one
    gates,   \* wave_telemetry: the status of each wave that was closed
    result,  \* execution_status
    tested,  \* history: the models whose run and test this execution saw pass
    at,      \* where each reviewer is
    item,    \* the model each reviewer decides on
    art,     \* the models with a Checkpoint B artifact
    tmp,     \* the models with a pending .ai_fix.sql
    dlq,     \* the models with a DLQ record
    repaired, \* history: the models with an approved fix that dbt has built
    due      \* history: the exhausted models on which nobody has decided since

option == <<plan, bypass, stop>>
cursor == <<wave, next, attempt>>
verdicts == <<state, gates, result, tested>>
review == <<at, item>>
store == <<art, tmp, dlq, repaired, due>>
vars == <<pc, option, cursor, verdicts, review, store>>

Wave(e) == plan[e][wave[e]]
Model(e) == Wave(e)[next[e]]
InWave(e) == next[e] <= Len(Wave(e))
PlannedIn(e, w) == ToSet(plan[e][w])
To(e, l) == pc' = [pc EXCEPT ![e] = l]

-----------------------------------------------------------------------------
(* Executions: _orchestrate_waves_with_gating over execute_models_with_fix_loop *)

\* Mutant: a run that was blocked is told from a partial one, and success is the rest.
OutcomeBlocked(st, blocked) ==
    IF blocked THEN "HITL_REQUIRED"
    ELSE IF \E m \in Models : st[m] = "SUCCESS" THEN "SUCCESS" ELSE "FAILED"

\* The status of an execution whose model_state is st.
Outcome(st, blocked) ==
    LET failed == {m \in Models : st[m] = "HITL_REQUIRED"}
    IN  IF failed # {} THEN IF blocked THEN "HITL_REQUIRED" ELSE "PARTIAL"
        ELSE IF \E m \in Models : st[m] = "SUCCESS" THEN "SUCCESS" ELSE "FAILED"

End(e, st, blocked) ==
    /\ To(e, "ended")
    /\ result' = [result EXCEPT ![e] = Outcome(st, blocked)]

Launch(e) ==
    /\ pc[e] = "idle"
    /\ To(e, "model")
    /\ UNCHANGED <<option, cursor, verdicts, review, store>>

\* The sources of the next model are bootstrapped.
Bootstrap(e) ==
    /\ pc[e] = "model"
    /\ InWave(e)
    /\ To(e, "run")
    /\ attempt' = [attempt EXCEPT ![e] = 1]
    /\ UNCHANGED <<option, wave, next, verdicts, review, store>>

\* dbt run or dbt test has failed: another attempt, or none is left.
Failing(e) == To(e, IF attempt[e] < MaxAttempts THEN "fix" ELSE "exhausted")

DbtRun(e) ==
    /\ pc[e] = "run"
    /\ To(e, "test") \/ Failing(e)
    /\ UNCHANGED <<option, cursor, verdicts, review, store>>

\* dbt test passes: the model succeeds and the wave goes on.
DbtTest(e) ==
    /\ pc[e] = "test"
    /\ state' = [state EXCEPT ![e][Model(e)] = "SUCCESS"]
    /\ tested' = [tested EXCEPT ![e] = @ \cup {Model(e)}]
    /\ To(e, "model")
    /\ next' = [next EXCEPT ![e] = @ + 1]
    /\ UNCHANGED <<option, wave, attempt, gates, result, review, store>>

DbtTestFails(e) ==
    /\ pc[e] = "test"
    /\ Failing(e)
    /\ UNCHANGED <<option, cursor, verdicts, review, store>>

\* Mutant: the attempt is not counted.
FixAgain(e) ==
    /\ pc[e] = "fix"
    /\ To(e, "run")
    /\ UNCHANGED <<option, cursor, verdicts, review, store>>

\* Whatever the fix agent answers, the model is tried again.
Fix(e) ==
    /\ pc[e] = "fix"
    /\ attempt' = [attempt EXCEPT ![e] = @ + 1]
    /\ To(e, "run")
    /\ UNCHANGED <<option, wave, next, verdicts, review, store>>

\* The Checkpoint B artifact is saved, over an older one if there is one.
Exhaust(e) ==
    LET st == [state[e] EXCEPT ![Model(e)] = "HITL_REQUIRED"]
    IN  /\ pc[e] = "exhausted"
        /\ art' = art \cup {Model(e)}
        /\ due' = due \cup {Model(e)}
        /\ state' = [state EXCEPT ![e] = st]
        /\ IF stop[e]
           THEN /\ End(e, st, TRUE)
                /\ gates' = [gates EXCEPT ![e] = Append(@, "REVIEW_REQUIRED")]
                /\ UNCHANGED next
           ELSE /\ To(e, "model")
                /\ next' = [next EXCEPT ![e] = @ + 1]
                /\ UNCHANGED <<gates, result>>
        /\ UNCHANGED <<option, wave, attempt, tested, review, tmp, dlq, repaired>>

\* The bootstrap, an authentication error of the fix agent or a failed save of the
\* artifact raises out of the execution, which is reported as FAILED.
Abort(e) ==
    /\ pc[e] \in {"model", "fix", "exhausted"}
    /\ pc[e] = "model" => InWave(e)
    /\ To(e, "ended")
    /\ result' = [result EXCEPT ![e] = "FAILED"]
    /\ UNCHANGED <<option, cursor, state, gates, tested, review, store>>

\* Mutant: the gate asks whether any model of the wave is ready.
ReadyAny(e) ==
    PlannedIn(e, wave[e]) # {} => \E m \in PlannedIn(e, wave[e]) : state[e][m] = "SUCCESS"

Ready(e) == \A m \in PlannedIn(e, wave[e]) : state[e][m] = "SUCCESS"

\* The wave is over: proceed to the next one, or end after the last or blocked.
Gate(e) ==
    /\ pc[e] = "model"
    /\ ~InWave(e)
    /\ gates' = [gates EXCEPT ![e] =
                    Append(@, IF Ready(e) THEN "READY" ELSE "REVIEW_REQUIRED")]
    /\ LET passes == Ready(e) \/ bypass[e] = wave[e]
       IN  IF passes /\ wave[e] < Len(plan[e])
           THEN /\ wave' = [wave EXCEPT ![e] = @ + 1]
                /\ next' = [next EXCEPT ![e] = 1]
                /\ UNCHANGED <<pc, result>>
           ELSE /\ End(e, state[e], ~passes)
                /\ UNCHANGED <<wave, next>>
    /\ UNCHANGED <<option, attempt, state, tested, review, store>>

-----------------------------------------------------------------------------
(* Reviewers: apply_ai_fix_from_checkpoint and reject_checkpoint_b_to_dlq *)

Goes(r, l) == at' = [at EXCEPT ![r] = l]

\* The artifact is there; the proposed SQL is written beside it.
ApplyStart(r, m) ==
    /\ at[r] = "idle"
    /\ m \in art
    /\ Goes(r, "approving")
    /\ item' = [item EXCEPT ![r] = m]
    /\ tmp' = tmp \cup {m}
    /\ UNCHANGED <<pc, option, cursor, verdicts, art, dlq, repaired, due>>

\* The model file is replaced; another reviewer may have removed the proposal.
ApplyWrite(r) ==
    /\ at[r] = "approving"
    /\ \/ item[r] \in tmp /\ Goes(r, "building")
       \/ Goes(r, "cleaning")
    /\ UNCHANGED <<pc, option, cursor, verdicts, item, store>>

\* dbt run alone decides; dbt test is not run.
ApplyRun(r) ==
    /\ at[r] = "building"
    /\ \/ /\ Goes(r, "removing")
          /\ repaired' = repaired \cup {item[r]}
          /\ due' = due \ {item[r]}
       \/ /\ Goes(r, "cleaning")
          /\ UNCHANGED <<repaired, due>>
    /\ UNCHANGED <<pc, option, cursor, verdicts, item, art, tmp, dlq>>

\* The artifact is removed; an OSError is ignored.
ApplyUnlink(r) ==
    /\ at[r] = "removing"
    /\ art' \in {art, art \ {item[r]}}
    /\ Goes(r, "cleaning")
    /\ UNCHANGED <<pc, option, cursor, verdicts, item, tmp, dlq, repaired, due>>

ApplyClean(r) ==
    /\ at[r] = "cleaning"
    /\ tmp' \in {tmp, tmp \ {item[r]}}
    /\ Goes(r, "idle")
    /\ item' = [item EXCEPT ![r] = NoModel]
    /\ UNCHANGED <<pc, option, cursor, verdicts, art, dlq, repaired, due>>

\* Mutant: the artifact is taken out before the record is written.
RejectTake(r, m) ==
    /\ at[r] = "idle"
    /\ m \in art
    /\ Goes(r, "recording")
    /\ item' = [item EXCEPT ![r] = m]
    /\ art' = art \ {m}
    /\ UNCHANGED <<pc, option, cursor, verdicts, tmp, dlq, repaired, due>>

\* The artifact is loaded.
RejectStart(r, m) ==
    /\ at[r] = "idle"
    /\ m \in art
    /\ Goes(r, "recording")
    /\ item' = [item EXCEPT ![r] = m]
    /\ UNCHANGED <<pc, option, cursor, verdicts, store>>

RejectRecord(r) ==
    /\ at[r] = "recording"
    /\ dlq' = dlq \cup {item[r]}
    /\ due' = due \ {item[r]}
    /\ Goes(r, "discarding")
    /\ UNCHANGED <<pc, option, cursor, verdicts, item, art, tmp, repaired>>

\* The record cannot be appended: the exception leaves the artifact in place.
RejectRaise(r) ==
    /\ at[r] = "recording"
    /\ Goes(r, "idle")
    /\ item' = [item EXCEPT ![r] = NoModel]
    /\ UNCHANGED <<pc, option, cursor, verdicts, store>>

RejectUnlink(r) ==
    /\ at[r] = "discarding"
    /\ art' \in {art, art \ {item[r]}}
    /\ Goes(r, "idle")
    /\ item' = [item EXCEPT ![r] = NoModel]
    /\ UNCHANGED <<pc, option, cursor, verdicts, tmp, dlq, repaired, due>>

\* The server stops: threads and requests are gone, files stay.
Restart ==
    /\ pc' = [e \in Execs |-> IF pc[e] \in {"idle", "ended"} THEN pc[e] ELSE "lost"]
    /\ at' = [r \in Reviewers |-> "idle"]
    /\ item' = [r \in Reviewers |-> NoModel]
    /\ UNCHANGED <<option, cursor, verdicts, store>>

-----------------------------------------------------------------------------
(* Specification *)

Init ==
    /\ pc = [e \in Execs |-> "idle"]
    /\ plan \in [Execs -> Plans]
    /\ bypass \in [Execs -> Bypasses]
    /\ stop \in [Execs -> BOOLEAN]
    /\ wave = [e \in Execs |-> 1]
    /\ next = [e \in Execs |-> 1]
    /\ attempt = [e \in Execs |-> 0]
    /\ state = [e \in Execs |-> [m \in Models |-> "none"]]
    /\ gates = [e \in Execs |-> <<>>]
    /\ result = [e \in Execs |-> "none"]
    /\ tested = [e \in Execs |-> {}]
    /\ at = [r \in Reviewers |-> "idle"]
    /\ item = [r \in Reviewers |-> NoModel]
    /\ art = {}
    /\ tmp = {}
    /\ dlq = {}
    /\ repaired = {}
    /\ due = {}

Execution(e) ==
    \/ Bootstrap(e)
    \/ DbtRun(e)
    \/ DbtTest(e)
    \/ DbtTestFails(e)
    \/ Fix(e)
    \/ Exhaust(e)
    \/ Abort(e)
    \/ Gate(e)

Decision(r) ==
    \/ \E m \in Models : ApplyStart(r, m) \/ RejectStart(r, m)
    \/ ApplyWrite(r)
    \/ ApplyRun(r)
    \/ ApplyUnlink(r)
    \/ ApplyClean(r)
    \/ RejectRecord(r)
    \/ RejectRaise(r)
    \/ RejectUnlink(r)

Next ==
    \/ \E e \in Execs : Launch(e)
    \/ \E e \in Execs : Execution(e)
    \/ \E r \in Reviewers : Decision(r)
    \/ Restart

\* The thread of an execution is scheduled; dbt and the fix agent return.
Fairness == \A e \in Execs : WF_vars(Execution(e))

SafeSpec == Init /\ [][Next]_vars
Spec == SafeSpec /\ Fairness

-----------------------------------------------------------------------------
(* Properties *)

\* The variables keep their types; an attempt is never beyond the last one.
WaveTypeOK ==
    /\ pc \in [Execs -> {"idle", "model", "run", "test", "fix", "exhausted",
                          "ended", "lost"}]
    /\ plan \in [Execs -> Plans]
    /\ bypass \in [Execs -> Bypasses]
    /\ stop \in [Execs -> BOOLEAN]
    /\ wave \in [Execs -> Nat \ {0}]
    /\ next \in [Execs -> Nat \ {0}]
    /\ attempt \in [Execs -> 0..MaxAttempts]
    /\ state \in [Execs -> [Models -> {"none", "SUCCESS", "HITL_REQUIRED"}]]
    /\ gates \in [Execs -> Seq({"READY", "REVIEW_REQUIRED"})]
    /\ result \in [Execs -> {"none", "SUCCESS", "PARTIAL", "HITL_REQUIRED", "FAILED"}]
    /\ tested \in [Execs -> SUBSET Models]
    /\ at \in [Reviewers -> {"idle", "approving", "building", "removing", "cleaning",
                             "recording", "discarding"}]
    /\ item \in [Reviewers -> Models \cup {NoModel}]
    /\ art \subseteq Models /\ tmp \subseteq Models /\ dlq \subseteq Models
    /\ repaired \subseteq Models /\ due \subseteq Models

\* When a wave has begun, this execution has seen every model of every earlier wave
\* pass dbt run and dbt test, unless the gate of that very wave was bypassed; no
\* model of a later wave was touched; and no wave is reported READY otherwise.
WaveBarrier ==
    \A e \in Execs :
        /\ \A w \in 1..(wave[e] - 1) : w = bypass[e] \/ PlannedIn(e, w) \subseteq tested[e]
        /\ \A m \in Models : state[e][m] # "none" =>
                \E w \in 1..wave[e] : m \in PlannedIn(e, w)
        /\ \A w \in 1..Len(gates[e]) :
                gates[e][w] = "READY" => PlannedIn(e, w) \subseteq tested[e]

\* An execution is a SUCCESS only if every planned model passed, PARTIAL only if what
\* failed is in the bypassed wave and the rest passed, and it asks for review only if
\* a model of the wave it stopped in does.
HonestOutcome ==
    \A e \in Execs :
        /\ result[e] = "SUCCESS" =>
              \A w \in 1..Len(plan[e]) : PlannedIn(e, w) \subseteq tested[e]
        /\ result[e] = "PARTIAL" =>
              \A w \in 1..Len(plan[e]), m \in Models :
                  m \in PlannedIn(e, w) /\ m \notin tested[e] => w = bypass[e]
        /\ result[e] = "HITL_REQUIRED" =>
              \E m \in PlannedIn(e, wave[e]) : state[e][m] = "HITL_REQUIRED"

\* A model that waits for review has its artifact, until a fix of it was built or it
\* went to the DLQ: through restarts, failed appends and failed unlinks.
ReviewNotLost ==
    \A e \in Execs, m \in Models :
        state[e][m] = "HITL_REQUIRED" => m \in art \cup dlq \cup repaired

\* An execution that was launched ends, or is lost in a restart.
ExecutionsEnd ==
    \A e \in Execs : pc[e] # "idle" ~> pc[e] \in {"ended", "lost"}

\* MIGRATION.md: "AMA writes a review artifact and pauses the model in HITL_REQUIRED";
\* an exhausted model on which nobody has decided since has its artifact.
ReviewsKept == due \subseteq art

=============================================================================
