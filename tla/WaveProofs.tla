----------------------------- MODULE WaveProofs -----------------------------
(***************************************************************************)
(* Proofs about WaveRun, for any plans, options, executions and reviewers: *)
(* types, the barrier between waves, the honesty of the reported outcome   *)
(* and that no model that waits for review is lost.                        *)
(*                                                                         *)
(* The invariant WaveInv says, of each execution, where its cursor may be, *)
(* that what the cursor has passed has a verdict, and that a SUCCESS was   *)
(* seen; of each reviewer, that what he is about to unlink is recorded.    *)
(***************************************************************************)
EXTENDS WaveRun, TLAPS

\* The cursor points into the plan, and to a model while one is being run.
CursorInv(e) ==
    /\ wave[e] <= Len(plan[e])
    /\ next[e] <= Len(Wave(e)) + 1
    /\ pc[e] \in {"run", "test", "fix", "exhausted"} => InWave(e)
    /\ pc[e] = "fix" => attempt[e] < MaxAttempts

\* Everything before the cursor has a verdict, and nothing after its wave.
VerdictInv(e) ==
    /\ \A i \in 1..(next[e] - 1) : state[e][Wave(e)[i]] # "none"
    /\ \A w \in 1..(wave[e] - 1), m \in Models :
          m \in PlannedIn(e, w) => state[e][m] # "none"
    /\ \A m \in Models : state[e][m] = "SUCCESS" => m \in tested[e]
    /\ \A m \in Models : state[e][m] # "none" =>
          \E w \in 1..wave[e] : m \in PlannedIn(e, w)

\* The gates that were passed and what was reported about them.
GateInv(e) ==
    /\ \A w \in 1..(wave[e] - 1) : w = bypass[e] \/ PlannedIn(e, w) \subseteq tested[e]
    /\ \A w \in 1..Len(gates[e]) :
          gates[e][w] = "READY" => PlannedIn(e, w) \subseteq tested[e]
    /\ pc[e] \notin {"ended", "lost"} => Len(gates[e]) = wave[e] - 1
    /\ result[e] # "none" => pc[e] = "ended"

OutcomeInv(e) ==
    /\ result[e] = "SUCCESS" =>
          \A w \in 1..Len(plan[e]) : PlannedIn(e, w) \subseteq tested[e]
    /\ result[e] = "PARTIAL" =>
          \A w \in 1..Len(plan[e]), m \in Models :
              m \in PlannedIn(e, w) /\ m \notin tested[e] => w = bypass[e]
    /\ result[e] = "HITL_REQUIRED" =>
          \E m \in PlannedIn(e, wave[e]) : state[e][m] = "HITL_REQUIRED"

ExecInv(e) == CursorInv(e) /\ VerdictInv(e) /\ GateInv(e) /\ OutcomeInv(e)

ReviewInv ==
    /\ \A r \in Reviewers :
          /\ at[r] # "idle" => item[r] \in Models
          /\ at[r] = "discarding" => item[r] \in dlq
          /\ at[r] = "removing" => item[r] \in repaired
    /\ ReviewNotLost

WaveInv == WaveTypeOK /\ (\A e \in Execs : ExecInv(e)) /\ ReviewInv

USE DEF option, cursor, verdicts, review, store, To, Goes

-----------------------------------------------------------------------------
(* Facts about the cursor *)

\* The waves of a plan are sequences of models.
LEMMA WaveIsSeq ==
    ASSUME WaveTypeOK, NEW e \in Execs, NEW w \in 1..Len(plan[e])
    PROVE  /\ plan[e] \in Seq(Seq(Models))
           /\ plan[e][w] \in Seq(Models)
           /\ PlannedIn(e, w) = {plan[e][w][i] : i \in 1..Len(plan[e][w])}
           /\ PlannedIn(e, w) \subseteq Models
<1>1. plan[e] \in Seq(Seq(Models))
  BY WaveAssumption DEF WaveTypeOK
<1>2. plan[e][w] \in Seq(Models)
  BY <1>1
<1>3. PlannedIn(e, w) = {plan[e][w][i] : i \in 1..Len(plan[e][w])}
  BY <1>2 DEF PlannedIn, ToSet
<1> QED
  BY <1>1, <1>2, <1>3

\* While a model is being run the cursor points to it.
LEMMA ModelInWave ==
    ASSUME WaveTypeOK, NEW e \in Execs, CursorInv(e), InWave(e)
    PROVE  /\ Model(e) \in Models
           /\ Model(e) \in PlannedIn(e, wave[e])
           /\ next[e] \in 1..Len(Wave(e))
<1>1. wave[e] \in 1..Len(plan[e])
  <2>1. plan[e] \in Seq(Seq(Models)) /\ wave[e] \in Nat \ {0}
    BY WaveAssumption DEF WaveTypeOK
  <2> QED
    BY <2>1 DEF CursorInv
<1>2. Wave(e) \in Seq(Models) /\ next[e] \in Nat \ {0}
  BY <1>1, WaveIsSeq DEF Wave, WaveTypeOK
<1>3. next[e] \in 1..Len(Wave(e))
  BY <1>2 DEF InWave
<1> QED
  BY <1>1, <1>2, <1>3, WaveIsSeq DEF Model, Wave

-----------------------------------------------------------------------------
(* Types *)

LEMMA AppendGate ==
    ASSUME WaveTypeOK, NEW e \in Execs, NEW x \in {"READY", "REVIEW_REQUIRED"}
    PROVE  /\ Append(gates[e], x) \in Seq({"READY", "REVIEW_REQUIRED"})
           /\ Len(Append(gates[e], x)) = Len(gates[e]) + 1
           /\ \A i \in 1..Len(gates[e]) : Append(gates[e], x)[i] = gates[e][i]
           /\ Append(gates[e], x)[Len(gates[e]) + 1] = x
  BY DEF WaveTypeOK

\* Where an execution may be, and what it may report.
Positions == {"idle", "model", "run", "test", "fix", "exhausted", "ended", "lost"}
Results == {"none", "SUCCESS", "PARTIAL", "HITL_REQUIRED", "FAILED"}

LEMMA Ends ==
    ASSUME pc \in [Execs -> Positions], result \in [Execs -> Results],
           NEW e \in Execs, NEW st, NEW b, End(e, st, b)
    PROVE  pc' \in [Execs -> Positions] /\ result' \in [Execs -> Results]
<1>1. Outcome(st, b) \in Results
  BY DEF Outcome, Results
<1> QED
  BY <1>1 DEF End, Positions

LEMMA TypesHold ==
    ASSUME WaveInv, [Next]_vars
    PROVE  WaveTypeOK'
<1> USE DEF WaveTypeOK
<1>1. ASSUME NEW e \in Execs, Launch(e) PROVE WaveTypeOK'
  BY <1>1 DEF WaveInv, Launch
<1>2. ASSUME NEW e \in Execs, Execution(e) PROVE WaveTypeOK'
  <2>1. CASE Bootstrap(e)
    BY <2>1, WaveAssumption DEF WaveInv, Bootstrap
  <2>2. CASE DbtRun(e) \/ DbtTestFails(e)
    BY <2>2 DEF WaveInv, DbtRun, DbtTestFails, Failing
  <2>3. CASE DbtTest(e)
    <3>1. Model(e) \in Models
      BY <2>3, ModelInWave DEF WaveInv, ExecInv, CursorInv, DbtTest
    <3> QED
      BY <2>3, <3>1 DEF WaveInv, DbtTest
  <2>4. CASE Fix(e)
    BY <2>4, WaveAssumption DEF WaveInv, Fix, ExecInv, CursorInv
  <2>5. CASE Exhaust(e)
    <3> HIDE DEF WaveTypeOK
    <3>1. Model(e) \in Models
      BY <2>5, ModelInWave DEF WaveInv, ExecInv, CursorInv, Exhaust
    <3>2. gates' \in [Execs -> Seq({"READY", "REVIEW_REQUIRED"})]
      <4>1. gates' = gates \/ gates' = [gates EXCEPT ![e] = Append(gates[e], "REVIEW_REQUIRED")]
        BY <2>5 DEF Exhaust
      <4>2. Append(gates[e], "REVIEW_REQUIRED") \in Seq({"READY", "REVIEW_REQUIRED"})
        BY AppendGate DEF WaveInv
      <4>3. gates \in [Execs -> Seq({"READY", "REVIEW_REQUIRED"})]
        BY DEF WaveInv, WaveTypeOK
      <4> QED
        BY <4>1, <4>2, <4>3
    <3>3. pc' \in [Execs -> Positions] /\ result' \in [Execs -> Results]
      <4> DEFINE st == [state[e] EXCEPT ![Model(e)] = "HITL_REQUIRED"]
      <4>1. End(e, st, TRUE) \/ (To(e, "model") /\ UNCHANGED result)
        BY <2>5 DEF Exhaust
      <4>2. pc \in [Execs -> Positions] /\ result \in [Execs -> Results]
        BY DEF WaveInv, WaveTypeOK, Positions, Results
      <4> HIDE DEF st
      <4> QED
        BY <4>1, <4>2, Ends DEF Positions
    <3>4. next' \in [Execs -> Nat \ {0}]
      <4>1. UNCHANGED next \/ next' = [next EXCEPT ![e] = @ + 1]
        BY <2>5 DEF Exhaust
      <4>2. next \in [Execs -> Nat \ {0}]
        BY DEF WaveInv, WaveTypeOK
      <4> QED
        BY <4>1, <4>2
    <3>5. state' \in [Execs -> [Models -> {"none", "SUCCESS", "HITL_REQUIRED"}]]
      BY <2>5, <3>1 DEF WaveInv, WaveTypeOK, Exhaust
    <3>6. art' \subseteq Models /\ due' \subseteq Models
      BY <2>5, <3>1 DEF WaveInv, WaveTypeOK, Exhaust
    <3>7. UNCHANGED <<option, wave, attempt, tested, review, tmp, dlq, repaired>>
      BY <2>5 DEF Exhaust
    <3> QED
      BY <3>2, <3>3, <3>4, <3>5, <3>6, <3>7 DEF WaveInv, WaveTypeOK, Positions, Results
  <2>6. CASE Abort(e)
    BY <2>6 DEF WaveInv, Abort
  <2>7. CASE Gate(e)
    <3> HIDE DEF WaveTypeOK
    <3>1. gates' \in [Execs -> Seq({"READY", "REVIEW_REQUIRED"})]
      <4>1. PICK x \in {"READY", "REVIEW_REQUIRED"} :
               gates' = [gates EXCEPT ![e] = Append(gates[e], x)]
        BY <2>7 DEF Gate
      <4>2. Append(gates[e], x) \in Seq({"READY", "REVIEW_REQUIRED"})
        BY AppendGate DEF WaveInv
      <4>3. gates \in [Execs -> Seq({"READY", "REVIEW_REQUIRED"})]
        BY DEF WaveInv, WaveTypeOK
      <4> QED
        BY <4>1, <4>2, <4>3
    <3>2. pc' \in [Execs -> Positions] /\ result' \in [Execs -> Results]
      <4>1. PICK b \in BOOLEAN : End(e, state[e], b) \/ UNCHANGED <<pc, result>>
        BY <2>7 DEF Gate
      <4>2. pc \in [Execs -> Positions] /\ result \in [Execs -> Results]
        BY DEF WaveInv, WaveTypeOK, Positions, Results
      <4> QED
        BY <4>1, <4>2, Ends
    <3>3. wave' \in [Execs -> Nat \ {0}] /\ next' \in [Execs -> Nat \ {0}]
      <4>1. \/ UNCHANGED <<wave, next>>
            \/ wave' = [wave EXCEPT ![e] = @ + 1] /\ next' = [next EXCEPT ![e] = 1]
        BY <2>7 DEF Gate
      <4>2. wave \in [Execs -> Nat \ {0}] /\ next \in [Execs -> Nat \ {0}]
        BY DEF WaveInv, WaveTypeOK
      <4> QED
        BY <4>1, <4>2
    <3>4. UNCHANGED <<option, attempt, state, tested, review, store>>
      BY <2>7 DEF Gate
    <3> QED
      BY <3>1, <3>2, <3>3, <3>4 DEF WaveInv, WaveTypeOK, Positions, Results
  <2> QED
    BY <1>2, <2>1, <2>2, <2>3, <2>4, <2>5, <2>6, <2>7 DEF Execution
<1>3. ASSUME NEW r \in Reviewers, Decision(r) PROVE WaveTypeOK'
  <2>1. ASSUME NEW m \in Models, ApplyStart(r, m) \/ RejectStart(r, m) PROVE WaveTypeOK'
    BY <2>1 DEF WaveInv, ApplyStart, RejectStart
  <2>2. CASE ApplyWrite(r) \/ ApplyUnlink(r) \/ ApplyClean(r)
    BY <2>2 DEF WaveInv, ApplyWrite, ApplyUnlink, ApplyClean
  <2>3. CASE ApplyRun(r) \/ RejectRecord(r)
    BY <2>3 DEF WaveInv, ReviewInv, ApplyRun, RejectRecord
  <2>4. CASE RejectRaise(r) \/ RejectUnlink(r)
    BY <2>4 DEF WaveInv, RejectRaise, RejectUnlink
  <2> QED
    BY <1>3, <2>1, <2>2, <2>3, <2>4 DEF Decision
<1>4. CASE Restart
  BY <1>4 DEF WaveInv, Restart
<1>5. CASE UNCHANGED vars
  BY <1>5 DEF WaveInv, vars
<1> QED
  BY <1>1, <1>2, <1>3, <1>4, <1>5 DEF Next

-----------------------------------------------------------------------------
(* Executions *)

\* What an execution keeps when another one, or nobody, takes a step.
SameExec(i) ==
    /\ UNCHANGED option
    /\ pc'[i] = pc[i] /\ wave'[i] = wave[i] /\ next'[i] = next[i]
    /\ attempt'[i] = attempt[i] /\ state'[i] = state[i] /\ gates'[i] = gates[i]
    /\ result'[i] = result[i] /\ tested'[i] = tested[i]

LEMMA Frame ==
    ASSUME NEW i \in Execs, ExecInv(i), SameExec(i)
    PROVE  ExecInv(i)'
<1>1. CursorInv(i)'
  BY DEF ExecInv, SameExec, CursorInv, Wave, InWave
<1>2. VerdictInv(i)'
  BY DEF ExecInv, SameExec, VerdictInv, Wave, PlannedIn
<1>3. GateInv(i)'
  BY DEF ExecInv, SameExec, GateInv, PlannedIn
<1>4. OutcomeInv(i)'
  BY DEF ExecInv, SameExec, OutcomeInv, PlannedIn
<1> QED
  BY <1>1, <1>2, <1>3, <1>4 DEF ExecInv

\* A step of an execution is a step of no other.
LEMMA OthersKeep ==
    ASSUME WaveTypeOK, NEW e \in Execs, Launch(e) \/ Execution(e), NEW i \in Execs, i # e
    PROVE  SameExec(i)
<1> USE DEF WaveTypeOK, SameExec
<1>1. CASE Launch(e)
  BY <1>1 DEF Launch
<1>2. CASE Bootstrap(e) \/ Fix(e)
  BY <1>2 DEF Bootstrap, Fix
<1>3. CASE DbtRun(e) \/ DbtTestFails(e)
  BY <1>3 DEF DbtRun, DbtTestFails, Failing
<1>4. CASE DbtTest(e)
  BY <1>4 DEF DbtTest
<1>5. CASE Exhaust(e)
  BY <1>5 DEF Exhaust, End
<1>6. CASE Abort(e)
  BY <1>6 DEF Abort
<1>7. CASE Gate(e)
  BY <1>7 DEF Gate, End
<1> QED
  BY <1>1, <1>2, <1>3, <1>4, <1>5, <1>6, <1>7 DEF Execution

\* Steps that leave the cursor and the verdicts alone.
LEMMA QuietSteps ==
    ASSUME WaveTypeOK, NEW e \in Execs, ExecInv(e),
           \/ Launch(e) \/ Bootstrap(e) \/ DbtRun(e) \/ DbtTestFails(e)
           \/ Fix(e) \/ Abort(e)
    PROVE  ExecInv(e)'
<1> DEFINE Keeps == /\ UNCHANGED <<option, state, gates, tested>>
                    /\ UNCHANGED <<wave, next>>
<1>1. Keeps
  BY DEF Launch, Bootstrap, DbtRun, DbtTestFails, Fix, Abort
<1>2. CursorInv(e)'
  <2>1. CASE Launch(e) \/ Bootstrap(e)
    BY <1>1, <2>1 DEF Launch, Bootstrap, ExecInv, CursorInv, Wave, InWave, WaveTypeOK
  <2>2. CASE DbtRun(e) \/ DbtTestFails(e)
    BY <1>1, <2>2 DEF DbtRun, DbtTestFails, Failing, ExecInv, CursorInv, Wave, InWave, WaveTypeOK
  <2>3. CASE Fix(e) \/ Abort(e)
    BY <1>1, <2>3 DEF Fix, Abort, ExecInv, CursorInv, Wave, InWave, WaveTypeOK
  <2> QED
    BY <2>1, <2>2, <2>3
<1>3. VerdictInv(e)'
  BY <1>1 DEF ExecInv, VerdictInv, Wave, PlannedIn
<1>4. pc[e] \notin {"ended", "lost"} /\ result[e] = "none"
  BY DEF Launch, Bootstrap, DbtRun, DbtTestFails, Fix, Abort, ExecInv, GateInv
<1>5. \/ UNCHANGED result /\ pc'[e] \notin {"ended", "lost"}
      \/ result'[e] = "FAILED" /\ pc'[e] = "ended"
  BY DEF Launch, Bootstrap, DbtRun, DbtTestFails, Failing, Fix, Abort, WaveTypeOK
<1>6. GateInv(e)'
  BY <1>1, <1>4, <1>5 DEF ExecInv, GateInv, PlannedIn
<1>7. OutcomeInv(e)'
  BY <1>1, <1>4, <1>5 DEF ExecInv, OutcomeInv, PlannedIn
<1> QED
  BY <1>2, <1>3, <1>6, <1>7 DEF ExecInv

\* The types the next lemmas need.
ExecType(e) ==
    /\ plan[e] \in Seq(Seq(Models)) /\ wave[e] \in Nat \ {0} /\ next[e] \in Nat \ {0}
    /\ wave[e] \in 1..Len(plan[e]) /\ Wave(e) \in Seq(Models)
    /\ state[e] \in [Models -> {"none", "SUCCESS", "HITL_REQUIRED"}]
    /\ gates[e] \in Seq({"READY", "REVIEW_REQUIRED"})
    /\ \A w \in 1..Len(plan[e]) : PlannedIn(e, w) \subseteq Models
    /\ PlannedIn(e, wave[e]) = {Wave(e)[i] : i \in 1..Len(Wave(e))}

LEMMA ExecTyped ==
    ASSUME WaveTypeOK, NEW e \in Execs, ExecInv(e)
    PROVE  ExecType(e)
<1>1. plan[e] \in Seq(Seq(Models)) /\ wave[e] \in Nat \ {0} /\ next[e] \in Nat \ {0}
  BY WaveAssumption DEF WaveTypeOK
<1>2. wave[e] \in 1..Len(plan[e])
  BY <1>1 DEF ExecInv, CursorInv
<1>3. \A w \in 1..Len(plan[e]) :
         /\ plan[e][w] \in Seq(Models)
         /\ PlannedIn(e, w) \subseteq Models
         /\ PlannedIn(e, w) = {plan[e][w][i] : i \in 1..Len(plan[e][w])}
  BY WaveIsSeq
<1>4. /\ state[e] \in [Models -> {"none", "SUCCESS", "HITL_REQUIRED"}]
      /\ gates[e] \in Seq({"READY", "REVIEW_REQUIRED"})
  BY DEF WaveTypeOK
<1> QED
  BY <1>1, <1>2, <1>3, <1>4 DEF ExecType, Wave

\* When the wave is over, everything in it has a verdict.
LEMMA WaveJudged ==
    ASSUME NEW e \in Execs, ExecType(e), ExecInv(e), ~InWave(e)
    PROVE  \A m \in PlannedIn(e, wave[e]) : state[e][m] # "none"
<1>1. next[e] = Len(Wave(e)) + 1
  BY DEF ExecType, ExecInv, CursorInv, InWave
<1> QED
  BY <1>1 DEF ExecType, ExecInv, VerdictInv

\* A model that has a verdict of this execution moves the cursor on.
LEMMA PassStep ==
    ASSUME WaveTypeOK, NEW e \in Execs, ExecInv(e), DbtTest(e)
    PROVE  ExecInv(e)'
<1> DEFINE m == Model(e)
<1>1. ExecType(e) /\ InWave(e)
  BY ExecTyped DEF ExecInv, CursorInv, DbtTest
<1>2. m \in Models /\ m \in PlannedIn(e, wave[e]) /\ m = Wave(e)[next[e]]
  BY <1>1, ModelInWave DEF ExecInv, Model
<1>3. /\ state'[e] = [state[e] EXCEPT ![m] = "SUCCESS"]
      /\ tested'[e] = tested[e] \cup {m}
      /\ pc'[e] = "model" /\ pc[e] = "test"
      /\ next'[e] = next[e] + 1
      /\ UNCHANGED <<option, wave, gates, result>>
  BY DEF DbtTest, WaveTypeOK
<1> HIDE DEF m
<1>4. CursorInv(e)'
  BY <1>1, <1>3 DEF ExecInv, ExecType, CursorInv, Wave, InWave
<1>5. \A x \in Models : state'[e][x] = IF x = m THEN "SUCCESS" ELSE state[e][x]
  BY <1>1, <1>3 DEF ExecType
<1>6. Wave(e)' = Wave(e)
  BY <1>3 DEF Wave
<1>7. VerdictInv(e)'
  <2>1. \A i \in 1..(next[e]' - 1) : state'[e][Wave(e)[i]] # "none"
    <3>1. \A i \in 1..next[e] : Wave(e)[i] \in Models
      BY <1>1 DEF ExecType, InWave
    <3> QED
      BY <1>1, <1>2, <1>3, <1>5, <3>1 DEF ExecInv, VerdictInv, ExecType
  <2>2. ASSUME NEW x \in Models, state'[e][x] # "none"
        PROVE  \E w \in 1..wave[e] : x \in PlannedIn(e, w)
    <3>1. wave[e] \in 1..wave[e]
      BY <1>1 DEF ExecType
    <3>2. CASE x = m
      BY <1>2, <3>1, <3>2
    <3>3. CASE x # m
      BY <1>5, <2>2, <3>3 DEF ExecInv, VerdictInv
    <3> QED
      BY <3>2, <3>3
  <2>3. \A w \in 1..(wave[e] - 1), x \in Models :
           x \in PlannedIn(e, w) => state'[e][x] # "none"
    BY <1>5 DEF ExecInv, VerdictInv
  <2>4. \A x \in Models : state'[e][x] = "SUCCESS" => x \in tested'[e]
    BY <1>3, <1>5 DEF ExecInv, VerdictInv
  <2>5. \A w : PlannedIn(e, w)' = PlannedIn(e, w)
    BY <1>3 DEF PlannedIn
  <2> QED
    BY <1>3, <1>6, <2>1, <2>2, <2>3, <2>4, <2>5 DEF VerdictInv
<1>8. GateInv(e)'
  BY <1>3 DEF ExecInv, GateInv, PlannedIn
<1>9. OutcomeInv(e)'
  BY <1>3 DEF ExecInv, GateInv, OutcomeInv
<1> QED
  BY <1>4, <1>7, <1>8, <1>9 DEF ExecInv

\* A model whose attempts are exhausted moves the cursor on, or ends the execution.
LEMMA ExhaustStep ==
    ASSUME WaveTypeOK, NEW e \in Execs, ExecInv(e), Exhaust(e)
    PROVE  ExecInv(e)'
<1> DEFINE m == Model(e)
<1>1. ExecType(e) /\ InWave(e)
  BY ExecTyped DEF ExecInv, CursorInv, Exhaust
<1>2. m \in Models /\ m \in PlannedIn(e, wave[e]) /\ m = Wave(e)[next[e]]
  BY <1>1, ModelInWave DEF ExecInv, Model
<1>3. /\ state'[e] = [state[e] EXCEPT ![m] = "HITL_REQUIRED"]
      /\ pc[e] = "exhausted"
      /\ UNCHANGED <<option, wave, tested>>
  BY DEF Exhaust, WaveTypeOK
<1>4. \/ /\ pc'[e] = "model" /\ next'[e] = next[e] + 1
         /\ UNCHANGED <<gates, result>>
      \/ /\ pc'[e] = "ended" /\ UNCHANGED next
         /\ gates'[e] = Append(gates[e], "REVIEW_REQUIRED")
         /\ result'[e] = Outcome(state'[e], TRUE)
  BY <1>3 DEF Exhaust, End, WaveTypeOK
<1> HIDE DEF m
<1>5. \A x \in Models : state'[e][x] = IF x = m THEN "HITL_REQUIRED" ELSE state[e][x]
  BY <1>1, <1>3 DEF ExecType
<1>6. Wave(e)' = Wave(e) /\ \A w : PlannedIn(e, w)' = PlannedIn(e, w)
  BY <1>3 DEF Wave, PlannedIn
<1>7. CursorInv(e)'
  <2>1. next[e] \in Nat /\ Len(Wave(e)) \in Nat /\ next[e] <= Len(Wave(e))
    BY <1>1 DEF ExecType, InWave
  <2>2. next'[e] <= Len(Wave(e)) + 1 /\ pc'[e] \in {"model", "ended"}
    <3>1. next'[e] \in {next[e], next[e] + 1} /\ pc'[e] \in {"model", "ended"}
      BY <1>4
    <3> QED
      BY <2>1, <3>1
  <2>3. wave'[e] <= Len(plan'[e])
    BY <1>3 DEF ExecInv, CursorInv
  <2>4. Wave(e)' = Wave(e)
    BY <1>6
  <2> QED
    BY <2>2, <2>3, <2>4 DEF CursorInv
<1>8. VerdictInv(e)'
  <2>1. \A i \in 1..(next[e]' - 1) : state'[e][Wave(e)[i]] # "none"
    <3>1. \A i \in 1..next[e] : Wave(e)[i] \in Models
      BY <1>1 DEF ExecType, InWave
    <3>2. \A i \in 1..next[e] : state'[e][Wave(e)[i]] # "none"
      <4>1. \A i \in 1..next[e] : i \in 1..(next[e] - 1) \/ i = next[e]
        BY <1>1 DEF ExecType
      <4> QED
        BY <1>2, <1>5, <3>1, <4>1 DEF ExecInv, VerdictInv
    <3>3. next'[e] \in {next[e], next[e] + 1} /\ next[e] \in Nat \ {0}
      BY <1>1, <1>4 DEF ExecType
    <3> QED
      BY <3>2, <3>3
  <2>2. ASSUME NEW x \in Models, state'[e][x] # "none"
        PROVE  \E w \in 1..wave[e] : x \in PlannedIn(e, w)
    <3>1. wave[e] \in 1..wave[e]
      BY <1>1 DEF ExecType
    <3>2. CASE x = m
      BY <1>2, <3>1, <3>2
    <3>3. CASE x # m
      BY <1>5, <2>2, <3>3 DEF ExecInv, VerdictInv
    <3> QED
      BY <3>2, <3>3
  <2>3. \A w \in 1..(wave[e] - 1), x \in Models :
           x \in PlannedIn(e, w) => state'[e][x] # "none"
    BY <1>5 DEF ExecInv, VerdictInv
  <2>4. \A x \in Models : state'[e][x] = "SUCCESS" => x \in tested'[e]
    BY <1>3, <1>5 DEF ExecInv, VerdictInv
  <2> QED
    BY <1>3, <1>6, <2>1, <2>2, <2>3, <2>4 DEF VerdictInv
<1>9. GateInv(e)'
  <2>1. CASE UNCHANGED <<gates, result>>
    BY <1>3, <1>4, <1>6, <2>1 DEF ExecInv, GateInv
  <2>2. CASE pc'[e] = "ended" /\ gates'[e] = Append(gates[e], "REVIEW_REQUIRED")
    <3>1. /\ gates'[e] \in Seq({"READY", "REVIEW_REQUIRED"})
          /\ Len(gates'[e]) = Len(gates[e]) + 1 /\ Len(gates[e]) \in Nat
          /\ \A i \in 1..Len(gates[e]) : gates'[e][i] = gates[e][i]
          /\ gates'[e][Len(gates[e]) + 1] = "REVIEW_REQUIRED"
      BY <1>1, <2>2 DEF ExecType
    <3>2. \A w \in 1..Len(gates'[e]) :
             gates'[e][w] = "READY" => PlannedIn(e, w) \subseteq tested[e]
      <4>1. \A w \in 1..Len(gates'[e]) : w \in 1..Len(gates[e]) \/ w = Len(gates[e]) + 1
        BY <3>1
      <4> QED
        BY <3>1, <4>1 DEF ExecInv, GateInv
    <3> QED
      BY <1>3, <1>6, <2>2, <3>2 DEF ExecInv, GateInv
  <2> QED
    BY <1>4, <2>1, <2>2
<1>10. OutcomeInv(e)'
  <2>1. result[e] = "none"
    BY <1>3 DEF ExecInv, GateInv
  <2>2. result'[e] \in {"none", "HITL_REQUIRED"}
    BY <1>2, <1>4, <1>5, <2>1 DEF Outcome
  <2>3. \E x \in PlannedIn(e, wave[e]) : state'[e][x] = "HITL_REQUIRED"
    BY <1>2, <1>5
  <2> QED
    BY <1>3, <1>6, <2>2, <2>3 DEF OutcomeInv
<1> QED
  BY <1>7, <1>8, <1>9, <1>10 DEF ExecInv

\* The end of a wave: the next one, or the end of the execution.
LEMMA GateStep ==
    ASSUME WaveTypeOK, NEW e \in Execs, ExecInv(e), Gate(e)
    PROVE  ExecInv(e)'
<1> DEFINE W == wave[e]
           status == IF Ready(e) THEN "READY" ELSE "REVIEW_REQUIRED"
           passes == Ready(e) \/ bypass[e] = W
<1>1. ExecType(e) /\ ~InWave(e) /\ pc[e] = "model"
  BY ExecTyped DEF Gate
<1>2. /\ gates'[e] = Append(gates[e], status)
      /\ UNCHANGED <<option, attempt, state, tested>>
  BY DEF Gate, WaveTypeOK
<1>3. \/ /\ passes /\ W < Len(plan[e])
         /\ wave'[e] = W + 1 /\ next'[e] = 1
         /\ UNCHANGED <<pc, result>>
      \/ /\ ~(passes /\ W < Len(plan[e]))
         /\ pc'[e] = "ended" /\ result'[e] = Outcome(state[e], ~passes)
         /\ UNCHANGED <<wave, next>>
  BY DEF Gate, End, WaveTypeOK
<1>4. Ready(e) => PlannedIn(e, W) \subseteq tested[e]
  BY <1>1 DEF Ready, ExecInv, VerdictInv, ExecType
<1>5. \A m \in PlannedIn(e, W) : m \in Models /\ state[e][m] \in {"SUCCESS", "HITL_REQUIRED"}
  BY <1>1, WaveJudged DEF ExecType
<1>6. ~Ready(e) => \E m \in PlannedIn(e, W) : state[e][m] = "HITL_REQUIRED"
  BY <1>5 DEF Ready
<1>7. W \in 1..Len(plan[e]) /\ Len(plan[e]) \in Nat
  BY <1>1 DEF ExecType
<1>8. pc[e] \notin {"ended", "lost"} /\ result[e] = "none" /\ Len(gates[e]) = W - 1
  BY <1>1 DEF ExecInv, GateInv
<1>9. \A w : PlannedIn(e, w)' = PlannedIn(e, w)
  BY <1>2 DEF PlannedIn
<1> HIDE DEF W, status, passes
<1>10. CursorInv(e)'
  <2>1. CASE wave'[e] = W + 1 /\ next'[e] = 1 /\ W < Len(plan[e]) /\ UNCHANGED pc
    <3>1. W + 1 \in 1..Len(plan[e])
      BY <1>7, <2>1
    <3>2. plan[e][W + 1] \in Seq(Models)
      BY <1>1, <3>1 DEF ExecType
    <3>3. Wave(e)' = plan[e][W + 1]
      BY <1>2, <2>1 DEF Wave
    <3>4. Len(Wave(e)') \in Nat
      BY <3>2, <3>3
    <3> QED
      BY <1>1, <1>2, <2>1, <3>1, <3>4 DEF CursorInv
  <2>2. CASE UNCHANGED <<wave, next>> /\ pc'[e] = "ended"
    BY <1>2, <2>2 DEF ExecInv, CursorInv, Wave
  <2> QED
    BY <1>3, <2>1, <2>2
<1>11. VerdictInv(e)'
  <2>1. CASE wave'[e] = W + 1 /\ next'[e] = 1
    <3>1. \A w \in 1..W, m \in Models : m \in PlannedIn(e, w) => state[e][m] # "none"
      <4>1. \A w \in 1..W : w \in 1..(W - 1) \/ w = W
        BY <1>7
      <4> QED
        BY <1>5, <4>1 DEF ExecInv, VerdictInv, W
    <3>2. \A m \in Models : state[e][m] # "none" => \E w \in 1..(W + 1) : m \in PlannedIn(e, w)
      <4>1. \A w \in 1..W : w \in 1..(W + 1)
        BY <1>7
      <4> QED
        BY <4>1 DEF ExecInv, VerdictInv, W
    <3>3. \A m \in Models : state[e][m] = "SUCCESS" => m \in tested[e]
      BY DEF ExecInv, VerdictInv
    <3>4. 1..(wave'[e] - 1) = 1..W /\ 1..(next'[e] - 1) = {}
      BY <1>7, <2>1
    <3> QED
      BY <1>2, <1>9, <2>1, <3>1, <3>2, <3>3, <3>4 DEF VerdictInv
  <2>2. CASE UNCHANGED <<wave, next>>
    BY <1>2, <1>9, <2>2 DEF ExecInv, VerdictInv, Wave
  <2> QED
    BY <1>3, <2>1, <2>2
<1>12. GateInv(e)'
  <2>1. /\ Len(gates'[e]) = W
        /\ \A i \in 1..(W - 1) : gates'[e][i] = gates[e][i]
        /\ gates'[e][W] = status
    BY <1>1, <1>2, <1>7, <1>8 DEF ExecType, status
  <2>2. \A w \in 1..W : w \in 1..(W - 1) \/ w = W
    BY <1>7
  <2>3. \A w \in 1..Len(gates'[e]) :
           gates'[e][w] = "READY" => PlannedIn(e, w) \subseteq tested[e]
    BY <1>4, <1>8, <2>1, <2>2 DEF ExecInv, GateInv, status
  <2>4. passes => \A w \in 1..W : w = bypass[e] \/ PlannedIn(e, w) \subseteq tested[e]
    BY <1>4, <2>2 DEF ExecInv, GateInv, passes, W
  <2>5. CASE passes /\ wave'[e] = W + 1 /\ UNCHANGED <<pc, result>>
    <3>1. 1..(wave'[e] - 1) = 1..W /\ Len(gates'[e]) = wave'[e] - 1
      BY <1>7, <2>1, <2>5
    <3> QED
      BY <1>2, <1>8, <1>9, <2>3, <2>4, <2>5, <3>1 DEF GateInv
  <2>6. CASE UNCHANGED wave /\ pc'[e] = "ended"
    BY <1>2, <1>9, <2>3, <2>6 DEF ExecInv, GateInv
  <2> QED
    BY <1>3, <2>5, <2>6
<1>13. OutcomeInv(e)'
  <2>1. CASE UNCHANGED result
    BY <1>8, <2>1 DEF OutcomeInv
  <2>2. CASE ~(passes /\ W < Len(plan[e])) /\ result'[e] = Outcome(state[e], ~passes) /\ UNCHANGED wave
    <3> DEFINE failed == {m \in Models : state[e][m] = "HITL_REQUIRED"}
    <3>1. ~passes => failed # {} /\ \E m \in PlannedIn(e, W) : state[e][m] = "HITL_REQUIRED"
      BY <1>5, <1>6 DEF passes
    <3>2. passes => W = Len(plan[e])
      BY <1>7, <2>2
    <3>3. passes => \A w \in 1..W : w = bypass[e] \/ PlannedIn(e, w) \subseteq tested[e]
      <4>1. \A w \in 1..W : w \in 1..(W - 1) \/ w = W
        BY <1>7
      <4> QED
        BY <1>4, <4>1 DEF ExecInv, GateInv, passes, W
    <3>4. \A w \in 1..W, m \in Models : m \in PlannedIn(e, w) => state[e][m] # "none"
      <4>1. \A w \in 1..W : w \in 1..(W - 1) \/ w = W
        BY <1>7
      <4> QED
        BY <1>5, <4>1 DEF ExecInv, VerdictInv, W
    <3>5. failed = {} => \A w \in 1..W : PlannedIn(e, w) \cap Models \subseteq tested[e]
      <4>1. \A m \in Models : state[e][m] \in {"none", "SUCCESS", "HITL_REQUIRED"}
        BY <1>1 DEF ExecType
      <4> QED
        BY <3>4, <4>1 DEF ExecInv, VerdictInv
    <3>6. \A w \in 1..W : PlannedIn(e, w) \subseteq Models
      <4>1. \A w \in 1..W : w \in 1..Len(plan[e])
        BY <1>7
      <4>2. \A w \in 1..Len(plan[e]) : PlannedIn(e, w) \subseteq Models
        BY <1>1 DEF ExecType
      <4> QED
        BY <4>1, <4>2
    <3>7. result'[e] = "SUCCESS" => failed = {} /\ passes
      BY <2>2, <3>1 DEF Outcome
    <3>8. result'[e] = "PARTIAL" => passes
      BY <2>2 DEF Outcome
    <3>9. result'[e] = "HITL_REQUIRED" => ~passes
      BY <2>2 DEF Outcome
    <3> HIDE DEF failed
    <3>10. result'[e] = "SUCCESS" => \A w \in 1..Len(plan[e]) : PlannedIn(e, w) \subseteq tested[e]
      BY <3>2, <3>5, <3>6, <3>7
    <3>11. result'[e] = "PARTIAL" => \A w \in 1..Len(plan[e]), m \in Models :
              m \in PlannedIn(e, w) /\ m \notin tested[e] => w = bypass[e]
      BY <3>2, <3>3, <3>8
    <3>12. result'[e] = "HITL_REQUIRED" => \E m \in PlannedIn(e, W) : state[e][m] = "HITL_REQUIRED"
      BY <3>1, <3>9
    <3>13. W' = W /\ plan'[e] = plan[e] /\ state'[e] = state[e]
           /\ tested'[e] = tested[e] /\ bypass'[e] = bypass[e]
      BY <1>2, <2>2 DEF W
    <3> QED
      BY <1>9, <3>10, <3>11, <3>12, <3>13 DEF OutcomeInv, W
  <2> QED
    BY <1>3, <2>1, <2>2
<1> QED
  BY <1>10, <1>11, <1>12, <1>13 DEF ExecInv

-----------------------------------------------------------------------------
(* Reviewers *)

\* What a reviewer needs from the steps of an execution: a new waiting model has an
\* artifact, and no artifact disappears.
LEMMA ExecutionsReview ==
    ASSUME WaveInv, NEW e \in Execs, Launch(e) \/ Execution(e)
    PROVE  ReviewInv'
<1> USE DEF WaveInv
<1>1. UNCHANGED <<review, dlq, repaired>> /\ art \subseteq art'
  BY DEF Launch, Execution, Bootstrap, DbtRun, DbtTest, DbtTestFails, Fix, Exhaust, Abort, Gate
<1>2. ASSUME NEW i \in Execs, NEW m \in Models, state'[i][m] = "HITL_REQUIRED"
      PROVE  state[i][m] = "HITL_REQUIRED" \/ m \in art'
  <2>1. CASE Exhaust(e)
    <3>1. Model(e) \in Models
      BY <2>1, ModelInWave DEF ExecInv, CursorInv, Exhaust
    <3> QED
      BY <1>2, <2>1, <3>1 DEF Exhaust, WaveTypeOK
  <2>2. CASE DbtTest(e)
    <3>1. Model(e) \in Models
      BY <2>2, ModelInWave DEF ExecInv, CursorInv, DbtTest
    <3> QED
      BY <1>2, <2>2, <3>1 DEF DbtTest, WaveTypeOK
  <2>3. CASE UNCHANGED state
    BY <1>2, <2>3
  <2> QED
    BY <2>1, <2>2, <2>3 DEF Launch, Execution, Bootstrap, DbtRun, DbtTestFails, Fix, Abort, Gate
<1> QED
  BY <1>1, <1>2 DEF ReviewInv, ReviewNotLost

\* A reviewer removes an artifact only after the fix was built or the record written.
LEMMA ReviewersReview ==
    ASSUME WaveInv, NEW r \in Reviewers, Decision(r)
    PROVE  ReviewInv'
<1> USE DEF WaveInv, WaveTypeOK, ReviewInv, ReviewNotLost
<1>1. ASSUME NEW m \in Models, ApplyStart(r, m) \/ RejectStart(r, m) PROVE ReviewInv'
  BY <1>1 DEF ApplyStart, RejectStart
<1>2. CASE ApplyWrite(r)
  BY <1>2 DEF ApplyWrite
<1>3. CASE ApplyRun(r)
  BY <1>3 DEF ApplyRun
<1>4. CASE ApplyUnlink(r)
  BY <1>4 DEF ApplyUnlink
<1>5. CASE ApplyClean(r)
  BY <1>5 DEF ApplyClean
<1>6. CASE RejectRecord(r)
  BY <1>6 DEF RejectRecord
<1>7. CASE RejectRaise(r)
  BY <1>7 DEF RejectRaise
<1>8. CASE RejectUnlink(r)
  BY <1>8 DEF RejectUnlink
<1> QED
  BY <1>1, <1>2, <1>3, <1>4, <1>5, <1>6, <1>7, <1>8 DEF Decision

-----------------------------------------------------------------------------
(* The invariant and the theorems *)

LEMMA WaveInit ==
    Init => WaveInv
<1> SUFFICES ASSUME Init PROVE WaveInv
  OBVIOUS
<1>1. WaveTypeOK
  BY WaveAssumption DEF Init, WaveTypeOK
<1>2. ASSUME NEW e \in Execs PROVE ExecInv(e)
  <2>1. plan[e] \in Seq(Seq(Models)) /\ plan[e] # <<>>
    BY WaveAssumption DEF Init
  <2>2. 1 <= Len(plan[e]) /\ plan[e][1] \in Seq(Models)
    BY <2>1
  <2>3. CursorInv(e)
    BY <2>2 DEF Init, CursorInv, Wave
  <2>4. VerdictInv(e) /\ GateInv(e) /\ OutcomeInv(e)
    BY DEF Init, VerdictInv, GateInv, OutcomeInv
  <2> QED
    BY <2>3, <2>4 DEF ExecInv
<1>3. ReviewInv
  BY DEF Init, ReviewInv, ReviewNotLost
<1> QED
  BY <1>1, <1>2, <1>3 DEF WaveInv

LEMMA WaveNext ==
    WaveInv /\ [Next]_vars => WaveInv'
<1> SUFFICES ASSUME WaveInv, [Next]_vars PROVE WaveInv'
  OBVIOUS
<1>1. WaveTypeOK'
  BY TypesHold
<1>2. ASSUME NEW e \in Execs, Launch(e) \/ Execution(e)
      PROVE  (\A i \in Execs : ExecInv(i)') /\ ReviewInv'
  <2>1. ASSUME NEW i \in Execs, i # e PROVE ExecInv(i)'
    BY <1>2, <2>1, OthersKeep, Frame DEF WaveInv
  <2>2. ExecInv(e)'
    BY <1>2, QuietSteps, PassStep, ExhaustStep, GateStep DEF WaveInv, Execution
  <2> QED
    BY <1>2, <2>1, <2>2, ExecutionsReview
<1>3. ASSUME NEW r \in Reviewers, Decision(r)
      PROVE  (\A i \in Execs : ExecInv(i)') /\ ReviewInv'
  <2>1. UNCHANGED <<pc, option, cursor, verdicts>>
    BY <1>3 DEF Decision, ApplyStart, ApplyWrite, ApplyRun, ApplyUnlink, ApplyClean,
                RejectStart, RejectRecord, RejectRaise, RejectUnlink
  <2>2. \A i \in Execs : SameExec(i)
    BY <2>1 DEF SameExec
  <2> QED
    BY <1>3, <2>2, Frame, ReviewersReview DEF WaveInv
<1>4. CASE Restart
  <2>1. ReviewInv'
    BY <1>4 DEF Restart, WaveInv, ReviewInv, ReviewNotLost
  <2>2. ASSUME NEW i \in Execs PROVE ExecInv(i)'
    <3>1. /\ pc'[i] = IF pc[i] \in {"idle", "ended"} THEN pc[i] ELSE "lost"
          /\ UNCHANGED <<option, cursor, verdicts>>
      BY <1>4 DEF Restart
    <3> USE DEF WaveInv, ExecInv
    <3>2. CursorInv(i)'
      BY <3>1 DEF CursorInv, Wave, InWave
    <3>3. VerdictInv(i)'
      BY <3>1 DEF VerdictInv, Wave, PlannedIn
    <3>4. GateInv(i)'
      BY <3>1 DEF GateInv, PlannedIn
    <3>5. OutcomeInv(i)'
      BY <3>1 DEF OutcomeInv, PlannedIn
    <3> QED
      BY <3>2, <3>3, <3>4, <3>5
  <2> QED
    BY <1>1, <2>1, <2>2 DEF WaveInv
<1>5. CASE UNCHANGED vars
  <2>1. \A i \in Execs : SameExec(i)
    BY <1>5 DEF vars, SameExec
  <2>2. ReviewInv'
    BY <1>5 DEF vars, WaveInv, ReviewInv, ReviewNotLost
  <2> QED
    BY <1>1, <2>1, <2>2, Frame DEF WaveInv
<1> QED
  BY <1>1, <1>2, <1>3, <1>4, <1>5 DEF Next, WaveInv

\* For any plans, options, executions, reviewers and number of attempts, and through
\* restarts: no wave begins before the models of the earlier waves passed, unless
\* their own gate is bypassed.
THEOREM WaveBarrierHolds == SafeSpec => [](WaveTypeOK /\ WaveBarrier)
<1>1. WaveInv => WaveTypeOK /\ WaveBarrier
  BY DEF WaveInv, ExecInv, VerdictInv, GateInv, WaveBarrier
<1> QED
  BY <1>1, WaveInit, WaveNext, PTL DEF SafeSpec

\* What an execution may hold, for any plans and through restarts: run_fix_loop never counts
\* more attempts than it may make, and only the gates and outcomes of the code are reported.
THEOREM WaveTypesHold == SafeSpec => []WaveTypeOK
<1>1. WaveInv => WaveTypeOK
  BY DEF WaveInv
<1> QED
  BY <1>1, WaveInit, WaveNext, PTL DEF SafeSpec

\* What an execution reports is what dbt has shown it.
THEOREM HonestOutcomeHolds == SafeSpec => []HonestOutcome
<1>1. WaveInv => HonestOutcome
  BY DEF WaveInv, ExecInv, OutcomeInv, HonestOutcome
<1> QED
  BY <1>1, WaveInit, WaveNext, PTL DEF SafeSpec

\* A model that waits for review keeps its artifact until somebody decided on it.
THEOREM ReviewNotLostHolds == SafeSpec => []ReviewNotLost
<1>1. WaveInv => ReviewNotLost
  BY DEF WaveInv, ReviewInv
<1> QED
  BY <1>1, WaveInit, WaveNext, PTL DEF SafeSpec

=============================================================================
