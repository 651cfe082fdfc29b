----------------------------- MODULE CheckpointA -----------------------------
(***************************************************************************)
(* One Checkpoint-A job: a thread generates the models and reports through *)
(* the job file and the checkpoint file, the cockpit polls the job file,   *)
(* and requests approve the checkpoint, write the models and execute them  *)
(* in a thread of their own. The job file has no lock: everybody loads it, *)
(* changes what was loaded and writes the whole of it in place.            *)
(***************************************************************************)
CONSTANTS
    Requests,   \* POST .../approve calls
    Generator,  \* the thread that generates
    SaveFails   \* whether an open or a write of a file may fail

ASSUME CheckpointAssumption ==
    /\ Generator \notin Requests
    /\ SaveFails \in BOOLEAN

VARIABLES
    inline,  \* approve_checkpoint_a of the start call
    file,    \* the job file
    cp,      \* the checkpoint file
    pc,      \* where the generator and each request is
    snap,    \* the job that each of them loaded last
    runs,    \* run_execution of each request
    outcome, \* the result the execution of each request has to report
    written, \* history: those who wrote model files
    faulty   \* history: an open or a write of a file has failed

vars == <<inline, file, cp, pc, snap, runs, outcome, written, faulty>>

Procs == Requests \cup {Generator}
Final == {"SUCCESS", "PARTIAL", "HITL_REQUIRED", "FAILED"}

\* A job as JSON: args stands for the paths of the start call, which an approval needs.
Job == [text : {"whole", "empty", "mixed"},
        status : {"none", "RUNNING", "SUCCESS", "FAILED"},
        args : BOOLEAN, approved : BOOLEAN, exec : {"none", "RUNNING"} \cup Final]

\* A file that is being written, or that two writers have mixed, has no field ...
Unreadable(t) ==
    [text |-> t, status |-> "none", args |-> FALSE, approved |-> FALSE, exec |-> "none"]

JobOf(st, a, ok, ex) ==
    [text |-> "whole", status |-> st, args |-> a, approved |-> ok, exec |-> ex]

\* ... and load_job answers {} for it.
Load == JobOf(file.status, file.args, file.approved, file.exec)

\* What is changed in a job that was loaded.
WithStatus(job, st) == JobOf(st, job.args, job.approved, job.exec)
WithApproval(job) == JobOf(job.status, job.args, TRUE, job.exec)
WithExec(job, ex) == JobOf(job.status, job.args, job.approved, ex)

To(p, l) == pc' = [pc EXCEPT ![p] = l]

Failing == SaveFails /\ faulty' = TRUE

\* save_job, first half: opening the file truncates it ...
Truncate == file' = Unreadable("empty") /\ UNCHANGED faulty

\* ... unless mkdir or the open fails, which leaves it as it was; so does a write that
\* fails, to a file that is open.
NotSaved == Failing /\ UNCHANGED file

\* Second half: the text goes to the start of the file. Over the text of another
\* writer that came first it may leave a tail of it behind.
Fill(job) ==
    /\ \/ file' = job
       \/ file.text # "empty" /\ file' = Unreadable("mixed")
    /\ UNCHANGED faulty

-----------------------------------------------------------------------------
(* start_generate_dbt_checkpoint_a_job and its worker *)

\* The job is saved before the thread starts and before anyone knows its id.
Start(approve) ==
    /\ pc[Generator] = "idle"
    /\ inline' = approve
    /\ file' = JobOf("RUNNING", TRUE, FALSE, "none")
    /\ To(Generator, "generating")
    /\ UNCHANGED <<cp, snap, runs, outcome, written, faulty>>

\* _progress loads the job to count a model, unless there is nothing to load. What it
\* raises is swallowed.
ProgressOpen ==
    /\ pc[Generator] = "generating"
    /\ file.text = "whole"
    /\ snap' = [snap EXCEPT ![Generator] = Load]
    /\ \/ Truncate /\ To(Generator, "counting")
       \/ NotSaved /\ UNCHANGED pc
    /\ UNCHANGED <<inline, cp, runs, outcome, written>>

ProgressWrite ==
    /\ pc[Generator] = "counting"
    /\ Fill(snap[Generator]) \/ NotSaved
    /\ To(Generator, "generating")
    /\ UNCHANGED <<inline, cp, snap, runs, outcome, written>>

\* Every model is generated. With approve_checkpoint_a the models are written, and
\* with run_execution executed, here; the job file says nothing of either.
Generated ==
    /\ pc[Generator] = "generating"
    /\ written' = IF inline THEN written \cup {Generator} ELSE written
    /\ To(Generator, "generated")
    /\ UNCHANGED <<inline, file, cp, snap, runs, outcome, faulty>>

\* The generation, the writing or the execution raises.
GenerationRaises ==
    /\ pc[Generator] = "generating"
    /\ written' \in IF inline THEN {written, written \cup {Generator}}
                    ELSE {written}
    /\ To(Generator, "raised")
    /\ UNCHANGED <<inline, file, cp, snap, runs, outcome, faulty>>

\* save_checkpoint_a_for_job.
CheckpointOpen ==
    /\ pc[Generator] = "generated"
    /\ \/ cp' = "empty" /\ To(Generator, "checkpointing") /\ UNCHANGED faulty
       \/ Failing /\ To(Generator, "raised") /\ UNCHANGED cp
    /\ UNCHANGED <<inline, file, snap, runs, outcome, written>>

CheckpointWrite ==
    /\ pc[Generator] = "checkpointing"
    /\ \/ cp' = "saved" /\ To(Generator, "checkpointed") /\ UNCHANGED faulty
       \/ Failing /\ To(Generator, "raised") /\ UNCHANGED cp
    /\ UNCHANGED <<inline, file, snap, runs, outcome, written>>

\* Mutant: the job succeeds before its checkpoint is saved.
SuccessOpenEarly ==
    /\ pc[Generator] = "generated"
    /\ snap' = [snap EXCEPT ![Generator] = Load]
    /\ Truncate
    /\ To(Generator, "closing")
    /\ UNCHANGED <<inline, cp, runs, outcome, written>>

SuccessOpen ==
    /\ pc[Generator] = "checkpointed"
    /\ snap' = [snap EXCEPT ![Generator] = Load]
    /\ \/ Truncate /\ To(Generator, "closing")
       \/ NotSaved /\ To(Generator, "raised")
    /\ UNCHANGED <<inline, cp, runs, outcome, written>>

SuccessWrite ==
    /\ pc[Generator] = "closing"
    /\ \/ Fill(WithStatus(snap[Generator], "SUCCESS")) /\ To(Generator, "ended")
       \/ NotSaved /\ To(Generator, "raised")
    /\ UNCHANGED <<inline, cp, snap, runs, outcome, written>>

\* The except clause of the worker; what it raises itself ends the thread.
FailureOpen ==
    /\ pc[Generator] = "raised"
    /\ snap' = [snap EXCEPT ![Generator] = Load]
    /\ \/ Truncate /\ To(Generator, "failing")
       \/ NotSaved /\ To(Generator, "ended")
    /\ UNCHANGED <<inline, cp, runs, outcome, written>>

FailureWrite ==
    /\ pc[Generator] = "failing"
    /\ Fill(WithStatus(snap[Generator], "FAILED")) \/ NotSaved
    /\ To(Generator, "ended")
    /\ UNCHANGED <<inline, cp, snap, runs, outcome, written>>

-----------------------------------------------------------------------------
(* approve_checkpoint_a_for_job; a refused call changes nothing *)

\* Mutant: any job with its arguments may be approved.
ApproveUnchecked(q, run) ==
    /\ pc[q] = "idle"
    /\ file.args
    /\ ~file.approved
    /\ snap' = [snap EXCEPT ![q] = Load]
    /\ runs' = [runs EXCEPT ![q] = run]
    /\ To(q, "approved")
    /\ UNCHANGED <<inline, file, cp, outcome, written, faulty>>

\* The checks: a complete job, not approved, with its checkpoint and its report.
Approve(q, run) ==
    /\ pc[q] = "idle"
    /\ file.status = "SUCCESS"
    /\ ~file.approved
    /\ cp = "saved"
    /\ file.args
    /\ snap' = [snap EXCEPT ![q] = Load]
    /\ runs' = [runs EXCEPT ![q] = run]
    /\ To(q, "approved")
    /\ UNCHANGED <<inline, file, cp, outcome, written, faulty>>

\* write_model_artifacts may raise after a part of the files.
WriteModels(q) ==
    /\ pc[q] = "approved"
    /\ \/ written' = written \cup {q} /\ To(q, "wrote") /\ UNCHANGED faulty
       \/ Failing /\ written' \in {written, written \cup {q}} /\ To(q, "ended")
    /\ UNCHANGED <<inline, file, cp, snap, runs, outcome>>

\* The job that was checked is changed and saved: it is not loaded again.
RecordOpen(q) ==
    /\ pc[q] = "wrote"
    /\ \/ Truncate /\ To(q, "recording")
       \/ NotSaved /\ To(q, "ended")
    /\ UNCHANGED <<inline, cp, snap, runs, outcome, written>>

\* Mutant: the execution is marked together with the approval.
RecordWriteMarked(q) ==
    /\ pc[q] = "recording"
    /\ Fill(JobOf(snap[q].status, snap[q].args, TRUE, IF runs[q] THEN "RUNNING" ELSE "none"))
    /\ To(q, IF runs[q] THEN "recorded" ELSE "ended")
    /\ UNCHANGED <<inline, cp, snap, runs, outcome, written>>

RecordWrite(q) ==
    /\ pc[q] = "recording"
    /\ \/ Fill(WithApproval(snap[q])) /\ To(q, IF runs[q] THEN "recorded" ELSE "ended")
       \/ NotSaved /\ To(q, "ended")
    /\ UNCHANGED <<inline, cp, snap, runs, outcome, written>>

MarkOpen(q) ==
    /\ pc[q] = "recorded"
    /\ snap' = [snap EXCEPT ![q] = Load]
    /\ \/ Truncate /\ To(q, "marking")
       \/ NotSaved /\ To(q, "ended")
    /\ UNCHANGED <<inline, cp, runs, outcome, written>>

\* Mutant: the execution is marked by a job of its own.
MarkWriteBare(q) ==
    /\ pc[q] = "marking"
    /\ Fill(JobOf("none", FALSE, FALSE, "RUNNING"))
    /\ To(q, "executing")
    /\ UNCHANGED <<inline, cp, snap, runs, outcome, written>>

\* The execution is marked RUNNING and its thread starts.
MarkWrite(q) ==
    /\ pc[q] = "marking"
    /\ \/ Fill(WithExec(snap[q], "RUNNING")) /\ To(q, "executing")
       \/ NotSaved /\ To(q, "ended")
    /\ UNCHANGED <<inline, cp, snap, runs, outcome, written>>

\* _execute_approved_checkpoint_models returns, or raises and counts as FAILED.
Execute(q) ==
    /\ pc[q] = "executing"
    /\ \/ \E o \in Final : outcome' = [outcome EXCEPT ![q] = o] /\ To(q, "executed")
       \/ outcome' = [outcome EXCEPT ![q] = "FAILED"] /\ To(q, "broken")
    /\ UNCHANGED <<inline, file, cp, snap, runs, written, faulty>>

\* The result is saved into the job as it is now.
ReportOpen(q) ==
    /\ pc[q] = "executed"
    /\ snap' = [snap EXCEPT ![q] = Load]
    /\ \/ Truncate /\ To(q, "reporting") /\ UNCHANGED outcome
       \/ NotSaved /\ To(q, "broken") /\ outcome' = [outcome EXCEPT ![q] = "FAILED"]
    /\ UNCHANGED <<inline, cp, runs, written>>

\* The except clause, for an execution or a save that raised. What it raises itself ends
\* the thread: when the file does not even open, with the job as it was.
BlameOpen(q) ==
    /\ pc[q] = "broken"
    /\ snap' = [snap EXCEPT ![q] = Load]
    /\ \/ Truncate /\ To(q, "blaming")
       \/ NotSaved /\ To(q, "unreported")
    /\ UNCHANGED <<inline, cp, runs, outcome, written>>

\* Mutant: an exception of the execution is only logged.
ReportWriteLogged(q) ==
    /\ pc[q] \in {"reporting", "blaming"}
    /\ Fill(IF pc[q] = "reporting" THEN WithExec(snap[q], outcome[q]) ELSE snap[q])
    /\ To(q, "ended")
    /\ UNCHANGED <<inline, cp, snap, runs, outcome, written>>

ReportWrite(q) ==
    /\ pc[q] \in {"reporting", "blaming"}
    /\ \/ /\ Fill(WithExec(snap[q], outcome[q]))
          /\ To(q, "ended")
          /\ UNCHANGED outcome
       \/ /\ NotSaved
          /\ outcome' = [outcome EXCEPT ![q] = "FAILED"]
          /\ To(q, IF pc[q] = "reporting" THEN "broken" ELSE "ended")
    /\ UNCHANGED <<inline, cp, snap, runs, written>>

\* The process ends: threads and requests are gone, files stay as they are.
Restart ==
    /\ pc' = [p \in Procs |->
               IF pc[p] \in {"idle", "ended", "unreported"} THEN pc[p] ELSE "lost"]
    /\ UNCHANGED <<inline, file, cp, snap, runs, outcome, written, faulty>>

-----------------------------------------------------------------------------
(* Specification *)

Init ==
    /\ inline = FALSE
    /\ file = Unreadable("empty")
    /\ cp = "none"
    /\ pc = [p \in Procs |-> "idle"]
    /\ snap = [p \in Procs |-> Unreadable("whole")]
    /\ runs = [q \in Requests |-> FALSE]
    /\ outcome = [q \in Requests |-> "none"]
    /\ written = {}
    /\ faulty = FALSE

Generation ==
    \/ ProgressOpen
    \/ ProgressWrite
    \/ Generated
    \/ GenerationRaises
    \/ CheckpointOpen
    \/ CheckpointWrite
    \/ SuccessOpen
    \/ SuccessWrite
    \/ FailureOpen
    \/ FailureWrite

Approval(q) ==
    \/ WriteModels(q)
    \/ RecordOpen(q)
    \/ RecordWrite(q)
    \/ MarkOpen(q)
    \/ MarkWrite(q)
    \/ Execute(q)
    \/ ReportOpen(q)
    \/ BlameOpen(q)
    \/ ReportWrite(q)

Next ==
    \/ \E approve \in BOOLEAN : Start(approve)
    \/ Generation
    \/ \E q \in Requests, run \in BOOLEAN : Approve(q, run)
    \/ \E q \in Requests : Approval(q)
    \/ Restart

\* Threads are scheduled, what they call returns, and the inventory is finite: the
\* generator does not count models for ever.
Fairness ==
    /\ WF_vars(Generation)
    /\ SF_vars(Generated \/ GenerationRaises)
    /\ \A q \in Requests : WF_vars(Approval(q))

SafeSpec == Init /\ [][Next]_vars
Spec == SafeSpec /\ Fairness

-----------------------------------------------------------------------------
(* Properties *)

\* Where a request is once it has recorded the approval ...
Recorded == {"recorded", "marking"}

\* ... and once it has launched an execution.
Launched == {"executing", "executed", "reporting", "broken", "blaming"}

\* The variables keep their types.
CpTypeOK ==
    /\ inline \in BOOLEAN
    /\ file \in Job
    /\ cp \in {"none", "empty", "saved"}
    /\ pc \in [Procs -> {"idle", "generating", "counting", "generated", "checkpointing",
                         "checkpointed", "closing", "raised", "failing", "approved", "wrote",
                         "recording", "ended", "unreported", "lost"} \cup Recorded \cup Launched]
    /\ snap \in [Procs -> Job]
    /\ runs \in [Requests -> BOOLEAN]
    /\ outcome \in [Requests -> {"none"} \cup Final]
    /\ written \in SUBSET Procs
    /\ faulty \in BOOLEAN

\* A job shown as SUCCESS has its whole checkpoint, which is what the cockpit loads
\* next: whatever crashed, failed or was mixed by concurrent writers.
SuccessHasCheckpoint == file.status = "SUCCESS" => cp = "saved"

\* Model files are written by the generator only on request, and otherwise by an approval
\* of a saved checkpoint; an execution follows such a write, and so does the approval
\* that the job shows.
GatedWrites ==
    /\ Generator \in written => inline
    /\ written \cap Requests # {} => cp = "saved"
    /\ \A q \in Requests : pc[q] \in Recorded \cup Launched => q \in written
    /\ file.approved => written \cap Requests # {}

\* The execution status of a job is never made up: a result was reported by an execution,
\* and RUNNING means that one runs, or was lost with the process, or that the except
\* clause of its thread could not open the file either.
HonestExecution ==
    /\ file.exec \in Final => \E q \in Requests : outcome[q] = file.exec
    /\ file.exec = "RUNNING" => \E q \in Requests : pc[q] \in Launched \cup {"unreported", "lost"}

\* Nobody but one request has got past the checks, and every open and write succeeded.
Undisturbed ==
    /\ ~faulty
    /\ \A q, r \in Requests : pc[q] # "idle" /\ pc[r] # "idle" => q = r

\* Then the job file, whenever it can be read, keeps the approval of a request that
\* recorded it, together with what the generation put there, through restarts.
ApprovalRecorded ==
    Undisturbed /\ file.text = "whole" =>
        \A q \in Requests : pc[q] \in Recorded \cup Launched =>
            file.approved /\ file.args /\ file.status = "SUCCESS"

\* And then the generation and every execution end with their result in the job file,
\* unless the process ends.
ResultsReported ==
    []Undisturbed =>
        /\ pc[Generator] = "generating" ~>
              pc[Generator] = "lost" \/ file.status \in {"SUCCESS", "FAILED"}
        /\ \A q \in Requests :
              pc[q] = "executing" ~> pc[q] = "lost" \/ file.exec = outcome[q]

\* A checkpoint is approved once (test_approve_checkpoint_a_for_job_writes_models expects
\* "already approved"): it is not executed twice at the same time.
SingleExecution ==
    \A q, r \in Requests : pc[q] = "executing" /\ pc[r] = "executing" => q = r

=============================================================================
