------------------------------- MODULE LiveJobs -------------------------------
(***************************************************************************)
(* Live ingestion jobs: each runs in a thread of the server and takes one  *)
(* of three slots, extracts from a database into the directory of its      *)
(* connection name, and builds a report from what that directory holds.    *)
(* Jobs of one connection name share the directory; all builds redirect    *)
(* the one sys.stdout of the process.                                      *)
(***************************************************************************)
EXTENDS Naturals, FiniteSets

CONSTANTS
    LvJobs,   \* started jobs
    LvSlots,  \* _LIVE_SEM (3 in the code)
    LvFaults  \* bound: exceptions while a job extracts or writes

ASSUME LvAssumption == LvSlots \in Nat \ {0} /\ LvFaults \in Nat

VARIABLES
    lvJob,    \* _LIVE_JOBS and what the worker of each job is doing
    lvFree,   \* free slots
    lvDir,    \* who wrote each artifact of the directory
    lvStdout, \* sys.stdout: the process's own, or the buffer of a job
    lvLeft,   \* exceptions still to come
    lvDown,   \* the shutdown hook of the server has run
    lvAlone   \* history: jobs that had the directory to themselves

lvVars == <<lvJob, lvFree, lvDir, lvStdout, lvLeft, lvDown, lvAlone>>

LvNobody == "nobody"
LvArtifacts == {"ddl", "manifest", "logs"}
LvNone == [status |-> "none", pc |-> "idle", verdict |-> "success", build |-> FALSE,
           anchor |-> FALSE, read |-> {}, saved |-> "process", report |-> {}]

LvSet(j, fields) == lvJob' = [lvJob EXCEPT ![j] = fields]
LvInDir(j) == lvJob[j].pc \in LvArtifacts \cup {"check", "build"}

\* POST /start registers the job and starts its thread; the hook runs after the last request.
LvStart(j) ==
    /\ lvJob[j].status = "none"
    /\ ~lvDown
    /\ \E b \in BOOLEAN : LvSet(j, [LvNone EXCEPT !.status = "queued", !.pc = "acquire", !.build = b])
    /\ UNCHANGED <<lvFree, lvDir, lvStdout, lvLeft, lvDown, lvAlone>>

\* The slot is taken without a look at the status, which the hook may have set meanwhile.
LvAcquire(j) ==
    /\ lvJob[j].pc = "acquire"
    /\ lvFree > 0
    /\ lvFree' = lvFree - 1
    /\ LvSet(j, [lvJob[j] EXCEPT !.status = "running", !.pc = "validate"])
    /\ UNCHANGED <<lvDir, lvStdout, lvLeft, lvDown, lvAlone>>

\* Every way out of the worker: the last update of the job, and the slot is released.
LvEnd(j, status) ==
    /\ LvSet(j, [lvJob[j] EXCEPT !.status = status, !.pc = "ended"])
    /\ lvFree' = lvFree + 1

\* A mutated validation: the exception also skips the release of the slot.
LvValidateLeaks(j) ==
    /\ lvJob[j].pc = "validate"
    /\ \/ /\ LvSet(j, [lvJob[j] EXCEPT !.pc = "extract"])
          /\ UNCHANGED lvFree
       \/ LvEnd(j, "failure")
       \/ /\ LvSet(j, [lvJob[j] EXCEPT !.pc = "raised"])
          /\ UNCHANGED lvFree
    /\ UNCHANGED <<lvDir, lvStdout, lvLeft, lvDown, lvAlone>>

\* The connection string, the provider and the ping: success, or the job has failed.
\* A path outside the data root raises, and nobody updates the job.
LvValidate(j) ==
    /\ lvJob[j].pc = "validate"
    /\ \/ /\ LvSet(j, [lvJob[j] EXCEPT !.pc = "extract"])
          /\ UNCHANGED lvFree
       \/ LvEnd(j, "failure")
       \/ /\ LvSet(j, [lvJob[j] EXCEPT !.pc = "raised"])
          /\ lvFree' = lvFree + 1
    /\ UNCHANGED <<lvDir, lvStdout, lvLeft, lvDown, lvAlone>>

\* A mutated extraction: without tables the job is shown as failed, and goes on.
LvExtractGoesOn(j) ==
    /\ lvJob[j].pc = "extract"
    /\ \/ /\ LvSet(j, [lvJob[j] EXCEPT !.status = "failure", !.pc = "check"])
          /\ UNCHANGED lvAlone
       \/ /\ \E v \in {"success", "partial"} :
                LvSet(j, [lvJob[j] EXCEPT !.pc = "ddl", !.verdict = v])
          /\ lvAlone' = lvAlone \ {k \in LvJobs : LvInDir(k)}
    /\ UNCHANGED <<lvFree, lvDir, lvStdout, lvLeft, lvDown>>

\* No tables is a failure, no log rows makes the job partial.
LvExtract(j) ==
    /\ lvJob[j].pc = "extract"
    /\ \/ /\ LvEnd(j, "failure")
          /\ UNCHANGED lvAlone
       \/ /\ \E v \in {"success", "partial"} :
                LvSet(j, [lvJob[j] EXCEPT !.pc = "ddl", !.verdict = v])
          /\ lvAlone' = IF \E k \in LvJobs \ {j} : LvInDir(k)
                        THEN {k \in lvAlone : ~LvInDir(k)} ELSE lvAlone \cup {j}
          /\ UNCHANGED lvFree
    /\ UNCHANGED <<lvDir, lvStdout, lvLeft, lvDown>>

LvNextStep == [ddl |-> "manifest", manifest |-> "logs", logs |-> "check"]

\* A mutated writer: a manifest of an earlier job is kept.
LvWriteOnce(j) ==
    LET pc == lvJob[j].pc IN
    /\ pc \in LvArtifacts
    /\ lvDir' = IF pc = "manifest" /\ lvDir[pc] # LvNobody THEN lvDir
                ELSE [lvDir EXCEPT ![pc] = j]
    /\ LvSet(j, [lvJob[j] EXCEPT !.pc = LvNextStep[pc], !.anchor = (pc = "logs")])
    /\ UNCHANGED <<lvFree, lvStdout, lvLeft, lvDown, lvAlone>>

\* _write_real_artifacts: the DDL files, the manifest, then the logs.
LvWrite(j) ==
    LET pc == lvJob[j].pc IN
    /\ pc \in LvArtifacts
    /\ lvDir' = [lvDir EXCEPT ![pc] = j]
    /\ LvSet(j, [lvJob[j] EXCEPT !.pc = LvNextStep[pc], !.anchor = (pc = "logs")])
    /\ UNCHANGED <<lvFree, lvStdout, lvLeft, lvDown, lvAlone>>

\* An exception while extracting or writing: the job goes on as partial.
LvBreak(j) ==
    /\ lvJob[j].pc \in LvArtifacts \cup {"extract"}
    /\ lvLeft > 0
    /\ lvLeft' = lvLeft - 1
    /\ LvSet(j, [lvJob[j] EXCEPT !.pc = "check", !.verdict = "partial"])
    /\ lvAlone' = lvAlone \ {k \in LvJobs : LvInDir(k)}
    /\ UNCHANGED <<lvFree, lvDir, lvStdout, lvDown>>

\* The DDL file that the report is anchored at: of a table of the manifest just written, or,
\* when the job broke off, one of a fixed name that the directory may not have.
LvAnchored(job) == IF job.anchor THEN {TRUE} ELSE BOOLEAN

\* The report needs all artifacts, whoever wrote them; cmd_run starts on those of now.
LvCheck(j) ==
    /\ lvJob[j].pc = "check"
    /\ LET job == lvJob[j]
           missing == \E a \in LvArtifacts : lvDir[a] = LvNobody
       IN \E found \in LvAnchored(job) :
             IF job.build /\ ~missing /\ found
             THEN /\ LvSet(j, [job EXCEPT !.pc = "build", !.saved = lvStdout,
                                          !.read = {lvDir[a] : a \in LvArtifacts}])
                  /\ lvStdout' = j
                  /\ UNCHANGED lvFree
             ELSE /\ LvEnd(j, IF job.build THEN "partial" ELSE job.verdict)
                  /\ UNCHANGED lvStdout
    /\ UNCHANGED <<lvDir, lvLeft, lvDown, lvAlone>>

\* cmd_run has written the report, or failed; sys.stdout is put back as it was found.
LvBuild(j) ==
    /\ lvJob[j].pc = "build"
    /\ lvStdout' = lvJob[j].saved
    /\ lvFree' = lvFree + 1
    /\ \E done \in BOOLEAN :
          LvSet(j, [lvJob[j] EXCEPT !.pc = "ended", !.saved = "process",
                                    !.status = IF done THEN lvJob[j].verdict ELSE "partial",
                                    !.report = IF done THEN lvJob[j].read ELSE {}])
    /\ UNCHANGED <<lvDir, lvLeft, lvDown, lvAlone>>

\* A mutated hook: jobs that wait for a slot are left as they are.
LvShutdownRunning ==
    /\ ~lvDown
    /\ lvDown' = TRUE
    /\ lvJob' = [j \in LvJobs |-> IF lvJob[j].status = "running"
                                  THEN [lvJob[j] EXCEPT !.status = "failure"] ELSE lvJob[j]]
    /\ UNCHANGED <<lvFree, lvDir, lvStdout, lvLeft, lvAlone>>

\* mark_all_live_jobs_shutdown; the workers go on for as long as the process does.
LvShutdown ==
    /\ ~lvDown
    /\ lvDown' = TRUE
    /\ lvJob' = [j \in LvJobs |-> IF lvJob[j].status \in {"queued", "running"}
                                  THEN [lvJob[j] EXCEPT !.status = "failure"] ELSE lvJob[j]]
    /\ UNCHANGED <<lvFree, lvDir, lvStdout, lvLeft, lvAlone>>

LvInit ==
    /\ lvJob = [j \in LvJobs |-> LvNone]
    /\ lvFree = LvSlots
    /\ lvDir = [a \in LvArtifacts |-> LvNobody]
    /\ lvStdout = "process"
    /\ lvLeft = LvFaults
    /\ lvDown = FALSE
    /\ lvAlone = {}

LvNext ==
    \/ \E j \in LvJobs :
          \/ LvStart(j) \/ LvAcquire(j) \/ LvValidate(j) \/ LvExtract(j)
          \/ LvWrite(j) \/ LvBreak(j) \/ LvCheck(j) \/ LvBuild(j)
    \/ LvShutdown

LvSpec == LvInit /\ [][LvNext]_lvVars

\* The thread of a job runs on for as long as the server does, the time limits of the
\* provider end a hanging query, and the semaphore wakes one of those that wait for it.
LvWork(j) ==
    /\ ~lvDown
    /\ \/ LvAcquire(j) \/ LvValidate(j) \/ LvExtract(j)
       \/ LvWrite(j) \/ LvCheck(j) \/ LvBuild(j)

LvFairness == \A j \in LvJobs : WF_lvVars(LvWork(j))

LvRaised == {j \in LvJobs : lvJob[j].pc = "raised"}

\* The hook has found the job unfinished and its worker has not ended yet.
LvMarked ==
    {j \in LvJobs : lvJob[j].status = "failure" /\ lvJob[j].pc \notin {"idle", "ended", "raised"}}

Board == INSTANCE LiveBoard WITH
    Jobs <- LvJobs, Slots <- LvSlots, down <- lvDown, lost <- LvRaised, marked <- LvMarked,
    shown <- [j \in LvJobs |-> lvJob[j].status]

\* What a page shows of a job is what LiveBoard promises: no more than three jobs run, a
\* verdict stands, and only the worker of a job that the shutdown hook has marked, which does
\* not look at the mark, can show it as running or with a verdict of its own again.
ImplementsBoard == Board!Spec

LvHolders == {j \in LvJobs : lvJob[j].pc \notin {"idle", "acquire", "ended", "raised"}}

LvTypeOK ==
    /\ \A j \in LvJobs :
          lvJob[j].status \in {"none", "queued", "running", "success", "partial", "failure"}
    /\ lvFree = LvSlots - Cardinality(LvHolders)
    /\ lvDir \in [LvArtifacts -> LvJobs \cup {LvNobody}]
    /\ lvStdout \in LvJobs \cup {"process"}
    /\ lvDown \in BOOLEAN
    /\ lvAlone \subseteq LvJobs

\* A job that had the directory of its connection to itself and ended in success reports
\* on what it has extracted, and on nothing an earlier job left behind.
LvReportOwn ==
    \A j \in lvAlone :
       lvJob[j].pc = "ended" /\ lvJob[j].status = "success" => lvJob[j].report \subseteq {j}

\* The output of the process is its own again when nobody builds a report:
\* not so when two builds have overlapped.
LvStdoutBack == (\A j \in LvJobs : lvJob[j].pc # "build") => lvStdout = "process"
=============================================================================
