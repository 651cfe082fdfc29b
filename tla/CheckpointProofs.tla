-------------------------- MODULE CheckpointProofs --------------------------
(***************************************************************************)
(* Proofs about CheckpointA, for any number of approvals. Every load reads *)
(* what somebody saved, so the claims about the job file have to be claims *)
(* about every job that was loaded too; what tells them apart is when the  *)
(* load happened, which the invariant says by the place of its process.    *)
(***************************************************************************)
EXTENDS CheckpointA, TLAPS

\* A job that has not left the hands of the generator.
Young(job) == job.status # "SUCCESS" /\ ~job.approved /\ job.exec = "none"

\* A job that shows its approval, and all it had before.
Whole(job) == job.status = "SUCCESS" /\ job.args /\ job.approved

\* What holds of every text of the job file, however old.
Sound(job) ==
    /\ job.status = "SUCCESS" => cp = "saved"
    /\ job.approved => written \cap Requests # {}
    /\ job.exec \in Final => \E q \in Requests : pc[q] = "ended" /\ outcome[q] = job.exec
    /\ job.status = "SUCCESS" /\ ~job.approved => job.exec = "none"

\* Until the generator is done nobody else does anything.
GeneratorInv ==
    /\ Generator \in written => inline /\ pc[Generator] # "idle"
    /\ pc[Generator] \in {"checkpointed", "closing"} => cp = "saved"
    /\ pc[Generator] \notin {"ended", "lost"} =>
          /\ Young(file)
          /\ \A p \in Procs : Young(snap[p])
          /\ \A q \in Requests : pc[q] \in {"idle", "ended", "lost"}
          /\ written \cap Requests = {}

Writing == {"wrote", "recording"} \cup Recorded \cup Launched
Deciding == {"approved", "wrote", "recording"}

RequestInv(q) ==
    /\ pc[q] \in Deciding \cup Writing => cp = "saved"
    /\ pc[q] \in Writing => q \in written
    /\ pc[q] \in Deciding =>
          snap[q].status = "SUCCESS" /\ snap[q].args /\ snap[q].exec = "none"
    /\ pc[q] \in Recorded \cup Launched /\ file.status = "SUCCESS" => file.approved
    /\ pc[q] \in {"marking", "reporting", "blaming"} /\ snap[q].status = "SUCCESS" =>
          snap[q].approved
    /\ pc[q] \in {"executed", "reporting", "broken", "blaming"} => outcome[q] \in Final

\* RUNNING stays in the file at most until its execution opens the file to report, for as
\* long as the file opens.
RunningInv ==
    file.exec = "RUNNING" =>
        \E q \in Requests : pc[q] \in {"executing", "executed", "broken", "unreported",
                                  "lost"}

\* A request that nobody disturbs finds in the file what it left there.
Finds(q) ==
    /\ pc[q] \in {"recorded", "executing", "executed", "broken"} => Whole(file)
    /\ pc[q] \in {"recording", "marking", "reporting", "blaming"} => file.text = "empty"
    /\ pc[q] \in {"marking", "reporting", "blaming"} => Whole(snap[q])

SoloInv == Undisturbed => \A q \in Requests : Finds(q)

CpInv ==
    /\ CpTypeOK
    /\ written \cap Requests # {} => cp = "saved"
    /\ Sound(file) /\ \A p \in Procs : Sound(snap[p])
    /\ GeneratorInv
    /\ \A q \in Requests : RequestInv(q)
    /\ RunningInv
    /\ SoloInv

-----------------------------------------------------------------------------
(* Types *)

Statuses == {"none", "RUNNING", "SUCCESS", "FAILED"}
Executions == {"none", "RUNNING"} \cup Final

\* What is saved is a job.
LEMMA JobsAreMade ==
    /\ \A st \in Statuses, a \in BOOLEAN, ok \in BOOLEAN, ex \in Executions :
          JobOf(st, a, ok, ex) \in Job
    /\ Unreadable("empty") \in Job /\ Unreadable("mixed") \in Job
    /\ Unreadable("whole") \in Job
BY DEF Statuses, Executions, Final, JobOf, Unreadable, Job

LEMMA JobsHaveFields ==
    ASSUME NEW job \in Job
    PROVE  /\ job.status \in Statuses
           /\ job.args \in BOOLEAN
           /\ job.approved \in BOOLEAN
           /\ job.exec \in Executions
BY DEF Statuses, Executions, Job

LEMMA JobsAreUpdated ==
    ASSUME NEW job \in Job
    PROVE  /\ \A st \in Statuses : WithStatus(job, st) \in Job
           /\ WithApproval(job) \in Job
           /\ \A ex \in Executions : WithExec(job, ex) \in Job
BY JobsAreMade, JobsHaveFields DEF WithStatus, WithApproval, WithExec

LEMMA LoadsAreTyped == file \in Job => Load \in Job
BY JobsAreMade, JobsHaveFields DEF Load

LEMMA FillsAreTyped ==
    \A job \in Job : file \in Job /\ Fill(job) => file' \in Job /\ UNCHANGED faulty
BY JobsAreMade DEF Fill

LEMMA StartIsTyped == JobOf("RUNNING", TRUE, FALSE, "none") \in Job
BY JobsAreMade DEF Statuses, Executions

LEMMA TypesKept == CpTypeOK /\ [Next]_vars => CpTypeOK'
<1>. SUFFICES ASSUME CpTypeOK, [Next]_vars
              PROVE  CpTypeOK'
  OBVIOUS
<1>. USE CheckpointAssumption, JobsAreMade, JobsAreUpdated, LoadsAreTyped,
         FillsAreTyped
     DEF CpTypeOK, Statuses, Executions, Final, Truncate, NotSaved, To, Failing, Procs,
         Recorded, Launched
<1>1. CASE \E approve \in BOOLEAN : Start(approve)
  BY <1>1, StartIsTyped DEF Start
<1>2. CASE Generation
  <2>1. CASE ProgressOpen
    BY <2>1 DEF ProgressOpen
  <2>2. CASE ProgressWrite
    BY <2>2 DEF ProgressWrite
  <2>3. CASE Generated
    BY <2>3 DEF Generated
  <2>4. CASE GenerationRaises
    BY <2>4 DEF GenerationRaises
  <2>5. CASE CheckpointOpen
    BY <2>5 DEF CheckpointOpen
  <2>6. CASE CheckpointWrite
    BY <2>6 DEF CheckpointWrite
  <2>7. CASE SuccessOpen
    BY <2>7 DEF SuccessOpen
  <2>8. CASE SuccessWrite
    BY <2>8 DEF SuccessWrite
  <2>9. CASE FailureOpen
    BY <2>9 DEF FailureOpen
  <2>10. CASE FailureWrite
    BY <2>10 DEF FailureWrite
  <2>. QED BY <1>2, <2>1, <2>2, <2>3, <2>4, <2>5, <2>6, <2>7, <2>8, <2>9, <2>10 DEF Generation
<1>3. CASE \E q \in Requests, run \in BOOLEAN : Approve(q, run)
  BY <1>3 DEF Approve
<1>4. CASE \E q \in Requests : Approval(q)
  <2>. PICK q \in Requests : Approval(q)
    BY <1>4
  <2>1. CASE WriteModels(q)
    BY <2>1 DEF WriteModels
  <2>2. CASE RecordOpen(q)
    BY <2>2 DEF RecordOpen
  <2>3. CASE RecordWrite(q)
    BY <2>3 DEF RecordWrite
  <2>4. CASE MarkOpen(q)
    BY <2>4 DEF MarkOpen
  <2>5. CASE MarkWrite(q)
    BY <2>5 DEF MarkWrite
  <2>6. CASE Execute(q)
    BY <2>6 DEF Execute
  <2>7. CASE ReportOpen(q)
    BY <2>7 DEF ReportOpen
  <2>8. CASE BlameOpen(q)
    BY <2>8 DEF BlameOpen
  <2>9. CASE ReportWrite(q)
    BY <2>9 DEF ReportWrite
  <2>. QED BY <2>1, <2>2, <2>3, <2>4, <2>5, <2>6, <2>7, <2>8, <2>9 DEF Approval
<1>5. CASE Restart
  BY <1>5 DEF Restart
<1>6. CASE UNCHANGED vars
  BY <1>6 DEF vars
<1>. QED BY <1>1, <1>2, <1>3, <1>4, <1>5, <1>6 DEF Next

-----------------------------------------------------------------------------
(* The generator *)

\* A step of the generator that leaves nothing but young jobs keeps the invariant.
LEMMA YoungStep ==
    ASSUME CpInv, CpTypeOK',
           pc[Generator] \notin {"ended", "lost"},
           NEW l, To(Generator, l),
           UNCHANGED <<runs, outcome>>,
           written' \cap Requests = {},
           Generator \in written' => inline' /\ l # "idle",
           l \in {"checkpointed", "closing"} => cp' = "saved",
           Young(file'), \A p \in Procs : Young(snap'[p])
    PROVE  CpInv'
<1>1. \A q \in Requests : pc'[q] = pc[q] /\ pc'[q] \in {"idle", "ended", "lost"}
  BY CheckpointAssumption DEF CpInv, GeneratorInv, CpTypeOK, To, Procs
<1>2. pc'[Generator] = l
  BY DEF CpInv, CpTypeOK, To, Procs
<1>3. Sound(file)' /\ (\A p \in Procs : Sound(snap[p]))'
  BY DEF Young, Sound, Final
<1>4. GeneratorInv'
  BY <1>1, <1>2 DEF GeneratorInv
<1>5. (\A q \in Requests : RequestInv(q))'
  BY <1>1 DEF RequestInv, Deciding, Writing, Recorded, Launched
<1>6. RunningInv' /\ SoloInv'
  BY <1>1 DEF RunningInv, SoloInv, Finds, Young
<1>. QED BY <1>3, <1>4, <1>5, <1>6 DEF CpInv

\* What the generator saves and loads stays young while it works.
LEMMA YoungJobs ==
    /\ \A t \in {"empty", "mixed", "whole"} : Young(Unreadable(t))
    /\ Young(JobOf("RUNNING", TRUE, FALSE, "none"))
    /\ Young(file) => Young(Load)
    /\ \A job : Young(job) => Young(WithStatus(job, "FAILED"))
BY DEF Young, Unreadable, JobOf, Load, WithStatus

LEMMA GeneratorStep ==
    ASSUME CpInv, CpTypeOK', Generation \/ \E approve \in BOOLEAN : Start(approve)
    PROVE  CpInv'
<1>. USE DEF CpInv
<1>1. pc[Generator] \notin {"ended", "lost"}
  BY DEF Generation, Start, ProgressOpen, ProgressWrite, Generated, GenerationRaises,
         CheckpointOpen, CheckpointWrite, SuccessOpen, SuccessWrite, FailureOpen, FailureWrite
<1>2. /\ Young(file) /\ \A p \in Procs : Young(snap[p])
      /\ written \cap Requests = {}
      /\ Generator \in Procs /\ Generator \notin Requests
  BY <1>1, CheckpointAssumption DEF GeneratorInv, Procs
<1>3. CASE \E approve \in BOOLEAN : Start(approve)
  <2>1. Young(file') /\ \A p \in Procs : Young(snap'[p])
    BY <1>2, <1>3, YoungJobs DEF Start
  <2>. QED BY <1>1, <1>2, <1>3, <2>1, YoungStep DEF Start, GeneratorInv
<1>4. CASE ProgressOpen
  <2>1. Young(file') /\ \A p \in Procs : Young(snap'[p])
    BY <1>2, <1>4, YoungJobs DEF ProgressOpen, Truncate, NotSaved, CpTypeOK
  <2>2. To(Generator, "counting") \/ To(Generator, "generating")
    BY <1>4 DEF ProgressOpen, To, CpTypeOK
  <2>. QED BY <1>1, <1>2, <1>4, <2>1, <2>2, YoungStep DEF ProgressOpen, GeneratorInv
<1>5. CASE ProgressWrite
  <2>1. Young(file') /\ \A p \in Procs : Young(snap'[p])
    BY <1>2, <1>5, YoungJobs DEF ProgressWrite, Fill, NotSaved, CpTypeOK
  <2>. QED BY <1>1, <1>2, <1>5, <2>1, YoungStep DEF ProgressWrite, GeneratorInv
<1>6. CASE Generated
  <2>1. Young(file') /\ \A p \in Procs : Young(snap'[p])
    BY <1>2, <1>6, YoungJobs DEF Generated, CpTypeOK
  <2>. QED BY <1>1, <1>2, <1>6, <2>1, YoungStep DEF Generated, GeneratorInv
<1>7. CASE GenerationRaises
  <2>1. Young(file') /\ \A p \in Procs : Young(snap'[p])
    BY <1>2, <1>7, YoungJobs DEF GenerationRaises, CpTypeOK
  <2>. QED BY <1>1, <1>2, <1>7, <2>1, YoungStep DEF GenerationRaises, GeneratorInv
<1>8. CASE CheckpointOpen
  <2>1. Young(file') /\ \A p \in Procs : Young(snap'[p])
    BY <1>2, <1>8, YoungJobs DEF CheckpointOpen, CpTypeOK
  <2>. QED BY <1>1, <1>2, <1>8, <2>1, YoungStep DEF CheckpointOpen, GeneratorInv
<1>9. CASE CheckpointWrite
  <2>1. Young(file') /\ \A p \in Procs : Young(snap'[p])
    BY <1>2, <1>9, YoungJobs DEF CheckpointWrite, CpTypeOK
  <2>. QED BY <1>1, <1>2, <1>9, <2>1, YoungStep DEF CheckpointWrite, GeneratorInv
<1>10. CASE SuccessOpen
  <2>1. Young(file') /\ \A p \in Procs : Young(snap'[p])
    BY <1>2, <1>10, YoungJobs DEF SuccessOpen, Truncate, NotSaved, CpTypeOK
  <2>. QED BY <1>1, <1>2, <1>10, <2>1, YoungStep DEF SuccessOpen, GeneratorInv
<1>11. CASE FailureOpen
  <2>1. Young(file') /\ \A p \in Procs : Young(snap'[p])
    BY <1>2, <1>11, YoungJobs DEF FailureOpen, Truncate, NotSaved, CpTypeOK
  <2>. QED BY <1>1, <1>2, <1>11, <2>1, YoungStep DEF FailureOpen, GeneratorInv
<1>12. CASE FailureWrite
  <2>1. Young(file') /\ \A p \in Procs : Young(snap'[p])
    BY <1>2, <1>12, YoungJobs DEF FailureWrite, Fill, NotSaved, CpTypeOK
  <2>. QED BY <1>1, <1>2, <1>12, <2>1, YoungStep DEF FailureWrite, GeneratorInv
<1>13. CASE SuccessWrite
  <2>. DEFINE shown == WithStatus(snap[Generator], "SUCCESS")
  <2>1. CASE NotSaved /\ To(Generator, "raised")
    <3>1. Young(file') /\ \A p \in Procs : Young(snap'[p])
      BY <1>2, <1>13, <2>1 DEF SuccessWrite, NotSaved
    <3>. QED BY <1>1, <1>2, <1>13, <2>1, <3>1, YoungStep DEF SuccessWrite, GeneratorInv
  <2>2. CASE Fill(shown) /\ To(Generator, "ended")
    <3>1. /\ cp' = cp /\ cp = "saved" /\ written' = written /\ snap' = snap
          /\ inline' = inline /\ outcome' = outcome
          /\ pc'[Generator] = "ended"
          /\ \A q \in Requests : pc'[q] = pc[q] /\ pc[q] \in {"idle", "ended", "lost"}
      BY <1>1, <1>2, <1>13, <2>2 DEF SuccessWrite, GeneratorInv, CpTypeOK, To, Procs
    <3>2. file' = shown \/ file' = Unreadable("mixed")
      BY <2>2 DEF Fill
    <3>3. file'.exec = "none" /\ ~file'.approved
      BY <1>2, <3>2 DEF WithStatus, JobOf, Unreadable, Young
    <3>4. Sound(file)' /\ (\A p \in Procs : Sound(snap[p]))'
      BY <1>2, <3>1, <3>3 DEF Sound, Young, Final
    <3>5. GeneratorInv' /\ RunningInv'
      BY <1>1, <3>1, <3>3 DEF GeneratorInv, RunningInv
    <3>6. (\A q \in Requests : RequestInv(q))' /\ SoloInv'
      BY <3>1 DEF RequestInv, SoloInv, Finds, Deciding, Writing, Recorded, Launched
    <3>. QED BY <3>1, <3>4, <3>5, <3>6
  <2>. QED BY <1>13, <2>1, <2>2 DEF SuccessWrite
<1>. QED BY <1>3, <1>4, <1>5, <1>6, <1>7, <1>8, <1>9, <1>10, <1>11, <1>12, <1>13 DEF Generation

-----------------------------------------------------------------------------
(* The requests *)

\* A request acts when the generator is done.
LEMMA GeneratorIsDone ==
    ASSUME CpInv, NEW q \in Requests,
           pc[q] \notin {"idle", "ended", "lost"} \/ file.status = "SUCCESS"
    PROVE  pc[Generator] \in {"ended", "lost"} /\ q # Generator
BY CheckpointAssumption DEF CpInv, GeneratorInv, Young

\* What a step of one request has to show, for the others are where they were.
LEMMA RequestStep ==
    ASSUME CpInv, CpTypeOK', NEW q \in Requests,
           pc[Generator] \in {"ended", "lost"}, pc[q] \notin {"ended", "unreported"},
           NEW l, To(q, l), l # "idle", UNCHANGED <<inline, cp>>,
           written' = written \/ (written' = written \cup {q} /\ cp = "saved"),
           \A r \in Requests \ {q} : outcome'[r] = outcome[r],
           \A p \in Procs \ {q} : snap'[p] = snap[p],
           faulty => faulty',
           file' = file \/ (file'.status = "SUCCESS" => file'.approved),
           file'.exec = "RUNNING" =>
               \/ l \in {"executing", "executed", "broken", "unreported"}
               \/ file' = file /\ pc[q] \notin {"executing", "executed", "broken", "lost"},
           Sound(file)', Sound(snap[q])', RequestInv(q)',
           Undisturbed /\ ~faulty' => Finds(q)'
    PROVE  CpInv'
<1>. USE DEF CpInv
<1>1. /\ pc'[q] = l /\ pc'[Generator] = pc[Generator]
      /\ \A r \in Requests \ {q} : pc'[r] = pc[r]
      /\ q \in Procs /\ Generator \notin Requests
  BY CheckpointAssumption DEF CpTypeOK, To, Procs
<1>2. (written \cap Requests # {} => cp = "saved")'
  OBVIOUS
<1>3. ASSUME NEW p \in Procs
      PROVE  Sound(snap[p])'
  <2>1. CASE p = q
    BY <2>1
  <2>2. CASE p # q
    <3>1. snap'[p] = snap[p] /\ Sound(snap[p])
      BY <2>2
    <3>2. \A r \in Requests : pc[r] = "ended" => pc'[r] = "ended" /\ outcome'[r] = outcome[r]
      BY <1>1
    <3>. QED BY <3>1, <3>2 DEF Sound
  <2>. QED BY <2>1, <2>2
<1>4. GeneratorInv'
  BY <1>1 DEF GeneratorInv
<1>5. ASSUME NEW r \in Requests
      PROVE  RequestInv(r)'
  <2>1. CASE r = q
    BY <2>1
  <2>2. CASE r # q
    <3>1. RequestInv(r) /\ pc'[r] = pc[r] /\ snap'[r] = snap[r] /\ outcome'[r] = outcome[r]
      BY <1>1, <2>2 DEF Procs
    <3>. QED BY <3>1 DEF RequestInv
  <2>. QED BY <2>1, <2>2
<1>6. RunningInv'
  BY <1>1 DEF RunningInv
<1>7. SoloInv'
  <2>. SUFFICES ASSUME Undisturbed', NEW r \in Requests
                PROVE  Finds(r)'
    BY DEF SoloInv
  <2>1. Undisturbed
    BY <1>1 DEF Undisturbed
  <2>2. CASE r = q
    BY <2>1, <2>2 DEF Undisturbed
  <2>3. CASE r # q
    BY <1>1, <2>3 DEF Undisturbed, Finds
  <2>. QED BY <2>2, <2>3
<1>. QED BY <1>2, <1>3, <1>4, <1>5, <1>6, <1>7

\* What was true of a job stays true while a request moves on.
LEMMA SoundKept ==
    ASSUME CpTypeOK, NEW q \in Requests, pc[q] # "ended", NEW l, To(q, l), UNCHANGED cp,
           written' = written \/ written' = written \cup {q},
           \A r \in Requests \ {q} : outcome'[r] = outcome[r]
    PROVE  \A job : Sound(job) => Sound(job)'
<1>1. \A r \in Requests : pc[r] = "ended" => pc'[r] = "ended" /\ outcome'[r] = outcome[r]
  BY DEF CpTypeOK, To, Procs
<1>. QED BY <1>1 DEF Sound

\* What a request loads is as sound as the file, and what it leaves open claims nothing.
LEMMA SoundLoad == Sound(file) => Sound(Load)
BY DEF Sound, Load, JobOf

LEMMA SoundUnreadable ==
    \A t : Sound(Unreadable(t)) /\ Unreadable(t).exec = "none"
           /\ Unreadable(t).status = "none" /\ Unreadable(t).text = t
BY DEF Sound, Unreadable, Final

\* The checks.
LEMMA ApproveStep ==
    ASSUME CpInv, CpTypeOK', NEW q \in Requests, NEW run \in BOOLEAN, Approve(q, run)
    PROVE  CpInv'
<1>. USE DEF Approve
<1>1. pc[Generator] \in {"ended", "lost"}
  BY GeneratorIsDone
<1>2. q \in Procs /\ pc'[q] = "approved" /\ snap'[q] = Load
      /\ \A p \in Procs \ {q} : snap'[p] = snap[p]
  BY DEF CpInv, CpTypeOK, To, Procs
<1>3. Sound(file)' /\ Sound(snap[q])'
  <2>1. Sound(file) /\ Sound(Load)
    BY SoundLoad DEF CpInv
  <2>2. \A job : Sound(job) => Sound(job)'
    BY SoundKept DEF CpInv
  <2>. QED BY <1>2, <2>1, <2>2 DEF Sound
<1>4. RequestInv(q)' /\ Finds(q)'
  <2>1. Load.status = "SUCCESS" /\ Load.args /\ Load.exec = "none"
    BY DEF CpInv, Sound, Load, JobOf
  <2>. QED BY <1>2, <2>1 DEF RequestInv, Finds, Deciding, Writing, Recorded, Launched
<1>. QED BY <1>1, <1>2, <1>3, <1>4, RequestStep

LEMMA WriteModelsStep ==
    ASSUME CpInv, CpTypeOK', NEW q \in Requests, WriteModels(q)
    PROVE  CpInv'
<1>. USE DEF WriteModels, Failing
<1>. PICK l \in {"wrote", "ended"} : To(q, l)
  OBVIOUS
<1>1. pc[Generator] \in {"ended", "lost"} /\ cp = "saved"
  BY GeneratorIsDone DEF CpInv, RequestInv, Deciding
<1>2. q \in Procs /\ pc'[q] = l
  BY DEF CpInv, CpTypeOK, To, Procs
<1>3. Sound(file)' /\ Sound(snap[q])'
  <2>1. Sound(file) /\ Sound(snap[q])
    BY <1>2 DEF CpInv
  <2>2. \A job : Sound(job) => Sound(job)'
    BY SoundKept DEF CpInv
  <2>. QED BY <2>1, <2>2 DEF Sound
<1>4. RequestInv(q)' /\ Finds(q)'
  BY <1>1, <1>2 DEF CpInv, RequestInv, Finds, Deciding, Writing, Recorded, Launched, To
<1>. QED BY <1>1, <1>2, <1>3, <1>4, RequestStep

LEMMA OpenStep ==
    ASSUME CpInv, CpTypeOK', NEW q \in Requests,
           RecordOpen(q) \/ MarkOpen(q) \/ ReportOpen(q) \/ BlameOpen(q)
    PROVE  CpInv'
<1>. USE DEF RecordOpen, MarkOpen, ReportOpen, BlameOpen
<1>. PICK l \in {"recording", "marking", "reporting", "blaming", "ended", "broken",
                 "unreported"} : To(q, l)
  OBVIOUS
<1>1. pc[Generator] \in {"ended", "lost"} /\ RequestInv(q)
  BY GeneratorIsDone DEF CpInv
<1>2. /\ q \in Procs /\ pc'[q] = l
      /\ IF RecordOpen(q) THEN snap' = snap ELSE snap'[q] = Load
      /\ \A p \in Procs \ {q} : snap'[p] = snap[p]
      /\ \A r \in Requests \ {q} : outcome'[r] = outcome[r]
      /\ outcome'[q] \in {outcome[q], "FAILED"}
  BY DEF CpInv, CpTypeOK, To, Procs
<1>3. \/ file' = Unreadable("empty") /\ l \in {"recording", "marking", "reporting", "blaming"}
      \/ file' = file /\ faulty' /\ l \in {"ended", "broken", "unreported"}
  BY <1>2 DEF Truncate, NotSaved, Failing, CpInv, CpTypeOK, To
<1>4. Sound(file)' /\ Sound(snap[q])'
  <2>1. Sound(Unreadable("empty")) /\ Sound(Load) /\ Sound(snap[q]) /\ Sound(file)
    BY <1>2, SoundLoad, SoundUnreadable DEF CpInv
  <2>2. \A job : Sound(job) => Sound(job)'
    BY <1>2, SoundKept DEF CpInv
  <2>. QED BY <1>2, <1>3, <2>1, <2>2 DEF Sound
<1>5. RequestInv(q)'
  <2>1. Load.status = file.status /\ Load.approved = file.approved
    BY DEF Load, JobOf
  <2>2. CASE file' = Unreadable("empty")
    BY <1>1, <1>2, <1>3, <2>1, <2>2, SoundUnreadable
       DEF RequestInv, Deciding, Writing, Recorded, Launched, Final, To
  <2>3. CASE file' = file /\ l \in {"ended", "broken", "unreported"}
    BY <1>1, <1>2, <2>3 DEF RequestInv, Deciding, Writing, Recorded, Launched, Final, To
  <2>. QED BY <1>3, <2>2, <2>3
<1>6. Undisturbed /\ ~faulty' => Finds(q)'
  <2>1. Undisturbed => Finds(q)
    BY DEF CpInv, SoloInv
  <2>2. Whole(file) => Whole(Load)
    BY DEF Whole, Load, JobOf
  <2>. QED BY <1>2, <1>3, <2>1, <2>2, SoundUnreadable DEF Finds, To
<1>7. file'.exec = "RUNNING" =>
          \/ l \in {"executing", "executed", "broken", "unreported"}
          \/ file' = file /\ pc[q] \notin {"executing", "executed", "broken", "lost"}
  BY <1>2, <1>3, SoundUnreadable DEF To, CpInv, CpTypeOK
<1>8. file' = file \/ (file'.status = "SUCCESS" => file'.approved)
  BY <1>3, SoundUnreadable
<1>9. faulty => faulty'
  BY DEF Truncate, NotSaved, Failing
<1>10. pc[q] \notin {"ended", "unreported"} /\ UNCHANGED <<inline, cp, written>>
  OBVIOUS
<1>. QED BY <1>1, <1>2, <1>3, <1>4, <1>5, <1>6, <1>7, <1>8, <1>9, <1>10, RequestStep

\* What a request writes is the job it loaded, with what it has to say.
LEMMA Saved ==
    ASSUME NEW job, NEW ex
    PROVE  /\ WithApproval(job).status = job.status
           /\ WithApproval(job).args = job.args
           /\ WithApproval(job).exec = job.exec
           /\ WithApproval(job).approved
           /\ WithExec(job, ex).status = job.status
           /\ WithExec(job, ex).args = job.args
           /\ WithExec(job, ex).approved = job.approved
           /\ WithExec(job, ex).exec = ex
BY DEF WithApproval, WithExec, JobOf

LEMMA RecordWriteStep ==
    ASSUME CpInv, CpTypeOK', NEW q \in Requests, RecordWrite(q)
    PROVE  CpInv'
<1>. USE DEF RecordWrite, NotSaved, Failing, Fill
<1>. PICK l \in {"recorded", "ended"} : To(q, l)
  OBVIOUS
<1>1. pc[Generator] \in {"ended", "lost"} /\ RequestInv(q)
  BY GeneratorIsDone DEF CpInv
<1>2. q \in Procs /\ pc'[q] = l /\ snap' = snap
  BY DEF CpInv, CpTypeOK, To, Procs
<1>3. file' \in {file, WithApproval(snap[q]), Unreadable("mixed")}
  OBVIOUS
<1>4. /\ cp = "saved" /\ q \in written
      /\ snap[q].status = "SUCCESS" /\ snap[q].args /\ snap[q].exec = "none"
  BY <1>1 DEF RequestInv, Deciding, Writing
<1>5. Sound(file)' /\ Sound(snap[q])'
  <2>1. Sound(file) /\ Sound(snap[q]) /\ Sound(Unreadable("mixed"))
    BY <1>2, SoundUnreadable DEF CpInv
  <2>2. Sound(WithApproval(snap[q]))
    BY <1>4, Saved DEF Sound, Final
  <2>3. \A job : Sound(job) => Sound(job)'
    BY SoundKept DEF CpInv
  <2>. QED BY <1>2, <1>3, <2>1, <2>2, <2>3 DEF Sound
<1>6. l = "recorded" /\ file'.status = "SUCCESS" => file'.approved
  BY <1>2, Saved, SoundUnreadable DEF To
<1>7. RequestInv(q)'
  BY <1>2, <1>4, <1>6 DEF RequestInv, Deciding, Writing, Recorded, Launched
<1>8. Undisturbed /\ ~faulty' => Finds(q)'
  <2>1. Undisturbed => file.text = "empty"
    BY DEF CpInv, SoloInv, Finds
  <2>. QED BY <1>2, <1>4, <2>1, Saved DEF Finds, Whole
<1>9. file' = file \/ (file'.exec = "none" /\ (file'.status = "SUCCESS" => file'.approved))
  <2>1. WithApproval(snap[q]).exec = "none" /\ WithApproval(snap[q]).approved
    BY <1>4, Saved
  <2>2. Unreadable("mixed").exec = "none" /\ Unreadable("mixed").status = "none"
    BY SoundUnreadable
  <2>. QED BY <1>3, <2>1, <2>2
<1>. QED BY <1>1, <1>5, <1>7, <1>8, <1>9, RequestStep

LEMMA MarkWriteStep ==
    ASSUME CpInv, CpTypeOK', NEW q \in Requests, MarkWrite(q)
    PROVE  CpInv'
<1>. USE DEF MarkWrite, NotSaved, Failing, Fill
<1>. PICK l \in {"executing", "ended"} : To(q, l)
  OBVIOUS
<1>1. pc[Generator] \in {"ended", "lost"} /\ RequestInv(q)
  BY GeneratorIsDone DEF CpInv
<1>2. q \in Procs /\ pc'[q] = l /\ snap' = snap
  BY DEF CpInv, CpTypeOK, To, Procs
<1>3. \/ file' = file /\ faulty' /\ l = "ended"
      \/ file' \in {WithExec(snap[q], "RUNNING"), Unreadable("mixed")} /\ l = "executing"
  BY <1>2 DEF CpInv, CpTypeOK, To
<1>4. /\ cp = "saved" /\ q \in written
      /\ snap[q].status = "SUCCESS" => snap[q].approved
  BY <1>1 DEF RequestInv, Deciding, Writing, Recorded
<1>5. Sound(file)' /\ Sound(snap[q])'
  <2>1. Sound(file) /\ Sound(snap[q]) /\ Sound(Unreadable("mixed"))
    BY <1>2, SoundUnreadable DEF CpInv
  <2>2. Sound(WithExec(snap[q], "RUNNING"))
    BY <1>4, <2>1, Saved DEF Sound, Final
  <2>3. \A job : Sound(job) => Sound(job)'
    BY SoundKept DEF CpInv
  <2>. QED BY <1>2, <1>3, <2>1, <2>2, <2>3 DEF Sound
<1>6. file' = file \/ (file'.status = "SUCCESS" => file'.approved)
  BY <1>3, <1>4, Saved, SoundUnreadable
<1>7. RequestInv(q)'
  BY <1>2, <1>3, <1>4, <1>6, Saved, SoundUnreadable
     DEF RequestInv, Deciding, Writing, Recorded, Launched
<1>8. Undisturbed /\ ~faulty' => Finds(q)'
  <2>1. Undisturbed => file.text = "empty" /\ Whole(snap[q])
    BY DEF CpInv, SoloInv, Finds
  <2>. QED BY <1>2, <1>3, <2>1, Saved DEF Finds, Whole
<1>. QED BY <1>1, <1>3, <1>5, <1>6, <1>7, <1>8, RequestStep

LEMMA ExecuteStep ==
    ASSUME CpInv, CpTypeOK', NEW q \in Requests, Execute(q)
    PROVE  CpInv'
<1>. USE DEF Execute
<1>. PICK l \in {"executed", "broken"} : To(q, l)
  OBVIOUS
<1>1. pc[Generator] \in {"ended", "lost"} /\ RequestInv(q)
  BY GeneratorIsDone DEF CpInv
<1>2. /\ q \in Procs /\ pc'[q] = l /\ outcome'[q] \in Final
      /\ \A r \in Requests \ {q} : outcome'[r] = outcome[r]
  BY DEF CpInv, CpTypeOK, To, Procs, Final
<1>3. Sound(file)' /\ Sound(snap[q])'
  <2>1. Sound(file) /\ Sound(snap[q])
    BY <1>2 DEF CpInv
  <2>2. \A job : Sound(job) => Sound(job)'
    BY <1>2, SoundKept DEF CpInv
  <2>. QED BY <2>1, <2>2 DEF Sound
<1>4. RequestInv(q)' /\ (Undisturbed => Finds(q)')
  BY <1>1, <1>2 DEF CpInv, SoloInv, Finds, RequestInv, Deciding, Writing, Recorded, Launched
<1>. QED BY <1>1, <1>2, <1>3, <1>4, RequestStep

LEMMA ReportWriteStep ==
    ASSUME CpInv, CpTypeOK', NEW q \in Requests, ReportWrite(q)
    PROVE  CpInv'
<1>. USE DEF ReportWrite, NotSaved, Failing, Fill
<1>. PICK l \in {"broken", "ended"} : To(q, l)
  OBVIOUS
<1>1. pc[Generator] \in {"ended", "lost"} /\ RequestInv(q)
  BY GeneratorIsDone DEF CpInv
<1>2. /\ q \in Procs /\ pc'[q] = l /\ snap' = snap
      /\ \A r \in Requests \ {q} : outcome'[r] = outcome[r]
  BY DEF CpInv, CpTypeOK, To, Procs
<1>3. \/ file' = file /\ faulty' /\ outcome'[q] = "FAILED"
      \/ /\ file' \in {WithExec(snap[q], outcome[q]), Unreadable("mixed")}
         /\ l = "ended" /\ outcome' = outcome
  BY <1>2 DEF CpInv, CpTypeOK, To
<1>4. /\ cp = "saved" /\ q \in written /\ outcome[q] \in Final
      /\ snap[q].status = "SUCCESS" => snap[q].approved
  BY <1>1 DEF RequestInv, Deciding, Writing, Launched
<1>5. Sound(file)' /\ Sound(snap[q])'
  <2>1. Sound(file) /\ Sound(snap[q]) /\ Sound(Unreadable("mixed"))
    BY <1>2, SoundUnreadable DEF CpInv
  <2>2. \A job : Sound(job) => Sound(job)'
    BY <1>2, SoundKept DEF CpInv
  <2>3. CASE file' = WithExec(snap[q], outcome[q]) /\ l = "ended" /\ outcome' = outcome
    BY <1>2, <1>4, <2>1, <2>2, <2>3, Saved DEF Sound
  <2>. QED BY <1>2, <1>3, <2>1, <2>2, <2>3 DEF Sound
<1>6. file' = file \/ (file'.exec # "RUNNING" /\ (file'.status = "SUCCESS" => file'.approved))
  BY <1>3, <1>4, Saved, SoundUnreadable DEF Final
<1>7. RequestInv(q)'
  BY <1>1, <1>2, <1>3, <1>4 DEF RequestInv, Deciding, Writing, Recorded, Launched, Final
<1>8. Undisturbed /\ ~faulty' => Finds(q)'
  BY <1>2, <1>3 DEF Finds
<1>. QED BY <1>1, <1>2, <1>5, <1>6, <1>7, <1>8, RequestStep

-----------------------------------------------------------------------------
(* All of it *)

\* The loss of the process takes every claim about a process away, and no claim about a file.
LEMMA RestartStep ==
    ASSUME CpInv, CpTypeOK', Restart
    PROVE  CpInv'
<1>. USE DEF Restart
<1>1. /\ \A p \in Procs : pc'[p] = IF pc[p] \in {"idle", "ended", "unreported"}
                                    THEN pc[p] ELSE "lost"
      /\ Generator \in Procs /\ \A q \in Requests : q \in Procs
  BY DEF CpInv, CpTypeOK, Procs
<1>2. Sound(file)' /\ (\A p \in Procs : Sound(snap[p]))'
  BY <1>1 DEF CpInv, Sound
<1>3. GeneratorInv'
  BY <1>1 DEF CpInv, GeneratorInv
<1>4. (\A q \in Requests : RequestInv(q))'
  BY <1>1 DEF RequestInv, Deciding, Writing, Recorded, Launched
<1>5. RunningInv' /\ SoloInv'
  BY <1>1 DEF CpInv, RunningInv, SoloInv, Finds
<1>. QED BY <1>2, <1>3, <1>4, <1>5 DEF CpInv

LEMMA CpInvInductive ==
    /\ Init => CpInv
    /\ CpInv /\ [Next]_vars => CpInv'
<1>1. ASSUME Init
      PROVE  CpInv
  <2>. USE <1>1 DEF Init
  <2>1. CpTypeOK
    BY JobsAreMade, CheckpointAssumption DEF CpTypeOK, Procs
  <2>2. Young(file) /\ \A p \in Procs : Young(snap[p])
    BY YoungJobs
  <2>3. Sound(file) /\ \A p \in Procs : Sound(snap[p])
    BY SoundUnreadable
  <2>4. GeneratorInv /\ (\A q \in Requests : RequestInv(q)) /\ RunningInv /\ SoloInv
    BY <2>2 DEF Procs, Young, GeneratorInv, RequestInv, RunningInv, SoloInv, Finds,
                Deciding, Writing, Recorded, Launched
  <2>. QED BY <2>1, <2>3, <2>4 DEF CpInv
<1>2. ASSUME CpInv, [Next]_vars
      PROVE  CpInv'
  <2>1. CpTypeOK'
    BY <1>2, TypesKept DEF CpInv
  <2>2. CASE Generation \/ \E approve \in BOOLEAN : Start(approve)
    BY <1>2, <2>1, <2>2, GeneratorStep
  <2>3. CASE \E q \in Requests, run \in BOOLEAN : Approve(q, run)
    BY <1>2, <2>1, <2>3, ApproveStep
  <2>4. CASE \E q \in Requests : Approval(q)
    BY <1>2, <2>1, <2>4, WriteModelsStep, OpenStep, RecordWriteStep, MarkWriteStep,
       ExecuteStep, ReportWriteStep DEF Approval
  <2>5. CASE Restart
    BY <1>2, <2>1, <2>5, RestartStep
  <2>6. CASE UNCHANGED vars
    BY <1>2, <2>6 DEF vars, CpInv, CpTypeOK, Sound, Young, GeneratorInv, RequestInv,
       RunningInv, SoloInv, Undisturbed, Finds, Whole, Procs
  <2>. QED BY <1>2, <2>2, <2>3, <2>4, <2>5, <2>6 DEF Next
<1>. QED BY <1>1, <1>2

LEMMA CpInvHolds == SafeSpec => []CpInv
BY CpInvInductive, PTL DEF SafeSpec

\* The job file, the checkpoint and what each request holds keep their types, for any set of
\* requests and through failing writes and restarts (save_job, approve_checkpoint_a_for_job).
THEOREM TypesHold == SafeSpec => []CpTypeOK
<1>1. CpInv => CpTypeOK
  BY DEF CpInv
<1>. QED BY <1>1, CpInvHolds, PTL

\* A job shown as SUCCESS has its whole checkpoint: the worker saves the checkpoint
\* before the status, and nobody who saves an old job brings a status back.
THEOREM SuccessHasCheckpointHolds == SafeSpec => []SuccessHasCheckpoint
<1>1. CpInv => SuccessHasCheckpoint
  BY DEF CpInv, Sound, SuccessHasCheckpoint
<1>. QED BY <1>1, CpInvHolds, PTL

\* No model file without a request to write it, no execution and no recorded approval
\* without model files.
THEOREM GatedWritesHolds == SafeSpec => []GatedWrites
<1>1. CpInv => GatedWrites
  BY DEF CpInv, Sound, GeneratorInv, RequestInv, Writing, GatedWrites
<1>. QED BY <1>1, CpInvHolds, PTL

\* The execution status of a job is one that an execution has reported, or RUNNING of an
\* execution that runs, was lost, or could not open the file to report, twice.
THEOREM HonestExecutionHolds == SafeSpec => []HonestExecution
<1>1. CpInv => HonestExecution
  BY DEF CpInv, Sound, RunningInv, Launched, HonestExecution
<1>. QED BY <1>1, CpInvHolds, PTL

\* Without failing writes and concurrent approvals, a job that can be read keeps the
\* approval that was recorded and what the generation saved.
THEOREM ApprovalRecordedHolds == SafeSpec => []ApprovalRecorded
<1>1. CpInv => ApprovalRecorded
  <2>. SUFFICES ASSUME CpInv, Undisturbed, file.text = "whole",
                       NEW q \in Requests, pc[q] \in Recorded \cup Launched
                PROVE  file.approved /\ file.args /\ file.status = "SUCCESS"
    BY DEF ApprovalRecorded
  <2>1. Finds(q)
    BY DEF CpInv, SoloInv
  <2>. QED BY <2>1 DEF Finds, Whole, Recorded, Launched
<1>. QED BY <1>1, CpInvHolds, PTL

=============================================================================
