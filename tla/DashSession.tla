-------------------------------- MODULE DashSession --------------------------------
(* One browser session of the Streamlit dashboard around bulk migration: every click  *)
(* reruns the whole page from the top (completion of the bulk job, the Bulk tab, then  *)
(* the Tables and review tabs), while the bulk worker thread changes the job.          *)
EXTENDS Naturals, FiniteSets

CONSTANTS
  DbTables,     \* tables the gate puts in the green queue unless a mapping was rejected
  DbJobs,       \* identifiers a session can give to the bulk jobs it starts
  DbMaxClicks   \* bound: clicks of the session

ASSUME DbAssumption == DbMaxClicks \in Nat /\ "none" \notin DbJobs

DbClicks == [on: {"bulk"}, act: {"propose", "approve", "fix", "reject", "start"}, table: DbTables]
            \union [on: {"rest"}, act: {"propose", "approve", "fix", "reject", "refuse"}, table: DbTables]
            \union [on: {"bulk"}, act: {"clear", "none"}, table: {"-"}]

VARIABLES
  dbRun,        \* the page run: where it is and the click it serves (none: an idle page)
  dbClicks,     \* clicks so far
  dbCurrent,    \* bulk_job_id: the session's job, "none"
  dbJob,        \* _BULK_JOBS: job -> its status, tables, success, and whether it was dropped
  dbMigrated,   \* migrated_tables
  dbPending,    \* table -> pending_write: "none", "shown", or "fix" with a stored correction
  dbRejected,   \* tables with a rejected mapping in hitl.json
  dbGreen,      \* the cached scale result: its green tables, or {"unset"}
  dbIgnored     \* clicks the page run ended without serving

dbVars == <<dbRun, dbClicks, dbCurrent, dbJob, dbMigrated, dbPending, dbRejected, dbGreen, dbIgnored>>

DbIdle == [pc |-> "idle", click |-> [on |-> "bulk", act |-> "none", table |-> "-"]]
DbLive(job) == dbJob[job].status \in {"queued", "running"}
DbSucceeded(job) == dbJob[job].success
DbRemaining == dbGreen \ dbMigrated

DbInit ==
  /\ dbRun = DbIdle /\ dbClicks = 0 /\ dbCurrent = "none"
  /\ dbJob = [j \in DbJobs |-> [status |-> "free", tables |-> {}, success |-> {}]]
  /\ dbMigrated = {} /\ dbPending = [t \in DbTables |-> "none"]
  /\ dbRejected = {} /\ dbGreen = {"unset"} /\ dbIgnored = {}

\* A button is served where it was drawn: a table that left the page has none.
DbDrawn(click) ==
  CASE click.act = "propose" -> click.table \in DbRemaining
    [] click.act \in {"approve", "reject", "fix"} ->
         /\ dbPending[click.table] \in (IF click.act = "fix" THEN {"fix"} ELSE {"shown", "fix"})
         /\ click.on = "bulk" => click.table \in DbRemaining
    [] click.act = "start" ->
         click.table \in DbRemaining /\ \E j \in DbJobs : dbJob[j].status = "free"
    [] click.act = "refuse" -> click.table \notin dbRejected
    [] click.act = "clear" -> dbCurrent # "none" /\ ~DbLive(dbCurrent)
    [] OTHER -> TRUE

\* The page reruns for a click, or on its own; its top applies a finished bulk job.
DbRerun ==
  /\ dbRun.pc = "idle" /\ dbClicks < DbMaxClicks
  /\ \E click \in DbClicks :
       /\ dbGreen = {"unset"} => click.act = "none"
       /\ dbGreen # {"unset"} => DbDrawn(click)
       /\ dbRun' = [pc |-> "tabs", click |-> click]
  /\ dbClicks' = dbClicks + 1
  /\ dbMigrated' = IF dbCurrent # "none" /\ dbJob[dbCurrent].status = "done"
                   THEN dbMigrated \union DbSucceeded(dbCurrent) ELSE dbMigrated
  /\ UNCHANGED <<dbCurrent, dbJob, dbPending, dbRejected, dbGreen, dbIgnored>>

\* The scale result is computed once per report and thresholds; a decision does not drop it.
DbScale == IF dbGreen = {"unset"} THEN DbTables \ dbRejected ELSE dbGreen

\* A proposal waits for approval, beside a fix that was stored before it; a migrated
\* table leaves nothing that waits.
DbQueued(t) ==
  /\ dbPending' = [dbPending EXCEPT ![t] = IF @ = "fix" THEN "fix" ELSE "shown"]
  /\ dbMigrated' = dbMigrated
DbMarked(t) ==
  /\ dbMigrated' = dbMigrated \union {t}
  /\ dbPending' = [dbPending EXCEPT ![t] = "none"]

\* A panel of pending write: propose shows it, approve writes and tests, reject drops it.
DbPanel(click) ==
  LET t == click.table IN
  \/ click.act = "propose" /\ DbQueued(t)
  \/ click.act = "reject" /\ dbMigrated' = dbMigrated
     /\ dbPending' = [dbPending EXCEPT ![t] = "none"]
  \/ click.act \in {"approve", "fix"} /\ DbMarked(t)   \* the dbt test passes
  \/ click.act = "approve"              \* it fails: a fix is stored
     /\ dbMigrated' = dbMigrated /\ dbPending' = [dbPending EXCEPT ![t] = "fix"]
  \/ click.act \in {"approve", "fix"}   \* the write fails, or the corrected SQL still does
     /\ UNCHANGED <<dbMigrated, dbPending>>

\* Bulk tab, first part: the panels of the green tables.
DbBulkPanels ==
  /\ dbRun.pc = "tabs" /\ dbGreen' = DbScale
  /\ IF dbRun.click.on = "bulk" /\ dbRun.click.act \in {"propose", "approve", "fix", "reject"}
        /\ DbDrawn(dbRun.click)
     THEN DbPanel(dbRun.click) ELSE UNCHANGED <<dbMigrated, dbPending>>
  /\ dbRun' = IF dbRun.click.on = "bulk" /\ dbRun.click.act \in {"propose", "fix"}
              THEN DbIdle ELSE [dbRun EXCEPT !.pc = "job"]   \* st.rerun after these
  /\ UNCHANGED <<dbClicks, dbCurrent, dbJob, dbRejected, dbIgnored>>

\* Bulk tab, the job: a live job makes the page sleep and rerun, and the rest of the
\* page is never reached.
DbWait ==
  /\ dbRun.pc = "job" /\ dbCurrent # "none" /\ DbLive(dbCurrent)
  /\ dbIgnored' = dbIgnored \union
       (IF dbRun.click.on = "rest" \/ dbRun.click.act = "start" THEN {dbRun.click.act} ELSE {})
  /\ dbRun' = DbIdle
  /\ UNCHANGED <<dbClicks, dbCurrent, dbJob, dbMigrated, dbPending, dbRejected, dbGreen>>

DbNotLive == ~(dbCurrent # "none" /\ DbLive(dbCurrent))

\* A finished job is shown and its successes are marked; Clear forgets it.
DbShownReliesOnTop == dbMigrated
DbShown ==
  IF dbCurrent # "none" /\ dbJob[dbCurrent].status = "done"
  THEN dbMigrated \union DbSucceeded(dbCurrent) ELSE dbMigrated

\* "Approve Selected" after CONFIRM: a job of remaining green tables, the clicked one among
\* them; the guard on a running job is passed because only a live job waits above.
DbStart ==
  /\ dbRun.pc = "job" /\ DbNotLive /\ dbRun.click.act = "start" /\ DbDrawn(dbRun.click)
  /\ \E j \in DbJobs, chosen \in SUBSET DbRemaining :
       /\ dbJob[j].status = "free" /\ dbRun.click.table \in chosen
       /\ dbJob' = [dbJob EXCEPT ![j] = [status |-> "queued", tables |-> chosen, success |-> {}]]
       /\ dbCurrent' = j
  /\ dbMigrated' = DbShown
  /\ dbRun' = DbIdle
  /\ UNCHANGED <<dbClicks, dbPending, dbRejected, dbGreen, dbIgnored>>

DbClear ==
  /\ dbRun.pc = "job" /\ DbNotLive /\ dbRun.click.act = "clear" /\ dbCurrent # "none"
  /\ dbMigrated' = DbShown
  /\ dbCurrent' = "none"
  /\ dbRun' = DbIdle
  /\ UNCHANGED <<dbClicks, dbJob, dbPending, dbRejected, dbGreen, dbIgnored>>

\* No live job and nothing of the job part clicked: on to the tabs below.
DbPass ==
  /\ dbRun.pc = "job" /\ DbNotLive
  /\ dbRun.click.act = "start" => ~DbDrawn(dbRun.click)
  /\ dbRun.click.act = "clear" => dbCurrent = "none"
  /\ dbMigrated' = DbShown
  /\ dbRun' = [dbRun EXCEPT !.pc = "rest"]
  /\ UNCHANGED <<dbClicks, dbCurrent, dbJob, dbPending, dbRejected, dbGreen, dbIgnored>>

\* Tables and review tabs.
DbRest ==
  /\ dbRun.pc = "rest"
  /\ IF dbRun.click.on = "rest" /\ dbRun.click.act # "refuse" /\ DbDrawn(dbRun.click)
     THEN DbPanel(dbRun.click) ELSE UNCHANGED <<dbMigrated, dbPending>>
  /\ dbRejected' = IF dbRun.click.act = "refuse" THEN dbRejected \union {dbRun.click.table}
                   ELSE dbRejected
  /\ dbRun' = DbIdle
  /\ UNCHANGED <<dbClicks, dbCurrent, dbJob, dbGreen, dbIgnored>>

\* The worker thread of a job (its steps are module BulkJob's).
DbWork ==
  /\ \E j \in DbJobs :
       \/ dbJob[j].status = "queued" /\ dbJob' = [dbJob EXCEPT ![j].status = "running"]
       \/ /\ dbJob[j].status = "running"
          /\ \E success \in SUBSET dbJob[j].tables :
               dbJob' = [dbJob EXCEPT ![j].status = "done", ![j].success = success]
       \/ dbJob[j].status = "running" /\ dbJob' = [dbJob EXCEPT ![j].status = "failed"]
  /\ UNCHANGED <<dbRun, dbClicks, dbCurrent, dbMigrated, dbPending, dbRejected, dbGreen, dbIgnored>>

DbNext ==
  DbRerun \/ DbBulkPanels \/ DbWait \/ DbStart \/ DbClear \/ DbPass \/ DbRest \/ DbWork

DbSpec == DbInit /\ [][DbNext]_dbVars

(* Each variable stays in its range. *)
DbTypeOK ==
  /\ dbRun.pc \in {"idle", "tabs", "job", "rest"} /\ dbRun.click \in DbClicks
  /\ dbCurrent \in DbJobs \union {"none"}
  /\ \A j \in DbJobs : /\ dbJob[j].status \in {"free", "queued", "running", "done", "failed"}
                       /\ dbJob[j].success \subseteq dbJob[j].tables
  /\ dbMigrated \subseteq DbTables /\ dbRejected \subseteq DbTables
  /\ dbPending \in [DbTables -> {"none", "shown", "fix"}]
  /\ dbGreen \subseteq DbTables \union {"unset"}

(* A session runs one bulk job at a time, although its guard looks only for a running *)
(* one, and it never lets go of a finished job before the tables that succeeded are   *)
(* marked as migrated, whenever between two looks at the job the worker ended it.     *)
DbBulkAccounted ==
  \A j \in DbJobs \ {dbCurrent} :
    ~DbLive(j) /\ (dbJob[j].status = "done" => DbSucceeded(j) \subseteq dbMigrated)

(* dashboard.py:4235: "Bulk migration started in background. You can keep reviewing    *)
(* other tables": a click of the Tables or review tab is served while a job runs.      *)
(* The code does not keep it.                                                            *)
DbReviewGoesOn == dbIgnored \intersect {"propose", "approve", "fix", "reject", "refuse"} = {}

(* dashboard.py:4802 answers a rejected mapping with "Saved: rejected - refreshing": a  *)
(* bulk job started after it holds no table with a rejected mapping. Nor this.          *)
DbRejectionsCount ==
  [][\A j \in DbJobs : dbJob[j].status = "free" /\ dbJob'[j].status = "queued"
       => dbJob'[j].tables \intersect dbRejected = {}]_dbVars
====================================================================================
