------------------------------ MODULE ReviewProofs ------------------------------
(***************************************************************************)
(* Proofs about the decisions of a reviewer and what becomes of them: the  *)
(* bulk jobs of a dashboard session, the verdicts of the scoring gate, the *)
(* answer of a single-table approval, and the sidecar of the alias review. *)
(***************************************************************************)
EXTENDS HitlReview, ApproveTable, DashSession, ScaleGate, TLAPS

-----------------------------------------------------------------------------
(* DashSession *)

\* A job is a record; a job the session has let go of has ended, and is accounted for.
DbShape ==
    /\ dbJob = [j \in DbJobs |-> dbJob[j]]
    /\ \A j \in DbJobs : dbJob[j] = [status |-> dbJob[j].status, tables |-> dbJob[j].tables,
                                     success |-> dbJob[j].success]

DbInv == DbShape /\ DbBulkAccounted

\* No step of a page run takes the mark of a migrated table away.
LEMMA DbPanelMarks == ASSUME NEW click, DbPanel(click) PROVE dbMigrated \subseteq dbMigrated'
BY DEF DbPanel, DbQueued, DbMarked

\* A step that leaves the jobs and the session's job alone only has to keep the marks.
LEMMA DbKeeps ==
    ASSUME DbInv, UNCHANGED <<dbJob, dbCurrent>>, dbMigrated \subseteq dbMigrated'
    PROVE  DbInv'
BY DEF DbInv, DbShape, DbBulkAccounted, DbLive, DbSucceeded

\* The session lets go of its job when that one is not live and its successes are marked.
LEMMA DbLetsGo ==
    ASSUME DbInv, DbNotLive, dbMigrated' = DbShown, dbCurrent' \in DbJobs \cup {"none"},
           DbShape', \A j \in DbJobs \ {dbCurrent'} : dbJob'[j] = dbJob[j]
    PROVE  DbInv'
<1>1. ASSUME NEW j \in DbJobs \ {dbCurrent'}
      PROVE  ~DbLive(j)' /\ (dbJob'[j].status = "done" => DbSucceeded(j)' \subseteq dbMigrated')
  <2>1. CASE j = dbCurrent
    BY <2>1, DbAssumption DEF DbNotLive, DbShown, DbLive, DbSucceeded
  <2>2. CASE j # dbCurrent
    BY <2>2 DEF DbInv, DbBulkAccounted, DbShown, DbLive, DbSucceeded
  <2>. QED BY <2>1, <2>2
<1>. QED BY <1>1 DEF DbInv, DbBulkAccounted

\* A job gets a new record.
LEMMA DbJobShape ==
    ASSUME DbShape, NEW j \in DbJobs, NEW status, NEW tables, NEW success,
           dbJob' = [dbJob EXCEPT ![j] = [status |-> status, tables |-> tables, success |-> success]]
    PROVE  DbShape' /\ \A k \in DbJobs \ {j} : dbJob'[k] = dbJob[k]
BY DEF DbShape

LEMMA DbInitInv == DbInit => DbInv
BY DEF DbInit, DbInv, DbShape, DbBulkAccounted, DbLive

LEMMA DbStepInv == DbInv /\ [DbNext]_dbVars => DbInv'
<1> SUFFICES ASSUME DbInv, [DbNext]_dbVars PROVE DbInv'
  OBVIOUS
<1>1. CASE DbRerun
  BY <1>1, DbKeeps DEF DbRerun
<1>2. CASE DbBulkPanels
  BY <1>2, DbKeeps, DbPanelMarks DEF DbBulkPanels
<1>3. CASE DbWait
  BY <1>3, DbKeeps DEF DbWait
<1>4. CASE DbStart
  <2>1. PICK j \in DbJobs, chosen \in SUBSET DbRemaining :
          /\ dbJob' = [dbJob EXCEPT ![j] = [status |-> "queued", tables |-> chosen, success |-> {}]]
          /\ dbCurrent' = j
    BY <1>4 DEF DbStart
  <2>2. DbShape' /\ \A k \in DbJobs \ {j} : dbJob'[k] = dbJob[k]
    BY <2>1, DbJobShape DEF DbInv
  <2>3. DbNotLive /\ dbMigrated' = DbShown
    BY <1>4 DEF DbStart
  <2>. QED BY <2>1, <2>2, <2>3, DbLetsGo
<1>5. CASE DbClear
  <2>1. DbNotLive /\ dbMigrated' = DbShown /\ dbCurrent' = "none" /\ dbJob' = dbJob
    BY <1>5 DEF DbClear
  <2>2. DbShape'
    BY <2>1 DEF DbInv, DbShape
  <2>. QED BY <2>1, <2>2, DbLetsGo
<1>6. CASE DbPass
  BY <1>6, DbKeeps DEF DbPass, DbShown
<1>7. CASE DbRest
  BY <1>7, DbKeeps, DbPanelMarks DEF DbRest
<1>8. CASE DbWork
  <2>1. PICK j \in DbJobs :
          \/ dbJob[j].status = "queued" /\ dbJob' = [dbJob EXCEPT ![j].status = "running"]
          \/ /\ dbJob[j].status = "running"
             /\ \E success \in SUBSET dbJob[j].tables :
                  dbJob' = [dbJob EXCEPT ![j].status = "done", ![j].success = success]
          \/ dbJob[j].status = "running" /\ dbJob' = [dbJob EXCEPT ![j].status = "failed"]
    BY <1>8 DEF DbWork
  <2>2. j = dbCurrent
    BY <2>1 DEF DbInv, DbBulkAccounted, DbLive
  <2>3. DbShape' /\ \A k \in DbJobs \ {j} : dbJob'[k] = dbJob[k]
    BY <2>1 DEF DbInv, DbShape
  <2>4. UNCHANGED <<dbCurrent, dbMigrated>>
    BY <1>8 DEF DbWork
  <2>. QED BY <2>2, <2>3, <2>4 DEF DbInv, DbBulkAccounted, DbLive, DbSucceeded
<1>9. CASE UNCHANGED dbVars
  BY <1>9, DbKeeps DEF dbVars
<1>. QED BY <1>1, <1>2, <1>3, <1>4, <1>5, <1>6, <1>7, <1>8, <1>9 DEF DbNext

\* The worker of a bulk job ends it whenever it likes, and the page looks at the job twice
\* in a run, at its top and in the Bulk tab; whatever the interleaving, the session starts
\* a job or clears one only past a look that marked the successes of the last, so no job
\* it has let go of still runs or has an unmarked success.
THEOREM DbBulkAccountedHolds == DbSpec => []DbBulkAccounted
<1>1. DbInv => DbBulkAccounted
  BY DEF DbInv
<1>. QED BY DbInitInv, DbStepInv, <1>1, PTL DEF DbSpec

\* The page run is a record too, jobs have tables of the session, and past the panels of the
\* Bulk tab the green tables are known.
DbRuns == [pc : {"idle", "tabs", "job", "rest"}, click : DbClicks]
DbMarks == [DbTables -> {"none", "shown", "fix"}]
DbKnown(run, green) ==
    /\ green = {"unset"} \/ green \subseteq DbTables
    /\ run.pc \in {"job", "rest"} => green \subseteq DbTables
DbTyped ==
    /\ DbTypeOK /\ DbShape /\ dbRun \in DbRuns /\ DbKnown(dbRun, dbGreen)
    /\ \A j \in DbJobs : dbJob[j].tables \subseteq DbTables

\* A click that is served by a panel, or refuses a mapping, is on a table of the session.
LEMMA DbClickTable ==
    ASSUME NEW click \in DbClicks,
           click.act \in {"propose", "approve", "fix", "reject", "refuse", "start"}
    PROVE  click.table \in DbTables
BY DEF DbClicks

LEMMA DbIdleIs == DbIdle \in DbRuns /\ DbIdle.pc = "idle"
<1>1. [on |-> "bulk", act |-> "none", table |-> "-"] \in DbClicks
  BY DEF DbClicks
<1>. QED BY <1>1 DEF DbIdle, DbRuns

LEMMA DbPanelTypes ==
    ASSUME DbTyped, NEW click \in DbClicks, DbPanel(click),
           click.act \in {"propose", "approve", "fix", "reject"}
    PROVE  dbMigrated' \subseteq DbTables /\ dbPending' \in DbMarks
<1>. DEFINE t == click.table
<1>1. t \in DbTables
  BY DbClickTable
<1>2. dbMigrated \subseteq DbTables /\ dbPending \in DbMarks
  BY DEF DbTyped, DbTypeOK, DbMarks
<1>3. dbMigrated' = dbMigrated \/ dbMigrated' = dbMigrated \cup {t}
  BY DEF DbPanel, DbQueued, DbMarked
<1>4. \/ dbPending' = dbPending
      \/ \E v \in {"none", "shown", "fix"} : dbPending' = [dbPending EXCEPT ![t] = v]
  <2>1. (IF dbPending[t] = "fix" THEN "fix" ELSE "shown") \in {"none", "shown", "fix"}
    OBVIOUS
  <2>. QED BY <2>1 DEF DbPanel, DbQueued, DbMarked
<1>. QED BY <1>1, <1>2, <1>3, <1>4 DEF DbMarks

LEMMA DbTypedInit == DbInit => DbTyped
BY DbIdleIs DEF DbInit, DbTyped, DbTypeOK, DbShape, DbKnown, DbRuns, DbMarks

\* What the clicks, the panels and the review do not touch.
LEMMA DbJobsTyped ==
    ASSUME DbTyped, UNCHANGED dbJob, dbCurrent' \in {dbCurrent, "none"},
           dbMigrated' \subseteq DbTables, dbRejected' \subseteq DbTables,
           dbPending' \in DbMarks,
           DbKnown(dbRun', dbGreen'),
           dbRun' \in DbRuns
    PROVE  DbTyped'
BY DEF DbTyped, DbTypeOK, DbShape, DbRuns, DbMarks, DbKnown

LEMMA DbTypedStep == DbTyped /\ DbInv /\ [DbNext]_dbVars => DbTyped'
<1> SUFFICES ASSUME DbTyped, DbInv, [DbNext]_dbVars PROVE DbTyped'
  OBVIOUS
<1>0. /\ dbMigrated \subseteq DbTables /\ dbRejected \subseteq DbTables
      /\ dbPending \in DbMarks
      /\ DbKnown(dbRun, dbGreen)
      /\ dbRun \in DbRuns
  BY DEF DbTyped, DbTypeOK, DbMarks
<1>a. DbIdle \in DbRuns /\ \A pc \in {"idle", "tabs", "job", "rest"} : [dbRun EXCEPT !.pc = pc] \in DbRuns
  BY <1>0, DbIdleIs DEF DbRuns
<1>b. DbShown \subseteq DbTables
  <2>1. dbCurrent \in DbJobs \cup {"none"} /\ \A j \in DbJobs : DbSucceeded(j) \subseteq DbTables
    BY DEF DbTyped, DbTypeOK, DbSucceeded
  <2>. QED BY <1>0, <2>1 DEF DbShown
<1>c. \A run \in DbRuns : run.pc \in {"idle", "tabs"} => DbKnown(run, dbGreen)
  BY <1>0 DEF DbKnown
<1>d. DbKnown(DbIdle, dbGreen)
  BY <1>0, DbIdleIs DEF DbKnown
<1>e. dbRun.click \in DbClicks
  BY <1>0 DEF DbRuns
<1>1. CASE DbRerun
  <2>1. PICK click \in DbClicks : dbRun' = [pc |-> "tabs", click |-> click]
    BY <1>1 DEF DbRerun
  <2>2. dbMigrated' \subseteq DbTables
    BY <1>1, <1>0 DEF DbRerun, DbSucceeded, DbTyped, DbTypeOK
  <2>3. dbRun' \in DbRuns /\ DbKnown(dbRun', dbGreen)
    <3>1. dbRun' \in DbRuns /\ dbRun'.pc = "tabs"
      BY <2>1 DEF DbRuns
    <3>. QED BY <3>1, <1>c
  <2>4. UNCHANGED <<dbJob, dbCurrent, dbRejected, dbPending, dbGreen>>
    BY <1>1 DEF DbRerun
  <2>. QED BY <2>2, <2>3, <2>4, <1>0, DbJobsTyped
<1>2. CASE DbBulkPanels
  <2>1. dbRun' \in DbRuns
    BY <1>2, <1>a DEF DbBulkPanels
  <2>2. dbMigrated' \subseteq DbTables /\ dbPending' \in DbMarks
    BY <1>2, <1>e, <1>0, DbPanelTypes DEF DbBulkPanels
  <2>3. dbGreen' \subseteq DbTables
    BY <1>2, <1>0 DEF DbBulkPanels, DbScale, DbKnown
  <2>. QED BY <1>2, <1>0, <2>1, <2>2, <2>3, DbIdleIs, DbJobsTyped DEF DbBulkPanels, DbKnown
<1>3. CASE DbWait
  BY <1>3, <1>0, <1>a, <1>d, DbJobsTyped DEF DbWait
<1>4. CASE DbStart
  <2>1. PICK j \in DbJobs, chosen \in SUBSET DbRemaining :
          /\ dbJob' = [dbJob EXCEPT ![j] = [status |-> "queued", tables |-> chosen, success |-> {}]]
          /\ dbCurrent' = j
    BY <1>4 DEF DbStart
  <2>2. DbShape' /\ \A k \in DbJobs \ {j} : dbJob'[k] = dbJob[k]
    BY <2>1, DbJobShape DEF DbInv
  <2>3. dbMigrated' \subseteq DbTables
    BY <1>4, <1>0, <1>b DEF DbStart
  <2>4. dbJob'[j].status = "queued" /\ dbJob'[j].success = {}
    BY <2>1 DEF DbInv, DbShape
  <2>5. chosen \subseteq DbTables
    BY <1>4, <1>0 DEF DbStart, DbKnown, DbRemaining
  <2>6. dbRun' = DbIdle /\ UNCHANGED <<dbRejected, dbPending, dbGreen>>
    BY <1>4 DEF DbStart
  <2>7. dbJob'[j].tables = chosen
    BY <2>1 DEF DbInv, DbShape
  <2>8. \A k \in DbJobs :
          /\ dbJob'[k].status \in {"free", "queued", "running", "done", "failed"}
          /\ dbJob'[k].success \subseteq dbJob'[k].tables /\ dbJob'[k].tables \subseteq DbTables
    BY <2>2, <2>4, <2>5, <2>7 DEF DbTyped, DbTypeOK
  <2>9. dbRun' \in DbRuns /\ DbKnown(dbRun', dbGreen')
    BY <2>6, <1>a, <1>d
  <2>. QED BY <1>0, <2>1, <2>2, <2>3, <2>6, <2>8, <2>9 DEF DbTyped, DbTypeOK, DbRuns, DbMarks, DbKnown
<1>5. CASE DbClear
  BY <1>5, <1>0, <1>a, <1>b, <1>d, DbJobsTyped DEF DbClear
<1>6. CASE DbPass
  <2>1. dbRun' \in DbRuns /\ DbKnown(dbRun', dbGreen')
    BY <1>6, <1>0, <1>a DEF DbPass, DbKnown, DbRuns
  <2>. QED BY <1>6, <1>0, <1>b, <2>1, DbJobsTyped DEF DbPass
<1>7. CASE DbRest
  <2>1. dbMigrated' \subseteq DbTables /\ dbPending' \in DbMarks
    <3>1. CASE dbRun.click.on = "rest" /\ dbRun.click.act # "refuse" /\ DbDrawn(dbRun.click)
      <4>1. dbRun.click.act \in {"propose", "approve", "fix", "reject"}
        BY <1>e, <3>1 DEF DbClicks
      <4>. QED BY <1>7, <1>e, <3>1, <4>1, DbPanelTypes DEF DbRest
    <3>. QED BY <1>7, <1>0, <3>1 DEF DbRest
  <2>2. dbRejected' \subseteq DbTables
    BY <1>7, <1>0, <1>e, DbClickTable DEF DbRest
  <2>. QED BY <1>7, <1>0, <1>a, <2>1, <2>2, <1>d, DbJobsTyped DEF DbRest
<1>8. CASE DbWork
  <2>1. PICK j \in DbJobs :
          \/ dbJob[j].status = "queued" /\ dbJob' = [dbJob EXCEPT ![j].status = "running"]
          \/ /\ dbJob[j].status = "running"
             /\ \E success \in SUBSET dbJob[j].tables :
                  dbJob' = [dbJob EXCEPT ![j].status = "done", ![j].success = success]
          \/ dbJob[j].status = "running" /\ dbJob' = [dbJob EXCEPT ![j].status = "failed"]
    BY <1>8 DEF DbWork
  <2>2. DbShape' /\ \A k \in DbJobs \ {j} : dbJob'[k] = dbJob[k]
    BY <2>1 DEF DbInv, DbShape
  <2>3. /\ dbJob'[j].status \in {"running", "done", "failed"} /\ dbJob'[j].tables = dbJob[j].tables
        /\ dbJob'[j].success = dbJob[j].success \/ dbJob'[j].success \subseteq dbJob[j].tables
    <3>1. CASE \E success \in SUBSET dbJob[j].tables :
                  dbJob' = [dbJob EXCEPT ![j].status = "done", ![j].success = success]
      <4>1. PICK success \in SUBSET dbJob[j].tables :
              dbJob' = [dbJob EXCEPT ![j].status = "done", ![j].success = success]
        BY <3>1
      <4>. QED BY <4>1 DEF DbInv, DbShape
    <3>2. CASE dbJob' = [dbJob EXCEPT ![j].status = "running"]
      BY <3>2 DEF DbInv, DbShape
    <3>3. CASE dbJob' = [dbJob EXCEPT ![j].status = "failed"]
      BY <3>3 DEF DbInv, DbShape
    <3>. QED BY <2>1, <3>1, <3>2, <3>3
  <2>4. \A k \in DbJobs :
          /\ dbJob'[k].status \in {"free", "queued", "running", "done", "failed"}
          /\ dbJob'[k].success \subseteq dbJob'[k].tables /\ dbJob'[k].tables \subseteq DbTables
    BY <2>2, <2>3 DEF DbTyped, DbTypeOK
  <2>5. UNCHANGED <<dbRun, dbCurrent, dbMigrated, dbRejected, dbPending, dbGreen>>
    BY <1>8 DEF DbWork
  <2>. QED BY <1>0, <2>2, <2>4, <2>5 DEF DbTyped, DbTypeOK
<1>9. CASE UNCHANGED dbVars
  BY <1>9, <1>0, DbJobsTyped DEF dbVars, DbTyped, DbTypeOK
<1>. QED BY <1>1, <1>2, <1>3, <1>4, <1>5, <1>6, <1>7, <1>8, <1>9 DEF DbNext

THEOREM DbTypesHold == DbSpec => []DbTypeOK
<1>1. DbTyped => DbTypeOK
  BY DEF DbTyped
<1>. QED BY DbInitInv, DbStepInv, DbTypedInit, DbTypedStep, <1>1, PTL DEF DbSpec

-----------------------------------------------------------------------------
(* ScaleGate *)

SgVerdicts == [t \in {} |-> "red"]
SgPcs == {"idle", "promote", "structure", "keys", "score", "scored"}

SgIsCall(r) ==
    /\ r = [pc |-> r.pc, kind |-> r.kind, gate |-> r.gate, seen |-> r.seen, rows |-> r.rows]
    /\ r.pc \in SgPcs /\ r.gate \in Nat \X Nat /\ r.seen \in BOOLEAN
    /\ DOMAIN r.rows \subseteq SgTables

SgReports == [flat : BOOLEAN, glossary : {"none", "own", "promoted"}, keys : BOOLEAN,
              derivable : BOOLEAN]

SgTyped ==
    /\ sgTable \in [SgTables -> SgRows]
    /\ sgReport \in SgReports
    /\ sgCall = [c \in SgCalls |-> sgCall[c]]
    /\ \A c \in SgCalls : SgIsCall(sgCall[c])
    /\ sgAudit \subseteq SgTables

\* Where each normalisation stands: the flat pairs are gone only after somebody who read
\* them made them the glossary, and nobody scores before both are done.
SgNormalised ==
    /\ sgReport.flat => \A c \in SgCalls : sgCall[c].pc # "idle" => sgCall[c].seen
    /\ ~sgReport.flat /\ sgReport.glossary = "none" => \A c \in SgCalls : ~sgCall[c].seen
    /\ \A c \in SgCalls :
          /\ sgCall[c].pc = "idle" => ~sgCall[c].seen
          /\ sgCall[c].pc = "structure" /\ sgCall[c].seen => sgReport.glossary # "none"
          /\ sgCall[c].pc \in {"keys", "score", "scored"} => ~sgReport.flat
          /\ sgCall[c].pc \in {"score", "scored"} => (sgReport.derivable => sgReport.keys)
          /\ DOMAIN sgCall[c].rows # {} => sgCall[c].pc \in {"score", "scored"}

\* Every verdict is the one the report would get now, and an audit line has its verdict.
SgFaithful ==
    /\ \A c \in SgCalls : \A t \in DOMAIN sgCall[c].rows :
          sgCall[c].rows[t] = SgQueueOf(t, sgCall[c].gate)
    /\ \A t \in sgAudit : \E c \in SgCalls :
          t \in DOMAIN sgCall[c].rows /\ sgCall[c].rows[t] = "green"

\* A call that has everything scored has a verdict on every table.
SgWhole == \A c \in SgCalls : sgCall[c].pc = "scored" => DOMAIN sgCall[c].rows = SgTables

SgInv == SgTyped /\ SgNormalised /\ SgFaithful /\ SgWhole

\* ---- the score: no signal in its favour, no better score ----------------------------

LEMMA SgRowFields ==
    ASSUME NEW r \in SgRows
    PROVE  /\ r.merged \in 0..2 /\ r.legacy \in 0..2 /\ r.typed \in 0..2
           /\ r.queries \in Nat /\ r.sensitive \in BOOLEAN /\ r.rejected \in BOOLEAN
           /\ r.wide \in BOOLEAN /\ r.listed \in BOOLEAN
BY SgAssumption DEF SgColumns

LEMMA SgRoundUp ==
    ASSUME NEW a \in Nat, NEW b \in Nat, a <= b, NEW w \in {70, 30}
    PROVE  SgRound(a, w) \in Nat /\ SgRound(a, w) <= SgRound(b, w)
<1>1. CASE w = 70
  BY <1>1 DEF SgRound, SgColumns
<1>2. CASE w = 30
  BY <1>2 DEF SgRound, SgColumns
<1>. QED BY <1>1, <1>2

LEMMA SgConfidenceUp ==
    ASSUME NEW s \in SgRows, NEW t \in SgRows, NEW terms \in BOOLEAN,
           s.merged <= t.merged, s.legacy <= t.legacy, s.typed <= t.typed
    PROVE  /\ SgConfidence(s, terms) \in Nat /\ SgConfidence(t, terms) \in Nat
           /\ SgConfidence(s, terms) <= SgConfidence(t, terms)
<1>. DEFINE known(r) == r.merged + (IF terms THEN r.legacy ELSE 0)
<1>1. known(s) \in Nat /\ known(t) \in Nat /\ known(s) <= known(t)
  BY SgRowFields
<1>2. s.typed \in Nat /\ t.typed \in Nat
  BY SgRowFields
<1>3. /\ SgRound(known(s), 70) \in Nat /\ SgRound(known(t), 70) \in Nat
      /\ SgRound(known(s), 70) <= SgRound(known(t), 70)
  BY <1>1, SgRoundUp
<1>4. /\ SgRound(s.typed, 30) \in Nat /\ SgRound(t.typed, 30) \in Nat
      /\ SgRound(s.typed, 30) <= SgRound(t.typed, 30)
  BY <1>2, SgRoundUp
<1>5. ASSUME NEW r PROVE SgConfidence(r, terms) = SgRound(known(r), 70) + SgRound(r.typed, 30)
  BY DEF SgConfidence
<1>. HIDE DEF known
<1>. QED BY <1>3, <1>4, <1>5

LEMMA SgCriticalityDown ==
    ASSUME NEW s \in SgRows, NEW t \in SgRows, s.queries >= t.queries, t.sensitive => s.sensitive
    PROVE  /\ SgCriticality(s) \in Nat /\ SgCriticality(t) \in Nat
           /\ SgCriticality(t) <= SgCriticality(s)
<1>1. /\ s.queries \in Nat /\ t.queries \in Nat
      /\ s.sensitive \in BOOLEAN /\ t.sensitive \in BOOLEAN
  BY SgRowFields
<1>2. /\ SgUsagePoints(s.queries) \in Nat /\ SgUsagePoints(t.queries) \in Nat
      /\ SgUsagePoints(t.queries) <= SgUsagePoints(s.queries)
  BY <1>1 DEF SgUsagePoints
<1>3. ASSUME NEW r
      PROVE SgCriticality(r) = SgUsagePoints(r.queries) + (IF r.sensitive THEN 25 ELSE 0)
            \/ SgUsagePoints(r.queries) \notin Nat
  BY DEF SgCriticality, SgLineagePoints, SgDownstream
<1>. QED BY <1>1, <1>2, <1>3

\* A table without an advantage is blocked where its neighbour is.
LEMMA SgBlockedUp ==
    ASSUME NEW s \in SgTables, NEW t \in SgTables, SgNoBetter(sgTable[s], sgTable[t]),
           SgBlocked(t)
    PROVE  SgBlocked(s)
<1>1. sgTable[s].type = sgTable[t].type /\ (sgTable[s].listed => sgTable[t].listed)
  BY DEF SgNoBetter
<1>2. CASE sgTable[t].type = "blob"
  BY <1>1, <1>2 DEF SgBlocked
<1>3. CASE \E o \in SgTables \ {t} : sgTable[o].type # sgTable[t].type
  <2>1. PICK o \in SgTables \ {t} : sgTable[o].type # sgTable[t].type
    BY <1>3
  <2>2. o \in SgTables \ {s} /\ sgTable[o].type # sgTable[s].type
    BY <2>1, <1>1
  <2>. QED BY <2>2 DEF SgBlocked
<1>4. CASE SgScopeOn /\ ~sgTable[t].listed
  BY <1>4, <1>1 DEF SgBlocked
<1>. QED BY <1>2, <1>3, <1>4 DEF SgBlocked

\* The queue follows the score, the blockers and the warnings; stricter gates lower it.
LEMMA SgQueueUp ==
    ASSUME NEW cs \in Nat, NEW ct \in Nat, cs <= ct,
           NEW ks \in Nat, NEW kt \in Nat, kt <= ks,
           NEW bs, NEW bt, bt => bs, NEW ws, NEW wt, wt => ws,
           NEW gs \in Nat \X Nat, NEW gt \in Nat \X Nat, gs[1] >= gt[1], gs[2] <= gt[2]
    PROVE  SgRank(SgQueue(cs, ks, bs, ws, gs)) <= SgRank(SgQueue(ct, kt, bt, wt, gt))
BY DEF SgQueue, SgRank

LEMMA SgNoBetterItself ==
    ASSUME NEW t \in SgRows PROVE SgNoBetter(t, t)
BY SgRowFields DEF SgNoBetter

LEMMA SgQueueOfUp ==
    ASSUME SgTyped, NEW s \in SgTables, NEW t \in SgTables,
           s = t \/ SgNoBetter(sgTable[s], sgTable[t]),
           NEW gs \in Nat \X Nat, NEW gt \in Nat \X Nat, gs[1] >= gt[1], gs[2] <= gt[2]
    PROVE  SgRank(SgQueueOf(s, gs)) <= SgRank(SgQueueOf(t, gt))
<1>1. sgTable[s] \in SgRows /\ sgTable[t] \in SgRows /\ SgTerms \in BOOLEAN
  BY DEF SgTyped, SgTerms
<1>2. SgNoBetter(sgTable[s], sgTable[t])
  BY <1>1, SgNoBetterItself
<1>3. /\ SgConfidence(sgTable[s], SgTerms) \in Nat /\ SgConfidence(sgTable[t], SgTerms) \in Nat
      /\ SgConfidence(sgTable[s], SgTerms) <= SgConfidence(sgTable[t], SgTerms)
  BY <1>1, <1>2, SgConfidenceUp DEF SgNoBetter
<1>4. /\ SgCriticality(sgTable[s]) \in Nat /\ SgCriticality(sgTable[t]) \in Nat
      /\ SgCriticality(sgTable[t]) <= SgCriticality(sgTable[s])
  BY <1>1, <1>2, SgCriticalityDown DEF SgNoBetter
<1>5. SgBlocked(t) => SgBlocked(s)
  BY <1>2, SgBlockedUp
<1>6. SgWarned(t) => SgWarned(s)
  BY <1>2 DEF SgWarned, SgNoBetter
<1>. QED BY <1>3, <1>4, <1>5, <1>6, SgQueueUp DEF SgQueueOf

\* What one gate lets through in bulk no other gate sends to the red queue.
LEMMA SgGreenIsNotRed ==
    ASSUME NEW t, NEW g, NEW h, SgQueueOf(t, g) = "green" PROVE SgQueueOf(t, h) # "red"
BY DEF SgQueueOf, SgQueue

\* ---- the steps ---------------------------------------------------------------------

\* One call gets a new record.
LEMMA SgMoved ==
    ASSUME SgTyped, NEW c \in SgCalls, NEW r, SgIsCall(r), sgCall' = [sgCall EXCEPT ![c] = r],
           sgTable' = sgTable, sgAudit' \subseteq SgTables, sgReport' \in SgReports
    PROVE  /\ SgTyped'
           /\ sgCall'[c] = r
           /\ \A d \in SgCalls \ {c} : sgCall'[d] = sgCall[d]
<1>1. /\ sgCall'[c] = r
      /\ \A d \in SgCalls \ {c} : sgCall'[d] = sgCall[d]
      /\ sgCall' = [d \in SgCalls |-> sgCall'[d]]
  BY DEF SgTyped
<1>2. \A d \in SgCalls : SgIsCall(sgCall'[d])
  BY <1>1 DEF SgTyped
<1>3. sgTable' \in [SgTables -> SgRows]
  BY DEF SgTyped
<1>. QED BY <1>1, <1>2, <1>3 DEF SgTyped

LEMMA SgRecordGoes ==
    ASSUME NEW r, SgIsCall(r), NEW pc \in SgPcs, NEW q, q = [r EXCEPT !.pc = pc]
    PROVE  /\ SgIsCall(q) /\ q.pc = pc
           /\ q.kind = r.kind /\ q.gate = r.gate /\ q.seen = r.seen /\ q.rows = r.rows
BY DEF SgIsCall

\* A call goes on to another step, and nothing else of it changes.
LEMMA SgGoes ==
    ASSUME SgTyped, NEW c \in SgCalls, NEW pc \in SgPcs, SgGo(c, pc),
           sgTable' = sgTable, sgAudit' = sgAudit, sgReport' \in SgReports
    PROVE  /\ SgTyped'
           /\ sgCall'[c].pc = pc /\ sgCall'[c].gate = sgCall[c].gate
           /\ sgCall'[c].seen = sgCall[c].seen /\ sgCall'[c].rows = sgCall[c].rows
           /\ \A d \in SgCalls \ {c} : sgCall'[d] = sgCall[d]
<1>1. PICK r : r = [sgCall[c] EXCEPT !.pc = pc]
  OBVIOUS
<1>2. sgCall' = [sgCall EXCEPT ![c] = r]
  BY <1>1 DEF SgGo
<1>3. SgIsCall(sgCall[c]) /\ sgAudit' \subseteq SgTables
  BY DEF SgTyped
<1>4. SgIsCall(r) /\ r.pc = pc /\ r.gate = sgCall[c].gate /\ r.seen = sgCall[c].seen
      /\ r.rows = sgCall[c].rows
  BY <1>1, <1>3, SgRecordGoes
<1>. QED BY <1>2, <1>3, <1>4, SgMoved

\* A step before the scoring changes no verdict there is.
LEMMA SgBefore ==
    ASSUME SgInv, NEW c \in SgCalls, SgTyped', DOMAIN sgCall[c].rows = {},
           sgCall'[c].rows = sgCall[c].rows, sgCall'[c].pc # "scored",
           \A d \in SgCalls \ {c} : sgCall'[d] = sgCall[d],
           UNCHANGED <<sgTable, sgAudit>>,
           \A d \in SgCalls : sgCall[d].pc \in {"score", "scored"} =>
              SgTerms' = SgTerms /\ SgScopeOn' = SgScopeOn
    PROVE  SgFaithful' /\ SgWhole'
<1>1. ASSUME NEW d \in SgCalls, NEW t \in DOMAIN sgCall'[d].rows
      PROVE  sgCall'[d].rows[t] = SgQueueOf(t, sgCall[d].gate)'
  <2>1. d # c /\ sgCall'[d] = sgCall[d] /\ t \in DOMAIN sgCall[d].rows
    BY <1>1
  <2>2. sgCall[d].pc \in {"score", "scored"}
    BY <2>1 DEF SgInv, SgNormalised
  <2>3. SgTerms' = SgTerms /\ SgScopeOn' = SgScopeOn
    BY <2>2
  <2>4. SgQueueOf(t, sgCall[d].gate)' = SgQueueOf(t, sgCall[d].gate)
    BY <2>1, <2>3 DEF SgQueueOf, SgBlocked, SgWarned
  <2>. QED BY <2>1, <2>4 DEF SgInv, SgFaithful
<1>2. ASSUME NEW t \in sgAudit'
      PROVE  \E d \in SgCalls : t \in DOMAIN sgCall'[d].rows /\ sgCall'[d].rows[t] = "green"
  <2>1. PICK d \in SgCalls : t \in DOMAIN sgCall[d].rows /\ sgCall[d].rows[t] = "green"
    BY <1>2 DEF SgInv, SgFaithful
  <2>. QED BY <2>1
<1>3. SgWhole'
  BY DEF SgInv, SgWhole
<1>. QED BY <1>1, <1>2, <1>3 DEF SgFaithful

LEMMA SgFirstReports ==
    ASSUME NEW r \in [flat : BOOLEAN, glossary : {"none", "own"}, keys : BOOLEAN,
                      derivable : BOOLEAN]
    PROVE  r \in SgReports
<1>1. {"none", "own"} \subseteq {"none", "own", "promoted"}
  OBVIOUS
<1>. QED BY <1>1, Zenon DEF SgReports

LEMMA SgInitInv == SgInit => SgInv
<1> SUFFICES ASSUME SgInit PROVE SgInv
  OBVIOUS
<1>1. \A c \in SgCalls : sgCall[c] = [pc |-> "idle", kind |-> "none", gate |-> <<70, 40>>,
                                      seen |-> FALSE, rows |-> SgVerdicts]
  BY DEF SgInit, SgIdle, SgDefaults, SgVerdicts
<1>2. DOMAIN SgVerdicts = {}
  BY DEF SgVerdicts
<1>3. SgTyped
  <2>1. sgCall = [c \in SgCalls |-> sgCall[c]]
    BY DEF SgInit
  <2>2. sgTable \in [SgTables -> SgRows] /\ sgAudit \subseteq SgTables
    BY DEF SgInit
  <2>4. sgReport \in SgReports
    <3>0. sgReport \in [flat : BOOLEAN, glossary : {"none", "own"}, keys : BOOLEAN,
                        derivable : BOOLEAN]
      BY DEF SgInit
    <3>. QED BY <3>0, SgFirstReports
  <2>3. ASSUME NEW c \in SgCalls PROVE SgIsCall(sgCall[c])
    <3>1. sgCall[c].pc \in SgPcs /\ sgCall[c].seen \in BOOLEAN
      <4>1. sgCall[c].pc = "idle" /\ sgCall[c].seen = FALSE
        BY <1>1
      <4>. QED BY <4>1 DEF SgPcs
    <3>3. sgCall[c].gate \in Nat \X Nat
      <4>1. sgCall[c].gate = <<70, 40>>
        BY <1>1
      <4>. QED BY <4>1
    <3>2. DOMAIN sgCall[c].rows \subseteq SgTables
      BY <1>1, <1>2
    <3>. QED BY <1>1, <3>1, <3>2, <3>3 DEF SgIsCall
  <2>. QED BY <2>1, <2>2, <2>3, <2>4 DEF SgTyped
<1>4. SgNormalised
  BY <1>1, <1>2 DEF SgNormalised
<1>5. SgFaithful /\ SgWhole
  BY <1>1, <1>2 DEF SgFaithful, SgWhole, SgInit
<1>. QED BY <1>3, <1>4, <1>5 DEF SgInv

LEMMA SgStartInv == ASSUME SgInv, NEW c \in SgCalls, SgStart(c) PROVE SgInv'
<1>1. PICK kind \in {"evaluate", "bulk"}, gate \in SgGates :
        sgCall' = [sgCall EXCEPT ![c] = [@ EXCEPT !.pc = "promote", !.kind = kind,
                                                  !.gate = gate, !.seen = sgReport.flat]]
  BY DEF SgStart
<1>2. PICK r : r = [sgCall[c] EXCEPT !.pc = "promote", !.kind = kind, !.gate = gate,
                                     !.seen = sgReport.flat]
  OBVIOUS
<1>3. sgCall' = [sgCall EXCEPT ![c] = r]
  BY <1>1, <1>2
<1>4. /\ gate \in Nat \X Nat /\ sgReport.flat \in BOOLEAN /\ SgIsCall(sgCall[c])
      /\ UNCHANGED <<sgTable, sgReport, sgAudit>> /\ sgCall[c].pc = "idle"
      /\ sgAudit \subseteq SgTables /\ sgReport \in SgReports
  BY SgAssumption DEF SgInv, SgTyped, SgReports, SgStart
<1>5. SgIsCall(r) /\ r.pc = "promote" /\ r.seen = sgReport.flat /\ r.rows = sgCall[c].rows
  <2>1. sgCall[c] = [pc |-> sgCall[c].pc, kind |-> sgCall[c].kind, gate |-> sgCall[c].gate,
                     seen |-> sgCall[c].seen, rows |-> sgCall[c].rows]
    BY <1>4 DEF SgIsCall
  <2>2. r = [pc |-> "promote", kind |-> kind, gate |-> gate, seen |-> sgReport.flat,
             rows |-> sgCall[c].rows]
    BY <1>2, <2>1
  <2>. QED BY <2>2, <1>4 DEF SgIsCall, SgPcs
<1>6. SgTyped' /\ sgCall'[c] = r /\ \A d \in SgCalls \ {c} : sgCall'[d] = sgCall[d]
  BY <1>3, <1>4, <1>5, SgMoved DEF SgInv
<1>7. DOMAIN sgCall[c].rows = {}
  BY <1>4 DEF SgInv, SgNormalised
<1>8. SgNormalised'
  <2>1. /\ sgCall'[c].pc = "promote" /\ sgCall'[c].seen = sgReport.flat
        /\ DOMAIN sgCall'[c].rows = {}
    BY <1>5, <1>6, <1>7
  <2>. QED BY <2>1, <1>4, <1>6 DEF SgInv, SgNormalised
<1>9. SgTerms' = SgTerms /\ SgScopeOn' = SgScopeOn
  BY <1>4 DEF SgTerms, SgScopeOn
<1>10. SgFaithful' /\ SgWhole'
  BY <1>4, <1>5, <1>6, <1>7, <1>9, SgBefore
<1>. QED BY <1>6, <1>8, <1>10 DEF SgInv

LEMMA SgPromoteInv == ASSUME SgInv, NEW c \in SgCalls, SgPromote(c) PROVE SgInv'
<1>1. /\ SgGo(c, "structure") /\ sgCall[c].pc = "promote" /\ "structure" \in SgPcs
      /\ UNCHANGED <<sgTable, sgAudit>>
  BY DEF SgPromote, SgPcs
<1>2. /\ sgReport' \in SgReports
      /\ sgReport'.flat = sgReport.flat /\ sgReport'.keys = sgReport.keys
      /\ sgReport'.derivable = sgReport.derivable
      /\ sgReport'.glossary = IF sgCall[c].seen /\ sgReport.glossary = "none"
                              THEN "promoted" ELSE sgReport.glossary
  BY DEF SgPromote, SgInv, SgTyped, SgReports
<1>3. /\ SgTyped'
      /\ sgCall'[c].pc = "structure" /\ sgCall'[c].gate = sgCall[c].gate
      /\ sgCall'[c].seen = sgCall[c].seen /\ sgCall'[c].rows = sgCall[c].rows
      /\ \A d \in SgCalls \ {c} : sgCall'[d] = sgCall[d]
  BY <1>1, <1>2, SgGoes DEF SgInv
<1>4. DOMAIN sgCall[c].rows = {} /\ DOMAIN sgCall'[c].rows = {}
  BY <1>1, <1>3 DEF SgInv, SgNormalised
<1>5. SgNormalised'
  BY <1>1, <1>2, <1>3, <1>4 DEF SgInv, SgNormalised
<1>6. ASSUME NEW d \in SgCalls, sgCall[d].pc \in {"score", "scored"}
      PROVE  SgTerms' = SgTerms /\ SgScopeOn' = SgScopeOn
  <2>1. ~sgReport.flat
    BY <1>6 DEF SgInv, SgNormalised
  <2>2. sgReport'.glossary = sgReport.glossary
    BY <2>1, <1>2 DEF SgInv, SgNormalised
  <2>. QED BY <1>1, <1>2, <2>2 DEF SgTerms, SgScopeOn
<1>7. SgFaithful' /\ SgWhole'
  BY <1>1, <1>3, <1>4, <1>6, SgBefore
<1>. QED BY <1>3, <1>5, <1>7 DEF SgInv

LEMMA SgStructureInv == ASSUME SgInv, NEW c \in SgCalls, SgStructure(c) PROVE SgInv'
<1>1. /\ SgGo(c, "keys") /\ sgCall[c].pc = "structure" /\ "keys" \in SgPcs
      /\ UNCHANGED <<sgTable, sgAudit>>
  BY DEF SgStructure, SgPcs
<1>2. /\ sgReport' \in SgReports
      /\ ~sgReport'.flat /\ sgReport'.keys = sgReport.keys
      /\ sgReport'.derivable = sgReport.derivable
      /\ sgReport'.glossary = sgReport.glossary
  BY DEF SgStructure, SgInv, SgTyped, SgReports
<1>3. /\ SgTyped'
      /\ sgCall'[c].pc = "keys" /\ sgCall'[c].gate = sgCall[c].gate
      /\ sgCall'[c].seen = sgCall[c].seen /\ sgCall'[c].rows = sgCall[c].rows
      /\ \A d \in SgCalls \ {c} : sgCall'[d] = sgCall[d]
  BY <1>1, <1>2, SgGoes DEF SgInv
<1>4. DOMAIN sgCall[c].rows = {} /\ DOMAIN sgCall'[c].rows = {}
  BY <1>1, <1>3 DEF SgInv, SgNormalised
<1>5. sgReport.glossary = "none" => ~sgReport.flat
  BY <1>1 DEF SgInv, SgNormalised
<1>6. SgNormalised'
  BY <1>1, <1>2, <1>3, <1>4, <1>5 DEF SgInv, SgNormalised
<1>7. ASSUME NEW d \in SgCalls, sgCall[d].pc \in {"score", "scored"}
      PROVE  SgTerms' = SgTerms /\ SgScopeOn' = SgScopeOn
  <2>1. ~sgReport.flat
    BY <1>7 DEF SgInv, SgNormalised
  <2>. QED BY <1>1, <1>2, <2>1 DEF SgTerms, SgScopeOn
<1>8. SgFaithful' /\ SgWhole'
  BY <1>1, <1>3, <1>4, <1>7, SgBefore
<1>. QED BY <1>3, <1>6, <1>8 DEF SgInv

LEMMA SgKeysInv == ASSUME SgInv, NEW c \in SgCalls, SgKeys(c) PROVE SgInv'
<1>1. /\ SgGo(c, "score") /\ sgCall[c].pc = "keys" /\ "score" \in SgPcs
      /\ UNCHANGED <<sgTable, sgAudit>>
  BY DEF SgKeys, SgPcs
<1>2. /\ sgReport' \in SgReports
      /\ sgReport'.flat = sgReport.flat
      /\ sgReport'.keys = (sgReport.keys \/ sgReport.derivable)
      /\ sgReport'.derivable = sgReport.derivable
      /\ sgReport'.glossary = sgReport.glossary
  BY DEF SgKeys, SgInv, SgTyped, SgReports
<1>3. /\ SgTyped'
      /\ sgCall'[c].pc = "score" /\ sgCall'[c].gate = sgCall[c].gate
      /\ sgCall'[c].seen = sgCall[c].seen /\ sgCall'[c].rows = sgCall[c].rows
      /\ \A d \in SgCalls \ {c} : sgCall'[d] = sgCall[d]
  BY <1>1, <1>2, SgGoes DEF SgInv
<1>4. DOMAIN sgCall[c].rows = {} /\ DOMAIN sgCall'[c].rows = {}
  BY <1>1, <1>3 DEF SgInv, SgNormalised
<1>5. SgNormalised'
  BY <1>1, <1>2, <1>3, <1>4 DEF SgInv, SgNormalised
<1>6. ASSUME NEW d \in SgCalls, sgCall[d].pc \in {"score", "scored"}
      PROVE  SgTerms' = SgTerms /\ SgScopeOn' = SgScopeOn
  <2>1. sgReport.derivable => sgReport.keys
    BY <1>6 DEF SgInv, SgNormalised
  <2>2. sgReport'.keys = sgReport.keys
    BY <1>2, <2>1 DEF SgInv, SgTyped, SgReports
  <2>. QED BY <1>1, <1>2, <2>2 DEF SgTerms, SgScopeOn
<1>7. SgFaithful' /\ SgWhole'
  BY <1>1, <1>3, <1>4, <1>6, SgBefore
<1>. QED BY <1>3, <1>5, <1>7 DEF SgInv

LEMMA SgScoreInv == ASSUME SgInv, NEW c \in SgCalls, SgScore(c) PROVE SgInv'
<1>1. PICK t, rows :
        /\ t \in SgTables /\ t \notin DOMAIN sgCall[c].rows
        /\ rows = [u \in DOMAIN sgCall[c].rows \union {t} |->
                     IF u = t THEN SgQueueOf(t, sgCall[c].gate) ELSE sgCall[c].rows[u]]
        /\ sgCall' = [sgCall EXCEPT ![c] = [@ EXCEPT
                        !.rows = rows, !.pc = IF DOMAIN rows = SgTables THEN "scored" ELSE "score"]]
  BY Zenon DEF SgScore
<1>2. PICK pc : pc = IF DOMAIN rows = SgTables THEN "scored" ELSE "score"
  OBVIOUS
<1>3. PICK r : r = [sgCall[c] EXCEPT !.rows = rows, !.pc = pc]
  OBVIOUS
<1>4. sgCall' = [sgCall EXCEPT ![c] = r]
  BY <1>1, <1>2, <1>3
<1>5. /\ sgCall[c].pc = "score" /\ UNCHANGED <<sgTable, sgReport, sgAudit>>
      /\ sgAudit \subseteq SgTables /\ sgReport \in SgReports /\ SgIsCall(sgCall[c])
  BY DEF SgScore, SgInv, SgTyped
<1>6. DOMAIN rows = DOMAIN sgCall[c].rows \cup {t} /\ DOMAIN rows \subseteq SgTables
  <2>1. DOMAIN rows = DOMAIN sgCall[c].rows \cup {t}
    BY <1>1, Zenon
  <2>2. DOMAIN sgCall[c].rows \subseteq SgTables
    BY <1>5 DEF SgIsCall
  <2>3. t \in SgTables
    BY <1>1, Zenon
  <2>. QED BY <2>1, <2>2, <2>3
<1>7. SgIsCall(r) /\ r.pc = pc /\ r.gate = sgCall[c].gate /\ r.seen = sgCall[c].seen /\ r.rows = rows
  <2>1. sgCall[c] = [pc |-> sgCall[c].pc, kind |-> sgCall[c].kind, gate |-> sgCall[c].gate,
                     seen |-> sgCall[c].seen, rows |-> sgCall[c].rows]
    BY <1>5 DEF SgIsCall
  <2>2. r = [pc |-> pc, kind |-> sgCall[c].kind, gate |-> sgCall[c].gate,
             seen |-> sgCall[c].seen, rows |-> rows]
    BY <1>3, <2>1
  <2>3. pc \in SgPcs
    BY <1>2 DEF SgPcs
  <2>. QED BY <2>2, <2>3, <1>5, <1>6 DEF SgIsCall
<1>8. SgTyped' /\ sgCall'[c] = r /\ \A d \in SgCalls \ {c} : sgCall'[d] = sgCall[d]
  BY <1>4, <1>5, <1>7, SgMoved DEF SgInv
<1>9. pc \in {"score", "scored"}
  BY <1>2
<1>10. SgNormalised'
  BY <1>5, <1>7, <1>8, <1>9 DEF SgInv, SgNormalised
<1>11. ASSUME NEW u, NEW g PROVE SgQueueOf(u, g)' = SgQueueOf(u, g)
  BY <1>5 DEF SgQueueOf, SgTerms, SgBlocked, SgScopeOn, SgWarned
<1>12. ASSUME NEW u \in DOMAIN rows PROVE rows[u] = SgQueueOf(u, sgCall[c].gate)
  <2>1. CASE u = t
    BY <1>1, <2>1
  <2>2. CASE u # t
    <3>1. u \in DOMAIN sgCall[c].rows
      BY <1>6, <2>2
    <3>2. rows[u] = sgCall[c].rows[u]
      BY <1>1, <2>2, <3>1
    <3>. QED BY <3>1, <3>2 DEF SgInv, SgFaithful
  <2>. QED BY <2>1, <2>2
<1>13. ASSUME NEW d \in SgCalls, NEW u \in DOMAIN sgCall'[d].rows
       PROVE  sgCall'[d].rows[u] = SgQueueOf(u, sgCall'[d].gate)
  <2>1. CASE d = c
    BY <2>1, <1>7, <1>8, <1>12
  <2>2. CASE d # c
    BY <2>2, <1>8 DEF SgInv, SgFaithful
  <2>. QED BY <2>1, <2>2
<1>14. ASSUME NEW u \in sgAudit'
       PROVE  \E d \in SgCalls : u \in DOMAIN sgCall'[d].rows /\ sgCall'[d].rows[u] = "green"
  <2>1. PICK d \in SgCalls : u \in DOMAIN sgCall[d].rows /\ sgCall[d].rows[u] = "green"
    BY <1>5, <1>14 DEF SgInv, SgFaithful
  <2>2. CASE d = c
    <3>1. u \in DOMAIN rows /\ rows[u] = sgCall[c].rows[u]
      BY <1>6, <1>12, <2>1, <2>2 DEF SgInv, SgFaithful
    <3>. QED BY <3>1, <2>1, <2>2, <1>7, <1>8
  <2>3. CASE d # c
    BY <2>1, <2>3, <1>8
  <2>. QED BY <2>2, <2>3
<1>15. SgFaithful'
  BY <1>11, <1>13, <1>14 DEF SgFaithful
<1>16. SgWhole'
  <2>1. r.pc = "scored" => DOMAIN r.rows = SgTables
    BY <1>2, <1>7
  <2>. QED BY <2>1, <1>8 DEF SgInv, SgWhole
<1>. QED BY <1>8, <1>10, <1>15, <1>16 DEF SgInv

LEMMA SgApproveInv == ASSUME SgInv, NEW c \in SgCalls, SgApprove(c) PROVE SgInv'
<1>1. PICK t \in SgTables : sgCall[c].rows[t] = "green" /\ sgAudit' = sgAudit \union {t}
  BY DEF SgApprove
<1>2. UNCHANGED <<sgTable, sgReport, sgCall>> /\ t \in DOMAIN sgCall[c].rows
  BY DEF SgApprove, SgInv, SgWhole
<1>3. SgTyped'
  BY <1>1, <1>2 DEF SgInv, SgTyped
<1>4. SgNormalised' /\ SgWhole'
  BY <1>2 DEF SgInv, SgNormalised, SgWhole
<1>5. ASSUME NEW u, NEW g PROVE SgQueueOf(u, g)' = SgQueueOf(u, g)
  BY <1>2 DEF SgQueueOf, SgTerms, SgBlocked, SgScopeOn, SgWarned
<1>6. SgFaithful'
  BY <1>1, <1>2, <1>5 DEF SgInv, SgFaithful
<1>. QED BY <1>3, <1>4, <1>6 DEF SgInv

LEMMA SgStepInv == SgInv /\ [SgNext]_sgVars => SgInv'
<1> SUFFICES ASSUME SgInv, [SgNext]_sgVars PROVE SgInv'
  OBVIOUS
<1>1. CASE SgNext
  BY <1>1, SgStartInv, SgPromoteInv, SgStructureInv, SgKeysInv, SgScoreInv, SgApproveInv DEF SgNext
<1>2. CASE UNCHANGED sgVars
  <2>1. UNCHANGED <<sgTable, sgReport, sgCall, sgAudit>>
    BY <1>2 DEF sgVars
  <2>2. ASSUME NEW u, NEW g PROVE SgQueueOf(u, g)' = SgQueueOf(u, g)
    BY <2>1 DEF SgQueueOf, SgTerms, SgBlocked, SgScopeOn, SgWarned
  <2>3. SgTyped' /\ SgNormalised' /\ SgWhole'
    BY <2>1 DEF SgInv, SgTyped, SgNormalised, SgWhole
  <2>4. SgFaithful'
    BY <2>1, <2>2 DEF SgInv, SgFaithful
  <2>. QED BY <2>3, <2>4 DEF SgInv
<1>. QED BY <1>1, <1>2

\* Every evaluation first normalises the shared report in place, while others may be in
\* any step of the same; still any two of them agree on every table, for every inventory,
\* gate and number of threads: the order of the gates and of the signals is kept, and what
\* one of them approved in bulk no other one blocks.
THEOREM SgVerdictsAgreeHolds == SgSpec => []SgVerdictsAgree
<1>1. SgInv => SgVerdictsAgree
  <2> SUFFICES ASSUME SgInv, NEW c \in SgCalls, NEW d \in SgCalls,
                      NEW s \in DOMAIN sgCall[c].rows, NEW t \in DOMAIN sgCall[d].rows
               PROVE  /\ /\ sgCall[c].gate[1] >= sgCall[d].gate[1]
                         /\ sgCall[c].gate[2] <= sgCall[d].gate[2]
                         /\ s = t \/ SgNoBetter(sgTable[s], sgTable[t])
                         => SgRank(sgCall[c].rows[s]) <= SgRank(sgCall[d].rows[t])
                      /\ t \in sgAudit => sgCall[d].rows[t] # "red"
    BY DEF SgVerdictsAgree
  <2>1. /\ s \in SgTables /\ t \in SgTables
        /\ sgCall[c].gate \in Nat \X Nat /\ sgCall[d].gate \in Nat \X Nat
    BY DEF SgInv, SgTyped, SgIsCall
  <2>2. /\ sgCall[c].rows[s] = SgQueueOf(s, sgCall[c].gate)
        /\ sgCall[d].rows[t] = SgQueueOf(t, sgCall[d].gate)
    BY DEF SgInv, SgFaithful
  <2>3. t \in sgAudit => \E e \in SgCalls : SgQueueOf(t, sgCall[e].gate) = "green"
    BY DEF SgInv, SgFaithful
  <2>4. t \in sgAudit => SgQueueOf(t, sgCall[d].gate) # "red"
    BY <2>3, SgGreenIsNotRed
  <2>. QED BY <2>1, <2>2, <2>4, SgQueueOfUp DEF SgInv
<1>. QED BY SgInitInv, SgStepInv, <1>1, PTL DEF SgSpec

\* The evaluations and the report they share keep their kinds, however the normalisations
\* and the scores of several calls interleave, and a score is one of three.
THEOREM SgTypesHold == SgSpec => []SgTypeOK
<1>1. ASSUME SgInv PROVE SgTypeOK
  <2>1. ASSUME NEW c \in SgCalls, NEW t \in DOMAIN sgCall[c].rows
        PROVE  sgCall[c].rows[t] \in {"green", "yellow", "red"}
    <3>1. sgCall[c].rows[t] = SgQueueOf(t, sgCall[c].gate)
      BY <1>1 DEF SgInv, SgFaithful
    <3>. QED BY <3>1 DEF SgQueueOf, SgQueue
  <2>. QED BY <1>1, <2>1 DEF SgTypeOK, SgInv, SgTyped, SgReports, SgIsCall, SgPcs
<1>. QED BY SgInitInv, SgStepInv, <1>1, PTL DEF SgSpec

-----------------------------------------------------------------------------
(* ApproveTable *)

ApPcs == {"idle", "proposing", "write", "scan", "trim", "bootstrap", "run", "running", "test",
          "testing", "record", "fix", "answered"}

ApIsCall(r) ==
    /\ r = [pc |-> r.pc, model |-> r.model, stage |-> r.stage, todo |-> r.todo, at |-> r.at,
            read |-> r.read, seen |-> r.seen, tries |-> r.tries, alone |-> r.alone,
            answer |-> r.answer]
    /\ r.pc \in ApPcs /\ r.stage \in ApStages /\ r.alone \in BOOLEAN
    /\ r.todo \subseteq ApModels
    /\ r.pc # "idle" => r.model \in ApModels
    /\ r.pc = "fix" => r.stage = "proposed"
    /\ r.pc = "record" => r.stage # "passthrough"
    /\ r.pc # "answered" => r.answer = "none"

ApTyped ==
    /\ apFile = [m \in ApModels |-> apFile[m]]
    /\ apCall = [c \in ApCalls |-> apCall[c]]
    /\ \A c \in ApCalls : ApIsCall(apCall[c])
    /\ apGood = [t \in ApTexts |-> apGood[t]]

\* Whether a call has written its text of a stage; only then can the text be anywhere.
ApWrote(c, stage) ==
    /\ apCall[c].pc \notin {"idle", "proposing"}
    /\ \/ apCall[c].stage = stage /\ apCall[c].pc # "write"
       \/ stage = "proposed" /\ apCall[c].stage # "proposed"
       \/ stage = "fix" /\ apCall[c].stage = "passthrough"
ApHeld(text) ==
    \/ \E m \in ApModels : apFile[m].text = text
    \/ \E d \in ApCalls : apCall[d].read = text \/ apCall[d].seen = text
ApUnwritten ==
    \A c \in ApCalls, stage \in ApStages :
       ~ApWrote(c, stage) => apGood[<<c, stage>>] = "open" /\ ~ApHeld(<<c, stage>>)

\* Who approves alone: nobody else is at work beside it.
ApAtWork(c) == apCall[c].pc \notin {"idle", "answered", "proposing"}
ApAlone(c) == apCall[c].alone /\ apCall[c].pc \notin {"idle", "proposing"}
ApNobodyElse ==
    \A c \in ApCalls : ApAlone(c) => \A d \in ApCalls \ {c} : ~ApAtWork(d)

\* What the file and the tests show of a call that approves alone: the file has its text of
\* this stage, which dbt has not been asked about, or has refused, until the call ends.
ApText(c) == <<c, apCall[c].stage>>
ApLeft(c) == apFile[apCall[c].model].text
ApVerdict(stage) == IF stage = "passthrough" THEN "degraded_passthrough" ELSE "approved"
ApOnItsWay(c) ==
    /\ apCall[c].pc # "write" /\ apCall[c].answer # "error" => ApLeft(c) = ApText(c)
    /\ apCall[c].pc \in {"scan", "trim", "bootstrap", "run", "running", "test", "testing"}
         => apGood[ApText(c)] = "open"
    /\ apCall[c].pc = "fix" => apGood[ApText(c)] # "yes"
    /\ apCall[c].pc = "record" => apGood[ApText(c)] = "yes"
    /\ apCall[c].pc = "trim" => apCall[c].read = apFile[apCall[c].at].text
    /\ apCall[c].pc \in {"running", "test", "testing"} => apCall[c].seen = ApText(c)
    /\ apCall[c].pc = "answered" /\ apCall[c].answer # "error" =>
         \/ apCall[c].answer = "failed" /\ apGood[ApText(c)] # "yes"
         \/ apCall[c].answer = ApVerdict(apCall[c].stage) /\ apGood[ApText(c)] = "yes"

\* What they show of any call whose file still has the text it wrote last, whoever else is at
\* work: dbt was asked about that text and no other, and a success is dbt's.
ApKeeps(c) ==
    /\ apCall[c].pc \notin {"idle", "proposing"}
    /\ apCall[c].pc # "write" /\ apCall[c].answer # "error" => ApLeft(c) = ApText(c)
    /\ apCall[c].pc \in {"running", "test", "testing", "record"} => apCall[c].seen = ApText(c)
    /\ apCall[c].pc = "record" => apGood[ApText(c)] = "yes"
    /\ apCall[c].pc = "answered" /\ apCall[c].answer \notin {"error", "failed"} =>
         apCall[c].answer = ApVerdict(apCall[c].stage) /\ apGood[ApText(c)] = "yes"

\* Only an approved call has a decision in the audit trail.
ApAudited ==
    \A c \in apAudit : c \in ApCalls /\ apCall[c].pc = "answered" /\ apCall[c].answer = "approved"

ApInv ==
    /\ ApTyped /\ ApUnwritten /\ ApNobodyElse /\ ApAudited
    /\ \A c \in ApCalls : ApAlone(c) => ApOnItsWay(c)
    /\ apOwn \subseteq ApCalls /\ \A c \in apOwn : ApKeeps(c)

\* What dbt has accepted stays accepted.
ApVerdictsStay == \A t \in ApTexts : apGood[t] = "yes" => apGood'[t] = "yes"

\* A step of one call leaves alone what the others can count on, unless it writes their file.
LEMMA ApOthersKeep ==
    ASSUME ApInv, NEW c \in ApCalls, ApVerdictsStay,
           \A d \in ApCalls \ {c} : apCall'[d] = apCall[d],
           apOwn' \subseteq apOwn \cup {c},
           \A d \in apOwn' \ {c} : ApLeft(d)' = ApLeft(d),
           c \in apOwn' => ApKeeps(c)'
    PROVE  apOwn' \subseteq ApCalls /\ \A d \in apOwn' : ApKeeps(d)'
<1>1. ASSUME NEW d \in apOwn', d # c
      PROVE  ApKeeps(d)'
  <2>1. d \in ApCalls /\ ApKeeps(d) /\ apCall'[d] = apCall[d] /\ ApLeft(d)' = ApLeft(d)
    BY <1>1 DEF ApInv
  <2>2. ApText(d) \in ApTexts
    BY <2>1 DEF ApInv, ApTyped, ApIsCall, ApText, ApTexts
  <2>3. ApText(d)' = ApText(d) /\ (apGood[ApText(d)] = "yes" => apGood'[ApText(d)] = "yes")
    BY <2>1, <2>2 DEF ApText, ApVerdictsStay
  <2>. QED BY <2>1, <2>3 DEF ApKeeps
<1>. QED BY <1>1 DEF ApInv

LEMMA ApNoText == ASSUME NEW x, NEW s PROVE <<>> # <<x, s>>
OBVIOUS

\* A text that is nowhere and has not been written stays so: a call reads what a file
\* holds, a file gets what a call has read or writes, and dbt is asked about what was read.
LEMMA ApStaysUnwritten ==
    ASSUME ApUnwritten, NEW c \in ApCalls,
           \A d \in ApCalls \ {c} :
              /\ apCall'[d].pc = apCall[d].pc /\ apCall'[d].stage = apCall[d].stage
              /\ apCall'[d].read = apCall[d].read /\ apCall'[d].seen = apCall[d].seen,
           \/ apCall'[c].read \in {<<>>, apCall[c].read}
           \/ \E m \in ApModels : apCall'[c].read = apFile[m].text,
           \/ apCall'[c].seen \in {<<>>, apCall[c].seen}
           \/ \E m \in ApModels : apCall'[c].seen = apFile[m].text,
           \A m \in ApModels :
              \/ apFile'[m].text \in {apFile[m].text, apCall[c].read}
              \/ \E stage \in ApStages : ApWrote(c, stage)' /\ apFile'[m].text = <<c, stage>>,
           \A stage \in ApStages : ApWrote(c, stage) => ApWrote(c, stage)',
           \A d \in ApCalls, stage \in ApStages :
              apGood'[<<d, stage>>] = apGood[<<d, stage>>] \/ ApWrote(d, stage)
    PROVE  ApUnwritten'
<1> SUFFICES ASSUME NEW d \in ApCalls, NEW stage \in ApStages, ~ApWrote(d, stage)'
             PROVE  apGood'[<<d, stage>>] = "open" /\ ~ApHeld(<<d, stage>>)'
  BY DEF ApUnwritten
<1>1. ~ApWrote(d, stage)
  <2>1. CASE d = c
    BY <2>1
  <2>2. CASE d # c
    BY <2>2 DEF ApWrote
  <2>. QED BY <2>1, <2>2
<1>2. apGood[<<d, stage>>] = "open" /\ ~ApHeld(<<d, stage>>)
  BY <1>1 DEF ApUnwritten
<1>. DEFINE t == <<d, stage>>
<1>3. t # <<>>
  BY ApNoText
<1>4. /\ \A m \in ApModels : apFile[m].text # t
      /\ \A e \in ApCalls : apCall[e].read # t /\ apCall[e].seen # t
  BY <1>2 DEF ApHeld
<1>5. \A s \in ApStages : ApWrote(c, s)' => t # <<c, s>>
  BY Zenon
<1>. HIDE DEF t
<1>6. \A m \in ApModels : apFile'[m].text # t
  BY <1>4, <1>5
<1>7. \A e \in ApCalls : apCall'[e].read # t /\ apCall'[e].seen # t
  BY <1>3, <1>4
<1>8. ~ApHeld(t)'
  BY <1>6, <1>7 DEF ApHeld
<1>9. apGood'[<<d, stage>>] = "open"
  BY <1>1, <1>2
<1>. QED BY <1>8, <1>9 DEF t

\* One call gets a new record.
LEMMA ApMoved ==
    ASSUME ApTyped, NEW c \in ApCalls, NEW r, ApIsCall(r), apCall' = [apCall EXCEPT ![c] = r]
    PROVE  /\ apCall'[c] = r
           /\ \A d \in ApCalls \ {c} : apCall'[d] = apCall[d]
           /\ apCall' = [d \in ApCalls |-> apCall'[d]]
           /\ \A d \in ApCalls : ApIsCall(apCall'[d])
<1>1. /\ apCall'[c] = r
      /\ \A d \in ApCalls \ {c} : apCall'[d] = apCall[d]
      /\ apCall' = [d \in ApCalls |-> apCall'[d]]
  BY DEF ApTyped
<1>. QED BY <1>1 DEF ApTyped

\* A step of a call at work: beside it nobody approves alone.
LEMMA ApWorks ==
    ASSUME ApInv, NEW c \in ApCalls, ApAtWork(c),
           \A d \in ApCalls \ {c} : apCall'[d] = apCall[d],
           apCall'[c].alone = apCall[c].alone, apCall'[c].pc \notin {"idle", "proposing"},
           ApTyped', ApUnwritten', ApAudited', ApAlone(c) => ApOnItsWay(c)',
           ApVerdictsStay, apOwn' \subseteq apOwn \cup {c},
           \A d \in apOwn' \ {c} : ApLeft(d)' = ApLeft(d), c \in apOwn' => ApKeeps(c)'
    PROVE  ApInv'
<1>1. ASSUME NEW d \in ApCalls \ {c} PROVE ~ApAlone(d) /\ ~ApAlone(d)'
  BY DEF ApInv, ApNobodyElse, ApAlone
<1>2. ApAlone(c)' => ApAlone(c)
  BY DEF ApAlone, ApAtWork
<1>3. ApNobodyElse'
  BY <1>1, <1>2 DEF ApInv, ApNobodyElse, ApAtWork
<1>4. \A d \in ApCalls : ApAlone(d)' => ApOnItsWay(d)'
  BY <1>1, <1>2
<1>5. apOwn' \subseteq ApCalls /\ \A d \in apOwn' : ApKeeps(d)'
  BY ApOthersKeep
<1>. QED BY <1>3, <1>4, <1>5 DEF ApInv

\* A call that is still at work is not in the audit trail.
LEMMA ApAuditStays ==
    ASSUME ApAudited, NEW c \in ApCalls, apCall[c].pc # "answered",
           \A d \in ApCalls \ {c} : apCall'[d] = apCall[d],
           \/ apAudit' = apAudit
           \/ /\ apAudit' = apAudit \cup {c}
              /\ apCall'[c].pc = "answered" /\ apCall'[c].answer = "approved"
    PROVE  ApAudited'
BY DEF ApAudited

LEMMA ApInitInv == ApInit => ApInv
<1> SUFFICES ASSUME ApInit PROVE ApInv
  OBVIOUS
<1>1. \A c \in ApCalls : apCall[c] = ApIdle
  BY DEF ApInit
<1>2. ApIsCall(ApIdle) /\ ApIdle.pc = "idle" /\ ApIdle.read = <<>> /\ ApIdle.seen = <<>>
  BY DEF ApIsCall, ApIdle, ApPcs, ApStages
<1>3. ApTyped
  BY <1>1, <1>2 DEF ApTyped, ApInit
<1>4. ApUnwritten
  <2>1. ASSUME NEW c \in ApCalls, NEW stage \in ApStages
        PROVE  apGood[<<c, stage>>] = "open" /\ ~ApHeld(<<c, stage>>)
    <3>1. <<c, stage>> \in ApTexts
      BY DEF ApTexts
    <3>2. apGood[<<c, stage>>] = "open"
      BY <3>1 DEF ApInit
    <3>3. \A m \in ApModels : apFile[m].text = <<>>
      BY DEF ApInit, ApNoFile
    <3>. QED BY <3>2, <3>3, <1>1, <1>2, ApNoText DEF ApHeld
  <2>. QED BY <2>1 DEF ApUnwritten
<1>5. \A c \in ApCalls : ~ApAlone(c)
  BY <1>1, <1>2 DEF ApAlone
<1>6. ApAudited
  BY <1>1, <1>2 DEF ApAudited, ApInit
<1>7. apOwn = {}
  BY DEF ApInit
<1>. QED BY <1>3, <1>4, <1>5, <1>6, <1>7 DEF ApInv, ApNobodyElse

\* ---- proposals ---------------------------------------------------------------------

\* A step of a call that does not approve, before and after.
LEMMA ApOnlyProposes ==
    ASSUME ApInv, NEW c \in ApCalls, NEW r, ApIsCall(r), apCall' = [apCall EXCEPT ![c] = r],
           apCall[c].pc \in {"idle", "proposing"}, r.pc \in {"idle", "proposing"},
           r.read = <<>>, r.seen = <<>>, UNCHANGED <<apFile, apGood, apAudit, apOwn>>
    PROVE  ApInv'
<1>1. /\ apCall'[c] = r
      /\ \A d \in ApCalls \ {c} : apCall'[d] = apCall[d]
      /\ apCall' = [d \in ApCalls |-> apCall'[d]]
      /\ \A d \in ApCalls : ApIsCall(apCall'[d])
  BY ApMoved DEF ApInv
<1>2. ApTyped'
  BY <1>1 DEF ApInv, ApTyped
<1>3. ApUnwritten'
  <2>1. \A stage \in ApStages : ~ApWrote(c, stage)
    BY DEF ApWrote
  <2>. QED BY <1>1, <2>1, ApStaysUnwritten DEF ApInv
<1>4. ApAudited'
  <2>1. apCall[c].pc # "answered" /\ apCall'[c].pc # "answered"
    BY <1>1
  <2>. QED BY <1>1, <2>1, ApAuditStays DEF ApInv
<1>5. ~ApAlone(c)' /\ ~ApAtWork(c)'
  BY <1>1 DEF ApAlone, ApAtWork
<1>6. ASSUME NEW d \in ApCalls, ApAlone(d)'
      PROVE  ApAlone(d) /\ d # c /\ apCall'[d] = apCall[d]
  BY <1>1, <1>5, <1>6 DEF ApAlone
<1>7. ApNobodyElse'
  BY <1>1, <1>5, <1>6 DEF ApInv, ApNobodyElse, ApAtWork
<1>8. ASSUME NEW d \in ApCalls, ApAlone(d)' PROVE ApOnItsWay(d)'
  <2>1. ApOnItsWay(d) /\ apCall'[d] = apCall[d]
    BY <1>6, <1>8 DEF ApInv
  <2>. QED BY <2>1 DEF ApOnItsWay, ApText, ApLeft
<1>9. apOwn' \subseteq ApCalls /\ \A d \in apOwn' : ApKeeps(d)'
  <2>1. c \notin apOwn
    BY DEF ApInv, ApKeeps
  <2>2. \A d \in apOwn' \ {c} : ApLeft(d)' = ApLeft(d)
    BY <1>1 DEF ApLeft, ApInv
  <2>3. ApVerdictsStay
    BY DEF ApVerdictsStay
  <2>. QED BY <1>1, <2>1, <2>2, <2>3, ApOthersKeep
<1>. QED BY <1>2, <1>3, <1>4, <1>7, <1>8, <1>9 DEF ApInv

LEMMA ApIdleIs ==
    ApIdle = [pc |-> "idle", model |-> "none", stage |-> "proposed", todo |-> {}, at |-> "none",
              read |-> <<>>, seen |-> <<>>, tries |-> 0, alone |-> TRUE, answer |-> "none"]
BY DEF ApIdle

LEMMA ApProposeInv == ASSUME ApInv, NEW c \in ApCalls, ApPropose(c) PROVE ApInv'
<1>1. PICK m \in ApModels : ApSet(c, [ApIdle EXCEPT !.pc = "proposing", !.model = m])
  BY DEF ApPropose
<1>2. PICK r : r = [ApIdle EXCEPT !.pc = "proposing", !.model = m]
  OBVIOUS
<1>3. apCall' = [apCall EXCEPT ![c] = r]
  BY <1>1, <1>2 DEF ApSet
<1>4. r = [pc |-> "proposing", model |-> m, stage |-> "proposed", todo |-> {}, at |-> "none",
           read |-> <<>>, seen |-> <<>>, tries |-> 0, alone |-> TRUE, answer |-> "none"]
  BY <1>2, ApIdleIs
<1>5. ApIsCall(r) /\ r.pc = "proposing" /\ r.read = <<>> /\ r.seen = <<>>
  BY <1>4 DEF ApIsCall, ApPcs, ApStages
<1>. QED BY <1>3, <1>5, ApOnlyProposes DEF ApPropose

LEMMA ApProposedInv == ASSUME ApInv, NEW c \in ApCalls, ApProposed(c) PROVE ApInv'
<1>1. ApIsCall(ApIdle) /\ ApIdle.pc = "idle" /\ ApIdle.read = <<>> /\ ApIdle.seen = <<>>
  BY DEF ApIsCall, ApIdle, ApPcs, ApStages
<1>2. apCall' = [apCall EXCEPT ![c] = ApIdle]
  BY DEF ApProposed, ApSet
<1>. QED BY <1>1, <1>2, ApOnlyProposes DEF ApProposed

\* ---- the approval ------------------------------------------------------------------

\* The record of a call that is watched: only the mark of a lone approval changes.
LEMMA ApWatchedRecord ==
    ASSUME NEW call, ApIsCall(call), NEW alone \in BOOLEAN, NEW r,
           r = [call EXCEPT !.alone = alone]
    PROVE  /\ ApIsCall(r) /\ r.alone = alone
           /\ r.pc = call.pc /\ r.stage = call.stage /\ r.answer = call.answer
           /\ r.read = call.read /\ r.seen = call.seen /\ r.model = call.model
BY DEF ApIsCall

LEMMA ApApproveInv == ASSUME ApInv, NEW c \in ApCalls, ApApprove(c) PROVE ApInv'
<1>1. PICK m \in ApModels :
        apCall' = ApWatched([apCall EXCEPT ![c] = [ApIdle EXCEPT !.pc = "write", !.model = m]])
  BY DEF ApApprove
<1>2. PICK r : r = [ApIdle EXCEPT !.pc = "write", !.model = m]
  OBVIOUS
<1>3. PICK calls : calls = [apCall EXCEPT ![c] = r]
  OBVIOUS
<1>4. apCall' = ApWatched(calls)
  BY <1>1, <1>2, <1>3
<1>5. r = [pc |-> "write", model |-> m, stage |-> "proposed", todo |-> {}, at |-> "none",
           read |-> <<>>, seen |-> <<>>, tries |-> 0, alone |-> TRUE, answer |-> "none"]
  BY <1>2, ApIdleIs
<1>6. /\ ApIsCall(r) /\ r.pc = "write" /\ r.stage = "proposed" /\ r.read = <<>> /\ r.seen = <<>>
      /\ r.answer = "none"
  BY <1>5 DEF ApIsCall, ApPcs, ApStages
<1>7. /\ calls[c] = r /\ \A d \in ApCalls \ {c} : calls[d] = apCall[d]
      /\ \A d \in ApCalls : ApIsCall(calls[d])
  BY <1>3, <1>6 DEF ApInv, ApTyped
<1>. DEFINE watched(d) ==
       calls[d].alone /\ \A e \in ApCalls \ {d} : calls[e].pc \in {"idle", "answered", "proposing"}
<1>8. \A d \in ApCalls : apCall'[d] = [calls[d] EXCEPT !.alone = watched(d)]
  BY <1>4, Zenon DEF ApWatched
<1>9. apCall' = [d \in ApCalls |-> apCall'[d]]
  <2>1. PICK g : g = [d \in ApCalls |-> [calls[d] EXCEPT !.alone = watched(d)]]
    OBVIOUS
  <2>2. apCall' = g
    BY <1>4, <2>1, Zenon DEF ApWatched
  <2>3. g = [d \in ApCalls |-> g[d]]
    BY <2>1, Zenon
  <2>. QED BY <2>2, <2>3, Zenon
<1>10. ASSUME NEW d \in ApCalls
       PROVE  /\ ApIsCall(apCall'[d]) /\ apCall'[d].alone = watched(d)
              /\ apCall'[d].pc = calls[d].pc /\ apCall'[d].stage = calls[d].stage
              /\ apCall'[d].answer = calls[d].answer
              /\ apCall'[d].read = calls[d].read /\ apCall'[d].seen = calls[d].seen
              /\ apCall'[d].model = calls[d].model
  <2>1. watched(d) \in BOOLEAN
    BY <1>7 DEF ApIsCall
  <2>2. ApIsCall(calls[d]) /\ apCall'[d] = [calls[d] EXCEPT !.alone = watched(d)]
    BY <1>7, <1>8
  <2>. HIDE DEF watched
  <2>. QED BY <2>1, <2>2, ApWatchedRecord
<1>11. UNCHANGED <<apFile, apGood, apAudit, apOwn>> /\ apCall[c].pc = "idle"
  BY DEF ApApprove
<1>12. ApTyped'
  BY <1>9, <1>10, <1>11 DEF ApInv, ApTyped
<1>13. ApUnwritten'
  <2>1. \A stage \in ApStages : ~ApWrote(c, stage)
    BY <1>11 DEF ApWrote
  <2>. QED BY <1>6, <1>7, <1>10, <1>11, <2>1, ApStaysUnwritten DEF ApInv
<1>14. ApAudited'
  <2>1. apCall'[c].pc = "write"
    BY <1>6, <1>7, <1>10
  <2>2. \A d \in ApCalls \ {c} : apCall'[d].pc = apCall[d].pc /\ apCall'[d].answer = apCall[d].answer
    BY <1>7, <1>10
  <2>. QED BY <2>1, <2>2, <1>11 DEF ApInv, ApAudited
<1>15. ASSUME NEW d \in ApCalls \ {c} PROVE ~ApAlone(d)'
  <2>1. ~watched(d)
    BY <1>6, <1>7
  <2>. QED BY <2>1, <1>10 DEF ApAlone
<1>16. ApAlone(c)' => \A d \in ApCalls \ {c} : ~ApAtWork(d)'
  BY <1>10 DEF ApAlone, ApAtWork
<1>17. ApOnItsWay(c)'
  <2>1. apCall'[c].pc = "write" /\ apCall'[c].answer = "none"
    BY <1>6, <1>7, <1>10
  <2>. QED BY <2>1 DEF ApOnItsWay
<1>18. ASSUME NEW d \in apOwn'
       PROVE  d \in ApCalls /\ ApKeeps(d)'
  <2>1. d \in ApCalls /\ d # c /\ ApKeeps(d)
    BY <1>11, <1>18 DEF ApInv, ApKeeps
  <2>2. /\ apCall'[d].pc = apCall[d].pc /\ apCall'[d].stage = apCall[d].stage
        /\ apCall'[d].answer = apCall[d].answer /\ apCall'[d].seen = apCall[d].seen
        /\ apCall'[d].model = apCall[d].model
    BY <1>7, <1>10, <2>1
  <2>. QED BY <1>11, <2>1, <2>2 DEF ApKeeps, ApLeft, ApText
<1>. QED BY <1>12, <1>13, <1>14, <1>15, <1>16, <1>17, <1>18 DEF ApInv, ApNobodyElse

\* How the record of a call at work changes: what is not named stays.
LEMMA ApGoesOn ==
    ASSUME NEW call, ApIsCall(call), NEW pc \in ApPcs \ {"fix", "answered", "record"},
           call.pc \notin {"idle", "answered"},
           NEW r, NEW todo, todo \subseteq ApModels, NEW at, NEW read, NEW seen, NEW tries,
           r = [pc |-> pc, model |-> call.model, stage |-> call.stage, todo |-> todo, at |-> at,
                read |-> read, seen |-> seen, tries |-> tries, alone |-> call.alone,
                answer |-> call.answer]
    PROVE  ApIsCall(r)
BY DEF ApIsCall

LEMMA ApWriteInv == ASSUME ApInv, NEW c \in ApCalls, ApWrite(c) PROVE ApInv'
<1>. DEFINE call == apCall[c]
<1>1. PICK semi \in BOOLEAN :
        apFile' = [apFile EXCEPT ![call.model] = [text |-> <<c, call.stage>>, semi |-> semi]]
  BY DEF ApWrite
<1>2. PICK r : r = [call EXCEPT !.pc = "scan", !.todo = ApModels]
  OBVIOUS
<1>3. apCall' = [apCall EXCEPT ![c] = r] /\ call.pc = "write" /\ UNCHANGED <<apGood, apAudit>>
  BY <1>2 DEF ApWrite, ApSet
<1>4. ApIsCall(call)
  BY DEF ApInv, ApTyped
<1>5. r = [pc |-> "scan", model |-> call.model, stage |-> call.stage, todo |-> ApModels,
           at |-> call.at, read |-> call.read, seen |-> call.seen, tries |-> call.tries,
           alone |-> call.alone, answer |-> call.answer]
  BY <1>2, <1>4 DEF ApIsCall
<1>6. "scan" \in ApPcs \ {"fix", "answered", "record"}
  BY DEF ApPcs
<1>7. ApIsCall(r) /\ call.model \in ApModels /\ call.stage \in ApStages
  <2>1. call.pc \notin {"idle", "answered"} /\ ApModels \subseteq ApModels
    BY <1>3
  <2>. HIDE DEF call
  <2>2. ApIsCall(r)
    BY <1>4, <1>5, <1>6, <2>1, ApGoesOn
  <2>. QED BY <2>1, <2>2, <1>4 DEF ApIsCall
<1>8. /\ apCall'[c] = r
      /\ \A d \in ApCalls \ {c} : apCall'[d] = apCall[d]
      /\ apCall' = [d \in ApCalls |-> apCall'[d]]
      /\ \A d \in ApCalls : ApIsCall(apCall'[d])
  BY <1>3, <1>7, ApMoved DEF ApInv
<1>9. /\ r.pc = "scan" /\ r.model = call.model /\ r.stage = call.stage /\ r.read = call.read
      /\ r.seen = call.seen /\ r.alone = call.alone /\ r.answer = call.answer
  BY <1>5
<1>10. /\ apFile' = [m \in ApModels |-> apFile'[m]]
       /\ apFile'[call.model].text = <<c, call.stage>>
       /\ \A m \in ApModels \ {call.model} : apFile'[m] = apFile[m]
  BY <1>1, <1>7 DEF ApInv, ApTyped
<1>11. ApTyped'
  BY <1>3, <1>8, <1>10 DEF ApInv, ApTyped
<1>12. ApWrote(c, call.stage)' /\ ~ApWrote(c, call.stage)
  BY <1>3, <1>8, <1>9 DEF ApWrote, ApStages
<1>13. \A stage \in ApStages : ApWrote(c, stage) => ApWrote(c, stage)'
  BY <1>3, <1>8, <1>9 DEF ApWrote
<1>14. ApUnwritten'
  BY <1>3, <1>7, <1>8, <1>9, <1>10, <1>12, <1>13, ApStaysUnwritten DEF ApInv
<1>15. ApAudited'
  BY <1>3, <1>8, <1>9, ApAuditStays DEF ApInv
<1>16. ApOnItsWay(c)'
  <2>1. apGood[<<c, call.stage>>] = "open"
    BY <1>7, <1>12 DEF ApInv, ApUnwritten
  <2>. QED BY <1>3, <1>8, <1>9, <1>10, <2>1 DEF ApOnItsWay, ApText, ApLeft
<1>17. ApAtWork(c)
  BY <1>3 DEF ApAtWork
<1>18. apOwn' = ApStillOwn(call.model, <<c, call.stage>>) \cup {c}
  BY DEF ApWrite
<1>19. apOwn' \subseteq apOwn \cup {c} /\ \A d \in apOwn' \ {c} : ApLeft(d)' = ApLeft(d)
  <2>1. \A d \in apOwn : apCall[d].model \in ApModels
    BY DEF ApInv, ApTyped, ApIsCall, ApKeeps
  <2>. QED BY <1>8, <1>10, <1>18, <2>1 DEF ApStillOwn, ApLeft, ApInv
<1>20. ApKeeps(c)'
  BY <1>8, <1>9, <1>10 DEF ApKeeps, ApLeft, ApText
<1>21. ApVerdictsStay
  BY <1>3 DEF ApVerdictsStay
<1>. QED BY <1>8, <1>9, <1>11, <1>14, <1>15, <1>16, <1>17, <1>19, <1>20, <1>21, ApWorks

\* A step of a call at work that writes no file and asks dbt nothing.
LEMMA ApTurns ==
    ASSUME ApInv, NEW c \in ApCalls, ApAtWork(c), NEW r, ApIsCall(r),
           apCall' = [apCall EXCEPT ![c] = r],
           r.pc \notin {"idle", "proposing", "write", "answered", "fix", "record"},
           apCall[c].pc \notin {"write", "record"},
           r.model = apCall[c].model, r.stage = apCall[c].stage, r.alone = apCall[c].alone,
           r.answer = apCall[c].answer,
           r.read = apCall[c].read \/ \E m \in ApModels : r.read = apFile[m].text,
           r.seen = apCall[c].seen \/ r.seen = ApLeft(c),
           r.pc = "trim" => r.read = apFile[r.at].text,
           r.pc = "running" => r.seen = ApLeft(c) \/ apCall[c].pc = "running",
           r.pc \in {"test", "testing"} =>
              r.seen = apCall[c].seen /\ apCall[c].pc \in {"running", "test", "testing"},
           apCall[c].pc # "fix", UNCHANGED <<apFile, apGood, apAudit, apOwn>>
    PROVE  ApInv'
<1>1. /\ apCall'[c] = r
      /\ \A d \in ApCalls \ {c} : apCall'[d] = apCall[d]
      /\ apCall' = [d \in ApCalls |-> apCall'[d]]
      /\ \A d \in ApCalls : ApIsCall(apCall'[d])
  BY ApMoved DEF ApInv
<1>2. ApTyped'
  BY <1>1 DEF ApInv, ApTyped
<1>3. \A stage \in ApStages : ApWrote(c, stage) => ApWrote(c, stage)'
  BY <1>1 DEF ApWrote
<1>4. apCall[c].model \in ApModels /\ apCall[c].pc \in ApPcs
  BY DEF ApInv, ApTyped, ApIsCall, ApAtWork
<1>5. ApUnwritten'
  BY <1>1, <1>3, <1>4, ApStaysUnwritten DEF ApInv, ApLeft
<1>6. ApAudited'
  BY <1>1, ApAuditStays DEF ApInv, ApAtWork
<1>7. ApAlone(c) => ApOnItsWay(c)'
  <2> SUFFICES ASSUME ApAlone(c) PROVE ApOnItsWay(c)'
    OBVIOUS
  <2>1. ApOnItsWay(c)
    BY DEF ApInv
  <2>2. apCall[c].pc \in {"scan", "trim", "bootstrap", "run", "running", "test", "testing"}
    BY <1>4 DEF ApAtWork, ApPcs
  <2>3. apCall[c].answer = "none"
    BY DEF ApInv, ApTyped, ApIsCall, ApAtWork
  <2>4. ApLeft(c) = ApText(c) /\ apGood[ApText(c)] = "open"
    BY <2>1, <2>2, <2>3 DEF ApOnItsWay
  <2>5. ApLeft(c)' = ApLeft(c) /\ ApText(c)' = ApText(c)
    BY <1>1 DEF ApLeft, ApText
  <2>6. r.pc \in {"running", "test", "testing"} => r.seen = ApText(c)
    BY <2>1, <2>4 DEF ApOnItsWay
  <2>. QED BY <1>1, <2>3, <2>4, <2>5, <2>6 DEF ApOnItsWay
<1>8. c \in apOwn => ApKeeps(c)'
  <2> SUFFICES ASSUME c \in apOwn PROVE ApKeeps(c)'
    OBVIOUS
  <2>1. ApKeeps(c)
    BY DEF ApInv
  <2>2. apCall[c].answer = "none"
    BY DEF ApInv, ApTyped, ApIsCall, ApAtWork
  <2>3. ApLeft(c) = ApText(c) /\ ApLeft(c)' = ApLeft(c) /\ ApText(c)' = ApText(c)
    BY <1>1, <2>1, <2>2 DEF ApKeeps, ApLeft, ApText
  <2>4. r.pc \in {"running", "test", "testing"} => r.seen = ApText(c)
    BY <2>1, <2>3 DEF ApKeeps
  <2>. QED BY <1>1, <2>2, <2>3, <2>4 DEF ApKeeps
<1>9. ApVerdictsStay /\ \A d \in apOwn' \ {c} : ApLeft(d)' = ApLeft(d)
  BY <1>1 DEF ApVerdictsStay, ApLeft, ApInv
<1>. QED BY <1>1, <1>2, <1>5, <1>6, <1>7, <1>8, <1>9, ApWorks

\* A failed stage: the fix agent after the first, SELECT * after its fix, then the end.
LEMMA ApFailedIs ==
    ASSUME NEW call, ApIsCall(call), call.pc \in {"run", "running", "test", "testing"},
           NEW r, r = ApFailed(call)
    PROVE  /\ ApIsCall(r) /\ r.model = call.model /\ r.alone = call.alone /\ r.read = call.read
           /\ r.seen \in {call.seen, <<>>}
           /\ \/ /\ call.stage = "proposed" /\ r.pc = "fix" /\ r.stage = "proposed"
                 /\ r.answer = "none"
              \/ /\ call.stage = "fix" /\ r.pc = "write" /\ r.stage = "passthrough"
                 /\ r.answer = "none"
              \/ /\ call.stage = "passthrough" /\ r.pc = "answered" /\ r.stage = "passthrough"
                 /\ r.answer = "failed"
<1>1. CASE call.stage = "proposed"
  <2>1. r = [call EXCEPT !.pc = "fix"]
    BY <1>1 DEF ApFailed
  <2>2. r = [pc |-> "fix", model |-> call.model, stage |-> call.stage, todo |-> call.todo,
             at |-> call.at, read |-> call.read, seen |-> call.seen, tries |-> call.tries,
             alone |-> call.alone, answer |-> call.answer]
    BY <2>1 DEF ApIsCall
  <2>. QED BY <1>1, <2>2 DEF ApIsCall, ApPcs
<1>2. CASE call.stage = "fix"
  <2>1. r = [call EXCEPT !.pc = "write", !.stage = "passthrough"]
    BY <1>2 DEF ApFailed
  <2>2. r = [pc |-> "write", model |-> call.model, stage |-> "passthrough", todo |-> call.todo,
             at |-> call.at, read |-> call.read, seen |-> call.seen, tries |-> call.tries,
             alone |-> call.alone, answer |-> call.answer]
    BY <2>1 DEF ApIsCall
  <2>. QED BY <1>2, <2>2 DEF ApIsCall, ApPcs, ApStages
<1>3. CASE call.stage = "passthrough"
  <2>1. r = [call EXCEPT !.pc = "answered", !.answer = "failed", !.seen = <<>>, !.tries = 0]
    BY <1>3 DEF ApFailed, ApAnswered
  <2>2. r = [pc |-> "answered", model |-> call.model, stage |-> call.stage, todo |-> call.todo,
             at |-> call.at, read |-> call.read, seen |-> <<>>, tries |-> 0,
             alone |-> call.alone, answer |-> "failed"]
    BY <2>1 DEF ApIsCall
  <2>. QED BY <1>3, <2>2 DEF ApIsCall, ApPcs
<1>. QED BY <1>1, <1>2, <1>3 DEF ApIsCall, ApStages

\* A step of a call at work that leaves the files and may have learned what dbt thinks.
LEMMA ApEnds ==
    ASSUME ApInv, NEW c \in ApCalls, ApAtWork(c), NEW r, ApIsCall(r),
           apCall' = [apCall EXCEPT ![c] = r], UNCHANGED <<apFile, apOwn>>, ApVerdictsStay,
           apGood' = [t \in ApTexts |-> apGood'[t]],
           \A d \in ApCalls, stage \in ApStages :
              apGood'[<<d, stage>>] = apGood[<<d, stage>>] \/ ApWrote(d, stage),
           r.model = apCall[c].model, r.alone = apCall[c].alone, r.read = apCall[c].read,
           r.seen \in {apCall[c].seen, <<>>},
           r.pc = "record" => r.seen = apCall[c].seen /\ apCall[c].pc = "testing",
           r.pc \in {"fix", "write", "answered", "record"},
           \/ r.stage = apCall[c].stage
           \/ apCall[c].stage = "proposed" /\ r.stage = "fix"
           \/ apCall[c].stage = "fix" /\ r.stage = "passthrough",
           r.pc = "write" => r.stage # apCall[c].stage,
           r.pc # "write" => r.stage = apCall[c].stage,
           \/ apAudit' = apAudit
           \/ apAudit' = apAudit \cup {c} /\ r.pc = "answered" /\ r.answer = "approved",
           ApAlone(c) /\ r.pc # "write" /\ r.answer # "error" =>
              /\ ApLeft(c) = ApText(c)
              /\ r.pc = "fix" \/ r.answer = "failed" => apGood'[ApText(c)] # "yes",
           (ApAlone(c) \/ c \in apOwn) /\ r.pc \in {"answered", "record"}
             /\ r.answer \notin {"error", "failed"} =>
              /\ apGood'[ApText(c)] = "yes"
              /\ r.pc = "answered" => r.answer = ApVerdict(apCall[c].stage),
           apCall[c].pc = "write" => r.answer = "error"
    PROVE  ApInv'
<1>1. /\ apCall'[c] = r
      /\ \A d \in ApCalls \ {c} : apCall'[d] = apCall[d]
      /\ apCall' = [d \in ApCalls |-> apCall'[d]]
      /\ \A d \in ApCalls : ApIsCall(apCall'[d])
  BY ApMoved DEF ApInv
<1>2. ApTyped'
  BY <1>1 DEF ApInv, ApTyped
<1>3. \A stage \in ApStages : ApWrote(c, stage) => ApWrote(c, stage)'
  BY <1>1 DEF ApWrote, ApStages
<1>4. ApUnwritten'
  BY <1>1, <1>3, ApStaysUnwritten DEF ApInv
<1>5. ApAudited'
  BY <1>1, ApAuditStays DEF ApInv, ApAtWork
<1>6. ApAlone(c) => ApOnItsWay(c)'
  <2>1. r.pc # "write" => ApText(c)' = ApText(c)
    BY <1>1 DEF ApText
  <2>2. ApLeft(c)' = ApLeft(c)
    BY <1>1 DEF ApLeft
  <2>3. r.pc \in {"fix", "record"} => r.answer = "none"
    BY DEF ApIsCall
  <2>. QED BY <1>1, <2>1, <2>2, <2>3 DEF ApOnItsWay
<1>7. c \in apOwn => ApKeeps(c)'
  <2> SUFFICES ASSUME c \in apOwn PROVE ApKeeps(c)'
    OBVIOUS
  <2>1. ApKeeps(c) /\ apCall[c].answer = "none"
    BY DEF ApInv, ApTyped, ApIsCall, ApAtWork
  <2>2. ApLeft(c)' = ApLeft(c) /\ (r.pc # "write" => ApText(c)' = ApText(c))
    BY <1>1 DEF ApText, ApLeft
  <2>3. r.pc \in {"fix", "record"} => r.answer = "none"
    BY DEF ApIsCall
  <2>4. r.pc # "write" /\ r.answer # "error" => ApLeft(c) = ApText(c)
    BY <2>1 DEF ApKeeps
  <2>5. r.pc = "record" => r.seen = ApText(c)
    BY <2>1 DEF ApKeeps
  <2>. QED BY <1>1, <2>2, <2>3, <2>4, <2>5 DEF ApKeeps
<1>8. \A d \in apOwn' \ {c} : ApLeft(d)' = ApLeft(d)
  BY <1>1 DEF ApLeft, ApInv
<1>. QED BY <1>1, <1>2, <1>4, <1>5, <1>6, <1>7, <1>8, ApWorks

LEMMA ApScanInv == ASSUME ApInv, NEW c \in ApCalls, ApScan(c) PROVE ApInv'
<1>. DEFINE call == apCall[c]
<1>1. PICK m \in call.todo :
        ApSet(c, IF apFile[m].semi
                 THEN [call EXCEPT !.pc = "trim", !.todo = @ \ {m}, !.at = m, !.read = apFile[m].text]
                 ELSE [call EXCEPT !.todo = @ \ {m}])
  BY DEF ApScan
<1>2. PICK todo : todo = call.todo \ {m}
  OBVIOUS
<1>3. PICK text : text = apFile[m].text
  OBVIOUS
<1>4. ApIsCall(call) /\ call.pc = "scan" /\ ApAtWork(c) /\ UNCHANGED <<apFile, apGood, apAudit, apOwn>>
  BY DEF ApInv, ApTyped, ApScan, ApAtWork
<1>5. todo \subseteq ApModels /\ m \in ApModels
  BY <1>2, <1>4 DEF ApIsCall
<1>6. CASE apFile[m].semi
  <2>1. PICK r : r = [call EXCEPT !.pc = "trim", !.todo = todo, !.at = m, !.read = text]
    OBVIOUS
  <2>2. apCall' = [apCall EXCEPT ![c] = r]
    BY <1>1, <1>2, <1>3, <1>6, <2>1 DEF ApSet
  <2>3. r = [pc |-> "trim", model |-> call.model, stage |-> call.stage, todo |-> todo, at |-> m,
             read |-> text, seen |-> call.seen, tries |-> call.tries, alone |-> call.alone,
             answer |-> call.answer]
    BY <1>4, <2>1 DEF ApIsCall
  <2>4. "trim" \in ApPcs \ {"fix", "answered", "record"}
    BY DEF ApPcs
  <2>. HIDE DEF call
  <2>5. ApIsCall(r)
    BY <1>4, <1>5, <2>3, <2>4, ApGoesOn
  <2>. USE DEF call
  <2>. QED BY <1>3, <1>4, <1>5, <2>2, <2>3, <2>5, ApTurns
<1>7. CASE ~apFile[m].semi
  <2>1. PICK r : r = [call EXCEPT !.todo = todo]
    OBVIOUS
  <2>2. apCall' = [apCall EXCEPT ![c] = r]
    BY <1>1, <1>2, <1>7, <2>1 DEF ApSet
  <2>3. r = [pc |-> "scan", model |-> call.model, stage |-> call.stage, todo |-> todo,
             at |-> call.at, read |-> call.read, seen |-> call.seen, tries |-> call.tries,
             alone |-> call.alone, answer |-> call.answer]
    BY <1>4, <2>1 DEF ApIsCall
  <2>4. "scan" \in ApPcs \ {"fix", "answered", "record"}
    BY DEF ApPcs
  <2>. HIDE DEF call
  <2>5. ApIsCall(r)
    BY <1>4, <1>5, <2>3, <2>4, ApGoesOn
  <2>. USE DEF call
  <2>. QED BY <1>4, <2>2, <2>3, <2>5, ApTurns
<1>. QED BY <1>6, <1>7

LEMMA ApTrimInv == ASSUME ApInv, NEW c \in ApCalls, ApTrim(c) PROVE ApInv'
<1>. DEFINE call == apCall[c]
<1>1. PICK r : r = [call EXCEPT !.pc = "scan", !.at = "none", !.read = <<>>]
  OBVIOUS
<1>2. /\ apCall' = [apCall EXCEPT ![c] = r] /\ call.pc = "trim" /\ UNCHANGED <<apGood, apAudit>>
      /\ apFile' = [apFile EXCEPT ![call.at] = [text |-> call.read, semi |-> FALSE]]
  BY <1>1 DEF ApTrim, ApSet
<1>3. ApIsCall(call) /\ ApAtWork(c)
  BY <1>2 DEF ApInv, ApTyped, ApAtWork
<1>4. r = [pc |-> "scan", model |-> call.model, stage |-> call.stage, todo |-> call.todo,
           at |-> "none", read |-> <<>>, seen |-> call.seen, tries |-> call.tries,
           alone |-> call.alone, answer |-> call.answer]
  BY <1>1, <1>3 DEF ApIsCall
<1>5. ApIsCall(r) /\ call.model \in ApModels
  <2>1. "scan" \in ApPcs \ {"fix", "answered", "record"}
    BY DEF ApPcs
  <2>2. call.todo \subseteq ApModels /\ call.model \in ApModels
    BY <1>2, <1>3 DEF ApIsCall
  <2>3. call.pc \notin {"idle", "answered"}
    BY <1>2
  <2>. HIDE DEF call
  <2>. QED BY <1>3, <1>4, <2>1, <2>2, <2>3, ApGoesOn
<1>6. /\ apCall'[c] = r
      /\ \A d \in ApCalls \ {c} : apCall'[d] = apCall[d]
      /\ apCall' = [d \in ApCalls |-> apCall'[d]]
      /\ \A d \in ApCalls : ApIsCall(apCall'[d])
  BY <1>2, <1>5, ApMoved DEF ApInv
<1>7. /\ r.pc = "scan" /\ r.model = call.model /\ r.stage = call.stage /\ r.read = <<>>
      /\ r.seen = call.seen /\ r.alone = call.alone /\ r.answer = call.answer
  BY <1>4
<1>8. /\ apFile' = [m \in ApModels |-> apFile'[m]]
      /\ \A m \in ApModels : apFile'[m].text = IF m = call.at THEN call.read ELSE apFile[m].text
  BY <1>2 DEF ApInv, ApTyped
<1>9. ApTyped'
  BY <1>2, <1>6, <1>8 DEF ApInv, ApTyped
<1>10. \A stage \in ApStages : ApWrote(c, stage) => ApWrote(c, stage)'
  BY <1>2, <1>6, <1>7 DEF ApWrote
<1>11. ApUnwritten'
  BY <1>2, <1>6, <1>7, <1>8, <1>10, ApStaysUnwritten DEF ApInv
<1>12. ApAudited'
  BY <1>2, <1>6, <1>7, ApAuditStays DEF ApInv
<1>13. ApAlone(c) => ApOnItsWay(c)'
  <2> SUFFICES ASSUME ApAlone(c) PROVE ApOnItsWay(c)'
    OBVIOUS
  <2>1. ApOnItsWay(c) /\ call.answer = "none"
    BY <1>2, <1>3 DEF ApInv, ApIsCall
  <2>2. ApLeft(c) = ApText(c) /\ apGood[ApText(c)] = "open" /\ call.read = apFile[call.at].text
    BY <1>2, <2>1 DEF ApOnItsWay
  <2>3. ApLeft(c)' = ApLeft(c) /\ ApText(c)' = ApText(c)
    BY <1>5, <1>6, <1>7, <1>8, <2>2 DEF ApLeft, ApText
  <2>. QED BY <1>2, <1>6, <1>7, <2>1, <2>2, <2>3 DEF ApOnItsWay
<1>14. apOwn' = ApStillOwn(call.at, call.read)
  BY DEF ApTrim
<1>15. \A d \in apOwn' : d \in apOwn /\ ApLeft(d)' = ApLeft(d)
  <2>1. \A d \in apOwn : apCall[d].model \in ApModels
    BY DEF ApInv, ApTyped, ApIsCall, ApKeeps
  <2>2. \A d \in ApCalls : apCall'[d].model = apCall[d].model
    BY <1>6, <1>7
  <2>. QED BY <1>8, <1>14, <2>1, <2>2 DEF ApStillOwn, ApLeft, ApInv
<1>16. c \in apOwn' => ApKeeps(c)'
  <2>1. c \in apOwn => ApKeeps(c) /\ call.answer = "none"
    BY <1>2, <1>3 DEF ApInv, ApIsCall
  <2>2. ApText(c)' = ApText(c)
    BY <1>6, <1>7 DEF ApText
  <2>. QED BY <1>2, <1>6, <1>7, <1>15, <2>1, <2>2 DEF ApKeeps
<1>17. ApVerdictsStay
  BY <1>2 DEF ApVerdictsStay
<1>. QED BY <1>3, <1>6, <1>7, <1>9, <1>11, <1>12, <1>13, <1>15, <1>16, <1>17, ApWorks

LEMMA ApConnectInv == ASSUME ApInv, NEW c \in ApCalls, ApConnect(c) PROVE ApInv'
<1>. DEFINE call == apCall[c]
<1>1. PICK pc : pc = IF apDbt = {} THEN "bootstrap" ELSE "run"
  OBVIOUS
<1>2. PICK r : r = [call EXCEPT !.pc = pc, !.tries = 0]
  OBVIOUS
<1>3. apCall' = [apCall EXCEPT ![c] = r] /\ call.pc = "scan" /\ UNCHANGED <<apFile, apGood, apAudit, apOwn>>
  BY <1>1, <1>2 DEF ApConnect, ApSet
<1>4. ApIsCall(call) /\ ApAtWork(c)
  BY <1>3 DEF ApInv, ApTyped, ApAtWork
<1>5. r = [pc |-> pc, model |-> call.model, stage |-> call.stage, todo |-> call.todo,
           at |-> call.at, read |-> call.read, seen |-> call.seen, tries |-> 0,
           alone |-> call.alone, answer |-> call.answer]
  BY <1>2, <1>4 DEF ApIsCall
<1>6. pc \in {"bootstrap", "run"}
  BY <1>1
<1>7. ApIsCall(r)
  <2>1. pc \in ApPcs \ {"fix", "answered", "record"}
    BY <1>6 DEF ApPcs
  <2>2. call.todo \subseteq ApModels /\ call.pc \notin {"idle", "answered"}
    BY <1>3, <1>4 DEF ApIsCall
  <2>. HIDE DEF call
  <2>. QED BY <1>4, <1>5, <2>1, <2>2, ApGoesOn
<1>. QED BY <1>3, <1>4, <1>5, <1>6, <1>7, ApTurns

LEMMA ApBootstrapInv == ASSUME ApInv, NEW c \in ApCalls, ApBootstrap(c) PROVE ApInv'
<1>. DEFINE call == apCall[c]
<1>1. PICK r : r = [call EXCEPT !.pc = "run"]
  OBVIOUS
<1>2. /\ apCall' = [apCall EXCEPT ![c] = r] /\ call.pc = "bootstrap"
      /\ UNCHANGED <<apFile, apGood, apAudit, apOwn>>
  BY <1>1 DEF ApBootstrap, ApSet
<1>3. ApIsCall(call) /\ ApAtWork(c)
  BY <1>2 DEF ApInv, ApTyped, ApAtWork
<1>4. r = [pc |-> "run", model |-> call.model, stage |-> call.stage, todo |-> call.todo,
           at |-> call.at, read |-> call.read, seen |-> call.seen, tries |-> call.tries,
           alone |-> call.alone, answer |-> call.answer]
  BY <1>1, <1>3 DEF ApIsCall
<1>5. ApIsCall(r)
  <2>1. "run" \in ApPcs \ {"fix", "answered", "record"}
    BY DEF ApPcs
  <2>2. call.todo \subseteq ApModels /\ call.pc \notin {"idle", "answered"}
    BY <1>2, <1>3 DEF ApIsCall
  <2>. HIDE DEF call
  <2>. QED BY <1>3, <1>4, <2>1, <2>2, ApGoesOn
<1>. QED BY <1>2, <1>3, <1>4, <1>5, ApTurns

\* A stage fails before dbt has said anything about its text, or because of what it said.
LEMMA ApFailsInv ==
    ASSUME ApInv, NEW c \in ApCalls, apCall[c].pc \in {"run", "running", "test", "testing"},
           NEW r, r = ApFailed(apCall[c]), apCall' = [apCall EXCEPT ![c] = r],
           UNCHANGED <<apFile, apAudit, apOwn>>, ApVerdictsStay, apGood' = [t \in ApTexts |-> apGood'[t]],
           \A d \in ApCalls, stage \in ApStages :
              apGood'[<<d, stage>>] = apGood[<<d, stage>>] \/ ApWrote(d, stage),
           ApAlone(c) => apGood'[ApText(c)] # "yes"
    PROVE  ApInv'
<1>1. ApIsCall(apCall[c]) /\ ApAtWork(c)
  BY DEF ApInv, ApTyped, ApAtWork
<1>2. /\ ApIsCall(r) /\ r.model = apCall[c].model /\ r.alone = apCall[c].alone
      /\ r.read = apCall[c].read /\ r.seen \in {apCall[c].seen, <<>>}
      /\ \/ /\ apCall[c].stage = "proposed" /\ r.pc = "fix" /\ r.stage = "proposed"
            /\ r.answer = "none"
         \/ /\ apCall[c].stage = "fix" /\ r.pc = "write" /\ r.stage = "passthrough"
            /\ r.answer = "none"
         \/ /\ apCall[c].stage = "passthrough" /\ r.pc = "answered" /\ r.stage = "passthrough"
            /\ r.answer = "failed"
  BY <1>1, ApFailedIs
<1>3. ApAlone(c) => ApLeft(c) = ApText(c)
  <2>1. apCall[c].answer = "none"
    BY <1>1 DEF ApIsCall
  <2>. QED BY <2>1 DEF ApInv, ApOnItsWay
<1>. QED BY <1>1, <1>2, <1>3, ApEnds

\* A failure that is no verdict: the text of a call alone has not been judged.
LEMMA ApFailsUnjudged ==
    ASSUME ApInv, NEW c \in ApCalls, apCall[c].pc \in {"run", "running", "test", "testing"},
           apCall' = [apCall EXCEPT ![c] = ApFailed(apCall[c])],
           UNCHANGED <<apFile, apGood, apAudit, apOwn>>
    PROVE  ApInv'
<1>1. ApAlone(c) => apGood[ApText(c)] = "open"
  BY DEF ApInv, ApOnItsWay
<1>2. PICK r : r = ApFailed(apCall[c])
  OBVIOUS
<1>3. apCall' = [apCall EXCEPT ![c] = r]
  BY <1>2
<1>4. apGood' = [t \in ApTexts |-> apGood'[t]]
  BY DEF ApInv, ApTyped
<1>5. "open" # "yes"
  OBVIOUS
<1>6. ApVerdictsStay
  BY DEF ApVerdictsStay
<1>. QED BY <1>1, <1>2, <1>3, <1>4, <1>5, <1>6, ApFailsInv

LEMMA ApDbtStartsInv == ASSUME ApInv, NEW c \in ApCalls, ApDbtStarts(c) PROVE ApInv'
<1>. DEFINE call == apCall[c]
<1>1. /\ call.pc \in {"run", "test"} /\ UNCHANGED <<apFile, apGood, apAudit, apOwn>>
      /\ ApIsCall(call) /\ ApAtWork(c)
  BY DEF ApDbtStarts, ApInv, ApTyped, ApAtWork
<1>2. call.todo \subseteq ApModels /\ call.pc \notin {"idle", "answered"}
  BY <1>1 DEF ApIsCall
<1>3. CASE apServer = {} /\ apDbt = {}
  <2>1. PICK pc : pc = IF call.pc = "run" THEN "running" ELSE "testing"
    OBVIOUS
  <2>2. PICK seen : seen = IF call.pc = "run" THEN apFile[call.model].text ELSE call.seen
    OBVIOUS
  <2>3. PICK r : r = [call EXCEPT !.pc = pc, !.seen = seen]
    OBVIOUS
  <2>4. apCall' = [apCall EXCEPT ![c] = [call EXCEPT
                     !.pc = IF call.pc = "run" THEN "running" ELSE "testing",
                     !.seen = IF call.pc = "run" THEN apFile[call.model].text ELSE call.seen]]
    <3>1. ApSet(c, [call EXCEPT !.pc = IF @ = "run" THEN "running" ELSE "testing",
                                !.seen = IF call.pc = "run" THEN apFile[call.model].text ELSE @])
      BY <1>3, Zenon DEF ApDbtStarts
    <3>. QED BY <3>1, <1>1 DEF ApSet, ApIsCall
  <2>5. apCall' = [apCall EXCEPT ![c] = r]
    BY <2>1, <2>2, <2>3, <2>4
  <2>6. r = [pc |-> pc, model |-> call.model, stage |-> call.stage, todo |-> call.todo,
             at |-> call.at, read |-> call.read, seen |-> seen, tries |-> call.tries,
             alone |-> call.alone, answer |-> call.answer]
    BY <1>1, <2>3 DEF ApIsCall
  <2>7. ApIsCall(r)
    <3>1. pc \in ApPcs \ {"fix", "answered", "record"}
      BY <2>1 DEF ApPcs
    <3>. HIDE DEF call
    <3>. QED BY <1>1, <1>2, <2>6, <3>1, ApGoesOn
  <2>8. \/ call.pc = "run" /\ pc = "running" /\ seen = ApLeft(c)
        \/ call.pc = "test" /\ pc = "testing" /\ seen = call.seen
    BY <1>1, <2>1, <2>2 DEF ApLeft
  <2>. QED BY <1>1, <2>5, <2>6, <2>7, <2>8, ApTurns
<1>4. CASE ~(apServer = {} /\ apDbt = {}) /\ call.tries < ApRetries
  <2>1. PICK tries : tries = call.tries + 1
    OBVIOUS
  <2>2. PICK r : r = [call EXCEPT !.tries = tries]
    OBVIOUS
  <2>3. apCall' = [apCall EXCEPT ![c] = r]
    BY <1>4, <2>1, <2>2 DEF ApDbtStarts, ApSet
  <2>4. r = [pc |-> call.pc, model |-> call.model, stage |-> call.stage, todo |-> call.todo,
             at |-> call.at, read |-> call.read, seen |-> call.seen, tries |-> tries,
             alone |-> call.alone, answer |-> call.answer]
    BY <1>1, <2>2 DEF ApIsCall
  <2>5. ApIsCall(r)
    <3>1. call.pc \in ApPcs \ {"fix", "answered", "record"}
      BY <1>1 DEF ApPcs
    <3>. HIDE DEF call
    <3>. QED BY <1>1, <1>2, <2>4, <3>1, ApGoesOn
  <2>. QED BY <1>1, <2>3, <2>4, <2>5, ApTurns
<1>5. CASE ~(apServer = {} /\ apDbt = {}) /\ ~(call.tries < ApRetries)
  <2>1. apCall' = [apCall EXCEPT ![c] = ApFailed(call)]
    BY <1>5, Zenon DEF ApDbtStarts, ApSet
  <2>. QED BY <1>1, <2>1, ApFailsUnjudged
<1>. QED BY <1>3, <1>4, <1>5

LEMMA ApDbtRanInv == ASSUME ApInv, NEW c \in ApCalls, ApDbtRan(c) PROVE ApInv'
<1>. DEFINE call == apCall[c]
<1>1. /\ call.pc = "running" /\ UNCHANGED <<apFile, apGood, apAudit, apOwn>>
      /\ ApIsCall(call) /\ ApAtWork(c)
  BY DEF ApDbtRan, ApInv, ApTyped, ApAtWork
<1>2. CASE call.model \in apSources /\ ~apFile[call.model].semi
  <2>1. PICK r : r = [call EXCEPT !.pc = "test", !.tries = 0]
    OBVIOUS
  <2>2. apCall' = [apCall EXCEPT ![c] = r]
    BY <1>2, <2>1 DEF ApDbtRan, ApSet
  <2>3. r = [pc |-> "test", model |-> call.model, stage |-> call.stage, todo |-> call.todo,
             at |-> call.at, read |-> call.read, seen |-> call.seen, tries |-> 0,
             alone |-> call.alone, answer |-> call.answer]
    BY <1>1, <2>1 DEF ApIsCall
  <2>4. ApIsCall(r)
    <3>1. "test" \in ApPcs \ {"fix", "answered", "record"}
      BY DEF ApPcs
    <3>2. call.todo \subseteq ApModels /\ call.pc \notin {"idle", "answered"}
      BY <1>1 DEF ApIsCall
    <3>. HIDE DEF call
    <3>. QED BY <1>1, <2>3, <3>1, <3>2, ApGoesOn
  <2>. QED BY <1>1, <2>2, <2>3, <2>4, ApTurns
<1>3. CASE ~(call.model \in apSources /\ ~apFile[call.model].semi)
  <2>1. apCall' = [apCall EXCEPT ![c] = ApFailed(call)]
    BY <1>3, Zenon DEF ApDbtRan, ApSet
  <2>. QED BY <1>1, <2>1, ApFailsUnjudged
<1>. QED BY <1>2, <1>3

LEMMA ApPassedIs ==
    ASSUME NEW call, ApIsCall(call), call.pc = "testing", NEW r, r = ApPassed(call)
    PROVE  /\ ApIsCall(r) /\ r.model = call.model /\ r.alone = call.alone
           /\ r.read = call.read /\ r.stage = call.stage
           /\ \/ /\ call.stage = "passthrough" /\ r.pc = "answered" /\ r.seen = <<>>
                 /\ r.answer = "degraded_passthrough"
              \/ /\ call.stage # "passthrough" /\ r.pc = "record" /\ r.seen = call.seen
                 /\ r.answer = "none"
<1>1. CASE call.stage = "passthrough"
  <2>1. r = [call EXCEPT !.pc = "answered", !.answer = "degraded_passthrough", !.seen = <<>>,
                         !.tries = 0]
    BY <1>1 DEF ApPassed, ApAnswered
  <2>2. r = [pc |-> "answered", model |-> call.model, stage |-> call.stage, todo |-> call.todo,
             at |-> call.at, read |-> call.read, seen |-> <<>>, tries |-> 0,
             alone |-> call.alone, answer |-> "degraded_passthrough"]
    BY <2>1 DEF ApIsCall
  <2>. QED BY <1>1, <2>2 DEF ApIsCall, ApPcs
<1>2. CASE call.stage # "passthrough"
  <2>1. r = [call EXCEPT !.pc = "record"]
    BY <1>2 DEF ApPassed
  <2>2. r = [pc |-> "record", model |-> call.model, stage |-> call.stage, todo |-> call.todo,
             at |-> call.at, read |-> call.read, seen |-> call.seen, tries |-> call.tries,
             alone |-> call.alone, answer |-> call.answer]
    BY <2>1 DEF ApIsCall
  <2>. QED BY <1>2, <2>2 DEF ApIsCall, ApPcs
<1>. QED BY <1>1, <1>2

LEMMA ApDbtTestedInv == ASSUME ApInv, NEW c \in ApCalls, ApDbtTested(c) PROVE ApInv'
<1>. DEFINE call == apCall[c]
<1>1. PICK good \in IF apGood[call.seen] = "open" THEN {"yes", "no"} ELSE {apGood[call.seen]} :
        /\ apGood' = [apGood EXCEPT ![call.seen] = good]
        /\ good = "yes" => apCall' = [apCall EXCEPT ![c] = ApPassed(call)]
        /\ good # "yes" => apCall' = [apCall EXCEPT ![c] = ApFailed(call)]
  BY Zenon DEF ApDbtTested, ApSet
<1>2. /\ call.pc = "testing" /\ UNCHANGED <<apFile, apAudit, apOwn>>
      /\ ApIsCall(call) /\ ApAtWork(c)
  BY DEF ApDbtTested, ApInv, ApTyped, ApAtWork
<1>3. apGood' = [t \in ApTexts |-> apGood'[t]]
  BY <1>1 DEF ApInv, ApTyped
<1>4. \A t \in ApTexts : t # call.seen => apGood'[t] = apGood[t]
  BY <1>1 DEF ApInv, ApTyped
<1>5. ASSUME NEW d \in ApCalls, NEW stage \in ApStages
      PROVE  apGood'[<<d, stage>>] = apGood[<<d, stage>>] \/ ApWrote(d, stage)
  <2>1. <<d, stage>> \in ApTexts
    BY DEF ApTexts
  <2>2. call.seen = <<d, stage>> => ApHeld(<<d, stage>>)
    BY DEF ApHeld
  <2>3. CASE call.seen = <<d, stage>>
    BY <2>2, <2>3 DEF ApInv, ApUnwritten
  <2>4. CASE call.seen # <<d, stage>>
    BY <1>4, <2>1, <2>4
  <2>. QED BY <2>3, <2>4
<1>6. call.stage \in ApStages /\ call.answer = "none" /\ ApText(c) \in ApTexts
  <2>1. call.stage \in ApStages /\ call.answer = "none"
    BY <1>2 DEF ApIsCall
  <2>. QED BY <2>1 DEF ApText, ApTexts
<1>7. ApAlone(c) \/ c \in apOwn => call.seen = ApText(c) /\ ApLeft(c) = ApText(c)
  BY <1>2, <1>6 DEF ApInv, ApOnItsWay, ApKeeps
<1>8. ApAlone(c) \/ c \in apOwn => apGood'[ApText(c)] = good
  BY <1>1, <1>6, <1>7 DEF ApInv, ApTyped
<1>9. ApVerdictsStay
  <2>1. ASSUME NEW t \in ApTexts, apGood[t] = "yes" PROVE apGood'[t] = "yes"
    <3>1. CASE t = call.seen
      <4>1. good = "yes"
        BY <1>1, <2>1, <3>1
      <4>. QED BY <1>1, <3>1, <4>1 DEF ApInv, ApTyped
    <3>. QED BY <1>4, <2>1, <3>1
  <2>. QED BY <2>1 DEF ApVerdictsStay
<1>10. CASE good = "yes"
  <2>1. PICK r : r = ApPassed(call)
    OBVIOUS
  <2>2. apCall' = [apCall EXCEPT ![c] = r]
    BY <1>1, <1>10, <2>1
  <2>3. /\ ApIsCall(r) /\ r.model = call.model /\ r.alone = call.alone
        /\ r.read = call.read /\ r.stage = call.stage
        /\ \/ /\ call.stage = "passthrough" /\ r.pc = "answered" /\ r.seen = <<>>
              /\ r.answer = "degraded_passthrough"
           \/ /\ call.stage # "passthrough" /\ r.pc = "record" /\ r.seen = call.seen
              /\ r.answer = "none"
    BY <1>2, <2>1, ApPassedIs
  <2>4. r.pc = "answered" => r.answer = ApVerdict(call.stage)
    BY <2>3 DEF ApVerdict
  <2>. QED BY <1>2, <1>3, <1>5, <1>7, <1>8, <1>9, <1>10, <2>2, <2>3, <2>4, ApEnds
<1>11. CASE good # "yes"
  <2>1. PICK r : r = ApFailed(call)
    OBVIOUS
  <2>2. apCall' = [apCall EXCEPT ![c] = r]
    BY <1>1, <1>11, <2>1
  <2>. QED BY <1>2, <1>3, <1>5, <1>8, <1>9, <1>11, <2>1, <2>2, ApFailsInv
<1>. QED BY <1>10, <1>11

\* The decision is appended or not, and the answer is the same.
LEMMA ApRecordInv == ASSUME ApInv, NEW c \in ApCalls, ApRecord(c) PROVE ApInv'
<1>. DEFINE call == apCall[c]
<1>1. /\ call.pc = "record" /\ UNCHANGED <<apFile, apGood, apOwn>>
      /\ apAudit' = apAudit \/ apAudit' = apAudit \cup {c}
      /\ ApIsCall(call) /\ ApAtWork(c)
  BY DEF ApRecord, ApInv, ApTyped, ApAtWork
<1>2. PICK r : r = ApAnswered(call, "approved")
  OBVIOUS
<1>3. apCall' = [apCall EXCEPT ![c] = r]
  BY <1>2 DEF ApRecord, ApSet
<1>4. r = [call EXCEPT !.pc = "answered", !.answer = "approved", !.seen = <<>>, !.tries = 0]
  BY <1>2 DEF ApAnswered
<1>5. r = [pc |-> "answered", model |-> call.model, stage |-> call.stage, todo |-> call.todo,
           at |-> call.at, read |-> call.read, seen |-> <<>>, tries |-> 0,
           alone |-> call.alone, answer |-> "approved"]
  BY <1>1, <1>4 DEF ApIsCall
<1>6. ApIsCall(r) /\ call.stage # "passthrough" /\ call.answer = "none"
  BY <1>1, <1>5 DEF ApIsCall, ApPcs
<1>7. apGood' = [t \in ApTexts |-> apGood'[t]] /\ ApVerdictsStay
  BY <1>1 DEF ApInv, ApTyped, ApVerdictsStay
<1>8. ApAlone(c) \/ c \in apOwn => apGood[ApText(c)] = "yes" /\ ApLeft(c) = ApText(c)
  BY <1>1, <1>6 DEF ApInv, ApOnItsWay, ApKeeps
<1>9. r.answer = ApVerdict(call.stage)
  BY <1>5, <1>6 DEF ApVerdict
<1>. QED BY <1>1, <1>3, <1>5, <1>6, <1>7, <1>8, <1>9, ApEnds

\* An approval that ends without another word of dbt: the answer is a failure or an error.
LEMMA ApGivesUp ==
    ASSUME ApInv, NEW c \in ApCalls, apCall[c].pc \in {"write", "fix"},
           NEW answer \in {"failed", "error"}, answer = "failed" => apCall[c].pc = "fix",
           apCall' = [apCall EXCEPT ![c] = ApAnswered(apCall[c], answer)],
           UNCHANGED <<apFile, apGood, apAudit, apOwn>>
    PROVE  ApInv'
<1>. DEFINE call == apCall[c]
<1>1. ApIsCall(call) /\ ApAtWork(c)
  BY DEF ApInv, ApTyped, ApAtWork
<1>2. PICK r : r = ApAnswered(call, answer)
  OBVIOUS
<1>3. apCall' = [apCall EXCEPT ![c] = r]
  BY <1>2
<1>4. r = [call EXCEPT !.pc = "answered", !.answer = answer, !.seen = <<>>, !.tries = 0]
  BY <1>2 DEF ApAnswered
<1>5. r = [pc |-> "answered", model |-> call.model, stage |-> call.stage, todo |-> call.todo,
           at |-> call.at, read |-> call.read, seen |-> <<>>, tries |-> 0,
           alone |-> call.alone, answer |-> answer]
  BY <1>1, <1>4 DEF ApIsCall
<1>6. ApIsCall(r)
  BY <1>1, <1>5 DEF ApIsCall, ApPcs
<1>7. apGood' = [t \in ApTexts |-> apGood'[t]] /\ ApVerdictsStay
  BY DEF ApInv, ApTyped, ApVerdictsStay
<1>8. ApAlone(c) /\ answer = "failed" => ApLeft(c) = ApText(c) /\ apGood[ApText(c)] # "yes"
  <2>1. call.answer = "none"
    BY <1>1 DEF ApIsCall
  <2>. QED BY <2>1 DEF ApInv, ApOnItsWay
<1>. QED BY <1>1, <1>3, <1>5, <1>6, <1>7, <1>8, ApEnds

LEMMA ApFixInv == ASSUME ApInv, NEW c \in ApCalls, ApFix(c) PROVE ApInv'
<1>. DEFINE call == apCall[c]
<1>1. /\ call.pc = "fix" /\ UNCHANGED <<apFile, apGood, apAudit, apOwn>>
      /\ ApIsCall(call) /\ ApAtWork(c)
  BY DEF ApFix, ApInv, ApTyped, ApAtWork
<1>2. CASE ApSet(c, [call EXCEPT !.pc = "write", !.stage = "fix"])
  <2>1. PICK r : r = [call EXCEPT !.pc = "write", !.stage = "fix"]
    OBVIOUS
  <2>2. apCall' = [apCall EXCEPT ![c] = r]
    BY <1>2, <2>1 DEF ApSet
  <2>3. r = [pc |-> "write", model |-> call.model, stage |-> "fix", todo |-> call.todo,
             at |-> call.at, read |-> call.read, seen |-> call.seen, tries |-> call.tries,
             alone |-> call.alone, answer |-> call.answer]
    BY <1>1, <2>1 DEF ApIsCall
  <2>4. ApIsCall(r) /\ call.stage = "proposed" /\ call.answer = "none"
    BY <1>1, <2>3 DEF ApIsCall, ApPcs, ApStages
  <2>5. apGood' = [t \in ApTexts |-> apGood'[t]] /\ ApVerdictsStay
    BY <1>1 DEF ApInv, ApTyped, ApVerdictsStay
  <2>. QED BY <1>1, <2>2, <2>3, <2>4, <2>5, ApEnds
<1>3. CASE ApSet(c, ApAnswered(call, "failed"))
  BY <1>1, <1>3, ApGivesUp DEF ApSet
<1>. QED BY <1>2, <1>3 DEF ApFix

LEMMA ApRaiseInv == ASSUME ApInv, NEW c \in ApCalls, ApRaise(c) PROVE ApInv'
<1>1. /\ apCall[c].pc \in {"write", "fix"} /\ UNCHANGED <<apFile, apGood, apAudit, apOwn>>
      /\ apCall' = [apCall EXCEPT ![c] = ApAnswered(apCall[c], "error")]
  BY DEF ApRaise, ApSet
<1>2. "error" \in {"failed", "error"} /\ "error" # "failed"
  OBVIOUS
<1>. QED BY <1>1, <1>2, ApGivesUp

LEMMA ApStepInv == ApInv /\ [ApNext]_apVars => ApInv'
<1> SUFFICES ASSUME ApInv, [ApNext]_apVars PROVE ApInv'
  OBVIOUS
<1>1. CASE ApNext
  <2>1. PICK c \in ApCalls :
           \/ ApPropose(c) \/ ApProposed(c)
           \/ ApApprove(c) \/ ApWrite(c) \/ ApScan(c) \/ ApTrim(c)
           \/ ApConnect(c) \/ ApBootstrap(c)
           \/ ApDbtStarts(c) \/ ApDbtRan(c) \/ ApDbtTested(c)
           \/ ApRecord(c) \/ ApFix(c) \/ ApRaise(c)
    BY <1>1 DEF ApNext
  <2>. QED BY <2>1, ApProposeInv, ApProposedInv, ApApproveInv, ApWriteInv, ApScanInv, ApTrimInv,
              ApConnectInv, ApBootstrapInv, ApDbtStartsInv, ApDbtRanInv, ApDbtTestedInv,
              ApRecordInv, ApFixInv, ApRaiseInv
<1>2. CASE UNCHANGED apVars
  <2>1. UNCHANGED <<apFile, apCall, apGood, apAudit, apOwn>>
    BY <1>2 DEF apVars
  <2>2. ApTyped' /\ ApAudited'
    BY <2>1 DEF ApInv, ApTyped, ApAudited
  <2>3. ApUnwritten'
    BY <2>1 DEF ApInv, ApUnwritten, ApWrote, ApHeld
  <2>4. ApNobodyElse'
    BY <2>1 DEF ApInv, ApNobodyElse, ApAlone, ApAtWork
  <2>5. \A c \in ApCalls : ApAlone(c)' => ApOnItsWay(c)'
    BY <2>1 DEF ApInv, ApAlone, ApOnItsWay, ApText, ApLeft
  <2>6. apOwn' \subseteq ApCalls /\ \A c \in apOwn' : ApKeeps(c)'
    BY <2>1 DEF ApInv, ApKeeps, ApText, ApLeft
  <2>. QED BY <2>2, <2>3, <2>4, <2>5, <2>6 DEF ApInv
<1>. QED BY <1>1, <1>2

\* Approvals rewrite each other's files, wait for each other's dbt, and judge whatever the
\* file holds when dbt comes round to it; still an approval whose file nobody gave another
\* text says "approved", and has its decision audited, only of a text that dbt accepted and
\* that is not the last resort, which has an answer of its own; and one that nobody else's
\* overlapped has called no text failed that dbt accepts (migration_approve).
THEOREM ApAnswerTrueHolds == ApSpec => []ApAnswerTrue
<1>1. ApInv => ApAnswerTrue
  <2> SUFFICES ASSUME ApInv, NEW c \in ApCalls, c \in apOwn, apCall[c].pc = "answered",
                      apCall[c].answer # "error"
               PROVE  /\ apCall[c].answer # "failed" =>
                           /\ apGood[ApLeft(c)] = "yes"
                           /\ apCall[c].answer = "approved" <=> ApLeft(c)[2] # "passthrough"
                      /\ c \in apAudit =>
                           apGood[ApLeft(c)] = "yes" /\ ApLeft(c)[2] # "passthrough"
                      /\ apCall[c].alone /\ apCall[c].answer = "failed" =>
                           apGood[ApLeft(c)] # "yes"
    BY DEF ApAnswerTrue, ApLeft
  <2>1. /\ ApLeft(c) = ApText(c)
        /\ apCall[c].answer # "failed" =>
             apCall[c].answer = ApVerdict(apCall[c].stage) /\ apGood[ApText(c)] = "yes"
    BY DEF ApInv, ApKeeps
  <2>2. apCall[c].alone /\ apCall[c].answer = "failed" => apGood[ApText(c)] # "yes"
    BY DEF ApInv, ApAlone, ApOnItsWay, ApVerdict
  <2>3. c \in apAudit => apCall[c].answer = "approved"
    BY DEF ApInv, ApAudited
  <2>4. ApText(c)[2] = apCall[c].stage
    BY DEF ApText
  <2>. QED BY <2>1, <2>2, <2>3, <2>4 DEF ApVerdict
<1>. QED BY ApInitInv, ApStepInv, <1>1, PTL DEF ApSpec

\* What a file holds, and what a call has read or seen, is a text somebody wrote, or none;
\* the server and a dbt process are never in duckdb.db together.
ApHeldTexts == ApTexts \cup {<<>>}
ApSorted(call) ==
    call.read \in ApHeldTexts /\ call.seen \in ApHeldTexts /\ call.answer \in ApAnswers \cup {"none"}
ApSound == ApTypeOK /\ \A c \in ApCalls : ApSorted(apCall[c])

LEMMA ApIdleSorted == ApSorted(ApIdle)
BY DEF ApIdle, ApSorted, ApHeldTexts

\* The record of a call at work goes on; the end of a call gives an answer.
LEMMA ApGoesSorted ==
    ASSUME NEW call, ApIsCall(call), ApSorted(call), NEW r, NEW pc, NEW todo, NEW tries, NEW stage,
           \/ r = [call EXCEPT !.pc = pc]
           \/ r = [call EXCEPT !.todo = todo]
           \/ r = [call EXCEPT !.tries = tries]
           \/ r = [call EXCEPT !.pc = pc, !.todo = todo]
           \/ r = [call EXCEPT !.pc = pc, !.tries = tries]
           \/ r = [call EXCEPT !.pc = pc, !.stage = stage]
    PROVE  ApSorted(r)
BY DEF ApIsCall, ApSorted

LEMMA ApReadsSorted ==
    ASSUME NEW call, ApIsCall(call), ApSorted(call), NEW r, NEW pc, NEW todo, NEW at,
           NEW text \in ApHeldTexts,
           \/ r = [call EXCEPT !.pc = pc, !.todo = todo, !.at = at, !.read = text]
           \/ r = [call EXCEPT !.pc = pc, !.at = at, !.read = text]
           \/ r = [call EXCEPT !.pc = pc, !.seen = text]
    PROVE  ApSorted(r)
BY DEF ApIsCall, ApSorted

LEMMA ApAnswerSorted ==
    ASSUME NEW call, ApIsCall(call), ApSorted(call), NEW answer \in ApAnswers, NEW r,
           r = ApAnswered(call, answer)
    PROVE  ApSorted(r)
<1>1. r = [call EXCEPT !.pc = "answered", !.answer = answer, !.seen = <<>>, !.tries = 0]
  BY DEF ApAnswered
<1>. QED BY <1>1 DEF ApIsCall, ApSorted, ApHeldTexts

LEMMA ApFailedSorted ==
    ASSUME NEW call, ApIsCall(call), ApSorted(call), NEW r, r = ApFailed(call)
    PROVE  ApSorted(r)
<1>1. CASE call.stage = "proposed"
  BY <1>1, ApGoesSorted DEF ApFailed
<1>2. CASE call.stage = "fix"
  <2>1. r = [call EXCEPT !.pc = "write", !.stage = "passthrough"]
    BY <1>2 DEF ApFailed
  <2>. QED BY <2>1, ApGoesSorted
<1>3. CASE call.stage = "passthrough"
  <2>1. r = ApAnswered(call, "failed") /\ "failed" \in ApAnswers
    BY <1>3 DEF ApFailed, ApAnswers
  <2>. QED BY <2>1, ApAnswerSorted
<1>. QED BY <1>1, <1>2, <1>3 DEF ApIsCall, ApStages

\* A step of one call.
LEMMA ApCallSorts ==
    ASSUME ApTyped, ApSound, NEW c \in ApCalls, NEW r, ApSorted(r), apCall' = [apCall EXCEPT ![c] = r]
    PROVE  \A d \in ApCalls : ApSorted(apCall'[d])
BY DEF ApTyped, ApSound

\* What is not a call.
ApFiles == [ApModels -> [text : ApHeldTexts, semi : BOOLEAN]]
ApThings ==
    /\ apFile \in ApFiles /\ apSources \subseteq ApModels
    /\ apServer \subseteq ApCalls /\ apDbt \subseteq ApCalls /\ (apServer = {} \/ apDbt = {})
    /\ apCache \subseteq ApModels /\ apAudit \subseteq ApCalls
    /\ apGood \in [ApTexts -> {"open", "yes", "no"}] /\ apOwn \subseteq ApCalls

LEMMA ApSoundSplits == ApSound <=> ApThings /\ \A c \in ApCalls : ApSorted(apCall[c])
BY DEF ApSound, ApTypeOK, ApThings, ApFiles, ApHeldTexts, ApSorted

LEMMA ApCallStep ==
    ASSUME ApTyped, ApSound, NEW c \in ApCalls, NEW r, ApSorted(r),
           apCall' = [apCall EXCEPT ![c] = r], ApThings'
    PROVE  ApSound'
<1>1. \A d \in ApCalls : ApSorted(apCall'[d])
  BY ApCallSorts
<1>. QED BY <1>1 DEF ApSound, ApTypeOK, ApThings, ApFiles, ApHeldTexts, ApSorted

LEMMA ApSoundInit == ApInit => ApSound
BY ApIdleSorted DEF ApInit, ApSound, ApTypeOK, ApNoFile, ApSorted

LEMMA ApSoundStep == ApSound /\ ApInv /\ ApNext => ApSound'
<1> SUFFICES ASSUME ApSound, ApInv, NEW c \in ApCalls,
                    \/ ApPropose(c) \/ ApProposed(c)
                    \/ ApApprove(c) \/ ApWrite(c) \/ ApScan(c) \/ ApTrim(c)
                    \/ ApConnect(c) \/ ApBootstrap(c)
                    \/ ApDbtStarts(c) \/ ApDbtRan(c) \/ ApDbtTested(c)
                    \/ ApRecord(c) \/ ApFix(c) \/ ApRaise(c)
             PROVE  ApSound'
  BY Zenon DEF ApNext
<1>. DEFINE call == apCall[c]
<1>a. ApTyped /\ ApIsCall(call) /\ ApSorted(call) /\ ApThings
  BY ApSoundSplits DEF ApInv, ApTyped
<1>b. call.pc # "idle" => call.model \in ApModels
  BY <1>a DEF ApIsCall
<1>c. \A m \in ApModels : apFile[m].text \in ApHeldTexts
  BY <1>a DEF ApThings, ApFiles
<1>d. call.stage \in ApStages /\ \A stage \in ApStages : <<c, stage>> \in ApHeldTexts
  BY <1>a DEF ApIsCall, ApHeldTexts, ApTexts
<1>1. CASE ApPropose(c)
  <2>1. PICK m \in ApModels : apCall' = [apCall EXCEPT ![c] = [ApIdle EXCEPT !.pc = "proposing", !.model = m]]
    BY <1>1, Zenon DEF ApPropose, ApSet
  <2>2. PICK r : r = [ApIdle EXCEPT !.pc = "proposing", !.model = m]
    OBVIOUS
  <2>3. ApSorted(r)
    BY <2>2 DEF ApIdle, ApSorted, ApHeldTexts
  <2>4. apCall' = [apCall EXCEPT ![c] = r]
    BY <2>1, <2>2, Zenon
  <2>5. ApThings'
    BY <1>1, <1>a DEF ApPropose, ApThings
  <2>. QED BY <1>a, <2>3, <2>4, <2>5, ApCallStep
<1>2. CASE ApProposed(c)
  <2>1. ApThings'
    BY <1>2, <1>a, <1>b DEF ApProposed, ApThings
  <2>. QED BY <1>2, <1>a, <2>1, ApIdleSorted, ApCallStep DEF ApProposed, ApSet
<1>3. CASE ApApprove(c)
  <2>1. PICK m \in ApModels :
          apCall' = ApWatched([apCall EXCEPT ![c] = [ApIdle EXCEPT !.pc = "write", !.model = m]])
    BY <1>3 DEF ApApprove
  <2>2. PICK r : r = [ApIdle EXCEPT !.pc = "write", !.model = m]
    OBVIOUS
  <2>3. PICK calls : calls = [apCall EXCEPT ![c] = r]
    OBVIOUS
  <2>4. r = [pc |-> "write", model |-> m, stage |-> "proposed", todo |-> {}, at |-> "none",
             read |-> <<>>, seen |-> <<>>, tries |-> 0, alone |-> TRUE, answer |-> "none"]
    BY <2>2, ApIdleIs
  <2>5. ApIsCall(r) /\ ApSorted(r)
    BY <2>4 DEF ApIsCall, ApPcs, ApStages, ApSorted, ApHeldTexts
  <2>6. \A d \in ApCalls : ApIsCall(calls[d]) /\ ApSorted(calls[d])
    BY <2>3, <2>5, <1>a DEF ApTyped, ApSound
  <2>. DEFINE watched(d) ==
         calls[d].alone /\ \A e \in ApCalls \ {d} : calls[e].pc \in {"idle", "answered", "proposing"}
  <2>7. \A d \in ApCalls : apCall'[d] = [calls[d] EXCEPT !.alone = watched(d)]
    BY <2>1, <2>2, <2>3, Zenon DEF ApWatched
  <2>8. ASSUME NEW d \in ApCalls PROVE ApSorted(apCall'[d])
    <3>1. watched(d) \in BOOLEAN
      BY <2>6 DEF ApIsCall
    <3>2. ApIsCall(calls[d]) /\ ApSorted(calls[d]) /\ apCall'[d] = [calls[d] EXCEPT !.alone = watched(d)]
      BY <2>6, <2>7
    <3>. HIDE DEF watched
    <3>3. /\ apCall'[d].read = calls[d].read /\ apCall'[d].seen = calls[d].seen
          /\ apCall'[d].answer = calls[d].answer
      BY <3>1, <3>2, ApWatchedRecord
    <3>. QED BY <3>2, <3>3 DEF ApSorted
  <2>9. ApThings'
    BY <1>3, <1>a DEF ApApprove, ApThings
  <2>. QED BY <2>8, <2>9 DEF ApSound, ApTypeOK, ApThings, ApFiles, ApHeldTexts, ApSorted
<1>4. CASE ApWrite(c)
  <2>1. PICK r : r = [call EXCEPT !.pc = "scan", !.todo = ApModels]
    OBVIOUS
  <2>2. ApSorted(r)
    BY <2>1, <1>a, ApGoesSorted
  <2>3. PICK semi \in BOOLEAN :
          apFile' = [apFile EXCEPT ![call.model] = [text |-> <<c, call.stage>>, semi |-> semi]]
    BY <1>4 DEF ApWrite
  <2>4. PICK text \in ApHeldTexts : text = <<c, call.stage>>
    BY <1>d
  <2>5. apFile' \in ApFiles
    BY <2>3, <2>4, <1>a DEF ApThings, ApFiles
  <2>6. ApThings'
    BY <1>4, <1>a, <2>5 DEF ApWrite, ApThings, ApStillOwn
  <2>. QED BY <1>4, <1>a, <2>1, <2>2, <2>6, ApCallStep DEF ApWrite, ApSet
<1>5. CASE ApScan(c)
  <2>1. PICK m \in call.todo :
          apCall' = [apCall EXCEPT ![c] =
                       IF apFile[m].semi
                       THEN [call EXCEPT !.pc = "trim", !.todo = @ \ {m}, !.at = m, !.read = apFile[m].text]
                       ELSE [call EXCEPT !.todo = @ \ {m}]]
    BY <1>5, Zenon DEF ApScan, ApSet
  <2>2. apFile[m].text \in ApHeldTexts
    BY <1>a, <1>c DEF ApIsCall
  <2>3. PICK text, todo : text = apFile[m].text /\ todo = call.todo \ {m}
    OBVIOUS
  <2>4. PICK r : r = IF apFile[m].semi
                     THEN [call EXCEPT !.pc = "trim", !.todo = todo, !.at = m, !.read = text]
                     ELSE [call EXCEPT !.todo = todo]
    OBVIOUS
  <2>5. ApSorted(r)
    <3>1. CASE apFile[m].semi
      <4>1. r = [call EXCEPT !.pc = "trim", !.todo = todo, !.at = m, !.read = text]
        BY <2>4, <3>1, Zenon
      <4>. QED BY <4>1, <2>2, <2>3, <1>a, ApReadsSorted
    <3>2. CASE ~apFile[m].semi
      <4>1. r = [call EXCEPT !.todo = todo]
        BY <2>4, <3>2, Zenon
      <4>. QED BY <4>1, <1>a, ApGoesSorted
    <3>. QED BY <3>1, <3>2
  <2>6. apCall' = [apCall EXCEPT ![c] = r]
    BY <2>1, <2>3, <2>4, Zenon
  <2>7. ApThings'
    BY <1>5, <1>a DEF ApScan, ApThings
  <2>. QED BY <1>a, <2>5, <2>6, <2>7, ApCallStep
<1>6. CASE ApTrim(c)
  <2>1. PICK text \in ApHeldTexts : text = call.read
    BY <1>a DEF ApSorted
  <2>2. apFile' = [apFile EXCEPT ![call.at] = [text |-> text, semi |-> FALSE]]
    BY <1>6, <2>1 DEF ApTrim
  <2>3. apFile' \in ApFiles
    BY <2>2, <1>a DEF ApThings, ApFiles
  <2>4. PICK none \in ApHeldTexts : none = <<>>
    BY DEF ApHeldTexts
  <2>5. PICK r : r = [call EXCEPT !.pc = "scan", !.at = "none", !.read = none]
    OBVIOUS
  <2>6. ApSorted(r)
    BY <2>5, <1>a, ApReadsSorted
  <2>7. apCall' = [apCall EXCEPT ![c] = r]
    BY <1>6, <2>4, <2>5 DEF ApTrim, ApSet
  <2>8. ApThings'
    BY <1>6, <1>a, <2>3 DEF ApTrim, ApThings, ApStillOwn
  <2>. QED BY <1>a, <2>6, <2>7, <2>8, ApCallStep
<1>7. CASE ApConnect(c)
  <2>1. PICK pc : pc = IF apDbt = {} THEN "bootstrap" ELSE "run"
    OBVIOUS
  <2>2. PICK r : r = [call EXCEPT !.pc = pc, !.tries = 0]
    OBVIOUS
  <2>3. ApSorted(r)
    BY <2>2, <1>a, ApGoesSorted
  <2>4. apCall' = [apCall EXCEPT ![c] = r]
    BY <1>7, <2>1, <2>2, Zenon DEF ApConnect, ApSet
  <2>5. ApThings'
    BY <1>7, <1>a DEF ApConnect, ApThings
  <2>. QED BY <1>a, <2>3, <2>4, <2>5, ApCallStep
<1>8. CASE ApBootstrap(c)
  <2>1. PICK r : r = [call EXCEPT !.pc = "run"]
    OBVIOUS
  <2>2. ApSorted(r)
    BY <2>1, <1>a, ApGoesSorted
  <2>3. ApThings'
    BY <1>8, <1>a, <1>b DEF ApBootstrap, ApThings
  <2>. QED BY <1>8, <1>a, <2>1, <2>2, <2>3, ApCallStep DEF ApBootstrap, ApSet
<1>9. CASE ApDbtStarts(c)
  <2>1. CASE apServer = {} /\ apDbt = {}
    <3>1. PICK text \in ApHeldTexts : text = IF call.pc = "run" THEN apFile[call.model].text ELSE call.seen
      BY <1>9, <1>a, <1>b, <1>c DEF ApDbtStarts, ApSorted
    <3>2. PICK pc : pc = IF call.pc = "run" THEN "running" ELSE "testing"
      OBVIOUS
    <3>3. PICK r : r = [call EXCEPT !.pc = pc, !.seen = text]
      OBVIOUS
    <3>4. ApSorted(r)
      BY <3>3, <1>a, ApReadsSorted
    <3>5. apCall' = [apCall EXCEPT ![c] = r]
      BY <1>9, <2>1, <3>1, <3>2, <3>3, Zenon DEF ApDbtStarts, ApSet
    <3>6. ApThings'
      BY <1>9, <1>a, <2>1 DEF ApDbtStarts, ApThings
    <3>. QED BY <1>a, <3>4, <3>5, <3>6, ApCallStep
  <2>2. CASE ~(apServer = {} /\ apDbt = {})
    <3>1. PICK tries : tries = call.tries + 1
      OBVIOUS
    <3>2. PICK r : r = IF call.tries < ApRetries THEN [call EXCEPT !.tries = tries] ELSE ApFailed(call)
      OBVIOUS
    <3>3. ApSorted(r)
      <4>1. CASE call.tries < ApRetries
        <5>1. r = [call EXCEPT !.tries = tries]
          BY <3>2, <4>1, Zenon
        <5>. QED BY <5>1, <1>a, ApGoesSorted
      <4>2. CASE ~(call.tries < ApRetries)
        <5>1. r = ApFailed(call)
          BY <3>2, <4>2, Zenon
        <5>. QED BY <5>1, <1>a, ApFailedSorted
      <4>. QED BY <4>1, <4>2
    <3>4. apCall' = [apCall EXCEPT ![c] = r]
      BY <1>9, <2>2, <3>1, <3>2, Zenon DEF ApDbtStarts, ApSet
    <3>5. ApThings'
      BY <1>9, <1>a, <2>2 DEF ApDbtStarts, ApThings
    <3>. QED BY <1>a, <3>3, <3>4, <3>5, ApCallStep
  <2>. QED BY <2>1, <2>2
<1>10. CASE ApDbtRan(c)
  <2>1. PICK r : r = IF call.model \in apSources /\ ~apFile[call.model].semi
                     THEN [call EXCEPT !.pc = "test", !.tries = 0] ELSE ApFailed(call)
    OBVIOUS
  <2>2. ApSorted(r)
    <3>1. CASE call.model \in apSources /\ ~apFile[call.model].semi
      <4>1. r = [call EXCEPT !.pc = "test", !.tries = 0]
        BY <2>1, <3>1, Zenon
      <4>. QED BY <4>1, <1>a, ApGoesSorted
    <3>2. CASE ~(call.model \in apSources /\ ~apFile[call.model].semi)
      <4>1. r = ApFailed(call)
        BY <2>1, <3>2, Zenon
      <4>. QED BY <4>1, <1>a, ApFailedSorted
    <3>. QED BY <3>1, <3>2
  <2>3. apCall' = [apCall EXCEPT ![c] = r]
    BY <1>10, <2>1, Zenon DEF ApDbtRan, ApSet
  <2>4. ApThings'
    BY <1>10, <1>a DEF ApDbtRan, ApThings
  <2>. QED BY <1>a, <2>2, <2>3, <2>4, ApCallStep
<1>11. CASE ApDbtTested(c)
  <2>1. PICK good \in IF apGood[call.seen] = "open" THEN {"yes", "no"} ELSE {apGood[call.seen]} :
          /\ apGood' = [apGood EXCEPT ![call.seen] = good]
          /\ apCall' = [apCall EXCEPT ![c] = IF good = "yes" THEN ApPassed(call) ELSE ApFailed(call)]
    BY <1>11, Zenon DEF ApDbtTested, ApSet
  <2>2. PICK r : r = IF good = "yes" THEN ApPassed(call) ELSE ApFailed(call)
    OBVIOUS
  <2>3. apCall' = [apCall EXCEPT ![c] = r]
    BY <2>1, <2>2, Zenon
  <2>4. ApSorted(r)
    <3>1. CASE good = "yes" /\ call.stage = "passthrough"
      <4>1. r = ApAnswered(call, "degraded_passthrough")
        BY <2>2, <3>1, Zenon DEF ApPassed
      <4>. QED BY <4>1, <1>a, ApAnswerSorted DEF ApAnswers
    <3>2. CASE good = "yes" /\ call.stage # "passthrough"
      <4>1. r = [call EXCEPT !.pc = "record"]
        BY <2>2, <3>2, Zenon DEF ApPassed
      <4>. QED BY <4>1, <1>a, ApGoesSorted
    <3>3. CASE good # "yes"
      <4>1. r = ApFailed(call)
        BY <2>2, <3>3, Zenon
      <4>. QED BY <4>1, <1>a, ApFailedSorted
    <3>. QED BY <3>1, <3>2, <3>3
  <2>5. apGood' \in [ApTexts -> {"open", "yes", "no"}]
    BY <2>1, <1>a DEF ApThings
  <2>6. ApThings'
    BY <1>11, <1>a, <2>5 DEF ApDbtTested, ApThings
  <2>. QED BY <1>a, <2>3, <2>4, <2>6, ApCallStep
<1>12. CASE ApFix(c)
  <2>1. PICK r : /\ r = [call EXCEPT !.pc = "write", !.stage = "fix"] \/ r = ApAnswered(call, "failed")
                 /\ apCall' = [apCall EXCEPT ![c] = r]
    BY <1>12, Zenon DEF ApFix, ApSet
  <2>2. ApSorted(r)
    <3>1. CASE r = [call EXCEPT !.pc = "write", !.stage = "fix"]
      BY <3>1, <1>a, ApGoesSorted
    <3>2. CASE r = ApAnswered(call, "failed")
      BY <3>2, <1>a, ApAnswerSorted DEF ApAnswers
    <3>. QED BY <2>1, <3>1, <3>2
  <2>3. ApThings'
    BY <1>12, <1>a DEF ApFix, ApThings
  <2>. QED BY <1>a, <2>1, <2>2, <2>3, ApCallStep
<1>13. CASE ApRaise(c)
  <2>1. PICK r : r = ApAnswered(call, "error")
    OBVIOUS
  <2>2. ApSorted(r)
    BY <2>1, <1>a, ApAnswerSorted DEF ApAnswers
  <2>3. ApThings'
    BY <1>13, <1>a DEF ApRaise, ApThings
  <2>. QED BY <1>13, <1>a, <2>1, <2>2, <2>3, ApCallStep DEF ApRaise, ApSet
<1>14. CASE ApRecord(c)
  <2>1. PICK r : r = ApAnswered(call, "approved")
    OBVIOUS
  <2>2. ApSorted(r)
    BY <2>1, <1>a, ApAnswerSorted DEF ApAnswers
  <2>3. ApThings'
    BY <1>14, <1>a DEF ApRecord, ApThings
  <2>. QED BY <1>14, <1>a, <2>1, <2>2, <2>3, ApCallStep DEF ApRecord, ApSet
<1>. QED BY <1>1, <1>2, <1>3, <1>4, <1>5, <1>6, <1>7, <1>8, <1>9, <1>10, <1>11, <1>12, <1>13,
            <1>14

\* The record of every approval and of every file keeps its kind, and the server and a dbt
\* process are never in duckdb.db together, in whatever order their calls come and fail.
THEOREM ApTypesHold == ApSpec => []ApTypeOK
<1>1. ApSound => ApTypeOK
  BY DEF ApSound
<1>2. ApSound /\ UNCHANGED apVars => ApSound'
  BY DEF ApSound, ApTypeOK, apVars, ApSorted
<1>. QED BY ApInitInv, ApStepInv, ApSoundInit, ApSoundStep, <1>1, <1>2, PTL DEF ApSpec

-----------------------------------------------------------------------------
(* HitlReview *)

HrPcs == {"idle", "load", "open", "write", "fetch", "publish"}
HrDecs == [HrRows -> HrVerdicts \cup {"none"}]

\* Every verdict among the decisions has been asked for.
HrGiven(dec, asked) ==
    dec \in HrDecs /\ \A x \in HrRows : dec[x] # "none" => <<x, dec[x]>> \in asked

\* No row of the report is lost or doubled, and its place is what somebody asked for.
HrSound(am, asked) ==
    /\ am = [review |-> am.review, merged |-> am.merged, trash |-> am.trash]
    /\ am.review = HrUndecided(am)
    /\ am.merged \cap am.trash = {}
    /\ \A x \in am.merged : x \in HrRows /\ <<x, "approved">> \in asked
    /\ \A x \in am.trash : x \in HrRows /\ <<x, "rejected">> \in asked

\* A clerk's record holds only decisions and a report that somebody asked for.
HrIsCall(r, asked) ==
    /\ r = [pc |-> r.pc, act |-> r.act, rows |-> r.rows, batch |-> r.batch, auto |-> r.auto,
            at |-> r.at, dec |-> r.dec, view |-> r.view]
    /\ r.pc \in HrPcs /\ r.at \in HrPlaces /\ r.rows \subseteq HrRows
    /\ r.pc \in {"open", "write"} => r.act # "apply"
    /\ HrGiven(r.dec, asked) /\ HrSound(r.view, asked)
    /\ r.act = "apply" \/ r.act \in HrVerdicts \cup {"none"}
    /\ r.act # "apply" => \A x \in r.rows : <<x, r.act>> \in asked

HrFileTyped ==
    /\ hrFile = [p \in HrPlaces |-> hrFile[p]]
    /\ \A p \in HrPlaces : hrFile[p] = [is |-> hrFile[p].is, dec |-> hrFile[p].dec]
                           /\ HrGiven(hrFile[p].dec, hrAsked)
HrTabTyped ==
    /\ hrTab = [t \in HrTabs |-> hrTab[t]]
    /\ \A t \in HrTabs : HrGiven(hrTab[t], hrAsked)
HrCallTyped ==
    /\ hrCall = [c \in HrClerks |-> hrCall[c]]
    /\ \A c \in HrClerks : HrIsCall(hrCall[c], hrAsked)
HrReportTyped == HrSound(hrStore, hrAsked) /\ HrSound(hrDisk, hrAsked)
HrTyped == HrFileTyped /\ HrTabTyped /\ HrCallTyped /\ HrReportTyped /\ hrLedger \in HrDecs

HrDueDecided == \A x \in hrDue : x \in HrRows /\ hrLedger[x] # "none"

\* While nobody got in anybody's way, one clerk at most is busy, what it will save is the
\* ledger with its own verdict, and what is read is the ledger unless it is just writing.
HrInTurn ==
    /\ \A c, d \in HrClerks : HrBusy(c) /\ HrBusy(d) => c = d
    /\ hrWritable => hrFile["store"].is = "absent"
    /\ (\A c \in HrClerks : hrCall[c].pc # "write") => HrDecisions = hrLedger
    /\ \A c \in HrClerks :
          /\ hrCall[c].pc \in {"open", "write"} =>
               /\ hrCall[c].at = HrWritePlace
               /\ hrCall[c].dec = HrAmended(hrLedger, hrCall[c].rows, hrCall[c].act)
          /\ hrCall[c].pc \in {"fetch", "publish"} => hrCall[c].dec = hrLedger
    /\ (\A c \in HrClerks : hrCall[c].pc \notin {"fetch", "publish"})
          => hrDue \cap hrStore.review = {}

HrInv == HrTyped /\ HrDueDecided /\ (hrClean => HrInTurn)

\* ---- the operators -----------------------------------------------------------------

LEMMA HrGrows ==
    ASSUME NEW A, NEW B, A \subseteq B
    PROVE  /\ \A dec : HrGiven(dec, A) => HrGiven(dec, B)
           /\ \A am : HrSound(am, A) => HrSound(am, B)
           /\ \A r : HrIsCall(r, A) => HrIsCall(r, B)
<1>1. \A dec : HrGiven(dec, A) => HrGiven(dec, B)
  BY DEF HrGiven
<1>2. \A am : HrSound(am, A) => HrSound(am, B)
  BY DEF HrSound
<1>3. ASSUME NEW r, HrIsCall(r, A) PROVE HrIsCall(r, B)
  BY <1>1, <1>2, <1>3 DEF HrIsCall
<1>. QED BY <1>1, <1>2, <1>3

LEMMA HrNothingGiven == ASSUME NEW A PROVE HrGiven(HrNothing, A)
BY DEF HrGiven, HrNothing, HrDecs

LEMMA HrFreshSound == ASSUME NEW A PROVE HrSound(HrFresh, A)
BY DEF HrSound, HrFresh, HrUndecided

LEMMA HrIdleRecord ==
    HrIdle = [pc |-> "idle", act |-> "none", rows |-> {}, batch |-> FALSE, auto |-> FALSE,
              at |-> "adjacent", dec |-> HrNothing, view |-> HrFresh]
BY DEF HrIdle

LEMMA HrIdlePc == HrIdle.pc = "idle"
BY HrIdleRecord

LEMMA HrIdleIs == ASSUME NEW A PROVE HrIsCall(HrIdle, A) /\ HrIdle.pc = "idle"
<1>1. HrGiven(HrNothing, A) /\ HrSound(HrFresh, A)
  BY HrNothingGiven, HrFreshSound
<1>. QED BY HrIdleRecord, <1>1 DEF HrIsCall, HrPcs, HrPlaces

LEMMA HrAmendedGiven ==
    ASSUME NEW A, NEW dec, HrGiven(dec, A), NEW rows, NEW act \in HrVerdicts \cup {"none"},
           \A x \in rows : <<x, act>> \in A
    PROVE  HrGiven(HrAmended(dec, rows, act), A)
BY DEF HrGiven, HrAmended, HrDecs

LEMMA HrAppliedSound ==
    ASSUME NEW A, NEW am, HrSound(am, A), NEW dec, HrGiven(dec, A)
    PROVE  HrSound(HrApplied(am, dec), A)
<1>. DEFINE new == HrApplied(am, dec)
<1>1. /\ new.review = {x \in am.review : dec[x] = "none"}
      /\ new.merged = am.merged \cup {x \in am.review : dec[x] = "approved"}
      /\ new.trash = am.trash \cup {x \in am.review : dec[x] = "rejected"}
      /\ new = [review |-> new.review, merged |-> new.merged, trash |-> new.trash]
  BY DEF HrApplied
<1>2. /\ am.review = HrRows \ (am.merged \cup am.trash) /\ am.merged \cap am.trash = {}
      /\ \A x \in am.merged : x \in HrRows /\ <<x, "approved">> \in A
      /\ \A x \in am.trash : x \in HrRows /\ <<x, "rejected">> \in A
  BY DEF HrSound, HrUndecided
<1>3. \A x \in HrRows : dec[x] \in {"approved", "rejected", "none"}
                        /\ (dec[x] # "none" => <<x, dec[x]>> \in A)
  BY DEF HrGiven, HrDecs, HrVerdicts
<1>. HIDE DEF new
<1>4. new.review = HrRows \ (new.merged \cup new.trash)
  BY <1>1, <1>2, <1>3
<1>5. new.merged \cap new.trash = {}
  BY <1>1, <1>2
<1>6. /\ \A x \in new.merged : x \in HrRows /\ <<x, "approved">> \in A
      /\ \A x \in new.trash : x \in HrRows /\ <<x, "rejected">> \in A
  BY <1>1, <1>2, <1>3
<1>7. HrSound(new, A)
  BY <1>1, <1>4, <1>5, <1>6 DEF HrSound, HrUndecided
<1>. QED BY <1>7 DEF new

LEMMA HrReadGiven ==
    ASSUME HrFileTyped
    PROVE  /\ HrGiven(HrDecisions, hrAsked)
           /\ \A p \in HrPlaces : HrGiven(HrDecisionsIn(hrFile[p]), hrAsked)
<1>1. \A p \in HrPlaces : HrGiven(HrDecisionsIn(hrFile[p]), hrAsked)
  BY HrNothingGiven DEF HrFileTyped, HrDecisionsIn
<1>2. (IF hrFile["store"].is # "absent" THEN "store" ELSE "adjacent") \in HrPlaces
  BY DEF HrPlaces
<1>. QED BY <1>1, <1>2 DEF HrDecisions

\* ---- what a step does to the parts -------------------------------------------------

LEMMA HrFileStays ==
    ASSUME HrFileTyped, hrFile' = hrFile, hrAsked \subseteq hrAsked' PROVE HrFileTyped'
BY HrGrows DEF HrFileTyped

LEMMA HrTabStays ==
    ASSUME HrTabTyped, hrTab' = hrTab, hrAsked \subseteq hrAsked' PROVE HrTabTyped'
BY HrGrows DEF HrTabTyped

LEMMA HrReportStays ==
    ASSUME HrReportTyped, UNCHANGED <<hrStore, hrDisk>>, hrAsked \subseteq hrAsked'
    PROVE  HrReportTyped'
BY HrGrows DEF HrReportTyped

LEMMA HrCallStays ==
    ASSUME HrCallTyped, hrCall' = hrCall, hrAsked \subseteq hrAsked' PROVE HrCallTyped'
BY HrGrows DEF HrCallTyped

LEMMA HrCallMoves ==
    ASSUME HrCallTyped, hrAsked \subseteq hrAsked', NEW c \in HrClerks, NEW r,
           HrIsCall(r, hrAsked'), hrCall' = [hrCall EXCEPT ![c] = r]
    PROVE  HrCallTyped' /\ hrCall'[c] = r /\ \A d \in HrClerks \ {c} : hrCall'[d] = hrCall[d]
<1>1. /\ hrCall'[c] = r /\ \A d \in HrClerks \ {c} : hrCall'[d] = hrCall[d]
      /\ hrCall' = [d \in HrClerks |-> hrCall'[d]]
  BY DEF HrCallTyped
<1>2. ASSUME NEW d \in HrClerks PROVE HrIsCall(hrCall'[d], hrAsked')
  <2>1. CASE d = c
    BY <1>1, <2>1
  <2>2. CASE d # c
    BY <1>1, <2>2, HrGrows DEF HrCallTyped
  <2>. QED BY <2>1, <2>2
<1>. QED BY <1>1, <1>2 DEF HrCallTyped

LEMMA HrFileWritten ==
    ASSUME HrFileTyped, hrAsked' = hrAsked, NEW p \in HrPlaces, NEW is, NEW dec,
           HrGiven(dec, hrAsked), hrFile' = [hrFile EXCEPT ![p] = [is |-> is, dec |-> dec]]
    PROVE  /\ HrFileTyped' /\ hrFile'[p] = [is |-> is, dec |-> dec]
           /\ \A q \in HrPlaces \ {p} : hrFile'[q] = hrFile[q]
BY DEF HrFileTyped

LEMMA HrInitInv == HrInit => HrInv
<1> SUFFICES ASSUME HrInit PROVE HrInv
  OBVIOUS
<1>1. HrCallTyped /\ \A c \in HrClerks : hrCall[c].pc = "idle"
  <2>1. \A c \in HrClerks : hrCall[c] = HrIdle
    BY DEF HrInit
  <2>2. hrCall = [c \in HrClerks |-> hrCall[c]]
    BY DEF HrInit
  <2>. QED BY <2>1, <2>2, HrIdleIs DEF HrCallTyped
<1>2. HrFileTyped /\ \A p \in HrPlaces : hrFile[p].is = "absent" /\ hrFile[p].dec = HrNothing
  BY HrNothingGiven DEF HrInit, HrFileTyped
<1>3. HrTabTyped /\ HrReportTyped
  BY HrNothingGiven, HrFreshSound DEF HrInit, HrTabTyped, HrReportTyped
<1>4. hrLedger = HrNothing /\ hrLedger \in HrDecs /\ hrDue = {}
  BY HrNothingGiven DEF HrInit, HrGiven
<1>5. HrDecisions = HrNothing
  BY <1>2 DEF HrDecisions, HrDecisionsIn, HrPlaces
<1>6. HrInTurn
  <2>1. hrFile["store"].is = "absent"
    BY <1>2 DEF HrPlaces
  <2>. QED BY <1>1, <1>4, <1>5, <2>1 DEF HrInTurn, HrBusy
<1>. QED BY <1>1, <1>2, <1>3, <1>4, <1>6 DEF HrInv, HrTyped, HrDueDecided

\* A clerk who is in no write and about to publish nothing, before and after, and the
\* files, the ledger and the dues as they were: who was in turn is in turn.
LEMMA HrTurnStays ==
    ASSUME HrInTurn, NEW c \in HrClerks,
           \A d \in HrClerks \ {c} : hrCall'[d] = hrCall[d],
           ~HrBusy(c), hrCall'[c].pc \notin {"open", "write", "fetch", "publish"},
           UNCHANGED <<hrFile, hrWritable, hrStore, hrLedger, hrDue>>
    PROVE  HrInTurn'
<1>1. ~HrBusy(c)'
  BY DEF HrBusy
<1>2. HrDecisions' = HrDecisions /\ HrWritePlace' = HrWritePlace
  BY DEF HrDecisions, HrDecisionsIn, HrWritePlace
<1>3. \A d, e \in HrClerks : HrBusy(d)' /\ HrBusy(e)' => d = e
  BY <1>1 DEF HrInTurn, HrBusy
<1>4. (\A d \in HrClerks : hrCall'[d].pc # "write") => \A d \in HrClerks : hrCall[d].pc # "write"
  BY DEF HrBusy
<1>5. (\A d \in HrClerks : hrCall'[d].pc \notin {"fetch", "publish"})
         => \A d \in HrClerks : hrCall[d].pc \notin {"fetch", "publish"}
  BY DEF HrBusy
<1>6. \A d \in HrClerks :
         /\ hrCall'[d].pc \in {"open", "write"} =>
              /\ hrCall'[d].at = HrWritePlace'
              /\ hrCall'[d].dec = HrAmended(hrLedger', hrCall'[d].rows, hrCall'[d].act)
         /\ hrCall'[d].pc \in {"fetch", "publish"} => hrCall'[d].dec = hrLedger'
  BY <1>2 DEF HrInTurn
<1>. QED BY <1>2, <1>3, <1>4, <1>5, <1>6 DEF HrInTurn

LEMMA HrDueStays == ASSUME HrDueDecided, UNCHANGED <<hrDue, hrLedger>> PROVE HrDueDecided'
BY DEF HrDueDecided

LEMMA HrAskInv == ASSUME HrInv, NEW c \in HrRequests, HrAsk(c) PROVE HrInv'
<1>1. PICK act \in HrVerdicts \cup {"none", "apply"}, rows \in SUBSET HrRows,
           batch \in BOOLEAN, auto \in BOOLEAN :
        /\ HrSet(c, [HrIdle EXCEPT !.pc = "load", !.act = act, !.rows = rows,
                                   !.batch = batch, !.auto = auto, !.view = hrStore])
        /\ hrAsked' = IF act = "apply" THEN hrAsked ELSE hrAsked \cup (rows \X {act})
  BY DEF HrAsk
<1>2. PICK r : r = [HrIdle EXCEPT !.pc = "load", !.act = act, !.rows = rows,
                                  !.batch = batch, !.auto = auto, !.view = hrStore]
  OBVIOUS
<1>3. hrCall' = [hrCall EXCEPT ![c] = r] /\ c \in HrClerks
  BY <1>1, <1>2 DEF HrSet, HrClerks
<1>4. /\ hrCall[c].pc = "idle"
      /\ UNCHANGED <<hrFile, hrWritable, hrStore, hrDisk, hrTab, hrLedger, hrDue, hrClean>>
  BY DEF HrAsk, HrInv, HrTyped, HrReportTyped, hrFiles
<1>5. r = [pc |-> "load", act |-> act, rows |-> rows, batch |-> batch, auto |-> auto,
           at |-> "adjacent", dec |-> HrNothing, view |-> hrStore]
  BY <1>2, HrIdleRecord
<1>6. hrAsked \subseteq hrAsked' /\ (act # "apply" => \A x \in rows : <<x, act>> \in hrAsked')
  BY <1>1
<1>7. HrSound(hrStore, hrAsked') /\ HrGiven(HrNothing, hrAsked')
  BY <1>6, HrGrows, HrNothingGiven DEF HrInv, HrTyped, HrReportTyped
<1>8. HrIsCall(r, hrAsked')
  <2>1. act = "apply" \/ act \in HrVerdicts \cup {"none"}
    BY <1>1
  <2>2. "load" \in HrPcs /\ "adjacent" \in HrPlaces /\ rows \subseteq HrRows
    BY DEF HrPcs, HrPlaces
  <2>. QED BY <1>5, <1>6, <1>7, <2>1, <2>2 DEF HrIsCall
<1>9. HrCallTyped' /\ hrCall'[c] = r /\ \A d \in HrClerks \ {c} : hrCall'[d] = hrCall[d]
  BY <1>3, <1>6, <1>8, HrCallMoves DEF HrInv, HrTyped
<1>10. HrTyped'
  BY <1>4, <1>6, <1>9, HrFileStays, HrTabStays, HrReportStays DEF HrInv, HrTyped
<1>11. HrDueDecided'
  BY <1>4, HrDueStays DEF HrInv
<1>12. hrClean' => HrInTurn'
  <2>1. ~HrBusy(c) /\ hrCall'[c].pc = "load"
    BY <1>4, <1>5, <1>9 DEF HrBusy
  <2>. QED BY <1>3, <1>4, <1>9, <2>1, HrTurnStays DEF HrInv
<1>. QED BY <1>10, <1>11, <1>12 DEF HrInv

LEMMA HrLoadInv == ASSUME HrInv, NEW c \in HrRequests, HrLoad(c) PROVE HrInv'
<1>. DEFINE call == hrCall[c]
<1>1. PICK rows : rows = IF call.batch THEN call.rows \cap HrPending(call.view, HrDecisions)
                         ELSE call.rows
  OBVIOUS
<1>2. PICK r : r = IF call.act = "apply" THEN [call EXCEPT !.pc = "publish", !.dec = HrDecisions]
                   ELSE [call EXCEPT !.pc = "open", !.at = HrWritePlace, !.rows = rows,
                                     !.dec = HrAmended(HrDecisions, rows, call.act)]
  OBVIOUS
<1>3. hrCall' = [hrCall EXCEPT ![c] = r] /\ c \in HrClerks
  BY <1>1, <1>2, Zenon DEF HrLoad, HrSet, HrClerks
<1>4. /\ call.pc = "load" /\ hrClean' = (hrClean /\ HrAlone(c))
      /\ UNCHANGED <<hrFile, hrWritable, hrStore, hrDisk, hrTab, hrAsked, hrLedger, hrDue>>
      /\ HrIsCall(call, hrAsked)
  BY <1>3 DEF HrLoad, HrInv, HrTyped, HrCallTyped, hrFiles
<1>5. HrGiven(HrDecisions, hrAsked) /\ HrWritePlace \in HrPlaces
  BY HrReadGiven DEF HrInv, HrTyped, HrWritePlace, HrPlaces
<1>6. PICK dec, at : dec = HrAmended(HrDecisions, rows, call.act) /\ at = HrWritePlace
  OBVIOUS
<1>7. PICK read : read = HrDecisions
  OBVIOUS
<1>8. \/ /\ call.act = "apply"
         /\ r = [pc |-> "publish", act |-> call.act, rows |-> call.rows, batch |-> call.batch,
                 auto |-> call.auto, at |-> call.at, dec |-> read, view |-> call.view]
      \/ /\ call.act # "apply"
         /\ r = [pc |-> "open", act |-> call.act, rows |-> rows, batch |-> call.batch,
                 auto |-> call.auto, at |-> at, dec |-> dec, view |-> call.view]
  <2>1. call = [pc |-> call.pc, act |-> call.act, rows |-> call.rows, batch |-> call.batch,
                auto |-> call.auto, at |-> call.at, dec |-> call.dec, view |-> call.view]
    BY <1>4 DEF HrIsCall
  <2>2. CASE call.act = "apply"
    <3>1. r = [call EXCEPT !.pc = "publish", !.dec = read]
      BY <1>2, <1>7, <2>2
    <3>. QED BY <2>1, <2>2, <3>1
  <2>3. CASE call.act # "apply"
    <3>1. r = [call EXCEPT !.pc = "open", !.at = at, !.rows = rows, !.dec = dec]
      BY <1>2, <1>6, <2>3
    <3>. QED BY <2>1, <2>3, <3>1
  <2>. QED BY <2>2, <2>3
<1>9. HrIsCall(r, hrAsked')
  <2>1. CASE call.act = "apply"
    BY <1>4, <1>5, <1>7, <1>8, <2>1 DEF HrIsCall, HrPcs
  <2>2. CASE call.act # "apply"
    <3>1. rows \subseteq call.rows
      BY <1>1
    <3>2. rows \subseteq HrRows /\ \A x \in rows : <<x, call.act>> \in hrAsked
      BY <1>4, <2>2, <3>1 DEF HrIsCall
    <3>3. call.act \in HrVerdicts \cup {"none"}
      BY <1>4, <2>2 DEF HrIsCall
    <3>4. HrGiven(dec, hrAsked)
      BY <1>5, <1>6, <3>2, <3>3, HrAmendedGiven
    <3>5. HrSound(call.view, hrAsked)
      BY <1>4 DEF HrIsCall
    <3>6. "open" \in HrPcs /\ at \in HrPlaces
      BY <1>5, <1>6 DEF HrPcs
    <3>7. hrAsked' = hrAsked
      BY <1>4
    <3>8. r = [pc |-> "open", act |-> call.act, rows |-> rows, batch |-> call.batch,
               auto |-> call.auto, at |-> at, dec |-> dec, view |-> call.view]
      BY <1>8, <2>2
    <3>. QED BY <2>2, <3>2, <3>3, <3>4, <3>5, <3>6, <3>7, <3>8 DEF HrIsCall
  <2>. QED BY <2>1, <2>2
<1>10. HrCallTyped' /\ hrCall'[c] = r /\ \A d \in HrClerks \ {c} : hrCall'[d] = hrCall[d]
  BY <1>3, <1>4, <1>9, HrCallMoves DEF HrInv, HrTyped
<1>11. HrTyped'
  BY <1>4, <1>10, HrFileStays, HrTabStays, HrReportStays DEF HrInv, HrTyped
<1>12. HrDueDecided'
  BY <1>4, HrDueStays DEF HrInv
<1>13. ASSUME hrClean' PROVE HrInTurn'
  <2>1. HrInTurn /\ \A d \in HrClerks \ {c} : ~HrBusy(d)
    BY <1>4, <1>13 DEF HrInv, HrAlone
  <2>2. \A d \in HrClerks : hrCall[d].pc \notin {"write", "fetch", "publish"}
    BY <1>4, <2>1 DEF HrBusy
  <2>3. HrDecisions = hrLedger /\ hrDue \cap hrStore.review = {}
    BY <2>1, <2>2 DEF HrInTurn
  <2>4. HrDecisions' = HrDecisions /\ HrWritePlace' = HrWritePlace
    BY <1>4 DEF HrDecisions, HrDecisionsIn, HrWritePlace
  <2>5. \A d \in HrClerks \ {c} : ~HrBusy(d)' /\ hrCall'[d] = hrCall[d]
    BY <1>10, <2>1 DEF HrBusy
  <2>6. \A d, e \in HrClerks : HrBusy(d)' /\ HrBusy(e)' => d = e
    BY <2>5
  <2>7. /\ r.pc \in {"open", "write"} =>
             r.at = HrWritePlace /\ r.dec = HrAmended(hrLedger, r.rows, r.act)
        /\ r.pc \in {"fetch", "publish"} => r.dec = hrLedger
    BY <1>6, <1>7, <1>8, <2>3
  <2>8. \A d \in HrClerks :
           /\ hrCall'[d].pc \in {"open", "write"} =>
                /\ hrCall'[d].at = HrWritePlace'
                /\ hrCall'[d].dec = HrAmended(hrLedger', hrCall'[d].rows, hrCall'[d].act)
           /\ hrCall'[d].pc \in {"fetch", "publish"} => hrCall'[d].dec = hrLedger'
    <3>1. \A d \in HrClerks \ {c} : hrCall'[d].pc \notin {"open", "write", "fetch", "publish"}
      BY <2>5 DEF HrBusy
    <3>. QED BY <1>4, <1>10, <2>4, <2>7, <3>1
  <2>9. /\ hrWritable' => hrFile'["store"].is = "absent"
        /\ HrDecisions' = hrLedger' /\ hrDue' \cap hrStore'.review = {}
    BY <1>4, <2>1, <2>3, <2>4 DEF HrInTurn
  <2>. QED BY <2>6, <2>8, <2>9 DEF HrInTurn
<1>. QED BY <1>11, <1>12, <1>13 DEF HrInv

LEMMA HrOpenInv == ASSUME HrInv, NEW c \in HrClerks, HrOpen(c) PROVE HrInv'
<1>. DEFINE call == hrCall[c]
<1>1. PICK r : r = [call EXCEPT !.pc = "write"]
  OBVIOUS
<1>2. /\ hrCall' = [hrCall EXCEPT ![c] = r] /\ call.pc = "open"
      /\ hrFile' = [hrFile EXCEPT ![call.at] = [is |-> "torn", dec |-> HrNothing]]
      /\ UNCHANGED <<hrWritable, hrStore, hrDisk, hrTab, hrAsked, hrLedger, hrDue, hrClean>>
      /\ HrIsCall(call, hrAsked)
  BY <1>1 DEF HrOpen, HrSet, HrInv, HrTyped, HrCallTyped, hrGhosts
<1>3. r = [pc |-> "write", act |-> call.act, rows |-> call.rows, batch |-> call.batch,
           auto |-> call.auto, at |-> call.at, dec |-> call.dec, view |-> call.view]
  BY <1>1, <1>2 DEF HrIsCall
<1>4. HrIsCall(r, hrAsked') /\ call.at \in HrPlaces
  BY <1>2, <1>3 DEF HrIsCall, HrPcs
<1>5. HrCallTyped' /\ hrCall'[c] = r /\ \A d \in HrClerks \ {c} : hrCall'[d] = hrCall[d]
  BY <1>2, <1>4, HrCallMoves DEF HrInv, HrTyped
<1>6. /\ HrFileTyped' /\ hrFile'[call.at] = [is |-> "torn", dec |-> HrNothing]
      /\ \A q \in HrPlaces \ {call.at} : hrFile'[q] = hrFile[q]
  <2>1. HrGiven(HrNothing, hrAsked)
    BY HrNothingGiven
  <2>. QED BY <1>2, <1>4, <2>1, HrFileWritten DEF HrInv, HrTyped
<1>7. HrTyped'
  BY <1>2, <1>5, <1>6, HrTabStays, HrReportStays DEF HrInv, HrTyped
<1>8. HrDueDecided'
  BY <1>2, HrDueStays DEF HrInv
<1>9. ASSUME hrClean' PROVE HrInTurn'
  <2>1. HrInTurn /\ HrBusy(c)
    BY <1>2, <1>9 DEF HrInv, HrBusy
  <2>2. \A d \in HrClerks \ {c} : ~HrBusy(d) /\ ~HrBusy(d)'
    BY <1>5, <2>1 DEF HrInTurn, HrBusy
  <2>3. \A d, e \in HrClerks : HrBusy(d)' /\ HrBusy(e)' => d = e
    BY <2>2
  <2>4. call.at = HrWritePlace /\ call.dec = HrAmended(hrLedger, call.rows, call.act)
    BY <1>2, <2>1 DEF HrInTurn
  <2>5. HrWritePlace' = HrWritePlace
    BY <1>2 DEF HrWritePlace
  <2>6. hrWritable' => hrFile'["store"].is = "absent"
    BY <1>2, <1>6, <2>1, <2>4 DEF HrInTurn, HrWritePlace, HrPlaces
  <2>7. \A d \in HrClerks \ {c} : hrCall'[d].pc \notin {"open", "write", "fetch", "publish"}
    BY <2>2 DEF HrBusy
  <2>8. \A d \in HrClerks :
           /\ hrCall'[d].pc \in {"open", "write"} =>
                /\ hrCall'[d].at = HrWritePlace'
                /\ hrCall'[d].dec = HrAmended(hrLedger', hrCall'[d].rows, hrCall'[d].act)
           /\ hrCall'[d].pc \in {"fetch", "publish"} => hrCall'[d].dec = hrLedger'
    BY <1>2, <1>3, <1>5, <2>4, <2>5, <2>7
  <2>9. hrDue' \cap hrStore'.review = {}
    <3>1. \A d \in HrClerks : hrCall[d].pc \notin {"fetch", "publish"}
      BY <1>2, <2>2 DEF HrBusy
    <3>. QED BY <1>2, <2>1, <3>1 DEF HrInTurn
  <2>10. hrCall'[c].pc = "write"
    BY <1>3, <1>5
  <2>. QED BY <2>3, <2>6, <2>8, <2>9, <2>10 DEF HrInTurn
<1>. QED BY <1>7, <1>8, <1>9 DEF HrInv

LEMMA HrWriteInv == ASSUME HrInv, NEW c \in HrClerks, HrWrite(c) PROVE HrInv'
<1>. DEFINE call == hrCall[c]
<1>1. PICK r : r = IF c \in HrRequests /\ call.auto THEN [call EXCEPT !.pc = "fetch"] ELSE HrIdle
  OBVIOUS
<1>2. /\ hrCall' = [hrCall EXCEPT ![c] = r] /\ call.pc = "write"
      /\ hrFile' = [hrFile EXCEPT ![call.at] = [is |-> "whole", dec |-> call.dec]]
      /\ hrLedger' = HrAmended(hrLedger, call.rows, call.act)
      /\ hrDue' = IF c \in HrRequests /\ call.auto /\ call.act # "none"
                  THEN hrDue \cup call.rows ELSE hrDue \ call.rows
      /\ UNCHANGED <<hrWritable, hrStore, hrDisk, hrTab, hrAsked, hrClean>>
      /\ HrIsCall(call, hrAsked)
  BY <1>1 DEF HrWrite, HrSet, HrInv, HrTyped, HrCallTyped
<1>3. \/ /\ c \in HrRequests /\ call.auto
         /\ r = [pc |-> "fetch", act |-> call.act, rows |-> call.rows, batch |-> call.batch,
                 auto |-> call.auto, at |-> call.at, dec |-> call.dec, view |-> call.view]
      \/ /\ ~(c \in HrRequests /\ call.auto)
         /\ r = HrIdle
  <2>1. CASE c \in HrRequests /\ call.auto
    <3>1. r = [call EXCEPT !.pc = "fetch"]
      BY <1>1, <2>1
    <3>. QED BY <1>2, <2>1, <3>1 DEF HrIsCall
  <2>2. CASE ~(c \in HrRequests /\ call.auto)
    BY <1>1, <2>2
  <2>. QED BY <2>1, <2>2
<1>4. call.at \in HrPlaces /\ HrGiven(call.dec, hrAsked) /\ call.act \in HrVerdicts \cup {"none"}
      /\ call.rows \subseteq HrRows
  BY <1>2 DEF HrIsCall
<1>5. HrIsCall(r, hrAsked')
  <2>1. CASE r = HrIdle
    BY <2>1, HrIdleIs
  <2>2. CASE r = [pc |-> "fetch", act |-> call.act, rows |-> call.rows, batch |-> call.batch,
                  auto |-> call.auto, at |-> call.at, dec |-> call.dec, view |-> call.view]
    BY <1>2, <2>2 DEF HrIsCall, HrPcs
  <2>. QED BY <1>3, <2>1, <2>2
<1>6. HrCallTyped' /\ hrCall'[c] = r /\ \A d \in HrClerks \ {c} : hrCall'[d] = hrCall[d]
  BY <1>2, <1>5, HrCallMoves DEF HrInv, HrTyped
<1>7. /\ HrFileTyped' /\ hrFile'[call.at] = [is |-> "whole", dec |-> call.dec]
      /\ \A q \in HrPlaces \ {call.at} : hrFile'[q] = hrFile[q]
  BY <1>2, <1>4, HrFileWritten DEF HrInv, HrTyped
<1>8. hrLedger' \in HrDecs /\ \A x \in HrRows : hrLedger'[x] = IF x \in call.rows THEN call.act
                                                               ELSE hrLedger[x]
  <2>1. hrLedger \in HrDecs
    BY DEF HrInv, HrTyped
  <2>. QED BY <1>2, <1>4, <2>1 DEF HrAmended, HrDecs
<1>9. HrTyped'
  BY <1>2, <1>6, <1>7, <1>8, HrTabStays, HrReportStays DEF HrInv, HrTyped
<1>10. HrDueDecided'
  BY <1>2, <1>4, <1>8 DEF HrInv, HrDueDecided
<1>11. ASSUME hrClean' PROVE HrInTurn'
  <2>1. HrInTurn /\ HrBusy(c)
    BY <1>2, <1>11 DEF HrInv, HrBusy
  <2>2. \A d \in HrClerks \ {c} : ~HrBusy(d) /\ ~HrBusy(d)'
    BY <1>6, <2>1 DEF HrInTurn, HrBusy
  <2>3. \A d, e \in HrClerks : HrBusy(d)' /\ HrBusy(e)' => d = e
    BY <2>2
  <2>4. call.at = HrWritePlace /\ call.dec = hrLedger'
    BY <1>2, <2>1 DEF HrInTurn
  <2>5. hrWritable' => hrFile'["store"].is = "absent"
    BY <1>2, <1>7, <2>1, <2>4 DEF HrInTurn, HrWritePlace, HrPlaces
  <2>6. HrDecisions' = hrLedger'
    <3>1. CASE hrWritable
      <4>1. call.at = "adjacent" /\ hrFile'["store"].is = "absent"
        BY <1>2, <2>4, <2>5, <3>1 DEF HrWritePlace
      <4>2. hrFile'["adjacent"] = [is |-> "whole", dec |-> call.dec]
        BY <1>7, <4>1
      <4>. QED BY <2>4, <4>1, <4>2 DEF HrDecisions, HrDecisionsIn
    <3>2. CASE ~hrWritable
      <4>1. hrFile'["store"] = [is |-> "whole", dec |-> call.dec]
        BY <1>7, <2>4, <3>2 DEF HrWritePlace
      <4>. QED BY <2>4, <4>1 DEF HrDecisions, HrDecisionsIn
    <3>. QED BY <3>1, <3>2
  <2>7. \A d \in HrClerks \ {c} : hrCall'[d].pc \notin {"open", "write", "fetch", "publish"}
    BY <2>2 DEF HrBusy
  <2>8. /\ r.pc \notin {"open", "write"}
        /\ r.pc \in {"fetch", "publish"} => r.dec = hrLedger'
    BY <1>3, <2>4, HrIdleIs
  <2>9. \A d \in HrClerks :
           /\ hrCall'[d].pc \in {"open", "write"} =>
                /\ hrCall'[d].at = HrWritePlace'
                /\ hrCall'[d].dec = HrAmended(hrLedger', hrCall'[d].rows, hrCall'[d].act)
           /\ hrCall'[d].pc \in {"fetch", "publish"} => hrCall'[d].dec = hrLedger'
    BY <1>6, <2>7, <2>8
  <2>10. (\A d \in HrClerks : hrCall'[d].pc \notin {"fetch", "publish"})
            => hrDue' \cap hrStore'.review = {}
    <3>1. \A d \in HrClerks : hrCall[d].pc \notin {"fetch", "publish"}
      BY <1>2, <2>2 DEF HrBusy
    <3>2. hrDue \cap hrStore.review = {}
      BY <2>1, <3>1 DEF HrInTurn
    <3>3. CASE c \in HrRequests /\ call.auto
      <4>1. hrCall'[c].pc = "fetch"
        BY <1>3, <1>6, <3>3
      <4>. QED BY <4>1
    <3>4. CASE ~(c \in HrRequests /\ call.auto)
      BY <1>2, <3>2, <3>4
    <3>. QED BY <3>3, <3>4
  <2>. QED BY <2>3, <2>5, <2>6, <2>9, <2>10 DEF HrInTurn
<1>. QED BY <1>9, <1>10, <1>11 DEF HrInv

\* A step after which somebody is known to have got in the way.
LEMMA HrWriteFailsInv == ASSUME HrInv, NEW c \in HrClerks, HrWriteFails(c) PROVE HrInv'
<1>1. /\ hrCall' = [hrCall EXCEPT ![c] = HrIdle] /\ hrClean' = FALSE
      /\ UNCHANGED <<hrFile, hrWritable, hrStore, hrDisk, hrTab, hrAsked, hrLedger, hrDue>>
  BY DEF HrWriteFails, HrSet, hrFiles
<1>2. HrCallTyped'
  <2>1. HrIsCall(HrIdle, hrAsked')
    BY HrIdleIs
  <2>. QED BY <1>1, <2>1, HrCallMoves DEF HrInv, HrTyped
<1>3. HrTyped'
  BY <1>1, <1>2, HrFileStays, HrTabStays, HrReportStays DEF HrInv, HrTyped
<1>4. HrDueDecided'
  BY <1>1, HrDueStays DEF HrInv
<1>. QED BY <1>1, <1>3, <1>4 DEF HrInv

LEMMA HrFetchInv == ASSUME HrInv, NEW c \in HrRequests, HrFetch(c) PROVE HrInv'
<1>. DEFINE call == hrCall[c]
<1>1. PICK r : r = [call EXCEPT !.pc = "publish", !.view = hrStore]
  OBVIOUS
<1>2. /\ hrCall' = [hrCall EXCEPT ![c] = r] /\ call.pc = "fetch" /\ c \in HrClerks
      /\ UNCHANGED <<hrFile, hrWritable, hrStore, hrDisk, hrTab, hrAsked, hrLedger, hrDue, hrClean>>
  BY <1>1 DEF HrFetch, HrSet, HrClerks, hrFiles, hrGhosts
<1>3. HrIsCall(call, hrAsked) /\ HrSound(hrStore, hrAsked)
  BY <1>2 DEF HrInv, HrTyped, HrCallTyped, HrReportTyped
<1>4. r = [pc |-> "publish", act |-> call.act, rows |-> call.rows, batch |-> call.batch,
           auto |-> call.auto, at |-> call.at, dec |-> call.dec, view |-> hrStore]
  BY <1>1, <1>3 DEF HrIsCall
<1>5. HrIsCall(r, hrAsked')
  BY <1>2, <1>3, <1>4 DEF HrIsCall, HrPcs
<1>6. HrCallTyped' /\ hrCall'[c] = r /\ \A d \in HrClerks \ {c} : hrCall'[d] = hrCall[d]
  BY <1>2, <1>5, HrCallMoves DEF HrInv, HrTyped
<1>7. HrTyped'
  BY <1>2, <1>6, HrFileStays, HrTabStays, HrReportStays DEF HrInv, HrTyped
<1>8. HrDueDecided'
  BY <1>2, HrDueStays DEF HrInv
<1>9. ASSUME hrClean' PROVE HrInTurn'
  <2>1. HrInTurn /\ HrBusy(c)
    BY <1>2, <1>9 DEF HrInv, HrBusy
  <2>2. \A d \in HrClerks \ {c} : ~HrBusy(d) /\ ~HrBusy(d)'
    BY <1>2, <1>6, <2>1 DEF HrInTurn, HrBusy
  <2>3. \A d, e \in HrClerks : HrBusy(d)' /\ HrBusy(e)' => d = e
    BY <2>2
  <2>4. HrDecisions' = HrDecisions
    BY <1>2 DEF HrDecisions, HrDecisionsIn
  <2>5. HrDecisions = hrLedger /\ call.dec = hrLedger
    <3>1. \A d \in HrClerks : hrCall[d].pc # "write"
      BY <1>2, <2>2 DEF HrBusy
    <3>. QED BY <1>2, <2>1, <3>1 DEF HrInTurn
  <2>6. \A d \in HrClerks \ {c} : hrCall'[d].pc \notin {"open", "write", "fetch", "publish"}
    BY <2>2 DEF HrBusy
  <2>7. r.pc = "publish" /\ r.dec = hrLedger'
    BY <1>2, <1>4, <2>5
  <2>8. \A d \in HrClerks :
           /\ hrCall'[d].pc \in {"open", "write"} =>
                /\ hrCall'[d].at = HrWritePlace'
                /\ hrCall'[d].dec = HrAmended(hrLedger', hrCall'[d].rows, hrCall'[d].act)
           /\ hrCall'[d].pc \in {"fetch", "publish"} => hrCall'[d].dec = hrLedger'
    BY <1>6, <2>6, <2>7
  <2>9. /\ hrWritable' => hrFile'["store"].is = "absent"
        /\ HrDecisions' = hrLedger'
    BY <1>2, <2>1, <2>4, <2>5 DEF HrInTurn
  <2>10. hrCall'[c].pc = "publish"
    BY <1>6, <2>7
  <2>. QED BY <1>2, <2>3, <2>8, <2>9, <2>10 DEF HrInTurn
<1>. QED BY <1>7, <1>8, <1>9 DEF HrInv

LEMMA HrPublishInv == ASSUME HrInv, NEW c \in HrRequests, HrPublish(c) PROVE HrInv'
<1>. DEFINE call == hrCall[c]
<1>1. /\ hrCall' = [hrCall EXCEPT ![c] = HrIdle] /\ call.pc = "publish" /\ c \in HrClerks
      /\ hrStore' = HrApplied(call.view, call.dec)
      /\ UNCHANGED <<hrFile, hrWritable, hrDisk, hrTab, hrAsked, hrLedger, hrDue, hrClean>>
  BY DEF HrPublish, HrSet, HrClerks, hrGhosts
<1>2. HrSound(call.view, hrAsked) /\ HrGiven(call.dec, hrAsked)
  BY <1>1 DEF HrInv, HrTyped, HrCallTyped, HrIsCall
<1>3. HrCallTyped' /\ hrCall'[c] = HrIdle /\ \A d \in HrClerks \ {c} : hrCall'[d] = hrCall[d]
  <2>1. HrIsCall(HrIdle, hrAsked')
    BY HrIdleIs
  <2>. QED BY <1>1, <2>1, HrCallMoves DEF HrInv, HrTyped
<1>4. HrReportTyped'
  <2>1. HrSound(HrApplied(call.view, call.dec), hrAsked)
    BY <1>2, HrAppliedSound
  <2>. QED BY <1>1, <2>1 DEF HrInv, HrTyped, HrReportTyped
<1>5. HrTyped'
  BY <1>1, <1>3, <1>4, HrFileStays, HrTabStays DEF HrInv, HrTyped
<1>6. HrDueDecided'
  BY <1>1, HrDueStays DEF HrInv
<1>7. ASSUME hrClean' PROVE HrInTurn'
  <2>1. HrInTurn /\ HrBusy(c)
    BY <1>1, <1>7 DEF HrInv, HrBusy
  <2>2. \A d \in HrClerks \ {c} : ~HrBusy(d)
    BY <1>1, <2>1 DEF HrInTurn
  <2>3. \A d \in HrClerks : hrCall'[d].pc \notin {"open", "write", "fetch", "publish"}
    BY <1>3, <2>2, HrIdleIs DEF HrBusy
  <2>4. HrDecisions' = HrDecisions
    BY <1>1 DEF HrDecisions, HrDecisionsIn
  <2>5. HrDecisions = hrLedger /\ call.dec = hrLedger
    <3>1. \A d \in HrClerks : hrCall[d].pc # "write"
      BY <1>1, <2>2 DEF HrBusy
    <3>. QED BY <1>1, <2>1, <3>1 DEF HrInTurn
  <2>6. hrDue' \cap hrStore'.review = {}
    <3>1. hrStore'.review = {x \in call.view.review : call.dec[x] = "none"}
      BY <1>1 DEF HrApplied
    <3>2. \A x \in hrDue : hrLedger[x] # "none"
      BY DEF HrInv, HrDueDecided
    <3>. QED BY <1>1, <2>5, <3>1, <3>2
  <2>7. hrWritable' => hrFile'["store"].is = "absent"
    BY <1>1, <2>1 DEF HrInTurn
  <2>8. HrDecisions' = hrLedger'
    BY <1>1, <2>4, <2>5
  <2>. QED BY <2>3, <2>6, <2>7, <2>8 DEF HrInTurn, HrBusy
<1>. QED BY <1>5, <1>6, <1>7 DEF HrInv

\* The server loads the report anew; nothing is due on it any more.
LEMMA HrReloadInv == ASSUME HrInv, HrReload PROVE HrInv'
<1>1. /\ hrStore' = hrDisk /\ hrDue' = {} /\ (hrClean' => hrClean)
      /\ UNCHANGED <<hrFile, hrWritable, hrDisk, hrTab, hrCall, hrAsked, hrLedger>>
  BY DEF HrReload
<1>2. HrReportTyped'
  BY <1>1 DEF HrInv, HrTyped, HrReportTyped
<1>3. HrTyped'
  BY <1>1, <1>2, HrFileStays, HrTabStays, HrCallStays DEF HrInv, HrTyped
<1>4. HrDueDecided'
  BY <1>1 DEF HrDueDecided
<1>5. ASSUME hrClean' PROVE HrInTurn'
  <2>1. HrInTurn
    BY <1>1, <1>5 DEF HrInv
  <2>2. HrDecisions' = HrDecisions /\ HrWritePlace' = HrWritePlace
    BY <1>1 DEF HrDecisions, HrDecisionsIn, HrWritePlace
  <2>3. \A c \in HrClerks : HrBusy(c)' = HrBusy(c)
    BY <1>1 DEF HrBusy
  <2>. QED BY <1>1, <2>1, <2>2, <2>3 DEF HrInTurn
<1>. QED BY <1>3, <1>4, <1>5 DEF HrInv

LEMMA HrRestartInv == ASSUME HrInv, HrRestart PROVE HrInv'
<1>1. /\ hrStore' = hrDisk /\ hrDue' = {}
      /\ hrClean' => hrClean /\ \A c \in HrRequests : hrCall[c].pc # "write"
      /\ UNCHANGED <<hrFile, hrWritable, hrDisk, hrTab, hrAsked, hrLedger>>
      /\ hrCall' = [c \in HrClerks |-> IF c \in HrRequests THEN HrIdle ELSE hrCall[c]]
  BY DEF HrRestart
<1>2. /\ hrCall' = [c \in HrClerks |-> hrCall'[c]]
      /\ \A c \in HrClerks : hrCall'[c] = IF c \in HrRequests THEN HrIdle ELSE hrCall[c]
  BY <1>1
<1>3. HrCallTyped'
  <2>1. ASSUME NEW c \in HrClerks PROVE HrIsCall(hrCall'[c], hrAsked')
    <3>1. HrIsCall(hrCall[c], hrAsked)
      BY DEF HrInv, HrTyped, HrCallTyped
    <3>. QED BY <1>1, <1>2, <3>1, HrIdleIs
  <2>. QED BY <1>2, <2>1 DEF HrCallTyped
<1>4. HrReportTyped'
  BY <1>1 DEF HrInv, HrTyped, HrReportTyped
<1>5. HrTyped'
  BY <1>1, <1>3, <1>4, HrFileStays, HrTabStays DEF HrInv, HrTyped
<1>6. HrDueDecided'
  BY <1>1 DEF HrDueDecided
<1>7. ASSUME hrClean' PROVE HrInTurn'
  <2>1. HrInTurn /\ \A c \in HrRequests : hrCall[c].pc # "write"
    BY <1>1, <1>7 DEF HrInv
  <2>2. HrDecisions' = HrDecisions /\ HrWritePlace' = HrWritePlace
    BY <1>1 DEF HrDecisions, HrDecisionsIn, HrWritePlace
  <2>3. \A c \in HrClerks : \/ hrCall'[c] = hrCall[c]
                            \/ c \in HrRequests /\ hrCall'[c].pc = "idle"
    BY <1>2, HrIdlePc
  <2>4. \A c, d \in HrClerks : HrBusy(c)' /\ HrBusy(d)' => c = d
    BY <2>1, <2>3 DEF HrInTurn, HrBusy
  <2>5. (\A c \in HrClerks : hrCall'[c].pc # "write") => HrDecisions' = hrLedger'
    <3>1. (\A c \in HrClerks : hrCall'[c].pc # "write") => \A c \in HrClerks : hrCall[c].pc # "write"
      BY <2>1, <2>3
    <3>. QED BY <1>1, <2>1, <2>2, <3>1 DEF HrInTurn
  <2>6. \A c \in HrClerks :
           /\ hrCall'[c].pc \in {"open", "write"} =>
                /\ hrCall'[c].at = HrWritePlace'
                /\ hrCall'[c].dec = HrAmended(hrLedger', hrCall'[c].rows, hrCall'[c].act)
           /\ hrCall'[c].pc \in {"fetch", "publish"} => hrCall'[c].dec = hrLedger'
    BY <1>1, <2>1, <2>2, <2>3 DEF HrInTurn
  <2>7. hrWritable' => hrFile'["store"].is = "absent"
    BY <1>1, <2>1 DEF HrInTurn
  <2>. QED BY <1>1, <2>4, <2>5, <2>6, <2>7 DEF HrInTurn
<1>. QED BY <1>5, <1>6, <1>7 DEF HrInv

\* The sidecar moves with the right to write; it is readable there if nothing is in the store.
LEMMA HrRemountInv == ASSUME HrInv, HrRemount PROVE HrInv'
<1>1. /\ hrWritable' = ~hrWritable
      /\ hrClean' => /\ hrClean /\ (hrWritable \/ hrFile["store"].is = "absent")
                     /\ \A c \in HrClerks : ~HrBusy(c)
      /\ UNCHANGED <<hrFile, hrStore, hrDisk, hrTab, hrCall, hrAsked, hrLedger, hrDue>>
  BY DEF HrRemount
<1>2. HrTyped'
  BY <1>1, HrFileStays, HrTabStays, HrCallStays, HrReportStays DEF HrInv, HrTyped
<1>3. HrDueDecided'
  BY <1>1, HrDueStays DEF HrInv
<1>4. ASSUME hrClean' PROVE HrInTurn'
  <2>1. HrInTurn /\ (\A c \in HrClerks : ~HrBusy(c)) /\ (hrWritable \/ hrFile["store"].is = "absent")
    BY <1>1, <1>4 DEF HrInv
  <2>2. HrDecisions' = HrDecisions
    BY <1>1 DEF HrDecisions, HrDecisionsIn
  <2>3. \A c \in HrClerks : hrCall[c].pc \notin {"open", "write", "fetch", "publish"}
    BY <2>1 DEF HrBusy
  <2>4. HrDecisions = hrLedger /\ hrDue \cap hrStore.review = {}
    BY <2>1, <2>3 DEF HrInTurn
  <2>5. hrWritable' => hrFile'["store"].is = "absent"
    BY <1>1, <2>1
  <2>6. \A c \in HrClerks : ~HrBusy(c)'
    BY <1>1, <2>3 DEF HrBusy
  <2>. QED BY <1>1, <2>2, <2>3, <2>4, <2>5, <2>6 DEF HrInTurn
<1>. QED BY <1>2, <1>3, <1>4 DEF HrInv

LEMMA HrTabLoadInv == ASSUME HrInv, NEW t \in HrTabs, HrTabLoad(t) PROVE HrInv'
<1>1. /\ hrTab' = [hrTab EXCEPT ![t] = HrDecisionsIn(hrFile["adjacent"])]
      /\ UNCHANGED <<hrFile, hrWritable, hrStore, hrDisk, hrCall, hrAsked, hrLedger, hrDue, hrClean>>
  BY DEF HrTabLoad, hrGhosts
<1>2. HrTabTyped'
  <2>1. PICK dec : dec = HrDecisionsIn(hrFile["adjacent"])
    OBVIOUS
  <2>2. HrGiven(dec, hrAsked)
    BY <2>1, HrReadGiven DEF HrInv, HrTyped, HrPlaces
  <2>3. hrTab' = [hrTab EXCEPT ![t] = dec]
    BY <1>1, <2>1
  <2>. QED BY <1>1, <2>2, <2>3 DEF HrInv, HrTyped, HrTabTyped
<1>3. HrTyped'
  BY <1>1, <1>2, HrFileStays, HrCallStays, HrReportStays DEF HrInv, HrTyped
<1>4. HrDueDecided'
  BY <1>1, HrDueStays DEF HrInv
<1>5. hrClean' => HrInTurn'
  <2>1. HrDecisions' = HrDecisions /\ HrWritePlace' = HrWritePlace
    BY <1>1 DEF HrDecisions, HrDecisionsIn, HrWritePlace
  <2>. QED BY <1>1, <2>1 DEF HrInv, HrInTurn, HrBusy
<1>. QED BY <1>3, <1>4, <1>5 DEF HrInv

LEMMA HrTabDecideInv == ASSUME HrInv, NEW t \in HrTabs, HrTabDecide(t) PROVE HrInv'
<1>1. PICK x \in HrApplied(hrDisk, hrTab[t]).review, verdict \in HrVerdicts :
        /\ hrTab' = [hrTab EXCEPT ![t] = HrAmended(hrTab[t], {x}, verdict)]
        /\ IF hrWritable
           THEN HrSet(t, [HrIdle EXCEPT !.pc = "open", !.act = verdict, !.rows = {x},
                                        !.dec = HrAmended(hrTab[t], {x}, verdict)])
           ELSE UNCHANGED hrCall
        /\ hrAsked' = hrAsked \cup {<<x, verdict>>}
        /\ hrClean' = (hrClean /\ hrWritable /\ HrAlone(t) /\ hrTab[t] = HrDecisions)
  BY Zenon DEF HrTabDecide
<1>2. PICK dec : dec = HrAmended(hrTab[t], {x}, verdict)
  OBVIOUS
<1>3. PICK r : r = [HrIdle EXCEPT !.pc = "open", !.act = verdict, !.rows = {x}, !.dec = dec]
  OBVIOUS
<1>4. /\ hrTab' = [hrTab EXCEPT ![t] = dec]
      /\ IF hrWritable THEN hrCall' = [hrCall EXCEPT ![t] = r] ELSE hrCall' = hrCall
  BY <1>1, <1>2, <1>3, Zenon DEF HrSet
<1>5. /\ hrCall[t].pc = "idle" /\ t \in HrClerks
      /\ UNCHANGED <<hrFile, hrWritable, hrStore, hrDisk, hrLedger, hrDue>>
  BY DEF HrTabDecide, HrClerks
<1>6. /\ hrAsked \subseteq hrAsked' /\ <<x, verdict>> \in hrAsked'
      /\ hrClean' => hrClean /\ hrWritable /\ HrAlone(t) /\ hrTab[t] = HrDecisions
  BY <1>1
<1>7. r = [pc |-> "open", act |-> verdict, rows |-> {x}, batch |-> FALSE, auto |-> FALSE,
           at |-> "adjacent", dec |-> dec, view |-> HrFresh]
  BY <1>3, HrIdleRecord
<1>8. x \in HrRows
  <2>1. HrApplied(hrDisk, hrTab[t]).review \subseteq hrDisk.review
    BY DEF HrApplied
  <2>2. hrDisk.review \subseteq HrRows
    BY DEF HrInv, HrTyped, HrReportTyped, HrSound, HrUndecided
  <2>. QED BY <2>1, <2>2
<1>9. HrGiven(dec, hrAsked')
  <2>1. HrGiven(hrTab[t], hrAsked')
    BY <1>6, HrGrows DEF HrInv, HrTyped, HrTabTyped
  <2>2. verdict \in HrVerdicts \cup {"none"} /\ \A y \in {x} : <<y, verdict>> \in hrAsked'
    BY <1>6
  <2>. QED BY <1>2, <2>1, <2>2, HrAmendedGiven
<1>10. HrTabTyped'
  BY <1>4, <1>6, <1>9, HrGrows DEF HrInv, HrTyped, HrTabTyped
<1>11. HrIsCall(r, hrAsked')
  <2>1. "open" \in HrPcs /\ "adjacent" \in HrPlaces /\ {x} \subseteq HrRows /\ verdict # "apply"
    BY <1>8 DEF HrPcs, HrPlaces, HrVerdicts
  <2>2. HrSound(HrFresh, hrAsked')
    BY HrFreshSound
  <2>. QED BY <1>6, <1>7, <1>9, <2>1, <2>2 DEF HrIsCall
<1>12. CASE hrWritable
  <2>1. HrCallTyped' /\ hrCall'[t] = r /\ \A d \in HrClerks \ {t} : hrCall'[d] = hrCall[d]
    BY <1>4, <1>5, <1>6, <1>11, <1>12, HrCallMoves DEF HrInv, HrTyped
  <2>2. HrTyped'
    BY <1>5, <1>6, <1>10, <2>1, HrFileStays, HrReportStays DEF HrInv, HrTyped
  <2>3. ASSUME hrClean' PROVE HrInTurn'
    <3>1. HrInTurn /\ HrAlone(t) /\ hrTab[t] = HrDecisions
      BY <1>6, <2>3 DEF HrInv
    <3>2. \A d \in HrClerks : ~HrBusy(d)
      BY <1>5, <3>1 DEF HrAlone, HrBusy
    <3>3. HrDecisions = hrLedger /\ hrDue \cap hrStore.review = {}
      BY <3>1, <3>2 DEF HrInTurn, HrBusy
    <3>4. HrDecisions' = HrDecisions /\ HrWritePlace' = "adjacent"
      BY <1>5, <1>12 DEF HrDecisions, HrDecisionsIn, HrWritePlace
    <3>5. \A d \in HrClerks \ {t} : hrCall'[d].pc \notin {"open", "write", "fetch", "publish"}
      BY <2>1, <3>2 DEF HrBusy
    <3>6. \A d, e \in HrClerks : HrBusy(d)' /\ HrBusy(e)' => d = e
      BY <3>5 DEF HrBusy
    <3>7. /\ r.pc = "open" /\ r.at = HrWritePlace'
          /\ r.dec = HrAmended(hrLedger', r.rows, r.act)
      BY <1>2, <1>5, <1>7, <3>1, <3>3, <3>4
    <3>8. \A d \in HrClerks :
             /\ hrCall'[d].pc \in {"open", "write"} =>
                  /\ hrCall'[d].at = HrWritePlace'
                  /\ hrCall'[d].dec = HrAmended(hrLedger', hrCall'[d].rows, hrCall'[d].act)
             /\ hrCall'[d].pc \in {"fetch", "publish"} => hrCall'[d].dec = hrLedger'
      BY <2>1, <3>5, <3>7
    <3>9. /\ hrWritable' => hrFile'["store"].is = "absent"
          /\ HrDecisions' = hrLedger' /\ hrDue' \cap hrStore'.review = {}
      BY <1>5, <3>1, <3>3, <3>4 DEF HrInTurn
    <3>. QED BY <3>6, <3>8, <3>9 DEF HrInTurn
  <2>4. HrDueDecided'
    BY <1>5, HrDueStays DEF HrInv
  <2>. QED BY <2>2, <2>3, <2>4 DEF HrInv
<1>13. CASE ~hrWritable
  <2>1. HrTyped'
    BY <1>4, <1>5, <1>6, <1>10, <1>13, HrFileStays, HrReportStays, HrCallStays DEF HrInv, HrTyped
  <2>2. HrDueDecided'
    BY <1>5, HrDueStays DEF HrInv
  <2>. QED BY <1>6, <1>13, <2>1, <2>2 DEF HrInv
<1>. QED BY <1>12, <1>13

LEMMA HrTabSubmitInv == ASSUME HrInv, NEW t \in HrTabs, HrTabSubmit(t) PROVE HrInv'
<1>1. /\ hrDisk' = HrApplied(hrDisk, hrTab[t])
      /\ UNCHANGED <<hrFile, hrWritable, hrStore, hrTab, hrCall, hrAsked, hrLedger, hrDue, hrClean>>
  BY DEF HrTabSubmit, hrGhosts
<1>2. HrReportTyped'
  <2>1. HrSound(HrApplied(hrDisk, hrTab[t]), hrAsked)
    BY HrAppliedSound DEF HrInv, HrTyped, HrReportTyped, HrTabTyped
  <2>. QED BY <1>1, <2>1 DEF HrInv, HrTyped, HrReportTyped
<1>3. HrTyped'
  BY <1>1, <1>2, HrFileStays, HrTabStays, HrCallStays DEF HrInv, HrTyped
<1>4. HrDueDecided'
  BY <1>1, HrDueStays DEF HrInv
<1>5. hrClean' => HrInTurn'
  <2>1. HrDecisions' = HrDecisions /\ HrWritePlace' = HrWritePlace
    BY <1>1 DEF HrDecisions, HrDecisionsIn, HrWritePlace
  <2>. QED BY <1>1, <2>1 DEF HrInv, HrInTurn, HrBusy
<1>. QED BY <1>3, <1>4, <1>5 DEF HrInv

LEMMA HrStepInv == HrInv /\ [HrNext]_hrVars => HrInv'
<1> SUFFICES ASSUME HrInv, [HrNext]_hrVars PROVE HrInv'
  OBVIOUS
<1>1. CASE UNCHANGED hrVars
  <2>1. UNCHANGED <<hrFile, hrWritable, hrStore, hrDisk, hrTab, hrCall, hrAsked, hrLedger, hrDue, hrClean>>
    BY <1>1 DEF hrVars
  <2>2. HrTyped' /\ HrDueDecided'
    BY <2>1, HrFileStays, HrTabStays, HrCallStays, HrReportStays, HrDueStays DEF HrInv, HrTyped
  <2>3. HrDecisions' = HrDecisions /\ HrWritePlace' = HrWritePlace
    BY <2>1 DEF HrDecisions, HrDecisionsIn, HrWritePlace
  <2>4. hrClean' => HrInTurn'
    BY <2>1, <2>3 DEF HrInv, HrInTurn, HrBusy
  <2>. QED BY <2>2, <2>4 DEF HrInv
<1>2. ASSUME NEW c \in HrRequests, HrAsk(c) \/ HrLoad(c) \/ HrFetch(c) \/ HrPublish(c) PROVE HrInv'
  BY <1>2, HrAskInv, HrLoadInv, HrFetchInv, HrPublishInv
<1>3. ASSUME NEW c \in HrClerks, HrOpen(c) \/ HrWrite(c) \/ HrWriteFails(c) PROVE HrInv'
  BY <1>3, HrOpenInv, HrWriteInv, HrWriteFailsInv
<1>4. ASSUME NEW t \in HrTabs, HrTabLoad(t) \/ HrTabDecide(t) \/ HrTabSubmit(t) PROVE HrInv'
  BY <1>4, HrTabLoadInv, HrTabDecideInv, HrTabSubmitInv
<1>5. CASE HrReload \/ HrRestart \/ HrRemount
  BY <1>5, HrReloadInv, HrRestartInv, HrRemountInv
<1>. QED BY <1>1, <1>2, <1>3, <1>4, <1>5 DEF HrNext

\* Whatever the requests, the tabs, restarts and moves of the sidecar do to each other, the
\* report in REPORT_STORE and report.json merge and drop only what somebody asked for, and
\* lose no row; as long as no two writers overlapped, what _load_hitl_for_report reads back
\* is the last verdict saved on every row, and auto_apply has taken the row out of the queue.
THEOREM HrDecisionsKeptHolds == HrSpec => []HrDecisionsKept
<1>1. HrInv => HrDecisionsKept
  <2> SUFFICES ASSUME HrInv PROVE HrDecisionsKept
    OBVIOUS
  <2>1. HrNothingInvented
    BY DEF HrInv, HrTyped, HrReportTyped, HrSound, HrNothingInvented
  <2>2. ASSUME hrClean, \A c \in HrClerks : ~HrBusy(c)
        PROVE  HrDecisions = hrLedger /\ hrDue \cap hrStore.review = {}
    BY <2>2 DEF HrInv, HrInTurn, HrBusy
  <2>. QED BY <2>1, <2>2 DEF HrDecisionsKept
<1>. QED BY HrInitInv, HrStepInv, <1>1, PTL DEF HrSpec

\* A sidecar is absent, torn or whole, and its directory can be written or not.
HrKinds == hrWritable \in BOOLEAN /\ \A p \in HrPlaces : hrFile[p].is \in {"absent", "torn", "whole"}

LEMMA HrKindsInit == HrInit => HrKinds
BY DEF HrInit, HrKinds

LEMMA HrKindsStep == HrInv /\ HrKinds /\ [HrNext]_hrVars => HrKinds'
<1> SUFFICES ASSUME HrInv, HrKinds, [HrNext]_hrVars PROVE HrKinds'
  OBVIOUS
<1>1. CASE hrFile' = hrFile
  <2>1. hrWritable' \in {hrWritable, ~hrWritable}
    BY DEF HrNext, HrAsk, HrLoad, HrFetch, HrPublish, HrOpen, HrWrite, HrWriteFails, HrTabLoad,
           HrTabDecide, HrTabSubmit, HrReload, HrRestart, HrRemount, hrVars, hrFiles
  <2>. QED BY <1>1, <2>1 DEF HrKinds
<1>2. ASSUME NEW c \in HrClerks, HrOpen(c) \/ HrWrite(c) PROVE HrKinds'
  <2>1. hrWritable' = hrWritable
    BY <1>2 DEF HrOpen, HrWrite
  <2>2. PICK is \in {"torn", "whole"}, dec \in HrDecs \cup {HrNothing} :
          hrFile' = [hrFile EXCEPT ![hrCall[c].at] = [is |-> is, dec |-> dec]]
    <3>1. hrCall[c].dec \in HrDecs
      BY DEF HrInv, HrTyped, HrCallTyped, HrIsCall, HrGiven
    <3>. QED BY <1>2, <3>1 DEF HrOpen, HrWrite
  <2>3. \A p \in HrPlaces : hrFile'[p] = hrFile[p] \/ hrFile'[p] = [is |-> is, dec |-> dec]
    BY <2>2 DEF HrInv, HrTyped, HrFileTyped
  <2>. QED BY <2>1, <2>3 DEF HrKinds
<1>3. hrFile' = hrFile \/ \E c \in HrClerks : HrOpen(c) \/ HrWrite(c)
  BY Zenon DEF HrNext, HrAsk, HrLoad, HrFetch, HrPublish, HrWriteFails, HrTabLoad,
         HrTabDecide, HrTabSubmit, HrReload, HrRestart, HrRemount, hrVars, hrFiles
<1>. QED BY <1>1, <1>2, <1>3

\* Sidecars, reports and session copies keep their kinds through torn and failed writes,
\* reloads and restarts.
THEOREM HrTypesHold == HrSpec => []HrTypeOK
<1>1. ASSUME HrInv, HrKinds PROVE HrTypeOK
  <2>1. hrFile \in [HrPlaces -> HrSidecar]
    <3>1. \A p \in HrPlaces : hrFile[p] \in HrSidecar
      BY <1>1 DEF HrInv, HrTyped, HrFileTyped, HrKinds, HrGiven, HrDecs, HrSidecar
    <3>. QED BY <1>1, <3>1 DEF HrInv, HrTyped, HrFileTyped
  <2>2. \A am, asked : HrSound(am, asked) => am \in HrMerge
    BY DEF HrSound, HrMerge, HrUndecided
  <2>3. hrTab \in [HrTabs -> [HrRows -> HrVerdicts \cup {"none"}]]
    BY <1>1 DEF HrInv, HrTyped, HrTabTyped, HrGiven, HrDecs
  <2>4. hrStore \in HrMerge /\ hrDisk \in HrMerge
    BY <1>1, <2>2 DEF HrInv, HrTyped, HrReportTyped
  <2>5. ASSUME NEW c \in HrClerks
        PROVE  hrCall[c].pc \in HrPcs /\ hrCall[c].at \in HrPlaces /\ hrCall[c].view \in HrMerge
    BY <1>1, <2>2 DEF HrInv, HrTyped, HrCallTyped, HrIsCall
  <2>. QED BY <1>1, <2>1, <2>3, <2>4, <2>5 DEF HrTypeOK, HrKinds, HrPcs
<1>. QED BY HrInitInv, HrStepInv, HrKindsInit, HrKindsStep, <1>1, PTL DEF HrSpec
=============================================================================
