------------------------------- MODULE BulkJob -------------------------------
(***************************************************************************)
(* The bulk migration job: POST /bulk/{report}/start gates the requested   *)
(* tables, registers a job and spawns a worker thread; the worker prepares *)
(* every table on a thread pool, validates the prepared models with        *)
(* batched dbt runs, repairs or degrades the ones that fail, and publishes *)
(* its progress in _BULK_JOBS (memory) and in one JSON file per job.       *)
(* Around it: DELETE /bulk/job/{id}, the progress WebSocket, the shutdown  *)
(* hook of the application, and the end of the process.                    *)
(***************************************************************************)
EXTENDS Naturals, FiniteSets

CONSTANTS
    Jobs,        \* uuid4 job ids: each is issued at most once
    Tables,      \* table keys a client may name
    Slots,       \* positions of the request's table_keys list
    Requests,    \* the lists a client may send, as functions from Slots
    NoTable,     \* the value of a position the list does not have
    Queue,       \* queue evaluate_batch gives each table, "missing" when none
    Models,      \* dbt model names, each one .sql file of output_dir
    ModelOf,     \* model name propose_dbt_model derives from a table key
    Workers,     \* pool size, min(max_workers, 8)
    ChunkSize,   \* models per dbt invocation (50 in the code)
    Watched,     \* jobs a client opens the progress WebSocket of
    SaveFails,   \* whether writing and unlinking job files may fail
    MaxClears,   \* bound: DELETE calls
    MaxRestarts  \* bound: process ends

ASSUME BulkAssumption ==
    /\ NoTable \notin Tables
    /\ IsFiniteSet(Slots)
    /\ IsFiniteSet(Tables)
    /\ Requests \subseteq [Slots -> Tables \cup {NoTable}]
    /\ Queue \in [Tables -> {"green", "yellow", "red", "missing"}]
    /\ ModelOf \in [Tables -> Models]
    /\ Workers \in Nat \ {0}
    /\ ChunkSize \in Nat \ {0}
    /\ Watched \subseteq Jobs
    /\ SaveFails \in BOOLEAN
    /\ MaxClears \in Nat
    /\ MaxRestarts \in Nat

VARIABLES
    srv,       \* "up", or "stopping" once the lifespan hook has run
    mem,       \* _BULK_JOBS: the entry of each job id
    disk,      \* target/bulk_jobs/<id>.json, as last written
    keys,      \* the runnable table keys of each job, by position
    pc,        \* where the job's worker thread is
    fut,       \* the job's futures, one per position
    prepared,  \* prepared_models whose outcome is not recorded yet
    verdict,   \* "out" of test_models_batch, by model
    chunk,     \* models of the dbt invocation in progress
    cur,       \* table being repaired by the validation loop
    file,      \* content of each model's .sql file
    rr,        \* target/run_results.json, by model name
    built,     \* history: models dbt has built successfully
    audit,     \* audit_trail.jsonl: (job, table) pairs recorded as approved
    ws,        \* progress WebSocket of each job
    unlinking, \* DELETE calls between the pop and the unlink
    clears,    \* DELETE calls so far
    restarts   \* process ends so far

jobVars   == <<mem, disk>>
localVars == <<prepared, verdict, chunk, cur>>
dbtVars   == <<file, rr, built>>
envVars   == <<srv, ws, unlinking, clears, restarts>>
vars == <<srv, mem, disk, keys, pc, fut, prepared, verdict, chunk, cur,
          file, rr, built, audit, ws, unlinking, clears, restarts>>

-----------------------------------------------------------------------------
(* Values *)

Status == {"absent", "queued", "running", "done", "failed"}
Active == {"queued", "running"}

\* An entry of _BULK_JOBS; "absent" stands for no entry (or no file).
Entry == [status : Status, total : Nat, completed : Nat,
          success : SUBSET Tables, failed : SUBSET Tables]

EntryOf(st, n, c, ok, bad) ==
    [status |-> st, total |-> n, completed |-> c, success |-> ok, failed |-> bad]

NoEntry == EntryOf("absent", 0, 0, {}, {})

\* The updates the worker makes to an entry.
Queued(n) == EntryOf("queued", n, 0, {}, {})
Running(e, n) == EntryOf("running", n, e.completed, e.success, e.failed)
PhaseTwo(e, n) == EntryOf("running", n, 0, e.success, e.failed)
Closed(e, st) == EntryOf(st, e.total, e.completed, e.success, e.failed)
Counted(e) == EntryOf(e.status, e.total, e.completed + 1, e.success, e.failed)
Migrated(e, t) == EntryOf(e.status, e.total, e.completed + 1, e.success \cup {t}, e.failed)
Failed(e, t) == EntryOf(e.status, e.total, e.completed + 1, e.success, e.failed \cup {t})

Sql == {"none", "empty", "proposal", "corrected", "passthrough"}
Content == [table : Tables \cup {NoTable}, sql : Sql]

Finished == {"ok", "empty", "raised", "collected"}
Future == {"none", "queued", "written", "blank"} \cup Finished

Pc == {"new", "nothread", "spawned", "collect", "drain", "batch", "read", "test",
       "reread", "loop", "retest", "passthrough", "retest2", "accept", "reject",
       "handler", "ended"}

TableOf(j, s) == keys[j][s]
Listed(j) == {s \in Slots : keys[j][s] # NoTable}
Asked(j) == {keys[j][s] : s \in Listed(j)}

-----------------------------------------------------------------------------
(* Helpers of the actions *)

\* Write or unlink the job file; both swallow an OSError.
Save(j, e) ==
    \/ disk' = [disk EXCEPT ![j] = e]
    \/ SaveFails /\ UNCHANGED disk

\* Store an entry and save it, under the lock.
Publish(j, e) ==
    /\ mem' = [mem EXCEPT ![j] = e]
    /\ Save(j, e)

Goto(j, l) == pc' = [pc EXCEPT ![j] = l]

\* A dbt command comes back, or what surrounds it (bootstrapping the sources,
\* decoding what dbt printed) raises and the job fails.
GotoOrFail(j, l) == Goto(j, l) \/ Goto(j, "handler")

\* Every _BULK_JOBS[job_id] of the worker raises KeyError once the entry is gone.
Alive(j) == mem[j].status # "absent"

\* _write_model_files: a model name is one file, whoever proposed it.
WriteModel(t, k) == file' = [file EXCEPT ![ModelOf[t]] = [table |-> t, sql |-> k]]

\* dbt run of the models in c. It may fail before it executes a node and then
\* leaves run_results.json, and so whatever an earlier invocation wrote there.
DbtRun(c) ==
    \/ UNCHANGED <<rr, built>>
    \/ \E good \in SUBSET c :
          /\ rr' = [m \in Models |-> IF m \in good THEN "ok"
                                     ELSE IF m \in c THEN "err" ELSE "none"]
          /\ built' = built \cup good

\* dbt test: its results are keyed by test, so no model name is in the new file.
DbtTest ==
    /\ rr' \in {rr, [m \in Models |-> "none"]}
    /\ UNCHANGED built

\* test_model: dbt run, then dbt test when it succeeded, judged by return codes.
TestModel(m, ok) ==
    \/ /\ built' = built \cup {m}
       /\ rr' \in {[x \in Models |-> IF x = m THEN "ok" ELSE "none"],
                   [x \in Models |-> "none"]}
    \/ /\ ~ok
       /\ rr' \in {rr, [x \in Models |-> IF x = m THEN "err" ELSE "none"]}
       /\ UNCHANGED built

-----------------------------------------------------------------------------
(* The client and the server *)

\* Mutant: only RED tables are skipped.
RunnableNotRed(req) ==
    [s \in Slots |-> IF req[s] # NoTable /\ Queue[req[s]] \in {"green", "yellow"}
                     THEN req[s] ELSE NoTable]

\* Only GREEN tables of the evaluated report are runnable; duplicates stay.
Runnable(req) ==
    [s \in Slots |-> IF req[s] # NoTable /\ Queue[req[s]] = "green"
                     THEN req[s] ELSE NoTable]

\* bulk_start: a request needs a key, a thread is spawned for a runnable one.
BulkStart(j, req) ==
    /\ srv = "up"
    /\ pc[j] = "new"
    /\ \E s \in Slots : req[s] # NoTable
    /\ keys' = [keys EXCEPT ![j] = Runnable(req)]
    /\ LET n == Cardinality({s \in Slots : Runnable(req)[s] # NoTable})
       IN  /\ Publish(j, Queued(n))
           /\ Goto(j, IF n = 0 THEN "nothread" ELSE "spawned")
    /\ UNCHANGED <<fut, localVars, dbtVars, audit, envVars>>

\* _bulk_job_clear, first half: pop the entry under the lock.
ClearPop(j) ==
    /\ srv = "up"
    /\ pc[j] # "new"
    /\ ~unlinking[j]
    /\ clears < MaxClears
    /\ mem' = [mem EXCEPT ![j] = NoEntry]
    /\ unlinking' = [unlinking EXCEPT ![j] = TRUE]
    /\ clears' = clears + 1
    /\ UNCHANGED <<srv, disk, keys, pc, fut, localVars, dbtVars, audit, ws, restarts>>

\* _bulk_job_clear, second half: unlink the file, outside the lock.
ClearUnlink(j) ==
    /\ unlinking[j]
    /\ Save(j, NoEntry)
    /\ unlinking' = [unlinking EXCEPT ![j] = FALSE]
    /\ UNCHANGED <<srv, mem, keys, pc, fut, localVars, dbtVars, audit, ws, clears, restarts>>

\* ws_bulk_progress: it stays open when the state it first sends is active.
WsOpen(j) ==
    /\ srv = "up"
    /\ j \in Watched
    /\ mem[j].status \in Active
    /\ ws' = [ws EXCEPT ![j] = "open"]
    /\ UNCHANGED <<srv, jobVars, keys, pc, fut, localVars, dbtVars, audit,
                   unlinking, clears, restarts>>

\* Mutant: the stream waits for "done" only.
WsPollDone(j) ==
    /\ ws[j] = "open"
    /\ mem[j].status = "done"
    /\ ws' = [ws EXCEPT ![j] = "closed"]
    /\ UNCHANGED <<srv, jobVars, keys, pc, fut, localVars, dbtVars, audit,
                   unlinking, clears, restarts>>

\* One turn of the polling loop that finds the job over, or gone.
WsPoll(j) ==
    /\ ws[j] = "open"
    /\ mem[j].status \notin Active
    /\ ws' = [ws EXCEPT ![j] = "closed"]
    /\ UNCHANGED <<srv, jobVars, keys, pc, fut, localVars, dbtVars, audit,
                   unlinking, clears, restarts>>

\* lifespan: once requests have ended, running jobs are marked failed, in memory only.
Shutdown ==
    /\ srv = "up"
    /\ \A j \in Jobs : ~unlinking[j]
    /\ srv' = "stopping"
    /\ mem' = [j \in Jobs |-> IF mem[j].status = "running"
                              THEN Closed(mem[j], "failed") ELSE mem[j]]
    /\ ws' = [j \in Jobs |-> "closed"]
    /\ UNCHANGED <<disk, keys, pc, fut, localVars, dbtVars, audit,
                   unlinking, clears, restarts>>

\* The process ends, by a crash or after the hook, and a new one starts:
\* threads and _BULK_JOBS are lost, files stay and nothing reads the job files back.
Restart ==
    /\ restarts < MaxRestarts
    /\ restarts' = restarts + 1
    /\ srv' = "up"
    /\ mem' = [j \in Jobs |-> NoEntry]
    /\ pc' = [j \in Jobs |-> IF pc[j] = "new" THEN "new" ELSE "ended"]
    /\ fut' = [j \in Jobs |-> [s \in Slots |-> "none"]]
    /\ prepared' = [j \in Jobs |-> {}]
    /\ verdict' = [j \in Jobs |-> [m \in Models |-> "none"]]
    /\ chunk' = [j \in Jobs |-> {}]
    /\ cur' = [j \in Jobs |-> NoTable]
    /\ ws' = [j \in Jobs |-> "closed"]
    /\ unlinking' = [j \in Jobs |-> FALSE]
    /\ UNCHANGED <<disk, keys, dbtVars, audit, clears>>

-----------------------------------------------------------------------------
(* _run_bulk_job, first phase: the pool prepares the tables *)

\* Register the job again when its entry is gone, mark it running, submit it all.
WorkerBegin(j) ==
    /\ pc[j] = "spawned"
    /\ Publish(j, Running(mem[j], Cardinality(Listed(j))))
    /\ fut' = [fut EXCEPT ![j] = [s \in Slots |-> IF s \in Listed(j) THEN "queued" ELSE "none"]]
    /\ Goto(j, "collect")
    /\ UNCHANGED <<keys, localVars, dbtVars, audit, envVars>>

\* Tasks in their body, between the write and the return, occupy a pool thread.
PoolFree(j) == Cardinality({s \in Slots : fut[j][s] \in {"written", "blank"}}) < Workers

SetFuture(j, s, v) == fut' = [fut EXCEPT ![j][s] = v]

\* _process_one up to the write: the normalised proposal may be empty.
TaskWrite(j, s) ==
    /\ fut[j][s] = "queued"
    /\ PoolFree(j)
    /\ \/ WriteModel(TableOf(j, s), "proposal") /\ SetFuture(j, s, "written")
       \/ WriteModel(TableOf(j, s), "empty") /\ SetFuture(j, s, "blank")
    /\ UNCHANGED <<jobVars, keys, pc, localVars, rr, built, audit, envVars>>

\* An exception of the proposal or of the write, perhaps after the .sql file.
TaskRaise(j, s) ==
    /\ fut[j][s] = "queued"
    /\ PoolFree(j)
    /\ \/ UNCHANGED file
       \/ \E k \in {"proposal", "empty"} : WriteModel(TableOf(j, s), k)
    /\ SetFuture(j, s, "raised")
    /\ UNCHANGED <<jobVars, keys, pc, localVars, rr, built, audit, envVars>>

\* append_decision "bulk_approved", whose failure is only logged, and the return.
TaskReturn(j, s) ==
    /\ fut[j][s] \in {"written", "blank"}
    /\ audit' \in {audit, audit \cup {<<j, TableOf(j, s)>>}}
    /\ SetFuture(j, s, IF fut[j][s] = "written" THEN "ok" ELSE "empty")
    /\ UNCHANGED <<jobVars, keys, pc, localVars, dbtVars, envVars>>

\* Mutant: a table that could not be prepared is counted but not recorded.
CollectUnrecorded(j, s) ==
    /\ pc[j] = "collect"
    /\ fut[j][s] \in Finished \ {"collected"}
    /\ Alive(j)
    /\ SetFuture(j, s, "collected")
    /\ Publish(j, Counted(mem[j]))
    /\ prepared' = IF fut[j][s] = "ok" THEN [prepared EXCEPT ![j] = @ \cup {TableOf(j, s)}]
                   ELSE prepared
    /\ UNCHANGED <<keys, pc, verdict, chunk, cur, dbtVars, audit, envVars>>

\* The as_completed loop takes one finished future; a KeyError leaves the loop.
Collect(j, s) ==
    /\ pc[j] = "collect"
    /\ fut[j][s] \in Finished \ {"collected"}
    /\ IF Alive(j)
       THEN /\ SetFuture(j, s, "collected")
            /\ IF fut[j][s] = "ok"
               THEN /\ prepared' = [prepared EXCEPT ![j] = @ \cup {TableOf(j, s)}]
                    /\ Publish(j, Counted(mem[j]))
               ELSE /\ Publish(j, Failed(mem[j], TableOf(j, s)))
                    /\ UNCHANGED prepared
            /\ UNCHANGED pc
       ELSE /\ Goto(j, "drain")
            /\ UNCHANGED <<jobVars, fut, prepared>>
    /\ UNCHANGED <<keys, verdict, chunk, cur, dbtVars, audit, envVars>>

\* Leaving the "with" block on an exception still waits for every task.
Drain(j) ==
    /\ pc[j] = "drain"
    /\ \A s \in Listed(j) : fut[j][s] \in Finished
    /\ Goto(j, "handler")
    /\ UNCHANGED <<jobVars, keys, fut, localVars, dbtVars, audit, envVars>>

\* Mutants: the second phase starts on the first finished future; it starts from a
\* fresh entry.
EndPrepareAs(j, e) ==
    /\ Alive(j)
    /\ Publish(j, e)
    /\ Goto(j, "batch")
    /\ UNCHANGED <<keys, fut, localVars, dbtVars, audit, envVars>>

EndPrepareEager(j) ==
    /\ pc[j] = "collect"
    /\ \E s \in Listed(j) : fut[j][s] = "collected"
    /\ EndPrepareAs(j, PhaseTwo(mem[j], Cardinality(prepared[j])))

EndPrepareFresh(j) ==
    /\ pc[j] = "collect"
    /\ \A s \in Listed(j) : fut[j][s] = "collected"
    /\ EndPrepareAs(j, Running(NoEntry, Cardinality(prepared[j])))

\* All futures collected: publish the second phase when a model was prepared.
EndPrepare(j) ==
    /\ pc[j] = "collect"
    /\ \A s \in Listed(j) : fut[j][s] = "collected"
    /\ IF prepared[j] = {}
       THEN Goto(j, "loop") /\ UNCHANGED jobVars
       ELSE IF Alive(j)
            THEN /\ Publish(j, PhaseTwo(mem[j], Cardinality(prepared[j])))
                 /\ Goto(j, "batch")
            ELSE Goto(j, "handler") /\ UNCHANGED jobVars
    /\ UNCHANGED <<keys, fut, localVars, dbtVars, audit, envVars>>

-----------------------------------------------------------------------------
(* test_models_batch *)

Unjudged(j) == {m \in {ModelOf[t] : t \in prepared[j]} : verdict[j][m] = "none"}

\* dbt run --select of the next chunk of models.
BatchRun(j) ==
    /\ pc[j] = "batch"
    /\ IF Unjudged(j) = {}
       THEN Goto(j, "loop") /\ UNCHANGED <<chunk, rr, built>>
       ELSE \E c \in SUBSET Unjudged(j) :
               /\ \/ Cardinality(c) = ChunkSize
                  \/ Cardinality(c) < ChunkSize /\ c = Unjudged(j)
               /\ chunk' = [chunk EXCEPT ![j] = c]
               /\ DbtRun(c)
               /\ GotoOrFail(j, "read")
    /\ UNCHANGED <<jobVars, keys, fut, prepared, verdict, cur, file, audit, envVars>>

\* Mutant: only a row that says "err" counts against a model.
BatchReadLenient(j) ==
    /\ pc[j] = "read"
    /\ verdict' = [verdict EXCEPT ![j] =
          [m \in Models |-> IF m \in chunk[j] THEN IF rr[m] # "err" THEN "ok" ELSE "bad"
                            ELSE verdict[j][m]]]
    /\ Goto(j, "batch")
    /\ chunk' = [chunk EXCEPT ![j] = {}]
    /\ UNCHANGED <<jobVars, keys, fut, prepared, cur, dbtVars, audit, envVars>>

\* run_results.json is read whatever the return code of dbt run was.
BatchRead(j) ==
    /\ pc[j] = "read"
    /\ verdict' = [verdict EXCEPT ![j] =
          [m \in Models |-> IF m \in chunk[j] THEN IF rr[m] = "ok" THEN "ok" ELSE "bad"
                            ELSE verdict[j][m]]]
    /\ IF \E m \in chunk[j] : rr[m] = "ok"
       THEN Goto(j, "test") /\ UNCHANGED chunk
       ELSE Goto(j, "batch") /\ chunk' = [chunk EXCEPT ![j] = {}]
    /\ UNCHANGED <<jobVars, keys, fut, prepared, cur, dbtVars, audit, envVars>>

BatchTest(j) ==
    /\ pc[j] = "test"
    /\ DbtTest
    /\ GotoOrFail(j, "reread")
    /\ UNCHANGED <<jobVars, keys, fut, localVars, file, audit, envVars>>

\* A model without a row of its own passes; one with a row gets that row's status.
BatchReread(j) ==
    /\ pc[j] = "reread"
    /\ verdict' = [verdict EXCEPT ![j] =
          [m \in Models |-> IF m \in chunk[j] /\ verdict[j][m] = "ok" /\ rr[m] = "err"
                            THEN "bad" ELSE verdict[j][m]]]
    /\ chunk' = [chunk EXCEPT ![j] = {}]
    /\ Goto(j, "batch")
    /\ UNCHANGED <<jobVars, keys, fut, prepared, cur, dbtVars, audit, envVars>>

-----------------------------------------------------------------------------
(* The validation loop over prepared_models *)

\* Record the outcome of one prepared table.
Decide(j, t, ok) ==
    /\ IF Alive(j)
       THEN /\ Publish(j, IF ok THEN Migrated(mem[j], t) ELSE Failed(mem[j], t))
            /\ prepared' = [prepared EXCEPT ![j] = @ \ {t}]
            /\ Goto(j, "loop")
       ELSE /\ Goto(j, "handler")
            /\ UNCHANGED <<jobVars, prepared>>
    /\ cur' = [cur EXCEPT ![j] = NoTable]
    /\ UNCHANGED <<keys, fut, verdict, chunk, dbtVars, audit, envVars>>

AcceptBatch(j, t) ==
    /\ pc[j] = "loop"
    /\ t \in prepared[j]
    /\ verdict[j][ModelOf[t]] = "ok"
    /\ Decide(j, t, TRUE)

\* apply_fix proposed nothing usable: the table fails.
FixNothing(j, t) ==
    /\ pc[j] = "loop"
    /\ t \in prepared[j]
    /\ verdict[j][ModelOf[t]] # "ok"
    /\ Decide(j, t, FALSE)

\* apply_fix proposed SQL: write it and test the model alone.
FixWrite(j, t) ==
    /\ pc[j] = "loop"
    /\ t \in prepared[j]
    /\ verdict[j][ModelOf[t]] # "ok"
    /\ WriteModel(t, "corrected")
    /\ cur' = [cur EXCEPT ![j] = t]
    /\ Goto(j, "retest")
    /\ UNCHANGED <<jobVars, keys, fut, prepared, verdict, chunk, rr, built, audit, envVars>>

\* The fix agent is unreachable, or its SQL cannot be written: the job fails.
FixRaise(j, t) ==
    /\ pc[j] = "loop"
    /\ t \in prepared[j]
    /\ verdict[j][ModelOf[t]] # "ok"
    /\ UNCHANGED file \/ WriteModel(t, "corrected")
    /\ Goto(j, "handler")
    /\ UNCHANGED <<jobVars, keys, fut, localVars, rr, built, audit, envVars>>

Retest(j) ==
    /\ pc[j] = "retest"
    /\ \E ok \in BOOLEAN :
          /\ TestModel(ModelOf[cur[j]], ok)
          /\ GotoOrFail(j, IF ok THEN "accept" ELSE "passthrough")
    /\ UNCHANGED <<jobVars, keys, fut, localVars, file, audit, envVars>>

\* The corrected SQL fails too: SELECT * FROM the table takes its place.
Passthrough(j) ==
    /\ pc[j] = "passthrough"
    /\ \/ WriteModel(cur[j], "passthrough") /\ Goto(j, "retest2")
       \/ (UNCHANGED file \/ WriteModel(cur[j], "passthrough")) /\ Goto(j, "handler")
    /\ UNCHANGED <<jobVars, keys, fut, localVars, rr, built, audit, envVars>>

RetestPassthrough(j) ==
    /\ pc[j] = "retest2"
    /\ \E ok \in BOOLEAN :
          /\ TestModel(ModelOf[cur[j]], ok)
          /\ GotoOrFail(j, IF ok THEN "accept" ELSE "reject")
    /\ UNCHANGED <<jobVars, keys, fut, localVars, file, audit, envVars>>

RecordRepaired(j) ==
    /\ pc[j] \in {"accept", "reject"}
    /\ Decide(j, cur[j], pc[j] = "accept")

\* The thread returns and its locals are gone.
EndThread(j) ==
    /\ Goto(j, "ended")
    /\ prepared' = [prepared EXCEPT ![j] = {}]
    /\ verdict' = [verdict EXCEPT ![j] = [m \in Models |-> "none"]]
    /\ chunk' = [chunk EXCEPT ![j] = {}]
    /\ cur' = [cur EXCEPT ![j] = NoTable]

\* Mutant: done before the loop has ended.
FinishEarly(j) ==
    /\ pc[j] = "loop"
    /\ Alive(j)
    /\ Publish(j, Closed(mem[j], "done"))
    /\ EndThread(j)
    /\ UNCHANGED <<keys, fut, dbtVars, audit, envVars>>

\* Every prepared table has its outcome: the job is done.
Finish(j) ==
    /\ pc[j] = "loop"
    /\ prepared[j] = {}
    /\ IF Alive(j)
       THEN Publish(j, Closed(mem[j], "done")) /\ EndThread(j)
       ELSE Goto(j, "handler") /\ UNCHANGED <<jobVars, localVars>>
    /\ UNCHANGED <<keys, fut, dbtVars, audit, envVars>>

\* Mutants: a status outside the protocol; the error is not published.
FailJobError(j) ==
    /\ pc[j] = "handler"
    /\ Alive(j)
    /\ Publish(j, Closed(mem[j], "error"))
    /\ EndThread(j)
    /\ UNCHANGED <<keys, fut, dbtVars, audit, envVars>>

FailJobSilent(j) ==
    /\ pc[j] = "handler"
    /\ EndThread(j)
    /\ UNCHANGED <<jobVars, keys, fut, dbtVars, audit, envVars>>

\* The outer except clause: with no entry it raises KeyError itself.
FailJob(j) ==
    /\ pc[j] = "handler"
    /\ IF Alive(j)
       THEN Publish(j, Closed(mem[j], "failed"))
       ELSE UNCHANGED jobVars
    /\ EndThread(j)
    /\ UNCHANGED <<keys, fut, dbtVars, audit, envVars>>

-----------------------------------------------------------------------------
(* Specification *)

Init ==
    /\ srv = "up"
    /\ mem = [j \in Jobs |-> NoEntry]
    /\ disk = [j \in Jobs |-> NoEntry]
    /\ keys = [j \in Jobs |-> [s \in Slots |-> NoTable]]
    /\ pc = [j \in Jobs |-> "new"]
    /\ fut = [j \in Jobs |-> [s \in Slots |-> "none"]]
    /\ prepared = [j \in Jobs |-> {}]
    /\ verdict = [j \in Jobs |-> [m \in Models |-> "none"]]
    /\ chunk = [j \in Jobs |-> {}]
    /\ cur = [j \in Jobs |-> NoTable]
    /\ file = [m \in Models |-> [table |-> NoTable, sql |-> "none"]]
    /\ rr = [m \in Models |-> "none"]
    /\ built = {}
    /\ audit = {}
    /\ ws = [j \in Jobs |-> "closed"]
    /\ unlinking = [j \in Jobs |-> FALSE]
    /\ clears = 0
    /\ restarts = 0

Task(j, s) == TaskWrite(j, s) \/ TaskRaise(j, s) \/ TaskReturn(j, s)

Worker(j) ==
    \/ WorkerBegin(j)
    \/ \E s \in Slots : Collect(j, s)
    \/ Drain(j)
    \/ EndPrepare(j)
    \/ BatchRun(j)
    \/ BatchRead(j)
    \/ BatchTest(j)
    \/ BatchReread(j)
    \/ \E t \in Tables : AcceptBatch(j, t)
    \/ \E t \in Tables : FixNothing(j, t)
    \/ \E t \in Tables : FixWrite(j, t)
    \/ \E t \in Tables : FixRaise(j, t)
    \/ Retest(j)
    \/ Passthrough(j)
    \/ RetestPassthrough(j)
    \/ RecordRepaired(j)
    \/ Finish(j)
    \/ FailJob(j)

Client(j) ==
    \/ \E req \in Requests : BulkStart(j, req)
    \/ ClearPop(j)
    \/ ClearUnlink(j)
    \/ WsOpen(j)
    \/ WsPoll(j)

Next ==
    \/ \E j \in Jobs : Client(j)
    \/ \E j \in Jobs : Worker(j)
    \/ \E j \in Jobs, s \in Slots : Task(j, s)
    \/ Shutdown
    \/ Restart

\* Threads are scheduled, and dbt and the model calls return; nobody has to
\* call an endpoint, and the process need not end.
Fairness ==
    /\ \A j \in Jobs : WF_vars(Worker(j)) /\ WF_vars(ClearUnlink(j)) /\ WF_vars(WsPoll(j))
    /\ \A j \in Jobs, s \in Slots : WF_vars(Task(j, s))

SafeSpec == Init /\ [][Next]_vars
Spec == SafeSpec /\ Fairness

-----------------------------------------------------------------------------
(* Properties *)

\* The variables keep their types.
TypeOK ==
    /\ srv \in {"up", "stopping"}
    /\ mem \in [Jobs -> Entry]
    /\ disk \in [Jobs -> Entry]
    /\ keys \in [Jobs -> [Slots -> Tables \cup {NoTable}]]
    /\ pc \in [Jobs -> Pc]
    /\ fut \in [Jobs -> [Slots -> Future]]
    /\ prepared \in [Jobs -> SUBSET Tables]
    /\ verdict \in [Jobs -> [Models -> {"none", "ok", "bad"}]]
    /\ chunk \in [Jobs -> SUBSET Models]
    /\ cur \in [Jobs -> Tables \cup {NoTable}]
    /\ file \in [Models -> Content]
    /\ rr \in [Models -> {"none", "ok", "err"}]
    /\ built \in SUBSET Models
    /\ audit \in SUBSET (Jobs \X Tables)
    /\ ws \in [Jobs -> {"open", "closed"}]
    /\ unlinking \in [Jobs -> BOOLEAN]
    /\ clears \in Nat
    /\ restarts \in Nat

\* No table outside the GREEN queue gets a model file, an approval in the audit
\* trail or an outcome in a job, in memory or on disk (README "Bulk approval gate").
OnlyGreenTouched ==
    /\ \A m \in Models : file[m].table # NoTable => Queue[file[m].table] = "green"
    /\ \A a \in audit : Queue[a[2]] = "green"
    /\ \A j \in Jobs : \A e \in {mem[j], disk[j]} :
          \A t \in e.success \cup e.failed : Queue[t] = "green"

\* A job shown as done, by the API or by its file, has an outcome for every
\* table it accepted, whatever raised, failed, was cleared or restarted.
DoneAccounts ==
    \A j \in Jobs : \A e \in {mem[j], disk[j]} :
        e.status = "done" => Asked(j) \subseteq e.success \cup e.failed

\* A table reported migrated has a model that dbt did build, from some content
\* of its file: no interleaving of two jobs reports a model never built.
SuccessWasBuilt ==
    \A j \in Jobs : \A t \in mem[j].success \cup disk[j].success :
        ModelOf[t] \in built

\* Once a job is done its pool and its thread have stopped: it writes no more
\* model files and approves nothing more.
DoneIsQuiet ==
    \A j \in Jobs : mem[j].status = "done" =>
        /\ pc[j] = "ended"
        /\ \A s \in Listed(j) : fut[j][s] = "collected"

\* The job file never claims an outcome that the entry in memory does not have.
DiskBehindMemory ==
    \A j \in Jobs : Alive(j) =>
        disk[j].success \subseteq mem[j].success /\ disk[j].failed \subseteq mem[j].failed

\* While the server is up, a job shown as over stays as it is until it is cleared.
TerminalIsFinal ==
    [][\A j \in Jobs :
          srv = "up" /\ mem[j].status \in {"done", "failed"} =>
              mem'[j] \in {mem[j], NoEntry}]_vars

\* What readers of the jobs see is a behaviour of BulkReport: outcomes are never
\* withdrawn, "done" is shown last and a cleared job only comes back empty.
Report == INSTANCE BulkReport WITH
    asked <- [j \in Jobs |-> Asked(j)],
    shown <- [j \in Jobs |-> Alive(j)],
    settled <- [j \in Jobs |-> mem[j].status = "done"],
    success <- [j \in Jobs |-> mem[j].success],
    failed <- [j \in Jobs |-> mem[j].failed]

ImplementsReport == Report!Spec

\* Every job that got a worker thread leaves the active statuses.
JobsSettle == \A j \in Jobs : pc[j] = "spawned" ~> mem[j].status \notin Active

\* A progress stream of a job with a worker is closed.
WatchersClose == \A j \in Jobs : ws[j] = "open" /\ pc[j] # "nothread" ~> ws[j] = "closed"

\* ws.py: "Stream bulk job status snapshots until completion or disconnect".
StreamsComplete == \A j \in Jobs : ws[j] = "open" ~> ws[j] = "closed"

\* USER_GUIDE: "do not treat passthrough output as a completed migration".
PassthroughIsNotSuccess ==
    \A j \in Jobs : \A t \in mem[j].success :
        pc[j] = "ended" => file[ModelOf[t]] # [table |-> t, sql |-> "passthrough"]

=============================================================================
