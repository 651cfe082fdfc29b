# Formal models of the Autonomous Migration Architect (AMA)

AMA migrates a legacy warehouse to dbt. It reads logs, DDL and message exports into one report, scores every
table, plans migration waves, asks a language model for dbt models, builds them with dbt, and asks people to
decide where the machine cannot. This folder holds TLA+ models of the parts of it that run concurrently, fail
half way and talk to each other through files, with the TLC runs that check them and TLAPS proofs about them.

Source paths below are relative to `src/src/ama/` unless they start with `src/`.

## 1. Inventory

| Part | State it keeps | Operations | Status |
|---|---|---|---|
| Bulk migration job (`bulk_runner.py`, `api/routes/bulk.py`) | `_BULK_JOBS` under a threading lock; `target/bulk_jobs/<id>.json`; `.sql` files; audit trail | start, worker (two phases), clear, status | `BulkJob` |
| dbt validation (`migration_agent/agent_tools.py`, `dbt_migration/runner.py`, `writer.py`) | `run_results.json`, model files, `duckdb.db` and its stub source tables | `test_models_batch`, `test_model`, `apply_fix`, bootstrap of sources | partly: `BulkJob`, `ApproveTable`, `SourceTables` |
| Progress WebSockets (`api/ws.py`) | one coroutine per connection, all on one event loop, sharing the threading lock | connect, poll, answer, disconnect | `ProgressStream`, `LivePages` |
| Application lifespan (`api/main.py`) | - | shutdown hook over jobs | `BulkJob`, `LiveJobs` |
| Wave execution, Checkpoint B, DLQ (`dbt_migration/service.py`, `runner.py`) | `model_state`, wave telemetry, `checkpoint_b_<model>.json`, `.ai_fix.sql`, `dlq.jsonl` | run waves, gate, fix loop, approve fix, reject | partly: `WaveRun` |
| Checkpoint-A job (`dbt_migration/service.py`, `api/routes/cockpit.py`) | job file, checkpoint file, model files | generate, poll, approve, execute | partly: `CheckpointA` |
| HITL alias review (`api/routes/hitl.py`, `api/deps.py`, `hitl_apply.py`, the alias tab) | decisions sidecar (two possible places), `REPORT_STORE`, the tab's session | decide, batch decide, apply, reload | `HitlReview` |
| Single-table approval (`api/routes/migration.py`) | proposal cache, model file, DuckDB | propose, approve in three stages | `ApproveTable` |
| Live ingestion (`api/live_jobs.py`, `api/routes/live_connection.py`) | job registry, semaphore of three slots, export directory, `sys.stdout` | start, worker, shutdown | `LiveJobs` |
| Migration agent (`migration_agent/engine.py`, `api/routes/agent.py`, the agent tab) | conversation, pending write, the wave in progress | turn, tool calls, approve, edit, skip, clear | partly: `AgentTurn`, `AgentGate` |
| Wave planner (`planner/*`) | none beyond a call | order, waves, placeholders, rationale | `Planner` |
| Scoring gate (`scale_engine/*`) | the shared report, normalised in place; audit trail | evaluate, approve in bulk | partly: `ScaleGate` |
| Drafting and self-healing (`dbt_migration/generator.py`, `sql_self_heal.py`, `mapping.py`) | alias registry of a job | map, translate, draft, validate, correct | partly: `ModelDraft` |
| Cockpit insights (`dbt_migration/service.py`, `cockpit_agents.py`) | `model_insights.json`, its cache by mtime, `<model>.ai_fix.sql` | analyse a model or wave, apply a fix | partly: `Cockpit` |
| Log ingestion (`sql_pipeline.py`, `discovery.py`, `alias_resolver.py`, `cli.py run`) | counters per table and column, co-query graph | read, choose tables, place names, write the report | partly: `LogIngest` |
| SQL parsing (`parsing/*`) | none | columns and tables of a statement | partly: `SqlExtract` |
| Lineage graphs (`lineage.py`, `schema_relationships.py`) | two caches keyed by object identity | load, ask for a graph | `ReportCaches` |
| Schema providers (`mcp/*`, `api/routes/connections.py`) | none; one connection per question | list, describe, sample, explain, extract | partly: `SchemaQuery`, `SchemaExtract` |
| Dashboard (`ui/dashboard.py`) | `st.session_state`, one page run per click | Bulk, Tables and review tabs | partly: `DashSession` |
| Business logic, importance, data quality, export, glossary, synthetic data, React frontend | none, or one document built in one pass | pure functions, formatting, remote I/O | not modelled (section 8) |

### How the parts interact

* A client reads a report through `REPORT_STORE`, starts a **bulk job** for some table keys, and may open a
  **progress stream**, poll the status, or clear the job. The worker is a daemon thread with a pool of at most
  eight threads. It shares `_BULK_JOBS_LOCK` with endpoints, other workers and the coroutines of the streams,
  and shares the dbt project (`.sql` files, `run_results.json`, DuckDB) with every other job and endpoint.
* **Checkpoint A** generates all models of a report in a thread and records progress in a job file that the
  cockpit polls; an approval writes the models and starts an **execution**. The execution runs waves; a model
  whose attempts are exhausted leaves a **Checkpoint B** artifact that a reviewer approves or rejects while
  this or another execution may still be running.
* A report is born in **live ingestion** (`SchemaExtract` reads the database, `LiveJobs` exports it and runs the
  pipeline) or on the command line: `LogIngest` reads the logs, with the columns `SqlExtract` finds in each
  statement. Everybody else reads the report from `REPORT_STORE` or from disk; **HITL** decisions replace it, a
  load replaces it, the **scoring gate** normalises it in place, and **lineage graphs** are cached by its identity.
* A table becomes a model through `ModelDraft`, and is approved in one of four ways: in bulk, singly
  (`ApproveTable`), through the agent (`AgentTurn`, `AgentGate`) or in the dashboard (`DashSession`). All four write
  the same model files and run dbt over the same DuckDB file, whose source tables `SourceTables` describes.
* The **lifespan** hook marks running jobs failed or interrupted at shutdown while their threads still run.

### Hard behaviours, and what makes each part correct

* *Bulk job.* The entry may be cleared between any two steps of the worker (every later access then raises
  `KeyError`), the file write may fail silently, dbt may stop before it writes its results, two jobs share one
  file per model name. Correct: an honest and final report - every accepted table has an outcome when the job
  says done; "migrated" means dbt built it; outcomes are not withdrawn; only GREEN tables are touched; jobs end.
* *Streams.* Coroutines take a threading lock and, on one branch, await with it held. Correct: the event loop
  is not stopped and every stream ends.
* *Waves.* A wave must not begin before the one before it succeeded, except through the gate that was
  deliberately bypassed; a model that waits for a person must not be lost. Reviewers and executions act on
  artifacts by name, at any time.
* *Checkpoint A, HITL, insights.* Read-modify-write of JSON files without a lock; approval checked before and
  recorded after a long write. Correct: an approval is carried out once; a decision or an analysis is not lost.
* *Single approval, source tables.* A chain of attempts on shared files. Correct: the answer agrees with the file and
  with dbt; a rebuilt source table keeps the columns other models were validated with.
* *Live jobs.* Limited slots, a shared directory, exceptions outside any `except`. Correct: a report is about what
  its own job extracted.
* *Agent.* A bounded memory and a bounded loop. Correct: the model answers the question that was asked, and what is
  written reads the tables that were asked about.
* *Planner, gate, drafting, log counting, parsing, extraction.* Long sequential computations with caps, fallbacks and
  in-place changes. Correct: no table lost or planned twice; the same table gets the same queue; nothing unsound goes out
  unflagged; no use of a column lost, doubled, or credited to the wrong table; no query missed below the limit.
* *Caches and sessions.* Keys that are reused, page runs that see a job twice. Correct: nobody is served another report's
  graph, or another database's tables; a finished job's successes are marked before the job is forgotten.

All of these are listed with their lines under `hazards` in `PROJECT.json`, each with the properties that
cover it or the reason why none does yet.

## 2. Plan

The order in which the project was built, the most important behaviour first; each step was checked by TLC before
anything about it was proved.

1. `BulkJob`, its abstract specification `BulkReport` and the refinement between them; `ProgressStream`.
2. `WaveRun` and `CheckpointA`, the long protocols with people in them.
3. The sixteen service modules, one safety property each, and their product `MCServices`.
4. `LiveBoard` and `LivePages`: what whoever follows a live job is promised, with the liveness of live jobs.
5. The theorems: types, safety, the two refinements, and what holds of the product (`ServiceProofs`).

All of it is done. What would come next: abstract specifications of the two files that are loaded, changed and saved whole
(one register with atomic updates for the decisions, one for the insights), with the conditions under which `HitlReview` and
`Cockpit` implement them. Their consequences are stated and proved already, as `HrDecisionsKept` and `CkKept`.

## 3. Modules and the code

`PROJECT.json`'s `map` names the lines of every definition. The conventions: one action is what runs between two
points where another thread, coroutine or process may come in (a lock release, an `await`, a file or dbt call);
definitions preceded by "Mutant" are wrong variants that no specification uses.

### BulkJob (and MCBulkJob)

* `mem[j]` is `_BULK_JOBS[j]`, `disk[j]` its file; `Publish` is the worker's "assign under the lock, then
  `_persist_bulk_job`". Error texts, the current table's name and timestamps are left out; lists of
  results are sets of tables.
* `pc[j]` is where `_run_bulk_job` is. First phase: `WorkerBegin`, `TaskWrite/TaskRaise/TaskReturn` (the pool's
  `_process_one`; at most `Workers` of them in their bodies), `Collect` (`as_completed`), `Drain` (leaving the
  executor's `with` on an exception waits for the tasks). Second phase: `EndPrepare`, `BatchRun`, `BatchRead`,
  `BatchTest`, `BatchReread` (`test_models_batch`, chunk by chunk), then per table `AcceptBatch`, or the repair
  chain `FixWrite`, `Retest`, `Passthrough`, `RetestPassthrough`, `RecordRepaired`; `Finish`; `FailJob` is the
  outer `except`. `Decide`, `Collect`, `EndPrepare` and `Finish` go to the handler when the entry is gone: that
  is the `KeyError` of the code.
* dbt and the language model are nondeterministic: a proposal may be empty, raise, or raise after the write; a
  run may build any subset of its models or fail before writing results; `run_results.json` then still holds
  what some earlier run wrote. `built` is a history variable: the models dbt has ever built.
* The client: `BulkStart`, `ClearPop`/`ClearUnlink` (the pop is under the lock, the unlink is not), `WsOpen`,
  `WsPoll`. The server: `Shutdown` (hook) and `Restart` (end of the process: memory and threads are lost,
  files stay; nothing in the code reads the job files back).

### BulkReport

What a reader of a job is promised, in five variables: a job appears empty, gathers one outcome after another,
settles when every accepted table has one, then never changes, and may be forgotten. `BulkJob!ImplementsReport`
maps it: asked tables are those of the runnable list, "shown" is the presence of an entry, "settled" is `done`.

### ProgressStream

Only what concerns locks and the loop: per job its status and worker; per stream where its coroutine is;
`lock`, the coroutine that awaits with `_BULK_JOBS_LOCK` held; `loop`, the coroutine that blocks the thread of the
event loop because the lock is taken. Workers and endpoints run on other threads and hold the lock only for a
step. `Missing`/`Told` is the branch of `ws.py:21` that awaits `send_json` and `close` inside the `with`; `Read`
copies the entry and `Sent` follows outside of it. `Disconnect` is the `WebSocketDisconnect` an awaited send raises.

### WaveRun

* An execution is `_orchestrate_waves_with_gating` over `execute_models_with_fix_loop`: `Bootstrap`, `DbtRun`,
  `DbtTest`/`DbtTestFails`, `Fix`, `Exhaust` (the artifact is saved, over an older one of the same name), `Gate`,
  `Abort` (an exception that leaves the execution: bootstrap, authentication of the fix agent, artifact save).
  `Outcome` is the translation of the final status; `gates` the wave telemetry.
* A reviewer approves (`ApplyStart`, `ApplyWrite`, `ApplyRun`, `ApplyUnlink`, `ApplyClean`; dbt run alone decides) or
  rejects (`RejectStart`, `RejectRecord` or `RejectRaise`, `RejectUnlink`). Several reviewers may act on one model.
* `tested`, `repaired` and `due` are history variables: what an execution saw pass, which fixes were built, and
  which exhausted models nobody has decided on since.
* Left out: approval on the command line with a file of the user's own (same steps, other SQL),
  `run_dbt_with_fix_loop` (only a test calls it), the content of SQL, telemetry besides the wave status; the DLQ
  is a set of models, since only whether a record exists matters here. `MaxAttempts` is at least one because
  `dbt_migration/models.py:184` validates it so.

### CheckpointA

* `file` is `jobs/<id>.json`: whether it is whole, empty (opened for writing) or mixed (two writers wrote over each
  other), its status, whether the arguments of the start call are still in it, `checkpoint_a_approved` and
  `execution_status`. `Load` is `load_job`, which answers `{}` for a file it cannot read. `Truncate` and `Fill` are
  the two halves of `Path.write_text` in `save_job`; the file is in place of the old one from the first half on.
  Either half may fail (`NotSaved`): a `mkdir` or `open` that fails leaves the old file, a write that fails leaves an
  empty one.
* `cp` is the checkpoint file, `snap[p]` the job a process loaded and will save, `written` those who wrote model files,
  `faulty` whether any write has failed (a history variable, which two properties are conditional on).
* The generator: `Start`; `ProgressOpen`/`ProgressWrite` (any number of counted models); `Generated` or
  `GenerationRaises`; `CheckpointOpen`/`CheckpointWrite`; `SuccessOpen`/`SuccessWrite`; the handler
  `FailureOpen`/`FailureWrite`. With `approve_checkpoint_a` in the start call it writes, and may execute, the
  models itself; the job file then never says that they were approved.
* A request: `Approve` is every check up to the write of the models, made on one load; then `WriteModels`,
  `RecordOpen`/`RecordWrite` (saving what was loaded before the checks), `MarkOpen`/`MarkWrite`, and the thread
  `Execute`, `ReportOpen`/`ReportWrite`, whose except clause (`BlameOpen`, then `ReportWrite`) reports once more. When the
  file does not open there either, the thread ends with the job as it was, which may say RUNNING (`"unreported"`). What happens inside
  `Execute` is `WaveRun`.
* Left out: polls (they only read), the events and insights files, counters and timestamps, and `CANCELLED`, which
  nothing writes.

### LiveBoard, LivePages (and MCStreams)

* `LiveBoard` is what whoever follows live jobs is promised: a job is queued, then one of at most as many as run at a time, then has
  one verdict, which stands; a job whose worker is lost stays as it is; the end of the server turns the unfinished into failures,
  and only the worker of one so marked may move it again. `LiveJobs!ImplementsBoard` maps it: `shown` is the status,
  `lost` the workers in `raised` (`LvRaised`), `marked` the failures whose worker has not ended (`LvMarked`), `down` is `lvDown`.
* `LivePages` adds the sockets of `ws.py:44`: `LpOpen` and `LpPoll` copy the entry and send it, the loop ends at a status that
  is neither queued nor running, `LpLeave` is the disconnect. Unlike the bulk stream nothing is awaited under a lock. Entries of live
  jobs are never removed, so that an id the server has given out is always found; an unknown id is left out.
* `MCStreams` runs both kinds of stream: a behaviour is one of one kind (`kind`), the other is at rest.

### The service modules

Sixteen modules share no variable; names carry the module's prefix so that `MCServices` can extend them all. In each,
one action is what runs between two points where another caller can come in, and history variables only record what a
property needs.

* **HitlReview.** `hrFile` is the sidecar in its two places, `hrStore` the report in `REPORT_STORE`, `hrDisk` the one on
  disk, `hrTab` the session of a dashboard tab. A request loads the report (`HrAsk`), reads the decisions (`HrLoad`,
  store before report directory), writes them (`HrOpen`, `HrWrite`, `HrWriteFails`) and, with `auto_apply`, fetches the
  report again and replaces it (`HrFetch`, `HrPublish`). `HrRemount` changes whether the directory can be written,
  `HrReload` and `HrRestart` drop the applied copy, a tab loads once and saves what it has (`HrTab...`).
* **ReportCaches.** Reports live at addresses (`rcHeap`); the two caches are keyed by an address. `RcLoadStore` puts a new
  object in place and `RcLoadClear` then clears the caches one by one; a request (`RcAsk`, `RcLookup`, `RcBuild`, `RcPut`) holds its
  object alive, but may put its result after the load that cleared. `RcHitlCopy` replaces the object without clearing,
  and `RcCollected` frees what nothing refers to.
* **ApproveTable.** Calls of propose and approve: `ApPropose`/`ApProposed` around the slow proposal; `ApWrite`, then `ApScan`/`ApTrim`
  (every model file is read and written back trimmed), `ApConnect`/`ApBootstrap` (the DuckDB file, if no dbt holds it),
  `ApDbtStarts`, `ApDbtRan`, `ApDbtTested`; a failure moves to the fix agent's text, then to `SELECT *`, then to the end
  (`ApFailed`, `ApFix`). A passed test of a real text is recorded (`ApRecord`); an exception of the score or of the audit line is
  swallowed, so that the line may lack. `apGood` remembers what dbt thought of a text, so that an answer can be compared with it, and
  `apOwn` whose last text is still in its model file.
* **AgentTurn.** The conversation is its length and the ages of the messages that matter: the last request and the last
  `list_waves` result. `AgModel` cuts it (`AgCut`) and lets the model answer, call a tool or ask to write; `AgApprove...`,
  `AgSkip`, `AgContinue` and `AgClear` are the buttons of the tab. `agHeard` tells whether the question was still in the
  history at every call.
* **AgentGate.** A pending text is known by the tables it reads, whether it parses and whether it filters rows. `GtApprove`
  refuses or writes; a failed test brings a correction that waits, is held back for `GtConsent`, or is dropped; the API
  writes what its client sends (`GtApiApprove`).
* **LiveJobs.** A job's worker takes a slot, validates, extracts, writes the three kinds of artifact, checks and builds.
  `lvDir` says whose each artifact is. `LvBreak` is an exception while extracting, after which the DDL file that a report is
  anchored at has a fixed name and may not be there (`LvAnchored`); the branch of `LvValidate` that ends in
  `raised` is one outside every `except`: the slot comes back, the status stays, the thread is gone. `LvBuild` puts back the
  `sys.stdout` that it found. `LvShutdown` is the hook: it marks what is unfinished (`lvDown`), and workers that are still
  there go on without a look at the mark.
* **ModelDraft.** The tables of a job in turn: `MdMap` and `MdTranslate` give aliases, `MdDraft` or `MdDraftStub` a text, `MdValidate` and
  `MdCorrect` loop, `MdNormalize` exchanges the result or rewrites it (`MdRewritten`). A text is known by whether it is a SELECT,
  parses or has placeholders, by who wrote it, by whether it was rewritten after it was validated (`bent`), and by its row-level WHERE:
  the check answers "none" for a text that `sqlglot`'s default dialect cannot parse, so that a WHERE is `seen` or `unseen`.
* **Planner.** `PlPop` is one step of the heap-based topological sort, `PlEmit` one wave, `PlTruncate` the cap on waves and
  `PlGhostWave` the last wave of tables outside the manifest. The report is chosen in `PlInit`; the scores and domains that
  tables may have are the constants `PlScores` and `PlDomains`, any integers in the proof.
* **ScaleGate.** A table is the record of the signals its scores are made of; `SgConfidence`, `SgCriticality`, `SgBlocked` and `SgWarned` are
  the formulas with their thresholds and their rounding. A call normalises the shared report in three steps
  (`SgPromote`, `SgStructure`, `SgKeys`), scores, and may audit (`SgApprove`).
* **DashSession.** A page run is `DbRerun` (its top), `DbBulkPanels`, then one of `DbWait`, `DbStart`, `DbClear`, `DbPass`, then `DbRest`; `DbWork` is the
  worker of `BulkJob`, seen from outside. Buttons exist only where the page drew them (`DbDrawn`).
* **LogIngest.** `LgLine` is one line with its fate (parsed, by regex, other environment, unreadable, crashing), `LgNextFile` merges a
  file's counters, `LgBuild` chooses tables by the mode of the command, places logged names on DDL columns and
  draws up the inventory, `LgWrite` writes the formats. `LgAccepted` are the statements that count.
* **SourceTables.** A bootstrap plans the columns of each source table, connects, and then reads, drops and creates table
  by table; each statement commits by itself. `BsDbtRuns` and `BsInspect` contend for the file. `BsMerge` is the union of planned and
  existing columns. A name of the SQL and a table of the catalog are two things: DuckDB takes a name in any letter case (`BsKey`), the
  look-up of the existing columns compares letters with the catalog (`bsSpelt`, `bsSchemas`, `BsSees`), and one that raises finds nothing
  (`BsReads`).
* **SchemaExtract.** Tables, descriptions and foreign keys over one connection with its retry, then the logs over another:
  Query Store, the plan cache when that is off or sparse, the rows fetched of each (`XtPool`), the noise filter, the removal of duplicates,
  the limit. `XtWorkload` is what the sources remember, `XtFetched` what the fetched rows hold of it. What is
  kept of a list is said by its positions (`XtAt`, `XtHits`), which keep their order.
* **SchemaQuery.** `SqMode` and `SqString` choose, `SqPostgres`, `SqServer`, `SqOracle`, `SqDb2` and `SqFile` are what the providers find by a name
  (letter case included), and an action per kind of caller asks (`SqAsk`, `SqHealth`, `SqExplain`, `SqTest`, `SqTool`, `SqAgent`).
  `SqCompose` makes a connection string of the fields of a test, for the modes that it knows and when no field is missing; `sqNamed` is the
  database those fields name. `SqDatabaseTurns` makes a database come or go.
* **Cockpit.** `ckCache` holds one shared object per mtime; analyses load before the slow call (`CkEarly`: risk, waves, stress test) or
  after it (`CkLate`: synthetic data, chat), change the object and dump it (`CkPut`, `CkTruncate`, `CkWrite`). Fixes pass through `ckTmp`. `CkTick` is the clock that mtimes are taken from.
* **SqlExtract.** A statement is its clauses with references qualified or not. `SxByTree` walks the SELECTs as
  `extract_from_select` does, `SxByRegex` searches the text that `SxText` says such a statement has.

**MCServices** instantiates all of them. A behaviour is one of one service (`focus`), the others rest in one fixed
initial state: since they share nothing in their models, the product would only multiply states.

## 4. Runs and what they show

| Run | Checks | Result |
|---|---|---|
| `bulk_single` | `TypeOK`, `OnlyGreenTouched`, `DoneAccounts`, `DoneIsQuiet`, `DiskBehindMemory`, `ImplementsReport` | hold |
| `bulk_pair` | `SuccessWasBuilt` for two jobs that share a model name | holds |
| `bulk_live` | `JobsSettle`, `WatchersClose` | hold |
| `bulk_empty_stream` | `StreamsComplete` (`ws.py:15`) | violated |
| `bulk_passthrough` | `PassthroughIsNotSuccess` (`src/USER_GUIDE.md:192`) | violated |
| `streams` | `OnlyMissingStopsTheLoop`, `EndsUnlessMissing`, `LpToldLast`, `ImplementsBoard`, `LpAllEnd` | hold |
| `stream_deadlock` | `StreamsEnd` (`ws.py:15`) | violated |
| `wave_one` | `WaveBarrier`, `HonestOutcome`, `ReviewNotLost`, `ExecutionsEnd` | hold |
| `wave_race` | `ReviewsKept` (`src/MIGRATION.md:351`) | violated |
| `checkpoint_pair` | `SuccessHasCheckpoint`, `GatedWrites`, `HonestExecution`, `ApprovalRecorded`, `ResultsReported` | hold |
| `checkpoint_double` | `SingleExecution` (`src/tests/test_dbt_migration.py:983`) | violated |
| `services` | `SvTypeOK` and one property of each service module, below | hold |

What `services` shows, property by property:

* `HrDecisionsKept`: an applied report never shows a verdict nobody gave; and while writers do not overlap, every saved verdict is
  read back, also after the directory turned read-only, and is applied when that was asked for.
* `RcServesOwnReport`: a reused address never serves the previous report's graph, and graphs show the edges of their report.
* `ApAnswerTrue`: the answer of an approval, and its audit line if there is one, say what dbt thinks of the text it left, beside any
  other approvals that put no other text into that file; one that ran alone calls nothing failed that dbt accepts.
* `AgQuestionSeen`: fourteen kept messages are enough for twelve steps: the question stays in view.
* `GtLineageKept`: no chain of edits and corrections brings other tables into a model the dashboard writes.
* `LvReportOwn`: a successful job that had its directory to itself reports on what it extracted itself.
* `MdUnflaggedSound`: what nobody must review is no stub, has no placeholder and only translated columns; a WHERE that can be seen was
  put there by a correction, and, unless rewritten after the check, it is a SELECT that parses where the deterministic one does.
* `PlPlanSound`: every table in exactly one wave or the plan says it was truncated; caps, domains, order and flags.
* `SgVerdictsAgree`: equal tables get equal queues, worse ones none better, in every interleaving of the normalisation.
* `DbBulkAccounted`: a session never lets go of a finished job before its successes are marked.
* `LgUsageKept`: no use of a column is lost or doubled between the log lines and the report.
* `BsColumnsKept`: a source table keeps every column any bootstrap gave it, unless two rebuilt it at once, a CREATE failed, or its columns
  were not found (a look-up that raised, or a name in other letters than the catalog's).
* `XtNothingMissed`: only application queries that the sources remember are exported, each once, and what is lacking is lacking for one
  of three reasons: the export is full, copies reach a limit that counts them, or more is remembered than is fetched. In the last case no query of
  the fetched rows is lacking, however much noise is among them.
* `SqOwnDatabase`: what is not empty was read from the database the client's string names, or the string its fields were composed to, or
  else from the server's.
* `CkKept`: a result that was shown stays in the insights file, unless a write overtook another one.
* `SxCredited`: a column that is read is credited to its table, and to no other.

A conditional property names its condition in the module; section 7 says what the code does outside of it.

Bounds, and why they are enough:

* `bulk_single`: one job, two positions of the list, four tables of which one is not GREEN, two model names, chunks
  of one model, two pool threads, one clear, one restart, failing job files. The requests are a duplicate, two
  tables of different models, and a GREEN with a YELLOW one: with two positions each pair of futures can
  finish, fail and be collected in either order, two chunks make a second batch follow a first one, and one
  clear can fall between any two steps. A job ID is issued once, so a second clear meets no new state of one job
  except a cleared one. Deadlock checking is off: all jobs over is a normal end.
* `bulk_pair`: two jobs, one position, colliding model names, so `run_results.json` and the `.sql` file are shared; a
  third job could only write what the second can. Job names are interchangeable (symmetry; no liveness there).
* `bulk_live`: one job and one stream, one clear, writes of the job file that succeed (a failed one changes no control).
* `streams`, `stream_deadlock`: two bulk streams and two jobs, one clear. One stream can hold the lock and one can block
  the loop; a third could do neither. In `streams` also two live jobs for one slot, one exception, and the page of one of them:
  one job waits while the other holds the slot, breaks, is lost or is overtaken by the hook; pages share nothing with each other.
* `wave_one`: two models, two reviewers, two attempts, bypass of no wave, the first or the second, both values of
  `stop_on_first_error`, and four plans: a model in two waves, two waves of one model, a model twice in one wave,
  and the empty wave of a generation that produced nothing. Two attempts give a first, a retried and an
  exhausted one. Two reviewers give every race on one artifact. Restarts are unbounded.
* `wave_race`: the shortest instance, two executions of one model and one reviewer.
* `checkpoint_pair`: one job (jobs share nothing), two approvals, any write may fail, any number of counted models and
  restarts. Two requests give every interleaving of two loads and two saves of the file, and one of a request with
  the worker of another. The invariants were also run with three requests; nothing new showed.
* `checkpoint_double`: two approvals, no failing write.
* `services`, per module. HITL: two rows, one request thread and one tab, two calls and one event (remount, reload, restart or
  failing write): a writer, a second writer, and something between them. Caches: two versions of the report, two addresses,
  one request, so that an address is used again while a request is under way. Approval: two calls, two models, one
  lock retry, one exception: the second call covers every race on a file, that of the rewriting of the other's file included. Agent: the code's own numbers
  (fourteen messages, twelve steps), four messages of an earlier session, one question, one click, so that the cut happens in a turn. Gate:
  two tables, four texts. Live: two jobs, two slots, one fault; a third job would only wait. Draft: two tables of two columns
  and three attempts, every text there is. Planner: every co-query graph, priority and domain of three tables and a ghost, under two
  pairs of caps that truncate. Gate of scores: two evaluations of two tables out of five kinds, with the default
  thresholds or stricter ones. Dashboard: two tables, two jobs, five clicks. Logs: two files, four lines of six kinds. Sources: two calls, two tables of which one is spelt in two ways, two models, one
  statement or look-up that fails. Extraction: a limit of two and a pool of three rows, sources that are empty, within the pool and beyond it, with
  duplicates and noise before the queries, two faults. Questions: a database per
  dialect, named by a string, by fields that are complete or not, or by nothing. Insights: two analyses, one fix, one generation, and mtimes that two versions may share. Parsing: statements over up to three tables, flat, nested and
  derived, with each clause empty or not.
  Calls and rows are interchangeable (symmetry; the run has no liveness). Ends are normal: deadlock checking is off.

## 5. Fairness

`services` checks safety only. Safety runs use the specifications without fairness. Liveness assumes:

* `BulkJob`: weak fairness of each worker, each pool task, the unlink of a clear and the poll of an open stream.
  Threads are preemptive and the stream sleeps between polls, so each is scheduled again. It includes that **dbt
  and the model calls return**: `subprocess.run` has no timeout (`dbt_migration/runner.py:162`), so a dbt that never ends
  blocks its job for ever. Nobody has to start, clear or watch a job, and the process need not end. With one stream
  per job the lock cannot deadlock, so that hazard lies outside `JobsSettle` and `WatchersClose`; it is the
  subject of `ProgressStream`.
* `ProgressStream`: strong fairness of workers and coroutines, since a worker competes for the lock with streams that
  take it again every turn and a Python lock is not handed over in order; a thread that tries for ever while the
  lock is free again and again gets it. `EndsUnlessMissing` is conditional on no stream meeting a missing job; it
  concerns jobs that have a worker.
* `LivePages`: weak fairness of each worker (`LvWork`) and of the poll of each open socket, which sleeps and is woken. A job takes a
  slot once, so that a slot comes free for those that wait as often as there are jobs before them; the provider's
  time limits end a query that hangs. Workers are daemon threads: nothing is assumed of them once the hook has run. `LpAllEnd`
  leaves out jobs whose worker was lost, and what their sockets show: they stay open until the page is left.
  In `streams` the kind that rests has nothing enabled that either fairness asks for.
* `WaveRun`: weak fairness of executions only; reviewers owe nothing, an artifact may wait for ever.
* `CheckpointA`: weak fairness of the generator's thread and of a request once it has passed the checks; nobody has to
  approve. The end of the generation is strongly fair, because the inventory is finite: models are not counted for
  ever. It includes that model calls and dbt return. `ResultsReported` is conditional on `Undisturbed` (no failing
  write, one approval): a failing disk loses the result silently, and a second approval may overwrite it.

## 6. Proofs

All theorems hold for every value of the constants that satisfies the modules' `ASSUME`s (any number of jobs,
tables, models, positions, pool threads, streams, executions, reviewers, approvals, plans and attempts).

* `BulkJobProofs`: `TypeCorrect`. Types alone are not inductive: the table under repair must be one of the
  prepared ones (`CurPrepared`), a job that has not begun has no entry, no futures and no locals (`NotBegun`), futures
  exist only at listed positions (`FutureListed`). Their conjunction is `TypeInv`.
* `BulkJobProofs`, continued, with three invariants on top of `TypeInv`:
  * `JobInv(j)`: `Accounted` (while the entry exists, a collected table is still prepared or has an outcome),
    `AllCollected` (in the second phase every future has been collected),
    `Complete` for the entry and for the file, `Settled` (done only with an ended thread), `FileBehind`. It gives
    `DoneAccountsHolds`, `DoneIsQuietHolds`, `DiskBehindMemoryHolds` and, with it on both sides of a step,
    `TerminalIsFinalHolds`. The step lemmas first show that an action of one job leaves the others' state alone
    (`SameJob`), so that the argument is about one job.
  * `GateInv`: keys, prepared tables, entries, files and audit lines are GREEN; gives `OnlyGreenTouchedHolds`.
  * `BuiltInv`: rows of `run_results.json`, verdicts of a batch, an accepted repair and successes are all about
    models in `built`. It is needed because the batch reads a file that another job, or an earlier run, may have
    written: the row is stale but never claims what was not built. Gives `SuccessWasBuiltHolds`.
* `BulkJobProofs`, at its end, `ImplementsReportHolds`: `BulkJob` implements `BulkReport`. `Born` (a job without a thread
  has no entry and asks for nothing, one with a thread asks for something) joins `TypeInv` and `JobInv`; then the initial states are
  initial, an action that readers of a job do not see is a stutter of the report (`Unseen`), and each other one is a step
  of it: a job appears, gains one outcome, settles, is forgotten.
* `ServiceProofs`, at its end: `OnlyMissingStopsTheLoopHolds` and `StreamTypesHold`, from `StreamInv` = types, connected streams follow a job, and the
  claim itself; while the lock is held no entry can appear, which keeps "the job is missing" true.
* `WaveProofs`: `WaveTypesHold`, `WaveBarrierHolds`, `HonestOutcomeHolds`, `ReviewNotLostHolds` from `WaveInv` = types and, per execution,
  `CursorInv` (the cursor points into the plan, and to a model while one is run), `VerdictInv` (everything before the
  cursor has a verdict, nothing after its wave has one, a success was tested), `GateInv` (past gates were ready or
  bypassed, one report per closed wave), `OutcomeInv` (what the final status implies), and `ReviewInv` (what a
  reviewer is about to unlink is recorded; no review is lost).

* `CheckpointProofs`: `TypesHold`, `SuccessHasCheckpointHolds`, `GatedWritesHolds`, `HonestExecutionHolds`,
  `ApprovalRecordedHolds` from `CpInv`. Every process saves what it once loaded, so a claim about the file is only
  inductive as a claim about every loaded job too: `Sound`. What a process may still do to the file depends on when
  it loaded it: until the generator is done there are only `Young` jobs (`GeneratorInv`); a request that decides
  holds a complete job without an execution, one that has recorded finds the approval wherever it finds SUCCESS
  (`RequestInv`); RUNNING outlives the open of its report only when the except clause could not open the file either (`RunningInv`); and a request that nobody disturbs
  finds what it left (`SoloInv`).

The services, each by one inductive invariant. Conditions that a property names (nobody overtook, every text parsed,
nothing torn) are history variables of the model, so that the invariant says what is true until the condition breaks.

* `ReviewProofs`, where people decide.
  * `HrDecisionsKeptHolds`, for any rows, requests and tabs. `HrTyped` follows every verdict to the request that asked for it,
    through files, tabs, loaded decisions and reports. While `hrClean`, `HrInTurn`: one clerk is busy, what it is about to save
    is the ledger with its own verdicts, and the file is read back from the place it is written to.
  * `ApAnswerTrueHolds`. `ApUnwritten`: a text nobody has written is in no file, in nobody's hands and unknown to dbt, so that
    dbt's opinion of a text is of one attempt. `ApKeeps` says what a call finds whose text stays in its file, whoever else is at
    work; `ApNobodyElse` and `ApOnItsWay` what one that works alone finds besides; `ApAudited` that only an approval has an audit line.
  * `SgVerdictsAgreeHolds`. `SgNormalised` places the three steps of normalisation of all calls; it makes every verdict
    that of the fully normalised report (`SgFaithful`), whoever did which part of it. The lemmas say that the scores are
    monotone in each signal: rounding and thresholds included.
  * `DbBulkAccountedHolds`, inductive once the shape of jobs and sessions is added.
* `AgentProofs`, where the agent acts. `AgQuestionSeenHolds` (`AgInv`: the question lies no further back than the steps of
  the turn; under `AgSteps <= AgKeep`, which the code's 12 and 14 satisfy), `GtLineageKeptHolds` (`GtSeen`: what waits has been
  shown, and of a correction that is held back the tables are known), `MdUnflaggedSoundHolds` (`MdInv`: who wrote a candidate, which WHERE
  can be seen in it, and what was validated of it until it was rewritten, for any glossary, tables and attempts), `SqOwnDatabaseHolds` (every
  answer is of this step, whether its string was given, composed or the server's).
* `StoreProofs`, what is kept.
  * `BsColumnsKeptHolds`. `BsInOrder`: of a table that is not torn, one call at most is between its read and its CREATE, by whatever
    name, and has every column that was there. A look-up that misses columns makes the table torn in the same step.
  * `CkKeptHolds`. While no write has overtaken another, `CkNothingLost`: what was shown is in the file, in the cached object of
    the file's mtime, in what a call that loaded this version holds and in what it dumped. `CkOneWriter` keeps a torn file to
    the one that fills it.
  * `LvReportOwnHolds` (`LvOwn`: a job alone in the directory finds what it has written so far) and `LvTypesHold`, which needs that
    free slots and holders of slots add up.
  * `ImplementsBoardHolds`: `LiveJobs` implements `LiveBoard`. `LvBoarded` says which statuses go with each place of a
    worker, the hook's mark included; with the count of slots it makes every step one of the board or a stutter: that there is room
    for one more is the cardinality of those that run, which are holders of slots and not lost.
  * `LpToldLastHolds`: a verdict that a socket was told is one that no worker will change, since only a marked one moves.
  * `RcServesOwnReportHolds`. `RcFresh`: a cache that is cleared holds, under any address, only content of the live report, unless
    an overtaken request has cached; a request that still holds an object keeps its address from being used again.
* `PipelineProofs`, what is read and planned.
  * `SxCreditedHolds`: the walk over joins and nested SELECTs, and the regular expressions, against what is read, for any
    statement, however many tables it joins.
  * `PlPlanSoundHolds`. `PlOrdered`: since an edge leads from the higher priority to the lower one, the heap of the topological
    sort always pops the least of all tables that are left, so that the order is the sorted one; `PlWavesSound` and
    `PlTaken` carry it through chunks, caps and the final wave of tables outside the inventory.
  * `LgUsageKeptHolds`. `LgCounted`: the counts of the file at hand and of the total add up to a sum over the statements
    accepted so far; then the columns of a table are split among the rows of the report without remainder.
  * `XtNothingMissedHolds`. `XtInv` says which sources the kept rows are from; the rest is about positions: filtering
    keeps every application query of the fetched rows when the limit is not reached, and one statement is left of each key; what is fetched is what
    is remembered unless a source is longer than the pool.

The types of each service are a theorem of its own (`HrTypesHold`, `GtTypesHold`, `BsTypesHold`, ...), next to its safety property.
Most are read off the safety invariant of the service; the others need an invariant of their own: an answer is of a
database there is (`SqAnswered`), the positions of the known messages lie within the history of the turn (`AgPlaced`), a
table that is drafted is one of the job, with a correction left when one is asked for (`MdStages`), counters are total and the
report has its parts (`LgRanges`), and an export has no more records than `max_log_rows` (`XtRanges`, `XtExportBound`).

`ServiceProofs` puts them together for `SvSpec`, the product that `services` explores. `SvRunsEach`: a behaviour of the
product is, for every service, a behaviour of its specification, since a step is one of the service in focus and leaves
the others' variables alone. With it `SvTypesHold` (`SvTypeOK` for all constants) and `SvSoundHolds` (all sixteen safety
properties together, if a turn has no more steps than messages are kept).

Induction over data is done by hand, since the library's induction theorems cannot be instantiated: a set of naturals that
is not empty has a least member (`LeastNatural`, from the well-foundedness of the order), so a false claim would have a
least counterexample. Sums over finite sets, whose definition chooses the next element, are shown to be step functions
first (`SumStep`), then to be indifferent to which element is taken (`SumTake`).

What the attempts found wrong in the models, corrected since: between two source tables a call forgot the others it had to
do (`SourceTables`), the regular expressions lost every second table without an alias where the code's lose only the one
behind `FROM` (`SxSpotted`), and the condition of `SxCredited` did not cover a nested SELECT without a table of its own. Constants got
the assumptions the code justifies: the tables of a wave, log statements and columns are finite sets, what a database remembers
are sequences of statements, a statement is built of SELECTs over known tables or is a comment (the two kinds the model has),
a database has one of the four dialects the code knows and its table names have an upper case form, "none" is not the id of a job.

`TerminalIsFinalHolds`, `WaveTypesHold`, `TypesHold`, `StreamTypesHold` and `LvTypesHold` are proved and checked in no run of their
own: `ImplementsReport` says that what is done does not change, `LvTypeOK` is a part of `SvTypeOK`, and the runs spend their time
on what could be wrong.

Model-checked only: the liveness properties `JobsSettle`, `WatchersClose`, `EndsUnlessMissing`, `LpAllEnd`, `ExecutionsEnd` and
`ResultsReported`, since liveness under fairness and `ENABLED` are outside the installed provers, and the violated properties.
Every other property of a run is a theorem.

## 7. Where the code and its documents disagree

* A request without a GREEN table registers a queued job that no thread runs: its stream never completes
  (`bulk_empty_stream`, `api/routes/bulk.py:86`).
* A table replaced by `SELECT *` passthrough counts as a success (`bulk_passthrough`, `bulk_runner.py:224`).
* Two streams can stop the event loop: one awaits its close inside `with _BULK_JOBS_LOCK`, another then waits for
  the lock on the same thread (`stream_deadlock`, `api/ws.py:21`).
* A reviewer can remove an artifact nobody has read, saved by another execution after theirs was loaded
  (`wave_race`, `dbt_migration/runner.py:588`).
* Two approvals of one Checkpoint-A job can both pass the check, write the models and execute them at the same time
  (`checkpoint_double`, `dbt_migration/service.py:333`); the second is expected to be refused.

The modules contradict more statements than the runs above check. Those with a name are formulas of the module: putting
one in place of the properties of `Services.cfg` makes TLC show the behaviour (`AgOffersInWave` needs a second wave: `AgWaves = {1, 2}` with a
table each).

| Statement | Formula | What the code does |
|---|---|---|
| `src/USER_GUIDE.md:236`: decisions persist automatically | `HrDecisionsPersist` | overlapping writers, an old tab, or a store file left from a read-only time lose or shadow them |
| `src/README.md:64` and `:66`: a table with 500 queries and 3 dependents scores 100, and high criticality blocks bulk | `SgHubsAreHeld` | `scale_engine/criticality.py:42` counts edges by the key `source`; reports carry `from` and `to`, so that no table has dependents |
| `src/README.md:79`: output that introduces a row-level WHERE is blocked | `GtRowsKept`, `MdNoFilter` | the API writes what its client sends; a correction is not checked for WHERE; of a draft the check (`generator.py:140`) answers "no WHERE" when `sqlglot`'s default dialect cannot parse it |
| `src/README.md:75`: `sqlglot` validates SQL | `MdAsValidated` | `normalize_candidate_sql` rewrites the table references after the last validation, and nothing looks at the result |
| `src/USER_GUIDE.md:308`: low-confidence mappings are flagged | `MdDoubtsFlagged` | the confidence of the batch decides, not that of a mapping |
| `src/MIGRATION.md:595`: the next table in the wave is prepared | `AgOffersInWave` | once the request has left the history, the scope is every wave |
| `planner/planner.py:33`: order across domains follows lineage | `PlOrderAcrossDomains` | a domain is placed by its earliest table; other edges between two domains are not followed |
| `ui/dashboard.py:4235`: you can keep reviewing | `DbReviewGoesOn` | while a job runs the page sleeps and reruns before the tabs: clicks there do nothing |
| `ui/dashboard.py:4802`: "Saved: rejected - refreshing" | `DbRejectionsCount` | the cached scale result is not dropped: bulk still offers the table |
| `api/routes/live_connection.py:348`: redirected output | `LvStdoutBack` | two overlapping builds may leave `sys.stdout` in the other's buffer |
| `max_log_rows` of the extraction | `XtFull` | limits count duplicates before they are removed |
| `src/docs/LIVE_CONNECTION.md:191`: that only system SQL is seen is fixed by the application-SQL filter | `XtNoiseHarmless` | the filter sees the fetched rows; noise that fills the fetch pool still hides the queries behind it |
| `migration_agent/agent_tools.py:390`: source tables include every column a model may SELECT | `BsNothingForgotten` | a name in other letters than the catalog's finds no existing columns, while DROP and CREATE replace its table |
| `mcp/factory.py:46`, `api/routes/connections.py:53`: a request's fields name its database | `SqFieldsHonoured` | for postgres, or with a field missing, no string is composed, and the server's own database answers |

Also seen: two overlapping bootstraps, a CREATE that fails after its DROP, or a look-up of the existing columns that raises
(`migration_agent/agent_tools.py:354`) lose columns of a source table; an approval whose audit line could not be written is
answered "approved" all the same (`api/routes/migration.py:230`); an execution whose job file opens neither for its result nor for its
failure (`dbt_migration/service.py:388`, `:395`) stays RUNNING there, without a restart; in
bootstraps no joined table is created; `extract_ddl` answers what it has when an error stops it, as if complete;
`mcp/sqlserver_provider.py:627` can never be reached; `AMA_SCHEMA_MODE` overrides the mode a request asks for; Oracle and
Db2 look up the names they list in another letter case; two fixes of one model share `<model>.ai_fix.sql`; a target
matched by its last segment takes in tables of other schemas; columns of HAVING are counted for no table, and those of
a subquery again for the SELECT around it; in regex mode a table without an alias before a bare JOIN loses the joined one; a
job of live ingestion that raises outside its `try` stays running.

## 8. Not modelled, and why

* `business_logic.py`, `importance.py`, evidence from git and messages, name similarity, data quality, glossary: functions
  of their input without state; what could be wrong is the text or the score they produce.
* How SQLGlot parses and renders SQL, and the language models: external; where a modelled part calls them they are choices
  over what its control tells apart.
* Export sinks, encryption of connection strings, masking of personal data: remote I/O, or a function of one value.
* `_render_dbt_migration_tab` (`ui/dashboard.py:2007`), `run_dbt_with_fix_loop` and `extract_ddl_table_details`: nothing but
  tests, or nothing at all, calls them.
* Tabs that only show, most commands of the CLI, the React frontend, synthetic data, benchmarks: presentation and
  tooling over the services above.

## 9. Running

`tlc -config <Run>.cfg <MC module>` for each run of `PROJECT.json`, `tlapm <Proofs>.tla` for each proof module. The
slowest runs are `wave_one` (about a million states, two minutes) and `services` (nearly a million as well, two minutes); the proofs take about
half an hour in total, `PipelineProofs`, `ReviewProofs` and `StoreProofs` the most of it; `ServiceProofs` cites those three and `AgentProofs`.
