----------------------------- MODULE SourceTables -----------------------------
(***************************************************************************)
(* The stub source tables of the local DuckDB file. Before dbt runs, every *)
(* validation and every approval drops and recreates the tables its models *)
(* read, with the columns it can resolve and the columns it found there.   *)
(* Each statement commits by itself and a failed one is swallowed; calls   *)
(* of several requests and of the batch worker share the file. DuckDB      *)
(* takes a name whatever the case of its letters; the code looks the       *)
(* columns up by the letters as they are.                                  *)
(***************************************************************************)
EXTENDS Naturals

CONSTANTS
    BsCalls,      \* calls that bootstrap source tables
    BsNames,      \* names of source tables in the SQL: <<schema, table>>
    BsLower,      \* part of a name -> the part in lower case
    BsModels,     \* models
    BsSql,        \* model -> what its SQL reads: [from, ds, casts, yml, key]
    BsReport,     \* name -> its columns in the report: [importance, columns, manifest, ddl]
    BsMaxStarts,  \* bound: bootstraps
    BsMaxFaults   \* bound: statements that fail by themselves

ASSUME BsAssumption ==
    /\ BsNames \subseteq (DOMAIN BsLower) \X (DOMAIN BsLower)
    /\ \A m \in BsModels : BsSql[m].from \cup {BsSql[m].key} \subseteq BsNames
    /\ BsMaxStarts \in Nat /\ BsMaxFaults \in Nat

VARIABLES
    bsCall,   \* call -> its step and its local variables
    bsTable,  \* table -> columns in DuckDB, {} when there is no table
    bsSpelt,  \* table -> how its name is written in the catalog
    bsSchemas, \* the schemas of the catalog, as they are written
    bsFile,   \* who has the file open beside the bootstraps: nobody, a sample, dbt
    bsAnswer, \* how the last sample was answered
    bsStarts, bsFaults,
    bsGiven,  \* history: table -> columns a bootstrap has created it with
    bsTorn    \* history: tables two calls rebuilt at once, whose CREATE failed or whose
              \* columns were there and not found

bsVars == <<bsCall, bsTable, bsSpelt, bsSchemas, bsFile, bsAnswer, bsStarts, bsFaults, bsGiven, bsTorn>>

\* The table of the catalog that a name stands for.
BsKey(n) == <<BsLower[n[1]], BsLower[n[2]]>>
BsTables == {BsKey(n) : n \in BsNames}

\* The ten columns ds_col_1 .. ds_col_10.
BsPlaceholder == {"ds_col"}

\* A model's SQL shows the placeholders it reads or, without any, the columns it casts.
BsSourceColumns(m) == IF BsSql[m].ds # {} THEN BsSql[m].ds ELSE BsSql[m].casts

\* Every "- name:" of the schema.yml, the one of the model itself included.
BsYmlColumns(m) == {m} \cup BsSql[m].yml

BsObserved(n) ==
    IF BsReport[n].importance # {} THEN BsReport[n].importance ELSE BsReport[n].columns

\* The columns of the DDL manifest, and of the live extraction's DDL file.
BsManifest(n) == BsReport[n].manifest
BsLiveDdl(n) == BsReport[n].ddl

\* What a caller hands over: the report, its path, the table and schema.yml of the model.
BsAll == {"report", "path", "yml"}

\* What is known of a table that model m reads: the columns of m's SQL go to every table
\* of its FROM clauses, its schema.yml to its own table only.
BsResolve(n, m, known) ==
    BsSourceColumns(m)
        \cup (IF "yml" \in known /\ n = BsSql[m].key THEN BsYmlColumns(m) ELSE {})
        \cup (IF "report" \in known THEN BsObserved(n) ELSE {})
        \cup (IF "path" \in known THEN BsLiveDdl(n) ELSE {})
        \cup (IF {"report", "path"} \subseteq known THEN BsManifest(n) ELSE {})

\* A validation of one model: the tables of its FROM clauses (a JOIN is not looked at).
BsOfModel(m, known) == [n \in BsSql[m].from |-> BsResolve(n, m, known)]

\* Before a model of a wave: nothing without a report.
BsOfWave(m, known) == IF {"report", "path"} \cap known = {} THEN <<>> ELSE BsOfModel(m, known)

\* A batch: the tables of all its models, and the table of each model.
BsOfBatch(ms) ==
    [n \in UNION {BsSql[m].from \cup {BsSql[m].key} : m \in ms} |->
        UNION {BsResolve(n, m, BsAll) :
                  m \in {k \in ms : n \in BsSql[k].from \cup {BsSql[k].key}}}]

\* The dashboard hands over nothing; a wave's model may be missing in the checkpoint.
BsPlans ==
    (UNION {{BsOfModel(m, known) : known \in {{}, BsAll}} : m \in BsModels})
        \cup (UNION {{BsOfWave(m, known) : known \in {{}, {"report", "path"}, BsAll}} : m \in BsModels})
        \cup {BsOfBatch(ms) : ms \in SUBSET BsModels}

\* A call between two tables, or outside the file.
BsCallAt(pc, todo) ==
    [pc |-> pc, todo |-> todo, at |-> CHOOSE n \in BsNames : TRUE, cols |-> {}]
BsIdle == BsCallAt("idle", <<>>)

BsInit ==
    /\ bsCall = [c \in BsCalls |-> BsIdle]
    /\ bsTable = [t \in BsTables |-> {}]
    /\ bsSpelt = [t \in BsTables |-> "none"]
    /\ bsSchemas = {}
    /\ bsFile = "free"
    /\ bsAnswer = "none"
    /\ bsStarts = 0
    /\ bsFaults = 0
    /\ bsGiven = [t \in BsTables |-> {}]
    /\ bsTorn = {}

BsOpen == {c \in BsCalls : bsCall[c].pc \notin {"idle", "planned"}}

BsRest(todo, n) == [k \in DOMAIN todo \ {n} |-> todo[k]]

BsNextTable(c, n) ==
    bsCall' = [bsCall EXCEPT ![c] = BsCallAt("tables", BsRest(bsCall[c].todo, n))]

\* The columns are resolved before the file is opened; nothing to create, nothing done.
BsStart(c) ==
    /\ bsCall[c].pc = "idle"
    /\ bsStarts < BsMaxStarts
    /\ bsStarts' = bsStarts + 1
    /\ \E todo \in BsPlans :
          bsCall' = [bsCall EXCEPT ![c] =
                        IF DOMAIN todo = {} THEN BsIdle ELSE BsCallAt("planned", todo)]
    /\ UNCHANGED <<bsTable, bsSpelt, bsSchemas, bsFile, bsAnswer, bsFaults, bsGiven, bsTorn>>

\* A sample has the file open read-only, or dbt has locked it: the call returns 0 tables
\* and dbt is run all the same.
BsConnect(c) ==
    /\ bsCall[c].pc = "planned"
    /\ bsCall' = [bsCall EXCEPT ![c] =
                     IF bsFile = "free" THEN BsCallAt("tables", bsCall[c].todo) ELSE BsIdle]
    /\ UNCHANGED <<bsTable, bsSpelt, bsSchemas, bsFile, bsAnswer, bsStarts, bsFaults, bsGiven, bsTorn>>

\* A mutated merge: the columns the table has already are not looked up.
BsMergeForgets(columns, existing) == columns

BsMerge(columns, existing) == columns \cup existing

\* information_schema knows the table by the letters of its first CREATE, and its schema by
\* those of the first CREATE SCHEMA.
BsSees(n) == bsTable[BsKey(n)] # {} /\ n[1] \in bsSchemas /\ bsSpelt[BsKey(n)] = n[2]

\* The columns of the table are looked up, and merged with the ones resolved. A lookup that
\* raises finds none, like one by other letters, and the table is rebuilt all the same.
BsReads(c, n, found) ==
    LET key == BsKey(n)
        merged == BsMerge(bsCall[c].todo[n], IF found THEN bsTable[key] ELSE {})
    IN  /\ \/ found = BsSees(n) /\ UNCHANGED bsFaults
           \/ ~found /\ BsSees(n) /\ bsFaults < BsMaxFaults /\ bsFaults' = bsFaults + 1
        /\ bsCall' = [bsCall EXCEPT ![c] =
                         [pc |-> "drop", todo |-> bsCall[c].todo, at |-> n,
                          cols |-> IF merged = {} THEN BsPlaceholder ELSE merged]]
        /\ bsTorn' = IF \/ ~found /\ bsTable[key] # {}
                        \/ \E d \in BsOpen \ {c} : /\ BsKey(bsCall[d].at) = key
                                                 /\ bsCall[d].pc \in {"drop", "create"}
                     THEN bsTorn \cup {key} ELSE bsTorn

BsRead(c) ==
    /\ bsCall[c].pc = "tables"
    /\ \E n \in DOMAIN bsCall[c].todo, found \in BOOLEAN : BsReads(c, n, found)
    /\ UNCHANGED <<bsTable, bsSpelt, bsSchemas, bsFile, bsAnswer, bsStarts, bsGiven>>

\* CREATE SCHEMA IF NOT EXISTS.
BsSchemasWith(schema) ==
    IF \E s \in bsSchemas : BsLower[s] = BsLower[schema] THEN bsSchemas
    ELSE bsSchemas \cup {schema}

\* CREATE SCHEMA and DROP TABLE IF EXISTS; a failed one leaves the table and goes on.
BsDrop(c) ==
    LET n == bsCall[c].at
    IN  /\ bsCall[c].pc = "drop"
        /\ \/ /\ bsTable' = [bsTable EXCEPT ![BsKey(n)] = {}]
              /\ bsCall' = [bsCall EXCEPT ![c].pc = "create"]
              /\ bsSchemas' = BsSchemasWith(n[1])
              /\ UNCHANGED bsFaults
           \/ /\ bsFaults < BsMaxFaults
              /\ bsFaults' = bsFaults + 1
              /\ BsNextTable(c, n)
              /\ bsSchemas' \in {bsSchemas, BsSchemasWith(n[1])}
              /\ UNCHANGED bsTable
        /\ UNCHANGED <<bsSpelt, bsFile, bsAnswer, bsStarts, bsGiven, bsTorn>>

\* CREATE TABLE fails when another call was faster, or by itself (two columns that differ
\* in case only): the table stays dropped or keeps the other call's columns.
BsCreate(c) ==
    LET n == bsCall[c].at
        key == BsKey(n)
    IN  /\ bsCall[c].pc = "create"
        /\ BsNextTable(c, n)
        /\ \/ /\ bsTable[key] = {}
              /\ bsTable' = [bsTable EXCEPT ![key] = bsCall[c].cols]
              /\ bsSpelt' = [bsSpelt EXCEPT ![key] = n[2]]
              /\ bsGiven' = [bsGiven EXCEPT ![key] = @ \cup bsCall[c].cols]
              /\ UNCHANGED <<bsFaults, bsTorn>>
           \/ /\ bsTable[key] # {} \/ bsFaults < BsMaxFaults
              /\ bsFaults' = IF bsTable[key] # {} THEN bsFaults ELSE bsFaults + 1
              /\ bsTorn' = bsTorn \cup {key}
              /\ UNCHANGED <<bsTable, bsSpelt, bsGiven>>
        /\ UNCHANGED <<bsSchemas, bsFile, bsAnswer, bsStarts>>

BsClose(c) ==
    /\ bsCall[c].pc = "tables"
    /\ DOMAIN bsCall[c].todo = {}
    /\ bsCall' = [bsCall EXCEPT ![c] = BsIdle]
    /\ UNCHANGED <<bsTable, bsSpelt, bsSchemas, bsFile, bsAnswer, bsStarts, bsFaults, bsGiven, bsTorn>>

\* Sampling needs the file to itself among dbt and the connections that write.
BsSampled(n) == BsOpen = {} /\ bsFile = "free" /\ bsTable[BsKey(n)] # {}

\* inspect_table of the agent samples rows; one without rows is an error only when the
\* report knows no column of the table.
BsInspect ==
    /\ bsFile # "sample"
    /\ \E n \in BsNames :
          bsAnswer' = IF BsSampled(n) THEN "rows"
                      ELSE IF BsManifest(n) \cup BsObserved(n) # {} THEN "warning" ELSE "error"
    /\ bsFile' = IF BsOpen = {} /\ bsFile = "free" THEN "sample" ELSE bsFile
    /\ UNCHANGED <<bsCall, bsTable, bsSpelt, bsSchemas, bsStarts, bsFaults, bsGiven, bsTorn>>

\* dbt takes the file for itself, which it cannot while a call has it open.
BsDbtRuns ==
    /\ bsFile = "free"
    /\ BsOpen = {}
    /\ bsFile' = "dbt"
    /\ UNCHANGED <<bsCall, bsTable, bsSpelt, bsSchemas, bsAnswer, bsStarts, bsFaults, bsGiven, bsTorn>>

BsRelease ==
    /\ bsFile # "free"
    /\ bsFile' = "free"
    /\ UNCHANGED <<bsCall, bsTable, bsSpelt, bsSchemas, bsAnswer, bsStarts, bsFaults, bsGiven, bsTorn>>

BsNext ==
    \/ \E c \in BsCalls : \/ BsStart(c) \/ BsConnect(c) \/ BsRead(c)
                          \/ BsDrop(c) \/ BsCreate(c) \/ BsClose(c)
    \/ BsInspect
    \/ BsDbtRuns
    \/ BsRelease

BsSpec == BsInit /\ [][BsNext]_bsVars

BsAllColumns ==
    BsPlaceholder \cup (UNION {BsYmlColumns(m) \cup BsSourceColumns(m) : m \in BsModels})
        \cup (UNION {BsObserved(n) \cup BsManifest(n) \cup BsLiveDdl(n) : n \in BsNames})

(* The variables stay in their ranges, and dbt never shares the file. *)
BsTypeOK ==
    /\ \A c \in BsCalls :
          /\ bsCall[c].pc \in {"idle", "planned", "tables", "drop", "create"}
          /\ DOMAIN bsCall[c].todo \subseteq BsNames
          /\ bsCall[c].cols \subseteq BsAllColumns
    /\ bsTable \in [BsTables -> SUBSET BsAllColumns]
    /\ bsSpelt \in [BsTables -> (DOMAIN BsLower) \cup {"none"}]
    /\ bsSchemas \subseteq DOMAIN BsLower
    /\ bsFile \in {"free", "sample", "dbt"}
    /\ bsFile # "free" => BsOpen = {}
    /\ bsAnswer \in {"none", "rows", "warning", "error"}
    /\ bsTorn \subseteq BsTables

(* The model of one validation must still find its columns after the bootstraps of    *)
(* others: a source table that was rebuilt by one call at a time, without a failed    *)
(* CREATE and without a lookup that missed columns which were there, has every column *)
(* any bootstrap ever created it with (the merge with the columns found in DuckDB in  *)
(* _ensure_duckdb_sources_for_model).                                                  *)
BsColumnsKept ==
    \A t \in BsTables \ bsTorn :
        \/ bsGiven[t] \subseteq bsTable[t]
        \/ \E c \in BsOpen : BsKey(bsCall[c].at) = t /\ bsCall[c].pc = "create"

(* What one call at a time creates stays when no statement fails. The code does not    *)
(* keep it: two names that differ in case only are one table for DuckDB and two for   *)
(* the lookup.                                                                          *)
BsNothingForgotten ==
    bsFaults = 0 /\ BsOpen = {} /\ bsStarts <= 1
      => \A t \in BsTables : bsGiven[t] \subseteq bsTable[t]
=============================================================================
