---------------------------- MODULE SchemaExtract ----------------------------
(***************************************************************************)
(* The extraction of a live SQL Server database, for the live jobs: the    *)
(* tables with their columns, then the SQL of the workload, from Query     *)
(* Store and, where that is off or sparse, from the plan cache. Each half  *)
(* opens a connection of its own, and turns a failure into what it has got *)
(* so far, or nothing. What the database answers is external.              *)
(***************************************************************************)
EXTENDS Naturals, Sequences, FiniteSetsExt, SequencesExt

CONSTANTS
    XtTables,    \* base tables of the requested schemas
    XtBare,      \* the ones no column of which is visible
    XtStatements, \* what is remembered of a statement: [key, kind], kind app, noise or other
    XtDatabases, \* workloads: [on, store, cache, given]; store: statements, cache: batches
    XtCap,       \* max_log_rows
    XtFactor,    \* the filter stops at this many times XtCap (20 in the code)
    XtPool,      \* rows fetched from a source
    XtMaxFaults  \* bound: connections and statements that fail

ASSUME XtAssumption ==
    /\ XtCap \in Nat \ {0} /\ XtFactor \in Nat \ {0}
    /\ XtPool \in Nat /\ XtPool >= XtCap
    /\ XtMaxFaults \in Nat
    /\ \A db \in XtDatabases :
          /\ db.on \in BOOLEAN /\ db.given \in BOOLEAN
          /\ db.store \in Seq(XtStatements) /\ db.cache \in Seq(Seq(XtStatements))

VARIABLES
    xtDb,      \* the workload that the database remembers
    xtPc,      \* step of the extraction
    xtTodo,    \* tables still to describe
    xtOut,     \* what extract_ddl returns: [tables, keys]
    xtKept,    \* filtered
    xtRecords, \* what extract_logs returns
    xtFailed,  \* history: a statement of extract_logs failed
    xtFaults

xtVars == <<xtDb, xtPc, xtTodo, xtOut, xtKept, xtRecords, xtFailed, xtFaults>>

XtInit ==
    /\ xtDb \in XtDatabases
    /\ xtPc = "connect"
    /\ xtTodo = {}
    /\ xtOut = [tables |-> {}, keys |-> FALSE]
    /\ xtKept = <<>>
    /\ xtRecords = <<>>
    /\ xtFailed = FALSE
    /\ xtFaults = 0

XtFault(n) == xtFaults + n <= XtMaxFaults /\ xtFaults' = xtFaults + n

XtGo(next) == xtPc' = next /\ UNCHANGED xtDb

\* The string as it is, then with ApplicationIntent=ReadOnly, unless it has an intent. An
\* error in what is done with the connection also makes a second one, and is raised then.
XtConnect(from, next, failed) ==
    /\ xtPc = from
    /\ \/ XtGo(next) /\ (UNCHANGED xtFaults \/ (~xtDb.given /\ XtFault(1)))
       \/ XtGo(failed) /\ XtFault(IF xtDb.given THEN 1 ELSE 2)

XtConnectForTables ==
    XtConnect("connect", "list", "logs") /\ UNCHANGED <<xtTodo, xtOut, xtKept, xtRecords, xtFailed>>

XtListTables ==
    /\ xtPc = "list"
    /\ \/ xtTodo' = XtTables /\ XtGo("table") /\ UNCHANGED xtFaults
       \/ XtFault(1) /\ XtGo("logs") /\ UNCHANGED xtTodo
    /\ UNCHANGED <<xtOut, xtKept, xtRecords, xtFailed>>

\* One table after the other; an error returns the tables described so far.
XtDescribeTable ==
    /\ xtPc = "table"
    /\ \E t \in xtTodo :
          \/ /\ xtOut' = [xtOut EXCEPT !.tables = @ \cup ({t} \ XtBare)]
             /\ xtTodo' = xtTodo \ {t}
             /\ XtGo("table")
             /\ UNCHANGED xtFaults
          \/ /\ XtFault(1)
             /\ XtGo("logs")
             /\ UNCHANGED <<xtOut, xtTodo>>
    /\ UNCHANGED <<xtKept, xtRecords, xtFailed>>

\* The foreign keys of the tables found; an error leaves them out.
XtForeignKeys ==
    /\ xtPc = "table"
    /\ xtTodo = {}
    /\ XtGo("logs")
    /\ \/ xtOut' = [xtOut EXCEPT !.keys = xtOut.tables # {}] /\ UNCHANGED xtFaults
       \/ xtOut.tables # {} /\ XtFault(1) /\ UNCHANGED xtOut
    /\ UNCHANGED <<xtTodo, xtKept, xtRecords, xtFailed>>

\* The live job gives up without a table, otherwise it extracts the logs.
XtConnectForLogs ==
    /\ IF xtOut.tables = {}
       THEN xtPc = "logs" /\ XtGo("done") /\ UNCHANGED <<xtFaults, xtFailed>>
       ELSE /\ XtConnect("logs", "source", "done")
            /\ xtFailed' = (xtPc' = "done")
    /\ UNCHANGED <<xtTodo, xtOut, xtKept, xtRecords>>

\* is_noise_or_system_sql, references_user_schema.
XtApplication(s) == s.kind = "app"

XtFirst(s, n) == SubSeq(s, 1, IF Len(s) < n THEN Len(s) ELSE n)

\* What a sequence has at some positions, in order.
XtAt(s, places) ==
    LET at == [k \in 1..Cardinality(places) |->
                  CHOOSE i \in places : Cardinality({j \in places : j < i}) = k - 1]
    IN  [k \in DOMAIN at |-> s[at[k]]]

\* filter_application_sql_texts
XtHits(raw) == {i \in DOMAIN raw : XtApplication(raw[i])}
XtFiltered(raw) == XtFirst(XtAt(raw, XtHits(raw)), XtFactor * XtCap)

\* The first statement with each key (the text without its layout and letter case).
XtUnique(s) == XtAt(s, {i \in DOMAIN s : \A j \in DOMAIN s : s[j].key = s[i].key => i <= j})

XtStoreRows == XtFirst(xtDb.store, XtPool)

\* The batches are split at their GO lines, and the noise among the parts is dropped.
XtParts(batches) ==
    LET parts == FlattenSeq(batches)
    IN  XtAt(parts, {i \in DOMAIN parts : parts[i].kind # "noise"})

XtCacheRows == XtParts(XtFirst(xtDb.cache, XtPool))

\* A mutated export: without the limit.
XtExportAll(kept) == XtUnique(kept)

\* The exported records: no statement twice, XtCap of them at most.
XtExport(kept) == XtFirst(XtUnique(kept), XtCap)

\* A failed statement loses what was read before.
XtLogError ==
    /\ xtPc \in {"source", "supplement"}
    /\ XtFault(1)
    /\ XtGo("done")
    /\ xtFailed' = TRUE
    /\ UNCHANGED <<xtTodo, xtOut, xtKept, xtRecords>>

\* A mutated test: the plan cache is read when Query Store has nothing.
XtSparseNothing(kept) == kept = <<>>

XtSparse(kept) == Len(kept) < XtCap

\* Query Store, or the plan cache when it is off or the probe of it fails.
XtReadSource ==
    /\ xtPc = "source"
    /\ \E on \in {xtDb.on, FALSE} :
          LET kept == XtFiltered(IF on THEN XtStoreRows ELSE XtCacheRows)
          IN  /\ IF on = xtDb.on THEN UNCHANGED xtFaults ELSE XtFault(1)
              /\ xtKept' = kept
              /\ IF on /\ XtSparse(kept)
                 THEN XtGo("supplement") /\ UNCHANGED xtRecords
                 ELSE XtGo("done") /\ xtRecords' = XtExport(kept)
              /\ xtFailed' = (on # xtDb.on)
    /\ UNCHANGED <<xtTodo, xtOut>>

\* What the plan cache knows is added behind.
XtSupplement ==
    /\ xtPc = "supplement"
    /\ xtKept' = xtKept \o XtFiltered(XtCacheRows)
    /\ xtRecords' = XtExport(xtKept')
    /\ XtGo("done")
    /\ UNCHANGED <<xtTodo, xtOut, xtFailed, xtFaults>>

XtNext ==
    \/ XtConnectForTables \/ XtListTables \/ XtDescribeTable \/ XtForeignKeys
    \/ XtConnectForLogs \/ XtReadSource \/ XtSupplement \/ XtLogError

XtSpec == XtInit /\ [][XtNext]_xtVars

(* The variables stay in their ranges; never more records than max_log_rows. *)
XtTypeOK ==
    /\ xtPc \in {"connect", "list", "table", "logs", "source", "supplement", "done"}
    /\ xtTodo \subseteq XtTables
    /\ xtOut.tables \subseteq XtTables \ XtBare
    /\ Len(xtRecords) <= XtCap
    /\ xtFaults <= XtMaxFaults

\* The application queries among some statements.
XtQueries(rows) == {s.key : s \in {r \in ToSet(rows) : XtApplication(r)}}

\* What the sources remember, and what their XtPool latest rows hold of it.
XtWorkload == (IF xtDb.on THEN XtQueries(xtDb.store) ELSE {}) \cup XtQueries(FlattenSeq(xtDb.cache))
XtFetched == (IF xtDb.on THEN XtQueries(XtStoreRows) ELSE {}) \cup XtQueries(XtCacheRows)

XtOverflow == (xtDb.on /\ Len(xtDb.store) > XtPool) \/ Len(xtDb.cache) > XtPool

\* A limit that counts before duplicates are removed is reached, and there are duplicates.
XtCopied(rows) == \E i, j \in XtHits(rows) : i # j /\ rows[i].key = rows[j].key
XtCrowded ==
    \/ xtDb.on /\ Cardinality(XtHits(XtStoreRows)) >= XtCap /\ XtCopied(XtStoreRows)
    \/ Cardinality(XtHits(XtCacheRows)) > XtFactor * XtCap /\ XtCopied(XtCacheRows)

XtExported == {xtRecords[i].key : i \in DOMAIN xtRecords}

(* The workload is not lost between the two sources, the noise, the limits and the     *)
(* duplicates. An extraction without a failure exports application queries that the    *)
(* sources remember, each once. What it lacks of them is for one of three reasons: the *)
(* export is full; copies of few queries reach a limit that counts them; or more is    *)
(* remembered than the rows fetched, and then no query of the fetched rows is lacking, *)
(* however much noise is among them (extract_logs of SQLServerSchemaProvider).         *)
XtNothingMissed ==
    xtPc = "done" /\ ~xtFailed /\ xtOut.tables # {} =>
        /\ XtExported \subseteq XtWorkload
        /\ Cardinality(XtExported) = Len(xtRecords)
        /\ \/ XtWorkload \subseteq XtExported
           \/ Len(xtRecords) = XtCap
           \/ XtCrowded
           \/ XtOverflow /\ XtFetched \subseteq XtExported

(* "max_log_rows" without the reasons: not true of the code. *)
XtFull ==
    \/ xtPc # "done" \/ xtFailed \/ xtOut.tables = {}
    \/ Len(xtRecords) = Min({XtCap, Cardinality(XtWorkload)})

(* Noise never hides a query: only duplicates and the limit do. Not true of the code. *)
XtNoiseHarmless ==
    \/ xtPc # "done" \/ xtFailed \/ xtOut.tables = {} \/ XtCrowded
    \/ Len(xtRecords) = XtCap \/ XtWorkload \subseteq XtExported
=============================================================================
