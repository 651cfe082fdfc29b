--------------------------------- MODULE LogIngest ---------------------------------
(* ama-ingest run (and log-scan): the SQL logs are read line by line, each statement  *)
(* that counts adds to the column uses of its tables and to the co-query graph, the    *)
(* run picks the tables it reports on, and the alias resolver moves the uses of the    *)
(* logged names to the columns of the DDL, to review or to trash.                      *)
EXTENDS Integers, FiniteSets, Functions

CONSTANTS
  LgTables,    \* tables of the logs, records of a schema ("" for a bare name) and a name
  LgScope,     \* the table of the migration context
  LgColumns,   \* logged column names
  LgDdl,       \* table -> its DDL columns, its own or those of the default DDL file
  LgGlossary,  \* logged name -> what the glossary says, "none"
  LgRtl,       \* logged names written right to left
  LgGuess,     \* logged name -> the best column by similarity and how sure: low, mid, high
  LgRecords,   \* the statements tried: what becomes of them, tables touched, <<table, column>> used
  LgFiles,     \* number of log files
  LgLines,     \* bound: lines of all logs
  LgMerge,     \* discovery_merge_n and discovery_merge_max
  LgMaxEdges   \* _MAX_TOTAL_EDGES (60 000)

ASSUME LgAssumption ==
  /\ LgScope \in LgTables /\ LgFiles \in Nat \ {0} /\ LgLines \in Nat /\ LgMerge \in Nat \ {0}
  /\ IsFiniteSet(LgRecords) /\ IsFiniteSet(LgColumns)
  /\ \A rec \in LgRecords : /\ rec.touched \subseteq LgTables /\ IsFiniteSet(rec.touched)
                            /\ rec.uses \subseteq rec.touched \X LgColumns

LgModes == {"target", "one", "top", "all", "scan"}   \* scan: log-scan, the others: run
LgPairs == {pair \in SUBSET LgTables : Cardinality(pair) = 2}
LgAccepted == {rec \in LgRecords : rec.fate \in {"parsed", "regex"}}
LgNoUse == [c \in LgColumns |-> 0]
LgNoStats == [t \in LgTables |-> [queries |-> 0, uses |-> LgNoUse]]

VARIABLES
  lgAsk,     \* the command: its mode and whether the columns are merged onto the DDL
  lgPc,      \* "read", "report", "write", "done", or "abort" after an uncaught exception
  lgFile,    \* the log file being read
  lgPart,    \* per table: statements and column uses, of this file
  lgTotal,   \* the same, of the files before
  lgCount,   \* the telemetry counters
  lgWeight,  \* co-query graph: pair -> weight
  lgSeen,    \* ghost: how often each record was read
  lgReport   \* the report's column rows, unmapped rows, open names and inventory

lgVars == <<lgAsk, lgPc, lgFile, lgPart, lgTotal, lgCount, lgWeight, lgSeen, lgReport>>

LgDotted(t) == t.schema # ""
\* The target is matched by its last segment: any schema's table of that name, or a bare one.
LgMatches(t) == t.name = LgScope.name

\* The statistics a touched table adds to: target mode has one for all that match.
LgInto(t) == CASE lgAsk.mode = "target" -> IF LgMatches(t) THEN {LgScope} ELSE {}
               [] lgAsk.mode = "scan"   -> IF LgDotted(t) THEN {t} ELSE {}
               [] OTHER                 -> {t}

LgPlus(s, o) == [queries |-> s.queries + o.queries,
                 uses |-> [c \in LgColumns |-> s.uses[c] + o.uses[c]]]
LgSum(stats, tables) ==
  [queries |-> SumFunction([t \in tables |-> stats[t].queries]),
   uses |-> [c \in LgColumns |-> SumFunction([t \in tables |-> stats[t].uses[c]])]]

\* A statement counts once for each table it touches, and each use of a column once.
LgOf(rec) ==
  [k \in LgTables |->
    LET from == {t \in rec.touched : k \in LgInto(t)} IN
    [queries |-> IF from = {} THEN 0 ELSE 1,
     uses |-> [c \in LgColumns |-> Cardinality({t \in from : <<t, c>> \in rec.uses})]]]

\* _add_clique: once the graph is full even the pairs it has gain no weight.
LgClique(rec) ==
  LET pairs == {pair \in LgPairs : pair \subseteq rec.touched /\ \A t \in pair : LgDotted(t)}
      known == {pair \in LgPairs : lgWeight[pair] > 0}
  IN IF lgAsk.mode \in {"one", "top", "all"} /\ Cardinality(known) < LgMaxEdges
     THEN {[p \in LgPairs |-> lgWeight[p] + (IF p \in add THEN 1 ELSE 0)] :
             add \in {a \in SUBSET pairs :
                        \/ a = pairs /\ Cardinality(known \union a) <= LgMaxEdges
                        \/ Cardinality(known \union a) = LgMaxEdges}}
     ELSE {lgWeight}

\* One line: unreadable JSON, or an oversized or empty line, is not even counted; a
\* tokenizer error, or a line that is JSON but no object, ends the run.
LgLine ==
  /\ lgPc = "read" /\ SumFunction(lgSeen) < LgLines
  /\ \E rec \in LgRecords :
       /\ lgSeen' = [lgSeen EXCEPT ![rec] = @ + 1]
       /\ lgCount' = IF rec.fate = "garbled" THEN lgCount
                     ELSE [lgCount EXCEPT !.rows = @ + 1,
                             ![IF rec.fate = "crash" THEN "crashed" ELSE rec.fate] = @ + 1]
       /\ lgPc' = IF rec.fate = "crash" THEN "abort" ELSE "read"
       /\ IF rec \in LgAccepted
          THEN /\ lgPart' = [t \in LgTables |-> LgPlus(lgPart[t], LgOf(rec)[t])]
               /\ lgWeight' \in LgClique(rec)
          ELSE UNCHANGED <<lgPart, lgWeight>>
  /\ UNCHANGED <<lgAsk, lgFile, lgTotal, lgReport>>

\* The end of a file: its statistics are merged into the total.
LgMergedReplaced(total, part) ==
  [t \in LgTables |-> IF part[t].queries > 0 THEN part[t] ELSE total[t]]
LgMerged(total, part) == [t \in LgTables |-> LgPlus(total[t], part[t])]
LgNextFile ==
  /\ lgPc = "read"
  /\ lgTotal' = LgMerged(lgTotal, lgPart)
  /\ lgPart' = LgNoStats
  /\ lgFile' = lgFile + 1
  /\ lgPc' = IF lgFile = LgFiles THEN "report" ELSE "read"
  /\ UNCHANGED <<lgAsk, lgCount, lgWeight, lgSeen, lgReport>>

\* The tables discovery found, the busiest first (ties by name: any of them here).
LgFound == {t \in LgTables : lgTotal[t].queries > 0}
LgBusiest(n) ==
  {top \in SUBSET LgFound :
     /\ Cardinality(top) = IF n < Cardinality(LgFound) THEN n ELSE Cardinality(LgFound)
     /\ \A t \in top, o \in LgFound \ top : lgTotal[t].queries >= lgTotal[o].queries}
\* The one table of a scope: of those that match, one with the most statements.
LgPicked ==
  LET match == {t \in LgFound : LgMatches(t)} IN
  IF match = {} THEN {{}}
  ELSE {{t} : t \in {m \in match : \A o \in match : lgTotal[m].queries >= lgTotal[o].queries}}
LgChosen == CASE lgAsk.mode = "target" -> {{LgScope}}
              [] lgAsk.mode = "one"    -> LgPicked
              [] OTHER                 -> LgBusiest(LgMerge)

\* propose_merge, _merge_allowed_to_ddl and _unmapped_category: the glossary, an equal name,
\* then similarity, which is not trusted for a right-to-left name the glossary does not have.
LgPlace(t, c) ==
  LET guess == LgGuess[c]
      sure == CASE guess.ddl \notin LgDdl[t] -> "low"
                [] c \in LgRtl /\ LgGlossary[c] = "none" -> "low"
                [] OTHER -> guess.sure
  IN CASE LgGlossary[c] \in LgDdl[t] -> [as |-> "merged", to |-> LgGlossary[c]]
       [] LgGlossary[c] \notin LgDdl[t] /\ c \in LgDdl[t] -> [as |-> "merged", to |-> c]
       [] OTHER -> [as |-> CASE sure = "high" -> "merged" [] sure = "mid" -> "review"
                             [] OTHER -> "trash",
                    to |-> guess.ddl]
LgSources(t, d) == {c \in LgColumns : LgPlace(t, c) = [as |-> "merged", to |-> d]}

\* merge_table_stats: each DDL column gets the uses of every name that is merged onto it.
LgBucket(uses, sources) == SumFunctionOnSet(uses, sources)
LgRowsOf(t, uses) ==
  {[table |-> t, column |-> d, uses |-> LgBucket(uses, LgSources(t, d))] :
     d \in {x \in LgDdl[t] : \E c \in LgSources(t, x) : uses[c] > 0}}
LgOpen(t, uses) == {<<t, c, LgPlace(t, c).as>> :
                      c \in {x \in LgColumns : uses[x] > 0 /\ LgPlace(t, x).as # "merged"}}

\* build_discovery_payload and _is_technical_debt: bare names are no tables; the status
\* of a table and whether it counts as technical debt.
LgStatus(t, chosen) ==
  LET open == LgOpen(t, lgTotal[t].uses)
      rows == LgRowsOf(t, lgTotal[t].uses)
      outside == IF t.schema = "temp" THEN "ephemeral" ELSE "discovered"
  IN CASE t \notin chosen -> outside
       [] lgAsk.mode # "one" -> IF lgAsk.ddl THEN "merged" ELSE "review"
       [] OTHER -> IF lgAsk.ddl /\ rows # {} /\ ~\E o \in open : o[3] = "review"
                   THEN "ready" ELSE "review"
LgInventory(chosen) ==
  {[table |-> t, status |-> LgStatus(t, chosen), queries |-> lgTotal[t].queries,
    debt |-> t.schema = "temp"] : t \in {f \in LgFound : LgDotted(f)}}

LgBlank == [chosen |-> {}, queries |-> 0, rows |-> {}, unmapped |-> {}, open |-> {},
            inventory |-> {}, wrote |-> "nothing"]

\* The report: with a DDL, the merged columns, and the unmapped names with their uses when
\* one table is merged or as open names only when several are; without, the logged names.
LgReportOf(chosen) ==
  LET several == lgAsk.mode \in {"top", "all"}
      sum == LgSum(lgTotal, chosen)
      for == IF chosen = {} THEN LgScope ELSE CHOOSE t \in chosen : TRUE
      parts == IF several THEN {<<t, lgTotal[t].uses>> : t \in chosen} ELSE {<<for, sum.uses>>}
      open == UNION {LgOpen(part[1], part[2]) : part \in parts}
  IN CASE lgAsk.mode = "scan" -> [LgBlank EXCEPT !.queries = Cardinality(LgFound)]
       [] lgAsk.ddl -> [LgBlank EXCEPT
            !.chosen = chosen, !.queries = sum.queries, !.open = open,
            !.rows = UNION {LgRowsOf(part[1], part[2]) : part \in parts},
            !.unmapped = IF several THEN {} ELSE {<<o[2], sum.uses[o[2]]>> : o \in open},
            !.inventory = IF lgAsk.mode = "target" THEN {} ELSE LgInventory(chosen)]
       [] OTHER -> [LgBlank EXCEPT
            !.chosen = chosen, !.queries = sum.queries,
            !.rows = {[table |-> for, column |-> c, uses |-> sum.uses[c]] :
                        c \in {x \in LgColumns : sum.uses[x] > 0}},
            !.inventory = IF lgAsk.mode = "target" THEN {} ELSE LgInventory(chosen)]

LgBuild ==
  /\ lgPc = "report"
  /\ \E chosen \in LgChosen : lgReport' = LgReportOf(chosen)
  /\ lgPc' = "write"
  /\ UNCHANGED <<lgAsk, lgFile, lgPart, lgTotal, lgCount, lgWeight, lgSeen>>

\* The output: a .xlsx path turns the default format into Excel and refuses Markdown, after
\* all the work; without a path the report is printed, an Excel one only as its summary.
LgWrite ==
  /\ lgPc = "write"
  /\ \E format \in {"json", "markdown", "excel"}, out \in {"none", "named", "xlsx"} :
       lgReport' = [lgReport EXCEPT !.wrote =
         CASE lgAsk.mode = "scan" -> "printed"
           [] format = "json" /\ out = "xlsx" -> "excel"
           [] format = "markdown" /\ out = "xlsx" -> "refused"
           [] out = "none" -> IF format = "json" THEN "printed" ELSE "summary"
           [] OTHER -> format]
  /\ lgPc' = "done"
  /\ UNCHANGED <<lgAsk, lgFile, lgPart, lgTotal, lgCount, lgWeight, lgSeen>>

LgInit ==
  /\ lgAsk \in [mode : LgModes, ddl : BOOLEAN] /\ (lgAsk.mode = "scan" => ~lgAsk.ddl)
  /\ lgPc = "read" /\ lgFile = 1 /\ lgPart = LgNoStats /\ lgTotal = LgNoStats
  /\ lgCount = [k \in {"rows", "parsed", "regex", "empty", "env", "unparsed", "crashed"} |-> 0]
  /\ lgWeight = [p \in LgPairs |-> 0] /\ lgSeen = [rec \in LgRecords |-> 0]
  /\ lgReport = LgBlank

LgNext == LgLine \/ LgNextFile \/ LgBuild \/ LgWrite
LgSpec == LgInit /\ [][LgNext]_lgVars

(* Every variable stays in its range. *)
LgTypeOK ==
  /\ lgPc \in {"read", "report", "write", "done", "abort"} /\ lgFile \in 1..(LgFiles + 1)
  /\ \A t \in LgTables : lgPart[t].queries \in Nat /\ lgTotal[t].uses \in [LgColumns -> Nat]
  /\ \A k \in DOMAIN lgCount : lgCount[k] \in Nat
  /\ lgWeight \in [LgPairs -> Nat] /\ lgReport.chosen \subseteq LgTables

\* The uses of a column by the accepted statements, of the tables a run is about.
LgLogged(tables, c) ==
  SumFunction([rec \in LgAccepted |->
                 lgSeen[rec] * Cardinality({t \in tables : <<t, c>> \in rec.uses})])

(* However the lines fall into files, and whatever is merged onto what, a run with a DDL *)
(* loses and doubles no use of a column: the rows of a DDL column carry exactly the uses *)
(* the accepted statements make of the names that are merged onto it, and a name that is *)
(* not merged is kept with its uses, or as an open name when several tables are merged.  *)
LgUsageKept ==
  lgPc \in {"write", "done"} /\ lgAsk.ddl /\ lgReport.chosen # {} =>
    LET several == lgAsk.mode \in {"top", "all"}
        groups == IF several THEN {{t} : t \in lgReport.chosen}
                  ELSE IF lgAsk.mode = "target" THEN {{t \in LgTables : LgMatches(t)}}
                  ELSE {lgReport.chosen}
        Of(g) == IF g \subseteq lgReport.chosen THEN CHOOSE t \in g : TRUE ELSE LgScope
    IN \A g \in groups :
         /\ \A d \in LgDdl[Of(g)] :
              SumFunction([row \in {r \in lgReport.rows : r.table = Of(g) /\ r.column = d} |-> row.uses])
                = SumFunction([c \in LgSources(Of(g), d) |-> LgLogged(g, c)])
         /\ \A c \in LgColumns : LgPlace(Of(g), c).as # "merged" /\ LgLogged(g, c) > 0 =>
              /\ \E o \in lgReport.open : o[1] = Of(g) /\ o[2] = c
              /\ several \/ <<c, LgLogged(g, c)>> \in lgReport.unmapped
====================================================================================
