----------------------------- MODULE SchemaQuery -----------------------------
(***************************************************************************)
(* Questions to the schema providers: which tables a database has, what    *)
(* columns and rows, what plan for a statement. Every question builds a    *)
(* provider from the request and the environment, opens a connection for   *)
(* it alone, and answers a failure with the same empty result as a         *)
(* database without the thing asked for. The databases are external.       *)
(***************************************************************************)
EXTENDS Naturals

CONSTANTS
    SqDatabases, \* databases that a connection string can name
    SqDialect,   \* database -> "sqlserver", "postgres", "oracle" or "db2"
    SqTables,    \* database -> its base tables; "file" -> the keys of the manifest
    SqReadable,  \* manifest keys whose DDL file has columns
    SqUpper,     \* table name -> the name in upper case
    SqEnvs,      \* environments: [mode, string], AMA_SCHEMA_MODE "unset" or a mode
    SqMaxSteps   \* bound: questions, databases lost and found

ASSUME SqAssumption ==
    /\ SqMaxSteps \in Nat
    /\ \A d \in SqDatabases : /\ SqDialect[d] \in {"sqlserver", "postgres", "oracle", "db2"}
                              /\ SqTables[d] \subseteq DOMAIN SqUpper
    /\ SqTables["file"] \subseteq DOMAIN SqUpper

VARIABLES
    sqEnv,    \* the server's environment
    sqUp,     \* databases that can be reached
    sqAnswer, \* the last answer: [op, asked, given, by, of, is]
    sqNamed,  \* history: the database that the fields of the last request name
    sqSteps

sqVars == <<sqEnv, sqUp, sqAnswer, sqNamed, sqSteps>>

SqModes == {SqDialect[d] : d \in SqDatabases}
SqNames == DOMAIN SqUpper

SqInit ==
    /\ sqEnv \in SqEnvs
    /\ sqUp \in SUBSET SqDatabases
    /\ sqAnswer = [op |-> "none", asked |-> "file", given |-> "none",
                   by |-> "file", of |-> "file", is |-> {}]
    /\ sqNamed = "none"
    /\ sqSteps = 0

SqStep == sqSteps < SqMaxSteps /\ sqSteps' = sqSteps + 1

\* The environment's mode goes before the request's; what is no live mode is "file".
SqMode(asked) ==
    LET mode == IF sqEnv.mode = "unset" THEN asked ELSE sqEnv.mode
    IN  IF mode \in SqModes THEN mode ELSE "file"

\* A mutated choice: the environment's connection string goes before the request's too.
SqStringOfServer(given) == IF sqEnv.string # "none" THEN sqEnv.string ELSE given

\* The request's connection string goes before the environment's.
SqString(given) == IF given # "none" THEN given ELSE sqEnv.string

\* A live mode without a connection string is refused.
SqRefused(asked, given) == SqMode(asked) # "file" /\ SqString(given) = "none"

\* The database a provider reads from: none when it is of another kind, or lost.
SqSource(asked, given, up) ==
    LET d == SqString(given)
    IN  IF SqMode(asked) = "file" THEN {"file"}
        ELSE {e \in {d} \cap up : SqDialect[e] = SqMode(asked)}

\* The providers. A question they cannot answer has an empty answer; of an answered ping,
\* the tables behind it, and of a plan, the table of the statement.
SqOps == {"ping", "list", "describe", "sample", "explain"}

\* The manifest's tables: columns from a DDL file, no rows, and every statement is valid.
SqFile(op, name) ==
    CASE op \in {"ping", "list"} -> SqTables["file"]
      [] op = "describe"         -> {name} \cap SqTables["file"] \cap SqReadable
      [] op = "sample"           -> {}
      [] op = "explain"          -> {name}

\* A live database, asked for its columns, its rows and a plan by these names.
SqLive(op, of, column, row, plan) ==
    CASE op \in {"ping", "list"} -> SqTables[of]
      [] op = "describe"         -> {column} \cap SqTables[of]
      [] op = "sample"           -> {row} \cap SqTables[of]
      [] op = "explain"          -> plan \cap SqTables[of]

SqPostgres(op, of, name, text) ==
    SqLive(op, of, name, name, IF text = "blank" THEN {} ELSE {name})

SqServer(op, of, name, text) ==
    SqLive(op, of, name, name, IF text = "blank" THEN {} ELSE {name})

\* Oracle looks every name up in upper case, other than those of a statement.
SqOracle(op, of, name, text) ==
    SqLive(op, of, SqUpper[name], SqUpper[name], IF text = "blank" THEN {} ELSE {name})

\* Db2 reads rows by the name as given, and explains queries only.
SqDb2(op, of, name, text) ==
    SqLive(op, of, SqUpper[name], name, IF text = "query" THEN {name} ELSE {})

SqResult(op, mode, of, name, text) ==
    CASE mode = "file"      -> SqFile(op, name)
      [] mode = "postgres"  -> SqPostgres(op, of, name, text)
      [] mode = "sqlserver" -> SqServer(op, of, name, text)
      [] mode = "oracle"    -> SqOracle(op, of, name, text)
      [] mode = "db2"       -> SqDb2(op, of, name, text)

SqTell(op, asked, given, up, name, text) ==
    sqAnswer' =
        [op |-> IF SqRefused(asked, given) THEN "refused" ELSE op,
         asked |-> asked, given |-> given, by |-> SqMode(asked),
         of |-> IF SqRefused(asked, given) \/ SqSource(asked, given, up) = {} THEN "nobody"
                ELSE CHOOSE d \in SqSource(asked, given, up) : TRUE,
         is |-> IF SqRefused(asked, given) THEN {}
                ELSE UNION {SqResult(op, SqMode(asked), d, name, text) :
                               d \in SqSource(asked, given, up)}]

\* A question of a request with a connection string, or without one.
SqQuestion(op, name, text) ==
    /\ SqStep
    /\ \E asked \in SqModes \cup {"file"}, given \in SqDatabases \cup {"none"} :
          SqTell(op, asked, given, sqUp, name, text)
    /\ sqNamed' = "none"
    /\ UNCHANGED <<sqEnv, sqUp>>

\* POST /discovery/tables, /schema and /sample.
SqAsk == \E op \in {"list", "describe", "sample"}, name \in SqNames : SqQuestion(op, name, "query")

\* GET /connections/health
SqHealth == \E name \in SqNames : SqQuestion("ping", name, "query")

\* POST /connections/explain
SqExplain == \E name \in SqNames, text \in {"query", "write", "blank"} : SqQuestion("explain", name, text)

\* The MCP tools bring no connection string; they list and describe.
SqTool ==
    /\ SqStep
    /\ \E op \in {"list", "describe"}, asked \in SqModes \cup {"file"}, name \in SqNames :
          SqTell(op, asked, "none", sqUp, name, "query")
    /\ sqNamed' = "none"
    /\ UNCHANGED <<sqEnv, sqUp>>

\* The agent's tools ask for "file", and so for what the environment says.
SqAgent ==
    /\ SqStep
    /\ \E op \in {"list", "explain"}, name \in SqNames, text \in {"query", "write", "blank"} :
          SqTell(op, "file", "none", sqUp, name, text)
    /\ sqNamed' = "none"
    /\ UNCHANGED <<sqEnv, sqUp>>

\* The fields of a request name a database of the kind it asks for, all of them or not. A
\* string is made of them, other than for postgres, if none is missing and none is given.
SqCompose(asked, given, named, whole) ==
    IF given = "none" /\ whole /\ asked \in {"sqlserver", "oracle", "db2"} THEN named ELSE given

\* POST /connections/test: a ping, then the list over a second connection. A database lost
\* in between is reported as reached, without tables.
SqTest ==
    /\ SqStep
    /\ \E asked \in SqModes \cup {"file"}, string \in SqDatabases \cup {"none"}, name \in SqNames,
          named \in SqDatabases \cup {"none"}, whole \in BOOLEAN :
          LET given == SqCompose(asked, string, named, whole)
          IN  /\ named # "none" => SqDialect[named] = asked
              /\ sqNamed' = IF string = "none" THEN named ELSE "none"
              /\ IF SqRefused(asked, given) \/ SqSource(asked, given, sqUp) = {}
                 THEN SqTell("ping", asked, given, sqUp, name, "query") /\ UNCHANGED sqUp
                 ELSE /\ sqUp' \in {sqUp, sqUp \ {SqString(given)}}
                      /\ SqTell("list", asked, given, sqUp', name, "query")
    /\ UNCHANGED sqEnv

SqDatabaseTurns ==
    /\ SqStep
    /\ \E d \in SqDatabases : sqUp' = IF d \in sqUp THEN sqUp \ {d} ELSE sqUp \cup {d}
    /\ UNCHANGED <<sqEnv, sqAnswer, sqNamed>>

SqNext == SqAsk \/ SqHealth \/ SqExplain \/ SqTool \/ SqAgent \/ SqTest \/ SqDatabaseTurns

SqSpec == SqInit /\ [][SqNext]_sqVars

(* The variables stay in their ranges. *)
SqTypeOK ==
    /\ sqEnv \in SqEnvs
    /\ sqUp \subseteq SqDatabases
    /\ sqAnswer.by \in SqModes \cup {"file"}
    /\ sqAnswer.of \in SqDatabases \cup {"file", "nobody"}
    /\ sqAnswer.is \subseteq SqNames
    /\ sqNamed \in SqDatabases \cup {"none"}
    /\ sqSteps \in 0..SqMaxSteps

(* A client that brings a connection string, or every field that one is made of, is    *)
(* never shown another database than the one it names, whatever the environment's mode *)
(* and string, and one that brings none never another than the server's: what is not   *)
(* empty was read there, or in the manifest of a server in file mode                   *)
(* (get_schema_provider: "avoids accidentally ignoring request-provided credentials"). *)
SqOwnDatabase ==
    sqAnswer.is # {} =>
        \/ sqAnswer.by = "file" /\ sqAnswer.of = "file"
        \/ sqAnswer.given # "none" /\ sqAnswer.of = sqAnswer.given
        \/ sqAnswer.given = "none" /\ sqAnswer.of = sqEnv.string

(* The same for whatever fields a test names a database with: not true of the code, *)
(* which tests the server's database for postgres, and when a field is missing.     *)
SqFieldsHonoured ==
    sqAnswer.is # {} /\ sqNamed # "none" /\ sqAnswer.by # "file" => sqAnswer.of = sqNamed
=============================================================================
