----------------------------- MODULE AgentProofs -----------------------------
(***************************************************************************)
(* Proofs about the migration agent and what it works with: the approvals  *)
(* of its writes (AgentGate), its tool loop (AgentTurn), the drafts of     *)
(* models (ModelDraft) and the questions to schema providers               *)
(* (SchemaQuery).                                                          *)
(***************************************************************************)
EXTENDS AgentGate, AgentTurn, ModelDraft, SchemaQuery, WellFoundedInduction, TLAPS

-----------------------------------------------------------------------------
(* AgentGate *)

GtPendings == [is : BOOLEAN, text : GtTexts, held : BOOLEAN, other : GtTexts]

\* The types of the approvals, with the shapes of their records.
GtTyped ==
    /\ gtPending \in GtPendings
    /\ gtEdit \in BOOLEAN
    /\ gtFile \in [door : {"none", "tab", "api"}, text : GtTexts]
    /\ gtTested \in {"no", "testing"}
    /\ gtBlind \in BOOLEAN

\* What the user was shown covers what waits and what the dashboard has written.
GtShown(text) == text.refs # {} /\ text.refs \subseteq gtNamed

\* A test follows a write of the dashboard. As long as every text could be parsed, what
\* waits has been shown, and of a correction that is held back the relations are known.
GtSeen ==
    /\ gtTested = "testing" => gtFile.door = "tab"
    /\ ~gtBlind =>
          /\ gtPending.is => GtShown(gtPending.text)
          /\ gtPending.held => gtPending.other.refs # {}
          /\ gtFile.door = "tab" => GtShown(gtFile.text)

GtInv == GtTyped /\ GtSeen

LEMMA GtTextsAreRecords ==
    /\ GtNoText \in GtTexts
    /\ \A t \in GtTexts : t.fault \in BOOLEAN /\ t.filter \in BOOLEAN
BY DEF GtTexts, GtNoText

LEMMA GtPendingsAreMade ==
    /\ GtNone \in GtPendings
    /\ \A t \in GtTexts : GtWaiting(t) \in GtPendings
BY GtTextsAreRecords DEF GtPendings, GtNone, GtWaiting

\* The approvals keep their types.
LEMMA GtTypes == GtTyped /\ [GtNext]_gtVars => GtTyped'
<1>. SUFFICES ASSUME GtTyped, [GtNext]_gtVars
              PROVE  GtTyped'
  OBVIOUS
<1>. USE DEF GtTyped
<1>1. CASE GtPropose
  BY <1>1, GtPendingsAreMade DEF GtPropose
<1>2. CASE GtEditMode
  BY <1>2 DEF GtEditMode
<1>3. CASE GtApprove
  <2>1. \A t \in IF gtEdit THEN GtTexts ELSE {gtPending.text} : t \in GtTexts
    BY DEF GtPendings
  <2>2. PICK t \in GtTexts :
           IF GtRefused(gtPending.text, t)
           THEN gtEdit' = TRUE /\ UNCHANGED <<gtPending, gtFile, gtTested, gtBlind>>
           ELSE /\ gtFile' = [door |-> "tab", text |-> t]
                /\ gtTested' = "testing"
                /\ gtPending' = GtNone
                /\ gtEdit' = FALSE
                /\ gtBlind' = (gtBlind \/ t.refs = {})
    BY <1>3, <2>1 DEF GtApprove
  <2>3. CASE GtRefused(gtPending.text, t)
    BY <2>2, <2>3
  <2>4. CASE ~GtRefused(gtPending.text, t)
    <3>1. gtPending' \in GtPendings
      BY <2>2, <2>4, GtPendingsAreMade
    <3>2. gtFile' = [door |-> "tab", text |-> t] /\ gtTested' = "testing" /\ gtEdit' = FALSE
      BY <2>2, <2>4
    <3>3. gtBlind' \in BOOLEAN
      BY <2>2, <2>4
    <3>. QED BY <3>1, <3>2, <3>3
  <2>. QED BY <2>3, <2>4
<1>4. CASE GtTestPassed
  BY <1>4 DEF GtTestPassed
<1>5. CASE GtTestFailed
  <2>1. ASSUME NEW t \in GtTexts
        PROVE  /\ GtWaiting(t) \in GtPendings
               /\ [GtWaiting(gtFile.text) EXCEPT !.held = TRUE, !.other = t] \in GtPendings
    BY DEF GtPendings, GtWaiting, GtNoText, GtTexts
  <2>. QED BY <1>5, <2>1 DEF GtTestFailed
<1>6. CASE GtConsent
  <2>1. gtPending.other \in GtTexts
    BY DEF GtPendings
  <2>. QED BY <1>6, <2>1, GtPendingsAreMade DEF GtConsent
<1>7. CASE GtSkip
  BY <1>7, GtPendingsAreMade DEF GtSkip
<1>8. CASE GtApiApprove
  <2>1. gtPending.text \in GtTexts
    BY DEF GtPendings
  <2>. QED BY <1>8, <2>1, GtPendingsAreMade DEF GtApiApprove
<1>9. CASE UNCHANGED gtVars
  BY <1>9 DEF gtVars
<1>. QED BY <1>1, <1>2, <1>3, <1>4, <1>5, <1>6, <1>7, <1>8, <1>9 DEF GtNext

\* Every step of the approvals keeps the invariant.
LEMMA GtStep == GtInv /\ [GtNext]_gtVars => GtInv'
<1>. SUFFICES ASSUME GtInv, [GtNext]_gtVars
              PROVE  GtSeen'
  BY GtTypes DEF GtInv
<1>. USE DEF GtInv, GtTyped, GtSeen, GtShown
<1>1. CASE GtPropose
  <2>1. gtTested' = "no" /\ UNCHANGED gtFile
    BY <1>1 DEF GtPropose
  <2>2. PICK t \in GtTexts : /\ gtPending' = GtWaiting(t)
                             /\ gtNamed' = gtNamed \cup t.refs
                             /\ gtBlind' = (gtBlind \/ t.refs = {})
    BY <1>1 DEF GtPropose
  <2>3. gtPending'.text = t /\ ~gtPending'.held
    BY <2>2 DEF GtWaiting
  <2>. QED BY <2>1, <2>2, <2>3
<1>2. CASE GtEditMode
  BY <1>2 DEF GtEditMode
<1>3. CASE GtApprove
  <2>1. PICK t \in IF gtEdit THEN GtTexts ELSE {gtPending.text} :
           IF GtRefused(gtPending.text, t)
           THEN UNCHANGED <<gtPending, gtFile, gtTested, gtBlind>>
           ELSE /\ gtFile' = [door |-> "tab", text |-> t]
                /\ gtTested' = "testing"
                /\ gtPending' = GtNone
                /\ gtBlind' = (gtBlind \/ t.refs = {})
    BY <1>3 DEF GtApprove
  <2>2. gtPending.is /\ gtNamed' = gtNamed
    BY <1>3 DEF GtApprove
  <2>3. CASE GtRefused(gtPending.text, t)
    BY <2>1, <2>2, <2>3
  <2>4. CASE ~GtRefused(gtPending.text, t)
    <3>1. ~gtBlind' => GtShown(t)
      BY <2>1, <2>2, <2>4 DEF GtRefused, GtMoved
    <3>2. ~gtPending'.is /\ ~gtPending'.held
      BY <2>1, <2>4 DEF GtNone
    <3>3. gtFile' = [door |-> "tab", text |-> t]
      BY <2>1, <2>4
    <3>. QED BY <2>2, <3>1, <3>2, <3>3
  <2>. QED BY <2>3, <2>4
<1>4. CASE GtTestPassed
  BY <1>4 DEF GtTestPassed
<1>5. CASE GtTestFailed
  <2>1. gtTested = "testing" /\ gtTested' = "no" /\ UNCHANGED <<gtFile, gtNamed>>
    BY <1>5 DEF GtTestFailed
  <2>2. CASE UNCHANGED <<gtPending, gtLeft, gtBlind>>
    BY <2>1, <2>2
  <2>3. ASSUME NEW t \in GtTexts,
               gtPending' = IF GtMoved(gtFile.text, t)
                            THEN [GtWaiting(gtFile.text) EXCEPT !.held = TRUE, !.other = t]
                            ELSE GtWaiting(t),
               gtBlind' = (gtBlind \/ t.refs = {})
        PROVE  ~gtBlind' => /\ gtPending'.is => GtShown(gtPending'.text)
                            /\ gtPending'.held => gtPending'.other.refs # {}
    BY <2>1, <2>3 DEF GtMoved, GtWaiting
  <2>4. ASSUME NEW t \in GtTexts, gtBlind' = (gtBlind \/ t.refs = {})
        PROVE  ~gtBlind' /\ gtFile'.door = "tab" => GtShown(gtFile'.text)
    BY <2>1, <2>4
  <2>. QED BY <1>5, <2>1, <2>2, <2>3, <2>4 DEF GtTestFailed
<1>6. CASE GtConsent
  <2>1. /\ gtPending.held /\ gtPending.other \in GtTexts
        /\ gtPending' = GtWaiting(gtPending.other)
        /\ gtNamed' = gtNamed \cup gtPending.other.refs
        /\ UNCHANGED <<gtFile, gtTested, gtBlind>>
    BY <1>6 DEF GtConsent, GtPendings, GtTyped
  <2>2. gtPending'.text = gtPending.other /\ ~gtPending'.held
    BY <2>1 DEF GtWaiting
  <2>. QED BY <2>1, <2>2
<1>7. CASE GtSkip
  BY <1>7 DEF GtSkip, GtNone
<1>8. CASE GtApiApprove
  <2>1. /\ \E t \in GtTexts : gtFile' = [door |-> "api", text |-> t]
        /\ gtPending' \in {gtPending, GtNone}
        /\ UNCHANGED <<gtTested, gtNamed, gtBlind>>
        /\ gtTested = "no"
    BY <1>8 DEF GtApiApprove, GtPendings, GtTyped
  <2>. QED BY <2>1 DEF GtNone
<1>9. CASE UNCHANGED gtVars
  BY <1>9 DEF gtVars
<1>. QED BY <1>1, <1>2, <1>3, <1>4, <1>5, <1>6, <1>7, <1>8, <1>9 DEF GtNext

LEMMA GtInitInv == GtInit => GtInv
<1>. HAVE GtInit
<1>1. GtTyped
  <2>1. gtPending \in GtPendings
    BY GtPendingsAreMade DEF GtInit
  <2>2. gtFile \in [door : {"none", "tab", "api"}, text : GtTexts]
    BY GtTextsAreRecords DEF GtInit
  <2>3. gtEdit \in BOOLEAN /\ gtBlind \in BOOLEAN /\ gtTested \in {"no", "testing"}
    BY DEF GtInit
  <2>. QED BY <2>1, <2>2, <2>3 DEF GtTyped
<1>. QED BY <1>1 DEF GtInit, GtInv, GtSeen, GtNone

\* Through any number of proposals, edits, failed tests and corrections, over any tables,
\* the dashboard writes no model that reads a table the user was not asked about, as long
\* as every text it compared could be parsed.
THEOREM GtLineageKeptHolds == GtSpec => []GtLineageKept
<1>1. GtInv => GtLineageKept
  BY DEF GtInv, GtSeen, GtShown, GtLineageKept
<1>. QED BY <1>1, GtInitInv, GtStep, PTL DEF GtSpec

\* The types of the approvals, for any tables and number of texts (AgentGate).
THEOREM GtTypesHold == GtSpec => []GtTypeOK
<1>1. GtInv => GtTypeOK
  BY DEF GtInv, GtTyped, GtPendings, GtTypeOK
<1>. QED BY <1>1, GtInitInv, GtStep, PTL DEF GtSpec

-----------------------------------------------------------------------------
(* SchemaQuery *)

\* What is told is an answer of the one database that was asked.
LEMMA SqTold ==
    ASSUME NEW op, NEW asked, NEW given, NEW up, NEW name, NEW text,
           SqTell(op, asked, given, up, name, text), UNCHANGED sqEnv
    PROVE  SqOwnDatabase'
<1>1. /\ sqAnswer'.given = given /\ sqAnswer'.by = SqMode(asked)
      /\ SqRefused(asked, given) \/ SqSource(asked, given, up) = {} => sqAnswer'.is = {}
      /\ ~SqRefused(asked, given) /\ SqSource(asked, given, up) # {} =>
            sqAnswer'.of \in SqSource(asked, given, up)
  BY DEF SqTell
<1>2. SqMode(asked) = "file" => SqSource(asked, given, up) = {"file"}
  BY DEF SqSource
<1>3. SqMode(asked) # "file" => SqSource(asked, given, up) \subseteq {SqString(given)}
  BY DEF SqSource
<1>4. SqString(given) = IF given # "none" THEN given ELSE sqEnv.string
  BY DEF SqString
<1>. QED BY <1>1, <1>2, <1>3, <1>4 DEF SqOwnDatabase

\* Whatever the environment's mode and string, whoever asks, for any set of databases and
\* tables, what is not empty was read from the database of the request or, without one, of
\* the server, or from the manifest of a server in file mode.
THEOREM SqOwnDatabaseHolds == SqSpec => []SqOwnDatabase
<1>1. SqInit => SqOwnDatabase
  BY DEF SqInit, SqOwnDatabase
<1>2. SqOwnDatabase /\ [SqNext]_sqVars => SqOwnDatabase'
  <2>. SUFFICES ASSUME SqOwnDatabase, [SqNext]_sqVars
                PROVE  SqOwnDatabase'
    OBVIOUS
  <2>1. ASSUME NEW op, NEW name, NEW text, SqQuestion(op, name, text)
        PROVE  SqOwnDatabase'
    BY <2>1, SqTold DEF SqQuestion
  <2>7. CASE SqAsk \/ SqHealth \/ SqExplain
    BY <2>1, <2>7 DEF SqAsk, SqHealth, SqExplain
  <2>2. CASE SqTool
    BY <2>2, SqTold DEF SqTool
  <2>3. CASE SqAgent
    BY <2>3, SqTold DEF SqAgent
  <2>4. CASE SqTest
    <3>1. PICK asked \in SqModes \cup {"file"}, string \in SqDatabases \cup {"none"}, name \in SqNames,
             named \in SqDatabases \cup {"none"}, whole \in BOOLEAN :
            LET given == SqCompose(asked, string, named, whole)
            IN  IF SqRefused(asked, given) \/ SqSource(asked, given, sqUp) = {}
                THEN SqTell("ping", asked, given, sqUp, name, "query") /\ UNCHANGED sqUp
                ELSE /\ sqUp' \in {sqUp, sqUp \ {SqString(given)}}
                     /\ SqTell("list", asked, given, sqUp', name, "query")
      BY <2>4 DEF SqTest
    <3>2. PICK given : \/ SqTell("ping", asked, given, sqUp, name, "query")
                    \/ SqTell("list", asked, given, sqUp', name, "query")
      BY <3>1, Zenon
    <3>. QED BY <2>4, <3>2, SqTold DEF SqTest
  <2>5. CASE SqDatabaseTurns
    BY <2>5 DEF SqDatabaseTurns, SqOwnDatabase
  <2>6. CASE UNCHANGED sqVars
    BY <2>6 DEF sqVars, SqOwnDatabase
  <2>. QED BY <2>2, <2>3, <2>4, <2>5, <2>6, <2>7 DEF SqNext
<1>. QED BY <1>1, <1>2, PTL DEF SqSpec

\* The tables of a database and of the manifest have names that can be written in upper case.
LEMMA SqResults ==
    ASSUME NEW op \in SqOps, NEW mode, NEW d \in SqDatabases \cup {"file"}, NEW name \in SqNames, NEW text,
           mode \in {"file", "postgres", "sqlserver", "oracle", "db2"},
           mode # "file" => d \in SqDatabases
    PROVE  SqResult(op, mode, d, name, text) \subseteq SqNames
<1>1. SqTables["file"] \subseteq SqNames /\ \A e \in SqDatabases : SqTables[e] \subseteq SqNames
  BY SqAssumption DEF SqNames
<1>2. mode = "file" => SqFile(op, name) \subseteq SqNames
  BY <1>1 DEF SqFile, SqOps
<1>3. ASSUME NEW column, NEW row, NEW plan, d \in SqDatabases
      PROVE  SqLive(op, d, column, row, plan) \subseteq SqNames
  BY <1>1, <1>3 DEF SqLive, SqOps
<1>. QED BY <1>2, <1>3 DEF SqResult, SqPostgres, SqServer, SqOracle, SqDb2

\* An answer is of the kind of a database, from one that exists, and of its tables.
SqAnswered ==
    /\ sqAnswer.by \in SqModes \cup {"file"}
    /\ sqAnswer.of \in SqDatabases \cup {"file", "nobody"}
    /\ sqAnswer.is \subseteq SqNames

LEMMA SqToldTypes ==
    ASSUME NEW op \in SqOps, NEW asked, NEW given, NEW up \in SUBSET SqDatabases,
           NEW name \in SqNames, NEW text, SqTell(op, asked, given, up, name, text)
    PROVE  SqAnswered'
<1>1. SqMode(asked) \in SqModes \cup {"file"}
  BY DEF SqMode
<1>2. SqMode(asked) \in {"file", "postgres", "sqlserver", "oracle", "db2"}
  BY <1>1, SqAssumption DEF SqModes
<1>3. ASSUME NEW d \in SqSource(asked, given, up)
      PROVE  d \in SqDatabases \cup {"file"} /\ (SqMode(asked) # "file" => d \in SqDatabases)
  BY <1>3 DEF SqSource
<1>4. \A d \in SqSource(asked, given, up) : SqResult(op, SqMode(asked), d, name, text) \subseteq SqNames
  BY <1>2, <1>3, SqResults
<1>5. sqAnswer'.by = SqMode(asked)
  BY DEF SqTell
<1>6. sqAnswer'.of = "nobody" \/ sqAnswer'.of \in SqSource(asked, given, up)
  BY DEF SqTell
<1>7. sqAnswer'.is \subseteq SqNames
  <2>1. sqAnswer'.is = {} \/ sqAnswer'.is = UNION {SqResult(op, SqMode(asked), d, name, text) :
                                                     d \in SqSource(asked, given, up)}
    BY DEF SqTell
  <2>. QED BY <1>4, <2>1
<1>. QED BY <1>1, <1>3, <1>5, <1>6, <1>7 DEF SqAnswered

\* The types of the questions, for any databases, names and environments (SchemaQuery).
THEOREM SqTypesHold == SqSpec => []SqTypeOK
<1>1. SqInit => SqTypeOK
  BY SqAssumption DEF SqInit, SqTypeOK
<1>2. SqTypeOK /\ [SqNext]_sqVars => SqTypeOK'
  <2>. SUFFICES ASSUME SqTypeOK, [SqNext]_sqVars
                PROVE  SqTypeOK'
    OBVIOUS
  <2>1. CASE UNCHANGED sqVars
    BY <2>1 DEF sqVars, SqTypeOK
  <2>2. SqNext => UNCHANGED sqEnv /\ sqSteps' \in 0..SqMaxSteps
    BY SqAssumption DEF SqNext, SqAsk, SqHealth, SqExplain, SqQuestion, SqTool, SqAgent, SqTest,
                        SqDatabaseTurns, SqStep, SqTypeOK
  <2>9. SqNext => sqNamed' \in SqDatabases \cup {"none"}
    BY DEF SqNext, SqAsk, SqHealth, SqExplain, SqQuestion, SqTool, SqAgent, SqTest,
           SqDatabaseTurns, SqTypeOK
  <2>3. sqUp \in SUBSET SqDatabases
    BY DEF SqTypeOK
  <2>10. ASSUME NEW op \in SqOps, NEW name \in SqNames, NEW text, SqQuestion(op, name, text)
         PROVE  SqAnswered' /\ UNCHANGED sqUp
    BY <2>3, <2>10, SqToldTypes DEF SqQuestion
  <2>4. CASE SqAsk \/ SqHealth \/ SqExplain
    <3>1. SqAnswered' /\ UNCHANGED sqUp
      BY <2>4, <2>10 DEF SqAsk, SqHealth, SqExplain, SqOps
    <3>. QED BY <2>2, <2>4, <2>9, <3>1 DEF SqNext, SqAnswered, SqTypeOK
  <2>5. CASE SqTool
    <3>1. SqAnswered' /\ UNCHANGED sqUp
      BY <2>3, <2>5, SqToldTypes DEF SqTool, SqOps
    <3>. QED BY <2>2, <2>5, <2>9, <3>1 DEF SqNext, SqAnswered, SqTypeOK
  <2>6. CASE SqAgent
    <3>1. SqAnswered' /\ UNCHANGED sqUp
      BY <2>3, <2>6, SqToldTypes DEF SqAgent, SqOps
    <3>. QED BY <2>2, <2>6, <2>9, <3>1 DEF SqNext, SqAnswered, SqTypeOK
  <2>7. CASE SqTest
    <3>1. sqUp' \in SUBSET SqDatabases
      BY <2>3, <2>7 DEF SqTest
    <3>2. SqAnswered'
      <4>1. PICK asked \in SqModes \cup {"file"}, string \in SqDatabases \cup {"none"}, name \in SqNames,
               named \in SqDatabases \cup {"none"}, whole \in BOOLEAN :
              LET given == SqCompose(asked, string, named, whole)
              IN  IF SqRefused(asked, given) \/ SqSource(asked, given, sqUp) = {}
                  THEN SqTell("ping", asked, given, sqUp, name, "query") /\ UNCHANGED sqUp
                  ELSE /\ sqUp' \in {sqUp, sqUp \ {SqString(given)}}
                       /\ SqTell("list", asked, given, sqUp', name, "query")
        BY <2>7 DEF SqTest
      <4>2. PICK given : \/ SqTell("ping", asked, given, sqUp, name, "query")
                      \/ SqTell("list", asked, given, sqUp', name, "query")
        BY <4>1, Zenon
      <4>. QED BY <2>3, <3>1, <4>2, SqToldTypes DEF SqOps
    <3>. QED BY <2>2, <2>7, <2>9, <3>1, <3>2 DEF SqNext, SqAnswered, SqTypeOK
  <2>8. CASE SqDatabaseTurns
    <3>1. sqUp' \subseteq SqDatabases /\ UNCHANGED sqAnswer
      BY <2>3, <2>8 DEF SqDatabaseTurns
    <3>. QED BY <2>2, <2>8, <2>9, <3>1 DEF SqNext, SqTypeOK
  <2>. QED BY <2>1, <2>4, <2>5, <2>6, <2>7, <2>8 DEF SqNext
<1>. QED BY <1>1, <1>2, PTL DEF SqSpec

-----------------------------------------------------------------------------
(* AgentTurn *)

AgLogs == [len : Nat, system : {0, 1}, ask : Nat, waves : Nat]
AgTurns == [pc : {"idle", "model", "continue"}, step : Nat, back : Nat, continue : BOOLEAN]

AgTyped == agLog \in AgLogs /\ agTurn \in AgTurns

\* The question of a turn is one more message back than the turn has taken steps, and in
\* the history before it is cut; what continues an approval has no question.
AgInv ==
    /\ AgTyped
    /\ agHeard
    /\ agTurn.pc = "model" =>
          /\ agTurn.step < AgSteps
          /\ agTurn.back # 0 => agTurn.back = agTurn.step + 1
          /\ agTurn.back <= agLog.len

LEMMA AgAppendedTyped ==
    ASSUME NEW log \in AgLogs, NEW n \in Nat
    PROVE  /\ AgAppended(log, n) \in AgLogs
           /\ AgAppended(log, n).len = log.len + n
<1>. DEFINE ask == AgAged(log.ask, n)
            waves == AgAged(log.waves, n)
            len == log.len + n
<1>1. len \in Nat /\ ask \in Nat /\ waves \in Nat
  <2>1. log.len \in Nat /\ log.ask \in Nat /\ log.waves \in Nat
    BY DEF AgLogs
  <2>. QED BY <2>1 DEF AgAged
<1>2. AgAppended(log, n) = [log EXCEPT !.len = len, !.ask = ask, !.waves = waves]
  BY DEF AgAppended
<1>3. AgAppended(log, n).len = len
  BY <1>2 DEF AgLogs
<1>. HIDE DEF len, ask, waves
<1>4. AgAppended(log, n) \in AgLogs
  BY <1>1, <1>2 DEF AgLogs
<1>. QED BY <1>3, <1>4 DEF len

\* The cut leaves the last AgKeep messages, or all of them.
LEMMA AgCutTyped ==
    ASSUME NEW log \in AgLogs
    PROVE  /\ AgCut(log) \in AgLogs
           /\ AgCut(log).len = log.len \/ (AgKeep <= AgCut(log).len /\ AgCut(log).len <= log.len)
<1>1. CASE log.len + log.system <= AgKeep + 1
  BY <1>1 DEF AgCut, AgLogs
<1>2. CASE ~(log.len + log.system <= AgKeep + 1)
  <2>. DEFINE len == IF log.len > AgKeep THEN AgKeep ELSE log.len
              ask == IF log.ask > AgKeep THEN 0 ELSE log.ask
              waves == IF log.waves > AgKeep THEN 0 ELSE log.waves
  <2>1. AgCut(log) = [log EXCEPT !.len = len, !.ask = ask, !.waves = waves]
    BY <1>2 DEF AgCut
  <2>2. len \in Nat /\ ask \in Nat /\ waves \in Nat /\ (len = log.len \/ (AgKeep <= len /\ len <= log.len))
    BY AgAssumption DEF AgLogs
  <2>. HIDE DEF len, ask, waves
  <2>. QED BY <2>1, <2>2 DEF AgLogs
<1>. QED BY <1>1, <1>2

LEMMA AgAfterTurnTyped ==
    agTurn \in AgTurns => AgAfterTurn \in AgTurns /\ AgAfterTurn.pc # "model"
BY DEF AgAfterTurn, AgIdle, AgTurns

\* A step of the loop puts at most one message behind the question.
LEMMA AgLooped ==
    ASSUME NEW log \in AgLogs, AgLoop(log), AgInv,
           agTurn.pc = "model", agHeard', agTurn.back + 1 <= log.len
    PROVE  AgInv'
<1>1. CASE agTurn.step + 1 < AgSteps
  <2>. DEFINE back == AgAged(agTurn.back, 1)
              step == agTurn.step + 1
  <2>1. agLog' = log /\ agTurn' = [agTurn EXCEPT !.step = step, !.back = back]
    BY <1>1 DEF AgLoop
  <2>2. step \in Nat /\ step < AgSteps
    BY <1>1 DEF AgInv, AgTyped, AgTurns
  <2>3. back \in Nat /\ (back # 0 => back = step + 1) /\ back <= log.len
    BY DEF AgInv, AgTyped, AgTurns, AgAged, AgLogs
  <2>. HIDE DEF back, step
  <2>4. AgTyped'
    BY <2>1, <2>2, <2>3 DEF AgInv, AgTyped, AgTurns
  <2>. QED BY <2>1, <2>2, <2>3, <2>4 DEF AgInv, AgTyped, AgTurns
<1>2. CASE ~(agTurn.step + 1 < AgSteps)
  <2>1. agLog' = AgAppended(log, 1) /\ agTurn' = AgAfterTurn
    BY <1>2 DEF AgLoop
  <2>. QED BY <2>1, AgAppendedTyped, AgAfterTurnTyped DEF AgInv, AgTyped
<1>. QED BY <1>1, <1>2

\* Every step of the conversation keeps the invariant when the history that is kept is
\* as long as a turn can be.
LEMMA AgStep ==
    ASSUME AgSteps <= AgKeep, AgInv, [AgNext]_agVars
    PROVE  AgInv'
<1>. USE DEF AgInv
<1>a. /\ AgAppended(agLog, 1) \in AgLogs /\ AgAppended(agLog, 1).len = agLog.len + 1
      /\ AgAppended(agLog, 2) \in AgLogs /\ AgAppended(agLog, 2).len = agLog.len + 2
      /\ \A n \in 0..3 : AgAppended(agLog, n) \in AgLogs
  BY AgAppendedTyped DEF AgTyped
<1>b. agTurn.step \in Nat /\ agTurn.back \in Nat /\ agLog.len \in Nat
  BY DEF AgTyped, AgTurns, AgLogs
<1>c. AgAfterTurn \in AgTurns /\ AgAfterTurn.pc # "model"
  BY AgAfterTurnTyped DEF AgTyped
<1>0. AgIdle \in AgTurns /\ AgIdle.pc = "idle"
  BY DEF AgIdle, AgTurns
<1>1. CASE AgAsk
  <2>1. agLog' \in AgLogs /\ agLog'.len >= 1
    <3>1. CASE agLog' = AgAppended(agLog, 1)
      BY <1>a, <1>b, <3>1
    <3>2. CASE agLog' = [AgAppended(agLog, 1) EXCEPT !.ask = 1]
      <4>1. PICK text \in AgLogs : text = AgAppended(agLog, 1)
        BY <1>a
      <4>2. agLog' = [text EXCEPT !.ask = 1]
        BY <3>2, <4>1, Zenon
      <4>3. agLog' \in AgLogs /\ agLog'.len = text.len
        BY <4>2 DEF AgLogs
      <4>. QED BY <1>a, <1>b, <4>1, <4>3
    <3>. QED BY <1>1, <3>1, <3>2 DEF AgAsk
  <2>2. agTurn' = [pc |-> "model", step |-> 0, back |-> 1, continue |-> FALSE] /\ agHeard'
    BY <1>1 DEF AgAsk, AgIdle
  <2>3. agTurn' \in AgTurns
    BY <2>2 DEF AgTurns
  <2>. QED BY <2>1, <2>2, <2>3, AgAssumption DEF AgTyped
<1>2. CASE AgModel
  <2>. DEFINE log == AgCut(agLog)
  <2>1. /\ agTurn.pc = "model"
        /\ agHeard' = (agHeard /\ agTurn.back <= log.len)
        /\ AgReply(log) \/ AgLoop(AgAppended(log, 1)) \/ AgTool(log)
    BY <1>2 DEF AgModel
  <2>2. log \in AgLogs /\ agTurn.back <= log.len
    <3>1. log \in AgLogs /\ (log.len = agLog.len \/ (AgKeep <= log.len /\ log.len <= agLog.len))
      BY AgCutTyped DEF AgTyped
    <3>2. log.len \in Nat
      BY <3>1 DEF AgLogs
    <3>. QED BY <1>b, <2>1, <3>1, <3>2, AgAssumption
  <2>. HIDE DEF log
  <2>3. agHeard' /\ AgAppended(log, 1) \in AgLogs /\ AgAppended(log, 1).len = log.len + 1
    BY <2>1, <2>2, AgAppendedTyped
  <2>4. CASE AgReply(log)
    BY <1>c, <2>3, <2>4 DEF AgReply, AgTyped
  <2>5. CASE AgLoop(AgAppended(log, 1))
    <3>1. agTurn.back + 1 <= AgAppended(log, 1).len
      BY <2>2, <2>3 DEF AgTyped, AgTurns, AgLogs
    <3>. QED BY <2>1, <2>3, <2>5, <3>1, AgLooped
  <2>6. CASE AgTool(log)
    <3>1. CASE agLog' = AgAppended(log, 1) /\ agTurn' = AgAfterTurn
      BY <1>c, <2>3, <3>1 DEF AgTyped
    <3>2. ASSUME NEW waves \in {AgAged(log.waves, 1), 1},
                 AgLoop([AgAppended(log, 1) EXCEPT !.waves = waves])
          PROVE  AgInv'
      <4>1. waves \in Nat
        <5>1. log.waves \in Nat
          BY <2>2 DEF AgLogs
        <5>. QED BY <5>1 DEF AgAged
      <4>2. PICK text \in AgLogs : text = AgAppended(log, 1)
        BY <2>3
      <4>3. /\ [text EXCEPT !.waves = waves] \in AgLogs
            /\ [text EXCEPT !.waves = waves].len = log.len + 1
        BY <4>1, <4>2, <2>3 DEF AgLogs
      <4>4. agTurn.back + 1 <= [text EXCEPT !.waves = waves].len
        BY <2>2, <4>3 DEF AgTyped, AgTurns, AgLogs
      <4>. QED BY <2>1, <2>3, <3>2, <4>2, <4>3, <4>4, AgLooped
    <3>. QED BY <2>6, <3>1, <3>2 DEF AgTool
  <2>. QED BY <2>1, <2>4, <2>5, <2>6
<1>3. CASE AgNoKey
  BY <1>a, <1>c, <1>3 DEF AgNoKey, AgReply, AgTyped
<1>4. CASE AgApprovePassed
  <2>1. PICK edited \in {0, 1} : agLog' = AgAppended(agLog, edited + 1)
    BY <1>4 DEF AgApprovePassed
  <2>2. agTurn' = [pc |-> "model", step |-> 0, back |-> 0, continue |-> TRUE] /\ agHeard'
    BY <1>4 DEF AgApprovePassed, AgIdle
  <2>3. agTurn' \in AgTurns /\ agLog' \in AgLogs
    BY <1>a, <2>1, <2>2 DEF AgTurns
  <2>4. agLog'.len \in Nat
    BY <2>3 DEF AgLogs
  <2>. QED BY <2>2, <2>3, <2>4, AgAssumption DEF AgTyped
<1>5. CASE AgApproveFailed
  BY <1>5, <1>a, <1>b DEF AgApproveFailed, AgTyped
<1>6. CASE AgSkip
  <2>1. /\ agLog' = AgAppended(agLog, 1) /\ agHeard'
        /\ agTurn' = [pc |-> "model", step |-> 0, back |-> 0, continue |-> FALSE]
    BY <1>6 DEF AgSkip, AgIdle
  <2>2. agTurn' \in AgTurns
    BY <2>1 DEF AgTurns
  <2>. QED BY <1>a, <1>b, <2>1, <2>2, AgAssumption DEF AgTyped
<1>7. CASE AgContinue
  <2>1. agTurn' = AgIdle /\ agHeard' = agHeard
    BY <1>7 DEF AgContinue
  <2>2. agLog' \in AgLogs
    BY <1>7, <1>a DEF AgContinue, AgTyped
  <2>. QED BY <1>0, <2>1, <2>2 DEF AgTyped
<1>8. CASE AgClear
  BY <1>8 DEF AgClear, AgTyped, AgLogs
<1>9. CASE UNCHANGED agVars
  BY <1>9 DEF agVars, AgTyped
<1>. QED BY <1>1, <1>2, <1>3, <1>4, <1>5, <1>6, <1>7, <1>8, <1>9 DEF AgNext

\* For any number of waves, tables, steps and messages: when no more steps are allowed
\* than messages are kept (12 and 14 in the code), the model has the question before it at
\* every step of every turn.
THEOREM AgQuestionSeenHolds ==
    ASSUME AgSteps <= AgKeep
    PROVE  AgSpec => []AgQuestionSeen
<1>1. AgInit => AgInv
  BY AgAssumption DEF AgInit, AgInv, AgTyped, AgLogs, AgTurns, AgIdle
<1>2. AgInv /\ [AgNext]_agVars => AgInv'
  BY AgStep
<1>3. AgInv => AgQuestionSeen
  BY DEF AgInv, AgQuestionSeen
<1>. QED BY <1>1, <1>2, <1>3, PTL DEF AgSpec

\* Of any tables one comes first.
LEMMA AgFirst ==
    ASSUME NEW S \in SUBSET Nat, S # {}
    PROVE  \E t \in S : \A u \in S : t <= u
<1>1. PICK R : R = {p \in Nat \X Nat : p[1] < p[2]}
  OBVIOUS
<1>2. IsWellFoundedOn(R, Nat)
  BY <1>1, NatLessThanWellFounded, Zenon DEF OpToRel
<1>3. PICK t \in S : \A u \in S : <<u, t>> \notin R
  BY <1>2, WFMin, Zenon
<1>4. ASSUME NEW u \in S, u < t PROVE <<u, t>> \in R
  BY <1>1, <1>4
<1>5. \A u \in S : ~(u < t)
  BY <1>3, <1>4
<1>. QED BY <1>5

\* The known messages are in the history, and one that names a wave names one there is.
AgSound(log, wave) ==
    /\ log \in AgLogs
    /\ log.ask <= log.len /\ log.waves <= log.len
    /\ log.ask # 0 => wave \in AgWaves

AgPlaced ==
    /\ AgSound(agLog, agWave)
    /\ agTurn \in AgTurns /\ agTurn.step < AgSteps
    /\ agPending \in AgAll \cup {AgNoTable}
    /\ agDone \subseteq AgAll

LEMMA AgAppendedSound ==
    ASSUME NEW wave, NEW log, AgSound(log, wave), NEW n \in Nat
    PROVE  AgSound(AgAppended(log, n), wave) /\ AgAppended(log, n).len = log.len + n
<1>. DEFINE ask == AgAged(log.ask, n)
            waves == AgAged(log.waves, n)
            len == log.len + n
<1>0. log.len \in Nat /\ log.ask \in Nat /\ log.waves \in Nat
  BY DEF AgLogs, AgSound
<1>1. len \in Nat /\ ask \in Nat /\ waves \in Nat /\ ask <= len /\ waves <= len
      /\ (ask # 0 => log.ask # 0)
  BY <1>0 DEF AgAged, AgSound
<1>2. AgAppended(log, n) = [log EXCEPT !.len = len, !.ask = ask, !.waves = waves]
  BY DEF AgAppended
<1>3. AgAppended(log, n).len = len
  BY <1>2 DEF AgLogs, AgSound
<1>. HIDE DEF len, ask, waves
<1>4. AgSound(AgAppended(log, n), wave)
  BY <1>1, <1>2 DEF AgLogs, AgSound
<1>. QED BY <1>3, <1>4 DEF len

LEMMA AgCutSound ==
    ASSUME NEW wave, NEW log, AgSound(log, wave)
    PROVE  AgSound(AgCut(log), wave)
<1>0. log \in AgLogs
  BY DEF AgSound
<1>1. CASE log.len + log.system <= AgKeep + 1
  BY <1>1 DEF AgCut
<1>2. CASE ~(log.len + log.system <= AgKeep + 1)
  <2>. DEFINE len == IF log.len > AgKeep THEN AgKeep ELSE log.len
              ask == IF log.ask > AgKeep THEN 0 ELSE log.ask
              waves == IF log.waves > AgKeep THEN 0 ELSE log.waves
  <2>1. AgCut(log) = [log EXCEPT !.len = len, !.ask = ask, !.waves = waves]
    BY <1>2 DEF AgCut
  <2>2. len \in Nat /\ ask \in Nat /\ waves \in Nat /\ ask <= len /\ waves <= len
        /\ (ask # 0 => log.ask # 0)
    BY <1>0, AgAssumption DEF AgLogs, AgSound
  <2>. HIDE DEF len, ask, waves
  <2>. QED BY <1>0, <2>1, <2>2 DEF AgLogs, AgSound
<1>. QED BY <1>1, <1>2

LEMMA AgIdleTurns ==
    /\ AgIdle \in AgTurns /\ AgIdle.step = 0
    /\ \A b \in {0, 1}, c \in BOOLEAN :
          LET r == [pc |-> "model", step |-> 0, back |-> b, continue |-> c]
          IN  r \in AgTurns /\ r.step = 0
BY DEF AgIdle, AgTurns

LEMMA AgAfterTurnIdle == agTurn \in AgTurns => AgAfterTurn \in AgTurns /\ AgAfterTurn.step = 0
BY DEF AgAfterTurn, AgIdle, AgTurns

\* A step of the loop leaves the history it is given, or one more message.
LEMMA AgLoopedSound ==
    ASSUME NEW log, AgSound(log, agWave), AgLoop(log), agTurn \in AgTurns, agTurn.step < AgSteps
    PROVE  AgSound(agLog', agWave) /\ agTurn' \in AgTurns /\ agTurn'.step < AgSteps
<1>1. CASE agTurn.step + 1 < AgSteps
  <2>. DEFINE back == AgAged(agTurn.back, 1)
              step == agTurn.step + 1
  <2>1. agLog' = log /\ agTurn' = [agTurn EXCEPT !.step = step, !.back = back]
    BY <1>1 DEF AgLoop
  <2>2. step \in Nat /\ step < AgSteps /\ back \in Nat
    BY <1>1 DEF AgTurns, AgAged
  <2>. HIDE DEF back, step
  <2>. QED BY <2>1, <2>2 DEF AgTurns
<1>2. CASE ~(agTurn.step + 1 < AgSteps)
  <2>1. agLog' = AgAppended(log, 1) /\ agTurn' = AgAfterTurn
    BY <1>2 DEF AgLoop
  <2>2. AgAfterTurn.step < AgSteps
    BY AgAfterTurnIdle, AgAssumption
  <2>. QED BY <2>1, <2>2, AgAppendedSound, AgAfterTurnIdle
<1>. QED BY <1>1, <1>2

LEMMA AgScopeKnown == AgSound(agLog, agWave) => AgScope \subseteq AgAll
BY DEF AgSound, AgScope, AgAll

\* Every step of the conversation keeps its types, with any number of steps in a turn.
LEMMA AgPlacedStep ==
    ASSUME AgPlaced, [AgNext]_agVars
    PROVE  AgPlaced'
<1>. USE DEF AgPlaced
<1>a. \A n \in Nat : AgSound(AgAppended(agLog, n), agWave) /\ AgAppended(agLog, n).len = agLog.len + n
  BY AgAppendedSound
<1>b. 0 < AgSteps
  BY AgAssumption
<1>c. AgAfterTurn \in AgTurns /\ AgAfterTurn.step < AgSteps
  BY <1>b, AgAfterTurnIdle
<1>d. AgIdle \in AgTurns /\ AgIdle.step < AgSteps
  BY <1>b, AgIdleTurns
<1>e. ASSUME AgSound(agLog', agWave), agWave' = agWave
      PROVE  AgSound(agLog, agWave)'
  BY <1>e
<1>1. CASE AgAsk
  <2>1. AgSound(agLog', agWave')
    <3>1. CASE agLog' = AgAppended(agLog, 1) /\ UNCHANGED agWave
      BY <1>a, <3>1
    <3>2. ASSUME NEW w \in AgWaves, agLog' = [AgAppended(agLog, 1) EXCEPT !.ask = 1], agWave' = w
          PROVE  AgSound(agLog', agWave')
      <4>1. PICK text : text = AgAppended(agLog, 1)
        OBVIOUS
      <4>2. agLog' = [text EXCEPT !.ask = 1]
        BY <3>2, <4>1, Zenon
      <4>3. AgSound(text, agWave) /\ text.len = agLog.len + 1 /\ agLog.len \in Nat
        BY <1>a, <4>1 DEF AgSound, AgLogs
      <4>. QED BY <3>2, <4>2, <4>3 DEF AgSound, AgLogs
    <3>. QED BY <1>1, <3>1, <3>2 DEF AgAsk
  <2>2. agTurn' = [pc |-> "model", step |-> 0, back |-> 1, continue |-> FALSE]
    BY <1>1 DEF AgAsk, AgIdle
  <2>3. agTurn' \in AgTurns /\ agTurn'.step < AgSteps
    BY <1>b, <2>2, AgIdleTurns
  <2>4. UNCHANGED <<agPending, agDone>>
    BY <1>1 DEF AgAsk
  <2>. QED BY <2>1, <2>3, <2>4
<1>2. CASE AgModel
  <2>. DEFINE log == AgCut(agLog)
  <2>1. /\ AgReply(log) \/ (AgLoop(AgAppended(log, 1)) /\ UNCHANGED agPending) \/ AgTool(log)
        /\ UNCHANGED <<agDone, agWave>>
    BY <1>2 DEF AgModel
  <2>2. AgSound(log, agWave)
    BY AgCutSound
  <2>. HIDE DEF log
  <2>3. AgSound(AgAppended(log, 1), agWave) /\ AgAppended(log, 1).len = log.len + 1
    BY <2>2, AgAppendedSound
  <2>4. CASE AgReply(log)
    BY <1>c, <2>1, <2>3, <2>4 DEF AgReply
  <2>5. CASE AgLoop(AgAppended(log, 1)) /\ UNCHANGED agPending
    BY <2>1, <2>3, <2>5, AgLoopedSound
  <2>6. CASE AgTool(log)
    <3>1. CASE agPending' \in AgAll /\ agLog' = AgAppended(log, 1) /\ agTurn' = AgAfterTurn
      BY <1>c, <2>1, <2>3, <3>1
    <3>2. ASSUME NEW waves \in {AgAged(log.waves, 1), 1}, UNCHANGED agPending,
                 AgLoop([AgAppended(log, 1) EXCEPT !.waves = waves])
          PROVE  AgPlaced'
      <4>1. waves \in Nat /\ waves <= log.len + 1
        BY <2>2 DEF AgSound, AgLogs, AgAged
      <4>2. PICK text : text = AgAppended(log, 1)
        OBVIOUS
      <4>3. PICK told : told = [text EXCEPT !.waves = waves]
        OBVIOUS
      <4>4. AgSound(text, agWave) /\ text.len = log.len + 1
        BY <2>3, <4>2
      <4>5. AgSound(told, agWave)
        BY <4>1, <4>3, <4>4 DEF AgSound, AgLogs
      <4>6. AgLoop(told)
        BY <3>2, <4>2, <4>3, Zenon
      <4>. QED BY <2>1, <3>2, <4>5, <4>6, AgLoopedSound
    <3>. QED BY <2>6, <3>1, <3>2 DEF AgTool
  <2>. QED BY <2>1, <2>4, <2>5, <2>6
<1>3. CASE AgNoKey
  BY <1>a, <1>c, <1>3 DEF AgNoKey, AgReply
<1>4. CASE AgApprovePassed
  <2>1. /\ \E edited \in {0, 1} : agLog' = AgAppended(agLog, edited + 1)
        /\ agTurn' = [pc |-> "model", step |-> 0, back |-> 0, continue |-> TRUE]
        /\ agPending \in AgAll /\ agPending' = AgNoTable
        /\ agDone' = agDone \cup {agPending} /\ UNCHANGED agWave
    BY <1>4 DEF AgApprovePassed, AgClick, AgIdle
  <2>2. AgSound(agLog', agWave)
    BY <1>a, <2>1
  <2>3. agTurn' \in AgTurns /\ agTurn'.step < AgSteps
    BY <1>b, <2>1, AgIdleTurns
  <2>. QED BY <2>1, <2>2, <2>3
<1>5. CASE AgApproveFailed
  BY <1>a, <1>5 DEF AgApproveFailed
<1>6. CASE AgSkip
  <2>1. /\ agLog' = AgAppended(agLog, 1)
        /\ agTurn' = [pc |-> "model", step |-> 0, back |-> 0, continue |-> FALSE]
        /\ agPending' = AgNoTable
        /\ UNCHANGED <<agDone, agWave>>
    BY <1>6 DEF AgSkip, AgIdle
  <2>. QED BY <1>a, <1>b, <2>1, AgIdleTurns
<1>7. CASE AgContinue
  <2>. DEFINE remaining == AgScope \ agDone
              next == CHOOSE t \in remaining : \A u \in remaining : t <= u
  <2>1. agTurn' = AgIdle /\ UNCHANGED <<agDone, agWave>>
    BY <1>7 DEF AgContinue
  <2>2. AgSound(agLog', agWave)
    <3>1. UNCHANGED agLog \/ \E n \in Nat : agLog' = AgAppended(agLog, n)
      BY <1>7 DEF AgContinue
    <3>. QED BY <1>a, <3>1
  <2>3. agPending' = agPending \/ (remaining # {} /\ agPending' = next)
    BY <1>7 DEF AgContinue
  <2>4. remaining # {} => next \in AgAll
    <3>1. AgAll \subseteq Nat
      BY AgAssumption DEF AgAll
    <3>2. remaining \subseteq AgAll
      BY AgScopeKnown
    <3>. HIDE DEF remaining
    <3>3. remaining # {} => next \in remaining
      BY <3>1, <3>2, AgFirst
    <3>. QED BY <3>2, <3>3
  <2>. QED BY <1>d, <2>1, <2>2, <2>3, <2>4
<1>8. CASE AgClear
  <2>1. agLog' = [len |-> 0, system |-> 0, ask |-> 0, waves |-> 0]
        /\ agPending' = AgNoTable /\ agDone' = {} /\ UNCHANGED agTurn
    BY <1>8 DEF AgClear
  <2>2. AgSound(agLog', agWave')
    BY <2>1 DEF AgSound, AgLogs
  <2>. QED BY <2>1, <2>2
<1>9. CASE UNCHANGED agVars
  BY <1>9 DEF agVars
<1>. QED BY <1>1, <1>2, <1>3, <1>4, <1>5, <1>6, <1>7, <1>8, <1>9 DEF AgNext

\* The types of the conversation, for any waves, tables, steps and messages, whether the
\* history that is kept is as long as a turn or not (AgentTurn).
THEOREM AgTypesHold == AgSpec => []AgTypeOK
<1>1. AgInit => AgPlaced
  <2>. SUFFICES ASSUME AgInit PROVE AgPlaced
    OBVIOUS
  <2>1. AgSound(agLog, agWave)
    BY AgAssumption DEF AgInit, AgSound, AgLogs
  <2>2. agTurn \in AgTurns /\ agTurn.step < AgSteps
    BY AgAssumption, AgIdleTurns DEF AgInit
  <2>. QED BY <2>1, <2>2 DEF AgInit, AgPlaced
<1>2. AgPlaced /\ [AgNext]_agVars => AgPlaced'
  BY AgPlacedStep
<1>3. AgPlaced => AgTypeOK
  BY AgAssumption DEF AgPlaced, AgSound, AgLogs, AgTurns, AgTypeOK
<1>. QED BY <1>1, <1>2, <1>3, PTL DEF AgSpec

-----------------------------------------------------------------------------
(* ModelDraft *)

MdRowTypes == [alias : MdAliases, sure : BOOLEAN, warned : BOOLEAN]

MdTyped ==
    /\ mdRegistry \in [MdColumns -> MdAliases]
    /\ mdRows \in [MdColumns -> MdRowTypes]
    /\ mdFlag \in BOOLEAN
    /\ mdPlain \in MdSqls /\ mdSql \in MdSqls

\* A name the glossary translates is never spelled in letters, in no table of the job.
MdGlossaryWins == \A c \in MdGlossary : mdRegistry[c] # "letters"

\* Before the translation a Hebrew column in letters carries its warning; after it, in a
\* draft without a flag, there is none.
MdWarned ==
    /\ mdPc = "translate" =>
          \A c \in MdHebrew : mdRows[c].alias = "letters" => mdRows[c].warned
    /\ mdPc \in {"draft", "validate", "correct", "normalize", "done"} /\ ~mdFlag =>
          \A c \in MdHebrew : mdRows[c].alias # "letters"

\* The deterministic SQL of a table whose lineage is whole.
MdPlainOne == mdPlain = MdPlainSql(mdPlain.parses)

\* A candidate nobody has to review is no stub, and a WHERE is seen in it only when it is a
\* correction.
MdCandidate == mdSql.by # "stub" /\ (mdSql.filter = "seen" => mdSql.by = "correction")

MdDrafted ==
    /\ mdPc = "stub" => mdFlag
    /\ mdPc \in {"validate", "correct", "normalize"} /\ ~mdFlag => MdPlainOne /\ MdCandidate
    /\ mdPc = "normalize" /\ ~mdFlag => mdSql.parses
    /\ mdPc = "done" /\ ~mdFlag =>
          /\ MdCandidate /\ ~mdSql.placeholder
          /\ ~mdSql.bent => mdSql.select /\ (mdPlain.parses => mdSql.parses)

MdInv == MdTyped /\ MdGlossaryWins /\ MdWarned /\ MdDrafted

LEMMA MdAliasTyped ==
    ASSUME MdTyped, NEW c \in MdColumns
    PROVE  /\ MdAliasOf(c) \in MdAliases
           /\ MdRowOf(c) \in MdRowTypes
BY DEF MdTyped, MdAliasOf, MdRowOf, MdRowTypes, MdAliases

LEMMA MdInitInv == MdInit => MdInv
<1>. SUFFICES ASSUME MdInit PROVE MdInv
  OBVIOUS
<1>1. MdPlainSql(TRUE) \in MdSqls
  BY DEF MdPlainSql, MdSqls
<1>2. MdTyped
  BY <1>1 DEF MdInit, MdTyped, MdUnmapped, MdRowTypes, MdAliases
<1>3. MdGlossaryWins
  BY MdAssumption DEF MdInit, MdGlossaryWins
<1>4. MdWarned /\ MdDrafted
  BY DEF MdInit, MdWarned, MdDrafted
<1>. QED BY <1>2, <1>3, <1>4 DEF MdInv

\* The columns of a table are looked up or translated.
LEMMA MdMapStep == MdInv /\ MdMap => MdInv'
<1>. SUFFICES ASSUME MdInv, MdMap PROVE MdInv'
  OBVIOUS
<1>. USE DEF MdInv
<1>1. PICK cols \in SUBSET MdColumns :
          /\ mdRows' = [c \in MdColumns |-> IF c \in cols THEN MdRowOf(c) ELSE MdUnmapped[c]]
          /\ mdRegistry' = [c \in MdColumns |-> IF c \in cols THEN MdAliasOf(c) ELSE mdRegistry[c]]
  BY DEF MdMap
<1>2. /\ mdPc = "map" /\ mdPc' = "translate" /\ UNCHANGED <<mdFlag, mdPlain, mdSql>>
  BY DEF MdMap
<1>3. \A c \in MdColumns : MdUnmapped[c] \in MdRowTypes
  BY DEF MdUnmapped, MdRowTypes, MdAliases
<1>4. mdRows' \in [MdColumns -> MdRowTypes]
  BY <1>1, <1>3, MdAliasTyped
<1>5. mdRegistry' \in [MdColumns -> MdAliases]
  BY <1>1, MdAliasTyped DEF MdTyped
<1>6. MdGlossaryWins'
  BY <1>1, MdAssumption DEF MdGlossaryWins, MdAliasOf
<1>7. MdWarned'
  <2>1. ASSUME NEW c \in MdHebrew, mdRows'[c].alias = "letters" PROVE mdRows'[c].warned
    <3>1. c \in MdColumns
      BY MdAssumption
    <3>2. c \in cols
      BY <1>1, <2>1, <3>1 DEF MdUnmapped
    <3>3. mdRows'[c] = MdRowOf(c)
      BY <1>1, <3>1, <3>2
    <3>4. MdAliasOf(c) = "letters"
      BY <2>1, <3>3 DEF MdRowOf
    <3>5. c \notin MdGlossary
      BY <3>1, <3>4 DEF MdAliasOf, MdGlossaryWins
    <3>6. mdRows'[c].warned = (c \in MdHebrew \ MdGlossary)
      BY <3>3 DEF MdRowOf
    <3>7. (c \in MdHebrew \ MdGlossary) = TRUE
      BY <2>1, <3>5
    <3>. QED BY <3>6, <3>7
  <2>2. \A c \in MdHebrew : mdRows'[c].alias = "letters" => mdRows'[c].warned
    BY <2>1
  <2>. QED BY <1>2, <2>2, Zenon DEF MdWarned
<1>8. MdTyped' /\ MdDrafted'
  BY <1>2, <1>4, <1>5 DEF MdTyped, MdDrafted
<1>. QED BY <1>6, <1>7, <1>8

LEMMA MdTranslateStep == MdInv /\ MdTranslate => MdInv'
<1>. SUFFICES ASSUME MdInv, MdTranslate PROVE MdInv'
  OBVIOUS
<1>. USE DEF MdInv
<1>1. PICK done \in SUBSET MdUnresolved, doubtful \in SUBSET MdColumns, trusted \in BOOLEAN,
           broken \in BOOLEAN :
          /\ mdRows' = [c \in MdColumns |->
                IF c \in done THEN [alias |-> "model", sure |-> c \notin doubtful, warned |-> FALSE]
                ELSE mdRows[c]]
          /\ mdRegistry' = [c \in MdColumns |-> IF c \in done THEN "model" ELSE mdRegistry[c]]
          /\ mdFlag' = (broken \/ ~trusted \/ \E c \in MdColumns : mdRows'[c].warned)
          /\ mdPc' = IF broken THEN "stub" ELSE "draft"
  BY DEF MdTranslate, MdDoubted
<1>2. mdPc = "translate" /\ UNCHANGED <<mdPlain, mdSql>>
  BY DEF MdTranslate, MdDoubted
<1>3. mdRows' \in [MdColumns -> MdRowTypes] /\ mdRegistry' \in [MdColumns -> MdAliases]
  BY <1>1 DEF MdTyped, MdRowTypes, MdAliases
<1>4. mdFlag' \in BOOLEAN
  BY <1>1
<1>5. MdGlossaryWins'
  BY <1>1, MdAssumption DEF MdGlossaryWins
<1>6. MdWarned'
  <2>1. ASSUME ~mdFlag', NEW c \in MdHebrew PROVE mdRows'[c].alias # "letters"
    <3>1. c \in MdColumns
      BY MdAssumption
    <3>2. ~mdRows'[c].warned
      BY <1>1, <2>1, <3>1
    <3>3. CASE c \in done
      BY <1>1, <3>1, <3>3
    <3>4. CASE c \notin done
      BY <1>1, <1>2, <3>1, <3>2, <3>4 DEF MdWarned
    <3>. QED BY <3>3, <3>4
  <2>. QED BY <1>1, <2>1 DEF MdWarned
<1>7. MdDrafted'
  BY <1>1, <1>2, <1>4 DEF MdDrafted
<1>8. MdTyped'
  BY <1>2, <1>3, <1>4 DEF MdTyped
<1>. QED BY <1>5, <1>6, <1>7, <1>8

\* The SQL is drafted, corrected and normalized.
LEMMA MdSqlStep ==
    ASSUME MdInv, MdDraftStub \/ MdDraft \/ MdValidate \/ MdCorrect \/ MdNormalize
    PROVE  MdInv'
<1>. USE DEF MdInv
<1>1. UNCHANGED <<mdRegistry, mdRows>>
  BY DEF MdDraftStub, MdDraft, MdValidate, MdCorrect, MdNormalize
<1>2. MdGlossaryWins'
  BY <1>1 DEF MdGlossaryWins
<1>3. CASE MdDraftStub
  <2>1. MdStub \in MdSqls
    BY DEF MdStub, MdSqls
  <2>. QED BY <1>1, <1>2, <1>3, <2>1 DEF MdDraftStub, MdTyped, MdWarned, MdDrafted
<1>4. CASE MdDraft
  <2>1. PICK ok \in BOOLEAN :
            /\ mdPlain' = MdPlainSql(ok)
            /\ mdSql' \in {MdPlainSql(ok)} \cup {s \in MdWritten("agent") : MdUsable(s)}
    BY <1>4 DEF MdDraft
  <2>2. MdPlainSql(ok) \in MdSqls
    BY DEF MdPlainSql, MdSqls
  <2>3. mdPlain' \in MdSqls /\ mdSql' \in MdSqls
    BY <2>1, <2>2 DEF MdWritten
  <2>4. MdPlainOne' /\ MdCandidate'
    BY <2>1, <2>3 DEF MdPlainOne, MdCandidate, MdPlainSql, MdWritten, MdUsable
  <2>. QED BY <1>1, <1>2, <1>4, <2>3, <2>4 DEF MdDraft, MdTyped, MdWarned, MdDrafted
<1>5. CASE MdValidate
  <2>1. UNCHANGED <<mdPlain, mdSql>> /\ (mdFlag' = mdFlag \/ mdFlag' = TRUE)
        /\ mdPc = "validate" /\ mdPc' \in {"normalize", "correct"}
        /\ (mdPc' = "normalize" => mdSql.parses \/ mdFlag')
    BY <1>5 DEF MdValidate, MdExhausted
  <2>2. MdPlainOne' = MdPlainOne /\ MdCandidate' = MdCandidate
    BY <2>1 DEF MdPlainOne, MdCandidate
  <2>3. MdTyped' /\ MdWarned'
    <3>1. mdFlag' \in BOOLEAN
      BY <2>1 DEF MdTyped
    <3>2. mdFlag => mdFlag'
      BY <2>1
    <3>. QED BY <1>1, <2>1, <3>1, <3>2 DEF MdTyped, MdWarned
  <2>4. ASSUME ~mdFlag'
        PROVE  ~mdFlag /\ MdPlainOne' /\ MdCandidate'
               /\ (mdPc' = "normalize" => mdSql'.parses)
    BY <2>1, <2>2, <2>4 DEF MdTyped, MdDrafted
  <2>. QED BY <1>2, <2>1, <2>3, <2>4 DEF MdDrafted
<1>6. CASE MdCorrect
  <2>1. /\ mdPc = "correct" /\ mdPc' = "validate" /\ UNCHANGED <<mdFlag, mdPlain>>
        /\ mdSql' = mdPlain \/ mdSql' \in {s \in MdWritten("correction") : s.select}
    BY <1>6 DEF MdCorrect
  <2>2. mdSql' \in MdSqls
    BY <2>1 DEF MdTyped, MdWritten
  <2>3. MdPlainOne => MdPlainOne' /\ MdCandidate'
    BY <2>1 DEF MdPlainOne, MdCandidate, MdPlainSql, MdWritten
  <2>. QED BY <1>1, <1>2, <2>1, <2>2, <2>3 DEF MdTyped, MdWarned, MdDrafted
<1>7. CASE MdNormalize
  <2>1. /\ mdPc = "normalize" /\ mdPc' = "done" /\ UNCHANGED <<mdFlag, mdPlain>>
        /\ \/ mdSql.by = "stub" /\ UNCHANGED mdSql
           \/ mdSql.select /\ ~mdSql.placeholder /\ mdSql' \in MdRewritten(mdSql)
           \/ mdSql' = mdPlain
    BY <1>7 DEF MdNormalize
  <2>2. mdSql \in MdSqls /\ mdPlain \in MdSqls
    BY DEF MdTyped
  <2>3. mdSql' \in MdSqls
    BY <2>1, <2>2 DEF MdRewritten
  <2>4. ASSUME ~mdFlag
        PROVE  /\ MdCandidate' /\ ~mdSql'.placeholder
               /\ ~mdSql'.bent => mdSql'.select /\ (mdPlain'.parses => mdSql'.parses)
    <3>1. MdPlainOne /\ MdCandidate /\ mdSql.parses
      BY <2>1, <2>4 DEF MdDrafted
    <3>2. CASE mdSql.select /\ ~mdSql.placeholder /\ mdSql' = mdSql
      BY <3>1, <3>2 DEF MdCandidate
    <3>3. CASE mdSql.select /\ ~mdSql.placeholder /\ mdSql' \in MdRewritten(mdSql) \ {mdSql}
      BY <3>1, <3>3 DEF MdCandidate, MdRewritten
    <3>4. CASE mdSql' = mdPlain
      BY <2>1, <3>1, <3>4 DEF MdPlainOne, MdCandidate, MdPlainSql
    <3>5. mdSql.by # "stub"
      BY <3>1 DEF MdCandidate
    <3>. QED BY <2>1, <3>2, <3>3, <3>4, <3>5
  <2>. QED BY <1>1, <1>2, <2>1, <2>2, <2>3, <2>4 DEF MdTyped, MdWarned, MdDrafted
<1>. QED BY <1>3, <1>4, <1>5, <1>6, <1>7

LEMMA MdStep == MdInv /\ [MdNext]_mdVars => MdInv'
<1>. SUFFICES ASSUME MdInv, [MdNext]_mdVars PROVE MdInv'
  OBVIOUS
<1>1. CASE MdAuthError
  BY <1>1 DEF MdAuthError, MdInv, MdTyped, MdGlossaryWins, MdWarned, MdDrafted
<1>2. CASE MdNextTable
  <2>1. MdPlainSql(TRUE) \in MdSqls /\ MdUnmapped \in [MdColumns -> MdRowTypes]
    BY DEF MdPlainSql, MdSqls, MdUnmapped, MdRowTypes, MdAliases
  <2>2. /\ mdPc' = "map" /\ mdFlag' = FALSE /\ mdRows' = MdUnmapped
        /\ mdPlain' = MdPlainSql(TRUE) /\ mdSql' = MdPlainSql(TRUE) /\ UNCHANGED mdRegistry
    BY <1>2 DEF MdNextTable
  <2>3. MdTyped'
    BY <2>1, <2>2 DEF MdInv, MdTyped
  <2>. QED BY <2>2, <2>3 DEF MdInv, MdGlossaryWins, MdWarned, MdDrafted
<1>3. CASE UNCHANGED mdVars
  BY <1>3 DEF mdVars, MdInv, MdTyped, MdGlossaryWins, MdWarned, MdDrafted, MdPlainOne,
              MdCandidate
<1>. QED BY <1>1, <1>2, <1>3, MdMapStep, MdTranslateStep, MdSqlStep DEF MdNext

\* For any columns, tables and number of corrections: a draft nobody has to review is no
\* stub, filters rows only by a correction or by a WHERE the check cannot see, parses unless
\* the deterministic SQL does not or it was rewritten after the check, and has none of its
\* Hebrew columns only spelled in letters (generate_model_artifact).
THEOREM MdUnflaggedSoundHolds == MdSpec => []MdUnflaggedSound
<1>1. MdInv => MdUnflaggedSound
  <2>. SUFFICES ASSUME MdInv, mdPc = "done", ~mdFlag
                PROVE  /\ mdSql.by # "stub" /\ ~mdSql.placeholder
                       /\ mdSql.filter = "seen" => mdSql.by = "correction"
                       /\ ~mdSql.bent => mdSql.select /\ (mdPlain.parses => mdSql.parses)
                       /\ \A c \in MdHebrew : mdRows[c].alias # "letters"
    BY DEF MdUnflaggedSound
  <2>1. /\ MdCandidate /\ ~mdSql.placeholder
        /\ ~mdSql.bent => mdSql.select /\ (mdPlain.parses => mdSql.parses)
    BY DEF MdInv, MdDrafted
  <2>2. \A c \in MdHebrew : mdRows[c].alias # "letters"
    BY DEF MdInv, MdWarned
  <2>. QED BY <2>1, <2>2 DEF MdCandidate
<1>. QED BY <1>1, MdInitInv, MdStep, PTL DEF MdSpec

\* The stages of a job: what has been drafted is a table of the job, and corrected as often
\* as is allowed.
MdStages ==
    /\ mdPc \in {"map", "translate", "stub", "draft", "validate", "correct", "normalize",
                 "done", "ended"}
    /\ mdTable \in 0..MdTables
    /\ mdPc \notin {"map", "ended"} => mdTable < MdTables
    /\ mdTries \in 0..MdAttempts
    /\ mdPc = "correct" => mdTries < MdAttempts

\* The types of the drafts, for any columns, tables and corrections (ModelDraft).
THEOREM MdTypesHold == MdSpec => []MdTypeOK
<1>1. MdInit => MdStages
  BY MdAssumption DEF MdInit, MdStages
<1>2. MdStages /\ [MdNext]_mdVars => MdStages'
  <2>. SUFFICES ASSUME MdStages, [MdNext]_mdVars
                PROVE  MdStages'
    OBVIOUS
  <2>. USE MdAssumption DEF MdStages
  <2>1. CASE MdMap
    BY <2>1 DEF MdMap
  <2>2. CASE MdTranslate
    <3>1. mdPc = "translate" /\ mdPc' \in {"stub", "draft"} /\ UNCHANGED <<mdTable, mdTries>>
      BY <2>2 DEF MdTranslate, MdDoubted
    <3>. QED BY <3>1
  <2>3. CASE MdDraftStub \/ MdDraft
    BY <2>3 DEF MdDraftStub, MdDraft
  <2>4. CASE MdValidate
    BY <2>4 DEF MdValidate, MdExhausted
  <2>5. CASE MdCorrect \/ MdNormalize
    BY <2>5 DEF MdCorrect, MdNormalize
  <2>6. CASE MdAuthError
    BY <2>6 DEF MdAuthError
  <2>7. CASE MdNextTable
    <3>1. mdPc = "done" /\ mdPc' = "map" /\ mdTable' = mdTable + 1 /\ mdTries' = 0
      BY <2>7 DEF MdNextTable
    <3>. QED BY <3>1
  <2>8. CASE UNCHANGED mdVars
    BY <2>8 DEF mdVars
  <2>. QED BY <2>1, <2>2, <2>3, <2>4, <2>5, <2>6, <2>7, <2>8 DEF MdNext
<1>3. MdInv /\ MdStages => MdTypeOK
  BY DEF MdInv, MdTyped, MdStages, MdTypeOK
<1>. QED BY <1>1, <1>2, <1>3, MdInitInv, MdStep, PTL DEF MdSpec

=============================================================================
