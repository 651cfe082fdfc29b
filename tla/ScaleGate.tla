--------------------------------- MODULE ScaleGate ---------------------------------
(* The scoring gate: evaluate_batch as POST /scale/{report}/evaluate and the agent's  *)
(* bulk_migrate_tables run it in server threads over one shared report, which each    *)
(* call first normalises in place.  A table is the record of the signals its score is *)
(* made of, counted over its SgColumns columns.                                       *)
EXTENDS Integers, FiniteSets

CONSTANTS
  SgCalls,      \* concurrent evaluations (symmetric)
  SgRows,       \* the signal records a table can have
  SgTables,     \* the inventory (names)
  SgGates,      \* the pairs <<conf_floor, crit_ceil>> an API call may ask for
  SgMinBatch    \* stands for _MANIFEST_SCOPE_MIN_BATCH (10)

SgColumns == 2
SgDefaults == <<70, 40>>

ASSUME SgAssumption ==
  /\ SgMinBatch \in Nat \ {0} /\ SgGates \subseteq Nat \X Nat
  /\ \A row \in SgRows :
       /\ row.merged \in 0..SgColumns /\ row.legacy \in 0..(SgColumns - row.merged)
       /\ row.typed \in 0..SgColumns /\ row.queries \in Nat /\ row.dependents \in Nat
       /\ {row.sensitive, row.rejected, row.wide, row.listed} \subseteq BOOLEAN

VARIABLES
  sgTable,      \* table -> its row
  sgReport,     \* flat: glossary pairs in alias_merge; glossary; keys; derivable: a manifest file
  sgCall,       \* call -> its step, purpose, thresholds and the rows scored so far
  sgAudit       \* tables with a bulk_approved line in audit_trail.jsonl

sgVars == <<sgTable, sgReport, sgCall, sgAudit>>

\* ------------------------------------------------------------------ scores ----------
SgRound(part, weight) == (part * weight + SgColumns \div 2) \div SgColumns
SgConfidence(row, terms) ==
  SgRound(row.merged + (IF terms THEN row.legacy ELSE 0), 70) + SgRound(row.typed, 30)

\* score_criticality counts the edges whose "source" is the table; the edges a report
\* carries have the keys "from" and "to" (LineageGraph.to_report_dict), so it counts none.
SgDownstream(row) == 0
SgLineagePoints(n) == IF n = 0 THEN 0 ELSE IF n = 1 THEN 15 ELSE IF n = 2 THEN 25 ELSE 40
SgUsagePoints(q) ==
  IF q <= 10 THEN 0 ELSE IF q <= 50 THEN 10 ELSE IF q <= 200 THEN 20 ELSE IF q <= 500 THEN 30 ELSE 35
SgCriticality(row) ==
  SgLineagePoints(SgDownstream(row)) + SgUsagePoints(row.queries) + (IF row.sensitive THEN 25 ELSE 0)

\* outside_manifest_scope is not raised when the keys look like another naming.
SgScopeOn ==
  /\ sgReport.keys
  /\ Cardinality(SgTables) < SgMinBatch \/ \E t \in SgTables : sgTable[t].listed

SgBlocked(t) ==
  \/ sgTable[t].type = "blob"
  \/ \E o \in SgTables \ {t} : sgTable[o].type # sgTable[t].type
  \/ SgScopeOn /\ ~sgTable[t].listed
SgWarned(t) == sgTable[t].wide \/ sgTable[t].rejected

SgQueueWarnFirst(conf, crit, blocked, warned, gate) ==
  IF warned THEN "yellow"
  ELSE IF crit >= 80 \/ blocked \/ conf < 70 THEN "red"
  ELSE IF conf >= gate[1] /\ crit <= gate[2] THEN "green" ELSE "yellow"

SgQueue(conf, crit, blocked, warned, gate) ==
  IF crit >= 80 \/ blocked \/ conf < 70 THEN "red"
  ELSE IF ~warned /\ conf >= gate[1] /\ crit <= gate[2] THEN "green" ELSE "yellow"

\* The terms the glossary part of the score sees, as the report stands now.
SgTerms == sgReport.flat \/ sgReport.glossary = "promoted"

SgQueueOf(t, gate) ==
  SgQueue(SgConfidence(sgTable[t], SgTerms), SgCriticality(sgTable[t]),
          SgBlocked(t), SgWarned(t), gate)

\* ------------------------------------------------------------------ calls -----------
SgIdle == [pc |-> "idle", kind |-> "none", gate |-> SgDefaults, seen |-> FALSE,
           rows |-> [t \in {} |-> "red"]]

SgInit ==
  /\ sgTable \in [SgTables -> SgRows]
  /\ sgReport \in [flat: BOOLEAN, glossary: {"none", "own"}, keys: BOOLEAN, derivable: BOOLEAN]
  /\ sgCall = [c \in SgCalls |-> SgIdle]
  /\ sgAudit = {}

SgGo(c, pc) == sgCall' = [sgCall EXCEPT ![c].pc = pc]

\* A red-queue bulk request is refused before this; a dry run ends after "scored".
SgStart(c) ==
  /\ sgCall[c].pc = "idle"
  /\ \E kind \in {"evaluate", "bulk"}, gate \in SgGates :
       /\ kind = "bulk" => gate = SgDefaults
       /\ sgCall' = [sgCall EXCEPT ![c] = [@ EXCEPT !.pc = "promote", !.kind = kind,
                                                    !.gate = gate, !.seen = sgReport.flat]]
  /\ UNCHANGED <<sgTable, sgReport, sgAudit>>

\* The pairs read from alias_merge become a glossary, unless the report has one.
SgPromote(c) ==
  /\ sgCall[c].pc = "promote"
  /\ sgReport' = IF sgCall[c].seen /\ sgReport.glossary = "none"
                 THEN [sgReport EXCEPT !.glossary = "promoted"] ELSE sgReport
  /\ SgGo(c, "structure")
  /\ UNCHANGED <<sgTable, sgAudit>>

SgStructure(c) ==
  /\ sgCall[c].pc = "structure"
  /\ sgReport' = [sgReport EXCEPT !.flat = FALSE]
  /\ SgGo(c, "keys")
  /\ UNCHANGED <<sgTable, sgAudit>>

SgKeys(c) ==
  /\ sgCall[c].pc = "keys"
  /\ sgReport' = [sgReport EXCEPT !.keys = @ \/ sgReport.derivable]
  /\ SgGo(c, "score")
  /\ UNCHANGED <<sgTable, sgAudit>>

SgScore(c) ==
  /\ sgCall[c].pc = "score"
  /\ \E t \in SgTables \ DOMAIN sgCall[c].rows :
       LET rows == [u \in DOMAIN sgCall[c].rows \union {t} |->
                      IF u = t THEN SgQueueOf(t, sgCall[c].gate) ELSE sgCall[c].rows[u]]
       IN sgCall' = [sgCall EXCEPT ![c] = [@ EXCEPT
                       !.rows = rows, !.pc = IF DOMAIN rows = SgTables THEN "scored" ELSE "score"]]
  /\ UNCHANGED <<sgTable, sgReport, sgAudit>>

\* bulk_migrate_tables without dry_run: a proposal nobody writes and an audit line for
\* each green table.
SgApprove(c) ==
  /\ sgCall[c].pc = "scored" /\ sgCall[c].kind = "bulk"
  /\ \E t \in SgTables : sgCall[c].rows[t] = "green" /\ t \notin sgAudit
                         /\ sgAudit' = sgAudit \union {t}
  /\ UNCHANGED <<sgTable, sgReport, sgCall>>

SgNext ==
  \E c \in SgCalls : SgStart(c) \/ SgPromote(c) \/ SgStructure(c) \/ SgKeys(c)
                     \/ SgScore(c) \/ SgApprove(c)

SgSpec == SgInit /\ [][SgNext]_sgVars

(* Every variable stays in its range. *)
SgTypeOK ==
  /\ sgTable \in [SgTables -> SgRows]
  /\ sgReport \in [flat: BOOLEAN, glossary: {"none", "own", "promoted"}, keys: BOOLEAN,
                   derivable: BOOLEAN]
  /\ \A c \in SgCalls :
       /\ sgCall[c].pc \in {"idle", "promote", "structure", "keys", "score", "scored"}
       /\ \A t \in DOMAIN sgCall[c].rows : sgCall[c].rows[t] \in {"green", "yellow", "red"}
  /\ sgAudit \subseteq SgTables

SgRank(queue) == IF queue = "green" THEN 2 ELSE IF queue = "yellow" THEN 1 ELSE 0

\* s has no signal in its favour that t does not have.
SgNoBetter(s, t) ==
  /\ s.merged <= t.merged /\ s.legacy <= t.legacy /\ s.typed <= t.typed
  /\ s.queries >= t.queries /\ (t.sensitive => s.sensitive) /\ (t.rejected => s.rejected)
  /\ (t.wide => s.wide) /\ (s.listed => t.listed) /\ s.type = t.type

(* The evaluations of a report agree, however their in-place normalisations          *)
(* interleave: two with the same thresholds give a table the same queue, stricter     *)
(* thresholds never a better one, a table with no signal in its favour never a better *)
(* one than its neighbour, and no evaluation blocks a table another one approved.     *)
SgVerdictsAgree ==
  \A c, d \in SgCalls :
    \A s \in DOMAIN sgCall[c].rows, t \in DOMAIN sgCall[d].rows :
      /\ /\ sgCall[c].gate[1] >= sgCall[d].gate[1] /\ sgCall[c].gate[2] <= sgCall[d].gate[2]
         /\ s = t \/ SgNoBetter(sgTable[s], sgTable[t])
         => SgRank(sgCall[c].rows[s]) <= SgRank(sgCall[d].rows[t])
      /\ t \in sgAudit => sgCall[d].rows[t] # "red"

(* README.md:64 and :66: "A table with 500 queries/day and 3 downstream dependents    *)
(* scores 100", and high-criticality tables stay out of the bulk queue: no such table *)
(* is ever audited as approved in bulk. The code does not keep it.                    *)
SgHubsAreHeld ==
  \A t \in sgAudit : ~(sgTable[t].queries >= 500 /\ sgTable[t].dependents >= 3)
====================================================================================
