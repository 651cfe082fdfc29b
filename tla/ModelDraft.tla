------------------------------ MODULE ModelDraft ------------------------------
(***************************************************************************)
(* generate_model_artifact, for the tables of a job one after the other:   *)
(* the columns get aliases, the agents draft a SELECT, sqlglot and the     *)
(* self-healing loop correct it, and what comes out is flagged for review  *)
(* or not. The registry of aliases lives as long as the job.               *)
(***************************************************************************)
EXTENDS Naturals, FiniteSets

CONSTANTS
    MdColumns,  \* names of source columns
    MdHebrew,   \* those written in Hebrew
    MdGlossary, \* those the glossary translates
    MdTables,   \* number of tables of the job
    MdAttempts  \* max_correction_attempts (3 in the code)

ASSUME MdAssumption ==
    /\ MdHebrew \subseteq MdColumns /\ MdGlossary \subseteq MdColumns
    /\ MdTables \in Nat /\ MdAttempts \in Nat

VARIABLES
    mdTable,    \* the table that is drafted
    mdPc,       \* the stage of the draft
    mdRegistry, \* alias_registry of the job
    mdRows,     \* the mapping rows of the table
    mdFlag,     \* review_required and mapping_decision_tag
    mdPlain,    \* the deterministic SQL of the table
    mdSql,      \* the candidate
    mdTries     \* corrections so far

mdVars == <<mdTable, mdPc, mdRegistry, mdRows, mdFlag, mdPlain, mdSql, mdTries>>

\* Where an alias came from; "unset" is not in the registry.
MdAliases == {"unset", "glossary", "letters", "model"}
MdUnmapped == [c \in MdColumns |-> [alias |-> "unset", sure |-> TRUE, warned |-> FALSE]]

\* What the checks tell apart in a SQL text, and who wrote it. Of a row-level WHERE the
\* check sees what sqlglot's default dialect parses: not that of a text it cannot read, nor
\* that of a second statement. A bent text has been rewritten since it was validated.
MdSqls == [by : {"plain", "stub", "agent", "correction"}, parses : BOOLEAN, select : BOOLEAN,
           filter : {"none", "seen", "unseen"}, placeholder : BOOLEAN, bent : BOOLEAN]
MdWritten(by) == {s \in MdSqls : s.by = by /\ ~s.bent}
MdPlainSql(ok) ==
    [by |-> "plain", parses |-> ok, select |-> TRUE, filter |-> "none", placeholder |-> FALSE,
     bent |-> FALSE]
MdStub ==
    [by |-> "stub", parses |-> TRUE, select |-> TRUE, filter |-> "seen", placeholder |-> TRUE,
     bent |-> FALSE]

\* build_mapping_row: the registry first, then the glossary, then the letters.
MdAliasOf(c) ==
    IF mdRegistry[c] # "unset" THEN mdRegistry[c]
    ELSE IF c \in MdGlossary THEN "glossary" ELSE "letters"
MdRowOf(c) ==
    [alias |-> MdAliasOf(c), sure |-> TRUE, warned |-> c \in MdHebrew \ MdGlossary]

\* The columns of the table; the warning is there even when an earlier table had the
\* column translated.
MdMap ==
    /\ mdPc = "map"
    /\ mdTable < MdTables
    /\ \E cols \in (SUBSET MdColumns) \ {{}} :
          /\ mdRows' = [c \in MdColumns |-> IF c \in cols THEN MdRowOf(c) ELSE MdUnmapped[c]]
          /\ mdRegistry' = [c \in MdColumns |-> IF c \in cols THEN MdAliasOf(c) ELSE mdRegistry[c]]
    /\ mdPc' = "translate"
    /\ UNCHANGED <<mdTable, mdFlag, mdPlain, mdSql, mdTries>>

MdUnresolved == {c \in MdHebrew \ MdGlossary : mdRows[c].alias # "unset"}

\* The review flags of the table: its lineage is broken, the batch of translations is not
\* trusted, or a column is still spelt out by its letters.
MdDoubted(broken, trusted, rows) == broken \/ ~trusted \/ \E c \in MdColumns : rows[c].warned

\* apply_semantic_translation_for_unresolved: the agent translates some columns, with a
\* confidence in each and one in the batch; without it the rows stay as they are.
MdTranslate ==
    /\ mdPc = "translate"
    /\ \E done \in SUBSET MdUnresolved, doubtful \in SUBSET MdColumns, trusted \in BOOLEAN :
          /\ doubtful \subseteq done
          /\ done # {} => MdUnresolved # {}
          /\ MdUnresolved = {} => trusted
          /\ mdRows' = [c \in MdColumns |->
                IF c \in done THEN [alias |-> "model", sure |-> c \notin doubtful, warned |-> FALSE]
                ELSE mdRows[c]]
          /\ mdRegistry' = [c \in MdColumns |-> IF c \in done THEN "model" ELSE mdRegistry[c]]
          /\ \E broken \in BOOLEAN :
                /\ mdFlag' = MdDoubted(broken, trusted, mdRows')
                /\ mdPc' = IF broken THEN "stub" ELSE "draft"
    /\ UNCHANGED <<mdTable, mdPlain, mdSql, mdTries>>

\* Broken lineage: a stub without columns, no agent.
MdDraftStub ==
    /\ mdPc = "stub"
    /\ mdSql' = MdStub
    /\ mdPlain' = MdStub
    /\ mdPc' = "validate"
    /\ mdTries' = 0
    /\ UNCHANGED <<mdTable, mdRegistry, mdRows, mdFlag>>

MdUsable(s) == s.select /\ s.filter # "seen" /\ ~s.placeholder

\* The deterministic SQL, or that of the agent if it looks like a SELECT of columns and no
\* WHERE is seen in it.
MdDraft ==
    /\ mdPc = "draft"
    /\ \E ok \in BOOLEAN :
          /\ mdPlain' = MdPlainSql(ok)
          /\ mdSql' \in {MdPlainSql(ok)} \cup {s \in MdWritten("agent") : MdUsable(s)}
    /\ mdPc' = "validate"
    /\ mdTries' = 0
    /\ UNCHANGED <<mdTable, mdRegistry, mdRows, mdFlag>>

\* An authentication error ends the job.
MdAuthError ==
    /\ mdPc \in {"translate", "draft"}
    /\ mdPc' = "ended"
    /\ UNCHANGED <<mdTable, mdRegistry, mdRows, mdFlag, mdPlain, mdSql, mdTries>>

\* A mutated end of the loop: nobody asks for a review.
MdExhaustedQuietly == mdTries >= MdAttempts /\ mdPc' = "normalize" /\ UNCHANGED mdFlag

\* The corrections are used up: the draft goes to a human.
MdExhausted == mdTries >= MdAttempts /\ mdPc' = "normalize" /\ mdFlag' = TRUE

\* One round of run_sql_self_healing_loop: a text that parses passes.
MdValidate ==
    /\ mdPc = "validate"
    /\ \/ mdSql.parses /\ mdPc' = "normalize" /\ UNCHANGED mdFlag
       \/ ~mdSql.parses /\ MdExhausted
       \/ ~mdSql.parses /\ mdTries < MdAttempts /\ mdPc' = "correct" /\ UNCHANGED mdFlag
    /\ UNCHANGED <<mdTable, mdRegistry, mdRows, mdPlain, mdSql, mdTries>>

\* _developer_self_correct_sql: any SELECT is taken; else, and without a key or after an
\* error, the deterministic SQL.
MdCorrect ==
    /\ mdPc = "correct"
    /\ mdSql' \in {mdPlain} \cup {s \in MdWritten("correction") : s.select}
    /\ mdTries' = mdTries + 1
    /\ mdPc' = "validate"
    /\ UNCHANGED <<mdTable, mdRegistry, mdRows, mdFlag, mdPlain>>

\* _ensure_correct_table_reference: names the code takes for placeholders become the table,
\* a FROM is appended, the table is qualified, by a regular expression or by printing the
\* first statement anew. What comes out is not validated.
MdRewritten(s) ==
    {s} \cup {t \in MdSqls : /\ t.bent /\ t.by = s.by /\ t.placeholder = s.placeholder
                            /\ t.filter \in {s.filter, "none"}}

\* normalize_candidate_sql: a SELECT without placeholders is rewritten; anything else makes
\* room for the deterministic SQL, which nobody has validated. A stub stays as it is.
MdNormalize ==
    /\ mdPc = "normalize"
    /\ \/ mdSql.by = "stub" /\ UNCHANGED mdSql
       \/ /\ mdSql.by # "stub" /\ mdSql.select /\ ~mdSql.placeholder
          /\ mdSql' \in MdRewritten(mdSql)
       \/ /\ mdSql.by # "stub" /\ (~mdSql.select \/ mdSql.placeholder)
          /\ mdSql' = mdPlain
    /\ mdPc' = "done"
    /\ UNCHANGED <<mdTable, mdRegistry, mdRows, mdFlag, mdPlain, mdTries>>

\* The artifact is returned; only the registry outlives the call.
MdNextTable ==
    /\ mdPc = "done"
    /\ mdTable' = mdTable + 1
    /\ mdPc' = "map"
    /\ mdRows' = MdUnmapped
    /\ mdFlag' = FALSE
    /\ mdPlain' = MdPlainSql(TRUE)
    /\ mdSql' = MdPlainSql(TRUE)
    /\ mdTries' = 0
    /\ UNCHANGED mdRegistry

MdInit ==
    /\ mdTable = 0
    /\ mdPc = "map"
    /\ mdRegistry = [c \in MdColumns |-> "unset"]
    /\ mdRows = MdUnmapped
    /\ mdFlag = FALSE
    /\ mdPlain = MdPlainSql(TRUE)
    /\ mdSql = MdPlainSql(TRUE)
    /\ mdTries = 0

MdNext ==
    \/ MdMap \/ MdTranslate \/ MdDraftStub \/ MdDraft \/ MdAuthError
    \/ MdValidate \/ MdCorrect \/ MdNormalize \/ MdNextTable

MdSpec == MdInit /\ [][MdNext]_mdVars

MdTypeOK ==
    /\ mdTable \in 0..MdTables
    /\ mdPc \in {"map", "translate", "stub", "draft", "validate", "correct", "normalize",
                 "done", "ended"}
    /\ mdRegistry \in [MdColumns -> MdAliases]
    /\ mdFlag \in BOOLEAN
    /\ mdPlain \in MdSqls /\ mdSql \in MdSqls
    /\ mdTries \in 0..MdAttempts

\* A model nobody has to review is no stub and has no placeholder for a column; a WHERE the
\* check can see is in it only when a correction wrote it; unless it was rewritten after the
\* check, it is a SELECT that parses if the deterministic SQL of its table does; and its
\* Hebrew columns have been translated.
MdUnflaggedSound ==
    mdPc = "done" /\ ~mdFlag
      => /\ mdSql.by # "stub" /\ ~mdSql.placeholder
         /\ mdSql.filter = "seen" => mdSql.by = "correction"
         /\ ~mdSql.bent => mdSql.select /\ (mdPlain.parses => mdSql.parses)
         /\ \A c \in MdHebrew : mdRows[c].alias # "letters"

\* README.md: the generator blocks output that introduces a row-level WHERE.
\* The code does not keep it: corrections are not checked, nor is what the check cannot read.
MdNoFilter == mdPc = "done" /\ mdSql.by # "stub" => mdSql.filter = "none"

\* What is handed over is what was validated. The code does not keep it.
MdAsValidated == mdPc = "done" /\ ~mdFlag => ~mdSql.bent

\* USER_GUIDE.md: low-confidence mappings are flagged for review. Not all are.
MdDoubtsFlagged == mdPc = "done" /\ ~mdFlag => \A c \in MdColumns : mdRows[c].sure
=============================================================================
