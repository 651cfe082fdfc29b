----------------------------- MODULE ApproveTable -----------------------------
(***************************************************************************)
(* POST /migration/{report}/propose and /approve for single tables: the    *)
(* approved SQL is written, tested, repaired once by the fix agent, and    *)
(* replaced by SELECT * as a last resort. Calls run in threads of one      *)
(* server. They share the model files, which every test rewrites when they *)
(* end in a semicolon, and duckdb.db, which one dbt process or the         *)
(* connections of the server hold, never both.                             *)
(***************************************************************************)
EXTENDS Naturals

CONSTANTS
    ApCalls,      \* requests
    ApModels,     \* tables, each with its model file
    ApRetries,    \* retries when duckdb.db is held (3 in the code)
    ApMaxFaults   \* bound: exceptions during the approvals

ASSUME ApAssumption == ApRetries \in Nat /\ ApMaxFaults \in Nat

VARIABLES
    apFile,    \* what each model file holds
    apSources, \* tables whose source relation exists in duckdb.db
    apServer,  \* calls that have a connection to duckdb.db
    apDbt,     \* calls whose dbt process holds duckdb.db
    apCall,    \* what each request is doing
    apCache,   \* models with a proposal in _PROPOSAL_CACHE
    apAudit,   \* audit_trail.jsonl: who appended a decision
    apGood,    \* what dbt thinks of each text, once it has been asked
    apOwn,     \* history: calls whose last text is in their model file, as they left it
    apFaults   \* exceptions still to come

apVars ==
    <<apFile, apSources, apServer, apDbt, apCall, apCache, apAudit, apGood, apOwn, apFaults>>

ApStages == {"proposed", "fix", "passthrough"}
ApAnswers == {"approved", "degraded_passthrough", "failed", "error"}
ApTexts == ApCalls \X ApStages
ApNoFile == [text |-> <<>>, semi |-> FALSE]
ApIdle == [pc |-> "idle", model |-> "none", stage |-> "proposed", todo |-> {},
           at |-> "none", read |-> <<>>, seen |-> <<>>, tries |-> 0, alone |-> TRUE, answer |-> "none"]

ApSet(c, fields) == apCall' = [apCall EXCEPT ![c] = fields]

\* history: a call is alone as long as no other approves beside it.
ApWatched(calls) ==
    [c \in ApCalls |-> [calls[c] EXCEPT !.alone =
        @ /\ \A d \in ApCalls \ {c} : calls[d].pc \in {"idle", "answered", "proposing"}]]

\* history: calls whose last text is still there when a model file gets this one.
ApStillOwn(m, text) == {c \in apOwn : apCall[c].model = m => text = apFile[m].text}

-----------------------------------------------------------------------------
(* Proposals *)

\* propose_dbt_model runs without the lock between the lookup ...
ApPropose(c) ==
    /\ apCall[c].pc = "idle"
    /\ \E m \in ApModels \ apCache : ApSet(c, [ApIdle EXCEPT !.pc = "proposing", !.model = m])
    /\ UNCHANGED <<apFile, apSources, apServer, apDbt, apCache, apAudit, apGood, apOwn, apFaults>>

\* ... and the entry, which may follow the approval that dropped it.
ApProposed(c) ==
    /\ apCall[c].pc = "proposing"
    /\ apCache' = apCache \cup {apCall[c].model}
    /\ ApSet(c, ApIdle)
    /\ UNCHANGED <<apFile, apSources, apServer, apDbt, apAudit, apGood, apOwn, apFaults>>

-----------------------------------------------------------------------------
(* Approval *)

\* The SQL of the request passes normalize_candidate_sql, or the answer is 400.
ApApprove(c) ==
    /\ apCall[c].pc = "idle"
    /\ \E m \in ApModels :
          apCall' = ApWatched([apCall EXCEPT ![c] = [ApIdle EXCEPT !.pc = "write", !.model = m]])
    /\ UNCHANGED <<apFile, apSources, apServer, apDbt, apCache, apAudit, apGood, apOwn, apFaults>>

\* _write_model_files of the text of this stage; the first write drops the proposals.
ApWrite(c) ==
    /\ apCall[c].pc = "write"
    /\ LET call == apCall[c] IN
       /\ \E semi \in BOOLEAN :
             /\ call.stage = "passthrough" => ~semi
             /\ apFile' = [apFile EXCEPT ![call.model] =
                              [text |-> <<c, call.stage>>, semi |-> semi]]
       /\ apCache' = IF call.stage = "proposed" THEN apCache \ {call.model} ELSE apCache
       /\ apOwn' = ApStillOwn(call.model, <<c, call.stage>>) \cup {c}
       /\ ApSet(c, [call EXCEPT !.pc = "scan", !.todo = ApModels])
    /\ UNCHANGED <<apSources, apServer, apDbt, apAudit, apGood, apFaults>>

\* _sanitize_generated_sql_files reads every model file of the project ...
ApScan(c) ==
    /\ apCall[c].pc = "scan"
    /\ \E m \in apCall[c].todo :
          ApSet(c, IF apFile[m].semi
                   THEN [apCall[c] EXCEPT !.pc = "trim", !.todo = @ \ {m},
                                          !.at = m, !.read = apFile[m].text]
                   ELSE [apCall[c] EXCEPT !.todo = @ \ {m}])
    /\ UNCHANGED <<apFile, apSources, apServer, apDbt, apCache, apAudit, apGood, apOwn, apFaults>>

\* ... and writes what it read, trimmed, over whatever the file holds by now.
ApTrim(c) ==
    /\ apCall[c].pc = "trim"
    /\ LET call == apCall[c] IN
       /\ apFile' = [apFile EXCEPT ![call.at] = [text |-> call.read, semi |-> FALSE]]
       /\ apOwn' = ApStillOwn(call.at, call.read)
       /\ ApSet(c, [call EXCEPT !.pc = "scan", !.at = "none", !.read = <<>>])
    /\ UNCHANGED <<apSources, apServer, apDbt, apCache, apAudit, apGood, apFaults>>

\* _ensure_duckdb_sources_for_model connects, or does nothing if a dbt process is there.
ApConnect(c) ==
    /\ apCall[c].pc = "scan"
    /\ apCall[c].todo = {}
    /\ apServer' = IF apDbt = {} THEN apServer \cup {c} ELSE apServer
    /\ ApSet(c, [apCall[c] EXCEPT !.pc = IF apDbt = {} THEN "bootstrap" ELSE "run", !.tries = 0])
    /\ UNCHANGED <<apFile, apSources, apDbt, apCache, apAudit, apGood, apOwn, apFaults>>

\* The source of the model is dropped and created, and the connection closed.
ApBootstrap(c) ==
    /\ apCall[c].pc = "bootstrap"
    /\ apSources' = apSources \cup {apCall[c].model}
    /\ apServer' = apServer \ {c}
    /\ ApSet(c, [apCall[c] EXCEPT !.pc = "run"])
    /\ UNCHANGED <<apFile, apDbt, apCache, apAudit, apGood, apOwn, apFaults>>

ApAnswered(call, answer) ==
    [call EXCEPT !.pc = "answered", !.answer = answer, !.seen = <<>>, !.tries = 0]

\* A failed stage: the fix agent after the first, SELECT * after its fix, then the end.
ApFailed(call) ==
    CASE call.stage = "proposed"    -> [call EXCEPT !.pc = "fix"]
      [] call.stage = "fix"         -> [call EXCEPT !.pc = "write", !.stage = "passthrough"]
      [] call.stage = "passthrough" -> ApAnswered(call, "failed")

\* dbt run, then dbt test, take duckdb.db; _retry_on_duckdb_lock when it is held.
ApDbtStarts(c) ==
    /\ apCall[c].pc \in {"run", "test"}
    /\ LET call == apCall[c] IN
       IF apServer = {} /\ apDbt = {}
       THEN /\ apDbt' = {c}
            /\ ApSet(c, [call EXCEPT !.pc = IF @ = "run" THEN "running" ELSE "testing",
                                     !.seen = IF call.pc = "run" THEN apFile[call.model].text ELSE @])
       ELSE /\ ApSet(c, IF call.tries < ApRetries THEN [call EXCEPT !.tries = @ + 1]
                        ELSE ApFailed(call))
            /\ UNCHANGED apDbt
    /\ UNCHANGED <<apFile, apSources, apServer, apCache, apAudit, apGood, apOwn, apFaults>>

\* dbt run fails without the source, and on a semicolon; otherwise the text decides.
ApDbtRan(c) ==
    /\ apCall[c].pc = "running"
    /\ apDbt' = {}
    /\ LET call == apCall[c] IN
       ApSet(c, IF call.model \in apSources /\ ~apFile[call.model].semi
                THEN [call EXCEPT !.pc = "test", !.tries = 0] ELSE ApFailed(call))
    /\ UNCHANGED <<apFile, apSources, apServer, apCache, apAudit, apGood, apOwn, apFaults>>

\* A mutated end: the last resort counts as an approval.
ApPassedAnyhow(call) == [call EXCEPT !.pc = "record"]

\* A passed test ends the approval; a real one is to be recorded.
ApPassed(call) ==
    IF call.stage = "passthrough" THEN ApAnswered(call, "degraded_passthrough")
    ELSE [call EXCEPT !.pc = "record"]

\* The verdict of the tests on what dbt run has read.
ApDbtTested(c) ==
    /\ apCall[c].pc = "testing"
    /\ apDbt' = {}
    /\ LET call == apCall[c] IN
       \E good \in IF apGood[call.seen] = "open" THEN {"yes", "no"} ELSE {apGood[call.seen]} :
          /\ apGood' = [apGood EXCEPT ![call.seen] = good]
          /\ ApSet(c, IF good = "yes" THEN ApPassed(call) ELSE ApFailed(call))
    /\ UNCHANGED <<apFile, apSources, apServer, apCache, apAudit, apOwn, apFaults>>

\* explain_table_score, then append_decision: an exception of either is logged, and the
\* answer is the same.
ApRecord(c) ==
    /\ apCall[c].pc = "record"
    /\ apAudit' \in {apAudit, apAudit \cup {c}}
    /\ ApSet(c, ApAnswered(apCall[c], "approved"))
    /\ UNCHANGED <<apFile, apSources, apServer, apDbt, apCache, apGood, apOwn, apFaults>>

\* apply_fix: a correction that is usable, or the approval has failed.
ApFix(c) ==
    /\ apCall[c].pc = "fix"
    /\ \/ ApSet(c, [apCall[c] EXCEPT !.pc = "write", !.stage = "fix"])
       \/ ApSet(c, ApAnswered(apCall[c], "failed"))
    /\ UNCHANGED <<apFile, apSources, apServer, apDbt, apCache, apAudit, apGood, apOwn, apFaults>>

\* An exception of a write or of the agent: the answer is 500, the file stays.
ApRaise(c) ==
    /\ apCall[c].pc \in {"write", "fix"}
    /\ apFaults > 0
    /\ apFaults' = apFaults - 1
    /\ ApSet(c, ApAnswered(apCall[c], "error"))
    /\ UNCHANGED <<apFile, apSources, apServer, apDbt, apCache, apAudit, apGood, apOwn>>

-----------------------------------------------------------------------------

ApInit ==
    /\ apFile = [m \in ApModels |-> ApNoFile]
    /\ apSources = {}
    /\ apServer = {}
    /\ apDbt = {}
    /\ apCall = [c \in ApCalls |-> ApIdle]
    /\ apCache = {}
    /\ apAudit = {}
    /\ apGood = [t \in ApTexts |-> "open"]
    /\ apOwn = {}
    /\ apFaults = ApMaxFaults

ApNext ==
    \E c \in ApCalls :
       \/ ApPropose(c) \/ ApProposed(c)
       \/ ApApprove(c) \/ ApWrite(c) \/ ApScan(c) \/ ApTrim(c)
       \/ ApConnect(c) \/ ApBootstrap(c)
       \/ ApDbtStarts(c) \/ ApDbtRan(c) \/ ApDbtTested(c)
       \/ ApRecord(c) \/ ApFix(c) \/ ApRaise(c)

ApSpec == ApInit /\ [][ApNext]_apVars

ApTypeOK ==
    /\ apFile \in [ApModels -> [text : ApTexts \cup {<<>>}, semi : BOOLEAN]]
    /\ apSources \subseteq ApModels
    /\ apServer \subseteq ApCalls
    /\ apDbt \subseteq ApCalls /\ (apServer = {} \/ apDbt = {})
    /\ apCache \subseteq ApModels
    /\ apAudit \subseteq ApCalls
    /\ apGood \in [ApTexts -> {"open", "yes", "no"}]
    /\ apOwn \subseteq ApCalls
    /\ \A c \in ApCalls : apCall[c].answer \in ApAnswers \cup {"none"}

\* The answer of an approval tells the truth on the file it leaves, whatever other approvals
\* do beside it, unless one of them puts another text into that file: "approved" and the
\* audited decision mean a text that dbt accepted and that is not the last resort,
\* "degraded_passthrough" means the last resort, accepted. An approval that ran alone has
\* not called a text failed that dbt accepts.
ApAnswerTrue ==
    \A c \in ApCalls :
       LET call == apCall[c]
           left == apFile[call.model].text
       IN c \in apOwn /\ call.pc = "answered" /\ call.answer # "error" =>
            /\ call.answer # "failed" =>
                  /\ apGood[left] = "yes"
                  /\ call.answer = "approved" <=> left[2] # "passthrough"
            /\ c \in apAudit => apGood[left] = "yes" /\ left[2] # "passthrough"
            /\ call.alone /\ call.answer = "failed" => apGood[left] # "yes"
=============================================================================
