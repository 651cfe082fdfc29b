------------------------------- MODULE AgentTurn -------------------------------
(***************************************************************************)
(* One conversation with the migration agent: the tool loop of             *)
(* run_agent_turn and, in the dashboard, the approvals that continue a     *)
(* wave table by table. The conversation is also the memory of the wave:   *)
(* its scope is read back from the messages, and the messages are cut to   *)
(* the last fourteen whenever the model is called.                         *)
(***************************************************************************)
EXTENDS Integers, FiniteSets

CONSTANTS
    AgWaves,    \* numbers of the waves
    AgTables,   \* the tables of each wave, numbered in the order of their names
    AgKeep,     \* messages kept when the history is cut (14 in the code)
    AgSteps,    \* max_steps of a turn (12 in the code)
    AgBefore,   \* messages of an earlier session
    AgMaxAsks,  \* bound: messages of the user
    AgMaxClicks \* bound: approvals and skips

ASSUME AgAssumption ==
    /\ AgKeep \in Nat \ {0} /\ AgSteps \in Nat \ {0} /\ AgBefore \in Nat
    /\ AgMaxAsks \in Nat /\ AgMaxClicks \in Nat
    /\ 0 \notin AgWaves
    /\ \A w \in AgWaves : AgTables[w] \subseteq Nat \ {0} /\ IsFiniteSet(AgTables[w])

VARIABLES
    agLog,      \* length of the messages, and how far back the known ones are
    agTurn,     \* the turn that is running
    agPending,  \* pending_write: what waits for an approval
    agDone,     \* model_status_by_name: tables with SUCCESS
    agWave,     \* history: the wave the user asked for last, 0 if none
    agOffer,    \* history: the table the dashboard offered last, and the wave then
    agHeard,    \* history: every call of this turn has seen the question
    agLeft      \* messages and clicks of the user still to come

agVars == <<agLog, agTurn, agPending, agDone, agWave, agOffer, agHeard, agLeft>>

AgAll == UNION {AgTables[w] : w \in AgWaves}
AgNoTable == 0
AgIdle == [pc |-> "idle", step |-> 0, back |-> 0, continue |-> FALSE]

\* Ages: 0 when the message is not in the history, 1 for the last message.
AgAged(age, n) == IF age = 0 THEN 0 ELSE age + n
AgAppended(log, n) ==
    [log EXCEPT !.len = @ + n, !.ask = AgAged(@, n), !.waves = AgAged(@, n)]

\* A mutated cut: ten messages are kept.
AgCutShort(log) ==
    IF log.len + log.system <= AgKeep + 1 THEN log
    ELSE [log EXCEPT !.len = AgKeep - 4,
                     !.ask = IF @ > AgKeep - 4 THEN 0 ELSE @,
                     !.waves = IF @ > AgKeep - 4 THEN 0 ELSE @]

\* _llm_payload_from_state: more than fifteen messages are cut to the system message
\* and the last fourteen others.
AgCut(log) ==
    IF log.len + log.system <= AgKeep + 1 THEN log
    ELSE [log EXCEPT !.len = IF @ > AgKeep THEN AgKeep ELSE @,
                     !.ask = IF @ > AgKeep THEN 0 ELSE @,
                     !.waves = IF @ > AgKeep THEN 0 ELSE @]

\* _extract_wave_scope_from_messages: the tables of the wave the last request names,
\* of every wave when no request is left, and none without a result of list_waves.
AgScope ==
    IF agLog.waves = 0 THEN {}
    ELSE IF agLog.ask # 0 THEN AgTables[agWave] ELSE AgAll

\* A message of the user, which names a wave or none.
AgAsk ==
    /\ agTurn.pc = "idle"
    /\ agLeft.asks > 0
    /\ agLeft' = [agLeft EXCEPT !.asks = @ - 1]
    /\ \/ \E w \in AgWaves :
             /\ agLog' = [AgAppended(agLog, 1) EXCEPT !.ask = 1]
             /\ agWave' = w
       \/ /\ agLog' = AgAppended(agLog, 1)
          /\ UNCHANGED agWave
    /\ agTurn' = [AgIdle EXCEPT !.pc = "model", !.back = 1]
    /\ agHeard' = TRUE
    /\ UNCHANGED <<agPending, agDone, agOffer>>

\* What follows a turn: the dashboard continues the wave after an approval.
AgAfterTurn == IF agTurn.continue THEN [AgIdle EXCEPT !.pc = "continue"] ELSE AgIdle

AgReply(log) ==
    /\ agLog' = AgAppended(log, 1)
    /\ agTurn' = AgAfterTurn
    /\ UNCHANGED agPending

\* The next step of the loop, or the message that the steps are used up.
AgLoop(log) ==
    IF agTurn.step + 1 < AgSteps
    THEN /\ agLog' = log
         /\ agTurn' = [agTurn EXCEPT !.step = @ + 1, !.back = AgAged(@, 1)]
    ELSE /\ agLog' = AgAppended(log, 1)
         /\ agTurn' = AgAfterTurn

\* _dispatch_tool: the result of a tool, or its exception, is appended; list_waves tells
\* the waves, and a request to write ends the turn and waits.
AgTool(log) ==
    \/ /\ \E waves \in {AgAged(log.waves, 1), 1} :
             AgLoop([AgAppended(log, 1) EXCEPT !.waves = waves])
       /\ UNCHANGED agPending
    \/ /\ agPending' \in AgAll
       /\ agLog' = AgAppended(log, 1)
       /\ agTurn' = AgAfterTurn

\* One call of the model: an error of the provider or a final message ends the turn,
\* and an answer that asks for nothing is appended as an error of its own.
AgModel ==
    /\ agTurn.pc = "model"
    /\ LET log == AgCut(agLog) IN
       /\ agHeard' = (agHeard /\ agTurn.back <= log.len)
       /\ \/ AgReply(log)
          \/ /\ AgLoop(AgAppended(log, 1))
             /\ UNCHANGED agPending
          \/ AgTool(log)
    /\ UNCHANGED <<agDone, agWave, agOffer, agLeft>>

\* Without a key the turn ends before the first call.
AgNoKey ==
    /\ agTurn.pc = "model"
    /\ agTurn.step = 0
    /\ AgReply(agLog)
    /\ UNCHANGED <<agDone, agWave, agOffer, agHeard, agLeft>>

AgClick ==
    /\ agPending \in AgAll
    /\ agLeft.clicks > 0
    /\ agLeft' = [agLeft EXCEPT !.clicks = @ - 1]

\* Approve: the model is written and tested; a success is told to the agent.
AgApprovePassed ==
    /\ agTurn.pc = "idle"
    /\ AgClick
    /\ agDone' = agDone \cup {agPending}
    /\ agPending' = AgNoTable
    /\ \E edited \in {0, 1} : agLog' = AgAppended(agLog, edited + 1)
    /\ agTurn' = [AgIdle EXCEPT !.pc = "model", !.continue = TRUE]
    /\ agHeard' = TRUE
    /\ UNCHANGED <<agWave, agOffer>>

\* A failed test: the correction of the fix agent waits instead, when there is one.
AgApproveFailed ==
    /\ agTurn.pc = "idle"
    /\ AgClick
    /\ agDone' = agDone \ {agPending}
    /\ agPending' \in {agPending, AgNoTable}
    /\ agLog' = AgAppended(agLog, 1)
    /\ UNCHANGED <<agTurn, agWave, agOffer, agHeard>>

\* Skip drops the write and tells the agent so.
AgSkip ==
    /\ agTurn.pc = "idle"
    /\ AgClick
    /\ agPending' = AgNoTable
    /\ agLog' = AgAppended(agLog, 1)
    /\ agTurn' = [AgIdle EXCEPT !.pc = "model"]
    /\ agHeard' = TRUE
    /\ UNCHANGED <<agDone, agWave, agOffer>>

\* Auto-continue: the first table of the scope without SUCCESS is analysed, proposed
\* and offered, unless a write waits already; an exception is only reported.
AgContinue ==
    /\ agTurn.pc = "continue"
    /\ agTurn' = AgIdle
    /\ LET remaining == AgScope \ agDone IN
       IF remaining = {} \/ agPending # AgNoTable
       THEN UNCHANGED <<agLog, agPending, agOffer>>
       ELSE LET next == CHOOSE t \in remaining : \A u \in remaining : t <= u IN
            \/ /\ agLog' = AgAppended(agLog, 3)
               /\ agPending' = next
               /\ agOffer' = <<next, agWave>>
            \/ /\ \E done \in 0..2 : agLog' = AgAppended(agLog, done + 1)
               /\ UNCHANGED <<agPending, agOffer>>
    /\ UNCHANGED <<agDone, agWave, agHeard, agLeft>>

\* Clear Agent Chat.
AgClear ==
    /\ agTurn.pc = "idle"
    /\ agLog.len > 0
    /\ agLog' = [len |-> 0, system |-> 0, ask |-> 0, waves |-> 0]
    /\ agPending' = AgNoTable
    /\ agDone' = {}
    /\ agWave' = 0
    /\ UNCHANGED <<agTurn, agOffer, agHeard, agLeft>>

\* A dashboard starts without a system message, a client of the API with one; a client
\* that resubmits its state may bring the messages of an earlier session.
AgInit ==
    /\ agLog \in {[len |-> n, system |-> s, ask |-> 0, waves |-> 0] :
                     n \in {0, AgBefore}, s \in {0, 1}}
    /\ agTurn = AgIdle
    /\ agPending = AgNoTable
    /\ agDone = {}
    /\ agWave = 0
    /\ agOffer = <<>>
    /\ agHeard = TRUE
    /\ agLeft = [asks |-> AgMaxAsks, clicks |-> AgMaxClicks]

AgNext ==
    \/ AgAsk \/ AgModel \/ AgNoKey
    \/ AgApprovePassed \/ AgApproveFailed \/ AgSkip \/ AgContinue
    \/ AgClear

AgSpec == AgInit /\ [][AgNext]_agVars

AgTypeOK ==
    /\ agLog.len \in Nat /\ agLog.ask <= agLog.len /\ agLog.waves <= agLog.len
    /\ agTurn.pc \in {"idle", "model", "continue"} /\ agTurn.step \in 0..(AgSteps - 1)
    /\ agPending \in AgAll \cup {AgNoTable}
    /\ agDone \subseteq AgAll

\* However long a turn takes, the cut of the history never drops the question the
\* model works on (max_steps and the fourteen messages are constants of their own).
AgQuestionSeen == agHeard

\* MIGRATION.md: a successful approval auto-prepares the next table in the wave; it
\* offers no table of another wave than the one the user asked for. The code does not
\* keep it.
AgOffersInWave ==
    agOffer # <<>> /\ agOffer[2] # 0 => agOffer[1] \in AgTables[agOffer[2]]
=============================================================================
