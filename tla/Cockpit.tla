-------------------------------- MODULE Cockpit --------------------------------
(***************************************************************************)
(* The cockpit's analyses of models and waves. Every one loads             *)
(* model_insights.json, adds its result and saves the file whole, without  *)
(* a lock, on both sides of slow calls of AI agents. What is loaded is     *)
(* cached by the file's mtime and changed in place, so that calls that     *)
(* loaded the same version share one object. Fixes proposed by the AI pass *)
(* through a temporary file per model.                                     *)
(***************************************************************************)
EXTENDS Naturals

CONSTANTS
    CkCalls,    \* analyses; each has a result of its own
    CkFixes,    \* fixes for one model
    CkMaxTime,  \* bound: ticks of the file system's clock
    CkMaxRuns   \* bound: Checkpoint-A generations

ASSUME CkAssumption == CkMaxTime \in Nat /\ CkMaxRuns \in Nat

VARIABLES
    ckFile,   \* model_insights.json: [is, mtime, has]; "torn" while it is written
    ckCache,  \* the lru_cache: mtime -> object, and what the objects hold
    ckCall,   \* analysis -> [pc, kind, obj, text]
    ckClock,
    ckRuns,   \* generations done
    ckTmp,    \* <model>.ai_fix.sql: a fix, or "none"
    ckModel,  \* the model's SQL: a fix, or "none"
    ckFix,    \* fix -> step
    ckSeen,   \* history: analysis -> version of the file at its load, at its dump
    ckWrites, \* history: writes of the file; its version
    ckRaced,  \* history: a write that could not know the one before it
    ckOwed    \* history: results saved since the last generation

ckFixVars == <<ckTmp, ckModel, ckFix>>
ckStore == <<ckFile, ckCache, ckClock, ckRuns, ckSeen, ckWrites, ckRaced, ckOwed>>
ckVars == <<ckFile, ckCache, ckCall, ckClock, ckRuns, ckTmp, ckModel, ckFix,
            ckSeen, ckWrites, ckRaced, ckOwed>>

\* The cache has one object per mtime that was looked up (up to 8; 0 is that of no file).
CkTimes == 0..CkMaxTime + 1
CkNoObject == [made |-> FALSE, has |-> {}]

CkIdle == [pc |-> "idle", kind |-> "early", obj |-> 0, text |-> {}]

CkInit ==
    /\ ckFile = [is |-> "missing", mtime |-> 0, has |-> {}]
    /\ ckCache = [t \in CkTimes |-> CkNoObject]
    /\ ckCall = [a \in CkCalls |-> CkIdle]
    /\ ckClock = 1
    /\ ckRuns = 0
    /\ ckTmp = "none"
    /\ ckModel = "none"
    /\ ckFix = [x \in CkFixes |-> "idle"]
    /\ ckSeen = [a \in CkCalls |-> [load |-> 0, dump |-> 0]]
    /\ ckWrites = 0
    /\ ckRaced = FALSE
    /\ ckOwed = {}

\* A mutated key: the path alone.
CkKeyOfPath(file) == 0

\* The key of the cache: the path and the file's mtime.
CkKey(file) == file.mtime

\* What a miss reads: a file that is missing or being written counts as an empty one.
CkParsed(file) == IF file.is = "whole" THEN file.has ELSE {}

CkGo(a, pc) == ckCall' = [ckCall EXCEPT ![a].pc = pc]

CkBegin(a, kind, pc) ==
    /\ ckCall[a].pc = "idle"
    /\ ckCall' = [ckCall EXCEPT ![a] = [pc |-> pc, kind |-> kind, obj |-> 0, text |-> {}]]
    /\ UNCHANGED <<ckStore, ckFixVars>>

\* Risk and wave analyses load before they ask the agents.
CkEarly(a) == CkBegin(a, "early", "load")

\* Synthetic data and chat load after.
CkLate(a) == CkBegin(a, "late", "asking")

\* A synthetic dataset that is not approved, or too large, ends at once.
CkRefuse(a) ==
    /\ ckCall[a].pc = "idle"
    /\ CkGo(a, "over")
    /\ UNCHANGED <<ckStore, ckFixVars>>

CkLoad(a) ==
    /\ ckCall[a].pc = "load"
    /\ LET key == CkKey(ckFile)
       IN  /\ ckCache' = IF ckCache[key].made THEN ckCache
                         ELSE [ckCache EXCEPT ![key] = [made |-> TRUE, has |-> CkParsed(ckFile)]]
           /\ ckCall' = [ckCall EXCEPT
                            ![a].obj = key,
                            ![a].pc = IF ckCall[a].kind = "early" THEN "asking" ELSE "put"]
    /\ ckSeen' = [ckSeen EXCEPT ![a].load = ckWrites]
    /\ ckRaced' = (ckRaced \/ ckFile.is = "torn")
    /\ UNCHANGED <<ckFile, ckClock, ckRuns, ckWrites, ckOwed, ckFixVars>>

\* query_openai_json: a usable answer, one of the errors, or a refused key. Without a key it
\* is not asked, which counts as an error.
CkQueried == {"answer", "error", "refused"}

\* An error is answered with a fallback; what is raised (a refused key, a confidence that
\* is no number) ends the analysis, and nothing is saved.
CkAnswer(a) ==
    /\ ckCall[a].pc = "asking"
    /\ \E q \in CkQueried :
          CkGo(a, IF q = "refused" THEN "over"
                  ELSE IF ckCall[a].kind = "early" THEN "put" ELSE "load")
    /\ UNCHANGED <<ckStore, ckFixVars>>

\* The shared object is changed and dumped.
CkPut(a) ==
    /\ ckCall[a].pc = "put"
    /\ LET has == ckCache[ckCall[a].obj].has \cup {a}
       IN  /\ ckCache' = [ckCache EXCEPT ![ckCall[a].obj].has = has]
           /\ ckCall' = [ckCall EXCEPT ![a] = [pc |-> "truncate", kind |-> ckCall[a].kind,
                                               obj |-> ckCall[a].obj, text |-> has]]
           \* the file was written from another object meanwhile
           /\ ckRaced' = (ckRaced \/ (ckSeen[a].load # ckWrites /\ ~(ckFile.has \subseteq has)))
    /\ ckSeen' = [ckSeen EXCEPT ![a].dump = ckWrites]
    /\ UNCHANGED <<ckFile, ckClock, ckRuns, ckWrites, ckOwed, ckFixVars>>

\* write_text empties the file and fills it.
CkTruncate(a) ==
    /\ ckCall[a].pc = "truncate"
    /\ ckFile' = [ckFile EXCEPT !.is = "torn", !.mtime = ckClock]
    /\ CkGo(a, "write")
    /\ ckRaced' = (ckRaced \/ ckFile.is = "torn" \/ ckSeen[a].dump # ckWrites)
    /\ UNCHANGED <<ckCache, ckClock, ckRuns, ckSeen, ckWrites, ckOwed, ckFixVars>>

\* Two versions of one mtime cannot be told apart.
CkWrite(a) ==
    /\ ckCall[a].pc = "write"
    /\ ckFile' = [is |-> "whole", mtime |-> ckClock, has |-> ckCall[a].text]
    /\ CkGo(a, "over")
    /\ ckWrites' = ckWrites + 1
    /\ ckOwed' = ckOwed \cup {a}
    /\ ckRaced' = (ckRaced \/ ckFile.is = "whole" \/ ckCache[ckClock].made)
    /\ UNCHANGED <<ckCache, ckClock, ckRuns, ckSeen, ckFixVars>>

\* A Checkpoint-A generation saves a payload of its own: what is owed starts anew.
CkGenerate ==
    /\ ckRuns < CkMaxRuns
    /\ ckRuns' = ckRuns + 1
    /\ ckFile' = [is |-> "whole", mtime |-> ckClock, has |-> {"generation"}]
    /\ ckWrites' = ckWrites + 1
    /\ ckOwed' = {"generation"}
    /\ ckRaced' = (ckRaced \/ ckFile.is = "torn" \/ ckCache[ckClock].made
                           \/ \E a \in CkCalls : ckCall[a].pc \in {"truncate", "write"})
    /\ UNCHANGED <<ckCache, ckCall, ckClock, ckSeen, ckFixVars>>

CkTick ==
    /\ ckClock < CkMaxTime
    /\ ckClock' = ckClock + 1
    /\ UNCHANGED <<ckFile, ckCache, ckCall, ckRuns, ckSeen, ckWrites, ckRaced, ckOwed, ckFixVars>>

\* apply_ai_fix_from_checkpoint: the temporary file, the approval of what it holds (an
\* error when another call has removed it), and its removal.
CkFixStep(x, from, to) ==
    ckFix[x] = from /\ ckFix' = [ckFix EXCEPT ![x] = to] /\ UNCHANGED <<ckStore, ckCall>>

CkFixTmp(x) == CkFixStep(x, "idle", "approve") /\ ckTmp' = x /\ UNCHANGED ckModel

CkFixApprove(x) ==
    /\ CkFixStep(x, "approve", "unlink")
    /\ ckModel' = IF ckTmp = "none" THEN ckModel ELSE ckTmp
    /\ UNCHANGED ckTmp

CkFixUnlink(x) == CkFixStep(x, "unlink", "over") /\ ckTmp' = "none" /\ UNCHANGED ckModel

\* No checkpoint for the model, or no temporary file: nothing is applied.
CkFixFails(x) == CkFixStep(x, "idle", "over") /\ UNCHANGED <<ckTmp, ckModel>>

CkNext ==
    \/ \E a \in CkCalls : \/ CkEarly(a) \/ CkLate(a) \/ CkRefuse(a) \/ CkLoad(a)
                          \/ CkAnswer(a) \/ CkPut(a) \/ CkTruncate(a) \/ CkWrite(a)
    \/ \E x \in CkFixes : \/ CkFixTmp(x) \/ CkFixApprove(x) \/ CkFixUnlink(x) \/ CkFixFails(x)
    \/ CkGenerate
    \/ CkTick

CkSpec == CkInit /\ [][CkNext]_ckVars

(* The variables stay in their ranges. *)
CkTypeOK ==
    /\ ckFile.is \in {"missing", "torn", "whole"}
    /\ ckFile.mtime \in CkTimes
    /\ ckFile.has \subseteq CkCalls \cup {"generation"}
    /\ \A t \in CkTimes : ckCache[t].has \subseteq CkCalls \cup {"generation"}
    /\ \A a \in CkCalls :
          /\ ckCall[a].pc \in {"idle", "load", "asking", "put", "truncate", "write", "over"}
          /\ ckCall[a].obj \in CkTimes
    /\ ckTmp \in CkFixes \cup {"none"} /\ ckModel \in CkFixes \cup {"none"}

(* An analysis that was shown to its user stays in model_insights.json, beside the    *)
(* others and what the generation wrote, while no write overtook another, no load met *)
(* a half-written file and no two versions got one mtime. Analyses that overlap       *)
(* otherwise lose nothing, because those that loaded the same version share the       *)
(* cached object, and a later one sees the new mtime ("part of the cache key to avoid *)
(* staleness after writes").                                                          *)
CkKept == ckRaced \/ ckFile.is = "torn" \/ ckOwed \subseteq ckFile.has
=============================================================================
