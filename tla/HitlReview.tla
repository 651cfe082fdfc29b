------------------------------ MODULE HitlReview ------------------------------
(***************************************************************************)
(* Reviewing the alias mappings of one report. Requests of the HTTP API    *)
(* run in threads of the server; a tab of the Streamlit dashboard is a     *)
(* writer of its own, in a process of its own. They share the sidecar of   *)
(* the decisions, which has two possible places and no lock, and the       *)
(* report: a copy in REPORT_STORE for the API, report.json for both.       *)
(***************************************************************************)
EXTENDS Naturals

CONSTANTS
    HrRequests,   \* calls of the API
    HrTabs,       \* sessions of the dashboard
    HrRows,       \* signatures of the review candidates
    HrMaxCalls,   \* bound: decisions that are started
    HrMaxEvents   \* bound: reloads, restarts, permission changes, failures

ASSUME HrAssumption ==
    /\ HrRequests \cap HrTabs = {}
    /\ HrMaxCalls \in Nat
    /\ HrMaxEvents \in Nat

VARIABLES
    hrFile,     \* the sidecar, in either place
    hrWritable, \* whether the directory of the report can be written
    hrStore,    \* alias_merge of the report in REPORT_STORE
    hrDisk,     \* alias_merge of report.json
    hrTab,      \* st.session_state.hitl of each tab
    hrCall,     \* what each request and each tab is doing
    hrLeft,     \* calls and events still to come
    hrAsked,    \* history: every verdict anybody gave on a row
    hrLedger,   \* history: the last verdict saved on each row
    hrDue,      \* history: rows whose verdict was to be applied at once
    hrClean     \* history: nobody got in anybody's way so far

hrVars == <<hrFile, hrWritable, hrStore, hrDisk, hrTab, hrCall, hrLeft,
            hrAsked, hrLedger, hrDue, hrClean>>
hrFiles == <<hrFile, hrWritable, hrStore, hrDisk, hrTab>>
hrGhosts == <<hrAsked, hrLedger, hrDue, hrClean>>

HrClerks == HrRequests \cup HrTabs
HrPlaces == {"adjacent", "store"}
HrVerdicts == {"approved", "rejected"}
HrNothing == [x \in HrRows |-> "none"]
HrSidecar == [is : {"absent", "torn", "whole"},
              dec : [HrRows -> HrVerdicts \cup {"none"}]]
HrMerge == [review : SUBSET HrRows, merged : SUBSET HrRows, trash : SUBSET HrRows]
HrFresh == [review |-> HrRows, merged |-> {}, trash |-> {}]

\* get_hitl_path: beside the report when that directory is writable.
HrWritePlace == IF hrWritable THEN "adjacent" ELSE "store"

\* A sidecar that is absent or cannot be parsed holds no decisions.
HrDecisionsIn(f) == IF f.is = "whole" THEN f.dec ELSE HrNothing

\* A mutated reading order: the adjacent file hides the store.
HrDecisionsAdjacentFirst ==
    HrDecisionsIn(hrFile[IF hrFile["adjacent"].is # "absent" THEN "adjacent" ELSE "store"])

\* _load_hitl_for_report: the store first, and the adjacent file only if there is none.
HrDecisions ==
    HrDecisionsIn(hrFile[IF hrFile["store"].is # "absent" THEN "store" ELSE "adjacent"])

\* What a decision changes in the decisions that were loaded.
HrAmended(dec, rows, verdict) ==
    [x \in HrRows |-> IF x \in rows THEN verdict ELSE dec[x]]

\* apply_hitl_to_report, on a copy: a row that is no candidate any more stays put.
HrApplied(am, dec) ==
    [review |-> {x \in am.review : dec[x] = "none"},
     merged |-> am.merged \cup {x \in am.review : dec[x] = "approved"},
     trash  |-> am.trash \cup {x \in am.review : dec[x] = "rejected"}]

\* _build_queue_items: the candidates without a decision.
HrPending(am, dec) == {x \in am.review : dec[x] = "none"}

HrIdle == [pc |-> "idle", act |-> "none", rows |-> {}, batch |-> FALSE, auto |-> FALSE,
           at |-> "adjacent", dec |-> HrNothing, view |-> HrFresh]

HrSet(c, fields) == hrCall' = [hrCall EXCEPT ![c] = fields]
HrBusy(c) == hrCall[c].pc \in {"open", "write", "fetch", "publish"}
HrAlone(c) == \A d \in HrClerks \ {c} : ~HrBusy(d)

-----------------------------------------------------------------------------
(* Requests *)

\* POST /decision, /decisions/batch and /apply: the report is fetched first.
HrAsk(c) ==
    /\ hrCall[c].pc = "idle"
    /\ hrLeft.calls > 0
    /\ \E act \in HrVerdicts \cup {"none", "apply"}, rows \in SUBSET HrRows,
          batch \in BOOLEAN, auto \in BOOLEAN :
          /\ act = "apply" => rows = {} /\ ~batch /\ auto
          /\ act = "none" => ~batch
          /\ ~batch /\ act # "apply" => \E x \in HrRows : rows = {x}
          /\ HrSet(c, [HrIdle EXCEPT !.pc = "load", !.act = act, !.rows = rows,
                                     !.batch = batch, !.auto = auto, !.view = hrStore])
          /\ hrAsked' = IF act = "apply" THEN hrAsked ELSE hrAsked \cup (rows \X {act})
    /\ hrLeft' = [hrLeft EXCEPT !.calls = @ - 1]
    /\ UNCHANGED <<hrFiles, hrLedger, hrDue, hrClean>>

\* The place is chosen and the decisions are read; a batch takes only what is pending.
HrLoad(c) ==
    /\ hrCall[c].pc = "load"
    /\ LET call == hrCall[c]
           rows == IF call.batch THEN call.rows \cap HrPending(call.view, HrDecisions)
                   ELSE call.rows
       IN HrSet(c, IF call.act = "apply"
                   THEN [call EXCEPT !.pc = "publish", !.dec = HrDecisions]
                   ELSE [call EXCEPT !.pc = "open", !.at = HrWritePlace, !.rows = rows,
                                     !.dec = HrAmended(HrDecisions, rows, call.act)])
    /\ hrClean' = (hrClean /\ HrAlone(c))
    /\ UNCHANGED <<hrFiles, hrLeft, hrAsked, hrLedger, hrDue>>

\* write_text empties the file ...
HrOpen(c) ==
    /\ hrCall[c].pc = "open"
    /\ hrFile' = [hrFile EXCEPT ![hrCall[c].at] = [is |-> "torn", dec |-> HrNothing]]
    /\ HrSet(c, [hrCall[c] EXCEPT !.pc = "write"])
    /\ UNCHANGED <<hrWritable, hrStore, hrDisk, hrTab, hrLeft, hrGhosts>>

\* ... and writes all decisions of this call.
HrWrite(c) ==
    /\ hrCall[c].pc = "write"
    /\ LET call == hrCall[c] IN
       /\ hrFile' = [hrFile EXCEPT ![call.at] = [is |-> "whole", dec |-> call.dec]]
       /\ HrSet(c, IF c \in HrRequests /\ call.auto THEN [call EXCEPT !.pc = "fetch"]
                   ELSE HrIdle)
       /\ hrLedger' = HrAmended(hrLedger, call.rows, call.act)
       /\ hrDue' = IF c \in HrRequests /\ call.auto /\ call.act # "none"
                   THEN hrDue \cup call.rows ELSE hrDue \ call.rows
    /\ UNCHANGED <<hrWritable, hrStore, hrDisk, hrTab, hrLeft, hrAsked, hrClean>>

\* The write fails once the file is open: the answer is 500.
HrWriteFails(c) ==
    /\ hrCall[c].pc = "write"
    /\ hrLeft.events > 0
    /\ HrSet(c, HrIdle)
    /\ hrLeft' = [hrLeft EXCEPT !.events = @ - 1]
    /\ hrClean' = FALSE
    /\ UNCHANGED <<hrFiles, hrAsked, hrLedger, hrDue>>

\* auto_apply: the report is fetched again ...
HrFetch(c) ==
    /\ hrCall[c].pc = "fetch"
    /\ HrSet(c, [hrCall[c] EXCEPT !.pc = "publish", !.view = hrStore])
    /\ UNCHANGED <<hrFiles, hrLeft, hrGhosts>>

\* ... and the applied copy of it replaces whatever REPORT_STORE has by now.
HrPublish(c) ==
    /\ hrCall[c].pc = "publish"
    /\ hrStore' = HrApplied(hrCall[c].view, hrCall[c].dec)
    /\ HrSet(c, HrIdle)
    /\ UNCHANGED <<hrFile, hrWritable, hrDisk, hrTab, hrLeft, hrGhosts>>

\* POST /report/load: the file as it is, without the sidecar.
HrReload ==
    /\ hrLeft.events > 0
    /\ hrStore' = hrDisk
    /\ hrDue' = {}
    /\ hrLeft' = [hrLeft EXCEPT !.events = @ - 1]
    /\ hrClean' = (hrClean /\ \A c \in HrRequests : hrCall[c].pc \in {"idle", "load"})
    /\ UNCHANGED <<hrFile, hrWritable, hrDisk, hrTab, hrCall, hrAsked, hrLedger>>

\* The server stops in the middle of its calls; every call waits for a new load.
HrRestart ==
    /\ hrLeft.events > 0
    /\ hrStore' = hrDisk
    /\ hrDue' = {}
    /\ hrCall' = [c \in HrClerks |-> IF c \in HrRequests THEN HrIdle ELSE hrCall[c]]
    /\ hrLeft' = [hrLeft EXCEPT !.events = @ - 1]
    /\ hrClean' = (hrClean /\ \A c \in HrRequests : hrCall[c].pc # "write")
    /\ UNCHANGED <<hrFile, hrWritable, hrDisk, hrTab, hrAsked, hrLedger>>

\* The directory of the report becomes writable, or stops being so.
HrRemount ==
    /\ hrLeft.events > 0
    /\ hrWritable' = ~hrWritable
    /\ hrLeft' = [hrLeft EXCEPT !.events = @ - 1]
    /\ hrClean' = (hrClean /\ (hrWritable \/ hrFile["store"].is = "absent")
                           /\ \A c \in HrClerks : ~HrBusy(c))
    /\ UNCHANGED <<hrFile, hrStore, hrDisk, hrTab, hrCall, hrAsked, hrLedger, hrDue>>

-----------------------------------------------------------------------------
(* The review tab of the dashboard *)

\* A new report key, or Reload from Disk: only the adjacent sidecar is read.
HrTabLoad(t) ==
    /\ hrCall[t].pc = "idle"
    /\ hrTab' = [hrTab EXCEPT ![t] = HrDecisionsIn(hrFile["adjacent"])]
    /\ UNCHANGED <<hrFile, hrWritable, hrStore, hrDisk, hrCall, hrLeft, hrGhosts>>

\* Approve or Reject of a row the tab still shows saves the session's decisions whole.
\* In a directory that cannot be written the save raises after the session changed.
HrTabDecide(t) ==
    /\ hrCall[t].pc = "idle"
    /\ hrLeft.calls > 0
    /\ \E x \in HrApplied(hrDisk, hrTab[t]).review, verdict \in HrVerdicts :
          LET dec == HrAmended(hrTab[t], {x}, verdict) IN
          /\ hrTab' = [hrTab EXCEPT ![t] = dec]
          /\ IF hrWritable
             THEN HrSet(t, [HrIdle EXCEPT !.pc = "open", !.act = verdict,
                                          !.rows = {x}, !.dec = dec])
             ELSE UNCHANGED hrCall
          /\ hrAsked' = hrAsked \cup {<<x, verdict>>}
          /\ hrClean' = (hrClean /\ hrWritable /\ HrAlone(t) /\ hrTab[t] = HrDecisions)
    /\ hrLeft' = [hrLeft EXCEPT !.calls = @ - 1]
    /\ UNCHANGED <<hrFile, hrWritable, hrStore, hrDisk, hrLedger, hrDue>>

\* Confirm Submit: report.json is overwritten by the report with the session's decisions.
HrTabSubmit(t) ==
    /\ hrCall[t].pc = "idle"
    /\ hrWritable
    /\ hrDisk' = HrApplied(hrDisk, hrTab[t])
    /\ UNCHANGED <<hrFile, hrWritable, hrStore, hrTab, hrCall, hrLeft, hrGhosts>>

-----------------------------------------------------------------------------

HrInit ==
    /\ hrFile = [p \in HrPlaces |-> [is |-> "absent", dec |-> HrNothing]]
    /\ hrWritable \in BOOLEAN
    /\ hrStore = HrFresh
    /\ hrDisk = HrFresh
    /\ hrTab = [t \in HrTabs |-> HrNothing]
    /\ hrCall = [c \in HrClerks |-> HrIdle]
    /\ hrLeft = [calls |-> HrMaxCalls, events |-> HrMaxEvents]
    /\ hrAsked = {}
    /\ hrLedger = HrNothing
    /\ hrDue = {}
    /\ hrClean = TRUE

HrNext ==
    \/ \E c \in HrRequests : HrAsk(c) \/ HrLoad(c) \/ HrFetch(c) \/ HrPublish(c)
    \/ \E c \in HrClerks : HrOpen(c) \/ HrWrite(c) \/ HrWriteFails(c)
    \/ \E t \in HrTabs : HrTabLoad(t) \/ HrTabDecide(t) \/ HrTabSubmit(t)
    \/ HrReload \/ HrRestart \/ HrRemount

HrSpec == HrInit /\ [][HrNext]_hrVars

HrTypeOK ==
    /\ hrFile \in [HrPlaces -> HrSidecar]
    /\ hrWritable \in BOOLEAN
    /\ hrStore \in HrMerge
    /\ hrDisk \in HrMerge
    /\ hrTab \in [HrTabs -> [HrRows -> HrVerdicts \cup {"none"}]]
    /\ \A c \in HrClerks :
          /\ hrCall[c].pc \in {"idle", "load", "open", "write", "fetch", "publish"}
          /\ hrCall[c].at \in HrPlaces
          /\ hrCall[c].view \in HrMerge

HrUndecided(am) == HrRows \ (am.merged \cup am.trash)

\* No row of the report is lost or doubled, and a mapping is merged only if somebody
\* approved it and dropped only if somebody rejected it.
HrNothingInvented ==
    \A am \in {hrStore, hrDisk} :
       /\ am.review = HrUndecided(am)
       /\ am.merged \cap am.trash = {}
       /\ \A x \in am.merged : <<x, "approved">> \in hrAsked
       /\ \A x \in am.trash : <<x, "rejected">> \in hrAsked

\* Whatever the writers do to each other, an applied report shows no verdict nobody gave
\* (apply_hitl_to_report on copies that may be old). As long as no two writers overlap,
\* no tab saves an old session, no write is cut off and the sidecar does not move back
\* from the store to the report's directory, every verdict that was saved is the one that
\* is read back, also after a move to the store, and auto_apply has taken the row out of
\* the review queue.
HrDecisionsKept ==
    /\ HrNothingInvented
    /\ hrClean /\ (\A c \in HrClerks : ~HrBusy(c))
          => /\ HrDecisions = hrLedger
             /\ hrDue \cap hrStore.review = {}

\* USER_GUIDE.md: decisions persist automatically. A verdict that was saved stays
\* until somebody decides on the row again. The code does not keep this.
HrDecisionsPersist ==
    (\A c \in HrClerks : ~HrBusy(c))
       => \A x \in HrRows : hrLedger[x] # "none" => HrDecisions[x] # "none"
=============================================================================
