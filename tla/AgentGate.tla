------------------------------- MODULE AgentGate -------------------------------
(***************************************************************************)
(* The approval of a pending write of the agent. The dashboard checks the  *)
(* text before it writes, and holds back a correction of the fix agent     *)
(* that reads other tables; the API writes what its client sends. What is  *)
(* compared is the set of tables sqlglot finds in a text, and that set is  *)
(* empty when the text cannot be parsed.                                   *)
(***************************************************************************)
EXTENDS Naturals

CONSTANTS
    GtTables,   \* tables a text may read
    GtMaxTexts  \* bound: texts that are proposed, edited or corrected

ASSUME GtAssumption == GtMaxTexts \in Nat

VARIABLES
    gtPending, \* pending_write
    gtEdit,    \* manual_edit_mode
    gtFile,    \* the model file
    gtTested,  \* what is left to do after the write
    gtLeft,    \* texts still to come
    gtNamed,   \* history: relations the user was shown before they were written
    gtBlind    \* history: a text without readable relations took part

gtVars == <<gtPending, gtEdit, gtFile, gtTested, gtLeft, gtNamed, gtBlind>>

\* What the guards tell apart: the relations, a WHERE at the top, and other faults
\* (a text that does not parse has no relations and no WHERE that is seen).
GtTexts ==
    {t \in [refs : {{}} \cup {{r} : r \in GtTables}, filter : BOOLEAN, fault : BOOLEAN] :
        t.refs = {} => ~t.filter}
GtNoText == [refs |-> {}, filter |-> FALSE, fault |-> FALSE]
GtNone == [is |-> FALSE, text |-> GtNoText, held |-> FALSE, other |-> GtNoText]
GtWaiting(text) == [is |-> TRUE, text |-> text, held |-> FALSE, other |-> GtNoText]

\* Both sets are known and differ.
GtMoved(old, new) == old.refs # {} /\ new.refs # {} /\ old.refs # new.refs

GtSpend == gtLeft > 0 /\ gtLeft' = gtLeft - 1

\* A turn of the agent ends with a request to write.
GtPropose ==
    /\ gtTested = "no"
    /\ GtSpend
    /\ \E t \in GtTexts :
          /\ gtPending' = GtWaiting(t)
          /\ gtNamed' = gtNamed \cup t.refs
          /\ gtBlind' = (gtBlind \/ t.refs = {})
    /\ UNCHANGED <<gtEdit, gtFile, gtTested>>

GtEditMode ==
    /\ gtPending.is
    /\ gtTested = "no"
    /\ gtEdit' = TRUE
    /\ UNCHANGED <<gtPending, gtFile, gtTested, gtLeft, gtNamed, gtBlind>>

\* A mutated check of a manual edit: the relations are not compared.
GtRefusedBlindly(old, new) == new.fault \/ new.filter

\* The checks before the write: a manual edit keeps the relations; the text parses, has
\* no suspicious cast and no WHERE at the top.
GtRefused(old, new) == (gtEdit /\ GtMoved(old, new)) \/ new.fault \/ new.filter

\* Approve in the dashboard: the text, or the edited one, is refused or written.
GtApprove ==
    /\ gtPending.is
    /\ gtTested = "no"
    /\ \E t \in IF gtEdit THEN GtTexts ELSE {gtPending.text} :
          IF GtRefused(gtPending.text, t)
          THEN /\ gtEdit' = TRUE
               /\ UNCHANGED <<gtPending, gtFile, gtTested, gtLeft, gtBlind>>
          ELSE /\ IF gtEdit THEN GtSpend ELSE UNCHANGED gtLeft
               /\ gtFile' = [door |-> "tab", text |-> t]
               /\ gtTested' = "testing"
               /\ gtPending' = GtNone
               /\ gtEdit' = FALSE
               /\ gtBlind' = (gtBlind \/ t.refs = {})
    /\ UNCHANGED gtNamed

GtTestPassed ==
    /\ gtTested = "testing"
    /\ gtTested' = "no"
    /\ UNCHANGED <<gtPending, gtEdit, gtFile, gtLeft, gtNamed, gtBlind>>

\* A failed test: a correction that reads other tables is held back, another one waits
\* for its approval, an empty one is dropped.
GtTestFailed ==
    /\ gtTested = "testing"
    /\ gtTested' = "no"
    /\ \/ /\ GtSpend
          /\ \E t \in GtTexts :
                /\ gtPending' = IF GtMoved(gtFile.text, t)
                                THEN [GtWaiting(gtFile.text) EXCEPT !.held = TRUE, !.other = t]
                                ELSE GtWaiting(t)
                /\ gtBlind' = (gtBlind \/ t.refs = {})
       \/ UNCHANGED <<gtPending, gtLeft, gtBlind>>
    /\ UNCHANGED <<gtEdit, gtFile, gtNamed>>

\* Approve Relation Change and Use Fix SQL.
GtConsent ==
    /\ gtPending.held
    /\ gtTested = "no"
    /\ gtPending' = GtWaiting(gtPending.other)
    /\ gtNamed' = gtNamed \cup gtPending.other.refs
    /\ UNCHANGED <<gtEdit, gtFile, gtTested, gtLeft, gtBlind>>

\* Skip, or a rejection over the API.
GtSkip ==
    /\ gtPending.is
    /\ gtTested = "no"
    /\ gtPending' = GtNone
    /\ gtEdit' = FALSE
    /\ UNCHANGED <<gtFile, gtTested, gtLeft, gtNamed, gtBlind>>

\* Approve over the API: the text of the client's state, or the client's own, is written
\* unseen, tested, and the pending write is cleared; an exception leaves both.
GtApiApprove ==
    /\ gtPending.is
    /\ gtTested = "no"
    /\ \E own \in BOOLEAN :
          /\ IF own THEN GtSpend ELSE UNCHANGED gtLeft
          /\ \E t \in IF own THEN GtTexts ELSE {gtPending.text} :
                gtFile' = [door |-> "api", text |-> t]
    /\ gtPending' \in {gtPending, GtNone}
    /\ UNCHANGED <<gtEdit, gtTested, gtNamed, gtBlind>>

GtInit ==
    /\ gtPending = GtNone
    /\ gtEdit = FALSE
    /\ gtFile = [door |-> "none", text |-> GtNoText]
    /\ gtTested = "no"
    /\ gtLeft = GtMaxTexts
    /\ gtNamed = {}
    /\ gtBlind = FALSE

GtNext ==
    \/ GtPropose \/ GtEditMode \/ GtApprove \/ GtTestPassed \/ GtTestFailed
    \/ GtConsent \/ GtSkip \/ GtApiApprove

GtSpec == GtInit /\ [][GtNext]_gtVars

GtTypeOK ==
    /\ gtPending.is \in BOOLEAN /\ gtPending.text \in GtTexts /\ gtPending.other \in GtTexts
    /\ gtEdit \in BOOLEAN
    /\ gtFile.door \in {"none", "tab", "api"} /\ gtFile.text \in GtTexts
    /\ gtTested \in {"no", "testing"}

\* Through any sequence of edits, failed tests and corrections the dashboard writes no
\* model that reads a table the user was not asked about, as long as every text it
\* compared could be parsed ("source relations should not change silently").
GtLineageKept == gtFile.door = "tab" /\ ~gtBlind => gtFile.text.refs \subseteq gtNamed

\* README.md: output with row-level WHERE filters is blocked. Not by every door.
GtRowsKept == ~gtFile.text.filter
=============================================================================
