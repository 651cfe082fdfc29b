------------------------------- MODULE LivePages -------------------------------
(***************************************************************************)
(* The pages that follow live ingestion jobs: a socket sends the entry of   *)
(* the job every 0.8 s, until it has sent one whose status says that the    *)
(* job is over. Reader and worker share nothing but the entry.              *)
(***************************************************************************)
EXTENDS LiveJobs

CONSTANT LvFollowed  \* jobs that a page may follow

ASSUME LvFollowedAssumption == LvFollowed \subseteq LvJobs

VARIABLE lvPage  \* the socket of each followed job, and the status it has sent last

lpVars == <<lvVars, lvPage>>

LvClosed == [socket |-> "none", told |-> "none"]

\* A status in {"queued", "running"} keeps the socket open.
LpSend(j) ==
    LET status == lvJob[j].status IN
    lvPage' = [lvPage EXCEPT ![j] =
        [socket |-> IF status \in {"queued", "running"} THEN "open" ELSE "done", told |-> status]]

\* The page connects with the job id that POST /start has returned.
LpOpen(j) ==
    /\ lvPage[j].socket = "none"
    /\ lvJob[j].status # "none"
    /\ LpSend(j)
    /\ UNCHANGED lvVars

\* The next round of the loop.
LpPoll(j) ==
    /\ lvPage[j].socket = "open"
    /\ LpSend(j)
    /\ UNCHANGED lvVars

\* WebSocketDisconnect: the page is left, and may come back.
LpLeave(j) ==
    /\ lvPage[j].socket = "open"
    /\ lvPage' = [lvPage EXCEPT ![j] = LvClosed]
    /\ UNCHANGED lvVars

LpInit == LvInit /\ lvPage = [j \in LvFollowed |-> LvClosed]

LpNext ==
    \/ LvNext /\ UNCHANGED lvPage
    \/ \E j \in LvFollowed : LpOpen(j) \/ LpPoll(j) \/ LpLeave(j)

LpSafeSpec == LpInit /\ [][LpNext]_lpVars

\* The event loop wakes every sleeping socket.
LpFairness == LvFairness /\ \A j \in LvFollowed : WF_lpVars(LpPoll(j))

LpSpec == LpSafeSpec /\ LpFairness

\* A socket is open as long as it has sent that the job is on its way, and done after a verdict.
LpTypeOK ==
    \A j \in LvFollowed :
       \/ lvPage[j] = LvClosed
       \/ lvPage[j].socket = "open" /\ lvPage[j].told \in {"queued", "running"}
       \/ lvPage[j].socket = "done" /\ lvPage[j].told \in {"success", "partial", "failure"}

\* What a page was told at the end is what the job is shown with ever after: the loop stops
\* at a status that only the shutdown of the server leaves room to change.
LpToldLast ==
    \A j \in LvFollowed :
       lvPage[j].socket = "done" =>
          \/ lvPage[j].told = lvJob[j].status
          \/ lvDown /\ lvPage[j].told = "failure"

\* A started job ends with a verdict, however many wait for the slots, unless an exception
\* has left its worker outside of every handler; and so does every socket that follows one,
\* while the server lives.
LpAllEnd ==
    /\ \A j \in LvJobs :
          lvJob[j].status = "queued"
             ~> lvJob[j].status \in {"success", "partial", "failure"} \/ j \in LvRaised
    /\ \A j \in LvFollowed :
          lvPage[j].socket = "open" ~> lvPage[j].socket # "open" \/ j \in LvRaised \/ lvDown
=============================================================================
