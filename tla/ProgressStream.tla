--------------------------- MODULE ProgressStream ---------------------------
(***************************************************************************)
(* The progress WebSockets of bulk jobs and the lock they share with the   *)
(* workers. Streams are coroutines of one event loop: they run one at a    *)
(* time and give way only where they await. _BULK_JOBS_LOCK is a threading *)
(* lock: a coroutine that has to wait for it stops the whole loop.         *)
(***************************************************************************)
EXTENDS Naturals

CONSTANTS
    Jobs,      \* bulk jobs that may be started
    Streams,   \* WebSocket connections
    NoJob,     \* what a stream follows before it connects
    Free,      \* the value of lock and loop when nobody has them
    MaxClears  \* bound: DELETE calls

ASSUME StreamAssumption ==
    /\ Free \notin Streams
    /\ NoJob \notin Jobs
    /\ MaxClears \in Nat

VARIABLES
    status,  \* status of each job's entry, "absent" when there is none
    worker,  \* worker thread of each job
    lock,    \* the stream that awaits with _BULK_JOBS_LOCK held, or Free
    loop,    \* the stream that stopped the event loop, or Free
    at,      \* where each stream is
    follows, \* the job id each stream was opened for
    got,     \* the status in the payload of each stream
    clears   \* DELETE calls so far

jobVars == <<status, worker>>
streamVars == <<at, follows, got>>
vars == <<status, worker, lock, loop, at, follows, got, clears>>

Active == {"queued", "running"}
Waiting == {"accepted", "asleep"}
Open == Waiting \cup {"sending", "telling", "closing"}

-----------------------------------------------------------------------------
(* Threads: endpoints and workers keep the lock only for a step *)

\* bulk_start with a GREEN table: the entry, then the worker thread.
Start(j) ==
    /\ lock = Free
    /\ worker[j] = "new"
    /\ status' = [status EXCEPT ![j] = "queued"]
    /\ worker' = [worker EXCEPT ![j] = "spawned"]
    /\ UNCHANGED <<lock, loop, streamVars, clears>>

\* The worker marks its job running; an entry that was cleared comes back.
Begin(j) ==
    /\ lock = Free
    /\ worker[j] = "spawned"
    /\ status' = [status EXCEPT ![j] = "running"]
    /\ worker' = [worker EXCEPT ![j] = "begun"]
    /\ UNCHANGED <<lock, loop, streamVars, clears>>

\* The worker publishes done or failed, or finds no entry and ends on a KeyError.
End(j) ==
    /\ lock = Free
    /\ worker[j] = "begun"
    /\ status' = [status EXCEPT ![j] = IF @ = "absent" THEN "absent" ELSE "over"]
    /\ worker' = [worker EXCEPT ![j] = "ended"]
    /\ UNCHANGED <<lock, loop, streamVars, clears>>

Clear(j) ==
    /\ lock = Free
    /\ clears < MaxClears
    /\ status' = [status EXCEPT ![j] = "absent"]
    /\ clears' = clears + 1
    /\ UNCHANGED <<worker, lock, loop, streamVars>>

-----------------------------------------------------------------------------
(* Coroutines: each step runs while the loop is free, up to the next await *)

Move(w, l) == at' = [at EXCEPT ![w] = l]

\* A client connects with any job id; the handler awaits accept().
Connect(w, j) ==
    /\ loop = Free
    /\ at[w] = "none"
    /\ Move(w, "accepted")
    /\ follows' = [follows EXCEPT ![w] = j]
    /\ UNCHANGED <<jobVars, lock, loop, got, clears>>

\* The lock is taken: acquiring it blocks the thread of the event loop.
Block(w) ==
    /\ loop = Free
    /\ at[w] \in Waiting
    /\ lock # Free
    /\ loop' = w
    /\ UNCHANGED <<jobVars, lock, streamVars, clears>>

\* Mutant: the snapshot is sent inside the "with" block.
ReadHeld(w) ==
    /\ loop = Free
    /\ at[w] \in Waiting
    /\ lock = Free
    /\ status[follows[w]] # "absent"
    /\ lock' = w
    /\ got' = [got EXCEPT ![w] = status[follows[w]]]
    /\ Move(w, "sending")
    /\ UNCHANGED <<jobVars, loop, follows, clears>>

\* Copy the entry under the lock, then await send_json outside it.
Read(w) ==
    /\ loop = Free
    /\ at[w] \in Waiting
    /\ lock = Free
    /\ status[follows[w]] # "absent"
    /\ got' = [got EXCEPT ![w] = status[follows[w]]]
    /\ Move(w, "sending")
    /\ UNCHANGED <<jobVars, lock, loop, follows, clears>>

\* No entry: send_json and close are awaited inside the "with" block.
Missing(w) ==
    /\ loop = Free
    /\ at[w] \in Waiting
    /\ lock = Free
    /\ status[follows[w]] = "absent"
    /\ lock' = w
    /\ Move(w, "telling")
    /\ UNCHANGED <<jobVars, loop, follows, got, clears>>

Told(w) ==
    /\ loop = Free
    /\ at[w] = "telling"
    /\ lock' = Free
    /\ Move(w, "closed")
    /\ UNCHANGED <<jobVars, loop, follows, got, clears>>

\* Mutant: the loop goes on while the job has an entry.
SentAsleep(w) ==
    /\ loop = Free
    /\ at[w] = "sending"
    /\ Move(w, "asleep")
    /\ UNCHANGED <<jobVars, lock, loop, follows, got, clears>>

\* A snapshot is sent: sleep and poll again, or send the last one and close.
Sent(w) ==
    /\ loop = Free
    /\ at[w] = "sending"
    /\ Move(w, IF got[w] \in Active THEN "asleep" ELSE "closing")
    /\ UNCHANGED <<jobVars, lock, loop, follows, got, clears>>

Close(w) ==
    /\ loop = Free
    /\ at[w] = "closing"
    /\ Move(w, "closed")
    /\ UNCHANGED <<jobVars, lock, loop, follows, got, clears>>

\* WebSocketDisconnect, raised by an awaited send; it leaves the "with" block.
Disconnect(w) ==
    /\ loop = Free
    /\ at[w] \in {"sending", "telling", "closing"}
    /\ lock' = IF lock = w THEN Free ELSE lock
    /\ Move(w, "closed")
    /\ UNCHANGED <<jobVars, loop, follows, got, clears>>

-----------------------------------------------------------------------------
(* Specification *)

Init ==
    /\ status = [j \in Jobs |-> "absent"]
    /\ worker = [j \in Jobs |-> "new"]
    /\ lock = Free
    /\ loop = Free
    /\ at = [w \in Streams |-> "none"]
    /\ follows = [w \in Streams |-> NoJob]
    /\ got = [w \in Streams |-> "absent"]
    /\ clears = 0

Thread(j) == Begin(j) \/ End(j)

Coroutine(w) ==
    \/ Block(w)
    \/ Read(w)
    \/ Missing(w)
    \/ Told(w)
    \/ Sent(w)
    \/ Close(w)

Next ==
    \/ \E j \in Jobs : Start(j) \/ Clear(j)
    \/ \E j \in Jobs : Thread(j)
    \/ \E w \in Streams, j \in Jobs : Connect(w, j)
    \/ \E w \in Streams : Coroutine(w)
    \/ \E w \in Streams : Disconnect(w)

\* The event loop serves every ready coroutine and threads are scheduled. A
\* worker competes for the lock with streams that take it again and again.
Fairness ==
    /\ \A j \in Jobs : SF_vars(Thread(j))
    /\ \A w \in Streams : SF_vars(Coroutine(w))

SafeSpec == Init /\ [][Next]_vars
Spec == SafeSpec /\ Fairness

-----------------------------------------------------------------------------
(* Properties *)

\* The variables keep their types.
StreamTypeOK ==
    /\ status \in [Jobs -> {"absent", "queued", "running", "over"}]
    /\ worker \in [Jobs -> {"new", "spawned", "begun", "ended"}]
    /\ lock \in Streams \cup {Free}
    /\ loop \in Streams \cup {Free}
    /\ at \in [Streams -> {"none", "closed"} \cup Open]
    /\ follows \in [Streams -> Jobs \cup {NoJob}]
    /\ got \in [Streams -> {"absent", "queued", "running", "over"}]
    /\ clears \in Nat

\* The event loop is stopped only by two streams: one that tells its client that
\* its job does not exist, with the lock in its hands, and another that wants it.
OnlyMissingStopsTheLoop ==
    /\ lock # Free => at[lock] = "telling" /\ status[follows[lock]] = "absent"
    /\ loop # Free => lock # Free /\ lock # loop /\ at[loop] \in Waiting

\* As long as no stream meets a job without an entry, every stream of a job that got
\* a worker reaches its end or its client's disconnection, and so does the worker.
EndsUnlessMissing ==
    [](\A w \in Streams : at[w] # "telling") =>
        /\ \A w \in Streams : at[w] \in Open ~> at[w] = "closed"
        /\ \A j \in Jobs : worker[j] = "begun" ~> worker[j] = "ended"

\* ws.py: "Stream bulk job status snapshots until completion or disconnect".
StreamsEnd == \A w \in Streams : at[w] \in Open ~> at[w] = "closed"

=============================================================================
