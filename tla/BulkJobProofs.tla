---------------------------- MODULE BulkJobProofs ----------------------------
(***************************************************************************)
(* Proofs about BulkJob, for every set of jobs, tables and requests, every *)
(* gate and every naming of models. First the typing invariant, then the   *)
(* safety theorems, each from an invariant about one concern at a time     *)
(* (accounting, the gate, what dbt built, the end of a job, its file), and *)
(* last the refinement of BulkReport.                                      *)
(***************************************************************************)
EXTENDS BulkJob, FiniteSetTheorems, TLAPS

\* Where the worker holds a prepared table in "cur".
Repairing == {"retest", "passthrough", "retest2", "accept", "reject"}

\* A worker that repairs a table holds one of the prepared tables.
CurPrepared == \A j \in Jobs : pc[j] \in Repairing => cur[j] \in prepared[j]

\* A job whose worker has not begun has no future, no table and no outcome.
Untouched(e) == e.status \in {"absent", "queued", "running", "failed"}
                /\ e.success = {} /\ e.failed = {}

NotBegun ==
    \A j \in Jobs : pc[j] \in {"new", "nothread", "spawned"} =>
        /\ Untouched(mem[j])
        /\ Untouched(disk[j])
        /\ prepared[j] = {}
        /\ \A s \in Slots : fut[j][s] = "none"

\* Only listed positions have a future.
FutureListed == \A j \in Jobs : \A s \in Slots : fut[j][s] # "none" => s \in Listed(j)

TypeInv == TypeOK /\ CurPrepared /\ NotBegun /\ FutureListed

USE DEF localVars, dbtVars, jobVars, envVars

-----------------------------------------------------------------------------
(* Lemmas about the operators *)

\* The counts the job publishes are natural numbers.
LEMMA Counts ==
    ASSUME TypeOK, NEW j \in Jobs
    PROVE  /\ Cardinality(Listed(j)) \in Nat
           /\ Cardinality(prepared[j]) \in Nat
           /\ \A req \in Requests :
                 Cardinality({s \in Slots : Runnable(req)[s] # NoTable}) \in Nat
<1>1. \A S : S \subseteq Slots => Cardinality(S) \in Nat
  BY FS_Subset, FS_CardinalityType, BulkAssumption
<1>2. \A S : S \subseteq Tables => Cardinality(S) \in Nat
  BY FS_Subset, FS_CardinalityType, BulkAssumption
<1>3. prepared[j] \subseteq Tables
  BY DEF TypeOK
<1> QED
  BY <1>1, <1>2, <1>3 DEF Listed

\* The gate returns a list, and every table it keeps is GREEN.
LEMMA RunnableGreen ==
    ASSUME NEW req \in Requests
    PROVE  /\ Runnable(req) \in [Slots -> Tables \cup {NoTable}]
           /\ \A s \in Slots : Runnable(req)[s] # NoTable => Queue[Runnable(req)[s]] = "green"
  BY BulkAssumption DEF Runnable

\* Publishing changes one job; its file takes the entry or keeps what it has.
LEMMA PublishFacts ==
    ASSUME TypeOK, NEW j \in Jobs, NEW e \in Entry, Publish(j, e)
    PROVE  /\ mem' \in [Jobs -> Entry] /\ disk' \in [Jobs -> Entry]
           /\ mem'[j] = e /\ disk'[j] \in {e, disk[j]}
           /\ \A i \in Jobs : i # j => mem'[i] = mem[i] /\ disk'[i] = disk[i]
<1>1. mem \in [Jobs -> Entry] /\ disk \in [Jobs -> Entry]
  BY DEF TypeOK
<1>2. mem' = [mem EXCEPT ![j] = e] /\ (disk' = [disk EXCEPT ![j] = e] \/ disk' = disk)
  BY DEF Publish, Save
<1> QED
  BY <1>1, <1>2

\* Writing a model replaces the content of one file.
LEMMA WriteFacts ==
    ASSUME TypeOK, NEW t \in Tables, NEW k \in Sql, WriteModel(t, k)
    PROVE  /\ file' \in [Models -> Content]
           /\ \A m \in Models : file'[m] # file[m] => file'[m].table = t
  BY BulkAssumption DEF TypeOK, WriteModel, Content

-----------------------------------------------------------------------------
(* Types *)

\* The initial state has the types, and no worker has begun.
LEMMA TypeInit == Init => TypeInv
<1> SUFFICES ASSUME Init PROVE TypeInv
  OBVIOUS
<1>1. NoEntry \in Entry /\ Untouched(NoEntry)
  BY DEF NoEntry, EntryOf, Entry, Status, Untouched
<1>2. TypeOK
  BY <1>1 DEF Init, TypeOK, Pc, Future, Content, Sql
<1>3. CurPrepared /\ NotBegun /\ FutureListed
  BY <1>1 DEF Init, CurPrepared, NotBegun, FutureListed, Repairing
<1> QED
  BY <1>2, <1>3 DEF TypeInv

\* Starting, clearing and watching a job.
LEMMA TypeClient ==
    ASSUME TypeInv, NEW j \in Jobs, Client(j)
    PROVE  TypeInv'
<1> USE DEF TypeInv
<1>1. ASSUME NEW req \in Requests, BulkStart(j, req) PROVE TypeInv'
  <2> DEFINE n == Cardinality({s \in Slots : Runnable(req)[s] # NoTable})
  <2>1. n \in Nat
    BY Counts
  <2>2. /\ Queued(n) \in Entry /\ Untouched(Queued(n))
    BY <2>1, FS_EmptySet DEF Untouched, Queued, EntryOf, Entry, Status
  <2>3. Publish(j, Queued(n))
    BY <1>1 DEF BulkStart
  <2> HIDE DEF n
  <2>4. /\ mem' \in [Jobs -> Entry] /\ disk' \in [Jobs -> Entry]
        /\ mem'[j] = Queued(n) /\ disk'[j] \in {Queued(n), disk[j]}
        /\ \A i \in Jobs : i # j => mem'[i] = mem[i] /\ disk'[i] = disk[i]
    BY <2>2, <2>3, PublishFacts
  <2>5. TypeOK'
    BY <1>1, <2>4, RunnableGreen DEF BulkStart, TypeOK, Goto, Pc
  <2>6. CurPrepared' /\ FutureListed'
    BY <1>1
    DEF BulkStart, CurPrepared, FutureListed, NotBegun, TypeOK, Goto, Listed, Repairing, Pc
  <2>7. NotBegun'
    BY <1>1, <2>2, <2>4 DEF BulkStart, NotBegun, TypeOK, Goto
  <2> QED
    BY <2>5, <2>6, <2>7
<1>2. ASSUME ClearPop(j) PROVE TypeInv'
  BY <1>2
  DEF ClearPop, TypeOK, CurPrepared, NotBegun, FutureListed, Listed, Untouched, NoEntry,
      EntryOf, Entry, Status
<1>3. ASSUME ClearUnlink(j) PROVE TypeInv'
  <2>1. NoEntry \in Entry /\ Untouched(NoEntry)
    BY DEF NoEntry, EntryOf, Entry, Status, Untouched
  <2>2. /\ disk' \in [Jobs -> Entry] /\ disk'[j] \in {NoEntry, disk[j]}
        /\ \A i \in Jobs : i # j => disk'[i] = disk[i]
    <3>1. disk' = [disk EXCEPT ![j] = NoEntry] \/ disk' = disk
      BY <1>3 DEF ClearUnlink, Save
    <3>2. disk \in [Jobs -> Entry]
      BY DEF TypeOK
    <3> QED
      BY <2>1, <3>1, <3>2
  <2>3. TypeOK'
    BY <1>3, <2>2 DEF ClearUnlink, TypeOK
  <2>4. CurPrepared' /\ NotBegun' /\ FutureListed'
    BY <1>3, <2>1, <2>2 DEF ClearUnlink, CurPrepared, NotBegun, FutureListed, Listed
  <2> QED
    BY <2>3, <2>4
<1>4. ASSUME WsOpen(j) PROVE TypeInv'
  BY <1>4 DEF WsOpen, TypeOK, CurPrepared, NotBegun, FutureListed, Listed
<1>5. ASSUME WsPoll(j) PROVE TypeInv'
  BY <1>5 DEF WsPoll, TypeOK, CurPrepared, NotBegun, FutureListed, Listed
<1> QED
  BY <1>1, <1>2, <1>3, <1>4, <1>5 DEF Client

\* The pool thread of one table.
LEMMA TypeTask ==
    ASSUME TypeInv, NEW j \in Jobs, NEW s \in Slots, Task(j, s)
    PROVE  TypeInv'
<1> USE DEF TypeInv
<1>1. fut[j][s] # "none" => TableOf(j, s) \in Tables
  BY DEF FutureListed, Listed, TableOf, TypeOK
<1>2. ASSUME NEW v \in Future, v # "none", SetFuture(j, s, v), fut[j][s] # "none"
      PROVE  /\ fut' \in [Jobs -> [Slots -> Future]]
             /\ \A i \in Jobs, r \in Slots : fut'[i][r] # "none" => fut[i][r] # "none"
             /\ \A i \in Jobs, r \in Slots : fut[i][r] = "none" => fut'[i][r] = "none"
  BY <1>2 DEF SetFuture, TypeOK
<1>3. ASSUME TaskWrite(j, s) PROVE TypeInv'
  <2>1. fut[j][s] = "queued" /\ TableOf(j, s) \in Tables
    BY <1>1, <1>3 DEF TaskWrite
  <2>2. PICK v \in {"written", "blank"}, k \in Sql :
           SetFuture(j, s, v) /\ WriteModel(TableOf(j, s), k)
    BY <1>3 DEF TaskWrite, Sql
  <2>3. file' \in [Models -> Content]
    BY <2>1, <2>2, WriteFacts
  <2> QED
    BY <1>2, <1>3, <2>1, <2>2, <2>3
    DEF TaskWrite, TypeOK, CurPrepared, NotBegun, FutureListed, Listed, Future
<1>4. ASSUME TaskRaise(j, s) PROVE TypeInv'
  <2>1. fut[j][s] = "queued" /\ TableOf(j, s) \in Tables
    BY <1>1, <1>4 DEF TaskRaise
  <2>2. UNCHANGED file \/ \E k \in Sql : WriteModel(TableOf(j, s), k)
    BY <1>4 DEF TaskRaise, Sql
  <2>3. file' \in [Models -> Content]
    BY <2>1, <2>2, WriteFacts DEF TypeOK
  <2>4. SetFuture(j, s, "raised")
    BY <1>4 DEF TaskRaise
  <2> QED
    BY <1>2, <1>4, <2>1, <2>3, <2>4
    DEF TaskRaise, TypeOK, CurPrepared, NotBegun, FutureListed, Listed, Future, Finished
<1>5. ASSUME TaskReturn(j, s) PROVE TypeInv'
  <2>1. fut[j][s] \in {"written", "blank"} /\ TableOf(j, s) \in Tables
    BY <1>1, <1>5 DEF TaskReturn
  <2>2. PICK v \in {"ok", "empty"} : SetFuture(j, s, v)
    BY <1>5 DEF TaskReturn
  <2>3. audit' \in SUBSET (Jobs \X Tables)
    BY <1>5, <2>1 DEF TaskReturn, TypeOK
  <2> QED
    BY <1>2, <1>5, <2>1, <2>2, <2>3
    DEF TaskReturn, TypeOK, CurPrepared, NotBegun, FutureListed, Listed, Future, Finished
<1> QED
  BY <1>3, <1>4, <1>5 DEF Task

\* A step of one worker that leaves its futures alone disturbs the local
\* conjuncts of the invariant only through its own label, "prepared" and "cur".
LEMMA WorkerStep ==
    ASSUME TypeInv, NEW j \in Jobs, NEW l \in Pc, Goto(j, l),
           l \notin {"new", "nothread", "spawned"},
           l \in Repairing => cur'[j] \in prepared'[j],
           UNCHANGED <<keys, fut>>,
           \A i \in Jobs : i # j => /\ mem'[i] = mem[i] /\ disk'[i] = disk[i]
                                   /\ prepared'[i] = prepared[i] /\ cur'[i] = cur[i]
    PROVE  CurPrepared' /\ NotBegun' /\ FutureListed' /\ pc' \in [Jobs -> Pc]
<1>1. pc' \in [Jobs -> Pc] /\ pc'[j] = l /\ \A i \in Jobs : i # j => pc'[i] = pc[i]
  BY DEF TypeInv, TypeOK, Goto
<1>2. CurPrepared'
  BY <1>1 DEF TypeInv, CurPrepared
<1>3. NotBegun'
  BY <1>1 DEF TypeInv, NotBegun
<1>4. FutureListed'
  BY DEF TypeInv, FutureListed, Listed
<1> QED
  BY <1>1, <1>2, <1>3, <1>4

\* The first phase of the worker.
LEMMA TypePrepare ==
    ASSUME TypeInv, NEW j \in Jobs,
           WorkerBegin(j) \/ (\E s \in Slots : Collect(j, s)) \/ Drain(j) \/ EndPrepare(j)
    PROVE  TypeInv'
<1> USE DEF TypeInv
<1>0. mem[j] \in Entry /\ Cardinality(Listed(j)) \in Nat /\ Cardinality(prepared[j]) \in Nat
  BY Counts DEF TypeOK
<1>1. ASSUME WorkerBegin(j) PROVE TypeInv'
  <2> DEFINE e == Running(mem[j], Cardinality(Listed(j)))
  <2>1. e \in Entry /\ Publish(j, e)
    BY <1>0, <1>1 DEF WorkerBegin, TypeOK, Running, EntryOf, Entry, Status
  <2> HIDE DEF e
  <2>2. TypeOK'
    BY <1>1, <2>1, PublishFacts DEF WorkerBegin, TypeOK, Goto, Pc, Future
  <2>3. CurPrepared' /\ NotBegun' /\ FutureListed'
    BY <1>1, <2>1, PublishFacts
    DEF WorkerBegin, TypeOK, CurPrepared, NotBegun, FutureListed, Goto, Listed, Repairing
  <2> QED
    BY <2>2, <2>3
<1>2. ASSUME NEW s \in Slots, Collect(j, s) PROVE TypeInv'
  <2>1. TableOf(j, s) \in Tables
    BY <1>2 DEF Collect, FutureListed, Listed, TableOf, TypeOK, Finished
  <2>2. CASE ~Alive(j)
    <3>1. /\ Goto(j, "drain")
          /\ UNCHANGED <<mem, disk, keys, fut, prepared, verdict, chunk, cur, file, rr, built,
                         audit, srv, ws, unlinking, clears, restarts>>
      BY <1>2, <2>2 DEF Collect
    <3>2. CurPrepared' /\ NotBegun' /\ FutureListed' /\ pc' \in [Jobs -> Pc]
      BY <3>1, WorkerStep DEF Pc, Repairing
    <3> QED
      BY <3>1, <3>2 DEF TypeOK
  <2>3. CASE Alive(j)
    <3>0. /\ pc[j] = "collect" /\ SetFuture(j, s, "collected") /\ fut[j][s] # "none"
          /\ \/ /\ prepared' = [prepared EXCEPT ![j] = @ \cup {TableOf(j, s)}]
                /\ Publish(j, Counted(mem[j]))
             \/ /\ UNCHANGED prepared
                /\ Publish(j, Failed(mem[j], TableOf(j, s)))
          /\ UNCHANGED <<pc, keys, verdict, chunk, cur, file, rr, built,
                         audit, srv, ws, unlinking, clears, restarts>>
      BY <1>2, <2>3 DEF Collect, Finished
    <3>1. Counted(mem[j]) \in Entry /\ Failed(mem[j], TableOf(j, s)) \in Entry
      BY <1>0, <2>1 DEF Counted, Failed, EntryOf, Entry
    <3>2. PICK e \in Entry : Publish(j, e)
      BY <3>0, <3>1
    <3>3. /\ prepared' \in [Jobs -> SUBSET Tables] /\ prepared[j] \subseteq prepared'[j]
          /\ \A i \in Jobs : i # j => prepared'[i] = prepared[i]
      <4>1. \/ prepared' = [prepared EXCEPT ![j] = prepared[j] \cup {TableOf(j, s)}]
            \/ prepared' = prepared
        BY <3>0
      <4>2. prepared[j] \cup {TableOf(j, s)} \in SUBSET Tables /\ prepared \in [Jobs -> SUBSET Tables]
        BY <2>1 DEF TypeOK
      <4> QED
        BY <4>1, <4>2
    <3>4. /\ mem' \in [Jobs -> Entry] /\ disk' \in [Jobs -> Entry]
          /\ \A i \in Jobs : i # j => mem'[i] = mem[i] /\ disk'[i] = disk[i]
      BY <3>2, PublishFacts
    <3>5. /\ fut' \in [Jobs -> [Slots -> Future]]
          /\ \A i \in Jobs : i # j => fut'[i] = fut[i]
          /\ \A i \in Jobs, r \in Slots : fut'[i][r] # "none" => fut[i][r] # "none"
      BY <3>0 DEF TypeOK, SetFuture, Future, Finished
    <3>6. TypeOK'
      BY <3>0, <3>4, <3>5, <3>3 DEF TypeOK
    <3>7. CurPrepared' /\ NotBegun' /\ FutureListed'
      <4>1. pc' = pc /\ cur' = cur /\ keys' = keys /\ pc[j] = "collect"
        BY <3>0
      <4>2. CurPrepared'
        BY <3>3, <4>1 DEF CurPrepared
      <4>3. NotBegun'
        BY <3>3, <3>4, <3>5, <4>1 DEF NotBegun
      <4>4. FutureListed'
        BY <3>5, <4>1 DEF FutureListed, Listed
      <4> QED
        BY <4>2, <4>3, <4>4
    <3> QED
      BY <3>6, <3>7
  <2> QED
    BY <2>2, <2>3
<1>3. ASSUME Drain(j) PROVE TypeInv'
  BY <1>3 DEF Drain, TypeOK, CurPrepared, NotBegun, FutureListed, Goto, Listed, Repairing, Pc
<1>4. ASSUME EndPrepare(j) PROVE TypeInv'
  <2>1. PICK l \in {"loop", "batch", "handler"} : Goto(j, l)
    BY <1>4 DEF EndPrepare
  <2>2. PhaseTwo(mem[j], Cardinality(prepared[j])) \in Entry
    BY <1>0 DEF PhaseTwo, EntryOf, Entry, Status
  <2>3. UNCHANGED jobVars \/ \E e \in Entry : Publish(j, e)
    BY <1>4, <2>2 DEF EndPrepare
  <2>4. /\ mem' \in [Jobs -> Entry] /\ disk' \in [Jobs -> Entry]
        /\ \A i \in Jobs : i # j => mem'[i] = mem[i] /\ disk'[i] = disk[i]
    BY <2>3, PublishFacts DEF TypeOK
  <2>5. TypeOK'
    BY <1>4, <2>1, <2>4 DEF EndPrepare, TypeOK, Goto, Pc
  <2>6. CurPrepared' /\ NotBegun' /\ FutureListed'
    BY <1>4, <2>1, <2>4
    DEF EndPrepare, TypeOK, CurPrepared, NotBegun, FutureListed, Goto, Listed, Repairing
  <2> QED
    BY <2>5, <2>6
<1> QED
  BY <1>1, <1>2, <1>3, <1>4

\* test_models_batch.
LEMMA TypeBatch ==
    ASSUME TypeInv, NEW j \in Jobs,
           BatchRun(j) \/ BatchRead(j) \/ BatchTest(j) \/ BatchReread(j)
    PROVE  TypeInv'
<1> USE DEF TypeInv
<1>1. ASSUME BatchRun(j) PROVE TypeInv'
  <2>1. PICK l \in {"loop", "read", "handler"} : Goto(j, l)
    BY <1>1 DEF BatchRun, GotoOrFail
  <2>2. Unjudged(j) \subseteq Models
    BY BulkAssumption DEF Unjudged, TypeOK
  <2>3. chunk' \in [Jobs -> SUBSET Models]
    <3>1. chunk' = chunk \/ \E c \in SUBSET Models : chunk' = [chunk EXCEPT ![j] = c]
      BY <1>1, <2>2 DEF BatchRun
    <3>2. chunk \in [Jobs -> SUBSET Models]
      BY DEF TypeOK
    <3> QED
      BY <3>1, <3>2
  <2>4. rr' \in [Models -> {"none", "ok", "err"}] /\ built' \in SUBSET Models
    BY <1>1, <2>2 DEF BatchRun, DbtRun, TypeOK
  <2>5. /\ pc[j] = "batch"
        /\ UNCHANGED <<mem, disk, keys, fut, prepared, verdict, cur, file, audit,
                       srv, ws, unlinking, clears, restarts>>
    BY <1>1 DEF BatchRun
  <2>6. CurPrepared' /\ NotBegun' /\ FutureListed' /\ pc' \in [Jobs -> Pc]
    BY <2>1, <2>5, WorkerStep DEF Pc, Repairing
  <2> QED
    BY <2>3, <2>4, <2>5, <2>6 DEF TypeOK
<1>2. ASSUME BatchRead(j) PROVE TypeInv'
  <2>1. PICK l \in {"batch", "test"} : Goto(j, l)
    BY <1>2 DEF BatchRead
  <2>2. chunk' \in [Jobs -> SUBSET Models] /\ verdict' \in [Jobs -> [Models -> {"none", "ok", "bad"}]]
    <3>1. \/ UNCHANGED chunk
          \/ chunk' = [chunk EXCEPT ![j] = {}]
      BY <1>2 DEF BatchRead
    <3> DEFINE w == [m \in Models |-> IF m \in chunk[j]
                                      THEN IF rr[m] = "ok" THEN "ok" ELSE "bad"
                                      ELSE verdict[j][m]]
    <3>2. verdict' = [verdict EXCEPT ![j] = w]
      BY <1>2 DEF BatchRead
    <3>3. w \in [Models -> {"none", "ok", "bad"}]
      BY DEF TypeOK
    <3> HIDE DEF w
    <3> QED
      BY <3>1, <3>2, <3>3 DEF TypeOK
  <2> QED
    BY <1>2, <2>1, <2>2
    DEF BatchRead, TypeOK, CurPrepared, NotBegun, FutureListed, Goto, Listed, Repairing, Pc
<1>3. ASSUME BatchTest(j) PROVE TypeInv'
  <2>0. PICK l \in {"reread", "handler"} : Goto(j, l)
    BY <1>3 DEF BatchTest, GotoOrFail
  <2>1. rr' \in [Models -> {"none", "ok", "err"}]
    BY <1>3 DEF BatchTest, DbtTest, TypeOK
  <2> QED
    BY <1>3, <2>0, <2>1
    DEF BatchTest, DbtTest, TypeOK, CurPrepared, NotBegun, FutureListed, Goto, Listed,
        Repairing, Pc
<1>4. ASSUME BatchReread(j) PROVE TypeInv'
  <2>1. verdict' \in [Jobs -> [Models -> {"none", "ok", "bad"}]]
    BY <1>4 DEF BatchReread, TypeOK
  <2> QED
    BY <1>4, <2>1
    DEF BatchReread, TypeOK, CurPrepared, NotBegun, FutureListed, Goto, Listed, Repairing, Pc
<1> QED
  BY <1>1, <1>2, <1>3, <1>4

\* Recording the outcome of a prepared table.
LEMMA TypeDecide ==
    ASSUME TypeInv, NEW j \in Jobs, NEW t \in Tables, NEW ok \in BOOLEAN,
           Decide(j, t, ok)
    PROVE  TypeInv'
<1>1. Migrated(mem[j], t) \in Entry /\ Failed(mem[j], t) \in Entry
  BY DEF TypeInv, TypeOK, Migrated, Failed, EntryOf, Entry
<1>2. UNCHANGED jobVars \/ \E e \in Entry : Publish(j, e)
  BY <1>1 DEF Decide
<1>3. /\ mem' \in [Jobs -> Entry] /\ disk' \in [Jobs -> Entry]
      /\ \A i \in Jobs : i # j => mem'[i] = mem[i] /\ disk'[i] = disk[i]
  BY <1>2, PublishFacts DEF TypeInv, TypeOK
<1>4. /\ prepared' = [prepared EXCEPT ![j] = prepared[j] \ {t}] \/ prepared' = prepared
      /\ cur' = [cur EXCEPT ![j] = NoTable]
      /\ UNCHANGED <<keys, fut, verdict, chunk, file, rr, built, audit,
                     srv, ws, unlinking, clears, restarts>>
      /\ Goto(j, "loop") \/ Goto(j, "handler")
  BY DEF Decide
<1>5. /\ prepared' \in [Jobs -> SUBSET Tables]
      /\ \A i \in Jobs : i # j => prepared'[i] = prepared[i]
  <2>1. prepared \in [Jobs -> SUBSET Tables] /\ prepared[j] \ {t} \in SUBSET Tables
    BY DEF TypeInv, TypeOK
  <2> QED
    BY <1>4, <2>1
<1>6. /\ cur' \in [Jobs -> Tables \cup {NoTable}]
      /\ \A i \in Jobs : i # j => cur'[i] = cur[i]
  BY <1>4 DEF TypeInv, TypeOK
<1>7. CurPrepared' /\ NotBegun' /\ FutureListed' /\ pc' \in [Jobs -> Pc]
  BY <1>3, <1>4, <1>5, <1>6, WorkerStep DEF Pc, Repairing
<1> QED
  BY <1>3, <1>4, <1>5, <1>6, <1>7 DEF TypeInv, TypeOK

\* The end of the thread, with or without a last publication.
LEMMA TypeEnd ==
    ASSUME TypeInv, NEW j \in Jobs, EndThread(j),
           UNCHANGED jobVars \/ (\E e \in Entry : Publish(j, e)),
           UNCHANGED <<keys, fut, dbtVars, audit, envVars>>
    PROVE  TypeInv'
<1>1. /\ mem' \in [Jobs -> Entry] /\ disk' \in [Jobs -> Entry]
      /\ \A i \in Jobs : i # j => mem'[i] = mem[i] /\ disk'[i] = disk[i]
  BY PublishFacts DEF TypeInv, TypeOK
<1>2. /\ prepared' \in [Jobs -> SUBSET Tables] /\ cur' \in [Jobs -> Tables \cup {NoTable}]
      /\ \A i \in Jobs : i # j => prepared'[i] = prepared[i] /\ cur'[i] = cur[i]
  BY DEF EndThread, TypeInv, TypeOK
<1>3. chunk' \in [Jobs -> SUBSET Models] /\ verdict' \in [Jobs -> [Models -> {"none", "ok", "bad"}]]
  BY DEF EndThread, TypeInv, TypeOK
<1>4. CurPrepared' /\ NotBegun' /\ FutureListed' /\ pc' \in [Jobs -> Pc]
  BY <1>1, <1>2, WorkerStep DEF EndThread, Pc, Repairing
<1> QED
  BY <1>1, <1>2, <1>3, <1>4 DEF TypeInv, TypeOK

\* dbt run and dbt test of one model.
LEMMA TypeTest ==
    ASSUME TypeOK, NEW m \in Models, NEW ok \in BOOLEAN, TestModel(m, ok)
    PROVE  rr' \in [Models -> {"none", "ok", "err"}] /\ built' \in SUBSET Models
  BY DEF TypeOK, TestModel

\* The validation loop.
LEMMA TypeValidate ==
    ASSUME TypeInv, NEW j \in Jobs,
           \/ \E t \in Tables : AcceptBatch(j, t) \/ FixNothing(j, t)
                               \/ FixWrite(j, t) \/ FixRaise(j, t)
           \/ Retest(j) \/ Passthrough(j) \/ RetestPassthrough(j)
           \/ RecordRepaired(j) \/ Finish(j) \/ FailJob(j)
    PROVE  TypeInv'
<1>0. /\ cur[j] \in prepared[j] => cur[j] \in Tables
      /\ \A t \in prepared[j] : t \in Tables
      /\ pc[j] \in Repairing => cur[j] \in prepared[j]
      /\ mem[j] \in Entry
  BY DEF TypeInv, TypeOK, CurPrepared
<1>1. ASSUME NEW t \in Tables, AcceptBatch(j, t) \/ FixNothing(j, t) PROVE TypeInv'
  BY <1>1, TypeDecide DEF AcceptBatch, FixNothing
<1>2. ASSUME NEW t \in Tables, FixWrite(j, t) PROVE TypeInv'
  <2>1. /\ t \in prepared[j] /\ WriteModel(t, "corrected") /\ Goto(j, "retest")
        /\ cur' = [cur EXCEPT ![j] = t]
        /\ UNCHANGED <<mem, disk, keys, fut, prepared, verdict, chunk, rr, built, audit,
                       srv, ws, unlinking, clears, restarts>>
    BY <1>2 DEF FixWrite
  <2>2. file' \in [Models -> Content]
    BY <2>1, WriteFacts DEF TypeInv, Sql
  <2>3. /\ cur' \in [Jobs -> Tables \cup {NoTable}] /\ cur'[j] = t
        /\ \A i \in Jobs : i # j => cur'[i] = cur[i]
    BY <2>1 DEF TypeInv, TypeOK
  <2>4. CurPrepared' /\ NotBegun' /\ FutureListed' /\ pc' \in [Jobs -> Pc]
    BY <2>1, <2>3, WorkerStep DEF Pc
  <2> QED
    BY <2>1, <2>2, <2>3, <2>4 DEF TypeInv, TypeOK
<1>3. ASSUME NEW t \in Tables, FixRaise(j, t) PROVE TypeInv'
  <2>1. /\ UNCHANGED file \/ WriteModel(t, "corrected")
        /\ Goto(j, "handler")
        /\ UNCHANGED <<mem, disk, keys, fut, prepared, verdict, chunk, cur, rr, built, audit,
                       srv, ws, unlinking, clears, restarts>>
    BY <1>3 DEF FixRaise
  <2>2. file' \in [Models -> Content]
    BY <2>1, WriteFacts DEF TypeInv, TypeOK, Sql
  <2>3. CurPrepared' /\ NotBegun' /\ FutureListed' /\ pc' \in [Jobs -> Pc]
    BY <2>1, WorkerStep DEF Pc, Repairing
  <2> QED
    BY <2>1, <2>2, <2>3 DEF TypeInv, TypeOK
<1>4. ASSUME Retest(j) \/ RetestPassthrough(j) PROVE TypeInv'
  <2>1. /\ pc[j] \in Repairing
        /\ \E ok \in BOOLEAN : TestModel(ModelOf[cur[j]], ok)
        /\ \E l \in Repairing \cup {"handler"} : Goto(j, l)
        /\ UNCHANGED <<mem, disk, keys, fut, prepared, verdict, chunk, cur, file, audit,
                       srv, ws, unlinking, clears, restarts>>
    BY <1>4 DEF Retest, RetestPassthrough, Repairing, GotoOrFail
  <2>2. ModelOf[cur[j]] \in Models
    BY <1>0, <2>1, BulkAssumption
  <2>3. rr' \in [Models -> {"none", "ok", "err"}] /\ built' \in SUBSET Models
    BY <2>1, <2>2, TypeTest DEF TypeInv
  <2>4. CurPrepared' /\ NotBegun' /\ FutureListed' /\ pc' \in [Jobs -> Pc]
    BY <1>0, <2>1, WorkerStep DEF Pc, Repairing
  <2> QED
    BY <2>1, <2>3, <2>4 DEF TypeInv, TypeOK
<1>5. ASSUME Passthrough(j) PROVE TypeInv'
  <2>1. /\ pc[j] \in Repairing
        /\ UNCHANGED file \/ WriteModel(cur[j], "passthrough")
        /\ Goto(j, "retest2") \/ Goto(j, "handler")
        /\ UNCHANGED <<mem, disk, keys, fut, prepared, verdict, chunk, cur, rr, built, audit,
                       srv, ws, unlinking, clears, restarts>>
    BY <1>5 DEF Passthrough, Repairing
  <2>2. file' \in [Models -> Content]
    BY <1>0, <2>1, WriteFacts DEF TypeInv, TypeOK, Sql
  <2>3. CurPrepared' /\ NotBegun' /\ FutureListed' /\ pc' \in [Jobs -> Pc]
    BY <1>0, <2>1, WorkerStep DEF Pc, Repairing
  <2> QED
    BY <2>1, <2>2, <2>3 DEF TypeInv, TypeOK
<1>6. ASSUME RecordRepaired(j) PROVE TypeInv'
  <2>1. pc[j] \in Repairing /\ Decide(j, cur[j], pc[j] = "accept")
    BY <1>6 DEF RecordRepaired, Repairing
  <2> QED
    BY <1>0, <2>1, TypeDecide
<1>7. \A st \in Status : Closed(mem[j], st) \in Entry
  BY <1>0 DEF Closed, EntryOf, Entry
<1>8. ASSUME Finish(j) PROVE TypeInv'
  <2>1. CASE Alive(j)
    BY <1>7, <1>8, <2>1, TypeEnd DEF Finish, Status
  <2>2. CASE ~Alive(j)
    <3>1. /\ Goto(j, "handler")
          /\ UNCHANGED <<mem, disk, keys, fut, prepared, verdict, chunk, cur, file, rr, built,
                         audit, srv, ws, unlinking, clears, restarts>>
      BY <1>8, <2>2 DEF Finish
    <3>2. CurPrepared' /\ NotBegun' /\ FutureListed' /\ pc' \in [Jobs -> Pc]
      BY <3>1, WorkerStep DEF Pc, Repairing
    <3> QED
      BY <3>1, <3>2 DEF TypeInv, TypeOK
  <2> QED
    BY <2>1, <2>2
<1>9. ASSUME FailJob(j) PROVE TypeInv'
  BY <1>7, <1>9, TypeEnd DEF FailJob, Status
<1> QED
  BY <1>1, <1>2, <1>3, <1>4, <1>5, <1>6, <1>8, <1>9

\* The shutdown hook, and the end of the process.
LEMMA TypeServer ==
    ASSUME TypeInv, Shutdown \/ Restart
    PROVE  TypeInv'
<1>0. NoEntry \in Entry /\ Untouched(NoEntry)
  BY DEF NoEntry, EntryOf, Entry, Status, Untouched
<1>1. ASSUME Shutdown PROVE TypeInv'
  <2>1. \A e \in Entry : /\ Closed(e, "failed") \in Entry
                         /\ Untouched(e) => Untouched(Closed(e, "failed"))
    BY DEF Closed, EntryOf, Entry, Status, Untouched
  <2>2. mem' = [j \in Jobs |-> IF mem[j].status = "running"
                               THEN Closed(mem[j], "failed") ELSE mem[j]]
    BY <1>1 DEF Shutdown
  <2>3. mem' \in [Jobs -> Entry] /\ \A j \in Jobs : Untouched(mem[j]) => Untouched(mem'[j])
    BY <2>1, <2>2 DEF TypeInv, TypeOK
  <2>4. TypeOK'
    BY <1>1, <2>3 DEF Shutdown, TypeInv, TypeOK
  <2>5. CurPrepared' /\ NotBegun' /\ FutureListed'
    BY <1>1, <2>3 DEF Shutdown, TypeInv, CurPrepared, NotBegun, FutureListed, Listed
  <2> QED
    BY <2>4, <2>5 DEF TypeInv
<1>2. ASSUME Restart PROVE TypeInv'
  <2>1. /\ mem' = [j \in Jobs |-> NoEntry]
        /\ pc' = [j \in Jobs |-> IF pc[j] = "new" THEN "new" ELSE "ended"]
        /\ fut' = [j \in Jobs |-> [s \in Slots |-> "none"]]
        /\ prepared' = [j \in Jobs |-> {}]
        /\ UNCHANGED <<disk, keys>>
    BY <1>2 DEF Restart
  <2>2. TypeOK'
    BY <1>0, <1>2, <2>1 DEF Restart, TypeInv, TypeOK, Pc, Future
  <2>3. CurPrepared'
    BY <2>1 DEF CurPrepared, Repairing
  <2>4. NotBegun'
    BY <1>0, <2>1 DEF TypeInv, NotBegun
  <2>5. FutureListed'
    BY <2>1 DEF FutureListed
  <2> QED
    BY <2>2, <2>3, <2>4, <2>5 DEF TypeInv
<1> QED
  BY <1>1, <1>2

\* The actions of a worker, by phase.
LEMMA WorkerPhases ==
    ASSUME NEW j \in Jobs, Worker(j)
    PROVE  \/ WorkerBegin(j) \/ (\E s \in Slots : Collect(j, s)) \/ Drain(j) \/ EndPrepare(j)
           \/ BatchRun(j) \/ BatchRead(j) \/ BatchTest(j) \/ BatchReread(j)
           \/ \E t \in Tables : AcceptBatch(j, t) \/ FixNothing(j, t)
                               \/ FixWrite(j, t) \/ FixRaise(j, t)
           \/ Retest(j) \/ Passthrough(j) \/ RetestPassthrough(j)
           \/ RecordRepaired(j) \/ Finish(j) \/ FailJob(j)
  BY Zenon DEF Worker

\* Every step keeps the typing invariant.
LEMMA TypeStep == TypeInv /\ [Next]_vars => TypeInv'
<1> SUFFICES ASSUME TypeInv, [Next]_vars PROVE TypeInv'
  OBVIOUS
<1>1. ASSUME NEW j \in Jobs, Worker(j) PROVE TypeInv'
  BY <1>1, WorkerPhases, TypePrepare, TypeBatch, TypeValidate
<1>2. CASE UNCHANGED vars
  BY <1>2 DEF vars, TypeInv, TypeOK, CurPrepared, NotBegun, FutureListed, Listed
<1> QED
  BY <1>1, <1>2, TypeClient, TypeTask, TypeServer DEF Next

\* The inductive type invariant holds, and with it the variables keep their types.
THEOREM Typing == SafeSpec => []TypeInv
  BY TypeInit, TypeStep, PTL DEF SafeSpec

\* The variables of the bulk job keep their types.
THEOREM TypeCorrect == SafeSpec => []TypeOK
<1>1. TypeInv => TypeOK
  BY DEF TypeInv
<1> QED
  BY <1>1, Typing, PTL

-----------------------------------------------------------------------------
(* What a step may touch *)

\* The state of one job, and nothing of the others.
SameJob(i) ==
    /\ mem'[i] = mem[i] /\ disk'[i] = disk[i] /\ keys'[i] = keys[i]
    /\ pc'[i] = pc[i] /\ fut'[i] = fut[i] /\ prepared'[i] = prepared[i]
    /\ verdict'[i] = verdict[i] /\ cur'[i] = cur[i]

\* A step of a client, a pool thread or a worker is a step of one job.
LEMMA OneJobClient ==
    ASSUME TypeInv, NEW j \in Jobs, Client(j), NEW i \in Jobs, i # j
    PROVE  SameJob(i)
<1>1. ASSUME NEW req \in Requests, BulkStart(j, req) PROVE SameJob(i)
  BY <1>1 DEF BulkStart, TypeInv, TypeOK, SameJob, Publish, Save, Goto
<1>2. ASSUME ClearPop(j) \/ ClearUnlink(j) \/ WsOpen(j) \/ WsPoll(j) PROVE SameJob(i)
  BY <1>2 DEF ClearPop, ClearUnlink, WsOpen, WsPoll, TypeInv, TypeOK, SameJob, Save
<1> QED
  BY <1>1, <1>2 DEF Client

\* The pool thread of a table touches its own job.
LEMMA OneJobTask ==
    ASSUME TypeInv, NEW j \in Jobs, NEW s \in Slots, Task(j, s), NEW i \in Jobs, i # j
    PROVE  SameJob(i)
  BY DEF Task, TaskWrite, TaskRaise, TaskReturn, SetFuture, TypeInv, TypeOK, SameJob

\* A worker touches its own job, and files and results all jobs share.
LEMMA OneJobWorker ==
    ASSUME TypeInv, NEW j \in Jobs, Worker(j), NEW i \in Jobs, i # j
    PROVE  SameJob(i)
<1> USE DEF TypeInv, TypeOK, SameJob, Publish, Save, Goto, GotoOrFail
<1>1. ASSUME WorkerBegin(j) PROVE SameJob(i)
  BY <1>1 DEF WorkerBegin
<1>2. ASSUME NEW s \in Slots, Collect(j, s) PROVE SameJob(i)
  BY <1>2 DEF Collect, SetFuture
<1>3. ASSUME Drain(j) \/ EndPrepare(j) PROVE SameJob(i)
  BY <1>3 DEF Drain, EndPrepare
<1>4. ASSUME BatchRun(j) \/ BatchRead(j) \/ BatchTest(j) \/ BatchReread(j) PROVE SameJob(i)
  BY <1>4 DEF BatchRun, BatchRead, BatchTest, BatchReread
<1>5. ASSUME NEW t \in Tables, NEW ok \in BOOLEAN, Decide(j, t, ok) PROVE SameJob(i)
  BY <1>5 DEF Decide
<1>6. ASSUME NEW t \in Tables, AcceptBatch(j, t) \/ FixNothing(j, t) \/ FixWrite(j, t) \/ FixRaise(j, t)
      PROVE SameJob(i)
  BY <1>5, <1>6 DEF AcceptBatch, FixNothing, FixWrite, FixRaise
<1>7. ASSUME Retest(j) \/ Passthrough(j) \/ RetestPassthrough(j) PROVE SameJob(i)
  BY <1>7 DEF Retest, Passthrough, RetestPassthrough
<1>8. ASSUME RecordRepaired(j) PROVE SameJob(i)
  <2>1. cur[j] \in Tables
    BY <1>8 DEF RecordRepaired, CurPrepared, Repairing
  <2> QED
    BY <1>5, <1>8, <2>1 DEF RecordRepaired
<1>9. ASSUME Finish(j) \/ FailJob(j) PROVE SameJob(i)
  BY <1>9 DEF Finish, FailJob, EndThread
<1> QED
  BY <1>1, <1>2, <1>3, <1>4, <1>6, <1>7, <1>8, <1>9, WorkerPhases

\* Only the shutdown and the restart change whether the server is up.
LEMMA ServerSteady ==
    ASSUME NEW j \in Jobs, Client(j) \/ Worker(j) \/ \E s \in Slots : Task(j, s)
    PROVE  srv' = srv
<1>1. ASSUME NEW t, NEW ok, Decide(j, t, ok) PROVE srv' = srv
  BY <1>1 DEF Decide
<1>2. CASE Client(j)
  BY <1>2 DEF Client, BulkStart, ClearPop, ClearUnlink, WsOpen, WsPoll
<1>3. CASE \E s \in Slots : Task(j, s)
  BY <1>3 DEF Task, TaskWrite, TaskRaise, TaskReturn
<1>4. CASE Worker(j)
  <2>1. ASSUME \/ WorkerBegin(j) \/ (\E s \in Slots : Collect(j, s)) \/ Drain(j) \/ EndPrepare(j)
               \/ BatchRun(j) \/ BatchRead(j) \/ BatchTest(j) \/ BatchReread(j)
        PROVE  srv' = srv
    BY <2>1
    DEF WorkerBegin, Collect, Drain, EndPrepare, BatchRun, BatchRead, BatchTest, BatchReread
  <2>2. ASSUME NEW t \in Tables,
               AcceptBatch(j, t) \/ FixNothing(j, t) \/ FixWrite(j, t) \/ FixRaise(j, t)
        PROVE  srv' = srv
    BY <1>1, <2>2 DEF AcceptBatch, FixNothing, FixWrite, FixRaise
  <2>3. ASSUME \/ Retest(j) \/ Passthrough(j) \/ RetestPassthrough(j)
               \/ RecordRepaired(j) \/ Finish(j) \/ FailJob(j)
        PROVE  srv' = srv
    BY <1>1, <2>3 DEF Retest, Passthrough, RetestPassthrough, RecordRepaired, Finish, FailJob
  <2> QED
    BY <1>4, <2>1, <2>2, <2>3, WorkerPhases
<1> QED
  BY <1>2, <1>3, <1>4

-----------------------------------------------------------------------------
(* The accounting of one job *)

\* The worker is past its pool.
Validating == {"batch", "read", "test", "reread", "loop"} \cup Repairing

\* While the entry exists, a collected table is still in "prepared" or has an outcome.
Accounted(j) ==
    pc[j] \in {"collect"} \cup Validating /\ Alive(j) =>
        \A s \in Listed(j) : fut[j][s] = "collected" =>
            keys[j][s] \in prepared[j] \cup mem[j].success \cup mem[j].failed

\* The validation starts when every future has been collected.
AllCollected(j) ==
    pc[j] \in Validating => \A s \in Listed(j) : fut[j][s] = "collected"

\* An entry that says done has an outcome for every table of the job.
Complete(j, e) ==
    e.status = "done" => \A s \in Listed(j) : keys[j][s] \in e.success \cup e.failed

\* A job is over only when its thread is; until the shutdown, a failed one too.
Settled(j) ==
    /\ mem[j].status = "done" =>
          pc[j] = "ended" /\ \A s \in Listed(j) : fut[j][s] = "collected"
    /\ srv = "up" /\ mem[j].status = "failed" => pc[j] = "ended"

\* The file of a live entry has no outcome the entry does not have.
FileBehind(j) ==
    Alive(j) => disk[j].success \subseteq mem[j].success /\ disk[j].failed \subseteq mem[j].failed

JobInv(j) ==
    /\ Accounted(j)
    /\ AllCollected(j)
    /\ Complete(j, mem[j]) /\ Complete(j, disk[j])
    /\ Settled(j)
    /\ FileBehind(j)

\* A step that leaves a job alone keeps its accounts.
LEMMA SameAccounts ==
    ASSUME NEW j \in Jobs, JobInv(j), SameJob(j), srv' = srv
    PROVE  JobInv(j)'
  BY DEF JobInv, SameJob, Accounted, AllCollected, Complete, Settled, FileBehind, Listed, Alive

\* A publication that keeps the outcomes there are and does not end the job keeps
\* what the file says behind what memory says.
LEMMA PublishAccounts ==
    ASSUME TypeInv, NEW j \in Jobs, JobInv(j), Alive(j), NEW e \in Entry, Publish(j, e),
           keys' = keys, srv' = srv,
           mem[j].success \subseteq e.success, mem[j].failed \subseteq e.failed
    PROVE  /\ mem'[j] = e
           /\ Complete(j, e) => Complete(j, mem[j])' /\ Complete(j, disk[j])'
           /\ FileBehind(j)'
<1>1. mem'[j] = e /\ disk'[j] \in {e, disk[j]}
  BY PublishFacts DEF TypeInv
<1>2. Complete(j, e) => Complete(j, mem[j])' /\ Complete(j, disk[j])'
  BY <1>1 DEF JobInv, Complete, Listed
<1>3. FileBehind(j)'
  BY <1>1 DEF JobInv, FileBehind
<1> QED
  BY <1>1, <1>2, <1>3

\* A client registers a job empty, forgets it, or only reads.
LEMMA AccountsClient ==
    ASSUME TypeInv, NEW j \in Jobs, JobInv(j), Client(j)
    PROVE  JobInv(j)'
<1>1. ASSUME NEW req \in Requests, BulkStart(j, req) PROVE JobInv(j)'
  <2> DEFINE n == Cardinality({s \in Slots : Runnable(req)[s] # NoTable})
  <2>1. pc[j] = "new" /\ Publish(j, Queued(n)) /\ (Goto(j, "nothread") \/ Goto(j, "spawned"))
    BY <1>1 DEF BulkStart
  <2>2. n \in Nat
    BY Counts DEF TypeInv
  <2>3. Queued(n) \in Entry /\ Queued(n).status = "queued"
        /\ Queued(n).success = {} /\ Queued(n).failed = {}
    BY <2>2 DEF Queued, EntryOf, Entry, Status
  <2> HIDE DEF n
  <2>4. mem'[j] = Queued(n) /\ disk'[j] \in {Queued(n), disk[j]}
    BY <2>1, <2>3, PublishFacts DEF TypeInv
  <2>5. disk[j].status # "done" /\ disk[j].success = {} /\ disk[j].failed = {}
    BY <2>1 DEF TypeInv, NotBegun, Untouched
  <2>6. pc'[j] \in {"nothread", "spawned"}
    BY <2>1 DEF Goto, TypeInv, TypeOK
  <2> QED
    BY <2>3, <2>4, <2>5, <2>6
    DEF JobInv, Accounted, AllCollected, Complete, Settled, FileBehind, Validating, Repairing
<1>2. ASSUME ClearPop(j) PROVE JobInv(j)'
  <2>1. /\ mem'[j] = NoEntry
        /\ UNCHANGED <<srv, disk, keys, pc, fut, prepared>>
    BY <1>2 DEF ClearPop, TypeInv, TypeOK
  <2> QED
    BY <2>1
    DEF JobInv, Accounted, AllCollected, Complete, Settled, FileBehind, Alive, NoEntry,
        EntryOf, Listed
<1>3. ASSUME ClearUnlink(j) PROVE JobInv(j)'
  <2>1. disk'[j] \in {NoEntry, disk[j]} /\ UNCHANGED <<srv, mem, keys, pc, fut, prepared>>
    BY <1>3 DEF ClearUnlink, Save, TypeInv, TypeOK
  <2>2. NoEntry.status # "done" /\ NoEntry.success = {} /\ NoEntry.failed = {}
    BY DEF NoEntry, EntryOf
  <2> QED
    BY <2>1, <2>2
    DEF JobInv, Accounted, AllCollected, Complete, Settled, FileBehind, Alive, Listed
<1>4. ASSUME WsOpen(j) \/ WsPoll(j) PROVE JobInv(j)'
  <2>1. SameJob(j) /\ srv' = srv
    BY <1>4 DEF WsOpen, WsPoll, SameJob
  <2> QED
    BY <2>1, SameAccounts
<1> QED
  BY <1>1, <1>2, <1>3, <1>4 DEF Client

\* A pool thread neither records nor collects.
LEMMA AccountsTask ==
    ASSUME TypeInv, NEW j \in Jobs, NEW s \in Slots, JobInv(j), Task(j, s)
    PROVE  JobInv(j)'
<1>1. fut[j][s] \in {"queued", "written", "blank"}
  BY DEF Task, TaskWrite, TaskRaise, TaskReturn
<1>2. PICK v \in Future \ {"collected"} : SetFuture(j, s, v)
  BY DEF Task, TaskWrite, TaskRaise, TaskReturn, Future, Finished
<1>3. \A r \in Slots : fut'[j][r] = "collected" <=> fut[j][r] = "collected"
  BY <1>1, <1>2 DEF SetFuture, TypeInv, TypeOK
<1>4. UNCHANGED <<srv, mem, disk, keys, pc, prepared>>
  BY DEF Task, TaskWrite, TaskRaise, TaskReturn
<1> QED
  BY <1>3, <1>4 DEF JobInv, Accounted, AllCollected, Complete, Settled, FileBehind, Alive, Listed

\* A worker step that publishes nothing and keeps the futures: the accounts follow
\* its label.
LEMMA QuietAccounts ==
    ASSUME TypeInv, NEW j \in Jobs, JobInv(j), NEW l \in Pc, Goto(j, l),
           pc[j] # "ended", pc[j] \in Validating \/ l \notin Validating,
           pc[j] \in {"collect"} \cup Validating \/ l \notin {"collect"} \cup Validating,
           UNCHANGED <<srv, mem, disk, keys, fut, prepared>>
    PROVE  JobInv(j)'
<1>1. pc'[j] = l
  BY DEF Goto, TypeInv, TypeOK
<1> QED
  BY <1>1 DEF JobInv, Accounted, AllCollected, Complete, Settled, FileBehind, Alive, Listed

\* The first phase of the worker: collecting a future accounts for its table.
LEMMA AccountsPrepare ==
    ASSUME TypeInv, NEW j \in Jobs, JobInv(j),
           WorkerBegin(j) \/ (\E s \in Slots : Collect(j, s)) \/ Drain(j) \/ EndPrepare(j)
    PROVE  JobInv(j)'
<1>0. mem[j] \in Entry /\ Cardinality(Listed(j)) \in Nat /\ Cardinality(prepared[j]) \in Nat
  BY Counts DEF TypeInv, TypeOK
<1>1. ASSUME WorkerBegin(j) PROVE JobInv(j)'
  <2> DEFINE e == Running(mem[j], Cardinality(Listed(j)))
  <2>1. /\ e \in Entry /\ e.status = "running"
        /\ e.success = mem[j].success /\ e.failed = mem[j].failed
    BY <1>0 DEF Running, EntryOf, Entry, Status
  <2>2. /\ pc[j] = "spawned" /\ Publish(j, e) /\ Goto(j, "collect")
        /\ fut' = [fut EXCEPT ![j] = [s \in Slots |-> IF s \in Listed(j) THEN "queued" ELSE "none"]]
        /\ UNCHANGED <<srv, keys, prepared>>
    BY <1>1 DEF WorkerBegin
  <2> HIDE DEF e
  <2>3. mem'[j] = e /\ disk'[j] \in {e, disk[j]}
    BY <2>1, <2>2, PublishFacts DEF TypeInv
  <2>4. /\ disk[j].status # "done" /\ disk[j].success = {} /\ disk[j].failed = {}
    BY <2>2 DEF TypeInv, NotBegun, Untouched
  <2>5. pc'[j] = "collect" /\ \A s \in Slots : fut'[j][s] # "collected"
    BY <2>2 DEF Goto, TypeInv, TypeOK
  <2> QED
    BY <2>1, <2>2, <2>3, <2>4, <2>5
    DEF JobInv, Accounted, AllCollected, Complete, Settled, FileBehind, Validating, Repairing,
        Listed
<1>2. ASSUME NEW s \in Slots, Collect(j, s) PROVE JobInv(j)'
  <2>1. CASE ~Alive(j)
    <3>1. /\ pc[j] = "collect" /\ Goto(j, "drain")
          /\ UNCHANGED <<srv, mem, disk, keys, fut, prepared>>
      BY <1>2, <2>1 DEF Collect
    <3> QED
      BY <3>1, QuietAccounts DEF Validating, Repairing, Pc
  <2>2. CASE Alive(j)
    <3> DEFINE t == TableOf(j, s)
    <3>1. t \in Tables /\ t = keys[j][s]
      BY <1>2 DEF Collect, TypeInv, FutureListed, Listed, TableOf, TypeOK, Finished
    <3> HIDE DEF t
    <3>2. /\ pc[j] = "collect" /\ SetFuture(j, s, "collected")
          /\ \/ /\ prepared' = [prepared EXCEPT ![j] = prepared[j] \cup {t}]
                /\ Publish(j, Counted(mem[j]))
             \/ /\ prepared' = prepared
                /\ Publish(j, Failed(mem[j], t))
          /\ UNCHANGED <<srv, pc, keys>>
      BY <1>2, <2>2 DEF Collect, t
    <3>3. /\ Counted(mem[j]) \in Entry /\ Counted(mem[j]).status = mem[j].status
          /\ Counted(mem[j]).success = mem[j].success /\ Counted(mem[j]).failed = mem[j].failed
          /\ Failed(mem[j], t) \in Entry /\ Failed(mem[j], t).status = mem[j].status
          /\ Failed(mem[j], t).success = mem[j].success
          /\ Failed(mem[j], t).failed = mem[j].failed \cup {t}
      BY <1>0, <3>1 DEF Counted, Failed, EntryOf, Entry
    <3>4. PICK e \in Entry :
             /\ Publish(j, e) /\ e.status = mem[j].status
             /\ mem[j].success \subseteq e.success /\ mem[j].failed \subseteq e.failed
             /\ t \in prepared'[j] \cup e.failed
      <4>1. CASE prepared' = [prepared EXCEPT ![j] = prepared[j] \cup {t}] /\ Publish(j, Counted(mem[j]))
        <5>1. t \in prepared'[j]
          BY <4>1 DEF TypeInv, TypeOK
        <5> QED
          BY <3>3, <4>1, <5>1
      <4>2. CASE Publish(j, Failed(mem[j], t))
        BY <3>3, <4>2
      <4> QED
        BY <3>2, <4>1, <4>2
    <3>5. prepared[j] \subseteq prepared'[j]
      BY <3>2 DEF TypeInv, TypeOK
    <3>6. /\ fut'[j][s] = "collected"
          /\ \A r \in Slots : r # s => fut'[j][r] = fut[j][r]
      BY <3>2 DEF SetFuture, TypeInv, TypeOK
    <3>7. e.status # "done"
      BY <3>2, <3>4 DEF JobInv, Settled
    <3>8. /\ mem'[j] = e
          /\ Complete(j, mem[j])' /\ Complete(j, disk[j])' /\ FileBehind(j)'
      BY <2>2, <3>2, <3>4, <3>7, PublishAccounts DEF Complete
    <3>9. Accounted(j)'
      BY <2>2, <3>1, <3>2, <3>4, <3>5, <3>6, <3>8 DEF JobInv, Accounted, Alive, Listed
    <3>10. AllCollected(j)' /\ Settled(j)'
      BY <3>2, <3>4, <3>8 DEF JobInv, AllCollected, Settled, Validating, Repairing
    <3> QED
      BY <3>8, <3>9, <3>10 DEF JobInv
  <2> QED
    BY <2>1, <2>2
<1>3. ASSUME Drain(j) PROVE JobInv(j)'
  BY <1>3, QuietAccounts DEF Drain, Validating, Repairing, Pc
<1>4. ASSUME EndPrepare(j) PROVE JobInv(j)'
  <2>1. /\ pc[j] = "collect" /\ \A s \in Listed(j) : fut[j][s] = "collected"
        /\ UNCHANGED <<srv, keys, fut, prepared>>
    BY <1>4 DEF EndPrepare
  <2>2. CASE UNCHANGED jobVars
    <3>1. PICK l \in {"loop", "batch", "handler"} : Goto(j, l)
      BY <1>4 DEF EndPrepare
    <3>2. pc'[j] = l
      BY <3>1 DEF Goto, TypeInv, TypeOK
    <3> QED
      BY <2>1, <2>2, <3>2
      DEF JobInv, Accounted, AllCollected, Complete, Settled, FileBehind, Alive, Listed,
          Validating, Repairing
  <2>3. CASE ~UNCHANGED jobVars
    <3> DEFINE e == PhaseTwo(mem[j], Cardinality(prepared[j]))
    <3>1. Alive(j) /\ Publish(j, e) /\ Goto(j, "batch")
      BY <1>4, <2>3 DEF EndPrepare
    <3>2. /\ e \in Entry /\ e.status = "running"
          /\ e.success = mem[j].success /\ e.failed = mem[j].failed
      BY <1>0 DEF PhaseTwo, EntryOf, Entry, Status
    <3> HIDE DEF e
    <3>3. /\ mem'[j] = e
          /\ Complete(j, mem[j])' /\ Complete(j, disk[j])' /\ FileBehind(j)'
      BY <2>1, <3>1, <3>2, PublishAccounts DEF Complete
    <3>4. pc'[j] = "batch"
      BY <3>1 DEF Goto, TypeInv, TypeOK
    <3>5. Accounted(j)' /\ AllCollected(j)' /\ Settled(j)'
      BY <2>1, <3>1, <3>2, <3>3, <3>4 DEF JobInv, Accounted, AllCollected, Settled, Alive, Listed
    <3> QED
      BY <3>3, <3>5 DEF JobInv
  <2> QED
    BY <2>2, <2>3
<1> QED
  BY <1>1, <1>2, <1>3, <1>4

\* Recording an outcome moves a table from "prepared" to the entry.
LEMMA AccountsDecide ==
    ASSUME TypeInv, NEW j \in Jobs, JobInv(j), pc[j] \in Validating,
           NEW t \in Tables, NEW ok \in BOOLEAN, Decide(j, t, ok)
    PROVE  JobInv(j)'
<1>1. CASE ~Alive(j)
  BY <1>1, QuietAccounts DEF Decide, Validating, Repairing, Pc
<1>2. CASE Alive(j)
  <2>0. mem[j] \in Entry
    BY DEF TypeInv, TypeOK
  <2>1. /\ Publish(j, IF ok THEN Migrated(mem[j], t) ELSE Failed(mem[j], t))
        /\ prepared' = [prepared EXCEPT ![j] = prepared[j] \ {t}]
        /\ Goto(j, "loop")
        /\ UNCHANGED <<srv, keys, fut>>
    BY <1>2 DEF Decide
  <2>2. /\ Migrated(mem[j], t) \in Entry /\ Migrated(mem[j], t).status = mem[j].status
        /\ Migrated(mem[j], t).success = mem[j].success \cup {t}
        /\ Migrated(mem[j], t).failed = mem[j].failed
        /\ Failed(mem[j], t) \in Entry /\ Failed(mem[j], t).status = mem[j].status
        /\ Failed(mem[j], t).success = mem[j].success
        /\ Failed(mem[j], t).failed = mem[j].failed \cup {t}
    BY <2>0 DEF Migrated, Failed, EntryOf, Entry
  <2>3. PICK e \in Entry :
           /\ Publish(j, e) /\ e.status = mem[j].status
           /\ mem[j].success \subseteq e.success /\ mem[j].failed \subseteq e.failed
           /\ t \in e.success \cup e.failed
    BY <2>1, <2>2
  <2>4. pc'[j] = "loop" /\ prepared'[j] = prepared[j] \ {t}
    BY <2>1 DEF Goto, TypeInv, TypeOK
  <2>5. pc[j] # "ended" /\ pc[j] # "collect"
    BY DEF Validating, Repairing
  <2>6. e.status # "done"
    BY <2>3, <2>5 DEF JobInv, Settled
  <2>7. /\ mem'[j] = e
        /\ Complete(j, mem[j])' /\ Complete(j, disk[j])' /\ FileBehind(j)'
    BY <1>2, <2>1, <2>3, <2>6, PublishAccounts DEF Complete
  <2>8. Accounted(j)'
    BY <1>2, <2>1, <2>3, <2>4, <2>7 DEF JobInv, Accounted, Alive, Listed
  <2>9. AllCollected(j)' /\ Settled(j)'
    BY <2>1, <2>3, <2>4, <2>5, <2>6, <2>7 DEF JobInv, AllCollected, Settled, Listed
  <2> QED
    BY <2>7, <2>8, <2>9 DEF JobInv
<1> QED
  BY <1>1, <1>2

\* The end of the thread, after a publication that closes the entry or without one.
LEMMA AccountsEnd ==
    ASSUME TypeInv, NEW j \in Jobs, JobInv(j), pc[j] # "ended", EndThread(j),
           UNCHANGED <<srv, keys, fut>>,
           \/ UNCHANGED <<mem, disk>>
           \/ /\ Alive(j) /\ Publish(j, Closed(mem[j], "failed"))
           \/ /\ Alive(j) /\ Publish(j, Closed(mem[j], "done"))
              /\ pc[j] = "loop" /\ prepared[j] = {}
    PROVE  JobInv(j)'
<1>1. pc'[j] = "ended"
  BY DEF EndThread, Goto, TypeInv, TypeOK
<1>2. CASE UNCHANGED <<mem, disk>>
  BY <1>1, <1>2
  DEF JobInv, Accounted, AllCollected, Complete, Settled, FileBehind, Alive, Listed,
      Validating, Repairing
<1>3. ASSUME NEW st \in {"done", "failed"}, Alive(j), Publish(j, Closed(mem[j], st)),
             st = "done" => pc[j] = "loop" /\ prepared[j] = {}
      PROVE  JobInv(j)'
  <2> DEFINE e == Closed(mem[j], st)
  <2>1. /\ e \in Entry /\ e.status = st
        /\ e.success = mem[j].success /\ e.failed = mem[j].failed
    BY DEF Closed, EntryOf, Entry, Status, TypeInv, TypeOK
  <2>2. Publish(j, e)
    BY <1>3
  <2> HIDE DEF e
  <2>3. st = "done" => /\ \A s \in Listed(j) : fut[j][s] = "collected"
                       /\ \A s \in Listed(j) : keys[j][s] \in mem[j].success \cup mem[j].failed
    BY <1>3 DEF JobInv, Accounted, AllCollected, Validating
  <2>4. Complete(j, e)
    BY <2>1, <2>3 DEF Complete
  <2>5. mem'[j] = e /\ Complete(j, mem[j])' /\ Complete(j, disk[j])' /\ FileBehind(j)'
    BY <1>3, <2>1, <2>2, <2>4, PublishAccounts
  <2> QED
    BY <1>1, <2>1, <2>3, <2>5
    DEF JobInv, Accounted, AllCollected, Settled, Listed, Validating, Repairing
<1> QED
  BY <1>2, <1>3

\* Every step of a worker keeps the accounts of its job.
LEMMA AccountsWorker ==
    ASSUME TypeInv, NEW j \in Jobs, JobInv(j), Worker(j)
    PROVE  JobInv(j)'
<1>1. ASSUME BatchRun(j) \/ BatchRead(j) \/ BatchTest(j) \/ BatchReread(j) PROVE JobInv(j)'
  <2>1. /\ pc[j] \in {"batch", "read", "test", "reread"}
        /\ \E l \in {"batch", "read", "test", "reread", "loop", "handler"} : Goto(j, l)
        /\ UNCHANGED <<srv, mem, disk, keys, fut, prepared>>
    BY <1>1 DEF GotoOrFail, BatchRun, BatchRead, BatchTest, BatchReread
  <2> QED
    BY <2>1, QuietAccounts DEF Validating, Repairing, Pc
<1>2. ASSUME NEW t \in Tables, AcceptBatch(j, t) \/ FixNothing(j, t) PROVE JobInv(j)'
  BY <1>2, AccountsDecide DEF AcceptBatch, FixNothing, Validating
<1>3. ASSUME (\E t \in Tables : FixWrite(j, t) \/ FixRaise(j, t))
             \/ Retest(j) \/ Passthrough(j) \/ RetestPassthrough(j)
      PROVE  JobInv(j)'
  <2>1. /\ pc[j] \in {"loop"} \cup Repairing
        /\ \E l \in {"handler"} \cup Repairing : Goto(j, l)
        /\ UNCHANGED <<srv, mem, disk, keys, fut, prepared>>
    BY <1>3 DEF FixWrite, FixRaise, Retest, Passthrough, RetestPassthrough, Repairing, GotoOrFail
  <2> QED
    BY <2>1, QuietAccounts DEF Validating, Repairing, Pc
<1>4. ASSUME RecordRepaired(j) PROVE JobInv(j)'
  <2>1. cur[j] \in Tables /\ pc[j] \in Validating /\ Decide(j, cur[j], pc[j] = "accept")
    BY <1>4 DEF RecordRepaired, TypeInv, TypeOK, CurPrepared, Repairing, Validating
  <2> QED
    BY <2>1, AccountsDecide
<1>5. ASSUME Finish(j) PROVE JobInv(j)'
  <2>1. CASE Alive(j)
    BY <1>5, <2>1, AccountsEnd DEF Finish
  <2>2. CASE ~Alive(j)
    BY <1>5, <2>2, QuietAccounts DEF Finish, Validating, Repairing, Pc
  <2> QED
    BY <2>1, <2>2
<1>6. ASSUME FailJob(j) PROVE JobInv(j)'
  BY <1>6, AccountsEnd DEF FailJob
<1> QED
  BY <1>1, <1>2, <1>3, <1>4, <1>5, <1>6, AccountsPrepare, WorkerPhases

\* The shutdown hook and the end of the process, for each job.
LEMMA AccountsServer ==
    ASSUME TypeInv, NEW j \in Jobs, JobInv(j), Shutdown \/ Restart
    PROVE  JobInv(j)'
<1>1. CASE Shutdown
  <2>1. /\ mem'[j] = IF mem[j].status = "running" THEN Closed(mem[j], "failed") ELSE mem[j]
        /\ srv' = "stopping" /\ UNCHANGED <<disk, keys, pc, fut, prepared>>
    BY <1>1 DEF Shutdown
  <2>2. /\ mem'[j].success = mem[j].success /\ mem'[j].failed = mem[j].failed
        /\ mem'[j].status = mem[j].status \/ (Alive(j) /\ mem'[j].status = "failed")
    BY <2>1 DEF Closed, EntryOf, Alive
  <2> QED
    BY <2>1, <2>2
    DEF JobInv, Accounted, AllCollected, Complete, Settled, FileBehind, Alive, Listed
<1>2. CASE Restart
  <2>1. mem'[j].status = "absent" /\ pc'[j] \in {"new", "ended"} /\ UNCHANGED <<disk, keys>>
    BY <1>2 DEF Restart, NoEntry, EntryOf
  <2> QED
    BY <2>1
    DEF JobInv, Accounted, AllCollected, Complete, Settled, FileBehind, Alive, Listed,
        Validating, Repairing
<1> QED
  BY <1>1, <1>2

\* The accounts of every job are kept by every step.
LEMMA AccountsStep ==
    ASSUME TypeInv, \A j \in Jobs : JobInv(j), [Next]_vars
    PROVE  \A j \in Jobs : JobInv(j)'
<1>1. ASSUME NEW i \in Jobs, Client(i) \/ Worker(i) \/ \E s \in Slots : Task(i, s)
      PROVE  \A j \in Jobs : JobInv(j)'
  <2>1. JobInv(i)'
    BY <1>1, AccountsClient, AccountsWorker, AccountsTask
  <2>2. \A j \in Jobs : j # i => SameJob(j)
    BY <1>1, OneJobClient, OneJobWorker, OneJobTask
  <2>3. srv' = srv
    BY <1>1, ServerSteady
  <2> QED
    BY <2>1, <2>2, <2>3, SameAccounts
<1>2. CASE UNCHANGED vars
  BY <1>2, SameAccounts DEF vars, SameJob
<1> QED
  BY <1>1, <1>2, AccountsServer DEF Next

\* Initially no job has anything to account for.
LEMMA AccountsInit == Init => \A j \in Jobs : JobInv(j)
  BY DEF Init, JobInv, Accounted, AllCollected, Complete, Settled, FileBehind, Alive,
     Validating, Repairing, NoEntry, EntryOf

\* The accounts of every job hold in every state.
THEOREM Accounts == SafeSpec => [](TypeInv /\ \A j \in Jobs : JobInv(j))
<1>1. Init => TypeInv /\ \A j \in Jobs : JobInv(j)
  BY TypeInit, AccountsInit
<1>2. (TypeInv /\ \A j \in Jobs : JobInv(j)) /\ [Next]_vars
         => (TypeInv /\ \A j \in Jobs : JobInv(j))'
  BY TypeStep, AccountsStep
<1> QED
  BY <1>1, <1>2, PTL DEF SafeSpec

\* A job shown as done has an outcome for every table it accepted.
THEOREM DoneAccountsHolds == SafeSpec => []DoneAccounts
<1>1. (TypeInv /\ \A j \in Jobs : JobInv(j)) => DoneAccounts
  BY DEF JobInv, Complete, DoneAccounts, Asked
<1> QED
  BY <1>1, Accounts, PTL

\* A job shown as done has no thread and no task left.
THEOREM DoneIsQuietHolds == SafeSpec => []DoneIsQuiet
<1>1. (TypeInv /\ \A j \in Jobs : JobInv(j)) => DoneIsQuiet
  BY DEF JobInv, Settled, DoneIsQuiet
<1> QED
  BY <1>1, Accounts, PTL

\* The file of a live job claims no outcome its entry does not have.
THEOREM DiskBehindMemoryHolds == SafeSpec => []DiskBehindMemory
<1>1. (TypeInv /\ \A j \in Jobs : JobInv(j)) => DiskBehindMemory
  BY DEF JobInv, FileBehind, DiskBehindMemory
<1> QED
  BY <1>1, Accounts, PTL

\* What one step may do to a job that is over while the server is up.
LEMMA FinalStep ==
    ASSUME TypeInv, \A j \in Jobs : JobInv(j), Next,
           NEW j \in Jobs, srv = "up", mem[j].status \in {"done", "failed"}
    PROVE  mem'[j] \in {mem[j], NoEntry}
<1>1. pc[j] = "ended"
  BY DEF JobInv, Settled
<1>2. CASE Shutdown \/ Restart
  BY <1>2 DEF Shutdown, Restart
<1>3. ASSUME NEW i \in Jobs, i # j, Client(i) \/ Worker(i) \/ \E s \in Slots : Task(i, s)
      PROVE  mem'[j] = mem[j]
  BY <1>3, OneJobClient, OneJobWorker, OneJobTask DEF SameJob
<1>4. CASE Client(j)
  BY <1>1, <1>4 DEF Client, BulkStart, ClearPop, ClearUnlink, WsOpen, WsPoll, TypeInv, TypeOK
<1>5. CASE \E s \in Slots : Task(j, s)
  BY <1>5 DEF Task, TaskWrite, TaskRaise, TaskReturn
<1>6. CASE Worker(j)
  BY <1>1, <1>6
  DEF Worker, WorkerBegin, Collect, Drain, EndPrepare, BatchRun, BatchRead, BatchTest,
      BatchReread,
      AcceptBatch, FixNothing, FixWrite, FixRaise, Retest, Passthrough, RetestPassthrough,
      RecordRepaired, Finish, FailJob
<1> QED
  BY <1>2, <1>3, <1>4, <1>5, <1>6 DEF Next

\* A job that is over stays as it is until it is cleared.
THEOREM TerminalIsFinalHolds == SafeSpec => TerminalIsFinal
<1> DEFINE Final == \A j \in Jobs : srv = "up" /\ mem[j].status \in {"done", "failed"} =>
                                    mem'[j] \in {mem[j], NoEntry}
<1>1. (TypeInv /\ \A j \in Jobs : JobInv(j)) /\ [Next]_vars => [Final]_vars
  BY FinalStep
<1> QED
  BY <1>1, Accounts, PTL DEF SafeSpec, TerminalIsFinal

-----------------------------------------------------------------------------
(* The gate *)

\* A value that is GREEN wherever it names a table.
GreenTables(S) == \A t \in S : Queue[t] = "green"

\* Only GREEN tables are listed, prepared, reported, written and approved.
KeysGreen == \A j \in Jobs : GreenTables(Asked(j))
PreparedGreen == \A j \in Jobs : GreenTables(prepared[j])
EntryGreen(e) == GreenTables(e.success) /\ GreenTables(e.failed)
EntriesGreen == \A j \in Jobs : EntryGreen(mem[j]) /\ EntryGreen(disk[j])
FilesGreen == \A m \in Models : file[m].table # NoTable => Queue[file[m].table] = "green"
AuditGreen == \A a \in audit : Queue[a[2]] = "green"

GateInv == KeysGreen /\ PreparedGreen /\ EntriesGreen /\ FilesGreen /\ AuditGreen

\* Publishing GREEN outcomes, and writing the file of a GREEN table, keep the gate.
LEMMA GatePublish ==
    ASSUME TypeInv, EntriesGreen, NEW j \in Jobs, NEW e \in Entry, Publish(j, e), EntryGreen(e)
    PROVE  EntriesGreen'
<1>1. /\ mem'[j] = e /\ disk'[j] \in {e, disk[j]}
      /\ \A i \in Jobs : i # j => mem'[i] = mem[i] /\ disk'[i] = disk[i]
  BY PublishFacts DEF TypeInv
<1> QED
  BY <1>1 DEF EntriesGreen, EntryGreen, GreenTables

\* Writing the file of a GREEN table keeps every file GREEN.
LEMMA GateWrite ==
    ASSUME TypeInv, FilesGreen, NEW t \in Tables, Queue[t] = "green",
           NEW k \in Sql, WriteModel(t, k)
    PROVE  FilesGreen'
<1>1. \A m \in Models : file'[m] # file[m] => file'[m].table = t
  BY WriteFacts DEF TypeInv
<1> QED
  BY <1>1 DEF FilesGreen

\* A request enters through the gate.
LEMMA GateClient ==
    ASSUME TypeInv, GateInv, NEW j \in Jobs, Client(j)
    PROVE  GateInv'
<1>1. ASSUME NEW req \in Requests, BulkStart(j, req) PROVE GateInv'
  <2> DEFINE n == Cardinality({s \in Slots : Runnable(req)[s] # NoTable})
  <2>1. /\ Publish(j, Queued(n)) /\ keys' = [keys EXCEPT ![j] = Runnable(req)]
        /\ UNCHANGED <<prepared, file, audit>>
    BY <1>1 DEF BulkStart
  <2>2. n \in Nat
    BY Counts DEF TypeInv
  <2>3. Queued(n) \in Entry /\ EntryGreen(Queued(n))
    BY <2>2 DEF Queued, EntryOf, Entry, Status, EntryGreen, GreenTables
  <2> HIDE DEF n
  <2>4. EntriesGreen'
    BY <2>1, <2>3, GatePublish DEF GateInv
  <2>5. KeysGreen'
    BY <2>1, RunnableGreen DEF GateInv, KeysGreen, GreenTables, Asked, Listed, TypeInv, TypeOK
  <2> QED
    BY <2>1, <2>4, <2>5 DEF GateInv, PreparedGreen, FilesGreen, AuditGreen
<1>2. ASSUME ClearPop(j) \/ ClearUnlink(j) PROVE GateInv'
  <2>1. EntryGreen(NoEntry)
    BY DEF NoEntry, EntryOf, EntryGreen, GreenTables
  <2>2. /\ \A i \in Jobs : mem'[i] \in {mem[i], NoEntry} /\ disk'[i] \in {disk[i], NoEntry}
        /\ UNCHANGED <<keys, prepared, file, audit>>
    BY <1>2 DEF ClearPop, ClearUnlink, Save, TypeInv, TypeOK
  <2> QED
    BY <2>1, <2>2
    DEF GateInv, KeysGreen, Asked, Listed, PreparedGreen, EntriesGreen, FilesGreen, AuditGreen
<1>3. ASSUME WsOpen(j) \/ WsPoll(j) PROVE GateInv'
  BY <1>3
  DEF WsOpen, WsPoll, GateInv, KeysGreen, Asked, Listed, PreparedGreen, EntriesGreen,
      FilesGreen, AuditGreen
<1> QED
  BY <1>1, <1>2, <1>3 DEF Client

\* The pool writes and approves listed tables only.
LEMMA GateTask ==
    ASSUME TypeInv, GateInv, NEW j \in Jobs, NEW s \in Slots, Task(j, s)
    PROVE  GateInv'
<1>1. TableOf(j, s) \in Tables /\ Queue[TableOf(j, s)] = "green"
  BY DEF Task, TaskWrite, TaskRaise, TaskReturn, TypeInv, TypeOK, FutureListed, GateInv,
         KeysGreen, GreenTables, Asked, Listed, TableOf
<1>2. UNCHANGED file \/ \E k \in Sql : WriteModel(TableOf(j, s), k)
  BY DEF Task, TaskWrite, TaskRaise, TaskReturn, Sql
<1>3. audit' \in {audit, audit \cup {<<j, TableOf(j, s)>>}}
  BY DEF Task, TaskWrite, TaskRaise, TaskReturn
<1>4. UNCHANGED <<mem, disk, keys, prepared>>
  BY DEF Task, TaskWrite, TaskRaise, TaskReturn
<1>5. FilesGreen'
  BY <1>1, <1>2, GateWrite DEF GateInv, FilesGreen
<1>6. AuditGreen'
  BY <1>1, <1>3 DEF GateInv, AuditGreen
<1> QED
  BY <1>4, <1>5, <1>6 DEF GateInv, KeysGreen, Asked, Listed, PreparedGreen, EntriesGreen

\* A step that publishes a GREEN entry or none, and writes a GREEN model or none.
LEMMA GateFrame ==
    ASSUME TypeInv, GateInv, NEW j \in Jobs,
           UNCHANGED jobVars \/ (\E e \in Entry : EntryGreen(e) /\ Publish(j, e)),
           \/ UNCHANGED file
           \/ \E t \in Tables, k \in Sql : Queue[t] = "green" /\ WriteModel(t, k),
           \A i \in Jobs : GreenTables(prepared'[i]),
           UNCHANGED <<keys, audit>>
    PROVE  GateInv'
<1>1. EntriesGreen'
  BY GatePublish DEF GateInv, EntriesGreen
<1>2. FilesGreen'
  BY GateWrite DEF GateInv, FilesGreen
<1> QED
  BY <1>1, <1>2 DEF GateInv, KeysGreen, Asked, Listed, PreparedGreen, AuditGreen

\* Outcomes are recorded for prepared tables only.
LEMMA GateDecide ==
    ASSUME TypeInv, GateInv, NEW j \in Jobs, NEW t \in prepared[j], NEW ok \in BOOLEAN,
           Decide(j, t, ok)
    PROVE  GateInv'
<1>1. t \in Tables /\ Queue[t] = "green" /\ mem[j] \in Entry /\ EntryGreen(mem[j])
  BY DEF TypeInv, TypeOK, GateInv, PreparedGreen, EntriesGreen, GreenTables
<1>2. /\ Migrated(mem[j], t) \in Entry /\ EntryGreen(Migrated(mem[j], t))
      /\ Failed(mem[j], t) \in Entry /\ EntryGreen(Failed(mem[j], t))
  BY <1>1 DEF Migrated, Failed, EntryOf, Entry, EntryGreen, GreenTables
<1>3. UNCHANGED jobVars \/ \E e \in Entry : EntryGreen(e) /\ Publish(j, e)
  BY <1>2 DEF Decide
<1>4. prepared' = prepared \/ prepared' = [prepared EXCEPT ![j] = prepared[j] \ {t}]
  BY DEF Decide
<1>5. \A i \in Jobs : GreenTables(prepared'[i])
  <2>1. GreenTables(prepared[j] \ {t}) /\ \A i \in Jobs : GreenTables(prepared[i])
    BY DEF GateInv, PreparedGreen, GreenTables
  <2>2. prepared \in [Jobs -> SUBSET Tables]
    BY DEF TypeInv, TypeOK
  <2> QED
    BY <1>4, <2>1, <2>2
<1>6. UNCHANGED <<file, keys, audit>>
  BY DEF Decide
<1> QED
  BY <1>3, <1>5, <1>6, GateFrame

\* Every step of a worker keeps the gate.
LEMMA GateWorker ==
    ASSUME TypeInv, GateInv, NEW j \in Jobs, Worker(j)
    PROVE  GateInv'
<1>0. /\ \A t \in prepared[j] : t \in Tables /\ Queue[t] = "green"
      /\ \A i \in Jobs : GreenTables(prepared[i])
      /\ pc[j] \in Repairing => cur[j] \in prepared[j]
      /\ mem[j] \in Entry /\ EntryGreen(mem[j])
      /\ Cardinality(Listed(j)) \in Nat /\ Cardinality(prepared[j]) \in Nat
  BY Counts DEF TypeInv, TypeOK, GateInv, PreparedGreen, EntriesGreen, GreenTables, CurPrepared
<1>1. \A n \in Nat, st \in Status :
         /\ Running(mem[j], n) \in Entry /\ EntryGreen(Running(mem[j], n))
         /\ PhaseTwo(mem[j], n) \in Entry /\ EntryGreen(PhaseTwo(mem[j], n))
         /\ Closed(mem[j], st) \in Entry /\ EntryGreen(Closed(mem[j], st))
         /\ Counted(mem[j]) \in Entry /\ EntryGreen(Counted(mem[j]))
  BY <1>0 DEF Running, PhaseTwo, Closed, Counted, EntryOf, Entry, Status, EntryGreen
<1>2. ASSUME WorkerBegin(j) \/ EndPrepare(j) \/ Drain(j) PROVE GateInv'
  <2>1. UNCHANGED jobVars \/ \E e \in Entry : EntryGreen(e) /\ Publish(j, e)
    <3>1. CASE WorkerBegin(j)
      BY <1>0, <1>1, <3>1 DEF WorkerBegin, Status
    <3>2. CASE EndPrepare(j)
      BY <1>0, <1>1, <3>2 DEF EndPrepare, Status
    <3>3. CASE Drain(j)
      BY <3>3 DEF Drain
    <3> QED
      BY <1>2, <3>1, <3>2, <3>3
  <2>2. UNCHANGED <<file, prepared, keys, audit>>
    BY <1>2 DEF WorkerBegin, EndPrepare, Drain
  <2> QED
    BY <1>0, <2>1, <2>2, GateFrame
<1>3. ASSUME NEW s \in Slots, Collect(j, s) PROVE GateInv'
  <2>1. TableOf(j, s) \in Tables /\ Queue[TableOf(j, s)] = "green"
    BY <1>3 DEF Collect, Finished, TypeInv, TypeOK, FutureListed, GateInv,
                KeysGreen, GreenTables, Asked, Listed, TableOf
  <2>2. Failed(mem[j], TableOf(j, s)) \in Entry /\ EntryGreen(Failed(mem[j], TableOf(j, s)))
    BY <1>0, <2>1 DEF Failed, EntryOf, Entry, EntryGreen, GreenTables
  <2>3. UNCHANGED jobVars \/ \E e \in Entry : EntryGreen(e) /\ Publish(j, e)
    BY <1>1, <1>3, <2>2 DEF Collect, Status
  <2>4. prepared' = prepared \/ prepared' = [prepared EXCEPT ![j] = prepared[j] \cup {TableOf(j, s)}]
    BY <1>3 DEF Collect
  <2>5. \A i \in Jobs : GreenTables(prepared'[i])
    <3>1. GreenTables(prepared[j] \cup {TableOf(j, s)})
      BY <1>0, <2>1 DEF GreenTables
    <3>2. prepared \in [Jobs -> SUBSET Tables]
      BY DEF TypeInv, TypeOK
    <3> QED
      BY <1>0, <2>4, <3>1, <3>2
  <2>6. UNCHANGED <<file, keys, audit>>
    BY <1>3 DEF Collect
  <2> QED
    BY <2>3, <2>5, <2>6, GateFrame
<1>4. ASSUME BatchRun(j) \/ BatchRead(j) \/ BatchTest(j) \/ BatchReread(j)
             \/ Retest(j) \/ RetestPassthrough(j)
      PROVE  GateInv'
  <2>1. UNCHANGED <<mem, disk, file, prepared, keys, audit>>
    BY <1>4 DEF BatchRun, BatchRead, BatchTest, BatchReread, Retest, RetestPassthrough
  <2> QED
    BY <1>0, <2>1, GateFrame
<1>5. ASSUME NEW t \in Tables, AcceptBatch(j, t) \/ FixNothing(j, t) PROVE GateInv'
  BY <1>5, GateDecide DEF AcceptBatch, FixNothing
<1>6. ASSUME NEW t \in Tables, FixWrite(j, t) \/ FixRaise(j, t) PROVE GateInv'
  <2>1. /\ t \in prepared[j]
        /\ UNCHANGED file \/ WriteModel(t, "corrected")
        /\ UNCHANGED <<mem, disk, prepared, keys, audit>>
    BY <1>6 DEF FixWrite, FixRaise
  <2> QED
    BY <1>0, <2>1, GateFrame DEF Sql
<1>7. ASSUME Passthrough(j) PROVE GateInv'
  <2>1. /\ pc[j] \in Repairing
        /\ UNCHANGED file \/ WriteModel(cur[j], "passthrough")
        /\ UNCHANGED <<mem, disk, prepared, keys, audit>>
    BY <1>7 DEF Passthrough, Repairing
  <2> QED
    BY <1>0, <2>1, GateFrame DEF Sql
<1>8. ASSUME RecordRepaired(j) PROVE GateInv'
  <2>1. pc[j] \in Repairing /\ Decide(j, cur[j], pc[j] = "accept")
    BY <1>8 DEF RecordRepaired, Repairing
  <2> QED
    BY <1>0, <2>1, GateDecide
<1>9. ASSUME Finish(j) \/ FailJob(j) PROVE GateInv'
  <2>1. UNCHANGED jobVars \/ \E e \in Entry : EntryGreen(e) /\ Publish(j, e)
    BY <1>1, <1>9 DEF Finish, FailJob, Status
  <2>2. /\ prepared' = prepared \/ prepared' = [prepared EXCEPT ![j] = {}]
        /\ UNCHANGED <<file, keys, audit>>
    BY <1>9 DEF Finish, FailJob, EndThread
  <2>3. \A i \in Jobs : GreenTables(prepared'[i])
    BY <1>0, <2>2 DEF GreenTables, TypeInv, TypeOK
  <2> QED
    BY <2>1, <2>2, <2>3, GateFrame
<1> QED
  BY <1>2, <1>3, <1>4, <1>5, <1>6, <1>7, <1>8, <1>9, WorkerPhases

\* The shutdown hook and a restart only close or forget entries.
LEMMA GateServer ==
    ASSUME TypeInv, GateInv, Shutdown \/ Restart
    PROVE  GateInv'
<1>1. \A e : EntryGreen(e) => EntryGreen(Closed(e, "failed"))
  BY DEF Closed, EntryOf, EntryGreen
<1>2. EntryGreen(NoEntry) /\ GreenTables({})
  BY DEF NoEntry, EntryOf, EntryGreen, GreenTables
<1>3. /\ \A j \in Jobs : mem'[j] \in {mem[j], Closed(mem[j], "failed"), NoEntry}
      /\ \A j \in Jobs : prepared'[j] \in {prepared[j], {}}
      /\ UNCHANGED <<disk, keys, file, audit>>
  BY DEF Shutdown, Restart
<1> QED
  <2>1. EntriesGreen'
    BY <1>1, <1>2, <1>3 DEF GateInv, EntriesGreen
  <2>2. PreparedGreen'
    BY <1>2, <1>3 DEF GateInv, PreparedGreen
  <2> QED
    BY <1>3, <2>1, <2>2 DEF GateInv, KeysGreen, Asked, Listed, FilesGreen, AuditGreen

\* Every step keeps the gate.
LEMMA GateStep == TypeInv /\ GateInv /\ [Next]_vars => GateInv'
<1>1. ASSUME TypeInv, GateInv, UNCHANGED vars PROVE GateInv'
  BY <1>1
  DEF vars, GateInv, KeysGreen, Asked, Listed, PreparedGreen, EntriesGreen, FilesGreen, AuditGreen
<1> QED
  BY <1>1, GateClient, GateTask, GateWorker, GateServer DEF Next

\* No table outside the GREEN queue is written, approved or reported.
THEOREM OnlyGreenTouchedHolds == SafeSpec => []OnlyGreenTouched
<1>1. Init => GateInv
  BY DEF Init, GateInv, KeysGreen, Asked, Listed, PreparedGreen, EntriesGreen, EntryGreen,
      GreenTables,
         FilesGreen, AuditGreen, NoEntry, EntryOf
<1>2. GateInv => OnlyGreenTouched
  BY DEF GateInv, EntriesGreen, EntryGreen, GreenTables, FilesGreen, AuditGreen, OnlyGreenTouched
<1> QED
  BY <1>1, <1>2, GateStep, Typing, PTL DEF SafeSpec

-----------------------------------------------------------------------------
(* What dbt built *)

\* A row that says ok, a verdict, a repaired table and a reported one are each
\* evidence of a model dbt built.
RowsBuilt == \A m \in Models : rr[m] = "ok" => m \in built
VerdictsBuilt == \A j \in Jobs : \A m \in Models : verdict[j][m] = "ok" => m \in built
AcceptBuilt == \A j \in Jobs : pc[j] = "accept" => ModelOf[cur[j]] \in built
EntryBuilt(e) == \A t \in e.success : ModelOf[t] \in built
EntriesBuilt == \A j \in Jobs : EntryBuilt(mem[j]) /\ EntryBuilt(disk[j])

BuiltInv == RowsBuilt /\ VerdictsBuilt /\ AcceptBuilt /\ EntriesBuilt

\* A step that leaves run_results.json alone keeps the evidence when it adds none.
LEMMA BuiltFrame ==
    ASSUME TypeInv, BuiltInv,
           UNCHANGED <<rr, built>>,
           \A j \in Jobs : \A m \in Models : verdict'[j][m] = "ok" => m \in built,
           \A j \in Jobs : pc'[j] = "accept" => ModelOf[cur'[j]] \in built,
           \A j \in Jobs : EntryBuilt(mem'[j]) /\ EntryBuilt(disk'[j])
    PROVE  BuiltInv'
  BY DEF BuiltInv, RowsBuilt, VerdictsBuilt, AcceptBuilt, EntriesBuilt, EntryBuilt

\* dbt may rewrite its results: what was built stays built.
LEMMA BuiltRun ==
    ASSUME TypeInv, BuiltInv, NEW j \in Jobs, NEW l, Goto(j, l),
           built \subseteq built', RowsBuilt',
           l = "accept" => ModelOf[cur[j]] \in built',
           UNCHANGED <<mem, disk, verdict, cur>>
    PROVE  BuiltInv'
<1>1. pc'[j] = l /\ \A i \in Jobs : i # j => pc'[i] = pc[i]
  BY DEF Goto, TypeInv, TypeOK
<1>2. AcceptBuilt'
  BY <1>1 DEF BuiltInv, AcceptBuilt
<1> QED
  BY <1>2 DEF BuiltInv, VerdictsBuilt, EntriesBuilt, EntryBuilt

\* Publishing an entry whose migrated tables were built.
LEMMA BuiltPublish ==
    ASSUME TypeInv, BuiltInv, NEW j \in Jobs,
           UNCHANGED jobVars \/ (\E e \in Entry : EntryBuilt(e) /\ Publish(j, e))
    PROVE  \A i \in Jobs : EntryBuilt(mem'[i]) /\ EntryBuilt(disk'[i])
<1>1. CASE UNCHANGED jobVars
  BY <1>1 DEF BuiltInv, EntriesBuilt
<1>2. ASSUME NEW e \in Entry, EntryBuilt(e), Publish(j, e)
      PROVE  \A i \in Jobs : EntryBuilt(mem'[i]) /\ EntryBuilt(disk'[i])
  BY <1>2, PublishFacts DEF TypeInv, BuiltInv, EntriesBuilt
<1> QED
  BY <1>1, <1>2

\* A client adds no outcome.
LEMMA BuiltClient ==
    ASSUME TypeInv, BuiltInv, NEW j \in Jobs, Client(j)
    PROVE  BuiltInv'
<1>0. EntryBuilt(NoEntry)
  BY DEF EntryBuilt, NoEntry, EntryOf
<1>1. ASSUME NEW req \in Requests, BulkStart(j, req) PROVE BuiltInv'
  <2> DEFINE n == Cardinality({s \in Slots : Runnable(req)[s] # NoTable})
  <2>1. /\ Publish(j, Queued(n))
        /\ Goto(j, "nothread") \/ Goto(j, "spawned")
        /\ UNCHANGED <<rr, built, verdict, cur>>
    BY <1>1 DEF BulkStart
  <2>2. n \in Nat
    BY Counts DEF TypeInv
  <2>3. Queued(n) \in Entry /\ EntryBuilt(Queued(n))
    BY <2>2 DEF Queued, EntryOf, Entry, Status, EntryBuilt
  <2> HIDE DEF n
  <2>4. \A i \in Jobs : EntryBuilt(mem'[i]) /\ EntryBuilt(disk'[i])
    BY <2>1, <2>3, BuiltPublish
  <2>5. \A i \in Jobs : pc'[i] = "accept" => pc[i] = "accept"
    BY <2>1 DEF Goto, TypeInv, TypeOK
  <2> QED
    BY <2>1, <2>4, <2>5, BuiltFrame DEF BuiltInv, VerdictsBuilt, AcceptBuilt
<1>2. ASSUME ClearPop(j) \/ ClearUnlink(j) \/ WsOpen(j) \/ WsPoll(j) PROVE BuiltInv'
  <2>1. /\ \A i \in Jobs : mem'[i] \in {mem[i], NoEntry} /\ disk'[i] \in {disk[i], NoEntry}
        /\ UNCHANGED <<rr, built, verdict, cur, pc>>
    BY <1>2 DEF ClearPop, ClearUnlink, WsOpen, WsPoll, Save, TypeInv, TypeOK
  <2>2. \A i \in Jobs : EntryBuilt(mem'[i]) /\ EntryBuilt(disk'[i])
    BY <1>0, <2>1 DEF BuiltInv, EntriesBuilt
  <2> QED
    BY <2>1, <2>2, BuiltFrame DEF BuiltInv, VerdictsBuilt, AcceptBuilt
<1> QED
  BY <1>1, <1>2 DEF Client

\* The pool records no outcome and runs no dbt.
LEMMA BuiltTask ==
    ASSUME TypeInv, BuiltInv, NEW j \in Jobs, NEW s \in Slots, Task(j, s)
    PROVE  BuiltInv'
<1>1. UNCHANGED <<mem, disk, rr, built, verdict, cur, pc>>
  BY DEF Task, TaskWrite, TaskRaise, TaskReturn
<1> QED
  BY <1>1, BuiltFrame DEF BuiltInv, VerdictsBuilt, AcceptBuilt, EntriesBuilt

\* A worker step outside dbt: its label, "cur" and entry may change, its verdicts not.
LEMMA BuiltLocal ==
    ASSUME TypeInv, BuiltInv, NEW j \in Jobs, NEW l \in Pc \ {"accept"}, Goto(j, l),
           UNCHANGED <<rr, built, verdict>>,
           \A i \in Jobs : i # j => cur'[i] = cur[i],
           UNCHANGED jobVars \/ (\E e \in Entry : EntryBuilt(e) /\ Publish(j, e))
    PROVE  BuiltInv'
<1>1. pc'[j] = l /\ \A i \in Jobs : i # j => pc'[i] = pc[i]
  BY DEF Goto, TypeInv, TypeOK
<1>2. \A i \in Jobs : EntryBuilt(mem'[i]) /\ EntryBuilt(disk'[i])
  BY BuiltPublish
<1> QED
  BY <1>1, <1>2, BuiltFrame DEF BuiltInv, VerdictsBuilt, AcceptBuilt

\* An outcome is recorded as migrated only for a model that was built.
LEMMA BuiltDecide ==
    ASSUME TypeInv, BuiltInv, NEW j \in Jobs, NEW t \in Tables, NEW ok \in BOOLEAN,
           Decide(j, t, ok), ok => ModelOf[t] \in built
    PROVE  BuiltInv'
<1>1. mem[j] \in Entry /\ EntryBuilt(mem[j])
  BY DEF TypeInv, TypeOK, BuiltInv, EntriesBuilt
<1>2. /\ Migrated(mem[j], t) \in Entry
      /\ ok => EntryBuilt(Migrated(mem[j], t))
      /\ Failed(mem[j], t) \in Entry /\ EntryBuilt(Failed(mem[j], t))
  BY <1>1 DEF Migrated, Failed, EntryOf, Entry, EntryBuilt
<1>3. UNCHANGED jobVars \/ \E e \in Entry : EntryBuilt(e) /\ Publish(j, e)
  BY <1>2 DEF Decide
<1>4. \E l \in Pc \ {"accept"} : Goto(j, l)
  BY DEF Decide, Pc
<1>5. UNCHANGED <<rr, built, verdict>> /\ \A i \in Jobs : i # j => cur'[i] = cur[i]
  BY DEF Decide, TypeInv, TypeOK
<1> QED
  BY <1>3, <1>4, <1>5, BuiltLocal

\* test_models_batch: what it reads as ok has been built.
LEMMA BuiltBatch ==
    ASSUME TypeInv, BuiltInv, NEW j \in Jobs,
           BatchRun(j) \/ BatchRead(j) \/ BatchTest(j) \/ BatchReread(j)
    PROVE  BuiltInv'
<1>0. Unjudged(j) \subseteq Models
  BY BulkAssumption DEF Unjudged, TypeInv, TypeOK
<1>1. CASE BatchRun(j)
  <2>1. /\ \E l \in {"loop", "read", "handler"} : Goto(j, l)
        /\ UNCHANGED <<rr, built>> \/ \E c \in SUBSET Unjudged(j) : DbtRun(c)
        /\ UNCHANGED <<mem, disk, verdict, cur>>
    BY <1>1 DEF BatchRun, GotoOrFail
  <2>2. built \subseteq built' /\ RowsBuilt'
    BY <1>0, <2>1 DEF DbtRun, RowsBuilt, BuiltInv, TypeInv, TypeOK
  <2> QED
    BY <2>1, <2>2, BuiltRun
<1>2. CASE BatchTest(j)
  <2>1. /\ \E l \in {"reread", "handler"} : Goto(j, l)
        /\ rr' \in {rr, [m \in Models |-> "none"]}
        /\ UNCHANGED <<mem, disk, built, verdict, cur>>
    BY <1>2 DEF BatchTest, DbtTest, GotoOrFail
  <2>2. RowsBuilt'
    BY <2>1 DEF RowsBuilt, BuiltInv, TypeInv, TypeOK
  <2> QED
    BY <2>1, <2>2, BuiltRun
<1>3. CASE BatchRead(j) \/ BatchReread(j)
  <2>1. /\ UNCHANGED <<mem, disk, rr, built, cur>>
        /\ \E l \in {"test", "batch"} : Goto(j, l)
    BY <1>3 DEF BatchRead, BatchReread
  <2>2. \A i \in Jobs, m \in Models : verdict'[i][m] = "ok" => verdict[i][m] = "ok" \/ rr[m] = "ok"
    <3>1. CASE BatchRead(j)
      <4> DEFINE w == [m \in Models |-> IF m \in chunk[j]
                                        THEN IF rr[m] = "ok" THEN "ok" ELSE "bad"
                                        ELSE verdict[j][m]]
      <4>1. verdict' = [verdict EXCEPT ![j] = w]
        BY <3>1 DEF BatchRead
      <4>2. \A m \in Models : w[m] = "ok" => verdict[j][m] = "ok" \/ rr[m] = "ok"
        OBVIOUS
      <4> HIDE DEF w
      <4> QED
        BY <4>1, <4>2 DEF TypeInv, TypeOK
    <3>2. CASE BatchReread(j)
      <4> DEFINE w == [m \in Models |-> IF m \in chunk[j] /\ verdict[j][m] = "ok" /\ rr[m] = "err"
                                        THEN "bad" ELSE verdict[j][m]]
      <4>1. verdict' = [verdict EXCEPT ![j] = w]
        BY <3>2 DEF BatchReread
      <4>2. \A m \in Models : w[m] = "ok" => verdict[j][m] = "ok"
        OBVIOUS
      <4> HIDE DEF w
      <4> QED
        BY <4>1, <4>2 DEF TypeInv, TypeOK
    <3> QED
      BY <1>3, <3>1, <3>2
  <2>3. \A i \in Jobs : pc'[i] = "accept" => pc[i] = "accept"
    BY <2>1 DEF Goto, TypeInv, TypeOK
  <2> QED
    BY <2>1, <2>2, <2>3, BuiltFrame
    DEF BuiltInv, RowsBuilt, VerdictsBuilt, AcceptBuilt, EntriesBuilt
<1> QED
  BY <1>1, <1>2, <1>3

\* Every step of a worker keeps the evidence.
LEMMA BuiltWorker ==
    ASSUME TypeInv, BuiltInv, NEW j \in Jobs, Worker(j)
    PROVE  BuiltInv'
<1>0. /\ pc[j] \in Repairing => cur[j] \in Tables /\ ModelOf[cur[j]] \in Models
      /\ mem[j] \in Entry /\ EntryBuilt(mem[j])
      /\ Cardinality(Listed(j)) \in Nat /\ Cardinality(prepared[j]) \in Nat
  BY Counts, BulkAssumption DEF TypeInv, TypeOK, CurPrepared, BuiltInv, EntriesBuilt
<1>1. \A n \in Nat, st \in Status :
         /\ Running(mem[j], n) \in Entry /\ EntryBuilt(Running(mem[j], n))
         /\ PhaseTwo(mem[j], n) \in Entry /\ EntryBuilt(PhaseTwo(mem[j], n))
         /\ Closed(mem[j], st) \in Entry /\ EntryBuilt(Closed(mem[j], st))
         /\ Counted(mem[j]) \in Entry /\ EntryBuilt(Counted(mem[j]))
  BY <1>0 DEF Running, PhaseTwo, Closed, Counted, EntryOf, Entry, Status, EntryBuilt
<1>2. CASE WorkerBegin(j)
  BY <1>0, <1>1, <1>2, BuiltLocal DEF WorkerBegin, Pc, Status
<1>3. CASE EndPrepare(j)
  BY <1>0, <1>1, <1>3, BuiltLocal DEF EndPrepare, Pc, Status
<1>4. CASE Drain(j)
  BY <1>4, BuiltLocal DEF Drain, Pc
<1>5. ASSUME NEW s \in Slots, Collect(j, s) PROVE BuiltInv'
  <2>1. TableOf(j, s) \in Tables
    BY <1>5 DEF Collect, Finished, TypeInv, TypeOK, FutureListed, Listed, TableOf
  <2>2. /\ Failed(mem[j], TableOf(j, s)) \in Entry
        /\ EntryBuilt(Failed(mem[j], TableOf(j, s)))
    BY <1>0, <2>1 DEF Failed, EntryOf, Entry, EntryBuilt
  <2>3. UNCHANGED jobVars \/ \E e \in Entry : EntryBuilt(e) /\ Publish(j, e)
    BY <1>1, <1>5, <2>2 DEF Collect, Status
  <2>4. UNCHANGED <<rr, built, verdict, cur>> /\ (Goto(j, "drain") \/ (pc' = pc /\ pc[j] = "collect"))
    BY <1>5 DEF Collect
  <2>5. \A i \in Jobs : pc'[i] = "accept" => pc[i] = "accept"
    BY <2>4 DEF Goto, TypeInv, TypeOK
  <2>6. \A i \in Jobs : EntryBuilt(mem'[i]) /\ EntryBuilt(disk'[i])
    BY <2>3, BuiltPublish
  <2> QED
    BY <2>4, <2>5, <2>6, BuiltFrame DEF BuiltInv, VerdictsBuilt, AcceptBuilt
<1>6. ASSUME NEW t \in Tables, AcceptBatch(j, t) \/ FixNothing(j, t) PROVE BuiltInv'
  <2>1. ModelOf[t] \in Models
    BY BulkAssumption
  <2>2. CASE AcceptBatch(j, t)
    BY <2>1, <2>2, BuiltDecide DEF AcceptBatch, BuiltInv, VerdictsBuilt
  <2>3. CASE FixNothing(j, t)
    BY <2>3, BuiltDecide DEF FixNothing
  <2> QED
    BY <1>6, <2>2, <2>3
<1>7. ASSUME (\E t \in Tables : FixWrite(j, t) \/ FixRaise(j, t)) \/ Passthrough(j)
      PROVE BuiltInv'
  <2>1. /\ \E l \in {"retest", "handler", "retest2"} : Goto(j, l)
        /\ \A i \in Jobs : i # j => cur'[i] = cur[i]
        /\ UNCHANGED <<mem, disk, rr, built, verdict>>
    BY <1>7 DEF FixWrite, FixRaise, Passthrough, TypeInv, TypeOK
  <2> QED
    BY <2>1, BuiltLocal DEF Pc
<1>8. CASE Retest(j) \/ RetestPassthrough(j)
  <2>1. PICK ok \in BOOLEAN :
           /\ TestModel(ModelOf[cur[j]], ok)
           /\ \E l \in Repairing \cup {"handler"} : Goto(j, l) /\ (l = "accept" => ok)
    BY <1>8 DEF Retest, RetestPassthrough, Repairing, GotoOrFail
  <2>2. pc[j] \in Repairing /\ UNCHANGED <<mem, disk, verdict, cur>>
    BY <1>8 DEF Retest, RetestPassthrough, Repairing
  <2>3. /\ built \subseteq built' /\ RowsBuilt'
        /\ ok => ModelOf[cur[j]] \in built'
    BY <1>0, <2>1, <2>2 DEF TestModel, BuiltInv, RowsBuilt, TypeInv, TypeOK
  <2> QED
    BY <2>1, <2>2, <2>3, BuiltRun
<1>9. CASE RecordRepaired(j)
  BY <1>0, <1>9, BuiltDecide DEF RecordRepaired, Repairing, BuiltInv, AcceptBuilt
<1>10. CASE Finish(j) \/ FailJob(j)
  <2>1. UNCHANGED jobVars \/ \E e \in Entry : EntryBuilt(e) /\ Publish(j, e)
    BY <1>1, <1>10 DEF Finish, FailJob, Status
  <2>2. /\ UNCHANGED <<rr, built>>
        /\ \E l \in {"ended", "handler"} : Goto(j, l)
        /\ \/ UNCHANGED <<verdict, cur>>
           \/ /\ verdict' = [verdict EXCEPT ![j] = [m \in Models |-> "none"]]
              /\ cur' = [cur EXCEPT ![j] = NoTable]
    <3>1. EndThread(j) \/ (Goto(j, "handler") /\ UNCHANGED localVars)
      BY <1>10 DEF Finish, FailJob
    <3>2. UNCHANGED <<rr, built>>
      BY <1>10 DEF Finish, FailJob
    <3> QED
      BY <3>1, <3>2 DEF EndThread
  <2>5. /\ \A i \in Jobs : i # j => cur'[i] = cur[i]
        /\ \A i \in Jobs, m \in Models : verdict'[i][m] = "ok" => verdict[i][m] = "ok"
    <3>1. CASE UNCHANGED <<verdict, cur>>
      BY <3>1
    <3>2. CASE /\ verdict' = [verdict EXCEPT ![j] = [m \in Models |-> "none"]]
               /\ cur' = [cur EXCEPT ![j] = NoTable]
      <4>1. \A i \in Jobs : i # j => cur'[i] = cur[i] /\ verdict'[i] = verdict[i]
        BY <3>2 DEF TypeInv, TypeOK
      <4>2. \A m \in Models : verdict'[j][m] = "none"
        BY <3>2 DEF TypeInv, TypeOK
      <4> QED
        BY <4>1, <4>2
    <3> QED
      BY <2>2, <3>1, <3>2
  <2>3. \A i \in Jobs : EntryBuilt(mem'[i]) /\ EntryBuilt(disk'[i])
    BY <2>1, BuiltPublish
  <2>4. \A i \in Jobs : pc'[i] = "accept" => i # j /\ pc[i] = "accept"
    BY <2>2 DEF Goto, TypeInv, TypeOK
  <2> QED
    BY <2>2, <2>3, <2>4, <2>5, BuiltFrame DEF BuiltInv, VerdictsBuilt, AcceptBuilt
<1> QED
  BY <1>2, <1>3, <1>4, <1>5, <1>6, <1>7, <1>8, <1>9, <1>10, BuiltBatch, WorkerPhases

\* The shutdown hook and a restart add no outcome.
LEMMA BuiltServer ==
    ASSUME TypeInv, BuiltInv, Shutdown \/ Restart
    PROVE  BuiltInv'
<1>1. \A e : EntryBuilt(e) => EntryBuilt(Closed(e, "failed"))
  BY DEF Closed, EntryOf, EntryBuilt
<1>2. EntryBuilt(NoEntry)
  BY DEF NoEntry, EntryOf, EntryBuilt
<1>3. /\ \A j \in Jobs : mem'[j] \in {mem[j], Closed(mem[j], "failed"), NoEntry}
      /\ UNCHANGED <<disk, rr, built>>
      /\ \A j \in Jobs, m \in Models : verdict'[j][m] = "ok" => verdict[j][m] = "ok"
      /\ \A j \in Jobs : pc'[j] = "accept" => pc[j] = "accept" /\ cur' = cur
  BY DEF Shutdown, Restart
<1>4. \A j \in Jobs : EntryBuilt(mem'[j]) /\ EntryBuilt(disk'[j])
  BY <1>1, <1>2, <1>3 DEF BuiltInv, EntriesBuilt
<1> QED
  BY <1>3, <1>4, BuiltFrame DEF BuiltInv, VerdictsBuilt, AcceptBuilt

\* Every step keeps the evidence.
LEMMA BuiltStep == TypeInv /\ BuiltInv /\ [Next]_vars => BuiltInv'
<1>1. ASSUME TypeInv, BuiltInv, UNCHANGED vars PROVE BuiltInv'
  BY <1>1, BuiltFrame DEF vars, BuiltInv, VerdictsBuilt, AcceptBuilt, EntriesBuilt
<1> QED
  BY <1>1, BuiltClient, BuiltTask, BuiltWorker, BuiltServer DEF Next

\* A table reported as migrated has a model that dbt built.
THEOREM SuccessWasBuiltHolds == SafeSpec => []SuccessWasBuilt
<1>1. Init => BuiltInv
  BY DEF Init, BuiltInv, RowsBuilt, VerdictsBuilt, AcceptBuilt, EntriesBuilt, EntryBuilt,
      NoEntry, EntryOf
<1>2. BuiltInv => SuccessWasBuilt
  BY DEF BuiltInv, EntriesBuilt, EntryBuilt, SuccessWasBuilt
<1> QED
  BY <1>1, <1>2, BuiltStep, Typing, PTL DEF SafeSpec

-----------------------------------------------------------------------------
(* What readers see *)

\* A job has tables once it has a thread, and prepares no others; before it is started
\* nobody knows it.
Born(j) ==
    /\ pc[j] = "new" => ~Alive(j) /\ Asked(j) = {}
    /\ pc[j] \notin {"new", "nothread", "ended"} => Asked(j) # {}
    /\ prepared[j] \subseteq Asked(j)

\* What a step leaves as readers of the job saw it.
Unseen(j) ==
    /\ Asked(j)' = Asked(j) /\ Alive(j)' = Alive(j)
    /\ mem'[j].status = "done" <=> mem[j].status = "done"
    /\ mem'[j].success = mem[j].success /\ mem'[j].failed = mem[j].failed

\* A step that nobody sees is a stutter of the report.
LEMMA UnseenStutters ==
    ASSUME \A j \in Jobs : Unseen(j)
    PROVE  UNCHANGED Report!reportVars
<1>1. [j \in Jobs |-> Asked(j)]' = [j \in Jobs |-> Asked(j)]
  BY DEF Unseen
<1>2. [j \in Jobs |-> Alive(j)]' = [j \in Jobs |-> Alive(j)]
  BY DEF Unseen
<1>3. [j \in Jobs |-> mem[j].status = "done"]' = [j \in Jobs |-> mem[j].status = "done"]
  BY DEF Unseen
<1>4. [j \in Jobs |-> mem[j].success]' = [j \in Jobs |-> mem[j].success]
  BY DEF Unseen
<1>5. [j \in Jobs |-> mem[j].failed]' = [j \in Jobs |-> mem[j].failed]
  BY DEF Unseen
<1> QED
  BY <1>1, <1>2, <1>3, <1>4, <1>5 DEF Report!reportVars

\* A job appears: started, or registered again by its thread after it was cleared.
LEMMA ShownAgain ==
    ASSUME NEW j \in Jobs, \A i \in Jobs \ {j} : Unseen(i),
           ~Alive(j), Alive(j)', mem'[j].status # "done",
           mem'[j].success = mem[j].success, mem'[j].failed = mem[j].failed,
           Asked(j)' \subseteq Tables, Asked(j) # {} => Asked(j)' = Asked(j)
    PROVE  Report!Show(j)
<1>1. mem[j].status # "done"
  BY DEF Alive
<1>2. ~[i \in Jobs |-> Alive(i)][j]
  OBVIOUS
<1>3. [i \in Jobs |-> Alive(i)]' = [[i \in Jobs |-> Alive(i)] EXCEPT ![j] = TRUE]
  BY DEF Unseen
<1>4. \E a \in SUBSET Tables :
         [i \in Jobs |-> Asked(i)]' = [[i \in Jobs |-> Asked(i)] EXCEPT ![j] = a]
  <2>1. [i \in Jobs |-> Asked(i)]' = [[i \in Jobs |-> Asked(i)] EXCEPT ![j] = Asked(j)']
    BY DEF Unseen
  <2> QED
    BY <2>1
<1>5. [i \in Jobs |-> Asked(i)][j] # {} => [i \in Jobs |-> Asked(i)]' = [i \in Jobs |-> Asked(i)]
  BY DEF Unseen
<1>6. [i \in Jobs |-> mem[i].status = "done"]' = [i \in Jobs |-> mem[i].status = "done"]
  BY <1>1 DEF Unseen
<1>7. /\ [i \in Jobs |-> mem[i].success]' = [i \in Jobs |-> mem[i].success]
      /\ [i \in Jobs |-> mem[i].failed]' = [i \in Jobs |-> mem[i].failed]
  BY DEF Unseen
<1> QED
  BY <1>2, <1>3, <1>4, <1>5, <1>6, <1>7 DEF Report!Show

\* One outcome of an accepted table is published while the job is active.
LEMMA OneRecorded ==
    ASSUME NEW j \in Jobs, \A i \in Jobs \ {j} : Unseen(i), NEW t \in Asked(j),
           Alive(j), Alive(j)', Asked(j)' = Asked(j),
           mem[j].status # "done", mem'[j].status # "done",
           \/ mem'[j].success = mem[j].success \cup {t} /\ mem'[j].failed = mem[j].failed
           \/ mem'[j].failed = mem[j].failed \cup {t} /\ mem'[j].success = mem[j].success
    PROVE  Report!Record(j, t)
<1>1. /\ [i \in Jobs |-> Alive(i)][j] /\ ~[i \in Jobs |-> mem[i].status = "done"][j]
      /\ t \in [i \in Jobs |-> Asked(i)][j]
  OBVIOUS
<1>2. [i \in Jobs |-> Asked(i)]' = [i \in Jobs |-> Asked(i)]
  BY DEF Unseen
<1>3. [i \in Jobs |-> Alive(i)]' = [i \in Jobs |-> Alive(i)]
  BY DEF Unseen, Alive
<1>4. [i \in Jobs |-> mem[i].status = "done"]' = [i \in Jobs |-> mem[i].status = "done"]
  BY DEF Unseen
<1>5. ASSUME mem'[j].success = mem[j].success \cup {t}, mem'[j].failed = mem[j].failed
      PROVE  /\ [i \in Jobs |-> mem[i].success]'
                   = [[i \in Jobs |-> mem[i].success] EXCEPT ![j] = @ \cup {t}]
             /\ [i \in Jobs |-> mem[i].failed]' = [i \in Jobs |-> mem[i].failed]
  BY <1>5 DEF Unseen
<1>6. ASSUME mem'[j].failed = mem[j].failed \cup {t}, mem'[j].success = mem[j].success
      PROVE  /\ [i \in Jobs |-> mem[i].failed]'
                   = [[i \in Jobs |-> mem[i].failed] EXCEPT ![j] = @ \cup {t}]
             /\ [i \in Jobs |-> mem[i].success]' = [i \in Jobs |-> mem[i].success]
  BY <1>6 DEF Unseen
<1> QED
  BY <1>1, <1>2, <1>3, <1>4, <1>5, <1>6 DEF Report!Record

\* The job is published as done.
LEMMA NowSettled ==
    ASSUME NEW j \in Jobs, \A i \in Jobs \ {j} : Unseen(i),
           Alive(j), Alive(j)', Asked(j)' = Asked(j), mem'[j].status = "done",
           mem'[j].success = mem[j].success, mem'[j].failed = mem[j].failed,
           Asked(j) # {}, Asked(j) \subseteq mem[j].success \cup mem[j].failed
    PROVE  Report!Settle(j)
<1>1. /\ [i \in Jobs |-> Alive(i)][j] /\ [i \in Jobs |-> Asked(i)][j] # {}
      /\ [i \in Jobs |-> Asked(i)][j]
            \subseteq [i \in Jobs |-> mem[i].success][j] \cup [i \in Jobs |-> mem[i].failed][j]
  OBVIOUS
<1>2. [i \in Jobs |-> mem[i].status = "done"]'
         = [[i \in Jobs |-> mem[i].status = "done"] EXCEPT ![j] = TRUE]
  BY DEF Unseen
<1>3. [i \in Jobs |-> Asked(i)]' = [i \in Jobs |-> Asked(i)]
  BY DEF Unseen
<1>4. [i \in Jobs |-> Alive(i)]' = [i \in Jobs |-> Alive(i)]
  BY DEF Unseen, Alive
<1>5. /\ [i \in Jobs |-> mem[i].success]' = [i \in Jobs |-> mem[i].success]
      /\ [i \in Jobs |-> mem[i].failed]' = [i \in Jobs |-> mem[i].failed]
  BY DEF Unseen
<1> QED
  BY <1>1, <1>2, <1>3, <1>4, <1>5 DEF Report!Settle

\* The entries of some jobs are gone.
LEMMA SomeForgotten ==
    ASSUME NEW S \in SUBSET Jobs, \A i \in Jobs \ S : Unseen(i),
           \A i \in S : mem'[i] = NoEntry /\ Asked(i)' = Asked(i)
    PROVE  Report!Forget(S)
<1>1. \A i \in S : ~Alive(i)' /\ mem'[i].status # "done"
                   /\ mem'[i].success = {} /\ mem'[i].failed = {}
  BY DEF NoEntry, EntryOf, Alive
<1>2. [i \in Jobs |-> Alive(i)]' = [i \in Jobs |-> [k \in Jobs |-> Alive(k)][i] /\ i \notin S]
  BY <1>1 DEF Unseen, Alive
<1>3. [i \in Jobs |-> mem[i].status = "done"]'
         = [i \in Jobs |-> [k \in Jobs |-> mem[k].status = "done"][i] /\ i \notin S]
  BY <1>1 DEF Unseen
<1>4. [i \in Jobs |-> mem[i].success]'
         = [i \in Jobs |-> IF i \in S THEN {} ELSE [k \in Jobs |-> mem[k].success][i]]
  BY <1>1 DEF Unseen
<1>5. [i \in Jobs |-> mem[i].failed]'
         = [i \in Jobs |-> IF i \in S THEN {} ELSE [k \in Jobs |-> mem[k].failed][i]]
  BY <1>1 DEF Unseen
<1>6. [i \in Jobs |-> Asked(i)]' = [i \in Jobs |-> Asked(i)]
  BY DEF Unseen
<1> QED
  BY <1>2, <1>3, <1>4, <1>5, <1>6 DEF Report!Forget

\* A step of one job is not seen on the others.
LEMMA OthersUnseen ==
    ASSUME NEW i \in Jobs, SameJob(i), Born(i)
    PROVE  Unseen(i) /\ Born(i)'
BY DEF SameJob, Unseen, Born, Asked, Listed, Alive

\* The worker of a job that has tables gives it no others and prepares only those.
LEMMA BornWorker ==
    ASSUME TypeInv, NEW j \in Jobs, Born(j), Worker(j)
    PROVE  Born(j)' /\ Asked(j)' = Asked(j) /\ Asked(j) # {}
<1>1. pc[j] \notin {"new", "nothread", "ended"} /\ pc'[j] # "new"
      /\ keys' = keys /\ prepared'[j] \subseteq prepared[j] \cup Asked(j)
  <2> USE DEF Goto, GotoOrFail, TypeInv, TypeOK
  <2>1. CASE WorkerBegin(j)
    BY <2>1 DEF WorkerBegin
  <2>2. ASSUME NEW s \in Slots, Collect(j, s)
        PROVE  /\ pc[j] = "collect" /\ pc'[j] # "new" /\ keys' = keys
               /\ prepared'[j] \subseteq prepared[j] \cup Asked(j)
    <3>1. TableOf(j, s) \in Asked(j)
      BY <2>2 DEF Collect, FutureListed, TableOf, Asked, Listed, Finished
    <3> QED
      BY <2>2, <3>1 DEF Collect
  <2>3. CASE Drain(j) \/ EndPrepare(j)
    BY <2>3 DEF Drain, EndPrepare
  <2>4. CASE BatchRun(j) \/ BatchRead(j) \/ BatchTest(j) \/ BatchReread(j)
    BY <2>4 DEF BatchRun, BatchRead, BatchTest, BatchReread
  <2>5. ASSUME NEW t, NEW ok, Decide(j, t, ok)
        PROVE  pc'[j] # "new" /\ keys' = keys /\ prepared'[j] \subseteq prepared[j]
    BY <2>5 DEF Decide
  <2>6. ASSUME NEW t \in Tables,
               AcceptBatch(j, t) \/ FixNothing(j, t) \/ FixWrite(j, t) \/ FixRaise(j, t)
        PROVE  /\ pc[j] = "loop" /\ pc'[j] # "new" /\ keys' = keys
               /\ prepared'[j] \subseteq prepared[j]
    BY <2>5, <2>6 DEF AcceptBatch, FixNothing, FixWrite, FixRaise
  <2>7. CASE Retest(j) \/ Passthrough(j) \/ RetestPassthrough(j)
    BY <2>7 DEF Retest, Passthrough, RetestPassthrough
  <2>8. CASE RecordRepaired(j)
    BY <2>5, <2>8 DEF RecordRepaired
  <2>9. CASE Finish(j) \/ FailJob(j)
    BY <2>9 DEF Finish, FailJob, EndThread
  <2> QED
    BY <2>1, <2>2, <2>3, <2>4, <2>6, <2>7, <2>8, <2>9, WorkerPhases
<1>2. Asked(j)' = Asked(j)
  BY <1>1 DEF Asked, Listed
<1> QED
  BY <1>1, <1>2 DEF Born

\* A worker's step that publishes nothing, or only progress, is not seen.
LEMMA PublishUnseen ==
    ASSUME TypeInv, NEW j \in Jobs, Asked(j)' = Asked(j), Alive(j), mem[j].status # "done",
           NEW e \in Entry, Publish(j, e), e.status \notin {"absent", "done"},
           e.success = mem[j].success, e.failed = mem[j].failed
    PROVE  Unseen(j)
<1>1. mem'[j] = e
  BY PublishFacts DEF TypeInv
<1> QED
  BY <1>1 DEF Unseen, Alive

\* The worker registers the job again, or marks it running.
LEMMA BeginSeen ==
    ASSUME TypeInv, NEW j \in Jobs, JobInv(j), Born(j), WorkerBegin(j), Asked(j)' = Asked(j),
           \A i \in Jobs \ {j} : Unseen(i)
    PROVE  Report!Show(j) \/ Unseen(j)
<1> DEFINE e == Running(mem[j], Cardinality(Listed(j)))
<1>1. mem[j] \in Entry /\ Cardinality(Listed(j)) \in Nat
  BY Counts DEF TypeInv, TypeOK
<1>2. /\ e \in Entry /\ e.status = "running"
      /\ e.success = mem[j].success /\ e.failed = mem[j].failed
  BY <1>1 DEF Running, EntryOf, Entry, Status
<1>3. Publish(j, e) /\ pc[j] = "spawned"
  BY DEF WorkerBegin
<1> HIDE DEF e
<1>4. mem'[j] = e
  BY <1>2, <1>3, PublishFacts DEF TypeInv
<1>5. mem[j].status # "done"
  BY <1>3 DEF JobInv, Settled
<1>6. CASE Alive(j)
  BY <1>2, <1>3, <1>5, <1>6, PublishUnseen
<1>7. CASE ~Alive(j)
  <2>1. Asked(j) \subseteq Tables
    BY DEF Asked, Listed, TypeInv, TypeOK
  <2>2. Alive(j)'
    BY <1>2, <1>4 DEF Alive
  <2> QED
    BY <1>2, <1>4, <1>7, <2>1, <2>2, ShownAgain
<1> QED
  BY <1>6, <1>7

\* An outcome published by the worker of an active job.
LEMMA OutcomeSeen ==
    ASSUME TypeInv, NEW j \in Jobs, JobInv(j), pc[j] # "ended", Alive(j),
           Asked(j)' = Asked(j), \A i \in Jobs \ {j} : Unseen(i), NEW t \in Asked(j),
           Publish(j, Migrated(mem[j], t)) \/ Publish(j, Failed(mem[j], t))
    PROVE  Report!Record(j, t)
<1>0. mem[j] \in Entry /\ t \in Tables /\ mem[j].status # "done"
  BY DEF TypeInv, TypeOK, Asked, Listed, JobInv, Settled
<1>1. /\ Migrated(mem[j], t) \in Entry /\ Migrated(mem[j], t).status = mem[j].status
      /\ Migrated(mem[j], t).success = mem[j].success \cup {t}
      /\ Migrated(mem[j], t).failed = mem[j].failed
  BY <1>0 DEF Migrated, EntryOf, Entry
<1>2. /\ Failed(mem[j], t) \in Entry /\ Failed(mem[j], t).status = mem[j].status
      /\ Failed(mem[j], t).success = mem[j].success
      /\ Failed(mem[j], t).failed = mem[j].failed \cup {t}
  BY <1>0 DEF Failed, EntryOf, Entry
<1>3. PICK e \in Entry :
         /\ Publish(j, e) /\ e.status = mem[j].status
         /\ \/ e.success = mem[j].success \cup {t} /\ e.failed = mem[j].failed
            \/ e.failed = mem[j].failed \cup {t} /\ e.success = mem[j].success
  BY <1>1, <1>2
<1>4. mem'[j] = e
  BY <1>3, PublishFacts DEF TypeInv
<1>5. Alive(j)' /\ mem'[j].status # "done"
  BY <1>0, <1>3, <1>4 DEF Alive
<1> QED
  BY <1>0, <1>3, <1>4, <1>5, OneRecorded

\* An outcome the validation loop decides on, unless the job was cleared.
LEMMA DecideSeen ==
    ASSUME TypeInv, NEW j \in Jobs, JobInv(j), Born(j), pc[j] # "ended",
           Asked(j)' = Asked(j), \A i \in Jobs \ {j} : Unseen(i),
           NEW t \in prepared[j], NEW ok, Decide(j, t, ok)
    PROVE  Unseen(j) \/ \E s \in Tables : Report!Record(j, s)
<1>1. t \in Asked(j) /\ t \in Tables
  BY DEF Born, TypeInv, TypeOK
<1>2. CASE Alive(j)
  <2>1. Publish(j, Migrated(mem[j], t)) \/ Publish(j, Failed(mem[j], t))
    BY <1>2 DEF Decide
  <2> QED
    BY <1>1, <1>2, <2>1, OutcomeSeen
<1>3. CASE ~Alive(j)
  BY <1>3 DEF Decide, Unseen, Alive
<1> QED
  BY <1>2, <1>3

\* What readers see of the first phase of a worker.
LEMMA PrepareSeen ==
    ASSUME TypeInv, NEW j \in Jobs, JobInv(j), Born(j), Asked(j)' = Asked(j),
           \A i \in Jobs \ {j} : Unseen(i),
           WorkerBegin(j) \/ (\E s \in Slots : Collect(j, s)) \/ Drain(j) \/ EndPrepare(j)
    PROVE  Report!Show(j) \/ Unseen(j) \/ \E t \in Tables : Report!Record(j, t)
<1>0. mem[j] \in Entry /\ Cardinality(prepared[j]) \in Nat
  BY Counts DEF TypeInv, TypeOK
<1>1. ASSUME NEW s \in Slots, Collect(j, s)
      PROVE  Unseen(j) \/ \E t \in Tables : Report!Record(j, t)
  <2>1. /\ pc[j] = "collect" /\ mem[j].status # "done"
        /\ TableOf(j, s) \in Asked(j) /\ TableOf(j, s) \in Tables
    BY <1>1 DEF Collect, JobInv, Settled, TypeInv, TypeOK, FutureListed, TableOf, Asked, Listed,
                Finished
  <2>2. CASE Alive(j) /\ fut[j][s] = "ok"
    <3>1. /\ Counted(mem[j]) \in Entry /\ Counted(mem[j]).status = mem[j].status
          /\ Counted(mem[j]).success = mem[j].success /\ Counted(mem[j]).failed = mem[j].failed
      BY <1>0 DEF Counted, EntryOf, Entry
    <3>2. Publish(j, Counted(mem[j])) /\ mem[j].status # "absent"
      BY <1>1, <2>2 DEF Collect, Alive
    <3> QED
      BY <2>1, <2>2, <3>1, <3>2, PublishUnseen
  <2>3. CASE Alive(j) /\ fut[j][s] # "ok"
    <3>1. Publish(j, Failed(mem[j], TableOf(j, s)))
      BY <1>1, <2>3 DEF Collect
    <3> QED
      BY <2>1, <2>3, <3>1, OutcomeSeen
  <2>4. CASE ~Alive(j)
    BY <1>1, <2>4 DEF Collect, Unseen, Alive
  <2> QED
    BY <2>2, <2>3, <2>4
<1>2. CASE Drain(j)
  BY <1>2 DEF Drain, Unseen, Alive
<1>3. CASE EndPrepare(j)
  <2>1. CASE prepared[j] # {} /\ Alive(j)
    <3> DEFINE e == PhaseTwo(mem[j], Cardinality(prepared[j]))
    <3>1. /\ e \in Entry /\ e.status = "running"
          /\ e.success = mem[j].success /\ e.failed = mem[j].failed
      BY <1>0 DEF PhaseTwo, EntryOf, Entry, Status
    <3>2. Publish(j, e) /\ mem[j].status # "done"
      BY <1>3, <2>1 DEF EndPrepare, JobInv, Settled
    <3> HIDE DEF e
    <3> QED
      BY <2>1, <3>1, <3>2, PublishUnseen
  <2>2. CASE ~(prepared[j] # {} /\ Alive(j))
    BY <1>3, <2>2 DEF EndPrepare, Unseen, Alive
  <2> QED
    BY <2>1, <2>2
<1> QED
  BY <1>1, <1>2, <1>3, BeginSeen

\* What readers see of the end of a worker.
LEMMA EndSeen ==
    ASSUME TypeInv, NEW j \in Jobs, JobInv(j), Born(j), Asked(j)' = Asked(j), Asked(j) # {},
           \A i \in Jobs \ {j} : Unseen(i), Finish(j) \/ FailJob(j)
    PROVE  Unseen(j) \/ Report!Settle(j)
<1>1. CASE ~Alive(j)
  BY <1>1 DEF Finish, FailJob, Unseen, Alive
<1>2. CASE Alive(j)
  <2>1. ASSUME NEW st \in {"done", "failed"}
        PROVE  /\ Closed(mem[j], st) \in Entry /\ Closed(mem[j], st).status = st
               /\ Closed(mem[j], st).success = mem[j].success
               /\ Closed(mem[j], st).failed = mem[j].failed
    BY DEF Closed, EntryOf, Entry, Status, TypeInv, TypeOK
  <2>2. CASE FailJob(j)
    <3>1. Publish(j, Closed(mem[j], "failed")) /\ mem[j].status # "done"
      BY <1>2, <2>2 DEF FailJob, JobInv, Settled
    <3> QED
      BY <1>2, <2>1, <3>1, PublishUnseen
  <2>3. CASE Finish(j)
    <3>1. Publish(j, Closed(mem[j], "done")) /\ pc[j] = "loop" /\ prepared[j] = {}
      BY <1>2, <2>3 DEF Finish
    <3>2. mem'[j] = Closed(mem[j], "done")
      BY <2>1, <3>1, PublishFacts DEF TypeInv
    <3>3. Asked(j) \subseteq mem[j].success \cup mem[j].failed
      BY <1>2, <3>1 DEF JobInv, Accounted, AllCollected, Validating, Asked
    <3>4. Alive(j)'
      BY <2>1, <3>2 DEF Alive
    <3> QED
      BY <1>2, <2>1, <3>2, <3>3, <3>4, NowSettled
  <2> QED
    BY <2>2, <2>3
<1> QED
  BY <1>1, <1>2

\* Every step of a worker is a step of the report, or is not seen.
LEMMA WorkerSeen ==
    ASSUME TypeInv, NEW j \in Jobs, JobInv(j), Born(j), Worker(j),
           \A i \in Jobs \ {j} : Unseen(i)
    PROVE  \/ Unseen(j) \/ Report!Show(j) \/ Report!Settle(j)
           \/ \E t \in Tables : Report!Record(j, t)
<1>0. Asked(j)' = Asked(j) /\ Asked(j) # {}
  BY BornWorker
<1>1. CASE \/ WorkerBegin(j) \/ (\E s \in Slots : Collect(j, s)) \/ Drain(j) \/ EndPrepare(j)
  BY <1>0, <1>1, PrepareSeen
<1>2. CASE BatchRun(j) \/ BatchRead(j) \/ BatchTest(j) \/ BatchReread(j)
  BY <1>0, <1>2 DEF BatchRun, BatchRead, BatchTest, BatchReread, Unseen, Alive
<1>3. ASSUME NEW t \in Tables, AcceptBatch(j, t) \/ FixNothing(j, t)
      PROVE  Unseen(j) \/ \E s \in Tables : Report!Record(j, s)
  BY <1>0, <1>3, DecideSeen DEF AcceptBatch, FixNothing
<1>4. ASSUME NEW t \in Tables, FixWrite(j, t) \/ FixRaise(j, t)
      PROVE  Unseen(j)
  BY <1>0, <1>4 DEF FixWrite, FixRaise, Unseen, Alive
<1>5. CASE Retest(j) \/ Passthrough(j) \/ RetestPassthrough(j)
  BY <1>0, <1>5 DEF Retest, Passthrough, RetestPassthrough, Unseen, Alive
<1>6. CASE RecordRepaired(j)
  <2>1. cur[j] \in prepared[j] /\ pc[j] # "ended"
    BY <1>6 DEF RecordRepaired, TypeInv, CurPrepared, Repairing
  <2> QED
    BY <1>0, <1>6, <2>1, DecideSeen DEF RecordRepaired
<1>7. CASE Finish(j) \/ FailJob(j)
  BY <1>0, <1>7, EndSeen
<1> QED
  BY <1>1, <1>2, <1>3, <1>4, <1>5, <1>6, <1>7, WorkerPhases

\* A client makes a job appear or disappear, or is not seen.
LEMMA ClientSeen ==
    ASSUME TypeInv, NEW j \in Jobs, Born(j), Client(j), \A i \in Jobs \ {j} : Unseen(i)
    PROVE  /\ Born(j)'
           /\ Unseen(j) \/ Report!Show(j) \/ Report!Forget({j})
<1>1. ASSUME NEW req \in Requests, BulkStart(j, req) PROVE Born(j)' /\ Report!Show(j)
  <2> DEFINE runs == {s \in Slots : Runnable(req)[s] # NoTable}
             n == Cardinality(runs)
  <2>1. n \in Nat
    BY Counts DEF TypeInv
  <2>2. Queued(n) \in Entry /\ Queued(n).status = "queued"
        /\ Queued(n).success = {} /\ Queued(n).failed = {}
    BY <2>1 DEF Queued, EntryOf, Entry, Status
  <2>3. pc[j] = "new" /\ keys' = [keys EXCEPT ![j] = Runnable(req)] /\ Publish(j, Queued(n))
        /\ Goto(j, IF n = 0 THEN "nothread" ELSE "spawned") /\ UNCHANGED prepared
    BY <1>1 DEF BulkStart
  <2>4. n # 0 => runs # {}
    BY FS_EmptySet
  <2> HIDE DEF n
  <2>5. mem'[j] = Queued(n)
    BY <2>2, <2>3, PublishFacts DEF TypeInv
  <2>6. keys'[j] = Runnable(req) /\ Runnable(req) \in [Slots -> Tables \cup {NoTable}]
    BY <2>3, RunnableGreen DEF TypeInv, TypeOK
  <2>7. Asked(j)' = {Runnable(req)[s] : s \in runs} /\ Asked(j)' \subseteq Tables
    BY <2>6 DEF Asked, Listed
  <2>8. prepared'[j] = {} /\ mem[j].success = {} /\ mem[j].failed = {}
    BY <2>3 DEF TypeInv, NotBegun, Untouched
  <2>9. ~Alive(j) /\ Asked(j) = {}
    BY <2>3 DEF Born
  <2>10. pc'[j] = IF n = 0 THEN "nothread" ELSE "spawned"
    BY <2>3 DEF Goto, TypeInv, TypeOK
  <2>11. Born(j)'
    BY <2>4, <2>7, <2>8, <2>10 DEF Born
  <2>12. Report!Show(j)
    <3>1. Alive(j)' /\ mem'[j].status # "done"
      BY <2>2, <2>5 DEF Alive
    <3>2. mem'[j].success = mem[j].success /\ mem'[j].failed = mem[j].failed
      BY <2>2, <2>5, <2>8
    <3> QED
      BY <2>7, <2>9, <3>1, <3>2, ShownAgain
  <2> QED
    BY <2>11, <2>12
<1>2. CASE ClearPop(j)
  <2>1. /\ mem'[j] = NoEntry /\ pc[j] # "new" /\ UNCHANGED <<keys, pc, prepared>>
    BY <1>2 DEF ClearPop, TypeInv, TypeOK
  <2>2. Asked(j)' = Asked(j)
    BY <2>1 DEF Asked, Listed
  <2>3. Report!Forget({j})
    BY <2>1, <2>2, SomeForgotten
  <2> QED
    BY <2>1, <2>2, <2>3 DEF Born
<1>3. CASE ClearUnlink(j) \/ WsOpen(j) \/ WsPoll(j)
  <2>1. UNCHANGED <<mem, keys, pc, prepared>>
    BY <1>3 DEF ClearUnlink, WsOpen, WsPoll
  <2> QED
    BY <2>1 DEF Born, Unseen, Asked, Listed, Alive
<1> QED
  BY <1>1, <1>2, <1>3 DEF Client

\* The pool threads are not seen.
LEMMA TaskSeen ==
    ASSUME NEW j \in Jobs, NEW s \in Slots, Born(j), Task(j, s)
    PROVE  Born(j)' /\ Unseen(j)
<1>1. UNCHANGED <<mem, keys, pc, prepared>>
  BY DEF Task, TaskWrite, TaskRaise, TaskReturn
<1> QED
  BY <1>1 DEF Born, Unseen, Asked, Listed, Alive

\* The shutdown hook settles nothing; the end of the process forgets every job.
LEMMA ServerSeen ==
    ASSUME \A j \in Jobs : Born(j), Shutdown \/ Restart
    PROVE  /\ \A j \in Jobs : Born(j)'
           /\ (\A j \in Jobs : Unseen(j)) \/ Report!Forget(Jobs)
<1>1. CASE Shutdown
  <2>1. ASSUME NEW j \in Jobs PROVE Born(j)' /\ Unseen(j)
    <3>1. /\ mem'[j] = IF mem[j].status = "running" THEN Closed(mem[j], "failed") ELSE mem[j]
          /\ UNCHANGED <<keys, pc, prepared>>
      BY <1>1 DEF Shutdown
    <3>2. /\ mem'[j].success = mem[j].success /\ mem'[j].failed = mem[j].failed
          /\ mem'[j].status = mem[j].status
             \/ (mem[j].status = "running" /\ mem'[j].status = "failed")
      BY <3>1 DEF Closed, EntryOf
    <3> QED
      BY <3>1, <3>2 DEF Born, Unseen, Asked, Listed, Alive
  <2> QED
    BY <2>1
<1>2. CASE Restart
  <2>1. ASSUME NEW j \in Jobs PROVE mem'[j] = NoEntry /\ Asked(j)' = Asked(j) /\ Born(j)'
    <3>1. /\ mem'[j] = NoEntry /\ pc'[j] = (IF pc[j] = "new" THEN "new" ELSE "ended")
          /\ prepared'[j] = {} /\ keys' = keys
      BY <1>2 DEF Restart
    <3>2. Asked(j)' = Asked(j) /\ ~Alive(j)'
      BY <3>1 DEF Asked, Listed, Alive, NoEntry, EntryOf
    <3> QED
      BY <3>1, <3>2 DEF Born
  <2> QED
    BY <2>1, SomeForgotten
<1> QED
  BY <1>1, <1>2

\* Every step of the bulk jobs is a step of the report or a stutter of it.
LEMMA StepSeen ==
    ASSUME TypeInv, \A j \in Jobs : JobInv(j) /\ Born(j), [Next]_vars
    PROVE  (\A j \in Jobs : Born(j)') /\ [Report!Next]_(Report!reportVars)
<1>1. ASSUME NEW j \in Jobs, Client(j) \/ Worker(j) \/ \E s \in Slots : Task(j, s)
      PROVE  (\A i \in Jobs : Born(i)') /\ [Report!Next]_(Report!reportVars)
  <2>1. \A i \in Jobs \ {j} : Unseen(i) /\ Born(i)'
    BY <1>1, OneJobClient, OneJobWorker, OneJobTask, OthersUnseen
  <2>2. /\ Born(j)'
        /\ \/ Unseen(j) \/ Report!Show(j) \/ Report!Settle(j) \/ Report!Forget({j})
           \/ \E t \in Tables : Report!Record(j, t)
    BY <1>1, <2>1, ClientSeen, BornWorker, WorkerSeen, TaskSeen
  <2>3. CASE Unseen(j)
    BY <2>1, <2>2, <2>3, UnseenStutters
  <2>4. CASE Report!Show(j) \/ Report!Settle(j) \/ Report!Forget({j})
             \/ \E t \in Tables : Report!Record(j, t)
    BY <2>1, <2>2, <2>4 DEF Report!Next
  <2> QED
    BY <2>2, <2>3, <2>4
<1>2. CASE Shutdown \/ Restart
  BY <1>2, ServerSeen, UnseenStutters DEF Report!Next
<1>3. CASE UNCHANGED vars
  <2>1. \A j \in Jobs : SameJob(j)
    BY <1>3 DEF vars, SameJob
  <2> QED
    BY <2>1, OthersUnseen, UnseenStutters
<1> QED
  BY <1>1, <1>2, <1>3 DEF Next

\* The detailed job implements the report of BulkReport: whatever the pool, dbt, clears, a
\* shutdown and restarts do, what bulk_status answers (_BULK_JOBS under its lock) collects
\* one outcome after another for accepted tables, is settled only when each has one, and
\* loses nothing but by DELETE or with the process.
THEOREM ImplementsReportHolds == SafeSpec => ImplementsReport
<1>1. Init => Report!Init /\ \A j \in Jobs : Born(j)
  <2> SUFFICES ASSUME Init PROVE Report!Init /\ \A j \in Jobs : Born(j)
    OBVIOUS
  <2>1. \A j \in Jobs : /\ Asked(j) = {} /\ ~Alive(j) /\ mem[j].status # "done"
                        /\ mem[j].success = {} /\ mem[j].failed = {}
    BY DEF Init, Asked, Listed, Alive, NoEntry, EntryOf
  <2>2. \A j \in Jobs : Born(j)
    BY <2>1 DEF Init, Born
  <2>3. Report!Init
    BY <2>1 DEF Report!Init, Alive
  <2> QED
    BY <2>2, <2>3
<1>2. (TypeInv /\ \A j \in Jobs : JobInv(j)) /\ (\A j \in Jobs : Born(j)) /\ [Next]_vars
         => (\A j \in Jobs : Born(j))' /\ [Report!Next]_(Report!reportVars)
  BY StepSeen
<1> QED
  BY <1>1, <1>2, Accounts, PTL DEF SafeSpec, ImplementsReport, Report!Spec
=============================================================================
