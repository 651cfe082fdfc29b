------------------------------ MODULE StoreProofs ------------------------------
(***************************************************************************)
(* Proofs about what several callers share without a lock that covers the  *)
(* whole of what they do: the source tables of the DuckDB file, the file   *)
(* of the cockpit's insights with its cache, the artifact directory of a   *)
(* live connection, and the caches behind the lineage graphs.              *)
(***************************************************************************)
EXTENDS SourceTables, Cockpit, LivePages, ReportCaches, FiniteSetTheorems, TLAPS

-----------------------------------------------------------------------------
(* SourceTables *)

\* The variables are functions of records; only the tables of a call are known more of.
BsShape ==
    /\ bsCall = [c \in BsCalls |-> bsCall[c]]
    /\ \A c \in BsCalls :
          /\ bsCall[c] = [pc |-> bsCall[c].pc, todo |-> bsCall[c].todo,
                          at |-> bsCall[c].at, cols |-> bsCall[c].cols]
          /\ DOMAIN bsCall[c].todo \subseteq BsNames
    /\ bsTable = [t \in BsTables |-> bsTable[t]]
    /\ bsGiven = [t \in BsTables |-> bsGiven[t]]

\* The catalog has a table for every name.
LEMMA BsKeyed == \A n \in BsNames : BsKey(n) \in BsTables
BY DEF BsTables

\* A call that has read the columns of table t and has not created it yet.
BsRebuilds(c, t) == bsCall[c].pc \in {"drop", "create"} /\ BsKey(bsCall[c].at) = t

\* Nobody rebuilds a table beside another call, what a call will create has the columns
\* that are there, or were before it dropped them, and the table has them otherwise.
BsInOrder(t) ==
    /\ \A c, d \in BsCalls : BsRebuilds(c, t) /\ BsRebuilds(d, t) => c = d
    /\ \A c \in BsCalls :
          /\ bsCall[c].pc = "drop" /\ BsKey(bsCall[c].at) = t => bsTable[t] \subseteq bsCall[c].cols
          /\ bsCall[c].pc = "create" /\ BsKey(bsCall[c].at) = t => bsGiven[t] \subseteq bsCall[c].cols
    /\ \/ bsGiven[t] \subseteq bsTable[t]
       \/ \E c \in BsCalls : bsCall[c].pc = "create" /\ BsKey(bsCall[c].at) = t

BsInv == BsShape /\ \A t \in BsTables \ bsTorn : BsInOrder(t)

LEMMA BsCallAtShape ==
    ASSUME NEW pc, NEW todo, NEW r, r = BsCallAt(pc, todo)
    PROVE  /\ r = [pc |-> r.pc, todo |-> r.todo, at |-> r.at, cols |-> r.cols]
           /\ r.pc = pc /\ r.todo = todo
BY DEF BsCallAt

\* What is planned is planned for source tables.
LEMMA BsPlanned == \A todo \in BsPlans : DOMAIN todo \subseteq BsNames
<1>1. ASSUME NEW m \in BsModels, NEW known PROVE DOMAIN BsOfModel(m, known) \subseteq BsNames
  <2>1. DOMAIN BsOfModel(m, known) = BsSql[m].from
    BY DEF BsOfModel
  <2>. QED BY <2>1, BsAssumption
<1>2. ASSUME NEW m \in BsModels, NEW known PROVE DOMAIN BsOfWave(m, known) \subseteq BsNames
  <2>1. PICK todo : todo = BsOfWave(m, known)
    OBVIOUS
  <2>2. PICK none, full : none = << >> /\ full = BsOfModel(m, known)
    OBVIOUS
  <2>3. todo = none \/ todo = full
    BY <2>1, <2>2, Zenon DEF BsOfWave
  <2>4. DOMAIN none \subseteq BsNames /\ DOMAIN full \subseteq BsNames
    BY <1>1, <2>2
  <2>. QED BY <2>1, <2>3, <2>4, Zenon
<1>3. ASSUME NEW ms \in SUBSET BsModels PROVE DOMAIN BsOfBatch(ms) \subseteq BsNames
  <2>. DEFINE tables == UNION {BsSql[m].from \cup {BsSql[m].key} : m \in ms}
  <2>1. DOMAIN BsOfBatch(ms) = tables
    BY DEF BsOfBatch
  <2>2. tables \subseteq BsNames
    BY BsAssumption
  <2>. QED BY <2>1, <2>2
<1>4. ASSUME NEW todo \in BsPlans PROVE DOMAIN todo \subseteq BsNames
  <2>1. \/ todo \in UNION {{BsOfModel(m, known) : known \in {{}, BsAll}} : m \in BsModels}
        \/ todo \in UNION {{BsOfWave(m, known) : known \in {{}, {"report", "path"}, BsAll}} : m \in BsModels}
        \/ todo \in {BsOfBatch(ms) : ms \in SUBSET BsModels}
    BY Zenon DEF BsPlans
  <2>. QED BY <1>1, <1>2, <1>3, <2>1, Zenon
<1>. QED BY <1>4

\* One call moves on to the record r.
LEMMA BsMoved ==
    ASSUME BsShape, NEW c \in BsCalls, NEW r, bsCall' = [bsCall EXCEPT ![c] = r],
           r = [pc |-> r.pc, todo |-> r.todo, at |-> r.at, cols |-> r.cols],
           DOMAIN r.todo \subseteq BsNames, UNCHANGED <<bsTable, bsGiven>>
    PROVE  /\ BsShape'
           /\ bsCall'[c] = r
           /\ \A d \in BsCalls \ {c} : bsCall'[d] = bsCall[d]
<1>1. bsCall'[c] = r /\ \A d \in BsCalls \ {c} : bsCall'[d] = bsCall[d]
  BY DEF BsShape
<1>2. bsCall' = [d \in BsCalls |-> bsCall'[d]]
  BY DEF BsShape
<1>3. ASSUME NEW d \in BsCalls
      PROVE  /\ bsCall'[d] = [pc |-> bsCall'[d].pc, todo |-> bsCall'[d].todo,
                              at |-> bsCall'[d].at, cols |-> bsCall'[d].cols]
             /\ DOMAIN bsCall'[d].todo \subseteq BsNames
  BY <1>1 DEF BsShape
<1>4. bsTable' = [t \in BsTables |-> bsTable'[t]] /\ bsGiven' = [t \in BsTables |-> bsGiven'[t]]
  BY DEF BsShape
<1>. QED BY <1>1, <1>2, <1>3, <1>4 DEF BsShape

\* A call that rebuilds nothing afterwards and had dropped nothing changes no order.
LEMMA BsLeaves ==
    ASSUME NEW t \in BsTables, BsInOrder(t), NEW c \in BsCalls,
           \A d \in BsCalls \ {c} : bsCall'[d] = bsCall[d],
           bsCall'[c].pc \notin {"drop", "create"},
           ~(bsCall[c].pc = "create" /\ BsKey(bsCall[c].at) = t),
           UNCHANGED <<bsTable, bsGiven>>
    PROVE  BsInOrder(t)'
BY DEF BsInOrder, BsRebuilds

LEMMA BsRestTables ==
    ASSUME BsShape, NEW c \in BsCalls, NEW t
    PROVE  DOMAIN BsRest(bsCall[c].todo, t) \subseteq BsNames
BY DEF BsRest, BsShape

\* A step of one call that neither creates a table nor starts to rebuild one.
LEMMA BsQuiet ==
    ASSUME BsInv, NEW c \in BsCalls, NEW r, bsCall' = [bsCall EXCEPT ![c] = r],
           r = [pc |-> r.pc, todo |-> r.todo, at |-> r.at, cols |-> r.cols],
           DOMAIN r.todo \subseteq BsNames, UNCHANGED <<bsTable, bsGiven>>,
           r.pc \notin {"drop", "create"}, bsTorn \subseteq bsTorn',
           bsCall[c].pc = "create" => BsKey(bsCall[c].at) \in bsTorn'
    PROVE  BsInv'
<1>1. BsShape' /\ bsCall'[c] = r /\ \A d \in BsCalls \ {c} : bsCall'[d] = bsCall[d]
  BY BsMoved DEF BsInv
<1>2. ASSUME NEW t \in BsTables \ bsTorn' PROVE BsInOrder(t)'
  <2>1. BsInOrder(t) /\ ~(bsCall[c].pc = "create" /\ BsKey(bsCall[c].at) = t)
    BY DEF BsInv
  <2>2. bsCall'[c].pc \notin {"drop", "create"}
    BY <1>1
  <2>. QED BY <1>1, <2>1, <2>2, BsLeaves
<1>. QED BY <1>1, <1>2 DEF BsInv

LEMMA BsStartStep == BsInv /\ (\E c \in BsCalls : BsStart(c)) => BsInv'
<1>. SUFFICES ASSUME BsInv, NEW c \in BsCalls, BsStart(c) PROVE BsInv'
  OBVIOUS
<1>1. PICK todo \in BsPlans :
          bsCall' = [bsCall EXCEPT ![c] =
                        IF DOMAIN todo = {} THEN BsIdle ELSE BsCallAt("planned", todo)]
  BY Zenon DEF BsStart
<1>2. bsCall[c].pc = "idle" /\ UNCHANGED <<bsTable, bsGiven, bsTorn>>
  BY DEF BsStart
<1>3. PICK r : r = IF DOMAIN todo = {} THEN BsIdle ELSE BsCallAt("planned", todo)
  OBVIOUS
<1>4. /\ r = [pc |-> r.pc, todo |-> r.todo, at |-> r.at, cols |-> r.cols]
      /\ r.pc \in {"idle", "planned"} /\ DOMAIN r.todo \subseteq BsNames
  BY <1>3, BsPlanned, BsCallAtShape DEF BsIdle
<1>5. bsCall' = [bsCall EXCEPT ![c] = r]
  BY <1>1, <1>3, Zenon
<1>. QED BY <1>2, <1>4, <1>5, BsQuiet

LEMMA BsConnectStep == BsInv /\ (\E c \in BsCalls : BsConnect(c) \/ BsClose(c)) => BsInv'
<1>. SUFFICES ASSUME BsInv, NEW c \in BsCalls, BsConnect(c) \/ BsClose(c) PROVE BsInv'
  OBVIOUS
<1>1. bsCall[c].pc \in {"planned", "tables"} /\ UNCHANGED <<bsTable, bsGiven, bsTorn>>
  BY DEF BsConnect, BsClose
<1>2. PICK r \in {BsIdle, BsCallAt("tables", bsCall[c].todo)} :
          bsCall' = [bsCall EXCEPT ![c] = r]
  BY Zenon DEF BsConnect, BsClose
<1>3. DOMAIN bsCall[c].todo \subseteq BsNames
  BY DEF BsInv, BsShape
<1>4. /\ r = [pc |-> r.pc, todo |-> r.todo, at |-> r.at, cols |-> r.cols]
      /\ r.pc \in {"idle", "tables"} /\ DOMAIN r.todo \subseteq BsNames
  BY <1>3, BsCallAtShape DEF BsIdle
<1>. QED BY <1>1, <1>2, <1>4, BsQuiet

\* A table nobody rebuilds has all its columns, and c takes them over if it finds them.
LEMMA BsReadStep == BsInv /\ (\E c \in BsCalls : BsRead(c)) => BsInv'
<1>. SUFFICES ASSUME BsInv, NEW c \in BsCalls, BsRead(c) PROVE BsInv'
  OBVIOUS
<1>0. PICK n \in DOMAIN bsCall[c].todo, found \in BOOLEAN : BsReads(c, n, found)
  BY Zenon DEF BsRead
<1>9. PICK t, merged : /\ t = BsKey(n)
                       /\ merged = BsMerge(bsCall[c].todo[n], IF found THEN bsTable[t] ELSE {})
  OBVIOUS
<1>1. /\ bsCall' = [bsCall EXCEPT ![c] =
                [pc |-> "drop", todo |-> bsCall[c].todo, at |-> n,
                 cols |-> IF merged = {} THEN BsPlaceholder ELSE merged]]
      /\ bsTorn' = IF \/ ~found /\ bsTable[t] # {}
                      \/ \E d \in BsOpen \ {c} : /\ BsKey(bsCall[d].at) = t
                                               /\ bsCall[d].pc \in {"drop", "create"}
                   THEN bsTorn \cup {t} ELSE bsTorn
  BY <1>0, <1>9, Zenon DEF BsReads
<1>2. bsCall[c].pc = "tables" /\ UNCHANGED <<bsTable, bsGiven>>
  BY DEF BsRead
<1>3. PICK cols : /\ cols = IF merged = {} THEN BsPlaceholder ELSE merged
                  /\ t \notin bsTorn' => bsTable[t] \subseteq cols
  <2>1. PICK cols : cols = IF merged = {} THEN BsPlaceholder ELSE merged
    OBVIOUS
  <2>2. t \notin bsTorn' => found \/ bsTable[t] = {}
    BY <1>1
  <2>3. bsTable[t] \subseteq merged \/ t \in bsTorn'
    BY <1>9, <2>2 DEF BsMerge
  <2>. QED BY <2>1, <2>3
<1>4. PICK r : r = [pc |-> "drop", todo |-> bsCall[c].todo, at |-> n, cols |-> cols]
  OBVIOUS
<1>5. /\ bsCall' = [bsCall EXCEPT ![c] = r]
      /\ r = [pc |-> r.pc, todo |-> r.todo, at |-> r.at, cols |-> r.cols]
      /\ r.pc = "drop" /\ r.todo = bsCall[c].todo /\ r.at = n /\ r.cols = cols
  <2>1. bsCall' = [bsCall EXCEPT ![c] = r]
    BY <1>1, <1>3, <1>4, Zenon
  <2>. QED BY <1>4, <2>1
<1>6. BsShape' /\ bsCall'[c] = r /\ \A d \in BsCalls \ {c} : bsCall'[d] = bsCall[d]
  <2>1. DOMAIN r.todo \subseteq BsNames
    BY <1>5 DEF BsInv, BsShape
  <2>. QED BY <1>2, <1>5, <2>1, BsMoved DEF BsInv
<1>7. ASSUME NEW u \in BsTables \ bsTorn' PROVE BsInOrder(u)'
  <2>1. BsInOrder(u)
    BY <1>1, <1>7 DEF BsInv
  <2>2. bsCall'[c].pc = "drop" /\ BsKey(bsCall'[c].at) = t /\ bsCall'[c].cols = cols
    BY <1>9, <1>5, <1>6
  <2>3. CASE u # t
    BY <1>2, <1>6, <2>1, <2>2, <2>3 DEF BsInOrder, BsRebuilds
  <2>4. CASE u = t
    <3>1. \A d \in BsCalls \ {c} : ~BsRebuilds(d, t)
      BY <1>1, <1>7, <2>4 DEF BsRebuilds, BsOpen
    <3>2. \A d \in BsCalls \ {c} : ~BsRebuilds(d, t)'
      BY <1>6, <3>1 DEF BsRebuilds
    <3>3. bsGiven[t] \subseteq bsTable[t]
      BY <1>2, <2>1, <2>4, <3>1 DEF BsInOrder, BsRebuilds
    <3>. QED BY <1>2, <1>3, <1>7, <2>2, <2>4, <3>2, <3>3 DEF BsInOrder, BsRebuilds
  <2>. QED BY <2>3, <2>4
<1>. QED BY <1>6, <1>7 DEF BsInv

LEMMA BsDropStep == BsInv /\ (\E c \in BsCalls : BsDrop(c)) => BsInv'
<1>. SUFFICES ASSUME BsInv, NEW c \in BsCalls, BsDrop(c) PROVE BsInv'
  OBVIOUS
<1>. DEFINE n == bsCall[c].at
            t == BsKey(n)
<1>1. bsCall[c].pc = "drop" /\ UNCHANGED <<bsGiven, bsTorn>>
  BY DEF BsDrop
<1>2. CASE /\ bsTable' = [bsTable EXCEPT ![t] = {}]
           /\ bsCall' = [bsCall EXCEPT ![c].pc = "create"]
  <2>1. /\ bsCall'[c].pc = "create" /\ bsCall'[c].at = n
        /\ bsCall'[c].cols = bsCall[c].cols /\ bsCall'[c].todo = bsCall[c].todo
        /\ bsCall'[c] = [pc |-> bsCall'[c].pc, todo |-> bsCall'[c].todo,
                         at |-> bsCall'[c].at, cols |-> bsCall'[c].cols]
        /\ \A d \in BsCalls \ {c} : bsCall'[d] = bsCall[d]
        /\ bsCall' = [d \in BsCalls |-> bsCall'[d]]
    BY <1>2 DEF BsInv, BsShape
  <2>2. bsTable' = [u \in BsTables |-> bsTable'[u]]
        /\ \A u \in BsTables \ {t} : bsTable'[u] = bsTable[u]
    BY <1>2 DEF BsInv, BsShape
  <2>3. BsShape'
    BY <1>1, <2>1, <2>2 DEF BsInv, BsShape
  <2>4. ASSUME NEW u \in BsTables \ bsTorn' PROVE BsInOrder(u)'
    <3>1. BsInOrder(u)
      BY <1>1, <2>4 DEF BsInv
    <3>2. CASE u # t
      BY <1>1, <2>1, <2>2, <3>1, <3>2 DEF BsInOrder, BsRebuilds
    <3>3. CASE u = t
      <4>1. \A d \in BsCalls \ {c} : ~BsRebuilds(d, u) /\ ~BsRebuilds(d, u)'
        BY <1>1, <2>1, <3>1, <3>3 DEF BsInOrder, BsRebuilds
      <4>2. bsGiven[u] \subseteq bsTable[u] /\ bsTable[u] \subseteq bsCall[c].cols
        BY <1>1, <3>1, <3>3, <4>1 DEF BsInOrder, BsRebuilds
      <4>. QED BY <1>1, <2>1, <3>3, <4>1, <4>2 DEF BsInOrder, BsRebuilds
    <3>. QED BY <3>2, <3>3
  <2>. QED BY <2>3, <2>4 DEF BsInv
<1>3. CASE BsNextTable(c, n) /\ UNCHANGED bsTable
  <2>1. PICK r : r = BsCallAt("tables", BsRest(bsCall[c].todo, n))
    OBVIOUS
  <2>2. bsCall' = [bsCall EXCEPT ![c] = r]
    BY <1>3, <2>1, Zenon DEF BsNextTable
  <2>3. /\ r = [pc |-> r.pc, todo |-> r.todo, at |-> r.at, cols |-> r.cols]
        /\ r.pc = "tables" /\ DOMAIN r.todo \subseteq BsNames
    BY <2>1, BsCallAtShape, BsRestTables DEF BsInv
  <2>. QED BY <1>1, <1>3, <2>2, <2>3, BsQuiet
<1>. QED BY <1>2, <1>3 DEF BsDrop

LEMMA BsCreateStep == BsInv /\ (\E c \in BsCalls : BsCreate(c)) => BsInv'
<1>. SUFFICES ASSUME BsInv, NEW c \in BsCalls, BsCreate(c) PROVE BsInv'
  OBVIOUS
<1>. DEFINE n == bsCall[c].at
            t == BsKey(n)
<1>1. bsCall[c].pc = "create" /\ BsNextTable(c, n)
  BY DEF BsCreate
<1>2. PICK r : r = BsCallAt("tables", BsRest(bsCall[c].todo, n))
  OBVIOUS
<1>3. bsCall' = [bsCall EXCEPT ![c] = r]
  BY <1>1, <1>2, Zenon DEF BsNextTable
<1>4. /\ r = [pc |-> r.pc, todo |-> r.todo, at |-> r.at, cols |-> r.cols]
      /\ r.pc = "tables" /\ DOMAIN r.todo \subseteq BsNames
  BY <1>2, BsCallAtShape, BsRestTables DEF BsInv
<1>5. CASE /\ bsTable' = [bsTable EXCEPT ![t] = bsCall[c].cols]
           /\ bsGiven' = [bsGiven EXCEPT ![t] = @ \cup bsCall[c].cols]
           /\ UNCHANGED bsTorn
  <2>1. /\ bsCall'[c] = r /\ \A d \in BsCalls \ {c} : bsCall'[d] = bsCall[d]
        /\ bsCall' = [d \in BsCalls |-> bsCall'[d]]
    BY <1>3 DEF BsInv, BsShape
  <2>2. /\ bsTable' = [u \in BsTables |-> bsTable'[u]]
        /\ bsGiven' = [u \in BsTables |-> bsGiven'[u]]
        /\ \A u \in BsTables \ {t} : bsTable'[u] = bsTable[u] /\ bsGiven'[u] = bsGiven[u]
    BY <1>5 DEF BsInv, BsShape
  <2>3. t \in BsTables => bsTable'[t] = bsCall[c].cols
                          /\ bsGiven'[t] = bsGiven[t] \cup bsCall[c].cols
    BY <1>5 DEF BsInv, BsShape
  <2>4. BsShape'
    BY <1>4, <2>1, <2>2 DEF BsInv, BsShape
  <2>5. ASSUME NEW u \in BsTables \ bsTorn' PROVE BsInOrder(u)'
    <3>1. BsInOrder(u)
      BY <1>5, <2>5 DEF BsInv
    <3>2. bsCall'[c].pc = "tables"
      BY <1>4, <2>1
    <3>3. CASE u # t
      BY <2>1, <2>2, <3>1, <3>2, <3>3 DEF BsInOrder, BsRebuilds
    <3>4. CASE u = t
      <4>1. \A d \in BsCalls : ~BsRebuilds(d, u)'
        BY <1>1, <2>1, <3>1, <3>2, <3>4 DEF BsInOrder, BsRebuilds
      <4>2. bsGiven'[u] \subseteq bsTable'[u]
        BY <1>1, <2>3, <3>1, <3>4 DEF BsInOrder
      <4>. QED BY <4>1, <4>2 DEF BsInOrder, BsRebuilds
    <3>. QED BY <3>3, <3>4
  <2>. QED BY <2>4, <2>5 DEF BsInv
<1>6. CASE bsTorn' = bsTorn \cup {t} /\ UNCHANGED <<bsTable, bsGiven>>
  BY <1>1, <1>3, <1>4, <1>6, BsQuiet
<1>. QED BY <1>5, <1>6 DEF BsCreate

\* For any number of calls, models and names: a source table that is rebuilt by one call at
\* a time, never failed to be created and was found whenever it was there has every column a
\* bootstrap ever gave it.
THEOREM BsColumnsKeptHolds == BsSpec => []BsColumnsKept
<1>1. BsInit => BsInv
  <2>. SUFFICES ASSUME BsInit PROVE BsInv
    OBVIOUS
  <2>1. PICK r : r = BsIdle
    OBVIOUS
  <2>2. bsCall = [c \in BsCalls |-> r]
    BY <2>1, Zenon DEF BsInit
  <2>3. r = [pc |-> r.pc, todo |-> r.todo, at |-> r.at, cols |-> r.cols]
        /\ r.pc = "idle" /\ DOMAIN r.todo \subseteq BsNames
    BY <2>1, BsCallAtShape DEF BsIdle
  <2>4. BsShape
    BY <2>2, <2>3 DEF BsInit, BsShape
  <2>5. \A t \in BsTables : BsInOrder(t)
    BY <2>2, <2>3 DEF BsInit, BsInOrder, BsRebuilds
  <2>. QED BY <2>4, <2>5 DEF BsInv
<1>2. BsInv /\ [BsNext]_bsVars => BsInv'
  <2>1. BsInv /\ (BsInspect \/ BsDbtRuns \/ BsRelease \/ UNCHANGED bsVars) => BsInv'
    <3>1. BsInspect \/ BsDbtRuns \/ BsRelease \/ UNCHANGED bsVars
             => UNCHANGED <<bsCall, bsTable, bsGiven, bsTorn>>
      BY DEF BsInspect, BsDbtRuns, BsRelease, bsVars
    <3>. QED BY <3>1 DEF BsInv, BsShape, BsInOrder, BsRebuilds
  <2>. QED BY <2>1, BsStartStep, BsConnectStep, BsReadStep, BsDropStep, BsCreateStep
           DEF BsNext
<1>3. BsInv => BsColumnsKept
  BY DEF BsInv, BsInOrder, BsColumnsKept, BsOpen
<1>. QED BY <1>1, <1>2, <1>3, PTL DEF BsSpec

\* A plan gives source tables columns that something names.
BsPlanKnown(todo) ==
    /\ DOMAIN todo \subseteq BsNames
    /\ \A n \in DOMAIN todo : todo[n] \subseteq BsAllColumns

BsSorted(r) ==
    /\ r = [pc |-> r.pc, todo |-> r.todo, at |-> r.at, cols |-> r.cols]
    /\ r.pc \in {"idle", "planned", "tables", "drop", "create"}
    /\ r.pc \in {"drop", "create"} => r.at \in BsNames
    /\ BsPlanKnown(r.todo)
    /\ r.cols \subseteq BsAllColumns

\* The types of the calls, and who has the file open.
BsKept ==
    /\ bsCall = [c \in BsCalls |-> bsCall[c]]
    /\ \A c \in BsCalls : BsSorted(bsCall[c])
    /\ bsTable \in [BsTables -> SUBSET BsAllColumns]
    /\ bsSpelt \in [BsTables -> (DOMAIN BsLower) \cup {"none"}]
    /\ bsSchemas \subseteq DOMAIN BsLower
    /\ bsFile \in {"free", "sample", "dbt"}
    /\ bsFile # "free" => BsOpen = {}
    /\ bsAnswer \in {"none", "rows", "warning", "error"}
    /\ bsTorn \subseteq BsTables

LEMMA BsPlansKnown == \A todo \in BsPlans : BsPlanKnown(todo)
<1>1. ASSUME NEW m \in BsModels, NEW n \in BsNames, NEW known
      PROVE  BsResolve(n, m, known) \subseteq BsAllColumns
  BY DEF BsResolve, BsAllColumns
<1>2. ASSUME NEW m \in BsModels, NEW known PROVE BsPlanKnown(BsOfModel(m, known))
  BY <1>1, BsAssumption DEF BsOfModel, BsPlanKnown
<1>3. ASSUME NEW m \in BsModels, NEW known PROVE BsPlanKnown(BsOfWave(m, known))
  <2>1. PICK none, full : none = << >> /\ full = BsOfModel(m, known)
    OBVIOUS
  <2>2. BsOfWave(m, known) \in {none, full}
    BY <2>1, Zenon DEF BsOfWave
  <2>3. BsPlanKnown(none)
    BY <2>1 DEF BsPlanKnown
  <2>4. BsPlanKnown(full)
    BY <1>2, <2>1, Zenon
  <2>. QED BY <2>2, <2>3, <2>4, Zenon
<1>4. ASSUME NEW ms \in SUBSET BsModels PROVE BsPlanKnown(BsOfBatch(ms))
  <2>. DEFINE tables == UNION {BsSql[m].from \cup {BsSql[m].key} : m \in ms}
              cols(n) == UNION {BsResolve(n, m, BsAll) :
                                   m \in {k \in ms : n \in BsSql[k].from \cup {BsSql[k].key}}}
  <2>1. tables \subseteq BsNames
    BY BsAssumption
  <2>2. \A n \in BsNames : cols(n) \subseteq BsAllColumns
    <3>1. ASSUME NEW n \in BsNames, NEW x \in cols(n) PROVE x \in BsAllColumns
      <4>1. PICK m \in BsModels : x \in BsResolve(n, m, BsAll)
        BY <3>1
      <4>2. BsResolve(n, m, BsAll) \subseteq BsAllColumns
        BY <1>1
      <4>. QED BY <4>1, <4>2
    <3>. HIDE DEF cols
    <3>. QED BY <3>1
  <2>3. BsOfBatch(ms) = [n \in tables |-> cols(n)]
    BY DEF BsOfBatch
  <2>. HIDE DEF tables, cols
  <2>. QED BY <2>1, <2>2, <2>3 DEF BsPlanKnown
<1>5. ASSUME NEW todo \in BsPlans PROVE BsPlanKnown(todo)
  <2>1. \/ todo \in UNION {{BsOfModel(m, known) : known \in {{}, BsAll}} : m \in BsModels}
        \/ todo \in UNION {{BsOfWave(m, known) : known \in {{}, {"report", "path"}, BsAll}} : m \in BsModels}
        \/ todo \in {BsOfBatch(ms) : ms \in SUBSET BsModels}
    BY Zenon DEF BsPlans
  <2>. QED BY <1>2, <1>3, <1>4, <2>1, Zenon
<1>. QED BY <1>5

\* A call between two tables holds a plan and no columns.
LEMMA BsCallAtSorted ==
    ASSUME NEW pc \in {"idle", "planned", "tables"}, NEW todo, BsPlanKnown(todo),
           NEW r, r = BsCallAt(pc, todo)
    PROVE  BsSorted(r) /\ r.pc = pc
<1>1. r = [pc |-> r.pc, todo |-> r.todo, at |-> r.at, cols |-> r.cols] /\ r.pc = pc /\ r.todo = todo
  BY BsCallAtShape
<1>2. r.cols = {}
  BY DEF BsCallAt
<1>. QED BY <1>1, <1>2 DEF BsSorted

LEMMA BsIdleSorted == \A r : r = BsIdle => BsSorted(r) /\ r.pc = "idle"
<1>. SUFFICES ASSUME NEW r, r = BsIdle PROVE BsSorted(r) /\ r.pc = "idle"
  OBVIOUS
<1>1. PICK none : none = << >>
  OBVIOUS
<1>2. BsPlanKnown(none)
  BY <1>1 DEF BsPlanKnown
<1>3. r = BsCallAt("idle", none)
  BY <1>1, Zenon DEF BsIdle
<1>. QED BY <1>2, <1>3, BsCallAtSorted

\* One call moves on to r: it does not open the file, or the file is free.
LEMMA BsMovedKept ==
    ASSUME BsKept, NEW c \in BsCalls, NEW r, BsSorted(r), bsCall' = [bsCall EXCEPT ![c] = r],
           bsFile = "free" \/ r.pc \in {"idle", "planned"} \/ bsCall[c].pc \notin {"idle", "planned"},
           bsTable' \in [BsTables -> SUBSET BsAllColumns], bsTorn' \subseteq BsTables,
           bsSpelt' \in [BsTables -> (DOMAIN BsLower) \cup {"none"}],
           bsSchemas' \subseteq DOMAIN BsLower, UNCHANGED <<bsFile, bsAnswer>>
    PROVE  BsKept'
<1>1. bsCall'[c] = r /\ \A d \in BsCalls \ {c} : bsCall'[d] = bsCall[d]
  BY DEF BsKept
<1>2. bsCall' = [d \in BsCalls |-> bsCall'[d]]
  BY DEF BsKept
<1>3. \A d \in BsCalls : BsSorted(bsCall'[d])
  BY <1>1 DEF BsKept
<1>4. bsFile # "free" => BsOpen' = {}
  BY <1>1 DEF BsKept, BsOpen
<1>5. \A d \in BsCalls : BsSorted(bsCall[d])'
  BY <1>3 DEF BsSorted, BsPlanKnown
<1>. QED BY <1>2, <1>4, <1>5 DEF BsKept

\* The parts of a name are names of the catalog.
LEMMA BsParts == \A n \in BsNames : n[1] \in DOMAIN BsLower /\ n[2] \in DOMAIN BsLower
BY BsAssumption

\* CREATE SCHEMA and the spelling of a table come from the name of the call.
LEMMA BsCatalogKept ==
    ASSUME BsKept, NEW c \in BsCalls,
           BsStart(c) \/ BsConnect(c) \/ BsRead(c) \/ BsDrop(c) \/ BsCreate(c) \/ BsClose(c)
    PROVE  /\ bsSpelt' \in [BsTables -> (DOMAIN BsLower) \cup {"none"}]
           /\ bsSchemas' \subseteq DOMAIN BsLower
<1>1. /\ bsSpelt \in [BsTables -> (DOMAIN BsLower) \cup {"none"}]
      /\ bsSchemas \subseteq DOMAIN BsLower
      /\ bsCall[c].pc \in {"drop", "create"} => bsCall[c].at \in BsNames
  BY DEF BsKept, BsSorted
<1>2. CASE BsStart(c) \/ BsConnect(c) \/ BsRead(c) \/ BsClose(c)
  BY <1>1, <1>2 DEF BsStart, BsConnect, BsRead, BsClose
<1>3. CASE BsDrop(c)
  <2>1. UNCHANGED bsSpelt /\ bsCall[c].at[1] \in DOMAIN BsLower
    BY <1>1, <1>3, BsParts DEF BsDrop
  <2>2. bsSchemas' \in {bsSchemas, BsSchemasWith(bsCall[c].at[1])}
    BY <1>3 DEF BsDrop
  <2>3. bsSchemas' \subseteq bsSchemas \cup {bsCall[c].at[1]}
    BY <2>2 DEF BsSchemasWith
  <2>. QED BY <1>1, <2>1, <2>3
<1>4. CASE BsCreate(c)
  <2>1. UNCHANGED bsSchemas /\ bsCall[c].at[2] \in DOMAIN BsLower
    BY <1>1, <1>4, BsParts DEF BsCreate
  <2>2. \/ bsSpelt' = [bsSpelt EXCEPT ![BsKey(bsCall[c].at)] = bsCall[c].at[2]]
        \/ UNCHANGED bsSpelt
    BY <1>4 DEF BsCreate
  <2>. QED BY <1>1, <2>1, <2>2
<1>. QED BY <1>2, <1>3, <1>4

LEMMA BsTablesKept ==
    ASSUME BsKept, NEW c \in BsCalls,
           BsStart(c) \/ BsConnect(c) \/ BsRead(c) \/ BsDrop(c) \/ BsCreate(c) \/ BsClose(c)
    PROVE  BsKept'
<1>0. /\ bsSpelt' \in [BsTables -> (DOMAIN BsLower) \cup {"none"}]
      /\ bsSchemas' \subseteq DOMAIN BsLower
  BY BsCatalogKept
<1>1. BsSorted(bsCall[c]) /\ BsPlanKnown(bsCall[c].todo)
  BY DEF BsKept, BsSorted
<1>2. UNCHANGED <<bsFile, bsAnswer>>
  BY DEF BsStart, BsConnect, BsRead, BsDrop, BsCreate, BsClose
<1>3. bsTable \in [BsTables -> SUBSET BsAllColumns] /\ bsTorn \subseteq BsTables
  BY DEF BsKept
<1>4. ASSUME NEW t PROVE BsPlanKnown(BsRest(bsCall[c].todo, t))
  BY <1>1 DEF BsRest, BsPlanKnown
<1>5. CASE BsStart(c)
  <2>1. PICK todo \in BsPlans :
            bsCall' = [bsCall EXCEPT ![c] =
                          IF DOMAIN todo = {} THEN BsIdle ELSE BsCallAt("planned", todo)]
    BY <1>5, Zenon DEF BsStart
  <2>2. PICK r : r = IF DOMAIN todo = {} THEN BsIdle ELSE BsCallAt("planned", todo)
    OBVIOUS
  <2>3. bsCall' = [bsCall EXCEPT ![c] = r]
    BY <2>1, <2>2, Zenon
  <2>4. BsSorted(r) /\ r.pc \in {"idle", "planned"}
    BY <2>2, BsPlansKnown, BsIdleSorted, BsCallAtSorted
  <2>5. UNCHANGED <<bsTable, bsTorn>>
    BY <1>5 DEF BsStart
  <2>. QED BY <1>0, <1>2, <1>3, <2>3, <2>4, <2>5, BsMovedKept
<1>6. CASE BsConnect(c)
  <2>1. PICK r : r = IF bsFile = "free" THEN BsCallAt("tables", bsCall[c].todo) ELSE BsIdle
    OBVIOUS
  <2>2. bsCall' = [bsCall EXCEPT ![c] = r] /\ UNCHANGED <<bsTable, bsTorn>>
    BY <1>6, <2>1, Zenon DEF BsConnect
  <2>3. BsSorted(r) /\ (bsFile = "free" \/ r.pc = "idle")
    BY <1>1, <2>1, BsIdleSorted, BsCallAtSorted
  <2>. QED BY <1>0, <1>2, <1>3, <2>2, <2>3, BsMovedKept
<1>7. CASE BsRead(c)
  <2>0. PICK n \in DOMAIN bsCall[c].todo, found \in BOOLEAN : BsReads(c, n, found)
    BY <1>7, Zenon DEF BsRead
  <2>9. PICK t, merged : /\ t = BsKey(n)
                         /\ merged = BsMerge(bsCall[c].todo[n], IF found THEN bsTable[t] ELSE {})
    OBVIOUS
  <2>1. /\ bsCall' = [bsCall EXCEPT ![c] =
              [pc |-> "drop", todo |-> bsCall[c].todo, at |-> n,
               cols |-> IF merged = {} THEN BsPlaceholder ELSE merged]]
        /\ bsTorn' = bsTorn \cup {t} \/ bsTorn' = bsTorn
    BY <2>0, <2>9, Zenon DEF BsReads
  <2>2. bsCall[c].pc = "tables" /\ UNCHANGED bsTable
    BY <1>7 DEF BsRead
  <2>3. PICK cols : cols = IF merged = {} THEN BsPlaceholder ELSE merged
    OBVIOUS
  <2>4. PICK r : r = [pc |-> "drop", todo |-> bsCall[c].todo, at |-> n, cols |-> cols]
    OBVIOUS
  <2>5. bsCall' = [bsCall EXCEPT ![c] = r]
    BY <2>1, <2>3, <2>4, Zenon
  <2>6. n \in BsNames /\ t \in BsTables /\ cols \subseteq BsAllColumns
    <3>1. n \in BsNames /\ bsCall[c].todo[n] \subseteq BsAllColumns
      BY <1>1 DEF BsPlanKnown
    <3>2. t \in BsTables
      BY <2>9, <3>1, BsKeyed
    <3>3. bsTable[t] \subseteq BsAllColumns /\ BsPlaceholder \subseteq BsAllColumns
      BY <1>3, <3>2 DEF BsAllColumns
    <3>. QED BY <2>9, <2>3, <3>1, <3>2, <3>3 DEF BsMerge
  <2>7. BsSorted(r)
    BY <1>1, <2>4, <2>6 DEF BsSorted
  <2>8. bsTorn' \subseteq BsTables
    BY <1>3, <2>1, <2>6
  <2>. QED BY <1>0, <1>2, <1>3, <2>2, <2>5, <2>7, <2>8, BsMovedKept
<1>8. CASE BsDrop(c)
  <2>1. bsCall[c].pc = "drop" /\ bsCall[c].at \in BsNames /\ UNCHANGED bsTorn
    BY <1>1, <1>8 DEF BsDrop, BsSorted
  <2>2. CASE /\ bsTable' = [bsTable EXCEPT ![BsKey(bsCall[c].at)] = {}]
             /\ bsCall' = [bsCall EXCEPT ![c].pc = "create"]
    <3>1. PICK old : old = bsCall[c]
      OBVIOUS
    <3>2. PICK r : r = [old EXCEPT !.pc = "create"]
      OBVIOUS
    <3>3. bsCall' = [bsCall EXCEPT ![c] = r]
      BY <2>2, <3>1, <3>2, Zenon
    <3>4. BsSorted(r)
      BY <1>1, <2>1, <3>1, <3>2 DEF BsSorted
    <3>5. bsTable' \in [BsTables -> SUBSET BsAllColumns]
      BY <1>3, <2>2
    <3>. QED BY <1>0, <1>2, <1>3, <2>1, <3>3, <3>4, <3>5, BsMovedKept
  <2>3. CASE BsNextTable(c, bsCall[c].at) /\ UNCHANGED bsTable
    <3>1. PICK r : r = BsCallAt("tables", BsRest(bsCall[c].todo, bsCall[c].at))
      OBVIOUS
    <3>2. bsCall' = [bsCall EXCEPT ![c] = r]
      BY <2>3, <3>1, Zenon DEF BsNextTable
    <3>3. BsSorted(r)
      BY <1>4, <3>1, BsCallAtSorted
    <3>. QED BY <1>0, <1>2, <1>3, <2>1, <2>3, <3>2, <3>3, BsMovedKept
  <2>. QED BY <1>8, <2>2, <2>3 DEF BsDrop
<1>9. CASE BsCreate(c)
  <2>. DEFINE n == bsCall[c].at
              t == BsKey(n)
  <2>1. bsCall[c].pc = "create" /\ t \in BsTables /\ bsCall[c].cols \subseteq BsAllColumns
    BY <1>1, <1>9, BsKeyed DEF BsCreate, BsSorted
  <2>2. PICK r : r = BsCallAt("tables", BsRest(bsCall[c].todo, n))
    OBVIOUS
  <2>3. bsCall' = [bsCall EXCEPT ![c] = r]
    BY <1>9, <2>2, Zenon DEF BsCreate, BsNextTable
  <2>4. BsSorted(r)
    BY <1>4, <2>2, BsCallAtSorted
  <2>5. \/ bsTable' = [bsTable EXCEPT ![t] = bsCall[c].cols] /\ UNCHANGED bsTorn
        \/ bsTorn' = bsTorn \cup {t} /\ UNCHANGED bsTable
    BY <1>9 DEF BsCreate
  <2>6. bsTable' \in [BsTables -> SUBSET BsAllColumns] /\ bsTorn' \subseteq BsTables
    BY <1>3, <2>1, <2>5
  <2>. QED BY <1>0, <1>2, <2>1, <2>3, <2>4, <2>6, BsMovedKept
<1>10. CASE BsClose(c)
  <2>1. PICK r : r = BsIdle
    OBVIOUS
  <2>2. bsCall' = [bsCall EXCEPT ![c] = r] /\ UNCHANGED <<bsTable, bsTorn>>
    BY <1>10, <2>1, Zenon DEF BsClose
  <2>. QED BY <1>0, <1>2, <1>3, <2>1, <2>2, BsIdleSorted, BsMovedKept
<1>. QED BY <1>5, <1>6, <1>7, <1>8, <1>9, <1>10

\* The types of the bootstraps, for any calls, models and tables; dbt and the samples never
\* share the file with one (SourceTables).
THEOREM BsTypesHold == BsSpec => []BsTypeOK
<1>1. BsInit => BsKept
  <2>. SUFFICES ASSUME BsInit PROVE BsKept
    OBVIOUS
  <2>1. PICK r : r = BsIdle
    OBVIOUS
  <2>2. BsSorted(r) /\ r.pc = "idle"
    BY <2>1, BsIdleSorted
  <2>3. bsCall = [c \in BsCalls |-> r]
    BY <2>1, Zenon DEF BsInit
  <2>4. bsFile = "free" /\ bsAnswer = "none" /\ bsTorn = {}
        /\ bsTable \in [BsTables -> SUBSET BsAllColumns]
        /\ bsSpelt \in [BsTables -> (DOMAIN BsLower) \cup {"none"}]
        /\ bsSchemas \subseteq DOMAIN BsLower
    BY DEF BsInit
  <2>5. \A c \in BsCalls : BsSorted(bsCall[c])
    BY <2>2, <2>3
  <2>. QED BY <2>3, <2>4, <2>5 DEF BsKept
<1>2. BsKept /\ [BsNext]_bsVars => BsKept'
  <2>. SUFFICES ASSUME BsKept, [BsNext]_bsVars PROVE BsKept'
    OBVIOUS
  <2>0. ASSUME UNCHANGED bsCall PROVE BsOpen' = BsOpen
    BY <2>0 DEF BsOpen
  <2>1. ASSUME UNCHANGED <<bsCall, bsTable, bsSpelt, bsSchemas, bsTorn>>,
               bsFile' \in {"free", "sample", "dbt"}, bsFile' # "free" => BsOpen = {},
               bsAnswer' \in {"none", "rows", "warning", "error"}
        PROVE  BsKept'
    <3>1. \A c \in BsCalls : BsSorted(bsCall[c])'
      BY <2>1 DEF BsKept, BsSorted, BsPlanKnown
    <3>. QED BY <2>0, <2>1, <3>1 DEF BsKept
  <2>2. CASE BsInspect
    <3>1. bsAnswer' \in {"none", "rows", "warning", "error"}
      BY <2>2 DEF BsInspect
    <3>2. bsFile' = IF BsOpen = {} /\ bsFile = "free" THEN "sample" ELSE bsFile
      BY <2>2 DEF BsInspect
    <3>. QED BY <2>1, <2>2, <3>1, <3>2 DEF BsInspect, BsKept
  <2>3. CASE BsDbtRuns \/ BsRelease
    BY <2>1, <2>3 DEF BsDbtRuns, BsRelease, BsKept
  <2>4. CASE UNCHANGED bsVars
    BY <2>1, <2>4 DEF bsVars, BsKept
  <2>. QED BY <2>2, <2>3, <2>4, BsTablesKept DEF BsNext
<1>3. BsKept => BsTypeOK
  BY DEF BsKept, BsSorted, BsPlanKnown, BsTypeOK
<1>. QED BY <1>1, <1>2, <1>3, PTL DEF BsSpec

-----------------------------------------------------------------------------
(* Cockpit *)

\* What the file can hold: the results of the analyses and what a generation writes.
CkItems == CkCalls \cup {"generation"}

CkSteps == {"idle", "load", "asking", "put", "truncate", "write", "over"}

CkTyped ==
    /\ ckFile \in [is : {"missing", "torn", "whole"}, mtime : CkTimes, has : SUBSET CkItems]
    /\ ckCache \in [CkTimes -> [made : BOOLEAN, has : SUBSET CkItems]]
    /\ ckCall \in [CkCalls -> [pc : CkSteps, kind : {"early", "late"}, obj : CkTimes,
                               text : SUBSET CkItems]]
    /\ ckClock \in CkTimes
    /\ ckSeen \in [CkCalls -> [load : Nat, dump : Nat]]
    /\ ckWrites \in Nat
    /\ ckRaced \in BOOLEAN

\* A call that holds the object it will change.
CkLoaded(a) == ckCall[a].pc = "put" \/ (ckCall[a].pc = "asking" /\ ckCall[a].kind = "early")

\* No call has seen a version of the file that is not written yet.
CkPast == \A a \in CkCalls : ckSeen[a].load <= ckWrites /\ ckSeen[a].dump <= ckWrites

\* What is owed is in the file, in the cached object of the file's mtime, in the object of
\* a call that loaded this version and in the text of a call that dumped at this version.
CkNothingLost ==
    /\ ckOwed \subseteq ckFile.has
    /\ ckFile.is = "missing" => ckFile.has = {}
    /\ ckFile.is # "torn" /\ ckCache[ckFile.mtime].made
          => ckFile.has \subseteq ckCache[ckFile.mtime].has
    /\ \A a \in CkCalls :
          /\ CkLoaded(a) /\ ckSeen[a].load = ckWrites
                => ckFile.has \subseteq ckCache[ckCall[a].obj].has
          /\ ckCall[a].pc = "truncate" =>
                /\ a \in ckCall[a].text
                /\ ckSeen[a].dump = ckWrites => ckFile.has \subseteq ckCall[a].text
          /\ ckCall[a].pc = "write" =>
                /\ a \in ckCall[a].text
                /\ ckFile.is = "torn" /\ ckFile.has \subseteq ckCall[a].text

\* The file is written by one call at a time.
CkOneWriter ==
    \A a, b \in CkCalls : ckCall[a].pc = "write" /\ ckCall[b].pc = "write" => a = b

CkInv == CkTyped /\ CkPast /\ (~ckRaced => CkNothingLost /\ CkOneWriter)

LEMMA CkTypes == CkTyped /\ [CkNext]_ckVars => CkTyped'
<1>. SUFFICES ASSUME CkTyped, [CkNext]_ckVars PROVE CkTyped'
  OBVIOUS
<1>. USE DEF CkTyped, ckStore, ckFixVars
<1>0. 0 \in CkTimes
  BY CkAssumption DEF CkTimes
<1>1. ASSUME NEW a \in CkCalls, CkEarly(a) \/ CkLate(a) PROVE CkTyped'
  <2>1. PICK kind \in {"early", "late"}, pc \in CkSteps :
            ckCall' = [ckCall EXCEPT ![a] = [pc |-> pc, kind |-> kind, obj |-> 0, text |-> {}]]
    BY <1>1 DEF CkEarly, CkLate, CkBegin, CkSteps
  <2>. QED BY <1>0, <1>1, <2>1 DEF CkEarly, CkLate, CkBegin
<1>2. ASSUME NEW a \in CkCalls, CkRefuse(a) \/ CkAnswer(a) PROVE CkTyped'
  <2>1. PICK pc \in CkSteps : ckCall' = [ckCall EXCEPT ![a].pc = pc]
    BY <1>2 DEF CkRefuse, CkAnswer, CkGo, CkSteps
  <2>2. UNCHANGED <<ckFile, ckCache, ckClock, ckSeen, ckWrites, ckRaced>>
    BY <1>2 DEF CkRefuse, CkAnswer
  <2>. QED BY <2>1, <2>2
<1>3. ASSUME NEW a \in CkCalls, CkLoad(a) PROVE CkTyped'
  <2>1. CkParsed(ckFile) \in SUBSET CkItems /\ CkKey(ckFile) \in CkTimes
    BY DEF CkParsed, CkKey
  <2>. QED BY <1>3, <2>1 DEF CkLoad, CkSteps, CkKey
<1>4. ASSUME NEW a \in CkCalls, CkPut(a) PROVE CkTyped'
  <2>. DEFINE has == ckCache[ckCall[a].obj].has \cup {a}
  <2>1. has \in SUBSET CkItems
    BY DEF CkItems
  <2>2. /\ ckCache' = [ckCache EXCEPT ![ckCall[a].obj].has = has]
        /\ ckCall' = [ckCall EXCEPT ![a] = [pc |-> "truncate", kind |-> ckCall[a].kind,
                                            obj |-> ckCall[a].obj, text |-> has]]
        /\ ckRaced' = (ckRaced \/ (ckSeen[a].load # ckWrites /\ ~(ckFile.has \subseteq has)))
        /\ ckSeen' = [ckSeen EXCEPT ![a].dump = ckWrites]
        /\ UNCHANGED <<ckFile, ckClock, ckWrites>>
    BY <1>4 DEF CkPut
  <2>. HIDE DEF has
  <2>3. ckCache' \in [CkTimes -> [made : BOOLEAN, has : SUBSET CkItems]]
    BY <2>1, <2>2
  <2>4. ckCall' \in [CkCalls -> [pc : CkSteps, kind : {"early", "late"}, obj : CkTimes,
                                text : SUBSET CkItems]]
    BY <2>1, <2>2 DEF CkSteps
  <2>5. ckSeen' \in [CkCalls -> [load : Nat, dump : Nat]] /\ ckRaced' \in BOOLEAN
    BY <2>2
  <2>. QED BY <2>2, <2>3, <2>4, <2>5
<1>5. ASSUME NEW a \in CkCalls, CkTruncate(a) PROVE CkTyped'
  BY <1>5 DEF CkTruncate, CkGo, CkSteps
<1>6. ASSUME NEW a \in CkCalls, CkWrite(a) PROVE CkTyped'
  <2>1. ckFile' = [is |-> "whole", mtime |-> ckClock, has |-> ckCall[a].text]
        /\ ckCall' = [ckCall EXCEPT ![a].pc = "over"]
    BY <1>6 DEF CkWrite, CkGo
  <2>2. ckFile' \in [is : {"missing", "torn", "whole"}, mtime : CkTimes, has : SUBSET CkItems]
    BY <2>1
  <2>3. ckCall' \in [CkCalls -> [pc : CkSteps, kind : {"early", "late"}, obj : CkTimes,
                                text : SUBSET CkItems]]
    BY <2>1 DEF CkSteps
  <2>4. ckRaced' \in BOOLEAN /\ ckWrites' \in Nat
    BY <1>6 DEF CkWrite
  <2>. QED BY <1>6, <2>2, <2>3, <2>4 DEF CkWrite
<1>7. CASE CkGenerate
  BY <1>7 DEF CkGenerate, CkItems
<1>8. CASE CkTick
  <2>1. ckClock' \in CkTimes
    BY <1>8, CkAssumption DEF CkTick, CkTimes
  <2>. QED BY <1>8, <2>1 DEF CkTick
<1>9. ASSUME NEW x \in CkFixes, CkFixTmp(x) \/ CkFixApprove(x) \/ CkFixUnlink(x) \/ CkFixFails(x)
      PROVE  CkTyped'
  BY <1>9 DEF CkFixTmp, CkFixApprove, CkFixUnlink, CkFixFails, CkFixStep
<1>10. CASE UNCHANGED ckVars
  BY <1>10 DEF ckVars
<1>. QED BY <1>1, <1>2, <1>3, <1>4, <1>5, <1>6, <1>7, <1>8, <1>9, <1>10 DEF CkNext

LEMMA CkPastStep == CkTyped /\ CkPast /\ [CkNext]_ckVars => CkPast'
<1>. SUFFICES ASSUME CkTyped, CkPast, [CkNext]_ckVars PROVE CkPast'
  OBVIOUS
<1>. USE DEF CkPast, ckStore, ckFixVars
<1>1. ckWrites \in Nat /\ ckSeen \in [CkCalls -> [load : Nat, dump : Nat]]
  BY DEF CkTyped
<1>2. CASE UNCHANGED ckSeen /\ ckWrites' \in {ckWrites, ckWrites + 1}
  BY <1>1, <1>2
<1>3. ASSUME NEW a \in CkCalls, CkLoad(a) \/ CkPut(a) PROVE CkPast'
  <2>1. /\ \/ ckSeen' = [ckSeen EXCEPT ![a].load = ckWrites]
           \/ ckSeen' = [ckSeen EXCEPT ![a].dump = ckWrites]
        /\ UNCHANGED ckWrites
    BY <1>3 DEF CkLoad, CkPut
  <2>. QED BY <1>1, <2>1
<1>4. ASSUME ~ \E a \in CkCalls : CkLoad(a) \/ CkPut(a)
      PROVE  UNCHANGED ckSeen /\ ckWrites' \in {ckWrites, ckWrites + 1}
  BY <1>4 DEF CkNext, ckVars, CkEarly, CkLate, CkBegin, CkRefuse, CkAnswer, CkTruncate, CkWrite, CkGenerate,
              CkTick, CkFixTmp, CkFixApprove, CkFixUnlink, CkFixFails, CkFixStep
<1>. QED BY <1>2, <1>3, <1>4

\* A call loads the file through the cache.
LEMMA CkLoadStep ==
    ASSUME CkInv, NEW a \in CkCalls, CkLoad(a), ~ckRaced'
    PROVE  CkNothingLost' /\ CkOneWriter'
<1>1. /\ CkTyped /\ ckCall[a].pc = "load" /\ ckFile.is # "torn" /\ CkNothingLost /\ CkOneWriter
      /\ UNCHANGED <<ckFile, ckOwed, ckWrites>>
  <2>1. ~ckRaced /\ ckFile.is # "torn"
    BY DEF CkLoad, CkInv, CkTyped
  <2>. QED BY <2>1 DEF CkLoad, CkInv
<1>. DEFINE key == ckFile.mtime
<1>2. /\ key \in CkTimes
      /\ ckCache' = IF ckCache[key].made THEN ckCache
                    ELSE [ckCache EXCEPT ![key] = [made |-> TRUE, has |-> CkParsed(ckFile)]]
      /\ ckCall' = [ckCall EXCEPT
                       ![a].obj = key,
                       ![a].pc = IF ckCall[a].kind = "early" THEN "asking" ELSE "put"]
      /\ ckSeen' = [ckSeen EXCEPT ![a].load = ckWrites]
  BY <1>1 DEF CkLoad, CkKey, CkTyped
<1>3. CkParsed(ckFile) = ckFile.has
  BY <1>1 DEF CkParsed, CkTyped, CkNothingLost
<1>4. /\ ckFile.has \subseteq ckCache'[key].has
      /\ \A t \in CkTimes : ckFile.has \subseteq ckCache[t].has
                              => ckFile.has \subseteq ckCache'[t].has
  <2>1. CASE ckCache[key].made
    BY <1>1, <1>2, <2>1 DEF CkNothingLost
  <2>2. CASE ~ckCache[key].made
    BY <1>1, <1>2, <1>3, <2>2 DEF CkTyped
  <2>. QED BY <2>1, <2>2
<1>5. /\ ckCall'[a].pc \in {"asking", "put"} /\ ckCall'[a].obj = key
      /\ \A b \in CkCalls \ {a} : ckCall'[b] = ckCall[b] /\ ckSeen'[b] = ckSeen[b]
  BY <1>1, <1>2 DEF CkTyped, CkSteps
<1>6. \A b \in CkCalls \ {a} : ckCall[b].obj \in CkTimes
  BY <1>1 DEF CkTyped
<1>7. CkOneWriter'
  BY <1>1, <1>5 DEF CkOneWriter
<1>8. ASSUME NEW b \in CkCalls
      PROVE  /\ CkLoaded(b)' /\ ckSeen'[b].load = ckWrites'
                   => ckFile'.has \subseteq ckCache'[ckCall'[b].obj].has
             /\ ckCall'[b].pc = "truncate" =>
                   /\ b \in ckCall'[b].text
                   /\ ckSeen'[b].dump = ckWrites' => ckFile'.has \subseteq ckCall'[b].text
             /\ ckCall'[b].pc = "write" =>
                   /\ b \in ckCall'[b].text
                   /\ ckFile'.is = "torn" /\ ckFile'.has \subseteq ckCall'[b].text
  <2>1. CASE b = a
    BY <1>1, <1>4, <1>5, <2>1
  <2>2. CASE b # a
    BY <1>1, <1>4, <1>5, <1>6, <2>2 DEF CkNothingLost, CkLoaded
  <2>. QED BY <2>1, <2>2
<1>9. CkNothingLost'
  BY <1>1, <1>4, <1>8 DEF CkNothingLost
<1>. QED BY <1>7, <1>9

\* A call puts its result into the object it loaded, and dumps the object.
LEMMA CkPutStep ==
    ASSUME CkInv, NEW a \in CkCalls, CkPut(a), ~ckRaced'
    PROVE  CkNothingLost' /\ CkOneWriter'
<1>. DEFINE has == ckCache[ckCall[a].obj].has \cup {a}
<1>1. /\ CkTyped /\ ckCall[a].pc = "put" /\ CkNothingLost /\ CkOneWriter
      /\ UNCHANGED <<ckFile, ckOwed, ckWrites>>
      /\ ckSeen[a].load # ckWrites => ckFile.has \subseteq has
  <2>1. ~ckRaced /\ (ckSeen[a].load # ckWrites => ckFile.has \subseteq has)
    BY DEF CkPut, CkInv, CkTyped
  <2>. QED BY <2>1 DEF CkPut, CkInv
<1>2. /\ ckCache' = [ckCache EXCEPT ![ckCall[a].obj].has = has]
      /\ ckCall' = [ckCall EXCEPT ![a] = [pc |-> "truncate", kind |-> ckCall[a].kind,
                                          obj |-> ckCall[a].obj, text |-> has]]
      /\ ckSeen' = [ckSeen EXCEPT ![a].dump = ckWrites]
  BY DEF CkPut
<1>3. ckFile.has \subseteq has /\ a \in has /\ has \in SUBSET CkItems
  BY <1>1 DEF CkNothingLost, CkLoaded, CkTyped, CkItems
<1>4. \A t \in CkTimes : /\ ckCache'[t].made = ckCache[t].made
                         /\ ckCache[t].has \subseteq ckCache'[t].has
  BY <1>1, <1>2, <1>3 DEF CkTyped
<1>5. /\ ckCall'[a].pc = "truncate" /\ ckCall'[a].text = has
      /\ \A b \in CkCalls \ {a} : ckCall'[b] = ckCall[b] /\ ckSeen'[b] = ckSeen[b]
  BY <1>1, <1>2 DEF CkTyped
<1>. HIDE DEF has
<1>6. ckFile.mtime \in CkTimes /\ \A b \in CkCalls : ckCall[b].obj \in CkTimes
  BY <1>1 DEF CkTyped
<1>7. CkOneWriter'
  BY <1>1, <1>5 DEF CkOneWriter
<1>8. ASSUME NEW b \in CkCalls
      PROVE  /\ CkLoaded(b)' /\ ckSeen'[b].load = ckWrites'
                   => ckFile'.has \subseteq ckCache'[ckCall'[b].obj].has
             /\ ckCall'[b].pc = "truncate" =>
                   /\ b \in ckCall'[b].text
                   /\ ckSeen'[b].dump = ckWrites' => ckFile'.has \subseteq ckCall'[b].text
             /\ ckCall'[b].pc = "write" =>
                   /\ b \in ckCall'[b].text
                   /\ ckFile'.is = "torn" /\ ckFile'.has \subseteq ckCall'[b].text
  <2>1. CASE b = a
    BY <1>1, <1>3, <1>5, <2>1 DEF CkLoaded
  <2>2. CASE b # a
    BY <1>1, <1>4, <1>5, <1>6, <2>2 DEF CkNothingLost, CkLoaded
  <2>. QED BY <2>1, <2>2
<1>9. CkNothingLost'
  BY <1>1, <1>4, <1>6, <1>8 DEF CkNothingLost
<1>. QED BY <1>7, <1>9

\* A call empties the file, and fills it.
LEMMA CkTruncateStep ==
    ASSUME CkInv, NEW a \in CkCalls, CkTruncate(a), ~ckRaced'
    PROVE  CkNothingLost' /\ CkOneWriter'
<1>1. /\ CkTyped /\ ckCall[a].pc = "truncate" /\ CkNothingLost /\ CkOneWriter
      /\ UNCHANGED <<ckCache, ckOwed, ckWrites, ckSeen>>
      /\ ckFile.is # "torn" /\ ckSeen[a].dump = ckWrites
  <2>1. ~ckRaced /\ ckFile.is # "torn" /\ ckSeen[a].dump = ckWrites
    BY DEF CkTruncate, CkInv, CkTyped
  <2>. QED BY <2>1 DEF CkTruncate, CkInv
<1>2. /\ ckFile'.is = "torn" /\ ckFile'.has = ckFile.has
      /\ ckCall' = [ckCall EXCEPT ![a].pc = "write"]
  BY <1>1 DEF CkTruncate, CkGo, CkTyped
<1>3. /\ ckCall'[a].pc = "write" /\ ckCall'[a].text = ckCall[a].text
      /\ \A b \in CkCalls \ {a} : ckCall'[b] = ckCall[b]
  BY <1>1, <1>2 DEF CkTyped, CkSteps
<1>4. \A b \in CkCalls : ckCall[b].pc # "write"
  BY <1>1 DEF CkNothingLost
<1>5. CkOneWriter'
  BY <1>3, <1>4 DEF CkOneWriter
<1>6. CkNothingLost'
  BY <1>1, <1>2, <1>3, <1>4 DEF CkNothingLost, CkLoaded
<1>. QED BY <1>5, <1>6

LEMMA CkWriteStep ==
    ASSUME CkInv, NEW a \in CkCalls, CkWrite(a), ~ckRaced'
    PROVE  CkNothingLost' /\ CkOneWriter'
<1>1. /\ CkTyped /\ CkPast /\ ckCall[a].pc = "write" /\ CkNothingLost /\ CkOneWriter
      /\ UNCHANGED <<ckCache, ckSeen>> /\ ~ckCache[ckClock].made
  <2>1. ~ckRaced /\ ~ckCache[ckClock].made
    BY DEF CkWrite, CkInv, CkTyped
  <2>. QED BY <2>1 DEF CkWrite, CkInv
<1>2. /\ ckFile' = [is |-> "whole", mtime |-> ckClock, has |-> ckCall[a].text]
      /\ ckCall' = [ckCall EXCEPT ![a].pc = "over"]
      /\ ckWrites' = ckWrites + 1 /\ ckOwed' = ckOwed \cup {a}
  BY DEF CkWrite, CkGo
<1>3. ckFile'.is = "whole" /\ ckFile'.mtime = ckClock /\ ckFile'.has = ckCall[a].text
  BY <1>2
<1>4. /\ ckCall'[a].pc = "over" /\ \A b \in CkCalls \ {a} : ckCall'[b] = ckCall[b]
  BY <1>1, <1>2 DEF CkTyped, CkSteps
<1>5. \A b \in CkCalls \ {a} : ckCall[b].pc # "write"
  BY <1>1 DEF CkOneWriter
<1>6. ckOwed' \subseteq ckFile'.has
  BY <1>1, <1>2, <1>3 DEF CkNothingLost
<1>7. \A b \in CkCalls : ckSeen[b].load # ckWrites' /\ ckSeen[b].dump # ckWrites'
  <2>1. ckWrites \in Nat /\ ckSeen \in [CkCalls -> [load : Nat, dump : Nat]]
    BY <1>1 DEF CkTyped
  <2>. QED BY <1>1, <1>2, <2>1 DEF CkPast
<1>8. CkOneWriter'
  BY <1>4, <1>5 DEF CkOneWriter
<1>9. CkNothingLost'
  BY <1>1, <1>3, <1>4, <1>5, <1>6, <1>7 DEF CkNothingLost
<1>. QED BY <1>8, <1>9

LEMMA CkGenerateStep == CkInv /\ CkGenerate /\ ~ckRaced' => CkNothingLost' /\ CkOneWriter'
<1>. SUFFICES ASSUME CkInv, CkGenerate, ~ckRaced' PROVE CkNothingLost' /\ CkOneWriter'
  OBVIOUS
<1>1. /\ CkTyped /\ CkPast /\ UNCHANGED <<ckCache, ckCall, ckSeen>> /\ ~ckCache[ckClock].made
      /\ \A a \in CkCalls : ckCall[a].pc \notin {"truncate", "write"}
  BY DEF CkGenerate, CkInv, CkTyped
<1>2. /\ ckFile' = [is |-> "whole", mtime |-> ckClock, has |-> {"generation"}]
      /\ ckWrites' = ckWrites + 1 /\ ckOwed' = {"generation"}
  BY DEF CkGenerate
<1>3. ckFile'.is = "whole" /\ ckFile'.mtime = ckClock /\ ckFile'.has = {"generation"}
  BY <1>2
<1>4. \A b \in CkCalls : ckSeen[b].load # ckWrites'
  <2>1. ckWrites \in Nat /\ ckSeen \in [CkCalls -> [load : Nat, dump : Nat]]
    BY <1>1 DEF CkTyped
  <2>. QED BY <1>1, <1>2, <2>1 DEF CkPast
<1>. QED BY <1>1, <1>2, <1>3, <1>4 DEF CkNothingLost, CkOneWriter

LEMMA CkStep == CkInv /\ [CkNext]_ckVars => CkInv'
<1>. SUFFICES ASSUME CkInv, [CkNext]_ckVars PROVE CkInv'
  OBVIOUS
<1>1. CkTyped' /\ CkPast'
  BY CkTypes, CkPastStep DEF CkInv
<1>. SUFFICES ASSUME ~ckRaced' PROVE CkNothingLost' /\ CkOneWriter'
  BY <1>1 DEF CkInv
<1>. USE DEF ckStore, ckFixVars
<1>2. CASE CkTick \/ \E x \in CkFixes : CkFixTmp(x) \/ CkFixApprove(x) \/ CkFixUnlink(x)
                                         \/ CkFixFails(x)
  <2>1. UNCHANGED <<ckFile, ckCache, ckCall, ckSeen, ckWrites, ckRaced, ckOwed>>
    BY <1>2 DEF CkTick, CkFixTmp, CkFixApprove, CkFixUnlink, CkFixFails, CkFixStep
  <2>. QED BY <2>1 DEF CkInv, CkNothingLost, CkOneWriter, CkLoaded
<1>3. CASE UNCHANGED ckVars
  BY <1>3 DEF ckVars, CkInv, CkNothingLost, CkOneWriter, CkLoaded
<1>4. ASSUME NEW a \in CkCalls, CkEarly(a) \/ CkLate(a) \/ CkRefuse(a) \/ CkAnswer(a)
      PROVE  CkNothingLost' /\ CkOneWriter'
  <2>1. UNCHANGED <<ckFile, ckCache, ckSeen, ckWrites, ckRaced, ckOwed>>
    BY <1>4 DEF CkEarly, CkLate, CkBegin, CkRefuse, CkAnswer
  <2>2. /\ ckCall'[a].pc \notin {"truncate", "write"}
        /\ CkLoaded(a)' => CkLoaded(a) /\ ckCall'[a].obj = ckCall[a].obj
        /\ \A b \in CkCalls \ {a} : ckCall'[b] = ckCall[b]
    BY <1>4 DEF CkInv, CkTyped, CkEarly, CkLate, CkBegin, CkRefuse, CkAnswer, CkGo, CkLoaded, CkSteps
  <2>. QED BY <2>1, <2>2 DEF CkInv, CkNothingLost, CkOneWriter, CkLoaded
<1>. QED BY <1>2, <1>3, <1>4, CkLoadStep, CkPutStep, CkTruncateStep, CkWriteStep,
            CkGenerateStep DEF CkNext

LEMMA CkInitInv == CkInit => CkInv
<1>. SUFFICES ASSUME CkInit PROVE CkInv
  OBVIOUS
<1>1. 0 \in CkTimes /\ 1 \in CkTimes
  BY CkAssumption DEF CkTimes
<1>2. CkTyped
  BY <1>1 DEF CkInit, CkTyped, CkNoObject, CkIdle, CkSteps
<1>. QED BY <1>2 DEF CkInit, CkInv, CkPast, CkNothingLost, CkOneWriter, CkNoObject, CkIdle,
                     CkLoaded

\* For any number of analyses, fixes, generations and ticks: what was saved since the last
\* generation is in a file that is not being written, unless writes raced in the ways the
\* history notes.
THEOREM CkKeptHolds == CkSpec => []CkKept
<1>1. CkInv => CkKept
  BY DEF CkInv, CkNothingLost, CkKept
<1>. QED BY <1>1, CkInitInv, CkStep, PTL DEF CkSpec

\* The types of the cockpit's insights and fixes, for any analyses and fixes (Cockpit).
THEOREM CkTypesHold == CkSpec => []CkTypeOK
<1>. DEFINE Fixed == ckTmp \in CkFixes \cup {"none"} /\ ckModel \in CkFixes \cup {"none"}
<1>1. CkInit => Fixed
  BY DEF CkInit
<1>2. Fixed /\ [CkNext]_ckVars => Fixed'
  <2>. SUFFICES ASSUME Fixed, [CkNext]_ckVars PROVE Fixed'
    OBVIOUS
  <2>1. ASSUME NEW a \in CkCalls,
               CkEarly(a) \/ CkLate(a) \/ CkRefuse(a) \/ CkLoad(a) \/ CkAnswer(a)
                  \/ CkPut(a) \/ CkTruncate(a) \/ CkWrite(a)
        PROVE  UNCHANGED ckFixVars
    BY <2>1 DEF CkEarly, CkLate, CkBegin, CkRefuse, CkLoad, CkAnswer, CkPut, CkTruncate, CkWrite
  <2>2. ASSUME NEW x \in CkFixes, CkFixTmp(x) \/ CkFixApprove(x) \/ CkFixUnlink(x) \/ CkFixFails(x)
        PROVE  Fixed'
    BY <2>2 DEF CkFixTmp, CkFixApprove, CkFixUnlink, CkFixFails
  <2>3. CASE CkGenerate \/ CkTick
    BY <2>3 DEF CkGenerate, CkTick, ckFixVars
  <2>4. CASE UNCHANGED ckVars
    BY <2>4 DEF ckVars
  <2>5. UNCHANGED ckFixVars => Fixed'
    BY DEF ckFixVars
  <2>. QED BY <2>1, <2>2, <2>3, <2>4, <2>5 DEF CkNext
<1>3. CkInv /\ Fixed => CkTypeOK
  BY DEF CkInv, CkTyped, CkItems, CkSteps, CkTypeOK
<1>. QED BY <1>1, <1>2, <1>3, CkInitInv, CkStep, PTL DEF CkSpec

-----------------------------------------------------------------------------
(* LiveJobs *)

LvSteps == {"idle", "acquire", "validate", "extract", "ddl", "manifest", "logs", "check",
            "build", "ended", "raised"}

LvRecords ==
    [status : {"none", "queued", "running", "success", "partial", "failure"},
     pc : LvSteps, verdict : {"success", "partial"}, build : BOOLEAN, anchor : BOOLEAN,
     read : SUBSET (LvJobs \cup {LvNobody}), saved : LvJobs \cup {"process"},
     report : SUBSET (LvJobs \cup {LvNobody})]

LvTyped ==
    /\ lvJob \in [LvJobs -> LvRecords]
    /\ lvDir \in [LvArtifacts -> LvJobs \cup {LvNobody}]
    /\ lvStdout \in LvJobs \cup {"process"}
    /\ lvAlone \subseteq LvJobs

\* A job nobody has started is idle, and an unfinished one is not shown as finished.
LvShown ==
    \A j \in LvJobs :
       /\ lvJob[j].status = "none" <=> lvJob[j].pc = "idle"
       /\ lvJob[j].status \in {"success", "partial"} => lvJob[j].pc = "ended"
       /\ lvJob[j].pc # "ended" => lvJob[j].report = {}

\* A job that has the directory to itself is the only one in it, finds what it has written
\* so far, and reads and reports nothing else.
LvOwn ==
    \A j \in lvAlone :
       /\ lvJob[j].pc \notin {"idle", "acquire", "validate", "extract"}
       /\ LvInDir(j) => \A k \in LvJobs \ {j} : ~LvInDir(k)
       /\ lvJob[j].pc \in {"manifest", "logs"} => lvDir["ddl"] = j
       /\ lvJob[j].pc = "logs" => lvDir["manifest"] = j
       /\ lvJob[j].pc = "check" /\ lvJob[j].verdict = "success"
             => \A a \in LvArtifacts : lvDir[a] = j
       /\ lvJob[j].pc = "build" /\ lvJob[j].verdict = "success" => lvJob[j].read \subseteq {j}
       /\ lvJob[j].pc = "ended" /\ lvJob[j].status = "success" => lvJob[j].report \subseteq {j}

LvInv == LvTyped /\ LvShown /\ LvOwn

LEMMA LvStarted ==
    ASSUME NEW b \in BOOLEAN, NEW r, r = [LvNone EXCEPT !.status = "queued", !.pc = "acquire", !.build = b]
    PROVE  /\ r \in LvRecords
           /\ r.status = "queued" /\ r.pc = "acquire" /\ r.report = {}
BY DEF LvNone, LvRecords, LvSteps

LEMMA LvUpdated ==
    ASSUME LvTyped, NEW j \in LvJobs, NEW r \in LvRecords, LvSet(j, r)
    PROVE  /\ lvJob' \in [LvJobs -> LvRecords]
           /\ lvJob'[j] = r
           /\ \A k \in LvJobs \ {j} : lvJob'[k] = lvJob[k]
BY DEF LvTyped, LvSet

\* What a step of job j has to keep when it leaves the directory and the history alone.
LEMMA LvOwnStep ==
    ASSUME LvInv, NEW j \in LvJobs, NEW r \in LvRecords, LvSet(j, r), UNCHANGED <<lvDir, lvAlone>>,
           r.status = "none" <=> r.pc = "idle",
           r.status \in {"success", "partial"} => r.pc = "ended",
           r.pc # "ended" => r.report = {},
           j \in lvAlone =>
              /\ r.pc \in {"check", "build", "ended"}
              /\ r.pc # "ended" => LvInDir(j)
              /\ r.pc = "check" /\ r.verdict = "success" => \A a \in LvArtifacts : lvDir[a] = j
              /\ r.pc = "build" /\ r.verdict = "success" => r.read \subseteq {j}
              /\ r.pc = "ended" /\ r.status = "success" => r.report \subseteq {j},
           j \notin lvAlone /\ r.pc \in LvArtifacts \cup {"check", "build"} => LvInDir(j)
    PROVE  LvShown' /\ LvOwn'
<1>1. /\ lvJob'[j] = r /\ \A k \in LvJobs \ {j} : lvJob'[k] = lvJob[k]
  BY LvUpdated DEF LvInv
<1>2. \A k \in LvJobs : LvInDir(k)' => LvInDir(k)
  BY <1>1 DEF LvInDir, LvArtifacts
<1>3. LvShown'
  BY <1>1 DEF LvShown, LvInv
<1>4. ASSUME NEW k \in lvAlone'
      PROVE  /\ lvJob'[k].pc \notin {"idle", "acquire", "validate", "extract"}
             /\ LvInDir(k)' => \A l \in LvJobs \ {k} : ~LvInDir(l)'
             /\ lvJob'[k].pc \in {"manifest", "logs"} => lvDir'["ddl"] = k
             /\ lvJob'[k].pc = "logs" => lvDir'["manifest"] = k
             /\ lvJob'[k].pc = "check" /\ lvJob'[k].verdict = "success"
                   => \A a \in LvArtifacts : lvDir'[a] = k
             /\ lvJob'[k].pc = "build" /\ lvJob'[k].verdict = "success"
                   => lvJob'[k].read \subseteq {k}
             /\ lvJob'[k].pc = "ended" /\ lvJob'[k].status = "success"
                   => lvJob'[k].report \subseteq {k}
  <2>1. k \in lvAlone /\ k \in LvJobs
    BY DEF LvInv, LvTyped
  <2>2. LvInDir(k)' => \A l \in LvJobs \ {k} : ~LvInDir(l)'
    BY <1>2, <2>1 DEF LvInv, LvOwn
  <2>3. CASE k = j
    BY <1>1, <2>1, <2>2, <2>3
  <2>4. CASE k # j
    BY <1>1, <2>1, <2>2, <2>4 DEF LvInv, LvOwn
  <2>. QED BY <2>3, <2>4
<1>. QED BY <1>3, <1>4 DEF LvOwn

\* Jobs start, wait, validate and end without a file in the directory.
LEMMA LvOutsideStep ==
    ASSUME LvInv, NEW j \in LvJobs, LvStart(j) \/ LvAcquire(j) \/ LvValidate(j)
    PROVE  LvInv'
<1>. USE DEF LvInv
<1>1. lvJob[j] \in LvRecords
  BY DEF LvTyped
<1>2. UNCHANGED <<lvDir, lvStdout, lvAlone>>
  BY DEF LvStart, LvAcquire, LvValidate
<1>3. PICK r \in LvRecords :
          /\ LvSet(j, r)
          /\ r.status = "none" <=> r.pc = "idle"
          /\ r.status \in {"success", "partial"} => r.pc = "ended"
          /\ r.pc # "ended" => r.report = {}
          /\ r.pc \in {"acquire", "validate", "extract", "ended", "raised"}
  <2>1. CASE LvStart(j)
    <3>0. PICK b \in BOOLEAN :
              LvSet(j, [LvNone EXCEPT !.status = "queued", !.pc = "acquire", !.build = b])
      BY <2>1, Zenon DEF LvStart
    <3>a. PICK r : r = [LvNone EXCEPT !.status = "queued", !.pc = "acquire", !.build = b]
      BY Zenon
    <3>1. LvSet(j, r)
      BY <3>0, <3>a, Zenon
    <3>2. r \in LvRecords /\ r.status = "queued" /\ r.pc = "acquire" /\ r.report = {}
      BY <3>a, LvStarted
    <3>. QED BY <3>1, <3>2
  <2>2. CASE LvAcquire(j)
    <3>1. PICK r : LvSet(j, r) /\ r = [lvJob[j] EXCEPT !.status = "running", !.pc = "validate"]
      BY <2>2, Zenon DEF LvAcquire
    <3>2. /\ r \in LvRecords /\ r.status = "running" /\ r.pc = "validate"
          /\ r.report = lvJob[j].report
      BY <1>1, <3>1 DEF LvRecords, LvSteps
    <3>. QED BY <2>2, <3>1, <3>2 DEF LvAcquire, LvShown
  <2>3. CASE LvValidate(j)
    <3>1. CASE LvSet(j, [lvJob[j] EXCEPT !.pc = "extract"])
      <4>1. PICK r : LvSet(j, r) /\ r = [lvJob[j] EXCEPT !.pc = "extract"]
        BY <3>1, Zenon
      <4>2. /\ r \in LvRecords /\ r.status = lvJob[j].status /\ r.pc = "extract"
            /\ r.report = lvJob[j].report
        BY <1>1, <4>1 DEF LvRecords, LvSteps
      <4>. QED BY <2>3, <4>1, <4>2 DEF LvValidate, LvShown
    <3>2. CASE LvSet(j, [lvJob[j] EXCEPT !.pc = "raised"])
      <4>1. PICK r : LvSet(j, r) /\ r = [lvJob[j] EXCEPT !.pc = "raised"]
        BY <3>2, Zenon
      <4>2. /\ r \in LvRecords /\ r.status = lvJob[j].status /\ r.pc = "raised"
            /\ r.report = lvJob[j].report
        BY <1>1, <4>1 DEF LvRecords, LvSteps
      <4>. QED BY <2>3, <4>1, <4>2 DEF LvValidate, LvShown
    <3>3. ASSUME NEW status \in {"failure"}, LvEnd(j, status)
          PROVE  \E r \in LvRecords :
                    /\ LvSet(j, r)
                    /\ r.status = "none" <=> r.pc = "idle"
                    /\ r.status \in {"success", "partial"} => r.pc = "ended"
                    /\ r.pc # "ended" => r.report = {}
                    /\ r.pc \in {"acquire", "validate", "extract", "ended", "raised"}
      <4>1. PICK r : LvSet(j, r) /\ r = [lvJob[j] EXCEPT !.status = status, !.pc = "ended"]
        BY <3>3, Zenon DEF LvEnd
      <4>2. r \in LvRecords /\ r.status = status /\ r.pc = "ended"
        BY <1>1, <4>1 DEF LvRecords, LvSteps
      <4>3. status # "none"
        BY <2>3 DEF LvValidate, LvShown
      <4>. QED BY <4>1, <4>2, <4>3
    <3>. QED BY <2>3, <3>1, <3>2, <3>3 DEF LvValidate
  <2>. QED BY <2>1, <2>2, <2>3
<1>4. j \notin lvAlone
  BY DEF LvStart, LvAcquire, LvValidate, LvOwn, LvShown
<1>5. LvShown' /\ LvOwn'
  BY <1>2, <1>3, <1>4, LvOwnStep DEF LvArtifacts
<1>6. LvTyped'
  BY <1>2, <1>3, LvUpdated DEF LvTyped
<1>. QED BY <1>5, <1>6

\* Every way out of the worker leaves a finished job.
LEMMA LvEnded ==
    ASSUME LvTyped, NEW j \in LvJobs,
           NEW status \in {"queued", "running", "success", "partial", "failure"}, LvEnd(j, status)
    PROVE  \E r \in LvRecords : /\ LvSet(j, r)
                                /\ r.status = status /\ r.pc = "ended"
                                /\ r.report = lvJob[j].report
<1>1. PICK r : LvSet(j, r) /\ r = [lvJob[j] EXCEPT !.status = status, !.pc = "ended"]
  BY Zenon DEF LvEnd
<1>2. lvJob[j] \in LvRecords
  BY DEF LvTyped
<1>3. r \in LvRecords /\ r.status = status /\ r.pc = "ended" /\ r.report = lvJob[j].report
  BY <1>1, <1>2 DEF LvRecords, LvSteps
<1>. QED BY <1>1, <1>3

\* A job enters the directory: it has it to itself, or nobody in there has any more.
LEMMA LvEnterStep ==
    ASSUME LvInv, NEW j \in LvJobs, LvExtract(j)
    PROVE  LvInv'
<1>. USE DEF LvInv
<1>0. /\ lvJob[j] \in LvRecords /\ lvJob[j].pc = "extract" /\ UNCHANGED <<lvDir, lvStdout>>
      /\ j \notin lvAlone /\ lvJob[j].status \notin {"none", "success", "partial"}
      /\ lvJob[j].report = {}
  BY DEF LvTyped, LvExtract, LvOwn, LvShown
<1>1. CASE LvEnd(j, "failure") /\ UNCHANGED lvAlone
  <2>1. PICK r \in LvRecords : LvSet(j, r) /\ r.status = "failure" /\ r.pc = "ended"
    BY <1>1, LvEnded
  <2>2. LvShown' /\ LvOwn'
    BY <1>0, <1>1, <2>1, LvOwnStep DEF LvArtifacts
  <2>3. LvTyped'
    BY <1>0, <1>1, <2>1, LvUpdated DEF LvTyped
  <2>. QED BY <2>2, <2>3
<1>2. ASSUME NEW v \in {"success", "partial"}, LvSet(j, [lvJob[j] EXCEPT !.pc = "ddl", !.verdict = v]),
             lvAlone' = IF \E k \in LvJobs \ {j} : LvInDir(k)
                        THEN {k \in lvAlone : ~LvInDir(k)} ELSE lvAlone \cup {j}
      PROVE  LvInv'
  <2>1. PICK r : LvSet(j, r) /\ r = [lvJob[j] EXCEPT !.pc = "ddl", !.verdict = v]
    BY <1>2, Zenon
  <2>2. /\ r \in LvRecords /\ r.status = lvJob[j].status /\ r.pc = "ddl"
        /\ r.report = lvJob[j].report
    BY <1>0, <2>1 DEF LvRecords, LvSteps
  <2>3. /\ lvJob' \in [LvJobs -> LvRecords]
        /\ lvJob'[j] = r /\ \A k \in LvJobs \ {j} : lvJob'[k] = lvJob[k]
    BY <2>1, <2>2, LvUpdated
  <2>4. lvAlone' \subseteq LvJobs
    BY <1>2 DEF LvTyped
  <2>5. LvTyped' /\ LvShown'
    BY <1>0, <2>2, <2>3, <2>4 DEF LvTyped, LvShown
  <2>6. \A k \in LvJobs \ {j} : LvInDir(k)' = LvInDir(k)
    BY <2>3 DEF LvInDir
  <2>7. CASE \E k \in LvJobs \ {j} : LvInDir(k)
    <3>1. \A k \in lvAlone' : k \in lvAlone /\ k # j /\ ~LvInDir(k)
      BY <1>0, <1>2, <2>7
    <3>. QED BY <1>0, <2>3, <2>4, <2>5, <2>6, <3>1 DEF LvOwn
  <2>8. CASE ~ \E k \in LvJobs \ {j} : LvInDir(k)
    <3>1. lvAlone' = lvAlone \cup {j}
      BY <1>2, <2>8
    <3>2. \A k \in LvJobs \ {j} : ~LvInDir(k) /\ ~LvInDir(k)'
      BY <2>6, <2>8
    <3>. QED BY <1>0, <2>2, <2>3, <2>4, <2>5, <3>1, <3>2 DEF LvOwn
  <2>. QED BY <2>7, <2>8
<1>. QED BY <1>1, <1>2 DEF LvExtract

LEMMA LvWriteStep ==
    ASSUME LvInv, NEW j \in LvJobs, LvWrite(j)
    PROVE  LvInv'
<1>. USE DEF LvInv
<1>. DEFINE pc == lvJob[j].pc
<1>1. /\ lvJob[j] \in LvRecords /\ pc \in LvArtifacts /\ UNCHANGED <<lvStdout, lvAlone>>
      /\ lvDir' = [lvDir EXCEPT ![pc] = j]
  BY DEF LvTyped, LvWrite
<1>2. PICK r : LvSet(j, r) /\ r = [lvJob[j] EXCEPT !.pc = LvNextStep[pc], !.anchor = (pc = "logs")]
  BY Zenon DEF LvWrite
<1>3. LvNextStep[pc] \in LvSteps
  BY <1>1 DEF LvNextStep, LvArtifacts, LvSteps
<1>4. /\ r \in LvRecords /\ r.status = lvJob[j].status /\ r.pc = LvNextStep[pc]
      /\ r.verdict = lvJob[j].verdict /\ r.report = lvJob[j].report
  BY <1>1, <1>2, <1>3 DEF LvRecords
<1>5. /\ lvJob' \in [LvJobs -> LvRecords]
      /\ lvJob'[j] = r /\ \A k \in LvJobs \ {j} : lvJob'[k] = lvJob[k]
  BY <1>2, <1>4, LvUpdated
<1>6. /\ lvDir'[pc] = j /\ \A a \in LvArtifacts \ {pc} : lvDir'[a] = lvDir[a]
      /\ lvDir' \in [LvArtifacts -> LvJobs \cup {LvNobody}]
  BY <1>1 DEF LvTyped
<1>7. LvTyped'
  BY <1>1, <1>5, <1>6 DEF LvTyped
<1>8. r.pc \in {"manifest", "logs", "check"} /\ LvInDir(j)
      /\ (pc = "ddl" => r.pc = "manifest") /\ (pc = "manifest" => r.pc = "logs")
      /\ (pc = "logs" => r.pc = "check")
  BY <1>1, <1>4 DEF LvNextStep, LvArtifacts, LvInDir
<1>9. LvShown'
  BY <1>1, <1>4, <1>5, <1>8 DEF LvShown, LvArtifacts
<1>10. \A k \in LvJobs : LvInDir(k)' => LvInDir(k)
  BY <1>5, <1>8 DEF LvInDir
<1>11. ASSUME NEW k \in lvAlone'
       PROVE  /\ lvJob'[k].pc \notin {"idle", "acquire", "validate", "extract"}
              /\ LvInDir(k)' => \A l \in LvJobs \ {k} : ~LvInDir(l)'
              /\ lvJob'[k].pc \in {"manifest", "logs"} => lvDir'["ddl"] = k
              /\ lvJob'[k].pc = "logs" => lvDir'["manifest"] = k
              /\ lvJob'[k].pc = "check" /\ lvJob'[k].verdict = "success"
                    => \A a \in LvArtifacts : lvDir'[a] = k
              /\ lvJob'[k].pc = "build" /\ lvJob'[k].verdict = "success"
                    => lvJob'[k].read \subseteq {k}
              /\ lvJob'[k].pc = "ended" /\ lvJob'[k].status = "success"
                    => lvJob'[k].report \subseteq {k}
  <2>1. k \in lvAlone /\ k \in LvJobs
    BY <1>1 DEF LvTyped
  <2>2. LvInDir(k)' => \A l \in LvJobs \ {k} : ~LvInDir(l)'
    BY <1>10, <2>1 DEF LvOwn
  <2>3. CASE k = j
    <3>1. /\ lvJob[k].pc \in {"manifest", "logs"} => lvDir["ddl"] = k
          /\ lvJob[k].pc = "logs" => lvDir["manifest"] = k
      BY <2>1 DEF LvOwn
    <3>. QED BY <1>1, <1>5, <1>6, <1>8, <2>2, <2>3, <3>1 DEF LvArtifacts
  <2>4. CASE k # j
    <3>1. lvJob'[k] = lvJob[k] /\ ~LvInDir(k)
      BY <1>5, <1>8, <2>1, <2>4 DEF LvOwn
    <3>. QED BY <2>1, <2>2, <3>1 DEF LvOwn, LvInDir, LvArtifacts
  <2>. QED BY <2>3, <2>4
<1>12. LvOwn'
  BY <1>11 DEF LvOwn
<1>. QED BY <1>7, <1>9, <1>12

\* After an exception nobody in the directory has it to itself.
LEMMA LvBreakStep ==
    ASSUME LvInv, NEW j \in LvJobs, LvBreak(j)
    PROVE  LvInv'
<1>. USE DEF LvInv
<1>1. /\ lvJob[j] \in LvRecords /\ lvJob[j].pc \in LvArtifacts \cup {"extract"}
      /\ UNCHANGED <<lvDir, lvStdout>>
      /\ lvAlone' = lvAlone \ {k \in LvJobs : LvInDir(k)}
  BY DEF LvTyped, LvBreak
<1>2. PICK r : LvSet(j, r) /\ r = [lvJob[j] EXCEPT !.pc = "check", !.verdict = "partial"]
  BY Zenon DEF LvBreak
<1>3. /\ r \in LvRecords /\ r.status = lvJob[j].status /\ r.pc = "check"
      /\ r.report = lvJob[j].report
  BY <1>1, <1>2 DEF LvRecords, LvSteps
<1>4. /\ lvJob' \in [LvJobs -> LvRecords]
      /\ lvJob'[j] = r /\ \A k \in LvJobs \ {j} : lvJob'[k] = lvJob[k]
  BY <1>2, <1>3, LvUpdated
<1>5. LvTyped' /\ LvShown'
  BY <1>1, <1>3, <1>4 DEF LvTyped, LvShown, LvArtifacts
<1>6. \A k \in lvAlone' : k \in lvAlone /\ k \in LvJobs /\ k # j /\ ~LvInDir(k) /\ lvJob'[k] = lvJob[k]
  BY <1>1, <1>4 DEF LvTyped, LvOwn, LvInDir
<1>7. \A k \in lvAlone' : ~LvInDir(k)'
  BY <1>6 DEF LvInDir
<1>8. LvOwn'
  BY <1>1, <1>6, <1>7 DEF LvOwn
<1>. QED BY <1>5, <1>8

\* The report is built from the artifacts of now.
LEMMA LvCheckStep ==
    ASSUME LvInv, NEW j \in LvJobs, LvCheck(j)
    PROVE  LvInv'
<1>. USE DEF LvInv
<1>1. /\ lvJob[j] \in LvRecords /\ lvJob[j].pc = "check" /\ UNCHANGED <<lvDir, lvAlone>>
      /\ lvJob[j].report = {} /\ lvJob[j].status \notin {"none", "success", "partial"}
      /\ lvJob[j].verdict \in {"success", "partial"}
      /\ LvInDir(j)
  BY DEF LvTyped, LvCheck, LvShown, LvRecords, LvInDir
<1>2. j \in lvAlone /\ lvJob[j].verdict = "success" => \A a \in LvArtifacts : lvDir[a] = j
  BY <1>1 DEF LvOwn
<1>3. CASE /\ LvSet(j, [lvJob[j] EXCEPT !.pc = "build", !.saved = lvStdout,
                                        !.read = {lvDir[a] : a \in LvArtifacts}])
           /\ lvStdout' = j
  <2>. DEFINE read == {lvDir[a] : a \in LvArtifacts}
  <2>1. PICK r : /\ LvSet(j, r)
                 /\ r = [lvJob[j] EXCEPT !.pc = "build", !.saved = lvStdout, !.read = read]
    BY <1>3, Zenon
  <2>2. read \in SUBSET (LvJobs \cup {LvNobody})
    BY DEF LvTyped
  <2>3. j \in lvAlone /\ lvJob[j].verdict = "success" => read \subseteq {j}
    BY <1>2
  <2>. HIDE DEF read
  <2>4. lvStdout \in LvJobs \cup {"process"}
    BY DEF LvTyped
  <2>5. /\ r \in LvRecords /\ r.status = lvJob[j].status /\ r.pc = "build"
        /\ r.verdict = lvJob[j].verdict /\ r.read = read /\ r.report = lvJob[j].report
    BY <1>1, <2>1, <2>2, <2>4 DEF LvRecords, LvSteps
  <2>6. LvShown' /\ LvOwn'
    BY <1>1, <2>1, <2>3, <2>5, LvOwnStep
  <2>7. LvTyped'
    BY <1>1, <1>3, <2>1, <2>5, LvUpdated DEF LvTyped
  <2>. QED BY <2>6, <2>7
<1>4. ASSUME NEW status \in {"partial", lvJob[j].verdict}, LvEnd(j, status), UNCHANGED lvStdout
      PROVE  LvInv'
  <2>1. PICK r \in LvRecords : LvSet(j, r) /\ r.status = status /\ r.pc = "ended"
                               /\ r.report = lvJob[j].report
    BY <1>1, <1>4, LvEnded
  <2>2. status # "none"
    BY <1>1
  <2>3. LvShown' /\ LvOwn'
    BY <1>1, <2>1, <2>2, LvOwnStep DEF LvArtifacts
  <2>4. LvTyped'
    BY <1>1, <1>4, <2>1, LvUpdated DEF LvTyped
  <2>. QED BY <2>3, <2>4
<1>. QED BY <1>3, <1>4, Zenon DEF LvCheck

LEMMA LvBuildStep ==
    ASSUME LvInv, NEW j \in LvJobs, LvBuild(j)
    PROVE  LvInv'
<1>. USE DEF LvInv
<1>1. /\ lvJob[j] \in LvRecords /\ lvJob[j].pc = "build" /\ UNCHANGED <<lvDir, lvAlone>>
      /\ lvStdout' = lvJob[j].saved /\ LvInDir(j)
  BY DEF LvTyped, LvBuild, LvInDir
<1>2. PICK done \in BOOLEAN :
          LvSet(j, [lvJob[j] EXCEPT !.pc = "ended", !.saved = "process",
                                    !.status = IF done THEN lvJob[j].verdict ELSE "partial",
                                    !.report = IF done THEN lvJob[j].read ELSE {}])
  BY Zenon DEF LvBuild
<1>3. PICK status, report : /\ status = IF done THEN lvJob[j].verdict ELSE "partial"
                            /\ report = IF done THEN lvJob[j].read ELSE {}
  OBVIOUS
<1>4. PICK r : /\ LvSet(j, r)
               /\ r = [lvJob[j] EXCEPT !.pc = "ended", !.saved = "process", !.status = status,
                                       !.report = report]
  BY <1>2, <1>3, Zenon
<1>5. /\ status \in {"success", "partial"} /\ report \in SUBSET (LvJobs \cup {LvNobody})
      /\ status = "success" => lvJob[j].verdict = "success"
      /\ report \subseteq lvJob[j].read
  BY <1>1, <1>3 DEF LvRecords
<1>6. /\ r \in LvRecords /\ r.status = status /\ r.pc = "ended" /\ r.report = report
  BY <1>1, <1>4, <1>5 DEF LvRecords, LvSteps
<1>7. j \in lvAlone /\ status = "success" => report \subseteq {j}
  BY <1>1, <1>5 DEF LvOwn
<1>8. LvShown' /\ LvOwn'
  BY <1>1, <1>4, <1>5, <1>6, <1>7, LvOwnStep DEF LvArtifacts
<1>9. LvTyped'
  BY <1>1, <1>4, <1>6, LvUpdated DEF LvTyped, LvRecords
<1>. QED BY <1>8, <1>9

LEMMA LvShutdownStep == LvInv /\ LvShutdown => LvInv'
<1>. SUFFICES ASSUME LvInv, LvShutdown PROVE LvInv'
  OBVIOUS
<1>. USE DEF LvInv
<1>1. /\ lvJob' = [j \in LvJobs |-> IF lvJob[j].status \in {"queued", "running"}
                                    THEN [lvJob[j] EXCEPT !.status = "failure"] ELSE lvJob[j]]
      /\ UNCHANGED <<lvDir, lvStdout, lvAlone>>
  BY Zenon DEF LvShutdown
<1>2. ASSUME NEW j \in LvJobs
      PROVE  /\ lvJob'[j] \in LvRecords
             /\ lvJob'[j].status \in {lvJob[j].status, "failure"}
             /\ lvJob[j].status = "none" => lvJob'[j].status = "none"
             /\ lvJob'[j].pc = lvJob[j].pc /\ lvJob'[j].verdict = lvJob[j].verdict
             /\ lvJob'[j].read = lvJob[j].read /\ lvJob'[j].report = lvJob[j].report
  <2>1. lvJob[j] \in LvRecords
    BY DEF LvTyped
  <2>2. CASE lvJob[j].status \in {"queued", "running"}
    <3>1. PICK r : r = [lvJob[j] EXCEPT !.status = "failure"]
      OBVIOUS
    <3>2. lvJob'[j] = r
      BY <1>1, <2>2, <3>1, Zenon
    <3>. QED BY <2>1, <2>2, <3>1, <3>2 DEF LvRecords
  <2>3. CASE lvJob[j].status \notin {"queued", "running"}
    <3>1. lvJob'[j] = lvJob[j]
      BY <1>1, <2>3, Zenon
    <3>. QED BY <2>1, <3>1
  <2>. QED BY <2>2, <2>3
<1>3. lvJob' = [j \in LvJobs |-> lvJob'[j]]
  BY <1>1, Zenon
<1>4. LvTyped'
  BY <1>1, <1>2, <1>3 DEF LvTyped
<1>5. LvShown'
  BY <1>2 DEF LvShown
<1>6. \A j \in LvJobs : LvInDir(j)' = LvInDir(j)
  BY <1>2 DEF LvInDir
<1>7. LvOwn'
  BY <1>1, <1>2, <1>6 DEF LvOwn, LvTyped
<1>. QED BY <1>4, <1>5, <1>7

LEMMA LvInvHolds == LvSpec => []LvInv
<1>1. LvInit => LvInv
  <2>. SUFFICES ASSUME LvInit PROVE LvInv
    OBVIOUS
  <2>1. LvNone \in LvRecords /\ LvNone.status = "none" /\ LvNone.pc = "idle" /\ LvNone.report = {}
    BY DEF LvNone, LvRecords, LvSteps
  <2>. QED BY <2>1 DEF LvInit, LvInv, LvTyped, LvShown, LvOwn
<1>2. LvInv /\ [LvNext]_lvVars => LvInv'
  <2>1. LvInv /\ UNCHANGED lvVars => LvInv'
    BY DEF lvVars, LvInv, LvTyped, LvShown, LvOwn, LvInDir
  <2>. QED BY <2>1, LvOutsideStep, LvEnterStep, LvWriteStep, LvBreakStep, LvCheckStep,
              LvBuildStep, LvShutdownStep DEF LvNext
<1>. QED BY <1>1, <1>2, PTL DEF LvSpec

\* For any number of jobs, slots and faults: a job that had the directory to itself and ended
\* in success reports nothing but what it extracted.
THEOREM LvReportOwnHolds == LvSpec => []LvReportOwn
<1>1. LvInv => LvReportOwn
  BY DEF LvInv, LvOwn, LvReportOwn
<1>. QED BY <1>1, LvInvHolds, PTL

\* The worker is inside "with _LIVE_SEM".
LvHolds(pc) == pc \notin {"idle", "acquire", "ended", "raised"}

\* Every slot is free or has one holder.
LvSlotsKept ==
    lvFree \in Nat /\ IsFiniteSet(LvHolders) /\ lvFree + Cardinality(LvHolders) = LvSlots

\* The ways a worker moves: outside the semaphore, into it, within it and out of it.
LvMove(j, pc) ==
    /\ lvJob'[j].pc = pc /\ \A k \in LvJobs \ {j} : lvJob'[k].pc = lvJob[k].pc
    /\ \/ (LvHolds(pc) <=> LvHolds(lvJob[j].pc)) /\ lvFree' = lvFree
       \/ LvHolds(pc) /\ ~LvHolds(lvJob[j].pc) /\ lvFree > 0 /\ lvFree' = lvFree - 1
       \/ ~LvHolds(pc) /\ LvHolds(lvJob[j].pc) /\ lvFree' = lvFree + 1

LEMMA LvMoveKeeps ==
    ASSUME LvSlotsKept, NEW j \in LvJobs, NEW pc, LvMove(j, pc)
    PROVE  LvSlotsKept'
<1>. DEFINE H == LvHolders
<1>1. LvHolders' = IF LvHolds(pc) THEN H \cup {j} ELSE H \ {j}
  BY DEF LvMove, LvHolders, LvHolds
<1>2. j \in H <=> LvHolds(lvJob[j].pc)
  BY DEF LvHolders, LvHolds
<1>3. IsFiniteSet(H) /\ Cardinality(H) \in Nat
  BY FS_CardinalityType DEF LvSlotsKept
<1>4. /\ IsFiniteSet(H \cup {j}) /\ IsFiniteSet(H \ {j})
      /\ Cardinality(H \cup {j}) = IF j \in H THEN Cardinality(H) ELSE Cardinality(H) + 1
      /\ Cardinality(H \ {j}) = IF j \in H THEN Cardinality(H) - 1 ELSE Cardinality(H)
  BY <1>3, FS_AddElement, FS_RemoveElement
<1>5. lvFree \in Nat /\ lvFree + Cardinality(H) = LvSlots
  BY DEF LvSlotsKept
<1>. HIDE DEF H
<1>6. CASE LvHolds(pc) <=> LvHolds(lvJob[j].pc)
  <2>1. LvHolders' = H
    BY <1>1, <1>2, <1>6
  <2>2. lvFree' = lvFree
    BY <1>6 DEF LvMove
  <2>. QED BY <1>3, <1>5, <2>1, <2>2 DEF LvSlotsKept
<1>7. CASE LvHolds(pc) /\ ~LvHolds(lvJob[j].pc)
  <2>1. LvHolders' = H \cup {j} /\ j \notin H
    BY <1>1, <1>2, <1>7
  <2>2. lvFree > 0 /\ lvFree' = lvFree - 1
    BY <1>7 DEF LvMove
  <2>3. Cardinality(LvHolders)' = Cardinality(H) + 1 /\ IsFiniteSet(LvHolders)'
    BY <1>4, <2>1
  <2>4. lvFree' \in Nat /\ lvFree' + Cardinality(LvHolders)' = LvSlots
    BY <1>3, <1>5, <2>2, <2>3
  <2>. QED BY <2>3, <2>4 DEF LvSlotsKept
<1>8. CASE ~LvHolds(pc) /\ LvHolds(lvJob[j].pc)
  <2>1. LvHolders' = H \ {j} /\ j \in H
    BY <1>1, <1>2, <1>8
  <2>2. lvFree' = lvFree + 1
    BY <1>8 DEF LvMove
  <2>3. Cardinality(LvHolders)' = Cardinality(H) - 1 /\ IsFiniteSet(LvHolders)'
    BY <1>4, <2>1
  <2>4. lvFree' \in Nat /\ lvFree' + Cardinality(LvHolders)' = LvSlots
    BY <1>3, <1>5, <2>2, <2>3
  <2>. QED BY <2>3, <2>4 DEF LvSlotsKept
<1>. QED BY <1>6, <1>7, <1>8

\* Each step of a job is one of those moves.
LEMMA LvMoves ==
    ASSUME LvTyped, LvShown, NEW j \in LvJobs,
           \/ LvStart(j) \/ LvAcquire(j) \/ LvValidate(j) \/ LvExtract(j)
           \/ LvWrite(j) \/ LvBreak(j) \/ LvCheck(j) \/ LvBuild(j)
    PROVE  \E pc : LvMove(j, pc)
<1>1. ASSUME NEW r, LvSet(j, r)
      PROVE  lvJob'[j] = r /\ \A k \in LvJobs \ {j} : lvJob'[k].pc = lvJob[k].pc
  BY <1>1 DEF LvTyped, LvSet
<1>2. /\ DOMAIN lvJob[j] = {"status", "pc", "verdict", "build", "anchor", "read", "saved", "report"}
  BY DEF LvTyped, LvRecords
<1>3. ASSUME NEW status, LvEnd(j, status), LvHolds(lvJob[j].pc) PROVE LvMove(j, "ended")
  <2>1. PICK r : LvSet(j, r) /\ r = [lvJob[j] EXCEPT !.status = status, !.pc = "ended"]
    BY <1>3, Zenon DEF LvEnd
  <2>2. r.pc = "ended"
    BY <1>2, <2>1
  <2>3. lvFree' = lvFree + 1
    BY <1>3 DEF LvEnd
  <2>. QED BY <1>1, <1>3, <2>1, <2>2, <2>3 DEF LvMove, LvHolds
<1>4. ASSUME LvStart(j) PROVE LvMove(j, "acquire")
  <2>1. PICK r : LvSet(j, r) /\ r.pc = "acquire"
    <3>1. PICK b \in BOOLEAN :
              LvSet(j, [LvNone EXCEPT !.status = "queued", !.pc = "acquire", !.build = b])
      BY <1>4, Zenon DEF LvStart
    <3>2. PICK r : r = [LvNone EXCEPT !.status = "queued", !.pc = "acquire", !.build = b]
      OBVIOUS
    <3>3. r.pc = "acquire"
      BY <3>2 DEF LvNone
    <3>. QED BY <3>1, <3>2, <3>3, Zenon
  <2>2. lvFree' = lvFree /\ lvJob[j].status = "none"
    BY <1>4, Zenon DEF LvStart
  <2>3. lvJob[j].pc = "idle"
    BY <2>2 DEF LvShown
  <2>. QED BY <1>1, <2>1, <2>2, <2>3 DEF LvMove, LvHolds
<1>5. ASSUME LvAcquire(j) PROVE LvMove(j, "validate")
  <2>1. PICK r : LvSet(j, r) /\ r = [lvJob[j] EXCEPT !.status = "running", !.pc = "validate"]
    BY <1>5, Zenon DEF LvAcquire
  <2>2. r.pc = "validate"
    BY <1>2, <2>1
  <2>3. lvJob[j].pc = "acquire" /\ lvFree > 0 /\ lvFree' = lvFree - 1
    BY <1>5 DEF LvAcquire
  <2>. QED BY <1>1, <2>1, <2>2, <2>3 DEF LvMove, LvHolds
<1>6. ASSUME LvValidate(j) PROVE \E pc : LvMove(j, pc)
  <2>1. lvJob[j].pc = "validate" /\ LvHolds(lvJob[j].pc)
    BY <1>6 DEF LvValidate, LvHolds
  <2>2. CASE LvSet(j, [lvJob[j] EXCEPT !.pc = "extract"]) /\ lvFree' = lvFree
    <3>1. PICK r : LvSet(j, r) /\ r = [lvJob[j] EXCEPT !.pc = "extract"]
      BY <2>2, Zenon
    <3>2. r.pc = "extract"
      BY <1>2, <3>1
    <3>3. LvMove(j, "extract")
      BY <1>1, <2>1, <2>2, <3>1, <3>2 DEF LvMove, LvHolds
    <3>. QED BY <3>3, Zenon
  <2>3. CASE LvEnd(j, "failure")
    BY <1>3, <2>1, <2>3, Zenon
  <2>4. CASE LvSet(j, [lvJob[j] EXCEPT !.pc = "raised"]) /\ lvFree' = lvFree + 1
    <3>1. PICK r : LvSet(j, r) /\ r = [lvJob[j] EXCEPT !.pc = "raised"]
      BY <2>4, Zenon
    <3>2. r.pc = "raised"
      BY <1>2, <3>1
    <3>3. LvMove(j, "raised")
      BY <1>1, <2>1, <2>4, <3>1, <3>2 DEF LvMove, LvHolds
    <3>. QED BY <3>3, Zenon
  <2>. QED BY <1>6, <2>2, <2>3, <2>4, Zenon DEF LvValidate
<1>7. ASSUME LvExtract(j) PROVE \E pc : LvMove(j, pc)
  <2>1. lvJob[j].pc = "extract" /\ LvHolds(lvJob[j].pc)
    BY <1>7 DEF LvExtract, LvHolds
  <2>2. CASE /\ lvFree' = lvFree
             /\ \E v \in {"success", "partial"} :
                   LvSet(j, [lvJob[j] EXCEPT !.pc = "ddl", !.verdict = v])
    <3>1. PICK v, r : LvSet(j, r) /\ r = [lvJob[j] EXCEPT !.pc = "ddl", !.verdict = v]
      BY <2>2, Zenon
    <3>2. r.pc = "ddl"
      BY <1>2, <3>1
    <3>3. LvMove(j, "ddl")
      BY <1>1, <2>1, <2>2, <3>1, <3>2 DEF LvMove, LvHolds
    <3>. QED BY <3>3, Zenon
  <2>3. CASE LvEnd(j, "failure")
    BY <1>3, <2>1, <2>3, Zenon
  <2>. QED BY <1>7, <2>2, <2>3, Zenon DEF LvExtract
<1>8. ASSUME LvWrite(j) PROVE LvMove(j, LvNextStep[lvJob[j].pc])
  <2>1. PICK r : /\ LvSet(j, r)
                 /\ r = [lvJob[j] EXCEPT !.pc = LvNextStep[lvJob[j].pc],
                                         !.anchor = (lvJob[j].pc = "logs")]
    BY <1>8, Zenon DEF LvWrite
  <2>2. r.pc = LvNextStep[lvJob[j].pc]
    BY <1>2, <2>1
  <2>3. lvJob[j].pc \in LvArtifacts /\ lvFree' = lvFree
    BY <1>8 DEF LvWrite
  <2>4. LvHolds(lvJob[j].pc) /\ LvHolds(LvNextStep[lvJob[j].pc])
    BY <2>3 DEF LvArtifacts, LvNextStep, LvHolds
  <2>. QED BY <1>1, <2>1, <2>2, <2>3, <2>4 DEF LvMove
<1>9. ASSUME LvBreak(j) PROVE LvMove(j, "check")
  <2>1. PICK r : LvSet(j, r) /\ r = [lvJob[j] EXCEPT !.pc = "check", !.verdict = "partial"]
    BY <1>9, Zenon DEF LvBreak
  <2>2. r.pc = "check"
    BY <1>2, <2>1
  <2>3. lvJob[j].pc \in LvArtifacts \cup {"extract"} /\ lvFree' = lvFree
    BY <1>9 DEF LvBreak
  <2>. QED BY <1>1, <2>1, <2>2, <2>3 DEF LvMove, LvHolds, LvArtifacts
<1>10. ASSUME LvCheck(j) PROVE \E pc : LvMove(j, pc)
  <2>1. lvJob[j].pc = "check" /\ LvHolds(lvJob[j].pc)
    BY <1>10 DEF LvCheck, LvHolds
  <2>2. CASE /\ lvFree' = lvFree
             /\ LvSet(j, [lvJob[j] EXCEPT !.pc = "build", !.saved = lvStdout,
                                          !.read = {lvDir[a] : a \in LvArtifacts}])
    <3>1. PICK read, r : /\ LvSet(j, r)
                         /\ r = [lvJob[j] EXCEPT !.pc = "build", !.saved = lvStdout,
                                                 !.read = read]
      BY <2>2, Zenon
    <3>2. r.pc = "build"
      BY <1>2, <3>1
    <3>3. LvMove(j, "build")
      BY <1>1, <2>1, <2>2, <3>1, <3>2 DEF LvMove, LvHolds
    <3>. QED BY <3>3, Zenon
  <2>3. CASE \E status : LvEnd(j, status)
    BY <1>3, <2>1, <2>3, Zenon
  <2>. QED BY <1>10, <2>2, <2>3, Zenon DEF LvCheck
<1>11. ASSUME LvBuild(j) PROVE LvMove(j, "ended")
  <2>1. PICK done \in BOOLEAN :
            LvSet(j, [lvJob[j] EXCEPT !.pc = "ended", !.saved = "process",
                                      !.status = IF done THEN lvJob[j].verdict ELSE "partial",
                                      !.report = IF done THEN lvJob[j].read ELSE {}])
    BY <1>11, Zenon DEF LvBuild
  <2>2. PICK r : /\ LvSet(j, r)
                 /\ r = [lvJob[j] EXCEPT !.pc = "ended", !.saved = "process",
                                         !.status = IF done THEN lvJob[j].verdict ELSE "partial",
                                         !.report = IF done THEN lvJob[j].read ELSE {}]
    BY <2>1, Zenon
  <2>4. r.pc = "ended"
    BY <1>2, <2>2
  <2>3. lvJob[j].pc = "build" /\ lvFree' = lvFree + 1
    BY <1>11, Zenon DEF LvBuild
  <2>. QED BY <1>1, <2>2, <2>3, <2>4 DEF LvMove, LvHolds
<1>. QED BY <1>4, <1>5, <1>6, <1>7, <1>8, <1>9, <1>10, <1>11, Zenon

\* What the status of a job tells of its worker: a queued job waits for a slot, a running one
\* has it or is lost, and the worker of a job with a verdict has ended, unless the hook has
\* given the verdict.
LvFits(status, pc) ==
    /\ status = "none" <=> pc = "idle"
    /\ status = "queued" => pc = "acquire"
    /\ status = "running" => pc \notin {"idle", "acquire", "ended"}
    /\ status \in {"success", "partial"} => pc = "ended"
    /\ pc \notin {"idle", "ended", "raised"} => status \in {"queued", "running"} \/ lvDown

LvBoarded == lvDown \in BOOLEAN /\ \A j \in LvJobs : LvFits(lvJob[j].status, lvJob[j].pc)

\* The steps of a worker as its board shows them: it is registered, begins, works on, gets a
\* verdict, or is lost.
LvKind(j, r) ==
    \/ lvJob[j].status = "none" /\ ~lvDown /\ r.status = "queued" /\ r.pc = "acquire"
    \/ lvJob[j].pc = "acquire" /\ lvFree > 0 /\ r.status = "running" /\ r.pc = "validate"
    \/ LvHolds(lvJob[j].pc) /\ LvHolds(r.pc) /\ r.status = lvJob[j].status
    \/ LvHolds(lvJob[j].pc) /\ r.pc = "ended" /\ r.status \in {"success", "partial", "failure"}
    \/ LvHolds(lvJob[j].pc) /\ r.pc = "raised" /\ r.status = lvJob[j].status

LEMMA LvKinds ==
    ASSUME LvTyped, NEW j \in LvJobs,
           \/ LvStart(j) \/ LvAcquire(j) \/ LvValidate(j) \/ LvExtract(j)
           \/ LvWrite(j) \/ LvBreak(j) \/ LvCheck(j) \/ LvBuild(j)
    PROVE  lvDown' = lvDown /\ \E r \in LvRecords : LvSet(j, r) /\ LvKind(j, r)
<1>1. lvDown' = lvDown
  BY DEF LvStart, LvAcquire, LvValidate, LvExtract, LvWrite, LvBreak, LvCheck, LvBuild
<1>2. lvJob[j] \in LvRecords
  BY DEF LvTyped
<1>3. ASSUME NEW status \in {"success", "partial", "failure"}, LvEnd(j, status),
             LvHolds(lvJob[j].pc)
      PROVE  \E r \in LvRecords : LvSet(j, r) /\ LvKind(j, r)
  <2>1. PICK r \in LvRecords : LvSet(j, r) /\ r.status = status /\ r.pc = "ended"
    BY <1>3, LvEnded
  <2>. QED BY <1>3, <2>1 DEF LvKind
<1>4. CASE LvStart(j)
  <2>1. PICK b \in BOOLEAN :
            LvSet(j, [LvNone EXCEPT !.status = "queued", !.pc = "acquire", !.build = b])
    BY <1>4, Zenon DEF LvStart
  <2>2. PICK r : r = [LvNone EXCEPT !.status = "queued", !.pc = "acquire", !.build = b]
    BY Zenon
  <2>3. LvSet(j, r)
    BY <2>1, <2>2, Zenon
  <2>4. r \in LvRecords /\ r.status = "queued" /\ r.pc = "acquire"
    BY <2>2, LvStarted
  <2>. QED BY <1>1, <1>4, <2>3, <2>4 DEF LvKind, LvStart
<1>5. CASE LvAcquire(j)
  <2>1. PICK r : LvSet(j, r) /\ r = [lvJob[j] EXCEPT !.status = "running", !.pc = "validate"]
    BY <1>5, Zenon DEF LvAcquire
  <2>2. r \in LvRecords /\ r.status = "running" /\ r.pc = "validate"
    BY <1>2, <2>1 DEF LvRecords, LvSteps
  <2>. QED BY <1>1, <1>5, <2>1, <2>2 DEF LvKind, LvAcquire
<1>6. CASE LvValidate(j)
  <2>1. LvHolds(lvJob[j].pc)
    BY <1>6 DEF LvValidate, LvHolds
  <2>2. CASE LvSet(j, [lvJob[j] EXCEPT !.pc = "extract"])
    <3>1. PICK r : LvSet(j, r) /\ r = [lvJob[j] EXCEPT !.pc = "extract"]
      BY <2>2, Zenon
    <3>2. r \in LvRecords /\ r.status = lvJob[j].status /\ r.pc = "extract"
      BY <1>2, <3>1 DEF LvRecords, LvSteps
    <3>. QED BY <1>1, <2>1, <3>1, <3>2 DEF LvKind, LvHolds
  <2>3. CASE LvSet(j, [lvJob[j] EXCEPT !.pc = "raised"])
    <3>1. PICK r : LvSet(j, r) /\ r = [lvJob[j] EXCEPT !.pc = "raised"]
      BY <2>3, Zenon
    <3>2. r \in LvRecords /\ r.status = lvJob[j].status /\ r.pc = "raised"
      BY <1>2, <3>1 DEF LvRecords, LvSteps
    <3>. QED BY <1>1, <2>1, <3>1, <3>2 DEF LvKind
  <2>4. CASE LvEnd(j, "failure")
    BY <1>1, <1>3, <2>1, <2>4
  <2>. QED BY <1>6, <2>2, <2>3, <2>4, Zenon DEF LvValidate
<1>7. CASE LvExtract(j)
  <2>1. LvHolds(lvJob[j].pc)
    BY <1>7 DEF LvExtract, LvHolds
  <2>2. CASE \E v \in {"success", "partial"} : LvSet(j, [lvJob[j] EXCEPT !.pc = "ddl", !.verdict = v])
    <3>1. PICK v, r : /\ LvSet(j, r) /\ v \in {"success", "partial"}
                      /\ r = [lvJob[j] EXCEPT !.pc = "ddl", !.verdict = v]
      BY <2>2, Zenon
    <3>2. r \in LvRecords /\ r.status = lvJob[j].status /\ r.pc = "ddl"
      BY <1>2, <3>1 DEF LvRecords, LvSteps
    <3>. QED BY <1>1, <2>1, <3>1, <3>2 DEF LvKind, LvHolds
  <2>3. CASE LvEnd(j, "failure")
    BY <1>1, <1>3, <2>1, <2>3
  <2>. QED BY <1>7, <2>2, <2>3, Zenon DEF LvExtract
<1>8. CASE LvWrite(j)
  <2>1. lvJob[j].pc \in LvArtifacts
    BY <1>8 DEF LvWrite
  <2>2. PICK next, r : /\ LvSet(j, r) /\ next = LvNextStep[lvJob[j].pc]
                       /\ r = [lvJob[j] EXCEPT !.pc = next, !.anchor = (lvJob[j].pc = "logs")]
    BY <1>8, Zenon DEF LvWrite
  <2>3. next \in {"manifest", "logs", "check"}
    BY <2>1, <2>2 DEF LvNextStep, LvArtifacts
  <2>4. r \in LvRecords /\ r.status = lvJob[j].status /\ r.pc = next
    BY <1>2, <2>2, <2>3 DEF LvRecords, LvSteps
  <2>. QED BY <1>1, <2>1, <2>2, <2>3, <2>4 DEF LvKind, LvHolds, LvArtifacts
<1>9. CASE LvBreak(j)
  <2>1. lvJob[j].pc \in LvArtifacts \cup {"extract"}
    BY <1>9 DEF LvBreak
  <2>2. PICK r : LvSet(j, r) /\ r = [lvJob[j] EXCEPT !.pc = "check", !.verdict = "partial"]
    BY <1>9, Zenon DEF LvBreak
  <2>3. r \in LvRecords /\ r.status = lvJob[j].status /\ r.pc = "check"
    BY <1>2, <2>2 DEF LvRecords, LvSteps
  <2>. QED BY <1>1, <2>1, <2>2, <2>3 DEF LvKind, LvHolds, LvArtifacts
<1>10. CASE LvCheck(j)
  <2>1. LvHolds(lvJob[j].pc)
    BY <1>10 DEF LvCheck, LvHolds
  <2>2. CASE LvSet(j, [lvJob[j] EXCEPT !.pc = "build", !.saved = lvStdout,
                                       !.read = {lvDir[a] : a \in LvArtifacts}])
    <3>1. PICK read, r : /\ LvSet(j, r) /\ read = {lvDir[a] : a \in LvArtifacts}
                         /\ r = [lvJob[j] EXCEPT !.pc = "build", !.saved = lvStdout,
                                                 !.read = read]
      BY <2>2, Zenon
    <3>2. read \in SUBSET (LvJobs \cup {LvNobody}) /\ lvStdout \in LvJobs \cup {"process"}
      BY <3>1 DEF LvTyped
    <3>3. r \in LvRecords /\ r.status = lvJob[j].status /\ r.pc = "build"
      BY <1>2, <3>1, <3>2 DEF LvRecords, LvSteps
    <3>. QED BY <1>1, <2>1, <3>1, <3>3 DEF LvKind, LvHolds
  <2>3. CASE LvEnd(j, "partial") \/ LvEnd(j, lvJob[j].verdict)
    <3>1. lvJob[j].verdict \in {"success", "partial"}
      BY <1>2 DEF LvRecords
    <3>. QED BY <1>1, <1>3, <2>1, <2>3, <3>1
  <2>. QED BY <1>10, <2>2, <2>3, Zenon DEF LvCheck
<1>11. CASE LvBuild(j)
  <2>1. PICK done \in BOOLEAN :
            LvSet(j, [lvJob[j] EXCEPT !.pc = "ended", !.saved = "process",
                                      !.status = IF done THEN lvJob[j].verdict ELSE "partial",
                                      !.report = IF done THEN lvJob[j].read ELSE {}])
    BY <1>11, Zenon DEF LvBuild
  <2>2. PICK status, report : /\ status = IF done THEN lvJob[j].verdict ELSE "partial"
                              /\ report = IF done THEN lvJob[j].read ELSE {}
    OBVIOUS
  <2>3. PICK r : /\ LvSet(j, r)
                 /\ r = [lvJob[j] EXCEPT !.pc = "ended", !.saved = "process", !.status = status,
                                         !.report = report]
    BY <2>1, <2>2, Zenon
  <2>4. status \in {"success", "partial"} /\ report \in SUBSET (LvJobs \cup {LvNobody})
    BY <1>2, <2>2 DEF LvRecords
  <2>5. r \in LvRecords /\ r.status = status /\ r.pc = "ended"
    BY <1>2, <2>3, <2>4 DEF LvRecords, LvSteps
  <2>6. LvHolds(lvJob[j].pc)
    BY <1>11, Zenon DEF LvBuild, LvHolds
  <2>. QED BY <1>1, <2>3, <2>4, <2>5, <2>6 DEF LvKind
<1>. QED BY <1>4, <1>5, <1>6, <1>7, <1>8, <1>9, <1>10, <1>11

\* The parts of the board after a step of job j.
LEMMA LvBoardAfter ==
    ASSUME LvTyped, NEW j \in LvJobs, NEW r \in LvRecords, LvSet(j, r)
    PROVE  /\ [k \in LvJobs |-> lvJob[k].status]'
                 = [[k \in LvJobs |-> lvJob[k].status] EXCEPT ![j] = r.status]
           /\ LvRaised' = IF r.pc = "raised" THEN LvRaised \cup {j} ELSE LvRaised \ {j}
           /\ LvMarked' = IF r.status = "failure" /\ r.pc \notin {"idle", "ended", "raised"}
                          THEN LvMarked \cup {j} ELSE LvMarked \ {j}
<1>1. /\ lvJob'[j] = r
      /\ \A k \in LvJobs \ {j} : lvJob'[k] = lvJob[k]
  BY LvUpdated
<1>2. [k \in LvJobs |-> lvJob[k].status]'
         = [[k \in LvJobs |-> lvJob[k].status] EXCEPT ![j] = r.status]
  BY <1>1
<1>3. LvRaised' = IF r.pc = "raised" THEN LvRaised \cup {j} ELSE LvRaised \ {j}
  BY <1>1 DEF LvRaised
<1>4. LvMarked' = IF r.status = "failure" /\ r.pc \notin {"idle", "ended", "raised"}
                  THEN LvMarked \cup {j} ELSE LvMarked \ {j}
  BY <1>1 DEF LvMarked
<1>. QED BY <1>2, <1>3, <1>4

\* Jobs that are shown running and not lost hold a slot.
LEMMA LvRunningHold ==
    ASSUME LvBoarded, LvSlotsKept
    PROVE  /\ Board!Running \subseteq LvHolders
           /\ lvFree > 0 => Cardinality(Board!Running) < LvSlots
<1>1. Board!Running \subseteq LvHolders
  BY DEF Board!Running, LvRaised, LvHolders, LvBoarded, LvFits
<1>2. Cardinality(Board!Running) <= Cardinality(LvHolders)
  BY <1>1, FS_Subset DEF LvSlotsKept
<1>3. Cardinality(Board!Running) \in Nat /\ Cardinality(LvHolders) \in Nat
  BY <1>1, FS_Subset, FS_CardinalityType DEF LvSlotsKept
<1>4. lvFree \in Nat /\ lvFree + Cardinality(LvHolders) = LvSlots
  BY DEF LvSlotsKept
<1>. QED BY <1>1, <1>2, <1>3, <1>4

LEMMA LvWorkerBoards ==
    ASSUME LvTyped, LvBoarded, LvSlotsKept, NEW j \in LvJobs, NEW r \in LvRecords,
           LvSet(j, r), LvKind(j, r), lvDown' = lvDown
    PROVE  LvBoarded' /\ [Board!Next]_(Board!boardVars)
<1>. DEFINE Shown == [k \in LvJobs |-> lvJob[k].status]
<1>1. /\ lvJob'[j] = r
      /\ \A k \in LvJobs \ {j} : lvJob'[k] = lvJob[k]
  BY LvUpdated
<1>2. /\ Shown' = [Shown EXCEPT ![j] = r.status]
      /\ LvRaised' = IF r.pc = "raised" THEN LvRaised \cup {j} ELSE LvRaised \ {j}
      /\ LvMarked' = IF r.status = "failure" /\ r.pc \notin {"idle", "ended", "raised"}
                     THEN LvMarked \cup {j} ELSE LvMarked \ {j}
  BY LvBoardAfter
<1>3. /\ j \in LvRaised <=> lvJob[j].pc = "raised"
      /\ j \in LvMarked <=> /\ lvJob[j].status = "failure"
                            /\ lvJob[j].pc \notin {"idle", "ended", "raised"}
      /\ j \in Board!Running <=> lvJob[j].status = "running" /\ lvJob[j].pc # "raised"
      /\ Shown[j] = lvJob[j].status
  BY DEF LvRaised, LvMarked, Board!Running
<1>4. /\ LvFits(lvJob[j].status, lvJob[j].pc)
      /\ lvJob[j].status \in {"none", "queued", "running", "success", "partial", "failure"}
  BY DEF LvBoarded, LvTyped, LvRecords
<1>5. LvFits(r.status, r.pc)'
  BY <1>4 DEF LvFits, LvKind, LvHolds
<1>6. LvBoarded'
  BY <1>1, <1>5 DEF LvBoarded, LvFits
<1>7. CASE lvJob[j].status = "none" /\ ~lvDown /\ r.status = "queued" /\ r.pc = "acquire"
  <2>1. LvRaised' = LvRaised /\ LvMarked' = LvMarked
    BY <1>2, <1>3, <1>4, <1>7 DEF LvFits
  <2>2. Board!Submit(j)
    BY <1>2, <1>3, <1>7, <2>1 DEF Board!Submit
  <2>. QED BY <1>6, <2>2 DEF Board!Next
<1>8. CASE lvJob[j].pc = "acquire" /\ lvFree > 0 /\ r.status = "running" /\ r.pc = "validate"
  <2>1. LvRaised' = LvRaised /\ LvMarked' = LvMarked \ {j}
    BY <1>2, <1>3, <1>8
  <2>2. lvJob[j].status = "queued" \/ j \in LvMarked
    BY <1>3, <1>4, <1>8 DEF LvFits
  <2>3. Cardinality(Board!Running) < LvSlots
    BY <1>8, LvRunningHold
  <2>4. Board!Cardinality(Board!Running) = Cardinality(Board!Running)
    BY Zenon DEF Board!Cardinality, Cardinality
  <2>5. Board!Begin(j)
    BY <1>2, <1>3, <1>8, <2>1, <2>2, <2>3, <2>4 DEF Board!Begin
  <2>. QED BY <1>6, <2>5 DEF Board!Next
<1>9. CASE LvHolds(lvJob[j].pc) /\ LvHolds(r.pc) /\ r.status = lvJob[j].status
  <2>1. LvRaised' = LvRaised /\ LvMarked' = LvMarked
    BY <1>2, <1>3, <1>9 DEF LvHolds
  <2>2. Shown' = Shown
    BY <1>2, <1>9
  <2>. QED BY <1>6, <2>1, <2>2 DEF Board!boardVars
<1>10. CASE LvHolds(lvJob[j].pc) /\ r.pc = "ended" /\ r.status \in {"success", "partial", "failure"}
  <2>1. LvRaised' = LvRaised /\ LvMarked' = LvMarked \ {j}
    BY <1>2, <1>3, <1>10 DEF LvHolds
  <2>2. j \in Board!Running \/ j \in LvMarked
    BY <1>3, <1>4, <1>10 DEF LvFits, LvHolds
  <2>3. Board!Finish(j, r.status)
    BY <1>2, <1>10, <2>1, <2>2 DEF Board!Finish
  <2>. QED BY <1>6, <1>10, <2>3 DEF Board!Next, Board!Verdicts
<1>11. CASE LvHolds(lvJob[j].pc) /\ r.pc = "raised" /\ r.status = lvJob[j].status
  <2>1. LvRaised' = LvRaised \cup {j} /\ LvMarked' = LvMarked \ {j}
    BY <1>2, <1>11
  <2>2. j \in Board!Running \/ j \in LvMarked
    BY <1>3, <1>4, <1>11 DEF LvFits, LvHolds
  <2>3. Shown' = Shown
    BY <1>2, <1>11
  <2>4. Board!Lose(j)
    BY <2>1, <2>2, <2>3 DEF Board!Lose
  <2>. QED BY <1>6, <2>4 DEF Board!Next
<1>. QED BY <1>7, <1>8, <1>9, <1>10, <1>11 DEF LvKind

\* The hook changes the status of the unfinished jobs, and nothing else of any job.
LEMMA LvHookSees ==
    ASSUME LvTyped, LvShutdown, NEW j \in LvJobs
    PROVE  /\ lvJob'[j].pc = lvJob[j].pc
           /\ lvJob'[j].status = IF lvJob[j].status \in {"queued", "running"} THEN "failure"
                                 ELSE lvJob[j].status
<1>1. lvJob[j] \in LvRecords
  BY DEF LvTyped
<1>2. CASE lvJob[j].status \in {"queued", "running"}
  <2>1. PICK r : r = [lvJob[j] EXCEPT !.status = "failure"]
    BY Zenon
  <2>2. lvJob'[j] = r
    BY <1>2, <2>1, Zenon DEF LvShutdown
  <2>. QED BY <1>1, <1>2, <2>1, <2>2 DEF LvRecords
<1>3. CASE lvJob[j].status \notin {"queued", "running"}
  <2>1. lvJob'[j] = lvJob[j]
    BY <1>3, Zenon DEF LvShutdown
  <2>. QED BY <1>3, <2>1
<1>. QED BY <1>2, <1>3

LEMMA LvHookBoards ==
    ASSUME LvTyped, LvBoarded, LvShutdown
    PROVE  LvBoarded' /\ Board!Shutdown
<1>1. ~lvDown /\ lvDown' = TRUE
  BY Zenon DEF LvShutdown
<1>2. \A j \in LvJobs :
         /\ lvJob'[j].pc = lvJob[j].pc
         /\ lvJob'[j].status = IF lvJob[j].status \in {"queued", "running"} THEN "failure"
                               ELSE lvJob[j].status
  BY LvHookSees
<1>3. LvBoarded'
  BY <1>1, <1>2 DEF LvBoarded, LvFits
<1>4. \A j \in LvJobs : lvJob[j].status \in {"none", "queued", "running", "success", "partial", "failure"}
  BY DEF LvTyped, LvRecords
<1>. DEFINE unfinished == {j \in LvJobs : [k \in LvJobs |-> lvJob[k].status][j] \in {"queued", "running"}}
<1>5. LvRaised' = LvRaised
  BY <1>2 DEF LvRaised
<1>6. LvMarked' = unfinished \ LvRaised
  BY <1>1, <1>2, <1>4 DEF LvMarked, LvRaised, LvBoarded, LvFits
<1>7. [j \in LvJobs |-> lvJob[j].status]'
         = [j \in LvJobs |-> IF j \in unfinished THEN "failure"
                             ELSE [k \in LvJobs |-> lvJob[k].status][j]]
  BY <1>2
<1>. QED BY <1>1, <1>3, <1>5, <1>6, <1>7 DEF Board!Shutdown

LEMMA LvSlotsHold ==
    ASSUME LvTyped, LvShown, LvSlotsKept, [LvNext]_lvVars
    PROVE  LvSlotsKept'
<1>1. CASE \E j \in LvJobs :
              \/ LvStart(j) \/ LvAcquire(j) \/ LvValidate(j) \/ LvExtract(j)
              \/ LvWrite(j) \/ LvBreak(j) \/ LvCheck(j) \/ LvBuild(j)
  BY <1>1, LvMoves, LvMoveKeeps, Zenon
<1>2. CASE LvShutdown
  <2>1. \A j \in LvJobs : lvJob'[j].pc = lvJob[j].pc
    BY <1>2, LvHookSees
  <2>2. LvHolders' = LvHolders /\ lvFree' = lvFree
    BY <1>2, <2>1 DEF LvHolders, LvShutdown
  <2>. QED BY <2>2 DEF LvSlotsKept
<1>3. CASE UNCHANGED lvVars
  BY <1>3 DEF lvVars, LvSlotsKept, LvHolders
<1>. QED BY <1>1, <1>2, <1>3, Zenon DEF LvNext

LEMMA LvStepBoards ==
    ASSUME LvInv, LvBoarded, LvSlotsKept, [LvNext]_lvVars
    PROVE  LvBoarded' /\ [Board!Next]_(Board!boardVars)
<1>. USE DEF LvInv
<1>1. ASSUME NEW j \in LvJobs,
             \/ LvStart(j) \/ LvAcquire(j) \/ LvValidate(j) \/ LvExtract(j)
             \/ LvWrite(j) \/ LvBreak(j) \/ LvCheck(j) \/ LvBuild(j)
      PROVE  LvBoarded' /\ [Board!Next]_(Board!boardVars)
  BY <1>1, LvKinds, LvWorkerBoards
<1>2. CASE LvShutdown
  BY <1>2, LvHookBoards DEF Board!Next
<1>3. CASE UNCHANGED lvVars
  BY <1>3 DEF lvVars, LvBoarded, LvFits, Board!boardVars, LvRaised, LvMarked
<1>. QED BY <1>1, <1>2, <1>3, Zenon DEF LvNext

LEMMA LvStartsWell == LvInit => LvSlotsKept /\ LvBoarded /\ Board!Init
<1>. SUFFICES ASSUME LvInit PROVE LvSlotsKept /\ LvBoarded /\ Board!Init
  OBVIOUS
<1>1. \A j \in LvJobs : lvJob[j].status = "none" /\ lvJob[j].pc = "idle"
  BY DEF LvInit, LvNone
<1>2. LvHolders = {} /\ LvRaised = {} /\ LvMarked = {}
  BY <1>1 DEF LvHolders, LvRaised, LvMarked
<1>3. LvSlotsKept
  BY <1>2, FS_EmptySet, LvAssumption DEF LvInit, LvSlotsKept
<1>4. LvBoarded
  BY <1>1 DEF LvInit, LvBoarded, LvFits
<1>5. Board!Init
  BY <1>1, <1>2 DEF LvInit, Board!Init
<1>. QED BY <1>3, <1>4, <1>5

LEMMA LvBoardInvHolds == LvSpec => [](LvSlotsKept /\ LvBoarded)
<1>1. LvInv /\ LvSlotsKept /\ LvBoarded /\ [LvNext]_lvVars => (LvSlotsKept /\ LvBoarded)'
  BY LvSlotsHold, LvStepBoards DEF LvInv
<1>. QED BY <1>1, LvStartsWell, LvInvHolds, PTL DEF LvSpec

\* For any number of jobs and slots: live jobs are shown as LiveBoard promises. A status moves
\* from queued to running to one verdict, no more run than there are slots, and what the
\* shutdown hook has set only the workers it found at work, or waiting, replace.
THEOREM ImplementsBoardHolds == LvSpec => ImplementsBoard
<1>1. LvInv /\ LvSlotsKept /\ LvBoarded /\ [LvNext]_lvVars => [Board!Next]_(Board!boardVars)
  BY LvStepBoards
<1>. QED BY <1>1, LvStartsWell, LvInvHolds, LvBoardInvHolds, PTL
         DEF LvSpec, ImplementsBoard, Board!Spec

\* A verdict stands, but for the one that the hook has given to a job with a worker.
LEMMA LvVerdictStays ==
    ASSUME LvTyped, LvBoarded, [LvNext]_lvVars, NEW j \in LvJobs,
           lvJob[j].status \in {"success", "partial", "failure"}
    PROVE  /\ lvDown => lvDown'
           /\ lvJob'[j].status = lvJob[j].status \/ (lvDown /\ lvJob[j].status = "failure")
<1>1. ASSUME NEW i \in LvJobs,
             \/ LvStart(i) \/ LvAcquire(i) \/ LvValidate(i) \/ LvExtract(i)
             \/ LvWrite(i) \/ LvBreak(i) \/ LvCheck(i) \/ LvBuild(i)
      PROVE  /\ lvDown => lvDown'
             /\ lvJob'[j].status = lvJob[j].status \/ (lvDown /\ lvJob[j].status = "failure")
  <2>1. PICK r \in LvRecords : LvSet(i, r) /\ LvKind(i, r) /\ lvDown' = lvDown
    BY <1>1, LvKinds
  <2>2. CASE i # j
    BY <2>1, <2>2, LvUpdated
  <2>3. CASE i = j
    <3>1. LvFits(lvJob[j].status, lvJob[j].pc)
      BY DEF LvBoarded
    <3>2. CASE lvDown /\ lvJob[j].status = "failure"
      BY <2>1, <3>2
    <3>3. CASE ~(lvDown /\ lvJob[j].status = "failure")
      BY <2>1, <2>3, <3>1, <3>3 DEF LvFits, LvKind, LvHolds
    <3>. QED BY <3>2, <3>3
  <2>. QED BY <2>2, <2>3
<1>2. CASE LvShutdown
  <2>1. lvDown' = TRUE
    BY <1>2, Zenon DEF LvShutdown
  <2>. QED BY <1>2, <2>1, LvHookSees
<1>3. CASE UNCHANGED lvVars
  BY <1>3 DEF lvVars
<1>. QED BY <1>1, <1>2, <1>3, Zenon DEF LvNext

\* A job is never forgotten.
LEMMA LvStartedStays ==
    ASSUME LvTyped, LvBoarded, [LvNext]_lvVars, NEW j \in LvJobs, lvJob[j].status # "none"
    PROVE  lvJob'[j].status # "none"
<1>1. ASSUME NEW i \in LvJobs,
             \/ LvStart(i) \/ LvAcquire(i) \/ LvValidate(i) \/ LvExtract(i)
             \/ LvWrite(i) \/ LvBreak(i) \/ LvCheck(i) \/ LvBuild(i)
      PROVE  lvJob'[j].status # "none"
  <2>1. PICK r \in LvRecords : LvSet(i, r) /\ LvKind(i, r)
    BY <1>1, LvKinds
  <2>2. CASE i # j
    BY <2>1, <2>2, LvUpdated
  <2>3. CASE i = j
    BY <2>1, <2>3, LvUpdated DEF LvKind
  <2>. QED BY <2>2, <2>3
<1>2. CASE LvShutdown
  BY <1>2, LvHookSees
<1>3. CASE UNCHANGED lvVars
  BY <1>3 DEF lvVars
<1>. QED BY <1>1, <1>2, <1>3, Zenon DEF LvNext

\* The hook runs once.
LEMMA LpDownStays == LvTyped /\ [LvNext]_lvVars /\ lvDown => lvDown'
<1>. SUFFICES ASSUME LvTyped, [LvNext]_lvVars, lvDown PROVE lvDown'
  OBVIOUS
<1>1. ~LvShutdown
  BY Zenon DEF LvShutdown
<1>2. ASSUME NEW i \in LvJobs,
             \/ LvStart(i) \/ LvAcquire(i) \/ LvValidate(i) \/ LvExtract(i)
             \/ LvWrite(i) \/ LvBreak(i) \/ LvCheck(i) \/ LvBuild(i)
      PROVE  lvDown'
  BY <1>2, LvKinds
<1>. QED BY <1>1, <1>2, Zenon DEF LvNext, lvVars

LpTyped == lvPage = [j \in LvFollowed |-> lvPage[j]]

\* Only jobs that have been started are followed, and none is forgotten.
LpBegun == \A j \in LvFollowed : lvPage[j].socket = "open" => lvJob[j].status # "none"

LpInv == LpTyped /\ LpTypeOK /\ LpToldLast /\ LpBegun

\* What a socket has sent of job j.
LpSent(j, p) ==
    /\ lvJob[j].status # "none"
    /\ p.told = lvJob[j].status
    /\ p.socket = IF lvJob[j].status \in {"queued", "running"} THEN "open" ELSE "done"

LEMMA LpPageStep ==
    ASSUME LvTyped, LvBoarded, LpInv, UNCHANGED lvVars, NEW j \in LvFollowed,
           LpOpen(j) \/ LpPoll(j) \/ LpLeave(j)
    PROVE  LpInv'
<1>1. j \in LvJobs /\ \A k \in LvFollowed : k \in LvJobs
  BY LvFollowedAssumption
<1>2. lvJob' = lvJob /\ lvDown' = lvDown
  BY DEF lvVars
<1>3. lvJob[j].status \in {"none", "queued", "running", "success", "partial", "failure"}
  BY <1>1 DEF LvTyped, LvRecords
<1>4. PICK p : /\ lvPage' = [lvPage EXCEPT ![j] = p]
               /\ p = LvClosed \/ LpSent(j, p)
  <2>1. CASE LpSend(j) /\ lvJob[j].status # "none"
    <3>1. PICK p : /\ lvPage' = [lvPage EXCEPT ![j] = p]
                   /\ p = [socket |-> IF lvJob[j].status \in {"queued", "running"} THEN "open" ELSE "done",
                           told |-> lvJob[j].status]
      BY <2>1, Zenon DEF LpSend
    <3>2. LpSent(j, p)
      BY <2>1, <3>1 DEF LpSent
    <3>. QED BY <3>1, <3>2, Zenon
  <2>2. CASE lvPage' = [lvPage EXCEPT ![j] = LvClosed]
    BY <2>2, Zenon
  <2>3. LpPoll(j) => lvJob[j].status # "none"
    <3>. SUFFICES ASSUME LpPoll(j) PROVE lvJob[j].status # "none"
      OBVIOUS
    <3>1. lvPage[j].told \in {"queued", "running"} /\ lvPage[j].socket = "open"
      BY DEF LpPoll, LpInv, LpTypeOK, LvClosed
    <3>. QED BY <1>1, <3>1 DEF LpInv, LpBegun
  <2>. QED BY <2>1, <2>2, <2>3, Zenon DEF LpOpen, LpPoll, LpLeave
<1>5. lvPage'[j] = p /\ \A k \in LvFollowed \ {j} : lvPage'[k] = lvPage[k]
  BY <1>4 DEF LpInv, LpTyped
<1>6. LpTyped'
  BY <1>4 DEF LpInv, LpTyped
<1>7. LpTypeOK'
  <2>1. \/ p = LvClosed
        \/ p.socket = "open" /\ p.told \in {"queued", "running"}
        \/ p.socket = "done" /\ p.told \in {"success", "partial", "failure"}
    BY <1>3, <1>4 DEF LpSent
  <2>. QED BY <1>5, <2>1 DEF LpInv, LpTypeOK
<1>8. LpToldLast'
  <2>1. p.socket = "done" => p.told = lvJob[j].status
    BY <1>4 DEF LpSent, LvClosed
  <2>. QED BY <1>2, <1>5, <2>1 DEF LpInv, LpToldLast
<1>9. LpBegun'
  <2>1. p.socket = "open" => lvJob[j].status # "none"
    BY <1>4 DEF LpSent, LvClosed
  <2>. QED BY <1>2, <1>5, <2>1 DEF LpInv, LpBegun
<1>. QED BY <1>6, <1>7, <1>8, <1>9 DEF LpInv

LEMMA LpWorkerStep ==
    ASSUME LvTyped, LvBoarded, LpInv, [LvNext]_lvVars, UNCHANGED lvPage
    PROVE  LpInv'
<1>1. LpTyped' /\ LpTypeOK'
  BY DEF LpInv, LpTyped, LpTypeOK
<1>2. ASSUME NEW j \in LvFollowed, lvPage[j].socket = "done"
      PROVE  \/ lvPage[j].told = lvJob'[j].status
             \/ lvDown' /\ lvPage[j].told = "failure"
  <2>1. j \in LvJobs
    BY LvFollowedAssumption
  <2>2. lvPage[j].told \in {"success", "partial", "failure"}
    BY <1>2 DEF LpInv, LpTypeOK, LvClosed
  <2>3. CASE lvPage[j].told = lvJob[j].status
    BY <2>1, <2>2, <2>3, LvVerdictStays
  <2>4. CASE lvDown /\ lvPage[j].told = "failure"
    BY <2>4, LpDownStays
  <2>. QED BY <1>2, <2>3, <2>4 DEF LpInv, LpToldLast
<1>3. LpToldLast'
  BY <1>2 DEF LpToldLast
<1>4. LpBegun'
  BY LvFollowedAssumption, LvStartedStays DEF LpInv, LpBegun
<1>. QED BY <1>1, <1>3, <1>4 DEF LpInv

\* For any number of jobs, slots and pages: what a socket has sent before it ended is the
\* verdict the job keeps, but for a failure that the shutdown hook has given.
THEOREM LpToldLastHolds == LpSafeSpec => []LpToldLast
<1>1. LpInit => LvInit /\ LpInv
  BY DEF LpInit, LpInv, LpTyped, LpTypeOK, LpToldLast, LpBegun, LvClosed
<1>2. [LpNext]_lpVars => [LvNext]_lvVars
  BY DEF LpNext, lpVars, LpOpen, LpPoll, LpLeave
<1>3. LpSafeSpec => LvSpec
  BY <1>1, <1>2, PTL DEF LpSafeSpec, LvSpec
<1>4. ASSUME LvInv, LvBoarded, LpInv, [LpNext]_lpVars
      PROVE  LpInv'
  <2>1. CASE LvNext /\ UNCHANGED lvPage
    BY <1>4, <2>1, LpWorkerStep DEF LvInv
  <2>2. ASSUME NEW j \in LvFollowed, LpOpen(j) \/ LpPoll(j) \/ LpLeave(j)
        PROVE  LpInv'
    <3>1. UNCHANGED lvVars
      BY <2>2 DEF LpOpen, LpPoll, LpLeave
    <3>. QED BY <1>4, <2>2, <3>1, LpPageStep DEF LvInv
  <2>3. CASE UNCHANGED lpVars
    BY <1>4, <2>3, LpWorkerStep DEF lpVars, LvInv
  <2>. QED BY <1>4, <2>1, <2>2, <2>3, Zenon DEF LpNext
<1>5. LpInv => LpToldLast
  BY DEF LpInv
<1>. QED BY <1>1, <1>3, <1>4, <1>5, LvInvHolds, LvBoardInvHolds, PTL DEF LpSafeSpec

\* For any number of jobs and slots: whichever way a worker leaves "with _LIVE_SEM" (a failed
\* validation, nothing to extract, an exception, a report built or not, a shutdown that
\* overwrites its status meanwhile), it gives back one slot, once: the free slots and the jobs
\* between acquire and end are always all of them.
THEOREM LvTypesHold == LvSpec => []LvTypeOK
<1>1. LvInv /\ LvSlotsKept /\ LvBoarded => LvTypeOK
  <2>. SUFFICES ASSUME LvInv, LvSlotsKept, LvBoarded PROVE LvTypeOK
    OBVIOUS
  <2>1. lvFree = LvSlots - Cardinality(LvHolders)
    BY FS_CardinalityType, LvAssumption DEF LvSlotsKept
  <2>. QED BY <2>1 DEF LvInv, LvTyped, LvTypeOK, LvRecords, LvBoarded
<1>. QED BY <1>1, LvInvHolds, LvBoardInvHolds, PTL

-----------------------------------------------------------------------------
(* ReportCaches *)

RcCallTypes == [pc : {"idle", "lookup", "build", "put"}, kind : RcKinds, addr : Nat, got : Nat]

RcTyped ==
    /\ rcDisk \in Nat \ {0}
    /\ rcHeap \in [RcAddrs -> Nat]
    /\ rcLive \in RcAddrs
    /\ rcLoad \in RcKinds \cup {"idle"}
    /\ rcCache \in [RcKinds -> [RcAddrs -> Nat]]
    /\ rcCall \in [RcCalls -> RcCallTypes]
    /\ \A c \in RcCalls : rcCall[c].pc # "idle" => rcCall[c].addr \in RcAddrs
    /\ rcLate \in BOOLEAN

\* The report in REPORT_STORE is the newest in memory and not newer than the file.
RcNewest == \A a \in RcAddrs : rcHeap[a] <= rcHeap[rcLive] /\ rcHeap[rcLive] <= rcDisk

\* A load has replaced the report and has not cleared this cache yet.
RcUncleared(k) == rcLoad = "coquery" \/ rcLoad = k

\* A cache that is cleared holds nothing, under any address, but content of that report.
RcFresh ==
    ~rcLate => \A k \in RcKinds, a \in RcAddrs :
                  RcUncleared(k) \/ rcCache[k][a] \in {0, rcHeap[rcLive]}

\* A graph has an edge for each neighbour.
RcWhole(shown) == \A t \in shown.nodes \ {shown.center} : {shown.center, t} \in shown.edges

\* Its edges are pairs of the report it is of or foreign keys of the DDL files of then.
RcHonest(shown) ==
    shown.edges \subseteq RcCoQueries[shown.of] \cup {{k[1], k[2]} : k \in RcForeignKeys[shown.of]}

RcInv ==
    /\ RcTyped /\ RcNewest /\ RcFresh
    /\ RcWhole(rcShown)
    /\ ~rcLate /\ rcShown.of = rcDisk => RcHonest(rcShown)

LEMMA RcCollectedKeeps ==
    ASSUME NEW heap \in [RcAddrs -> Nat], NEW live \in RcAddrs, NEW calls
    PROVE  /\ RcCollected(heap, live, calls) \in [RcAddrs -> Nat]
           /\ RcCollected(heap, live, calls)[live] = heap[live]
           /\ \A a \in RcAddrs : RcCollected(heap, live, calls)[a] \in {0, heap[a]}
BY DEF RcCollected

LEMMA RcNoGraphWhole == RcNoGraph.of = 0 /\ RcWhole(RcNoGraph)
BY DEF RcNoGraph, RcWhole

\* What a request answers is whole, and true when its content is of the version on disk.
LEMMA RcAnswers ==
    ASSUME RcTyped, RcNewest, NEW c \in RcCalls, rcCall[c].pc # "idle", NEW got,
           RcAnswer(rcCall[c], got)
    PROVE  /\ RcWhole(rcShown')
           /\ rcShown'.of = rcDisk => rcLoad = "idle" /\ rcHeap[rcLive] = rcDisk
           /\ rcShown'.of = rcDisk /\ got = rcDisk => RcHonest(rcShown')
<1>. DEFINE of == IF rcLoad = "idle" THEN rcHeap[rcCall[c].addr] ELSE 0
            pairs == RcCoQueries[rcHeap[rcCall[c].addr]]
            linked == {{k[1], k[2]} : k \in RcForeignKeys[got]}
<1>1. of = rcDisk => /\ rcLoad = "idle" /\ rcHeap[rcLive] = rcDisk
                     /\ rcHeap[rcCall[c].addr] = rcDisk
  <2>1. /\ rcDisk \in Nat \ {0} /\ rcCall[c].addr \in RcAddrs
        /\ rcHeap[rcCall[c].addr] \in Nat /\ rcHeap[rcLive] \in Nat
    BY DEF RcTyped
  <2>. QED BY <2>1 DEF RcNewest
<1>2. CASE rcCall[c].kind = "coquery"
  <2>1. PICK center \in RcTables :
            rcShown' = [of |-> of, center |-> center,
                        nodes |-> RcCoSubgraph(RcCoQueries[got], center).nodes,
                        edges |-> RcCoSubgraph(RcCoQueries[got], center).edges]
    BY <1>2, Zenon DEF RcAnswer
  <2>. DEFINE nodes == {center} \cup {t \in RcTables : {center, t} \in RcCoQueries[got]}
  <2>2. /\ rcShown'.of = of /\ rcShown'.center = center /\ rcShown'.nodes = nodes
        /\ rcShown'.edges = {p \in RcCoQueries[got] : p \subseteq nodes}
    BY <2>1 DEF RcCoSubgraph
  <2>3. RcWhole(rcShown')
    BY <2>2 DEF RcWhole
  <2>4. rcShown'.of = rcDisk /\ got = rcDisk => RcHonest(rcShown')
    BY <1>1, <2>2 DEF RcHonest
  <2>. QED BY <1>1, <2>2, <2>3, <2>4
<1>3. CASE rcCall[c].kind # "coquery"
  <2>1. PICK center \in RcTables :
            rcShown' = [of |-> of, center |-> center,
                        nodes |-> RcKeySubgraph(RcForeignKeys[got], pairs, center).nodes,
                        edges |-> RcKeySubgraph(RcForeignKeys[got], pairs, center).edges]
    BY <1>3, Zenon DEF RcAnswer
  <2>. DEFINE nodes == {center} \cup {t \in RcTables : {center, t} \in linked \cup pairs}
  <2>2. /\ rcShown'.of = of /\ rcShown'.center = center /\ rcShown'.nodes = nodes
        /\ rcShown'.edges = {p \in linked : p \subseteq nodes}
                               \cup ({{center, t} : t \in nodes \ {center}} \cap pairs)
    BY <2>1 DEF RcKeySubgraph
  <2>3. RcWhole(rcShown')
    <3>. HIDE DEF linked, pairs
    <3>. QED BY <2>2 DEF RcWhole
  <2>4. ASSUME rcShown'.of = rcDisk, got = rcDisk PROVE RcHonest(rcShown')
    <3>1. rcShown'.edges \subseteq linked \cup pairs
      <4>. HIDE DEF linked, pairs
      <4>. QED BY <2>2
    <3>2. rcHeap[rcCall[c].addr] = rcDisk
      BY <1>1, <2>2, <2>4
    <3>. QED BY <2>4, <3>1, <3>2 DEF RcHonest
  <2>. QED BY <1>1, <2>2, <2>3, <2>4
<1>. QED BY <1>2, <1>3

\* The report object at a free address a becomes the live one, with version v.
LEMMA RcReplaced ==
    ASSUME RcTyped, RcNewest, NEW a \in RcAddrs, NEW v \in Nat, rcHeap[rcLive] <= v, v <= rcDisk,
           NEW heap, heap = [rcHeap EXCEPT ![a] = v],
           rcLive' = a, rcHeap' = RcCollected(heap, a, rcCall), UNCHANGED rcDisk
    PROVE  rcHeap' \in [RcAddrs -> Nat] /\ rcHeap'[rcLive'] = v /\ RcNewest'
<1>2. /\ heap \in [RcAddrs -> Nat] /\ heap[a] = v
      /\ \A b \in RcAddrs \ {a} : heap[b] = rcHeap[b]
  BY DEF RcTyped
<1>4. /\ rcHeap' \in [RcAddrs -> Nat] /\ rcHeap'[a] = v
      /\ \A b \in RcAddrs : rcHeap'[b] \in {0, heap[b]}
  BY <1>2, RcCollectedKeeps
<1>5. ASSUME NEW b \in RcAddrs PROVE rcHeap'[b] <= rcHeap'[rcLive'] /\ rcHeap'[rcLive'] <= rcDisk'
  <2>1. rcHeap[b] \in Nat /\ rcHeap[rcLive] \in Nat /\ rcHeap[b] <= rcHeap[rcLive] /\ rcDisk \in Nat
    BY DEF RcTyped, RcNewest
  <2>2. heap[b] <= v
    BY <1>2, <2>1
  <2>3. rcHeap'[b] \in {0, heap[b]} /\ rcHeap'[rcLive'] = v
    BY <1>4
  <2>. QED BY <2>2, <2>3
<1>. QED BY <1>4, <1>5 DEF RcNewest

LEMMA RcReportStep ==
    ASSUME RcInv, RcRegenerate \/ RcLoadStore \/ RcLoadClear \/ RcHitlCopy
    PROVE  RcInv'
<1>. USE DEF RcInv
<1>1. rcShown' = RcNoGraph /\ UNCHANGED <<rcCall, rcLate>>
  BY DEF RcRegenerate, RcLoadStore, RcLoadClear, RcHitlCopy
<1>2. rcDisk' \in Nat \ {0}
  BY DEF RcTyped, RcRegenerate, RcLoadStore, RcLoadClear, RcHitlCopy
<1>3. RcWhole(rcShown') /\ (~rcLate' /\ rcShown'.of = rcDisk' => RcHonest(rcShown'))
  BY <1>1, <1>2, RcNoGraphWhole
<1>4. CASE RcRegenerate
  <2>1. UNCHANGED <<rcHeap, rcLive, rcLoad, rcCache, rcCall, rcLate>> /\ rcDisk' = rcDisk + 1
    BY <1>4 DEF RcRegenerate
  <2>2. RcNewest'
    <3>1. \A a \in RcAddrs : rcHeap[a] \in Nat
      BY DEF RcTyped
    <3>2. rcLive \in RcAddrs /\ rcDisk \in Nat
      BY DEF RcTyped
    <3>. QED BY <2>1, <3>1, <3>2 DEF RcNewest
  <2>3. RcTyped' /\ RcFresh'
    BY <1>2, <2>1 DEF RcTyped, RcFresh, RcUncleared
  <2>. QED BY <1>3, <2>2, <2>3
<1>5. CASE RcLoadStore
  <2>0. PICK a \in RcAddrs : \E heap :
            /\ heap = [rcHeap EXCEPT ![a] = rcDisk]
            /\ rcLive' = a /\ rcHeap' = RcCollected(heap, a, rcCall)
    BY <1>5, Zenon DEF RcLoadStore, RcFree
  <2>1. PICK heap :
            /\ heap = [rcHeap EXCEPT ![a] = rcDisk]
            /\ rcLive' = a /\ rcHeap' = RcCollected(heap, a, rcCall)
    BY <2>0
  <2>2. rcLoad' = "coquery" /\ UNCHANGED <<rcDisk, rcCache>>
    BY <1>5 DEF RcLoadStore
  <2>3. rcHeap' \in [RcAddrs -> Nat] /\ RcNewest'
    <3>1. rcDisk \in Nat /\ rcHeap[rcLive] <= rcDisk /\ rcDisk <= rcDisk
      BY DEF RcTyped, RcNewest
    <3>. QED BY <2>1, <2>2, <3>1, RcReplaced
  <2>4. RcTyped' /\ RcFresh'
    BY <1>1, <2>1, <2>2, <2>3 DEF RcTyped, RcFresh, RcUncleared, RcKinds
  <2>. QED BY <1>3, <2>3, <2>4
<1>6. CASE RcHitlCopy
  <2>0. PICK a \in RcAddrs : \E heap :
            /\ heap = [rcHeap EXCEPT ![a] = rcHeap[rcLive]]
            /\ rcLive' = a /\ rcHeap' = RcCollected(heap, a, rcCall)
    BY <1>6, Zenon DEF RcHitlCopy, RcFree
  <2>1. PICK heap :
            /\ heap = [rcHeap EXCEPT ![a] = rcHeap[rcLive]]
            /\ rcLive' = a /\ rcHeap' = RcCollected(heap, a, rcCall)
    BY <2>0
  <2>2. UNCHANGED <<rcDisk, rcLoad, rcCache>>
    BY <1>6 DEF RcHitlCopy
  <2>3. rcHeap' \in [RcAddrs -> Nat] /\ RcNewest' /\ rcHeap'[rcLive'] = rcHeap[rcLive]
    <3>1. rcHeap[rcLive] \in Nat /\ rcHeap[rcLive] <= rcDisk /\ rcHeap[rcLive] <= rcHeap[rcLive]
      BY DEF RcTyped, RcNewest
    <3>. QED BY <2>1, <2>2, <3>1, RcReplaced
  <2>4. RcTyped' /\ RcFresh'
    BY <1>1, <2>1, <2>2, <2>3 DEF RcTyped, RcFresh, RcUncleared
  <2>. QED BY <1>3, <2>3, <2>4
<1>7. CASE RcLoadClear
  <2>1. /\ rcLoad \in RcKinds /\ rcCache' = [rcCache EXCEPT ![rcLoad] = [a \in RcAddrs |-> 0]]
        /\ rcLoad' = IF rcLoad = "coquery" THEN "pk_fk" ELSE "idle"
        /\ UNCHANGED <<rcDisk, rcHeap, rcLive>>
    BY <1>7 DEF RcLoadClear, RcClear, RcTyped
  <2>2. /\ \A a \in RcAddrs : rcCache'[rcLoad][a] = 0
        /\ \A k \in RcKinds \ {rcLoad} : rcCache'[k] = rcCache[k]
        /\ rcCache' \in [RcKinds -> [RcAddrs -> Nat]]
    BY <2>1 DEF RcTyped
  <2>3. RcTyped' /\ RcNewest'
    BY <1>1, <2>1, <2>2 DEF RcTyped, RcNewest, RcKinds
  <2>4. RcFresh'
    BY <1>1, <2>1, <2>2 DEF RcFresh, RcUncleared, RcKinds
  <2>. QED BY <1>3, <2>3, <2>4
<1>. QED BY <1>4, <1>5, <1>6, <1>7

\* References are dropped: an object may be freed, never the live one.
LEMMA RcDropped ==
    ASSUME RcTyped, RcNewest, NEW calls, rcHeap' = RcCollected(rcHeap, rcLive, calls),
           UNCHANGED <<rcDisk, rcLive>>
    PROVE  rcHeap' \in [RcAddrs -> Nat] /\ rcHeap'[rcLive] = rcHeap[rcLive] /\ RcNewest'
<1>1. /\ rcHeap' \in [RcAddrs -> Nat] /\ rcHeap'[rcLive] = rcHeap[rcLive]
      /\ \A a \in RcAddrs : rcHeap'[a] \in {0, rcHeap[a]}
  BY RcCollectedKeeps DEF RcTyped
<1>2. ASSUME NEW a \in RcAddrs PROVE rcHeap'[a] <= rcHeap'[rcLive'] /\ rcHeap'[rcLive'] <= rcDisk'
  <2>1. rcHeap[a] \in Nat /\ rcHeap[rcLive] \in Nat /\ rcHeap[a] <= rcHeap[rcLive]
        /\ rcHeap[rcLive] <= rcDisk
    BY DEF RcTyped, RcNewest
  <2>2. rcHeap'[a] \in {0, rcHeap[a]}
    BY <1>1
  <2>. QED BY <1>1, <2>1, <2>2
<1>. QED BY <1>1, <1>2 DEF RcNewest

LEMMA RcRequestStep ==
    ASSUME RcInv, NEW c \in RcCalls, RcAsk(c) \/ RcLookup(c) \/ RcBuild(c) \/ RcPut(c)
    PROVE  RcInv'
<1>. USE DEF RcInv
<1>. DEFINE call == rcCall[c]
<1>1. call \in RcCallTypes /\ UNCHANGED <<rcDisk, rcLive, rcLoad>>
  BY DEF RcTyped, RcAsk, RcLookup, RcBuild, RcPut
<1>2. RcIdle \in RcCallTypes /\ RcIdle.pc = "idle"
  BY DEF RcIdle, RcCallTypes, RcKinds
<1>3. CASE RcAsk(c)
  <2>1. PICK k \in RcKinds :
            rcCall' = [rcCall EXCEPT ![c] = [pc |-> "lookup", kind |-> k, addr |-> rcLive, got |-> 0]]
    BY <1>3 DEF RcAsk
  <2>2. rcShown' = RcNoGraph /\ UNCHANGED <<rcDisk, rcHeap, rcLive, rcLoad, rcCache, rcLate>>
    BY <1>3 DEF RcAsk
  <2>3. rcLive \in Nat
    BY RcAssumption DEF RcTyped, RcAddrs
  <2>4. RcTyped'
    BY <2>1, <2>2, <2>3 DEF RcTyped, RcCallTypes
  <2>5. RcNewest' /\ RcFresh'
    BY <2>2 DEF RcNewest, RcFresh, RcUncleared
  <2>6. RcWhole(rcShown') /\ (rcShown'.of = rcDisk' => RcHonest(rcShown'))
    BY <2>2, RcNoGraphWhole DEF RcTyped
  <2>. QED BY <2>4, <2>5, <2>6
<1>4. CASE RcBuild(c)
  <2>1. /\ call.pc = "build" /\ rcShown' = RcNoGraph
        /\ rcCall' = [rcCall EXCEPT ![c].pc = "put", ![c].got = RcBuilt(call)]
        /\ UNCHANGED <<rcDisk, rcHeap, rcLive, rcLoad, rcCache, rcLate>>
    BY <1>4 DEF RcBuild
  <2>2. RcBuilt(call) \in Nat /\ call.addr \in RcAddrs
    BY <2>1 DEF RcBuilt, RcTyped
  <2>3. PICK got \in Nat : got = RcBuilt(call)
    BY <2>2
  <2>4. rcCall' = [rcCall EXCEPT ![c].pc = "put", ![c].got = got]
    BY <2>1, <2>3, Zenon
  <2>5. /\ rcCall' \in [RcCalls -> RcCallTypes] /\ rcCall'[c].addr = call.addr
        /\ \A d \in RcCalls \ {c} : rcCall'[d] = rcCall[d]
    BY <2>4 DEF RcTyped, RcCallTypes
  <2>6. RcTyped'
    BY <2>1, <2>2, <2>5 DEF RcTyped
  <2>7. RcNewest' /\ RcFresh'
    BY <2>1 DEF RcNewest, RcFresh, RcUncleared
  <2>8. RcWhole(rcShown') /\ (rcShown'.of = rcDisk' => RcHonest(rcShown'))
    BY <2>1, RcNoGraphWhole DEF RcTyped
  <2>. QED BY <2>6, <2>7, <2>8
<1>5. CASE RcLookup(c)
  <2>. DEFINE cached == rcCache[call.kind][call.addr]
              next == IF cached # 0 THEN RcIdle ELSE [call EXCEPT !.pc = "build"]
              calls == [rcCall EXCEPT ![c] = next]
  <2>1. /\ call.pc = "lookup" /\ rcCall' = calls /\ rcHeap' = RcCollected(rcHeap, rcLive, calls)
        /\ IF calls[c] = RcIdle THEN RcAnswer(call, cached) ELSE rcShown' = RcNoGraph
        /\ UNCHANGED <<rcCache, rcLate>>
    BY <1>5, Zenon DEF RcLookup
  <2>2. /\ cached \in Nat /\ call.addr \in RcAddrs /\ call.kind \in RcKinds
        /\ rcDisk \in Nat \ {0}
    BY <2>1 DEF RcTyped, RcCallTypes
  <2>3. /\ next \in RcCallTypes /\ (next.pc # "idle" => next.addr \in RcAddrs)
        /\ (cached = 0 => next.pc = "build")
    <3>1. PICK old \in RcCallTypes : old = call
      BY <1>1
    <3>2. PICK moved : moved = [old EXCEPT !.pc = "build"]
      OBVIOUS
    <3>3. moved \in RcCallTypes /\ moved.addr = call.addr /\ moved.pc = "build"
      BY <3>1, <3>2 DEF RcCallTypes
    <3>4. next = IF cached # 0 THEN RcIdle ELSE moved
      BY <3>1, <3>2, Zenon
    <3>. HIDE DEF next, cached
    <3>. QED BY <1>2, <2>2, <3>3, <3>4
  <2>4. calls[c] = next /\ (calls[c] = RcIdle => cached # 0)
    <3>1. calls[c] = next
      <4>. HIDE DEF next
      <4>. QED BY DEF RcTyped
    <3>. QED BY <1>2, <2>3, <3>1, Zenon
  <2>. HIDE DEF next
  <2>5. /\ rcCall' \in [RcCalls -> RcCallTypes] /\ rcCall'[c] = next
        /\ \A d \in RcCalls \ {c} : rcCall'[d] = rcCall[d]
    BY <2>1, <2>3 DEF RcTyped
  <2>6. rcHeap' \in [RcAddrs -> Nat] /\ rcHeap'[rcLive] = rcHeap[rcLive] /\ RcNewest'
    BY <1>1, <2>1, RcDropped
  <2>7. RcTyped' /\ RcFresh'
    BY <1>1, <2>1, <2>3, <2>5, <2>6 DEF RcTyped, RcFresh, RcUncleared
  <2>8. RcWhole(rcShown') /\ (~rcLate' /\ rcShown'.of = rcDisk' => RcHonest(rcShown'))
    <3>1. CASE calls[c] = RcIdle
      <4>1. /\ RcWhole(rcShown')
            /\ rcShown'.of = rcDisk => rcLoad = "idle" /\ rcHeap[rcLive] = rcDisk
            /\ rcShown'.of = rcDisk /\ cached = rcDisk => RcHonest(rcShown')
        <5>1. RcAnswer(rcCall[c], cached) /\ rcCall[c].pc # "idle"
          BY <2>1, <3>1
        <5>. HIDE DEF cached, calls
        <5>. QED BY <5>1, RcAnswers
      <4>2. ~rcLate /\ rcLoad = "idle" => cached \in {0, rcHeap[rcLive]}
        BY <2>2 DEF RcFresh, RcUncleared, RcKinds
      <4>. QED BY <1>1, <2>1, <2>4, <3>1, <4>1, <4>2
    <3>2. CASE calls[c] # RcIdle
      BY <1>1, <2>1, <2>2, <3>2, RcNoGraphWhole
    <3>. QED BY <3>1, <3>2
  <2>. QED BY <2>6, <2>7, <2>8
<1>6. CASE RcPut(c)
  <2>. DEFINE calls == [rcCall EXCEPT ![c] = RcIdle]
  <2>1. /\ call.pc = "put" /\ rcCall' = calls /\ rcHeap' = RcCollected(rcHeap, rcLive, calls)
        /\ rcCache' = [rcCache EXCEPT ![call.kind][call.addr] = call.got]
        /\ RcAnswer(call, call.got)
        /\ rcLate' = (rcLate \/ call.got # rcHeap[rcLive])
    BY <1>6, Zenon DEF RcPut
  <2>2. /\ call.got \in Nat /\ call.addr \in RcAddrs /\ call.kind \in RcKinds
        /\ rcLate' \in BOOLEAN
    BY <2>1 DEF RcTyped, RcCallTypes
  <2>3. /\ rcCall' \in [RcCalls -> RcCallTypes] /\ rcCall'[c].pc = "idle"
        /\ \A d \in RcCalls \ {c} : rcCall'[d] = rcCall[d]
    BY <1>2, <2>1 DEF RcTyped
  <2>4. rcHeap' \in [RcAddrs -> Nat] /\ rcHeap'[rcLive] = rcHeap[rcLive] /\ RcNewest'
    BY <1>1, <2>1, RcDropped
  <2>5. /\ rcCache' \in [RcKinds -> [RcAddrs -> Nat]]
        /\ rcCache'[call.kind][call.addr] = call.got
        /\ \A k \in RcKinds, a \in RcAddrs :
              (k = call.kind /\ a = call.addr) \/ rcCache'[k][a] = rcCache[k][a]
    BY <2>1, <2>2 DEF RcTyped
  <2>6. RcTyped'
    BY <1>1, <2>2, <2>3, <2>4, <2>5 DEF RcTyped
  <2>7. ~rcLate' => ~rcLate /\ call.got = rcHeap[rcLive]
    BY <2>1 DEF RcTyped
  <2>8. RcFresh'
    BY <1>1, <2>4, <2>5, <2>7 DEF RcFresh, RcUncleared
  <2>9. RcWhole(rcShown') /\ (~rcLate' /\ rcShown'.of = rcDisk' => RcHonest(rcShown'))
    <3>1. /\ RcWhole(rcShown')
          /\ rcShown'.of = rcDisk => rcLoad = "idle" /\ rcHeap[rcLive] = rcDisk
          /\ rcShown'.of = rcDisk /\ call.got = rcDisk => RcHonest(rcShown')
      <4>1. RcAnswer(rcCall[c], call.got) /\ rcCall[c].pc # "idle"
        BY <2>1
      <4>. QED BY <4>1, RcAnswers
    <3>. QED BY <1>1, <2>7, <3>1
  <2>. QED BY <2>4, <2>6, <2>8, <2>9
<1>. QED BY <1>3, <1>4, <1>5, <1>6

LEMMA RcInitInv == RcInit => RcInv
<1>. SUFFICES ASSUME RcInit PROVE RcInv
  OBVIOUS
<1>1. PICK live \in RcAddrs : rcLive = live /\ rcHeap = [b \in RcAddrs |-> IF b = live THEN 1 ELSE 0]
  BY DEF RcInit
<1>2. RcIdle \in RcCallTypes /\ RcIdle.pc = "idle"
  BY DEF RcIdle, RcCallTypes, RcKinds
<1>3. RcTyped
  <2>1. PICK idle \in RcCallTypes : idle = RcIdle
    BY <1>2
  <2>2. rcCall = [c \in RcCalls |-> idle] /\ idle.pc = "idle"
    BY <1>2, <2>1, Zenon DEF RcInit
  <2>3. rcHeap \in [RcAddrs -> Nat] /\ rcCache \in [RcKinds -> [RcAddrs -> Nat]]
    BY <1>1 DEF RcInit
  <2>4. rcDisk = 1 /\ rcLoad = "idle" /\ rcLate = FALSE /\ rcLive \in RcAddrs
    BY <1>1 DEF RcInit
  <2>5. rcCall \in [RcCalls -> RcCallTypes] /\ \A c \in RcCalls : rcCall[c].pc = "idle"
    BY <2>2
  <2>6. rcDisk \in Nat \ {0} /\ rcLoad \in RcKinds \cup {"idle"} /\ rcLate \in BOOLEAN
    <3>1. rcDisk \in Nat \ {0}
      BY <2>4
    <3>2. rcLoad \in RcKinds \cup {"idle"}
      BY <2>4 DEF RcKinds
    <3>3. rcLate \in BOOLEAN
      BY <2>4
    <3>. QED BY <3>1, <3>2, <3>3
  <2>7. \A c \in RcCalls : rcCall[c].pc # "idle" => rcCall[c].addr \in RcAddrs
    BY <2>5
  <2>. QED BY <2>3, <2>4, <2>5, <2>6, <2>7, Zenon DEF RcTyped
<1>4. RcNewest /\ RcFresh
  BY <1>1 DEF RcInit, RcNewest, RcFresh
<1>5. RcWhole(rcShown) /\ rcShown.of # rcDisk
  BY RcNoGraphWhole DEF RcInit
<1>. QED BY <1>3, <1>4, <1>5 DEF RcInv

LEMMA RcStep == RcInv /\ [RcNext]_rcVars => RcInv'
<1>1. RcInv /\ UNCHANGED rcVars => RcInv'
  <2>. SUFFICES ASSUME RcInv, UNCHANGED rcVars PROVE RcInv'
    OBVIOUS
  <2>1. RcTyped' /\ RcNewest' /\ RcFresh'
    BY DEF rcVars, RcInv, RcTyped, RcNewest, RcFresh, RcUncleared
  <2>2. rcShown' = rcShown /\ rcLate' = rcLate /\ rcDisk' = rcDisk
    BY DEF rcVars
  <2>. QED BY <2>1, <2>2 DEF RcInv
<1>. QED BY <1>1, RcReportStep, RcRequestStep DEF RcNext

\* For any number of requests, addresses and versions, any tables, foreign keys and pairs:
\* once a load is complete no cache serves another report's graph, unless a request that was
\* overtaken cached its result, and the graphs are whole and true.
THEOREM RcServesOwnReportHolds == RcSpec => []RcServesOwnReport
<1>1. RcInv => RcServesOwnReport
  <2>. SUFFICES ASSUME RcInv PROVE RcServesOwnReport
    OBVIOUS
  <2>1. rcLoad = "idle" /\ ~rcLate => \A k \in RcKinds : rcCache[k][rcLive] \in {0, rcHeap[rcLive]}
    BY DEF RcInv, RcTyped, RcFresh, RcUncleared, RcKinds
  <2>. QED BY <2>1 DEF RcInv, RcWhole, RcHonest, RcServesOwnReport
<1>. QED BY <1>1, RcInitInv, RcStep, PTL DEF RcSpec

\* What is in memory, cached, held or answered is of a version that was on the disk, and
\* the live report is of one.
RcWritten ==
    /\ rcDisk <= RcVersions
    /\ rcHeap[rcLive] # 0
    /\ \A k \in RcKinds, a \in RcAddrs : rcCache[k][a] <= rcDisk
    /\ \A c \in RcCalls : rcCall[c].got <= rcDisk
    /\ rcShown.of \in Nat /\ rcShown.of <= rcDisk
    /\ rcShown.nodes \subseteq RcTables

LEMMA RcAnswersKnown ==
    ASSUME RcTyped, RcNewest, NEW c \in RcCalls, rcCall[c].pc # "idle", NEW got,
           RcAnswer(rcCall[c], got)
    PROVE  /\ rcShown'.of \in Nat /\ rcShown'.of <= rcDisk
           /\ rcShown'.nodes \subseteq RcTables
<1>1. rcShown'.of = 0 \/ rcShown'.of = rcHeap[rcCall[c].addr]
  BY DEF RcAnswer
<1>2. rcCall[c].addr \in RcAddrs
  BY DEF RcTyped
<1>3. rcHeap[rcCall[c].addr] \in Nat /\ rcHeap[rcLive] \in Nat /\ rcDisk \in Nat
  BY <1>2 DEF RcTyped
<1>4. rcHeap[rcCall[c].addr] <= rcDisk
  BY <1>2, <1>3 DEF RcNewest
<1>5. rcShown'.nodes \subseteq RcTables
  <2>1. ASSUME NEW pairs, NEW center \in RcTables
        PROVE  RcCoSubgraph(pairs, center).nodes \subseteq RcTables
    BY DEF RcCoSubgraph
  <2>2. ASSUME NEW keys, NEW pairs, NEW center \in RcTables
        PROVE  RcKeySubgraph(keys, pairs, center).nodes \subseteq RcTables
    BY DEF RcKeySubgraph
  <2>3. \E center \in RcTables :
           \/ rcShown'.nodes = RcCoSubgraph(RcCoQueries[got], center).nodes
           \/ rcShown'.nodes = RcKeySubgraph(RcForeignKeys[got],
                                             RcCoQueries[rcHeap[rcCall[c].addr]], center).nodes
    BY DEF RcAnswer
  <2>. QED BY <2>1, <2>2, <2>3
<1>. QED BY <1>1, <1>3, <1>4, <1>5

LEMMA RcWrittenReport ==
    ASSUME RcInv, RcWritten, RcRegenerate \/ RcLoadStore \/ RcLoadClear \/ RcHitlCopy
    PROVE  RcWritten'
<1>. USE DEF RcInv, RcWritten
<1>1. /\ rcShown' = RcNoGraph /\ UNCHANGED rcCall
      /\ rcDisk' = rcDisk \/ (rcDisk < RcVersions /\ rcDisk' = rcDisk + 1)
  BY DEF RcRegenerate, RcLoadStore, RcLoadClear, RcHitlCopy
<1>2. rcDisk \in Nat /\ rcDisk' \in Nat /\ rcDisk <= rcDisk' /\ rcDisk' <= RcVersions
  BY <1>1, RcAssumption DEF RcTyped
<1>3. rcShown'.of = 0 /\ rcShown'.nodes = {}
  BY <1>1 DEF RcNoGraph
<1>4. \A c \in RcCalls : rcCall[c].got \in Nat
  BY DEF RcTyped, RcCallTypes
<1>5. \A k \in RcKinds, a \in RcAddrs : rcCache[k][a] \in Nat
  BY DEF RcTyped
<1>6. \A k \in RcKinds, a \in RcAddrs : rcCache'[k][a] <= rcDisk'
  <2>1. ASSUME NEW k \in RcKinds, NEW a \in RcAddrs
        PROVE  rcCache'[k][a] = 0 \/ rcCache'[k][a] = rcCache[k][a]
    <3>1. CASE UNCHANGED rcCache
      BY <3>1
    <3>2. CASE rcCache' = [rcCache EXCEPT ![rcLoad] = [b \in RcAddrs |-> 0]]
      BY <3>2 DEF RcTyped
    <3>. QED BY <3>1, <3>2 DEF RcRegenerate, RcLoadStore, RcLoadClear, RcHitlCopy, RcClear
  <2>2. ASSUME NEW k \in RcKinds, NEW a \in RcAddrs PROVE rcCache'[k][a] <= rcDisk'
    <3>1. rcCache[k][a] \in Nat /\ rcCache[k][a] <= rcDisk
      BY <1>5
    <3>2. rcCache'[k][a] = 0 \/ rcCache'[k][a] = rcCache[k][a]
      BY <2>1
    <3>. QED BY <1>2, <3>1, <3>2
  <2>. QED BY <2>2
<1>7. rcHeap'[rcLive'] # 0
  <2>0. rcHeap[rcLive] \in Nat /\ rcDisk # 0
    BY DEF RcTyped
  <2>1. CASE UNCHANGED <<rcHeap, rcLive>>
    BY <2>1
  <2>2. ASSUME NEW a \in RcAddrs, NEW v \in Nat \ {0}, rcHeap[rcLive] <= v, v <= rcDisk, rcLive' = a,
               rcHeap' = RcCollected([rcHeap EXCEPT ![a] = v], a, rcCall), UNCHANGED rcDisk
        PROVE  rcHeap'[rcLive'] # 0
    <3>1. PICK heap : heap = [rcHeap EXCEPT ![a] = v]
      OBVIOUS
    <3>2. rcHeap' = RcCollected(heap, a, rcCall)
      BY <2>2, <3>1, Zenon
    <3>3. rcHeap'[rcLive'] = v
      BY <2>2, <3>1, <3>2, RcReplaced
    <3>. QED BY <3>3
  <2>3. CASE RcLoadStore
    <3>1. PICK a \in RcAddrs :
             rcLive' = a /\ rcHeap' = RcCollected([rcHeap EXCEPT ![a] = rcDisk], a, rcCall)
      BY <2>3, Zenon DEF RcLoadStore, RcFree
    <3>2. rcDisk \in Nat \ {0} /\ rcHeap[rcLive] <= rcDisk /\ rcDisk <= rcDisk /\ UNCHANGED rcDisk
      BY <2>3 DEF RcLoadStore, RcTyped, RcNewest
    <3>. QED BY <2>2, <3>1, <3>2
  <2>4. CASE RcHitlCopy
    <3>1. PICK a \in RcAddrs :
             rcLive' = a /\ rcHeap' = RcCollected([rcHeap EXCEPT ![a] = rcHeap[rcLive]], a, rcCall)
      BY <2>4, Zenon DEF RcHitlCopy, RcFree
    <3>2. /\ rcHeap[rcLive] \in Nat \ {0} /\ rcHeap[rcLive] <= rcHeap[rcLive]
          /\ rcHeap[rcLive] <= rcDisk /\ UNCHANGED rcDisk
      BY <2>0, <2>4 DEF RcHitlCopy, RcTyped, RcNewest
    <3>. QED BY <2>2, <3>1, <3>2
  <2>. QED BY <2>1, <2>3, <2>4 DEF RcRegenerate, RcLoadClear
<1>8. \A c \in RcCalls : rcCall'[c].got <= rcDisk'
  BY <1>1, <1>2, <1>4
<1>. QED BY <1>2, <1>3, <1>6, <1>7, <1>8

LEMMA RcWrittenRequest ==
    ASSUME RcInv, RcWritten, NEW c \in RcCalls, RcAsk(c) \/ RcLookup(c) \/ RcBuild(c) \/ RcPut(c)
    PROVE  RcWritten'
<1>. USE DEF RcInv, RcWritten
<1>. DEFINE call == rcCall[c]
<1>1. call \in RcCallTypes /\ UNCHANGED <<rcDisk, rcLive, rcLoad>>
  BY DEF RcTyped, RcAsk, RcLookup, RcBuild, RcPut
<1>2. RcIdle \in RcCallTypes /\ RcIdle.pc = "idle" /\ RcIdle.got = 0
  BY DEF RcIdle, RcCallTypes, RcKinds
<1>3. rcDisk \in Nat /\ 0 <= rcDisk
  BY DEF RcTyped
<1>4. RcNoGraph.of = 0 /\ RcNoGraph.nodes = {}
  BY DEF RcNoGraph
<1>5. CASE RcAsk(c)
  <2>1. PICK k \in RcKinds :
            rcCall' = [rcCall EXCEPT ![c] = [pc |-> "lookup", kind |-> k, addr |-> rcLive, got |-> 0]]
    BY <1>5 DEF RcAsk
  <2>2. rcShown' = RcNoGraph /\ UNCHANGED <<rcHeap, rcCache>>
    BY <1>5 DEF RcAsk
  <2>3. \A d \in RcCalls : rcCall'[d].got = 0 \/ rcCall'[d].got = rcCall[d].got
    BY <2>1 DEF RcTyped
  <2>4. \A d \in RcCalls : rcCall'[d].got <= rcDisk
    BY <1>3, <2>3
  <2>. QED BY <1>1, <1>3, <1>4, <2>2, <2>4
<1>6. CASE RcBuild(c)
  <2>1. /\ call.pc = "build" /\ rcShown' = RcNoGraph
        /\ rcCall' = [rcCall EXCEPT ![c].pc = "put", ![c].got = RcBuilt(call)]
        /\ UNCHANGED <<rcHeap, rcCache>>
    BY <1>6 DEF RcBuild
  <2>2. RcBuilt(call) <= rcDisk
    <3>1. call.addr \in RcAddrs
      BY <2>1 DEF RcTyped
    <3>2. rcHeap[call.addr] \in Nat /\ rcHeap[rcLive] \in Nat
      BY <3>1 DEF RcTyped
    <3>3. rcHeap[call.addr] <= rcDisk
      BY <1>3, <3>1, <3>2 DEF RcNewest
    <3>. QED BY <1>3, <3>3 DEF RcBuilt
  <2>3. PICK got : got = RcBuilt(call)
    OBVIOUS
  <2>4. rcCall' = [rcCall EXCEPT ![c].pc = "put", ![c].got = got]
    BY <2>1, <2>3, Zenon
  <2>5. rcCall'[c].got = got /\ \A d \in RcCalls \ {c} : rcCall'[d] = rcCall[d]
    BY <2>4 DEF RcTyped, RcCallTypes
  <2>6. \A d \in RcCalls : rcCall'[d].got <= rcDisk
    BY <2>2, <2>3, <2>5
  <2>7. rcShown'.of = 0 /\ rcShown'.nodes = {}
    BY <1>4, <2>1
  <2>8. rcDisk' = rcDisk /\ rcHeap' = rcHeap /\ rcCache' = rcCache /\ rcLive' = rcLive
    BY <1>1, <2>1
  <2>. QED BY <1>3, <2>6, <2>7, <2>8
<1>7. CASE RcLookup(c)
  <2>. DEFINE cached == rcCache[call.kind][call.addr]
              next == IF cached # 0 THEN RcIdle ELSE [call EXCEPT !.pc = "build"]
              calls == [rcCall EXCEPT ![c] = next]
  <2>1. /\ call.pc = "lookup" /\ rcCall' = calls /\ rcHeap' = RcCollected(rcHeap, rcLive, calls)
        /\ IF calls[c] = RcIdle THEN RcAnswer(call, cached) ELSE rcShown' = RcNoGraph
        /\ UNCHANGED rcCache
    BY <1>7, Zenon DEF RcLookup
  <2>2. next.got = 0 \/ next.got = call.got
    <3>1. CASE cached # 0
      BY <1>2, <3>1
    <3>2. CASE cached = 0
      BY <1>1, <3>2 DEF RcCallTypes
    <3>. QED BY <3>1, <3>2
  <2>. HIDE DEF next
  <2>3. \A d \in RcCalls : rcCall'[d].got = 0 \/ rcCall'[d].got = rcCall[d].got
    BY <2>1, <2>2 DEF RcTyped
  <2>. HIDE DEF calls, cached
  <2>4. rcHeap'[rcLive] = rcHeap[rcLive]
    BY <1>1, <2>1, RcDropped
  <2>5. rcShown'.of \in Nat /\ rcShown'.of <= rcDisk /\ rcShown'.nodes \subseteq RcTables
    <3>1. CASE RcAnswer(call, cached)
      BY <2>1, <3>1, RcAnswersKnown
    <3>2. CASE rcShown' = RcNoGraph
      BY <1>3, <1>4, <3>2
    <3>. QED BY <2>1, <3>1, <3>2
  <2>6. \A d \in RcCalls : rcCall'[d].got <= rcDisk
    BY <1>3, <2>3
  <2>. QED BY <1>1, <2>1, <2>4, <2>5, <2>6
<1>8. CASE RcPut(c)
  <2>. DEFINE calls == [rcCall EXCEPT ![c] = RcIdle]
  <2>1. /\ call.pc = "put" /\ rcCall' = calls /\ rcHeap' = RcCollected(rcHeap, rcLive, calls)
        /\ rcCache' = [rcCache EXCEPT ![call.kind][call.addr] = call.got]
        /\ RcAnswer(call, call.got)
    BY <1>8, Zenon DEF RcPut
  <2>2. \A d \in RcCalls : rcCall'[d].got = 0 \/ rcCall'[d].got = rcCall[d].got
    BY <1>2, <2>1 DEF RcTyped
  <2>. HIDE DEF calls
  <2>3. rcHeap'[rcLive] = rcHeap[rcLive]
    BY <1>1, <2>1, RcDropped
  <2>4. rcShown'.of \in Nat /\ rcShown'.of <= rcDisk /\ rcShown'.nodes \subseteq RcTables
    BY <2>1, RcAnswersKnown
  <2>5. \A d \in RcCalls : rcCall'[d].got <= rcDisk
    BY <1>3, <2>2
  <2>6. \A k \in RcKinds, a \in RcAddrs : rcCache'[k][a] = call.got \/ rcCache'[k][a] = rcCache[k][a]
    BY <1>1, <2>1 DEF RcTyped, RcCallTypes
  <2>7. \A k \in RcKinds, a \in RcAddrs : rcCache'[k][a] <= rcDisk
    BY <2>6
  <2>. QED BY <1>1, <2>3, <2>4, <2>5, <2>7
<1>. QED BY <1>5, <1>6, <1>7, <1>8

\* The types of the caches, for any requests, addresses and versions (ReportCaches).
THEOREM RcTypesHold == RcSpec => []RcTypeOK
<1>1. RcInit => RcWritten
  <2>. SUFFICES ASSUME RcInit PROVE RcWritten
    OBVIOUS
  <2>1. PICK live \in RcAddrs : rcLive = live /\ rcHeap = [b \in RcAddrs |-> IF b = live THEN 1 ELSE 0]
    BY DEF RcInit
  <2>2. rcShown.of = 0 /\ rcShown.nodes = {}
    BY DEF RcInit, RcNoGraph
  <2>3. \A c \in RcCalls : rcCall[c].got = 0
    BY DEF RcInit, RcIdle
  <2>4. rcDisk = 1 /\ \A k \in RcKinds, a \in RcAddrs : rcCache[k][a] = 0
    BY DEF RcInit
  <2>. QED BY <2>1, <2>2, <2>3, <2>4, RcAssumption DEF RcWritten
<1>2. RcInv /\ RcWritten /\ [RcNext]_rcVars => RcWritten'
  <2>1. RcWritten /\ UNCHANGED rcVars => RcWritten'
    BY DEF rcVars, RcWritten
  <2>. QED BY <2>1, RcWrittenReport, RcWrittenRequest DEF RcNext
<1>3. RcInv /\ RcWritten => RcTypeOK
  <2>. SUFFICES ASSUME RcInv, RcWritten PROVE RcTypeOK
    OBVIOUS
  <2>1. RcTyped /\ RcNewest
    BY DEF RcInv
  <2>2. rcDisk \in 1..RcVersions
    BY <2>1, RcAssumption DEF RcTyped, RcWritten
  <2>3. rcHeap \in [RcAddrs -> 0..RcVersions]
    <3>1. ASSUME NEW a \in RcAddrs PROVE rcHeap[a] \in 0..RcVersions
      <4>1. rcHeap[a] \in Nat /\ rcHeap[rcLive] \in Nat /\ rcHeap[a] <= rcHeap[rcLive] /\ rcHeap[rcLive] <= rcDisk
        BY <2>1 DEF RcTyped, RcNewest
      <4>2. rcDisk \in Nat /\ RcVersions \in Nat /\ rcDisk <= RcVersions
        BY <2>1, RcAssumption DEF RcTyped, RcWritten
      <4>. QED BY <4>1, <4>2
    <3>. QED BY <2>1, <3>1 DEF RcTyped
  <2>4. rcCache \in [RcKinds -> [RcAddrs -> 0..RcVersions]]
    <3>1. ASSUME NEW k \in RcKinds, NEW a \in RcAddrs PROVE rcCache[k][a] \in 0..RcVersions
      <4>1. rcCache[k][a] \in Nat /\ rcCache[k][a] <= rcDisk
        BY <2>1 DEF RcTyped, RcWritten
      <4>2. rcDisk \in Nat /\ RcVersions \in Nat /\ rcDisk <= RcVersions
        BY <2>1, RcAssumption DEF RcTyped, RcWritten
      <4>. QED BY <4>1, <4>2
    <3>2. ASSUME NEW k \in RcKinds PROVE rcCache[k] \in [RcAddrs -> 0..RcVersions]
      BY <2>1, <3>1 DEF RcTyped
    <3>. QED BY <2>1, <3>2 DEF RcTyped
  <2>5. rcShown.of \in 0..RcVersions
    <3>1. rcShown.of \in Nat /\ rcShown.of <= rcDisk
      BY DEF RcWritten
    <3>2. rcDisk \in Nat /\ RcVersions \in Nat /\ rcDisk <= RcVersions
      BY <2>1, RcAssumption DEF RcTyped, RcWritten
    <3>. QED BY <3>1, <3>2
  <2>6. \A c \in RcCalls : rcCall[c].pc \in {"idle", "lookup", "build", "put"}
    BY <2>1 DEF RcTyped, RcCallTypes
  <2>. QED BY <2>1, <2>2, <2>3, <2>4, <2>5, <2>6 DEF RcTyped, RcWritten, RcTypeOK
<1>. QED BY <1>1, <1>2, <1>3, RcInitInv, RcStep, PTL DEF RcSpec
=============================================================================
