----------------------------- MODULE ReportCaches -----------------------------
(***************************************************************************)
(* The two caches behind the lineage graphs: adjacency of the co-query     *)
(* edges and the foreign-key edges of the DDL files. Their keys are the id *)
(* of a Python object, that is, an address: once the object is freed the   *)
(* next report, or the next copy of it, may live at the same address and   *)
(* meets what is cached there.                                             *)
(***************************************************************************)
EXTENDS Naturals

CONSTANTS
    RcCalls,     \* requests of lineage subgraphs
    RcSlots,     \* addresses a report object can have, from 1
    RcVersions,  \* bound: versions of the report and its DDL files on disk
    RcTables,    \* tables
    RcForeignKeys, \* version -> foreign keys of its DDL files, <<child, parent>>
    RcCoQueries  \* version -> pairs of tables, {a, b}, that its statements join

ASSUME RcAssumption ==
    /\ RcSlots \in Nat \ {0}
    /\ RcVersions \in Nat \ {0}

VARIABLES
    rcDisk,   \* the version on disk
    rcHeap,   \* the version of the report object at each address, 0 when free
    rcLive,   \* the address of the object in REPORT_STORE
    rcLoad,   \* how far a POST /report/load has come
    rcCache,  \* the content cached under each address, 0 when none
    rcCall,   \* what each request holds
    rcShown,  \* the graph this step answers: [of, center, nodes, edges], of = 0 during a load
    rcLate    \* history: content of a report that was replaced has been cached

rcVars == <<rcDisk, rcHeap, rcLive, rcLoad, rcCache, rcCall, rcShown, rcLate>>

RcAddrs == 1..RcSlots
RcKinds == {"coquery", "pk_fk"}
RcIdle == [pc |-> "idle", kind |-> "coquery", addr |-> 0, got |-> 0]

\* An object is freed with its last reference.
RcCollected(heap, live, calls) ==
    [a \in RcAddrs |-> IF a = live \/ \E c \in RcCalls : calls[c].pc # "idle" /\ calls[c].addr = a
                       THEN heap[a] ELSE 0]

RcFree == {a \in RcAddrs : rcHeap[a] = 0}

\* What building anew yields: the report's own edges, or the DDL files as they are.
RcBuilt(call) == IF call.kind = "coquery" THEN rcHeap[call.addr] ELSE rcDisk

\* lineage_subgraph_payload: the table in the centre, its neighbours, and the pairs among
\* them all.
RcCoSubgraph(pairs, center) ==
    LET nodes == {center} \cup {t \in RcTables : {center, t} \in pairs}
    IN  [nodes |-> nodes, edges |-> {p \in pairs : p \subseteq nodes}]

\* pk_fk_subgraph_payload: the neighbours by foreign key or by statements, the foreign keys
\* among them all, and for the other neighbours the pair with the centre.
RcKeySubgraph(keys, pairs, center) ==
    LET linked == {{k[1], k[2]} : k \in keys}
        nodes == {center} \cup {t \in RcTables : {center, t} \in linked \cup pairs}
    IN  [nodes |-> nodes,
         edges |-> {p \in linked : p \subseteq nodes}
                      \cup ({{center, t} : t \in nodes \ {center}} \cap pairs)]

RcNoGraph == [of |-> 0, center |-> CHOOSE t \in RcTables : TRUE, nodes |-> {}, edges |-> {}]

\* What a request answers with content of this version: the pairs of a foreign-key graph
\* are the report's own.
RcAnswer(call, got) ==
    \E center \in RcTables :
        LET graph == IF call.kind = "coquery" THEN RcCoSubgraph(RcCoQueries[got], center)
                     ELSE RcKeySubgraph(RcForeignKeys[got], RcCoQueries[rcHeap[call.addr]], center)
        IN  rcShown' = [of |-> IF rcLoad = "idle" THEN rcHeap[call.addr] ELSE 0,
                        center |-> center, nodes |-> graph.nodes, edges |-> graph.edges]

\* A mutated clear: the entries stay.
RcClearNothing(kind) == rcCache' = rcCache

\* clear_lineage_adjacency_cache and clear_pk_fk_cache of this report_id.
RcClear(kind) == rcCache' = [rcCache EXCEPT ![kind] = [a \in RcAddrs |-> 0]]

\* An export or a run of the pipeline writes report.json and the DDL files.
RcRegenerate ==
    /\ rcDisk < RcVersions
    /\ rcLoad = "idle"
    /\ rcDisk' = rcDisk + 1
    /\ rcShown' = RcNoGraph
    /\ UNCHANGED <<rcHeap, rcLive, rcLoad, rcCache, rcCall, rcLate>>

\* POST /report/load: the parsed file replaces the object ...
RcLoadStore ==
    /\ rcLoad = "idle"
    /\ \E a \in RcFree :
          /\ rcLive' = a
          /\ rcHeap' = RcCollected([rcHeap EXCEPT ![a] = rcDisk], a, rcCall)
    /\ rcLoad' = "coquery"
    /\ rcShown' = RcNoGraph
    /\ UNCHANGED <<rcDisk, rcCache, rcCall, rcLate>>

\* ... and then each cache is cleared under its lock.
RcLoadClear ==
    /\ rcLoad # "idle"
    /\ RcClear(rcLoad)
    /\ rcLoad' = IF rcLoad = "coquery" THEN "pk_fk" ELSE "idle"
    /\ rcShown' = RcNoGraph
    /\ UNCHANGED <<rcDisk, rcHeap, rcLive, rcCall, rcLate>>

\* A HITL decision replaces the object by a deep copy; no cache is cleared.
RcHitlCopy ==
    /\ \E a \in RcFree :
          /\ rcLive' = a
          /\ rcHeap' = RcCollected([rcHeap EXCEPT ![a] = rcHeap[rcLive]], a, rcCall)
    /\ rcShown' = RcNoGraph
    /\ UNCHANGED <<rcDisk, rcLoad, rcCache, rcCall, rcLate>>

\* GET /discovery/lineage fetches the report ...
RcAsk(c) ==
    /\ rcCall[c].pc = "idle"
    /\ \E k \in RcKinds :
          rcCall' = [rcCall EXCEPT ![c] = [pc |-> "lookup", kind |-> k, addr |-> rcLive, got |-> 0]]
    /\ rcShown' = RcNoGraph
    /\ UNCHANGED <<rcDisk, rcHeap, rcLive, rcLoad, rcCache, rcLate>>

\* ... looks it up under the lock, and answers what is cached ...
RcLookup(c) ==
    /\ rcCall[c].pc = "lookup"
    /\ LET call == rcCall[c]
           calls == [rcCall EXCEPT ![c] = IF rcCache[call.kind][call.addr] # 0 THEN RcIdle
                                          ELSE [call EXCEPT !.pc = "build"]]
       IN /\ rcCall' = calls
          /\ rcHeap' = RcCollected(rcHeap, rcLive, calls)
          /\ IF calls[c] = RcIdle THEN RcAnswer(call, rcCache[call.kind][call.addr])
             ELSE rcShown' = RcNoGraph
    /\ UNCHANGED <<rcDisk, rcLive, rcLoad, rcCache, rcLate>>

\* ... or builds it without the lock ...
RcBuild(c) ==
    /\ rcCall[c].pc = "build"
    /\ rcCall' = [rcCall EXCEPT ![c].pc = "put", ![c].got = RcBuilt(rcCall[c])]
    /\ rcShown' = RcNoGraph
    /\ UNCHANGED <<rcDisk, rcHeap, rcLive, rcLoad, rcCache, rcLate>>

\* ... and caches it, whether or not the report is still the one in REPORT_STORE.
RcPut(c) ==
    /\ rcCall[c].pc = "put"
    /\ LET call == rcCall[c]
           calls == [rcCall EXCEPT ![c] = RcIdle]
       IN /\ rcCache' = [rcCache EXCEPT ![call.kind][call.addr] = call.got]
          /\ rcCall' = calls
          /\ rcHeap' = RcCollected(rcHeap, rcLive, calls)
          /\ RcAnswer(call, call.got)
          /\ rcLate' = (rcLate \/ call.got # rcHeap[rcLive])
    /\ UNCHANGED <<rcDisk, rcLive, rcLoad>>

RcInit ==
    /\ rcDisk = 1
    /\ \E a \in RcAddrs : rcLive = a /\ rcHeap = [b \in RcAddrs |-> IF b = a THEN 1 ELSE 0]
    /\ rcLoad = "idle"
    /\ rcCache = [k \in RcKinds |-> [a \in RcAddrs |-> 0]]
    /\ rcCall = [c \in RcCalls |-> RcIdle]
    /\ rcShown = RcNoGraph
    /\ rcLate = FALSE

RcNext ==
    \/ RcRegenerate \/ RcLoadStore \/ RcLoadClear \/ RcHitlCopy
    \/ \E c \in RcCalls : RcAsk(c) \/ RcLookup(c) \/ RcBuild(c) \/ RcPut(c)

RcSpec == RcInit /\ [][RcNext]_rcVars

RcTypeOK ==
    /\ rcDisk \in 1..RcVersions
    /\ rcHeap \in [RcAddrs -> 0..RcVersions]
    /\ rcLive \in RcAddrs /\ rcHeap[rcLive] # 0
    /\ rcLoad \in RcKinds \cup {"idle"}
    /\ rcCache \in [RcKinds -> [RcAddrs -> 0..RcVersions]]
    /\ \A c \in RcCalls : rcCall[c].pc \in {"idle", "lookup", "build", "put"}
    /\ rcShown.of \in 0..RcVersions /\ rcShown.nodes \subseteq RcTables

(* Once a load is complete, an address that is used again never serves the graph of   *)
(* another report, unless a request that was overtaken by a load cached its old       *)
(* result (id(report) as the key, lineage.py and schema_relationships.py). A graph     *)
(* shows an edge for each neighbour, and none that report and DDL files do not have.  *)
RcServesOwnReport ==
    /\ rcLoad = "idle" /\ ~rcLate
           => \A k \in RcKinds : rcCache[k][rcLive] \in {0, rcHeap[rcLive]}
    /\ \A t \in rcShown.nodes \ {rcShown.center} : {rcShown.center, t} \in rcShown.edges
    /\ ~rcLate /\ rcShown.of = rcDisk =>
           rcShown.edges \subseteq RcCoQueries[rcShown.of]
                                      \cup {{k[1], k[2]} : k \in RcForeignKeys[rcShown.of]}
=============================================================================
