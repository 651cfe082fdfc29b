---------------------------------- MODULE Planner ----------------------------------
(* AutonomousPlanner.plan_from_report: the inventory of a report, ordered along its *)
(* lineage and cut by business domain into bounded migration waves, with the        *)
(* broken-lineage flags of each table, the rationale of each wave and one last wave *)
(* for the tables the manifest does not know.  Tables are the numbers 1..PlSize in  *)
(* the alphabetical order of their names (no two names differ only by case), the    *)
(* ghosts are the numbers above PlSize; a domain is a number in the same order.     *)
EXTENDS Integers, Sequences, FiniteSets, FiniteSetsExt, SequencesExt

CONSTANTS
  PlSize,       \* inventory tables
  PlGhosts,     \* co-queried tables outside the inventory
  PlScores,     \* the priority scores tried
  PlDomains,    \* the business domains tried
  PlListings,   \* the manifests tried: sets of listed tables, {} for a report without one
  PlCaps        \* the pairs <<max_tables_per_wave, max_waves>> tried

ASSUME PlAssumption ==
  /\ PlSize \in Nat \ {0} /\ PlGhosts \in Nat
  /\ PlScores \subseteq Int /\ PlDomains \subseteq Nat
  /\ \A listed \in PlListings : listed \subseteq 1..(PlSize + PlGhosts)
  /\ PlCaps \subseteq (Nat \ {0}) \X (Nat \ {0})

PlTables == 1..PlSize
PlOutside == (PlSize + 1)..(PlSize + PlGhosts)
PlPairs == {pair \in SUBSET (PlTables \union PlOutside) : Cardinality(pair) = 2}

VARIABLES
  plReport,     \* prio, dom: of a table; pairs: undirected co-query edges; listed: manifest keys
  plCap,        \* <<max_tables_per_wave, max_waves>>
  plOrder,      \* the migration order found so far
  plDone,       \* the tables the wave loop has taken
  plWaves,      \* the waves: tables (a sequence), broken, run (the order the rationale prints)
  plPhase,      \* "order" | "waves" | "ghosts" | "served"
  plTruncated   \* the note that the cap cut the plan

plVars == <<plReport, plCap, plOrder, plDone, plWaves, plPhase, plTruncated>>

PlPrio(t) == IF t \in PlTables THEN plReport.prio[t] ELSE 0
PlBefore(s, t) == PlPrio(s) > PlPrio(t) \/ (PlPrio(s) = PlPrio(t) /\ s < t)

\* The k-th of a sorted list is the one with k - 1 before it.
PlInOrder(set, Before(_, _)) ==
  [k \in 1..Cardinality(set) |->
    CHOOSE t \in set : Cardinality({s \in set : Before(s, t)}) = k - 1]

PlSorted(tables) == PlInOrder(tables, PlBefore)

\* Lineage: each undirected pair of inventory tables is oriented along PlBefore.
PlNeighbours(t) == {s \in PlTables \union PlOutside : {s, t} \in plReport.pairs /\ s # t}
PlPreds(t) == {s \in PlNeighbours(t) \intersect PlTables : PlBefore(s, t)}
PlLineageUsed == \E pair \in plReport.pairs : pair \subseteq PlTables

\* Breakage: nothing is broken in a report without a manifest.
PlUnlisted(tables) == IF plReport.listed = {} THEN {} ELSE tables \ plReport.listed
PlMissing(t) == PlUnlisted(PlNeighbours(t))
PlBroken(t) == t \in PlUnlisted({t}) \/ PlMissing(t) # {}
PlPlaceholders == PlUnlisted({t \in PlOutside : PlNeighbours(t) # {}})

\* Kahn with a heap: among the tables whose predecessors are out, the first by PlBefore.
PlReady == {t \in PlTables \ ToSet(plOrder) : PlPreds(t) \subseteq ToSet(plOrder)}

\* The domains in the order their waves are cut: by their earliest table when the
\* lineage was used, by name otherwise.
PlOpen == {plReport.dom[t] : t \in PlTables \ plDone}
PlEarliest(d) == Min({i \in 1..Len(plOrder) : plReport.dom[plOrder[i]] = d})
PlDomain ==
  CHOOSE d \in PlOpen : \A o \in PlOpen \ {d} :
    IF PlLineageUsed THEN PlEarliest(d) < PlEarliest(o) ELSE d < o

PlWave(tables, flagged) ==
  [tables |-> tables, broken |-> flagged, run |-> PlSorted(ToSet(tables))]

PlInit ==
  /\ plReport \in [prio: [PlTables -> PlScores], dom: [PlTables -> PlDomains],
                   pairs: SUBSET PlPairs, listed: PlListings]
  /\ plCap \in PlCaps
  /\ plOrder = <<>> /\ plDone = {} /\ plWaves = <<>>
  /\ plPhase = "order" /\ plTruncated = FALSE

PlPop ==
  /\ plPhase = "order"
  /\ \/ \E t \in PlReady : /\ \A s \in PlReady \ {t} : PlBefore(t, s)
                          /\ plOrder' = Append(plOrder, t) /\ plPhase' = plPhase
     \/ PlReady = {} /\ plOrder' = plOrder /\ plPhase' = "waves"
  /\ UNCHANGED <<plReport, plCap, plDone, plWaves, plTruncated>>

\* The next chunk of the domain at hand: full, or what its tables leave.
PlChunk ==
  LET open == {i \in DOMAIN plOrder : plOrder[i] \notin plDone /\ plReport.dom[plOrder[i]] = PlDomain}
      rows == PlInOrder(open, <)
  IN [k \in 1..Min({Len(rows), plCap[1]}) |-> plOrder[rows[k]]]

PlEmitOverCap ==
  /\ plPhase = "waves" /\ PlOpen # {}
  /\ plWaves' = IF Len(plWaves) < plCap[2]
                THEN Append(plWaves, PlWave(PlChunk, {t \in ToSet(PlChunk) : PlBroken(t)}))
                ELSE plWaves
  /\ plDone' = plDone \union ToSet(PlChunk)
  /\ UNCHANGED <<plReport, plCap, plOrder, plPhase, plTruncated>>

PlEmit ==
  /\ plPhase = "waves" /\ PlOpen # {} /\ Len(plWaves) < plCap[2]
  /\ plWaves' = Append(plWaves, PlWave(PlChunk, {t \in ToSet(PlChunk) : PlBroken(t)}))
  /\ plDone' = plDone \union ToSet(PlChunk)
  /\ UNCHANGED <<plReport, plCap, plOrder, plPhase, plTruncated>>

\* A chunk over the cap ends the plan with a note; no room is left for the ghosts then.
PlTruncate ==
  /\ plPhase = "waves" /\ PlOpen # {} /\ Len(plWaves) = plCap[2]
  /\ plTruncated' = TRUE /\ plPhase' = "served"
  /\ UNCHANGED <<plReport, plCap, plOrder, plDone, plWaves>>

PlGhostWave ==
  /\ plPhase = "waves" /\ PlOpen = {}
  /\ LET ghosts == PlInOrder(PlPlaceholders, <)
         shown == SubSeq(ghosts, 1, Min({Len(ghosts), plCap[1]}))
     IN plWaves' = IF ghosts # <<>> /\ Len(plWaves) < plCap[2]
                   THEN Append(plWaves, PlWave(shown, ToSet(shown))) ELSE plWaves
  /\ plPhase' = "served"
  /\ UNCHANGED <<plReport, plCap, plOrder, plDone, plTruncated>>

PlNext == PlPop \/ PlEmit \/ PlTruncate \/ PlGhostWave

PlSpec == PlInit /\ [][PlNext]_plVars

(* Each variable stays in its range. *)
PlTypeOK ==
  /\ DOMAIN plReport.prio = PlTables /\ plReport.pairs \subseteq PlPairs
  /\ plCap \in PlCaps
  /\ ToSet(plOrder) \subseteq PlTables /\ plDone \subseteq PlTables
  /\ \A i \in DOMAIN plWaves :
       plWaves[i].broken \subseteq ToSet(plWaves[i].tables)
  /\ plPhase \in {"order", "waves", "served"} /\ plTruncated \in BOOLEAN

PlWaveOf(t) == {i \in DOMAIN plWaves : t \in ToSet(plWaves[i].tables)}
PlInWave(i) == plWaves[i].tables

(* The plan served by POST /planner/{report}/waves: every inventory table is in   *)
(* exactly one wave, or the plan says it was truncated; no wave mixes domains or  *)
(* passes the caps; inside a domain the higher-priority end of a co-query edge is *)
(* migrated first; the run order a rationale prints is the order of its wave; and *)
(* a table that touches the unknown is flagged wherever it was placed.            *)
PlPlanSound ==
  plPhase = "served" =>
    /\ Len(plWaves) <= plCap[2]
    /\ plTruncated \/ \A t \in PlTables : Cardinality(PlWaveOf(t)) = 1
    /\ \A i \in DOMAIN plWaves :
         /\ Len(PlInWave(i)) \in 1..plCap[1] /\ plWaves[i].run = PlInWave(i)
         /\ Cardinality({plReport.dom[t] : t \in ToSet(PlInWave(i)) \intersect PlTables}) <= 1
         /\ \A t \in ToSet(PlInWave(i)) \ plWaves[i].broken :
              PlUnlisted({t} \union PlNeighbours(t)) = {}
    /\ \A i, j \in DOMAIN plWaves : \A p \in DOMAIN PlInWave(i), q \in DOMAIN PlInWave(j) :
         LET s == PlInWave(i)[p]
             t == PlInWave(j)[q]
         IN {s, t} \in plReport.pairs /\ s # t /\ {s, t} \subseteq PlTables
              /\ plReport.dom[s] = plReport.dom[t] /\ plReport.prio[s] > plReport.prio[t]
            => i < j \/ (i = j /\ p < q)

(* planner.py:33: "Table order within and across domains follows lineage co-query *)
(* edges": whatever its domain, the higher-priority end of an edge comes first.    *)
(* The code does not keep it.                                                      *)
PlOrderAcrossDomains ==
  plPhase = "served" =>
    \A i, j \in DOMAIN plWaves : \A s \in ToSet(PlInWave(i)), t \in ToSet(PlInWave(j)) :
      {s, t} \in plReport.pairs /\ {s, t} \subseteq PlTables /\ plReport.prio[s] > plReport.prio[t]
      => i <= j
====================================================================================
