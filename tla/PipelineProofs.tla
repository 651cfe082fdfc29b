----------------------------- MODULE PipelineProofs -----------------------------
(***************************************************************************)
(* Proofs about the ends of the pipeline.  What is read: from the logged   *)
(* SQL (SqlExtract, for every set of statements, tables, names and         *)
(* columns), from the log files (LogIngest, for every set of statements    *)
(* and any number of files) and from a live database (SchemaExtract, for   *)
(* every Query Store and plan cache).  What is made of it: the migration   *)
(* plan (Planner, for every number of tables, every graph, every score,    *)
(* domain and cap).                                                        *)
(***************************************************************************)
EXTENDS SqlExtract, Planner, LogIngest, SchemaExtract, FiniteSetTheorems,
        WellFoundedInduction, TLAPS

-----------------------------------------------------------------------------
(* The last and the first of a set of positions *)

\* A set of naturals that is not empty has a least element: the order of the naturals is
\* well-founded.
LEMMA LeastNatural ==
    ASSUME NEW S \in SUBSET Nat, S # {}
    PROVE  \E n \in S : \A m \in S : n <= m
<1>1. PICK R : R = {p \in Nat \X Nat : p[1] < p[2]}
  OBVIOUS
<1>2. IsWellFoundedOn(R, Nat)
  BY <1>1, NatLessThanWellFounded, Zenon DEF OpToRel
<1>3. PICK n \in S : \A m \in S : <<m, n>> \notin R
  BY <1>2, WFMin, Zenon
<1>4. \A m \in S : n <= m
  <2>. SUFFICES ASSUME NEW m \in S PROVE n <= m
    OBVIOUS
  <2>1. m < n => <<m, n>> \in R
    BY <1>1
  <2>. QED BY <1>3, <2>1
<1>. QED BY <1>4

\* The last position of a set of positions is one of them.
LEMMA LastPosition ==
    ASSUME NEW n \in Nat, NEW S \in SUBSET (1..n), S # {}
    PROVE  Max(S) \in S
<1>. DEFINE Bounds == {m \in Nat : \A k \in S : k <= m}
<1>1. n \in Bounds
  OBVIOUS
<1>2. PICK m \in Bounds : \A l \in Bounds : m <= l
  BY <1>1, LeastNatural
<1>3. m \in S
  <2>. SUFFICES ASSUME m \notin S PROVE FALSE
    OBVIOUS
  <2>1. \A k \in S : k \in Nat /\ k >= 1 /\ k <= m /\ k # m
    BY <1>2
  <2>0. PICK k \in S : TRUE
    OBVIOUS
  <2>2. m \in Nat \ {0} /\ \A l \in S : l <= m - 1
    BY <1>2, <2>0, <2>1
  <2>3. m - 1 \in Bounds
    BY <2>2
  <2>. QED BY <1>2, <2>2, <2>3
<1>4. \E x \in S : \A y \in S : x >= y
  BY <1>2, <1>3
<1>. QED BY <1>4, Zenon DEF Max

-----------------------------------------------------------------------------
(* Tables and their names *)

\* The members of a concatenation.
LEMMA MembersOfBoth ==
    ASSUME NEW S, NEW s \in Seq(S), NEW t \in Seq(S)
    PROVE  s \o t \in Seq(S) /\ ToSet(s \o t) = ToSet(s) \cup ToSet(t)
<1>1. \A i \in 1..Len(s) : (s \o t)[i] = s[i]
  OBVIOUS
<1>2. \A i \in 1..Len(t) : (s \o t)[Len(s) + i] = t[i] /\ Len(s) + i \in 1..(Len(s) + Len(t))
  OBVIOUS
<1>3. \A i \in 1..(Len(s) + Len(t)) :
          i \in 1..Len(s) \/ (i - Len(s) \in 1..Len(t) /\ (s \o t)[i] = t[i - Len(s)])
  OBVIOUS
<1>4. DOMAIN (s \o t) = 1..(Len(s) + Len(t)) /\ DOMAIN s = 1..Len(s) /\ DOMAIN t = 1..Len(t)
  OBVIOUS
<1>5. ToSet(s) \subseteq ToSet(s \o t)
  BY <1>1, <1>4 DEF ToSet
<1>6. ToSet(t) \subseteq ToSet(s \o t)
  <2>. SUFFICES ASSUME NEW i \in DOMAIN t PROVE t[i] \in ToSet(s \o t)
    BY DEF ToSet
  <2>1. Len(s) + i \in DOMAIN (s \o t) /\ (s \o t)[Len(s) + i] = t[i]
    BY <1>2, <1>4
  <2>. QED BY <2>1 DEF ToSet
<1>7. ToSet(s \o t) \subseteq ToSet(s) \cup ToSet(t)
  <2>. SUFFICES ASSUME NEW i \in DOMAIN (s \o t)
                PROVE  (s \o t)[i] \in ToSet(s) \cup ToSet(t)
    BY DEF ToSet
  <2>1. CASE i \in 1..Len(s)
    BY <1>1, <1>4, <2>1 DEF ToSet
  <2>2. CASE i - Len(s) \in 1..Len(t) /\ (s \o t)[i] = t[i - Len(s)]
    BY <1>4, <2>2 DEF ToSet
  <2>. QED BY <1>3, <1>4, <2>1, <2>2
<1>. QED BY <1>5, <1>6, <1>7

\* FROM's table and the joined ones are all the tables.
LEMMA FirstAndJoined ==
    ASSUME NEW from \in Seq(SxEntry)
    PROVE  /\ SxFirst(from) \in Seq(SxEntry) /\ SxJoined(from) \in Seq(SxEntry)
           /\ ToSet(SxFirst(from)) \cup ToSet(SxJoined(from)) = ToSet(from)
<1>1. CASE from = <<>>
  BY <1>1 DEF SxFirst, SxJoined, ToSet
<1>2. CASE from # <<>>
  <2>1. SxFirst(from) = <<from[1]>> /\ SxJoined(from) = Tail(from)
    BY <1>2 DEF SxFirst, SxJoined
  <2>2. from[1] \in SxEntry /\ Tail(from) \in Seq(SxEntry) /\ Len(from) \in Nat \ {0}
    BY <1>2
  <2>3. ToSet(<<from[1]>>) = {from[1]}
    BY DEF ToSet
  <2>4. /\ DOMAIN Tail(from) = 1..(Len(from) - 1)
        /\ \A i \in 1..(Len(from) - 1) : Tail(from)[i] = from[i + 1]
    BY <1>2
  <2>5. ToSet(from) = {from[1]} \cup ToSet(Tail(from))
    <3>1. \A i \in DOMAIN from : i = 1 \/ (i - 1 \in DOMAIN Tail(from) /\ Tail(from)[i - 1] = from[i])
      BY <2>2, <2>4
    <3>2. \A i \in DOMAIN Tail(from) : i + 1 \in DOMAIN from
      BY <2>2, <2>4
    <3>3. 1 \in DOMAIN from
      BY <2>2
    <3>4. ToSet(from) \subseteq {from[1]} \cup ToSet(Tail(from))
      BY <3>1 DEF ToSet
    <3>5. {from[1]} \cup ToSet(Tail(from)) \subseteq ToSet(from)
      BY <2>4, <3>2, <3>3 DEF ToSet
    <3>. QED BY <3>4, <3>5
  <2>. QED BY <2>1, <2>2, <2>3, <2>5
<1>. QED BY <1>1, <1>2

\* The registered tables are those of both SELECTs, and FROM's table is the first.
LEMMA EntriesOfBoth ==
    ASSUME NEW outer \in Seq(SxEntry), NEW inner \in Seq(SxEntry)
    PROVE  /\ SxEntries(outer, inner) \in Seq(SxEntry)
           /\ ToSet(SxEntries(outer, inner)) = ToSet(outer) \cup ToSet(inner)
           /\ outer # <<>> => SxEntries(outer, inner)[1] = outer[1]
<1>. DEFINE firsts == SxFirst(outer) \o SxFirst(inner)
<1>1. /\ SxFirst(outer) \in Seq(SxEntry) /\ SxJoined(outer) \in Seq(SxEntry)
      /\ ToSet(SxFirst(outer)) \cup ToSet(SxJoined(outer)) = ToSet(outer)
      /\ SxFirst(inner) \in Seq(SxEntry) /\ SxJoined(inner) \in Seq(SxEntry)
      /\ ToSet(SxFirst(inner)) \cup ToSet(SxJoined(inner)) = ToSet(inner)
  BY FirstAndJoined
<1>2. firsts \in Seq(SxEntry) /\ ToSet(firsts) = ToSet(SxFirst(outer)) \cup ToSet(SxFirst(inner))
  BY <1>1, MembersOfBoth
<1>. HIDE DEF firsts
<1>3. /\ firsts \o SxJoined(outer) \in Seq(SxEntry)
      /\ ToSet(firsts \o SxJoined(outer)) = ToSet(firsts) \cup ToSet(SxJoined(outer))
  BY <1>1, <1>2, MembersOfBoth
<1>4. /\ SxEntries(outer, inner) \in Seq(SxEntry)
      /\ ToSet(SxEntries(outer, inner))
            = ToSet(firsts \o SxJoined(outer)) \cup ToSet(SxJoined(inner))
  <2>1. SxEntries(outer, inner) = (firsts \o SxJoined(outer)) \o SxJoined(inner)
    BY Zenon DEF SxEntries, firsts
  <2>2. PICK both : both = firsts \o SxJoined(outer)
    OBVIOUS
  <2>3. /\ both \o SxJoined(inner) \in Seq(SxEntry)
        /\ ToSet(both \o SxJoined(inner)) = ToSet(both) \cup ToSet(SxJoined(inner))
    <3>1. both \in Seq(SxEntry) /\ SxJoined(inner) \in Seq(SxEntry)
      BY <1>1, <1>3, <2>2, Zenon
    <3>. QED BY <3>1, MembersOfBoth
  <2>. QED BY <2>1, <2>2, <2>3, Zenon
<1>5. outer # <<>> => SxEntries(outer, inner)[1] = outer[1]
  <2>. SUFFICES ASSUME outer # <<>> PROVE SxEntries(outer, inner)[1] = outer[1]
    OBVIOUS
  <2>1. SxFirst(outer) = <<outer[1]>>
    BY DEF SxFirst
  <2>2. firsts[1] = outer[1] /\ Len(firsts) >= 1
    BY <1>1, <2>1 DEF firsts
  <2>3. (firsts \o SxJoined(outer))[1] = outer[1] /\ Len(firsts \o SxJoined(outer)) >= 1
    BY <1>1, <1>2, <2>2
  <2>. QED BY <1>1, <1>3, <2>3 DEF SxEntries, firsts
<1>6. ToSet(SxEntries(outer, inner)) = ToSet(outer) \cup ToSet(inner)
  <2>. DEFINE a == ToSet(SxFirst(outer))
              b == ToSet(SxFirst(inner))
              c == ToSet(SxJoined(outer))
              d == ToSet(SxJoined(inner))
  <2>1. ToSet(SxEntries(outer, inner)) = ((a \cup b) \cup c) \cup d
    BY <1>2, <1>3, <1>4
  <2>2. a \cup c = ToSet(outer) /\ b \cup d = ToSet(inner)
    BY <1>1
  <2>. HIDE DEF a, b, c, d
  <2>. QED BY <2>1, <2>2
<1>. QED BY <1>4, <1>5, <1>6

\* A qualifier that names one table only resolves to it; without one the first table is taken.
LEMMA OneNamed ==
    ASSUME NEW entries \in Seq(SxEntry), NEW q, NEW e \in ToSet(entries), SxNamed(e, q),
           e.t \in SxQualified, \A x \in ToSet(entries) : SxNamed(x, q) => x = e
    PROVE  SxTableOf(entries, q) = e.t /\ SxTableInText(entries, q) = e.t
<1>1. PICK named : named = {i \in DOMAIN entries : SxNamed(entries[i], q)}
  OBVIOUS
<1>2. named \in SUBSET (1..Len(entries)) /\ Len(entries) \in Nat
  BY <1>1
<1>3. named # {}
  BY <1>1 DEF ToSet
<1>4. Max(named) \in named
  BY <1>2, <1>3, LastPosition
<1>5. entries[Max(named)] \in ToSet(entries) /\ SxNamed(entries[Max(named)], q)
  BY <1>1, <1>4 DEF ToSet
<1>6. entries[Max(named)] = e
  BY <1>5
<1>7. SxTableOf(entries, q) = entries[Max(named)].t
  BY <1>1, <1>3, <1>6, Zenon DEF SxTableOf
<1>8. SxTableInText(entries, q) = entries[Max(named)].t
  BY <1>1, <1>3, Zenon DEF SxTableInText
<1>. QED BY <1>6, <1>7, <1>8

LEMMA NoneNamed ==
    ASSUME NEW entries
    PROVE  SxTableOf(entries, "") = entries[1].t /\ SxTableInText(entries, "") = entries[1].t
<1>1. {i \in DOMAIN entries : SxNamed(entries[i], "")} = {}
  BY DEF SxNamed
<1>. QED BY <1>1, Zenon DEF SxTableOf, SxTableInText

\* A statement whose tables can be told apart: no qualifier names two of them.
LEMMA ToldApart ==
    ASSUME NEW s, s.outer.from \in Seq(SxEntry), s.inner.from \in Seq(SxEntry), SxClear(s),
           NEW e \in ToSet(s.outer.from) \cup ToSet(s.inner.from),
           NEW x \in ToSet(s.outer.from) \cup ToSet(s.inner.from),
           NEW q, SxNamed(e, q), SxNamed(x, q)
    PROVE  e = x /\ e.t \in SxQualified
<1>1. PICK from : from = s.outer.from \o s.inner.from
  OBVIOUS
<1>2. e \in ToSet(from) /\ x \in ToSet(from)
  BY <1>1, MembersOfBoth
<1>3. PICK i \in DOMAIN from, j \in DOMAIN from : e = from[i] /\ x = from[j]
  BY <1>2 DEF ToSet
<1>4. /\ \A y \in ToSet(from) : y.t \in SxQualified
      /\ i # j => \A p \in {from[j].a, SxShort[from[j].t]} : ~SxNamed(from[i], p)
  BY <1>1, Zenon DEF SxClear
<1>5. q \in {from[j].a, SxShort[from[j].t]}
  BY <1>3 DEF SxNamed
<1>. QED BY <1>2, <1>3, <1>4, <1>5

-----------------------------------------------------------------------------
(* Every column is credited *)

\* The shape of a statement.
LEMMA Shape ==
    ASSUME NEW s \in SxStatements, s.kind = "select"
    PROVE  /\ s.outer.from \in Seq(SxEntry) /\ s.inner.from \in Seq(SxEntry)
           /\ s.in \in {"no", "where", "from"}
           /\ s.in = "no" => SxAll(s.inner) = {}
           /\ s.in = "from" => s.outer.from = <<>>
BY SxAssumption DEF SxSelects

\* A column without a qualifier has one table to belong to.
LEMMA OneTable ==
    ASSUME NEW s, SxClear(s), NEW b \in {s.outer, s.inner}, NEW r \in SxAll(b), r.q = ""
    PROVE  Len(IF b.from = <<>> THEN s.outer.from ELSE b.from) <= 1
<1>1. SxDotted(SxAll(b)) # SxAll(b)
  BY DEF SxDotted
<1>. QED BY <1>1, Zenon DEF SxClear

LEMMA OnlyMember ==
    ASSUME NEW from \in Seq(SxEntry), Len(from) <= 1, NEW e \in ToSet(from)
    PROVE  from # <<>> /\ e = from[1]
<1>1. PICK n \in DOMAIN from : e = from[n]
  BY DEF ToSet
<1>. QED BY <1>1

LEMMA FirstMember ==
    ASSUME NEW from \in Seq(SxEntry), from # <<>>
    PROVE  from[1] \in ToSet(from)
BY DEF ToSet

\* What is resolved, table by table.
LEMMA Resolved ==
    ASSUME NEW entries, entries # <<>>, NEW refs, NEW r \in refs
    PROVE  <<SxTableOf(entries, r.q), r.c>> \in SxResolved(entries, refs)
BY DEF SxResolved

\* The tables of two SELECTs that can be told apart resolve to themselves.
LEMMA NamedIsFound ==
    ASSUME NEW s, s.outer.from \in Seq(SxEntry), s.inner.from \in Seq(SxEntry), SxClear(s),
           NEW entries \in Seq(SxEntry),
           ToSet(entries) \subseteq ToSet(s.outer.from) \cup ToSet(s.inner.from),
           NEW e \in ToSet(entries), NEW q, SxNamed(e, q)
    PROVE  SxTableOf(entries, q) = e.t /\ SxTableInText(entries, q) = e.t
<1>1. \A x \in ToSet(entries) : SxNamed(x, q) => e = x
  BY ToldApart
<1>2. e.t \in SxQualified
  BY ToldApart
<1>. QED BY <1>1, <1>2, OneNamed

LEMMA EntriesOfInner ==
    ASSUME NEW inner \in Seq(SxEntry)
    PROVE  /\ SxEntries(inner, <<>>) \in Seq(SxEntry)
           /\ ToSet(SxEntries(inner, <<>>)) = ToSet(inner)
           /\ inner # <<>> => SxEntries(inner, <<>>)[1] = inner[1]
<1>1. PICK empty : empty = <<>>
  OBVIOUS
<1>2. empty \in Seq(SxEntry) /\ ToSet(empty) = {}
  BY <1>1 DEF ToSet
<1>3. /\ SxEntries(inner, empty) \in Seq(SxEntry)
      /\ ToSet(SxEntries(inner, empty)) = ToSet(inner) \cup ToSet(empty)
      /\ inner # <<>> => SxEntries(inner, empty)[1] = inner[1]
  BY <1>2, EntriesOfBoth
<1>4. ToSet(SxEntries(inner, empty)) = ToSet(inner)
  BY <1>2, <1>3
<1>. QED BY <1>1, <1>3, <1>4, Zenon

\* What the reference says of the columns of one SELECT.
Credits(own, around, refs) == UNION {{<<t, r.c>> : t \in SxOwners(own, around, r.q)} : r \in refs}

LEMMA CreditsAre ==
    ASSUME NEW own, NEW around, NEW refs, NEW p
    PROVE  p \in Credits(own, around, refs)
              <=> \E r \in refs : \E t \in SxOwners(own, around, r.q) : p = <<t, r.c>>
BY DEF Credits

LEMMA ReferenceIs ==
    ASSUME NEW s
    PROVE  /\ SxReference(s, SxCounted) = Credits(s.outer.from, <<>>, SxCounted(s.outer))
                    \cup Credits(s.inner.from, s.outer.from, SxCounted(s.inner))
           /\ SxReference(s, SxAll) = Credits(s.outer.from, <<>>, SxAll(s.outer))
                    \cup Credits(s.inner.from, s.outer.from, SxAll(s.inner))
           /\ SxReference(s, SxTextual) = Credits(s.outer.from, <<>>, SxTextual(s.outer))
                    \cup Credits(s.inner.from, s.outer.from, SxTextual(s.inner))
BY DEF SxReference, Credits

\* The tree: extract_from_select of the outer SELECT and of the inner one.
LEMMA TreeCredits ==
    ASSUME NEW s \in SxStatements, s.kind = "select", SxClear(s)
    PROVE  SxReference(s, SxCounted) \subseteq SxByTree(s)
<1>. DEFINE o == s.outer.from
            i == s.inner.from
            all == SxEntries(o, i)
            own == SxEntries(i, <<>>)
<1>1. o \in Seq(SxEntry) /\ i \in Seq(SxEntry)
  BY Shape
<1>2. /\ all \in Seq(SxEntry) /\ ToSet(all) = ToSet(o) \cup ToSet(i) /\ (o # <<>> => all[1] = o[1])
      /\ own \in Seq(SxEntry) /\ ToSet(own) = ToSet(i) /\ (i # <<>> => own[1] = i[1])
  BY <1>1, EntriesOfBoth, EntriesOfInner
<1>3. ToSet(<<>>) = {} /\ \A b : SxCounted(b) \subseteq SxAll(b)
  BY DEF ToSet, SxCounted, SxAll
<1>4. /\ SxResolved(all, SxCounted(s.outer) \cup SxSeenInside(s)) \subseteq SxByTree(s)
      /\ SxResolved(own, SxCounted(s.inner)) \subseteq SxByTree(s)
  BY DEF SxByTree
<1>. HIDE DEF all, own
<1>5. ASSUME NEW r \in SxCounted(s.outer), NEW t \in SxOwners(o, <<>>, r.q)
      PROVE  <<t, r.c>> \in SxByTree(s)
  <2>1. PICK e \in ToSet(o) : e.t = t /\ (r.q = "" \/ SxNamed(e, r.q))
    <3>1. t \in SxOwners(o, <<>>, r.q)
      BY <1>5
    <3>2. PICK none : none = <<>> /\ ToSet(none) = {}
      BY <1>3
    <3>3. t \in SxOwners(o, none, r.q)
      BY <3>1, <3>2, Zenon
    <3>. QED BY <3>2, <3>3 DEF SxOwners
  <2>2. e \in ToSet(all) /\ all # <<>>
    BY <1>2, <1>3, <2>1
  <2>3. SxTableOf(all, r.q) = t
    <3>1. CASE SxNamed(e, r.q)
      BY <1>1, <1>2, <2>1, <2>2, <3>1, NamedIsFound
    <3>2. CASE r.q = ""
      <4>1. o # <<>> /\ e = o[1]
        <5>1. Len(IF s.outer.from = <<>> THEN s.outer.from ELSE s.outer.from) <= 1
          BY <1>3, <1>5, <3>2, OneTable, Zenon
        <5>. QED BY <1>1, <2>1, <5>1, OnlyMember
      <4>. QED BY <1>2, <2>1, <3>2, <4>1, NoneNamed
    <3>. QED BY <2>1, <3>1, <3>2
  <2>4. <<SxTableOf(all, r.q), r.c>> \in SxResolved(all, SxCounted(s.outer) \cup SxSeenInside(s))
    BY <1>5, <2>2, Resolved
  <2>. QED BY <1>4, <2>3, <2>4
<1>6. ASSUME NEW r \in SxCounted(s.inner), NEW t \in SxOwners(i, o, r.q)
      PROVE  <<t, r.c>> \in SxByTree(s)
  <2>1. CASE \E e \in ToSet(i) : e.t = t /\ (r.q = "" \/ SxNamed(e, r.q))
    <3>1. PICK e \in ToSet(i) : e.t = t /\ (r.q = "" \/ SxNamed(e, r.q))
      BY <2>1
    <3>2. e \in ToSet(own) /\ own # <<>> /\ i # <<>>
      BY <1>2, <1>3, <3>1
    <3>3. SxTableOf(own, r.q) = t
      <4>1. CASE SxNamed(e, r.q)
        BY <1>1, <1>2, <3>1, <3>2, <4>1, NamedIsFound
      <4>2. CASE r.q = ""
        <5>1. Len(IF s.inner.from = <<>> THEN s.outer.from ELSE s.inner.from) <= 1
          BY <1>3, <1>6, <4>2, OneTable, Zenon
        <5>2. e = i[1]
          BY <1>1, <3>1, <3>2, <5>1, OnlyMember
        <5>. QED BY <1>2, <3>1, <3>2, <4>2, <5>2, NoneNamed
      <4>. QED BY <3>1, <4>1, <4>2
    <3>4. <<SxTableOf(own, r.q), r.c>> \in SxResolved(own, SxCounted(s.inner))
      BY <1>6, <3>2, Resolved
    <3>. QED BY <1>4, <3>3, <3>4
  <2>2. CASE /\ \A e \in ToSet(i) : r.q # "" /\ ~SxNamed(e, r.q)
             /\ \E e \in ToSet(o) : e.t = t /\ (r.q = "" \/ SxNamed(e, r.q))
    <3>1. PICK e \in ToSet(o) : e.t = t /\ (r.q = "" \/ SxNamed(e, r.q))
      BY <2>2
    <3>2. e \in ToSet(all) /\ all # <<>> /\ o # <<>>
      BY <1>2, <1>3, <3>1
    <3>3. s.in = "where" /\ r \in SxSeenInside(s)
      <4>1. r \in SxAll(s.inner)
        BY <1>3, <1>6
      <4>2. s.in = "where"
        BY <3>2, <4>1, Shape
      <4>. QED BY <4>1, <4>2 DEF SxSeenInside
    <3>4. SxTableOf(all, r.q) = t
      <4>1. CASE SxNamed(e, r.q)
        BY <1>1, <1>2, <3>1, <3>2, <4>1, NamedIsFound
      <4>2. CASE r.q = ""
        <5>1. i = <<>>
          <6>1. ToSet(i) = {}
            BY <2>2, <4>2
          <6>. QED BY <1>1, <6>1, FirstMember
        <5>2. Len(IF s.inner.from = <<>> THEN s.outer.from ELSE s.inner.from) <= 1
          BY <1>3, <1>6, <4>2, OneTable, Zenon
        <5>3. e = o[1]
          BY <1>1, <3>1, <5>1, <5>2, OnlyMember
        <5>. QED BY <1>2, <3>1, <3>2, <4>2, <5>3, NoneNamed
      <4>. QED BY <3>1, <4>1, <4>2
    <3>5. <<SxTableOf(all, r.q), r.c>> \in SxResolved(all, SxCounted(s.outer) \cup SxSeenInside(s))
      BY <3>2, <3>3, Resolved
    <3>. QED BY <1>4, <3>4, <3>5
  <2>3. \/ \E e \in ToSet(i) : e.t = t /\ (r.q = "" \/ SxNamed(e, r.q))
        \/ /\ \A e \in ToSet(i) : r.q # "" /\ ~SxNamed(e, r.q)
           /\ \E e \in ToSet(o) : e.t = t /\ (r.q = "" \/ SxNamed(e, r.q))
    BY <1>6 DEF SxOwners
  <2>. QED BY <2>1, <2>2, <2>3, Zenon
<1>7. Credits(o, <<>>, SxCounted(s.outer)) \subseteq SxByTree(s)
  BY <1>5, CreditsAre
<1>8. Credits(i, o, SxCounted(s.inner)) \subseteq SxByTree(s)
  BY <1>6, CreditsAre
<1>. QED BY <1>7, <1>8, ReferenceIs

\* A column that a table of its own SELECT is named for belongs to that table.
LEMMA OwnerOfNamed ==
    ASSUME NEW own, NEW around, NEW e \in ToSet(own), NEW q, SxNamed(e, q)
    PROVE  e.t \in SxOwners(own, around, q)
BY DEF SxOwners

\* The tree credits nothing else, when every column is qualified in its own SELECT.
LEMMA TreeCreditsNothingElse ==
    ASSUME NEW s \in SxStatements, s.kind = "select", SxClear(s), SxOwn(s)
    PROVE  SxByTree(s) \subseteq SxReference(s, SxAll)
<1>. DEFINE o == s.outer.from
            i == s.inner.from
            all == SxEntries(o, i)
            own == SxEntries(i, <<>>)
<1>1. o \in Seq(SxEntry) /\ i \in Seq(SxEntry)
  BY Shape
<1>2. /\ all \in Seq(SxEntry) /\ ToSet(all) = ToSet(o) \cup ToSet(i)
      /\ own \in Seq(SxEntry) /\ ToSet(own) = ToSet(i)
  BY <1>1, EntriesOfBoth, EntriesOfInner
<1>3. /\ SxCounted(s.outer) \subseteq SxAll(s.outer) /\ SxCounted(s.inner) \subseteq SxAll(s.inner)
      /\ SxSeenInside(s) \subseteq SxAll(s.inner)
  BY Shape DEF SxCounted, SxAll, SxSeenInside
<1>4. SxByTree(s) = SxResolved(all, SxCounted(s.outer) \cup SxSeenInside(s))
                        \cup SxResolved(own, SxCounted(s.inner))
  BY Zenon DEF SxByTree
<1>. HIDE DEF all, own
<1>5. ASSUME NEW entries, NEW refs, NEW p \in SxResolved(entries, refs)
      PROVE  \E r \in refs : p = <<SxTableOf(entries, r.q), r.c>>
  BY <1>5 DEF SxResolved
<1>6. ASSUME NEW r \in SxAll(s.outer), NEW t \in SxOwners(o, <<>>, r.q)
      PROVE  <<t, r.c>> \in SxReference(s, SxAll)
  <2>1. <<t, r.c>> \in Credits(o, <<>>, SxAll(s.outer))
    BY <1>6, CreditsAre
  <2>. QED BY <2>1, ReferenceIs
<1>7. ASSUME NEW r \in SxAll(s.inner), NEW t \in SxOwners(i, o, r.q)
      PROVE  <<t, r.c>> \in SxReference(s, SxAll)
  <2>1. <<t, r.c>> \in Credits(i, o, SxAll(s.inner))
    BY <1>7, CreditsAre
  <2>. QED BY <2>1, ReferenceIs
<1>8. /\ \A r \in SxAll(s.outer) : \E e \in ToSet(o) : SxNamed(e, r.q)
      /\ \A r \in SxAll(s.inner) : \E e \in ToSet(i) : SxNamed(e, r.q)
  BY Zenon DEF SxOwn
<1>9. ASSUME NEW r \in SxAll(s.outer)
      PROVE  <<SxTableOf(all, r.q), r.c>> \in SxReference(s, SxAll)
  <2>1. PICK e \in ToSet(o) : SxNamed(e, r.q)
    BY <1>8, <1>9
  <2>2. SxTableOf(all, r.q) = e.t
    BY <1>1, <1>2, <2>1, NamedIsFound
  <2>. QED BY <1>6, <1>9, <2>1, <2>2, OwnerOfNamed
<1>10. ASSUME NEW r \in SxAll(s.inner), NEW entries \in {all, own}
       PROVE  <<SxTableOf(entries, r.q), r.c>> \in SxReference(s, SxAll)
  <2>1. PICK e \in ToSet(i) : SxNamed(e, r.q)
    BY <1>8, <1>10
  <2>2. SxTableOf(entries, r.q) = e.t
    BY <1>1, <1>2, <1>10, <2>1, NamedIsFound
  <2>. QED BY <1>7, <1>10, <2>1, <2>2, OwnerOfNamed
<1>11. ASSUME NEW p \in SxByTree(s) PROVE p \in SxReference(s, SxAll)
  <2>1. CASE p \in SxResolved(all, SxCounted(s.outer) \cup SxSeenInside(s))
    <3>1. PICK r \in SxCounted(s.outer) \cup SxSeenInside(s) : p = <<SxTableOf(all, r.q), r.c>>
      BY <1>5, <2>1
    <3>. QED BY <1>3, <1>9, <1>10, <3>1
  <2>2. CASE p \in SxResolved(own, SxCounted(s.inner))
    <3>1. PICK r \in SxCounted(s.inner) : p = <<SxTableOf(own, r.q), r.c>>
      BY <1>5, <2>2
    <3>. QED BY <1>3, <1>10, <3>1
  <2>. QED BY <1>4, <1>11, <2>1, <2>2
<1>. QED BY <1>11

-----------------------------------------------------------------------------
(* The regular expressions, over a flat statement whose tables have aliases *)

Aliased(from) == \A e \in ToSet(from) : e.a # ""

LEMMA NoTables == ToSet(<<>>) = {}
BY DEF ToSet

\* The tables that the text shows are tables of the SELECT.
LEMMA Spotted ==
    ASSUME NEW from \in Seq(SxEntry)
    PROVE  /\ SxSpotted(from) \in Seq(SxEntry) /\ ToSet(SxSpotted(from)) \subseteq ToSet(from)
           /\ Aliased(from) => SxSpotted(from) = from
<1>1. CASE from # <<>> /\ from[1].a = ""
  <2>1. PICK rest : rest = SubSeq(from, 3, Len(from))
    OBVIOUS
  <2>2. rest \in Seq(SxEntry) /\ ToSet(rest) \subseteq ToSet(from)
    <3>1. rest \in Seq(SxEntry) /\ \A n \in DOMAIN rest : n + 2 \in DOMAIN from /\ rest[n] = from[n + 2]
      BY <2>1
    <3>. QED BY <3>1 DEF ToSet
  <2>3. PICK first : first = <<from[1]>>
    OBVIOUS
  <2>4. from[1] \in SxEntry /\ from[1] \in ToSet(from)
    <3>1. from # <<>>
      BY <1>1
    <3>2. from[1] \in SxEntry
      BY <3>1
    <3>. QED BY <3>1, <3>2, FirstMember
  <2>5. first \in Seq(SxEntry) /\ ToSet(first) = {from[1]}
    BY <2>3, <2>4 DEF ToSet
  <2>6. first \o rest \in Seq(SxEntry) /\ ToSet(first \o rest) = ToSet(first) \cup ToSet(rest)
    BY <2>2, <2>5, MembersOfBoth
  <2>7. SxSpotted(from) = first \o rest
    BY <1>1, <2>1, <2>3, Zenon DEF SxSpotted
  <2>8. ToSet(first \o rest) \subseteq ToSet(from)
    BY <2>2, <2>4, <2>5, <2>6
  <2>. QED BY <1>1, <2>4, <2>6, <2>7, <2>8 DEF Aliased
<1>2. CASE ~(from # <<>> /\ from[1].a = "")
  BY <1>2 DEF SxSpotted
<1>. QED BY <1>1, <1>2

LEMMA BothInOrder ==
    ASSUME NEW T, NEW s \in Seq(T), NEW t \in Seq(T), NEW v, v = s \o t
    PROVE  /\ v \in Seq(T) /\ Len(v) = Len(s) + Len(t)
           /\ \A i \in 1..Len(s) : v[i] = s[i]
           /\ \A i \in 1..Len(t) : v[Len(s) + i] = t[i]
OBVIOUS

\* The text of a flat statement, clause by clause.
LEMMA SixClauses ==
    ASSUME NEW T, NEW a \in T, NEW b \in T, NEW c \in T, NEW d \in T, NEW e \in T, NEW f \in T
    PROVE  (<<a, b, c>> \o <<d>>) \o <<e, f>> = <<a, b, c, d, e, f>>
<1>1. PICK s : s = <<a, b, c>>
  OBVIOUS
<1>2. PICK t : t = <<d>>
  OBVIOUS
<1>3. PICK u : u = <<e, f>>
  OBVIOUS
<1>4. s \in Seq(T) /\ Len(s) = 3 /\ s[1] = a /\ s[2] = b /\ s[3] = c
  BY <1>1
<1>5. /\ t \in Seq(T) /\ Len(t) = 1 /\ t[1] = d
      /\ u \in Seq(T) /\ Len(u) = 2 /\ u[1] = e /\ u[2] = f
  BY <1>2, <1>3
<1>6. PICK v : v = s \o t
  OBVIOUS
<1>7. /\ v \in Seq(T) /\ Len(v) = 4
      /\ v[1] = a /\ v[2] = b /\ v[3] = c /\ v[4] = d
  <2>1. /\ v \in Seq(T) /\ Len(v) = 3 + 1
        /\ \A i \in 1..3 : v[i] = s[i]
        /\ \A i \in 1..1 : v[3 + i] = t[i]
    <3>1. /\ v \in Seq(T) /\ Len(v) = Len(s) + Len(t)
          /\ \A i \in 1..Len(s) : v[i] = s[i]
          /\ \A i \in 1..Len(t) : v[Len(s) + i] = t[i]
      <4>1. s \in Seq(T) /\ t \in Seq(T)
        BY <1>4, <1>5
      <4>. QED BY <1>6, <4>1, BothInOrder
    <3>. QED BY <1>4, <1>5, <3>1
  <2>2. v[1] = s[1] /\ v[2] = s[2] /\ v[3] = s[3] /\ v[4] = t[1]
    BY <2>1
  <2>. QED BY <1>4, <1>5, <2>1, <2>2
<1>8. PICK w : w = v \o u
  OBVIOUS
<1>9. /\ w \in Seq(T) /\ Len(w) = 6
      /\ w[1] = a /\ w[2] = b /\ w[3] = c /\ w[4] = d /\ w[5] = e /\ w[6] = f
  <2>1. /\ w \in Seq(T) /\ Len(w) = 4 + 2
        /\ \A i \in 1..4 : w[i] = v[i]
        /\ \A i \in 1..2 : w[4 + i] = u[i]
    <3>1. /\ w \in Seq(T) /\ Len(w) = Len(v) + Len(u)
          /\ \A i \in 1..Len(v) : w[i] = v[i]
          /\ \A i \in 1..Len(u) : w[Len(v) + i] = u[i]
      <4>1. v \in Seq(T) /\ u \in Seq(T)
        BY <1>5, <1>7
      <4>. QED BY <1>8, <4>1, BothInOrder
    <3>. QED BY <1>5, <1>7, <3>1
  <2>2. /\ w[1] = v[1] /\ w[2] = v[2] /\ w[3] = v[3] /\ w[4] = v[4]
        /\ w[5] = u[1] /\ w[6] = u[2]
    BY <2>1
  <2>. QED BY <1>5, <1>7, <2>1, <2>2
<1>10. w = <<a, b, c, d, e, f>>
  BY <1>9
<1>11. w = (<<a, b, c>> \o <<d>>) \o <<e, f>>
  BY <1>1, <1>2, <1>3, <1>6, <1>8, Zenon
<1>. QED BY <1>10, <1>11, Zenon

\* What is written behind WHERE and ON is searched there.
LEMMA ClausesFound ==
    ASSUME NEW s, s.in = "no"
    PROVE  s.outer.where \cup s.outer.on \subseteq SxWhereText(SxText(s)) \cup SxOnText(SxText(s))
<1>1. PICK text : text = SxText(s)
  OBVIOUS
<1>2. PICK select : select = SxClause("select", s.outer.sel)
  OBVIOUS
<1>3. PICK tables : tables = SxClause("from", SxNames(s.outer.from))
  OBVIOUS
<1>4. PICK on : on = SxClause("on", s.outer.on)
  OBVIOUS
<1>5. PICK where : where = SxClause("where", s.outer.where)
  OBVIOUS
<1>6. PICK group : group = SxClause("group", s.outer.group)
  OBVIOUS
<1>7. PICK having : having = SxClause("having", s.outer.having)
  OBVIOUS
<1>8. text = <<select, tables, on, where, group, having>>
  <2>1. text = (<<select, tables, on>> \o <<where>>) \o <<group, having>>
    BY <1>1, <1>2, <1>3, <1>4, <1>5, <1>6, <1>7, Zenon DEF SxText, SxWhole, SxOpening, SxClosing
  <2>2. (<<select, tables, on>> \o <<where>>) \o <<group, having>>
            = <<select, tables, on, where, group, having>>
    <3>1. PICK T : T = {select, tables, on, where, group, having}
      OBVIOUS
    <3>2. /\ select \in T /\ tables \in T /\ on \in T
          /\ where \in T /\ group \in T /\ having \in T
      BY <3>1
    <3>. QED BY <3>2, SixClauses
  <2>. QED BY <2>1, <2>2, Zenon
<1>9. /\ Len(text) = 6 /\ DOMAIN text = 1..6
      /\ text[1] = select /\ text[2] = tables /\ text[3] = on
      /\ text[4] = where /\ text[5] = group /\ text[6] = having
  BY <1>8
<1>10. s.outer.where \subseteq SxWhereText(text)
  <2>. SUFFICES ASSUME s.outer.where # {} PROVE s.outer.where \subseteq SxWhereText(text)
    OBVIOUS
  <2>1. where.kw = "where" /\ where.refs = s.outer.where
    BY <1>5 DEF SxClause
  <2>2. /\ select.kw = "" \/ select.kw = "select"
        /\ tables.kw = "" \/ tables.kw = "from"
        /\ on.kw = "" \/ on.kw = "on"
        /\ group.kw = "" \/ group.kw = "group"
        /\ having.kw = "" \/ having.kw = "having"
    BY <1>2, <1>3, <1>4, <1>6, <1>7 DEF SxClause
  <2>3. SxClauses(text, "where") = {4}
    <3>1. /\ text[4].kw = "where"
          /\ text[1].kw # "where" /\ text[2].kw # "where" /\ text[3].kw # "where"
          /\ text[5].kw # "where" /\ text[6].kw # "where"
      BY <1>9, <2>1, <2>2
    <3>2. \A n \in 1..6 : text[n].kw = "where" <=> n = 4
      <4>1. \A n \in 1..6 : n = 1 \/ n = 2 \/ n = 3 \/ n = 4 \/ n = 5 \/ n = 6
        OBVIOUS
      <4>. QED BY <3>1, <4>1
    <3>. QED BY <1>9, <3>2 DEF SxClauses
  <2>4. Min({4}) = 4
    BY DEF Min
  <2>5. SxWhereText(text) = SxChunk(text, 4, "group")
    BY <2>3, <2>4 DEF SxWhereText
  <2>6. where.refs \subseteq SxChunk(text, 4, "group")
    <3>1. 4 \in {k \in 4..Len(text) : \A n \in (4 + 1)..k : text[n].kw # "group"}
      BY <1>9
    <3>2. text[4].refs \subseteq SxChunk(text, 4, "group")
      BY <3>1 DEF SxChunk
    <3>. QED BY <1>9, <3>2
  <2>. QED BY <1>9, <2>1, <2>5, <2>6
<1>11. s.outer.on \subseteq SxOnText(text)
  <2>. SUFFICES ASSUME s.outer.on # {} PROVE s.outer.on \subseteq SxOnText(text)
    OBVIOUS
  <2>1. on.kw = "on" /\ on.refs = s.outer.on
    BY <1>4 DEF SxClause
  <2>2. 3 \in SxClauses(text, "on")
    BY <1>9, <2>1 DEF SxClauses
  <2>3. on.refs \subseteq SxChunk(text, 3, "where")
    <3>1. 3 \in {k \in 3..Len(text) : \A n \in (3 + 1)..k : text[n].kw # "where"}
      BY <1>9
    <3>2. text[3].refs \subseteq SxChunk(text, 3, "where")
      BY <3>1 DEF SxChunk
    <3>. QED BY <1>9, <3>2
  <2>. QED BY <1>9, <2>1, <2>2, <2>3 DEF SxOnText
<1>. QED BY <1>1, <1>10, <1>11

LEMMA TextCredits ==
    ASSUME NEW s \in SxStatements, s.kind = "select", SxClear(s), s.in = "no",
           Aliased(s.outer.from)
    PROVE  SxReference(s, SxTextual) \subseteq SxByRegex(s)
<1>. DEFINE o == s.outer.from
            i == s.inner.from
            behind == SxDotted(SxWhereText(SxText(s)) \cup SxOnText(SxText(s)))
            bare == {[r EXCEPT !.q = ""] : r \in s.outer.sel}
<1>1. o \in Seq(SxEntry) /\ i \in Seq(SxEntry) /\ SxAll(s.inner) = {}
  BY Shape
<1>2. PICK all : all = SxTextTables(s)
  OBVIOUS
<1>3. /\ all \in Seq(SxEntry) /\ ToSet(all) \subseteq ToSet(o) \cup ToSet(i)
      /\ ToSet(o) \subseteq ToSet(all) /\ (o # <<>> => all[1] = o[1])
  <2>1. PICK rest : rest = SxSpotted(i)
    OBVIOUS
  <2>2. SxSpotted(o) = o /\ rest \in Seq(SxEntry) /\ ToSet(rest) \subseteq ToSet(i)
    BY <1>1, <2>1, Spotted
  <2>3. PICK flat : flat = o
    OBVIOUS
  <2>4. all = flat \o rest
    BY <1>2, <2>1, <2>2, <2>3, Zenon DEF SxTextTables
  <2>5. flat \o rest \in Seq(SxEntry) /\ ToSet(flat \o rest) = ToSet(flat) \cup ToSet(rest)
    <3>1. flat \in Seq(SxEntry)
      BY <1>1, <2>3, Zenon
    <3>. QED BY <2>2, <3>1, MembersOfBoth
  <2>6. flat # <<>> => (flat \o rest)[1] = flat[1]
    <3>1. flat \in Seq(SxEntry)
      BY <1>1, <2>3, Zenon
    <3>. QED BY <2>2, <3>1
  <2>. QED BY <2>2, <2>3, <2>4, <2>5, <2>6
<1>4. SxByRegex(s) = SxInText(all, s.outer.sel \cup bare \cup behind)
  BY <1>2, Zenon DEF SxByRegex
<1>5. SxTextual(s.outer) \subseteq s.outer.sel \cup bare \cup behind
  <2>1. SxDotted(s.outer.where \cup s.outer.on) \subseteq behind
    BY ClausesFound DEF SxDotted
  <2>. HIDE DEF behind, bare
  <2>. QED BY <2>1 DEF SxTextual
<1>6. SxTextual(s.inner) = {} /\ SxTextual(s.outer) \subseteq SxAll(s.outer)
  BY <1>1 DEF SxTextual, SxDotted, SxAll
<1>. HIDE DEF behind, bare
<1>7. ASSUME NEW r \in SxTextual(s.outer), NEW t \in SxOwners(o, <<>>, r.q)
      PROVE  <<t, r.c>> \in SxByRegex(s)
  <2>1. PICK e \in ToSet(o) : e.t = t /\ (r.q = "" \/ SxNamed(e, r.q))
    <3>1. PICK none : none = <<>> /\ ToSet(none) = {}
      BY NoTables
    <3>2. t \in SxOwners(o, none, r.q)
      BY <1>7, <3>1, Zenon
    <3>. QED BY <3>1, <3>2 DEF SxOwners
  <2>2. e \in ToSet(all) /\ all # <<>>
    BY <1>3, <2>1, NoTables
  <2>3. SxTableInText(all, r.q) = t
    <3>1. CASE SxNamed(e, r.q)
      BY <1>1, <1>3, <2>1, <2>2, <3>1, NamedIsFound
    <3>2. CASE r.q = ""
      <4>1. Len(IF s.outer.from = <<>> THEN s.outer.from ELSE s.outer.from) <= 1
        BY <1>6, <1>7, <3>2, OneTable, Zenon
      <4>2. o # <<>> /\ e = o[1]
        BY <1>1, <2>1, <4>1, OnlyMember
      <4>. QED BY <1>3, <2>1, <3>2, <4>2, NoneNamed
    <3>. QED BY <2>1, <3>1, <3>2
  <2>4. r \in s.outer.sel \cup bare \cup behind
    BY <1>5, <1>7
  <2>5. <<SxTableInText(all, r.q), r.c>> \in SxInText(all, s.outer.sel \cup bare \cup behind)
    BY <2>2, <2>4 DEF SxInText
  <2>. QED BY <1>4, <2>3, <2>5
<1>8. Credits(o, <<>>, SxTextual(s.outer)) \subseteq SxByRegex(s)
  <2>. SUFFICES ASSUME NEW p \in Credits(o, <<>>, SxTextual(s.outer)) PROVE p \in SxByRegex(s)
    OBVIOUS
  <2>1. PICK r \in SxTextual(s.outer) : \E t \in SxOwners(o, <<>>, r.q) : p = <<t, r.c>>
    BY CreditsAre
  <2>. QED BY <1>7, <2>1, Zenon
<1>9. Credits(i, o, SxTextual(s.inner)) = {}
  BY <1>6 DEF Credits
<1>. QED BY <1>8, <1>9, ReferenceIs

-----------------------------------------------------------------------------
(* The specification *)

\* What is answered is the answer to the statement that was read.
SxInv ==
    \/ sxStmt.kind = "none" /\ sxOut.mode = "none"
    \/ sxStmt \in SxStatements /\ sxOut = SxParsed(sxStmt)

\* The inductive invariant of the parser: an answer is the answer to its statement.
THEOREM SxInvHolds == SxSpec => []SxInv
<1>1. SxInit => SxInv
  <2>. SUFFICES ASSUME SxInit PROVE sxStmt.kind = "none" /\ sxOut.mode = "none"
    BY DEF SxInv
  <2>1. sxStmt = [kind |-> "none"] /\ sxOut = [mode |-> "none", reads |-> {}]
    BY DEF SxInit
  <2>. QED BY <2>1
<1>2. SxInv /\ [SxNext]_sxVars => SxInv'
  <2>. SUFFICES ASSUME SxInv, [SxNext]_sxVars PROVE SxInv'
    OBVIOUS
  <2>1. CASE SxParse
    <3>1. PICK s \in SxStatements : sxStmt' = s /\ sxOut' = SxParsed(s) /\ sxEnv' = sxEnv
      BY <2>1, Zenon DEF SxParse
    <3>2. SxParsed(s)' = SxParsed(s)
      BY <3>1 DEF SxParsed
    <3>. QED BY <3>1, <3>2 DEF SxInv
  <2>2. CASE UNCHANGED sxVars
    BY <2>2 DEF SxInv, SxParsed, sxVars
  <2>. QED BY <2>1, <2>2 DEF SxNext
<1>. QED BY <1>1, <1>2, PTL DEF SxSpec

(* No column that the applications use is taken for an unused one: extract_from_select *)
(* credits every column that a statement reads outside HAVING to its table, however    *)
(* many tables it joins or nests, and, when every column is qualified by a table of    *)
(* its own SELECT, nothing else; _fallback_regex_extract credits the qualified columns *)
(* of a flat statement with aliases. For every set of statements whose tables can be   *)
(* told apart.                                                                         *)
THEOREM SxCreditedHolds == SxSpec => []SxCredited
<1>1. SxInv => SxCredited
  <2>. SUFFICES ASSUME SxInv, sxOut.mode \in {"sqlglot", "regex"}, sxStmt.kind = "select",
                       SxClear(sxStmt)
                PROVE  IF sxOut.mode = "sqlglot"
                       THEN /\ SxReference(sxStmt, SxCounted) \subseteq sxOut.reads
                            /\ SxOwn(sxStmt) => sxOut.reads \subseteq SxReference(sxStmt, SxAll)
                       ELSE sxStmt.in = "no" /\ (\A e \in ToSet(sxStmt.outer.from) : e.a # "") =>
                               SxReference(sxStmt, SxTextual) \subseteq sxOut.reads
    BY DEF SxCredited
  <2>1. sxStmt \in SxStatements /\ sxOut = SxParsed(sxStmt)
    BY DEF SxInv
  <2>2. sxOut.reads = IF sxOut.mode = "sqlglot" THEN SxByTree(sxStmt) ELSE SxByRegex(sxStmt)
    BY <2>1 DEF SxParsed
  <2>3. CASE sxOut.mode = "sqlglot"
    BY <2>1, <2>2, <2>3, TreeCredits, TreeCreditsNothingElse
  <2>4. CASE sxOut.mode # "sqlglot"
    BY <2>1, <2>2, <2>4, TextCredits DEF Aliased
  <2>. QED BY <2>3, <2>4
<1>. QED BY <1>1, SxInvHolds, PTL

\* Whatever the qualifier, a column is given to a table of the statement.
LEMMA TablesFound ==
    ASSUME NEW entries \in Seq(SxEntry), entries # <<>>, NEW q
    PROVE  SxTableOf(entries, q) \in SxTables /\ SxTableInText(entries, q) \in SxTables
<1>. DEFINE named == {i \in DOMAIN entries : SxNamed(entries[i], q)}
<1>1. \A i \in DOMAIN entries : entries[i].t \in SxTables
  <2>1. \A i \in DOMAIN entries : entries[i] \in SxEntry
    OBVIOUS
  <2>. QED BY <2>1 DEF SxEntry
<1>2. 1 \in DOMAIN entries
  OBVIOUS
<1>3. named # {} => Max(named) \in DOMAIN entries
  <2>1. Len(entries) \in Nat /\ named \subseteq 1..Len(entries)
    OBVIOUS
  <2>2. named \subseteq DOMAIN entries
    OBVIOUS
  <2>. HIDE DEF named
  <2>3. named # {} => Max(named) \in named
    BY <2>1, LastPosition, Zenon
  <2>. QED BY <2>2, <2>3, Zenon
<1>4. SxTableOf(entries, q) = IF named # {} /\ entries[Max(named)].t \in SxQualified
                              THEN entries[Max(named)].t ELSE entries[1].t
  BY Zenon DEF SxTableOf
<1>5. SxTableInText(entries, q) = entries[IF named # {} THEN Max(named) ELSE 1].t
  BY Zenon DEF SxTableInText
<1>. HIDE DEF named
<1>6. PICK m : m = Max(named)
  OBVIOUS
<1>. QED BY <1>1, <1>2, <1>3, <1>4, <1>5, <1>6

LEMMA ResolvedFound ==
    ASSUME NEW entries \in Seq(SxEntry), NEW refs
    PROVE  /\ \A r \in SxResolved(entries, refs) : r[1] \in SxTables
           /\ \A r \in SxInText(entries, refs) : r[1] \in SxTables
<1>1. CASE entries = <<>>
  BY <1>1 DEF SxResolved, SxInText
<1>2. CASE entries # <<>>
  <2>1. \A q : SxTableOf(entries, q) \in SxTables /\ SxTableInText(entries, q) \in SxTables
    BY <1>2, TablesFound
  <2>. QED BY <1>2, <2>1 DEF SxResolved, SxInText
<1>. QED BY <1>1, <1>2

\* The types of an answer, for any statements: it credits columns to known tables only.
THEOREM SxTypesHold == SxSpec => []SxTypeOK
<1>. DEFINE Envs == sxEnv \in {"", "regex"} /\ (sxStmt \notin SxStatements => sxOut.reads = {})
            Known(reads) == \A r \in reads : r[1] \in SxTables
<1>1. SxInit => Envs
  <2>. SUFFICES ASSUME SxInit PROVE Envs
    OBVIOUS
  <2>1. sxOut = [mode |-> "none", reads |-> {}] /\ sxEnv \in {"", "regex"}
    BY DEF SxInit
  <2>2. sxOut.reads = {}
    BY <2>1
  <2>. QED BY <2>1, <2>2
<1>2. Envs /\ [SxNext]_sxVars => Envs'
  BY DEF SxNext, SxParse, sxVars
<1>3. ASSUME NEW s \in SxStatements, s.kind = "select"
      PROVE  Known(SxByTree(s)) /\ Known(SxByRegex(s))
  <2>. DEFINE outer == s.outer.from
              inner == s.inner.from
  <2>1. outer \in Seq(SxEntry) /\ inner \in Seq(SxEntry)
    BY <1>3, Shape
  <2>2. SxEntries(outer, inner) \in Seq(SxEntry) /\ SxEntries(inner, <<>>) \in Seq(SxEntry)
    BY <2>1, EntriesOfBoth, EntriesOfInner
  <2>3. SxTextTables(s) \in Seq(SxEntry)
    <3>1. SxSpotted(outer) \in Seq(SxEntry) /\ SxSpotted(inner) \in Seq(SxEntry)
      BY <2>1, Spotted
    <3>. QED BY <3>1, MembersOfBoth DEF SxTextTables
  <2>. QED BY <2>2, <2>3, ResolvedFound DEF SxByTree, SxByRegex
<1>4. SxInv /\ Envs => SxTypeOK
  <2>. SUFFICES ASSUME SxInv, Envs PROVE SxTypeOK
    OBVIOUS
  <2>. HIDE DEF Known
  <2>1. CASE sxStmt \notin SxStatements
    <3>1. sxOut.mode = "none"
      BY <2>1 DEF SxInv
    <3>. QED BY <2>1, <3>1 DEF SxTypeOK
  <2>2. CASE sxStmt \in SxStatements /\ sxStmt.kind = "none"
    BY <2>2, SxAssumption
  <2>3. CASE sxStmt \in SxStatements /\ sxStmt.kind # "none"
    <3>1. sxOut = SxParsed(sxStmt) /\ sxStmt.kind \in {"select", "comment"}
      BY <2>3, SxAssumption DEF SxInv
    <3>2. CASE sxStmt.kind = "comment"
      <4>1. sxOut.reads = {} /\ sxOut.mode = "skipped_empty"
        BY <3>1, <3>2 DEF SxParsed
      <4>. QED BY <4>1 DEF SxTypeOK
    <3>3. CASE sxStmt.kind = "select"
      <4>1. /\ sxOut.mode \in {"sqlglot", "regex", "empty"}
            /\ sxOut.reads \in {SxByTree(sxStmt), SxByRegex(sxStmt)}
        BY <3>1, <3>3 DEF SxParsed
      <4>2. Known(sxOut.reads)
        BY <1>3, <2>3, <3>3, <4>1
      <4>. QED BY <4>1, <4>2 DEF SxTypeOK, Known
    <3>. QED BY <3>1, <3>2, <3>3
  <2>. QED BY <2>1, <2>2, <2>3
<1>. QED BY <1>1, <1>2, <1>4, SxInvHolds, PTL DEF SxSpec

-----------------------------------------------------------------------------
(* Numbers and positions *)

\* The first position of a set of positions is one of them.
LEMMA FirstPosition ==
    ASSUME NEW S \in SUBSET Nat, S # {}
    PROVE  Min(S) \in S /\ \A m \in S : Min(S) <= m
<1>1. \E x \in S : \A y \in S : x =< y
  BY LeastNatural
<1>. QED BY <1>1, Zenon DEF Min

\* The smaller of two numbers.
LEMMA SmallerOf ==
    ASSUME NEW a \in Nat, NEW b \in Nat
    PROVE  Min({a, b}) \in Nat /\ Min({a, b}) <= a /\ Min({a, b}) <= b /\ Min({a, b}) \in {a, b}
BY FirstPosition

-----------------------------------------------------------------------------
(* A sorted list *)

\* The sequence has every member of the set; its order is the given one; the k-th member
\* of the set is the one that has k - 1 of them before it.
Lists(s, S) == s \in Seq(S) /\ \A x \in S : \E i \in 1..Len(s) : s[i] = x
Ascends(s, before) == \A i, j \in 1..Len(s) : s[i] \in before[s[j]] <=> i < j
Ranks(s, S, before) ==
    /\ Cardinality(S) = Len(s)
    /\ \A t \in S : \A k \in 1..Len(s) : Cardinality(before[t]) = k - 1 <=> t = s[k]

\* In a sorted list the k-th is the one with k - 1 before it.
LEMMA Ranked ==
    ASSUME NEW S, NEW s, NEW before \in [S -> SUBSET S], Lists(s, S), Ascends(s, before)
    PROVE  Ranks(s, S, before)
<1>. DEFINE First(k) == {s[i] : i \in 1..k}
<1>. s \in Seq(S) /\ \A x \in S : \E i \in 1..Len(s) : s[i] = x
  BY DEF Lists
<1>. \A i, j \in 1..Len(s) : s[i] \in before[s[j]] <=> i < j
  BY DEF Ascends
<1>1. \A i, j \in 1..Len(s) : s[i] = s[j] => i = j
  <2>. SUFFICES ASSUME NEW i \in 1..Len(s), NEW j \in 1..Len(s), s[i] = s[j], i # j PROVE FALSE
    OBVIOUS
  <2>1. i < j \/ j < i
    OBVIOUS
  <2>2. s[i] \in before[s[j]] <=> i < j
    OBVIOUS
  <2>3. s[j] \in before[s[i]] <=> j < i
    OBVIOUS
  <2>4. s[j] \in before[s[j]] <=> j < j
    OBVIOUS
  <2>. QED BY <2>1, <2>2, <2>3, <2>4
<1>2. ASSUME NEW k \in 0..Len(s)
      PROVE  IsFiniteSet(First(k)) /\ Cardinality(First(k)) = k
  <2>1. PICK f : f = [i \in 1..k |-> s[i]]
    OBVIOUS
  <2>2. PICK T : T = First(k)
    OBVIOUS
  <2>3. f \in Bijection(1..k, T)
    <3>1. f \in [1..k -> T]
      BY <2>1, <2>2
    <3>2. \A a, b \in 1..k : f[a] = f[b] => a = b
      BY <1>1, <2>1
    <3>3. \A t \in T : \E a \in 1..k : f[a] = t
      BY <2>1, <2>2
    <3>. QED BY <3>1, <3>2, <3>3, Zenon DEF Bijection, Injection, Surjection, IsInjective
  <2>4. IsFiniteSet(1..k) /\ Cardinality(1..k) = k
    BY FS_Interval
  <2>5. ExistsBijection(1..k, T)
    BY <2>3, Zenon DEF ExistsBijection
  <2>6. IsFiniteSet(T) /\ Cardinality(T) = k
    BY <2>4, <2>5, FS_Bijection
  <2>. QED BY <2>2, <2>6
<1>3. S = First(Len(s))
  OBVIOUS
<1>4. \A k \in 1..Len(s) : before[s[k]] = First(k - 1)
  <2>. SUFFICES ASSUME NEW k \in 1..Len(s) PROVE before[s[k]] = First(k - 1)
    OBVIOUS
  <2>0. s[k] \in S /\ before[s[k]] \subseteq S
    OBVIOUS
  <2>1. ASSUME NEW x \in before[s[k]] PROVE x \in First(k - 1)
    <3>1. PICK i \in 1..Len(s) : s[i] = x
      BY <2>0
    <3>2. i < k
      BY <2>1, <3>1
    <3>3. i \in 1..(k - 1)
      BY <3>2
    <3>. QED BY <3>1, <3>3
  <2>2. ASSUME NEW i \in 1..(k - 1) PROVE s[i] \in before[s[k]]
    <3>1. i \in 1..Len(s) /\ i < k
      BY <2>2
    <3>. QED BY <3>1
  <2>3. \A x \in First(k - 1) : x \in before[s[k]]
    BY <2>2
  <2>. QED BY <2>1, <2>3
<1>. HIDE DEF First
<1>5. Cardinality(S) = Len(s)
  BY <1>2, <1>3
<1>6. ASSUME NEW t \in S, NEW k \in 1..Len(s)
      PROVE  Cardinality(before[t]) = k - 1 <=> t = s[k]
  <2>1. PICK i \in 1..Len(s) : s[i] = t
    OBVIOUS
  <2>2. before[t] = First(i - 1)
    BY <1>4, <2>1
  <2>3. Cardinality(First(i - 1)) = i - 1
    BY <1>2
  <2>4. Cardinality(before[t]) = i - 1
    BY <2>2, <2>3
  <2>5. i = k <=> t = s[k]
    BY <1>1, <2>1
  <2>. QED BY <2>4, <2>5
<1>. QED BY <1>5, <1>6 DEF Ranks

\* The sorted list of tables, and of numbers, is any list of them that is sorted.
LEMMA SortedTables ==
    ASSUME NEW S, NEW s, Lists(s, S),
           \A i, j \in 1..Len(s) : PlBefore(s[i], s[j]) <=> i < j
    PROVE  PlSorted(S) = s
<1>1. PICK before : before = [t \in S |-> {x \in S : PlBefore(x, t)}]
  OBVIOUS
<1>. s \in Seq(S)
  BY DEF Lists
<1>2. before \in [S -> SUBSET S] /\ Ascends(s, before)
  <2>1. \A x, t \in S : x \in before[t] <=> PlBefore(x, t)
    BY <1>1
  <2>2. \A i \in 1..Len(s) : s[i] \in S
    OBVIOUS
  <2>. QED BY <1>1, <2>1, <2>2 DEF Ascends
<1>3. /\ Cardinality(S) = Len(s)
      /\ \A t \in S : \A k \in 1..Len(s) : Cardinality(before[t]) = k - 1 <=> t = s[k]
  <2>1. Ranks(s, S, before)
    BY <1>2, Ranked
  <2>. QED BY <2>1 DEF Ranks
<1>4. \A t \in S : \A k \in 1..Len(s) : Cardinality({x \in S : PlBefore(x, t)}) = k - 1 <=> t = s[k]
  <2>. SUFFICES ASSUME NEW t \in S, NEW k \in 1..Len(s)
                PROVE  Cardinality({x \in S : PlBefore(x, t)}) = k - 1 <=> t = s[k]
    OBVIOUS
  <2>1. before[t] = {x \in S : PlBefore(x, t)}
    BY <1>1
  <2>2. Cardinality(before[t]) = k - 1 <=> t = s[k]
    BY <1>3
  <2>. QED BY <2>1, <2>2, Zenon
<1>5. PlSorted(S) = [k \in 1..Len(s) |-> CHOOSE t \in S : Cardinality({x \in S : PlBefore(x, t)}) = k - 1]
  BY <1>3, Zenon DEF PlSorted, PlInOrder
<1>6. \A k \in 1..Len(s) : (CHOOSE t \in S : Cardinality({x \in S : PlBefore(x, t)}) = k - 1) = s[k]
  <2>. SUFFICES ASSUME NEW k \in 1..Len(s)
                PROVE  (CHOOSE t \in S : Cardinality({x \in S : PlBefore(x, t)}) = k - 1) = s[k]
    OBVIOUS
  <2>1. s[k] \in S
    OBVIOUS
  <2>. QED BY <1>4, <2>1, Zenon
<1>7. PlSorted(S) = [k \in 1..Len(s) |-> s[k]]
  BY <1>5, <1>6, Zenon
<1>8. s = [k \in 1..Len(s) |-> s[k]]
  OBVIOUS
<1>. QED BY <1>7, <1>8, Zenon

\* The same for positions.
LEMMA SortedNumbers ==
    ASSUME NEW S \in SUBSET Nat, NEW s, Lists(s, S),
           \A i, j \in 1..Len(s) : s[i] < s[j] <=> i < j
    PROVE  PlInOrder(S, <) = s
<1>1. PICK before : before = [t \in S |-> {x \in S : x < t}]
  OBVIOUS
<1>. s \in Seq(S)
  BY DEF Lists
<1>2. before \in [S -> SUBSET S] /\ Ascends(s, before)
  <2>1. \A x, t \in S : x \in before[t] <=> x < t
    BY <1>1
  <2>2. \A i \in 1..Len(s) : s[i] \in S
    OBVIOUS
  <2>. QED BY <1>1, <2>1, <2>2 DEF Ascends
<1>3. /\ Cardinality(S) = Len(s)
      /\ \A t \in S : \A k \in 1..Len(s) : Cardinality(before[t]) = k - 1 <=> t = s[k]
  <2>1. Ranks(s, S, before)
    BY <1>2, Ranked
  <2>. QED BY <2>1 DEF Ranks
<1>4. \A t \in S : \A k \in 1..Len(s) : Cardinality({x \in S : x < t}) = k - 1 <=> t = s[k]
  <2>. SUFFICES ASSUME NEW t \in S, NEW k \in 1..Len(s)
                PROVE  Cardinality({x \in S : x < t}) = k - 1 <=> t = s[k]
    OBVIOUS
  <2>1. before[t] = {x \in S : x < t}
    BY <1>1
  <2>2. Cardinality(before[t]) = k - 1 <=> t = s[k]
    BY <1>3
  <2>. QED BY <2>1, <2>2, Zenon
<1>5. PlInOrder(S, <) = [k \in 1..Len(s) |-> CHOOSE t \in S : Cardinality({x \in S : x < t}) = k - 1]
  BY <1>3, Zenon DEF PlInOrder
<1>6. \A k \in 1..Len(s) : (CHOOSE t \in S : Cardinality({x \in S : x < t}) = k - 1) = s[k]
  <2>. SUFFICES ASSUME NEW k \in 1..Len(s)
                PROVE  (CHOOSE t \in S : Cardinality({x \in S : x < t}) = k - 1) = s[k]
    OBVIOUS
  <2>1. s[k] \in S
    OBVIOUS
  <2>. QED BY <1>4, <2>1, Zenon
<1>7. PlInOrder(S, <) = [k \in 1..Len(s) |-> s[k]]
  BY <1>5, <1>6, Zenon
<1>8. s = [k \in 1..Len(s) |-> s[k]]
  OBVIOUS
<1>. QED BY <1>7, <1>8, Zenon

\* Every finite set of numbers has a sorted list.
LEMMA NumbersAreListed ==
    ASSUME NEW top \in Nat, NEW S \in SUBSET (1..top)
    PROVE  \E s : Lists(s, S) /\ \A i, j \in 1..Len(s) : s[i] < s[j] <=> i < j
<1>. DEFINE Good(T) == \E s : Lists(s, T) /\ \A i, j \in 1..Len(s) : s[i] < s[j] <=> i < j
            Bad == {n \in Nat : \E T \in SUBSET (1..n) : ~Good(T)}
<1>1. Bad = {}
  <2>. SUFFICES ASSUME Bad # {} PROVE FALSE
    OBVIOUS
  <2>1. PICK n \in Bad : \A m \in Bad : n <= m
    <3>1. Bad \in SUBSET Nat
      OBVIOUS
    <3>. HIDE DEF Bad
    <3>. QED BY <3>1, LeastNatural
  <2>2. PICK T \in SUBSET (1..n) : ~Good(T)
    BY <2>1
  <2>3. n # 0
    <3>. SUFFICES ASSUME n = 0 PROVE FALSE
      OBVIOUS
    <3>1. T = {}
      BY <2>2
    <3>2. Lists(<<>>, T) /\ Len(<<>>) = 0
      BY <3>1 DEF Lists
    <3>. QED BY <2>2, <3>2
  <2>4. T \ {n} \in SUBSET (1..(n - 1)) /\ n - 1 \in Nat /\ n \in Nat
    BY <2>1, <2>2, <2>3
  <2>5. Good(T \ {n})
    <3>1. n - 1 \notin Bad
      <4>. HIDE DEF Bad
      <4>1. n \in Nat /\ ~(n <= n - 1)
        BY <2>4
      <4>. QED BY <2>1, <4>1
    <3>. QED BY <2>4, <3>1
  <2>6. PICK s : Lists(s, T \ {n}) /\ \A i, j \in 1..Len(s) : s[i] < s[j] <=> i < j
    BY <2>5
  <2>. HIDE DEF Good, Bad
  <2>7. n \in T
    <3>. SUFFICES ASSUME n \notin T PROVE FALSE
      OBVIOUS
    <3>1. T \ {n} = T
      OBVIOUS
    <3>. QED BY <2>2, <2>5, <3>1
  <2>8. s \in Seq(T \ {n}) /\ \A x \in T \ {n} : \E i \in 1..Len(s) : s[i] = x
    BY <2>6 DEF Lists
  <2>9. PICK longer : longer = Append(s, n)
    OBVIOUS
  <2>10. /\ longer \in Seq(T) /\ Len(longer) = Len(s) + 1 /\ longer[Len(s) + 1] = n
         /\ \A i \in 1..Len(s) : longer[i] = s[i]
    <3>1. s \in Seq(T)
      BY <2>8
    <3>. QED BY <2>7, <2>9, <3>1
  <2>11. Lists(longer, T)
    <3>1. \A x \in T : \E i \in 1..Len(longer) : longer[i] = x
      <4>. SUFFICES ASSUME NEW x \in T PROVE \E i \in 1..Len(longer) : longer[i] = x
        OBVIOUS
      <4>1. CASE x = n
        BY <2>8, <2>10, <4>1
      <4>2. CASE x # n
        <5>1. PICK i \in 1..Len(s) : s[i] = x
          BY <2>8, <4>2
        <5>2. i \in 1..Len(longer) /\ longer[i] = x
          BY <2>8, <2>10, <5>1
        <5>. QED BY <5>2
      <4>. QED BY <4>1, <4>2
    <3>. QED BY <2>10, <3>1 DEF Lists
  <2>12. ASSUME NEW i \in 1..Len(longer), NEW j \in 1..Len(longer)
         PROVE  longer[i] < longer[j] <=> i < j
    <3>1. \A k \in 1..Len(s) : longer[k] \in Int /\ longer[k] < n /\ longer[k] = s[k]
      <4>. SUFFICES ASSUME NEW k \in 1..Len(s)
                    PROVE  longer[k] \in Int /\ longer[k] < n /\ longer[k] = s[k]
        OBVIOUS
      <4>0. s[k] \in T \ {n}
        BY <2>8
      <4>1. s[k] \in 1..(n - 1) /\ longer[k] = s[k]
        BY <2>4, <2>10, <4>0
      <4>. QED BY <2>4, <4>1
    <3>2. Len(s) \in Nat /\ (i \in 1..Len(s) \/ i = Len(s) + 1) /\ (j \in 1..Len(s) \/ j = Len(s) + 1)
      BY <2>8, <2>10
    <3>3. CASE i \in 1..Len(s) /\ j \in 1..Len(s)
      BY <2>6, <3>1, <3>3
    <3>4. CASE i \in 1..Len(s) /\ j = Len(s) + 1
      BY <2>10, <3>1, <3>2, <3>4
    <3>5. CASE i = Len(s) + 1 /\ j \in 1..Len(s)
      BY <2>4, <2>10, <3>1, <3>2, <3>5
    <3>6. CASE i = Len(s) + 1 /\ j = Len(s) + 1
      BY <2>4, <2>10, <3>2, <3>6
    <3>. QED BY <3>2, <3>3, <3>4, <3>5, <3>6
  <2>13. Good(T)
    BY <2>11, <2>12, Zenon DEF Good
  <2>. QED BY <2>2, <2>13
<1>2. Good(S)
  BY <1>1
<1>. QED BY <1>2

\* The positions of a set in order: the sequence PlInOrder chooses lists them, ascending.
LEMMA NumbersInOrder ==
    ASSUME NEW top \in Nat, NEW S \in SUBSET (1..top)
    PROVE  /\ Lists(PlInOrder(S, <), S)
           /\ \A i, j \in 1..Len(PlInOrder(S, <)) :
                 PlInOrder(S, <)[i] < PlInOrder(S, <)[j] <=> i < j
<1>1. PICK s : Lists(s, S) /\ \A i, j \in 1..Len(s) : s[i] < s[j] <=> i < j
  BY NumbersAreListed
<1>2. S \in SUBSET Nat
  OBVIOUS
<1>3. PlInOrder(S, <) = s
  BY <1>1, <1>2, SortedNumbers
<1>. QED BY <1>1, <1>3, Zenon
-----------------------------------------------------------------------------
(* Planner: the order of the tables *)

\* The report and the caps stay what the request found.
PlKnown ==
    /\ plReport \in [prio: [PlTables -> PlScores], dom: [PlTables -> PlDomains],
                     pairs: SUBSET PlPairs, listed: PlListings]
    /\ plCap \in PlCaps

\* A ghost, or any other name, has a priority too.
LEMMA PlPrioKnown == ASSUME PlKnown, NEW t PROVE PlPrio(t) \in Int
<1>1. plReport.prio \in [PlTables -> PlScores]
  BY DEF PlKnown
<1>2. PlScores \subseteq Int
  BY PlAssumption
<1>3. PICK prio : prio = plReport.prio
  OBVIOUS
<1>4. prio \in [PlTables -> Int]
  BY <1>1, <1>2, <1>3
<1>5. PlPrio(t) = IF t \in PlTables THEN prio[t] ELSE 0
  BY <1>3 DEF PlPrio
<1>. QED BY <1>4, <1>5

\* Before is a total order of tables and ghosts.
LEMMA PlBeforeOrders ==
    ASSUME PlKnown, NEW s \in Int, NEW t \in Int, NEW u \in Int
    PROVE  /\ PlBefore(s, t) => s # t /\ ~PlBefore(t, s)
           /\ PlBefore(s, t) /\ PlBefore(t, u) => PlBefore(s, u)
           /\ s = t \/ PlBefore(s, t) \/ PlBefore(t, s)
BY PlPrioKnown DEF PlBefore

\* Of every set of tables one is before the others.
PlFirstOf(t, S) == t \in S /\ \A s \in S \ {t} : PlBefore(t, s)

\* So has every set of names that is not empty.
LEMMA PlLeast ==
    ASSUME PlKnown, NEW top \in Nat, NEW S \in SUBSET (1..top), S # {}
    PROVE  \E t : PlFirstOf(t, S)
<1>. DEFINE Good(T) == \E t \in T : \A s \in T \ {t} : PlBefore(t, s)
            Bad == {n \in Nat : \E T \in SUBSET (1..n) : T # {} /\ ~Good(T)}
<1>1. Bad = {}
  <2>. SUFFICES ASSUME Bad # {} PROVE FALSE
    OBVIOUS
  <2>1. PICK n \in Bad : \A m \in Bad : n <= m
    <3>1. Bad \in SUBSET Nat
      OBVIOUS
    <3>. HIDE DEF Bad
    <3>. QED BY <3>1, LeastNatural
  <2>2. PICK T \in SUBSET (1..n) : T # {} /\ ~Good(T)
    BY <2>1
  <2>3. n \in Nat \ {0} /\ n - 1 \in Nat /\ n - 1 \notin Bad
    <3>1. n \in Nat
      BY <2>1
    <3>2. n # 0
      <4>. HIDE DEF Good, Bad
      <4>1. PICK t : t \in T
        BY <2>2
      <4>2. t \in 1..n
        BY <2>2, <4>1
      <4>. QED BY <3>1, <4>2
    <3>. HIDE DEF Bad
    <3>. QED BY <2>1, <3>1, <3>2
  <2>4. T \ {n} \in SUBSET (1..(n - 1))
    BY <2>2, <2>3
  <2>5. T \ {n} # {}
    <3>. SUFFICES ASSUME T \ {n} = {} PROVE FALSE
      OBVIOUS
    <3>1. T # {}
      BY <2>2
    <3>2. n \in T /\ \A s \in T \ {n} : PlBefore(n, s)
      BY <3>1
    <3>. QED BY <2>2, <3>2
  <2>6. PICK t \in T \ {n} : \A s \in (T \ {n}) \ {t} : PlBefore(t, s)
    BY <2>3, <2>4, <2>5
  <2>. HIDE DEF Bad
  <2>7. n \in T
    <3>. SUFFICES ASSUME n \notin T PROVE FALSE
      OBVIOUS
    <3>1. T \ {n} = T
      OBVIOUS
    <3>. QED BY <2>2, <2>6, <3>1
  <2>8. t \in Int /\ n \in Int /\ t # n /\ T \subseteq Int
    BY <2>2, <2>3, <2>6
  <2>9. CASE PlBefore(t, n)
    <3>1. \A s \in T \ {t} : PlBefore(t, s)
      BY <2>6, <2>9
    <3>. QED BY <2>2, <2>6, <3>1
  <2>10. CASE PlBefore(n, t)
    <3>1. \A s \in T \ {n} : PlBefore(n, s)
      <4>. SUFFICES ASSUME NEW s \in T \ {n}, s # t PROVE PlBefore(n, s)
        BY <2>10
      <4>1. PlBefore(t, s) /\ s \in Int
        BY <2>6, <2>8
      <4>. QED BY <2>8, <2>10, <4>1, PlBeforeOrders
    <3>. QED BY <2>2, <2>7, <3>1
  <2>. QED BY <2>8, <2>9, <2>10, PlBeforeOrders
<1>2. Good(S)
  BY <1>1
<1>. QED BY <1>2 DEF PlFirstOf

\* The order found so far: sorted, and before what is left.
PlOrdered ==
    /\ plOrder \in Seq(PlTables)
    /\ \A i, j \in 1..Len(plOrder) : i < j => PlBefore(plOrder[i], plOrder[j])
    /\ \A i \in 1..Len(plOrder) : \A t \in PlTables \ ToSet(plOrder) : PlBefore(plOrder[i], t)
    /\ plPhase # "order" => \A t \in PlTables : \E i \in 1..Len(plOrder) : plOrder[i] = t

\* What is left has a table whose predecessors are out: the one before all others.
LEMMA PlNextIsReady ==
    ASSUME PlKnown, PlTables \ ToSet(plOrder) # {}
    PROVE  \E t \in PlReady : \A s \in PlTables \ ToSet(plOrder) : s # t => PlBefore(t, s)
<1>1. PICK t \in PlTables \ ToSet(plOrder) :
         \A s \in (PlTables \ ToSet(plOrder)) \ {t} : PlBefore(t, s)
  <2>1. PICK S : S = PlTables \ ToSet(plOrder)
    OBVIOUS
  <2>2. PlSize \in Nat /\ S \in SUBSET (1..PlSize) /\ S # {}
    BY <2>1, PlAssumption DEF PlTables
  <2>3. PICK t : PlFirstOf(t, S)
    BY <2>2, PlLeast
  <2>. QED BY <2>1, <2>3 DEF PlFirstOf
<1>2. PlPreds(t) \subseteq ToSet(plOrder)
  <2>. SUFFICES ASSUME NEW s \in PlPreds(t), s \notin ToSet(plOrder) PROVE FALSE
    OBVIOUS
  <2>1. s \in PlTables /\ PlBefore(s, t)
    BY DEF PlPreds
  <2>2. s \in Int /\ t \in Int
    BY <2>1, PlAssumption DEF PlTables
  <2>3. s # t
    BY <2>1, <2>2, PlBeforeOrders
  <2>. QED BY <1>1, <2>1, <2>2, <2>3, PlBeforeOrders
<1>. QED BY <1>1, <1>2 DEF PlReady

\* Taking it leaves the order sorted and before what is left.
LEMMA PlPopKeepsOrder ==
    ASSUME PlKnown, PlOrdered, PlPop
    PROVE  PlOrdered'
<1>0. plReport' = plReport /\ \A s, t : PlBefore(s, t)' = PlBefore(s, t)
  BY Zenon DEF PlPop, PlBefore, PlPrio
<1>1. CASE \E t \in PlReady : /\ \A s \in PlReady \ {t} : PlBefore(t, s)
                              /\ plOrder' = Append(plOrder, t) /\ plPhase' = plPhase
  <2>1. PICK t \in PlReady : /\ \A s \in PlReady \ {t} : PlBefore(t, s)
                             /\ plOrder' = Append(plOrder, t) /\ plPhase' = plPhase
    BY <1>1
  <2>2. t \in PlTables \ ToSet(plOrder) /\ plPhase = "order"
    BY <2>1 DEF PlReady, PlPop
  <2>3. \A s \in PlTables \ ToSet(plOrder) : s # t => PlBefore(t, s)
    <3>1. PICK u \in PlReady : \A s \in PlTables \ ToSet(plOrder) : s # u => PlBefore(u, s)
      BY <2>2, PlNextIsReady
    <3>2. u \in PlTables /\ u \in Int /\ t \in Int
      BY <2>2, <3>1, PlAssumption DEF PlReady, PlTables
    <3>3. u = t
      <4>. SUFFICES ASSUME u # t PROVE FALSE
        OBVIOUS
      <4>1. PlBefore(t, u) /\ PlBefore(u, t)
        BY <2>1, <2>2, <3>1
      <4>. QED BY <3>2, <4>1, PlBeforeOrders
    <3>. QED BY <3>1, <3>3
  <2>4. /\ plOrder \in Seq(PlTables) /\ Len(plOrder) \in Nat
        /\ \A i, j \in 1..Len(plOrder) : i < j => PlBefore(plOrder[i], plOrder[j])
        /\ \A i \in 1..Len(plOrder) : \A s \in PlTables \ ToSet(plOrder) : PlBefore(plOrder[i], s)
    BY DEF PlOrdered
  <2>5. /\ plOrder' \in Seq(PlTables) /\ Len(plOrder') = Len(plOrder) + 1
        /\ plOrder'[Len(plOrder) + 1] = t
        /\ \A i \in 1..Len(plOrder) : plOrder'[i] = plOrder[i]
    BY <2>1, <2>2, <2>4
  <2>6. \A s : s \notin ToSet(plOrder') => s \notin ToSet(plOrder) /\ s # t
    <3>1. DOMAIN plOrder = 1..Len(plOrder) /\ DOMAIN plOrder' = 1..(Len(plOrder) + 1)
      BY <2>4, <2>5
    <3>2. \A i \in DOMAIN plOrder : plOrder[i] \in ToSet(plOrder')
      <4>. SUFFICES ASSUME NEW i \in DOMAIN plOrder PROVE plOrder[i] \in ToSet(plOrder')
        OBVIOUS
      <4>1. i \in DOMAIN plOrder' /\ plOrder'[i] = plOrder[i]
        BY <2>4, <2>5, <3>1
      <4>. QED BY <4>1 DEF ToSet
    <3>3. t \in ToSet(plOrder')
      <4>1. Len(plOrder) + 1 \in DOMAIN plOrder'
        BY <2>4, <3>1
      <4>. QED BY <2>5, <4>1 DEF ToSet
    <3>4. \A s \in ToSet(plOrder) : s \in ToSet(plOrder')
      BY <3>2 DEF ToSet
    <3>. QED BY <3>3, <3>4
  <2>7. ASSUME NEW i \in 1..(Len(plOrder) + 1), NEW j \in 1..(Len(plOrder) + 1), i < j
        PROVE  PlBefore(plOrder'[i], plOrder'[j])
    <3>1. i \in 1..Len(plOrder) /\ plOrder'[i] = plOrder[i]
      BY <2>4, <2>5, <2>7
    <3>2. CASE j \in 1..Len(plOrder)
      BY <2>4, <2>5, <2>7, <3>1, <3>2
    <3>3. CASE j = Len(plOrder) + 1
      BY <2>2, <2>4, <2>5, <3>1, <3>3
    <3>. QED BY <2>4, <3>2, <3>3
  <2>8. ASSUME NEW i \in 1..(Len(plOrder) + 1), NEW s \in PlTables, s \notin ToSet(plOrder')
        PROVE  PlBefore(plOrder'[i], s)
    <3>1. CASE i \in 1..Len(plOrder)
      BY <2>4, <2>5, <2>6, <2>8, <3>1
    <3>2. CASE i = Len(plOrder) + 1
      BY <2>3, <2>5, <2>6, <2>8, <3>2
    <3>. QED BY <2>4, <3>1, <3>2
  <2>9. plPhase' = "order"
    BY <2>1, <2>2
  <2>10. PlTables' = PlTables
    BY DEF PlTables
  <2>. QED BY <1>0, <2>5, <2>7, <2>8, <2>9, <2>10 DEF PlOrdered
<1>2. CASE PlReady = {} /\ plOrder' = plOrder /\ plPhase' = "waves"
  <2>1. PlTables \ ToSet(plOrder) = {}
    BY <1>2, PlNextIsReady
  <2>2. \A t \in PlTables : \E i \in 1..Len(plOrder) : plOrder[i] = t
    BY <2>1 DEF ToSet, PlOrdered
  <2>. QED BY <1>0, <1>2, <2>2 DEF PlOrdered, PlTables
<1>. QED BY <1>1, <1>2, Zenon DEF PlPop
-----------------------------------------------------------------------------
(* Planner: the next chunk *)

\* The domain of a table of the inventory.
PlDomOf(t) == plReport.dom[t]

\* The domain at hand is one that has tables left.
LEMMA PlDomainIsOpen ==
    ASSUME PlKnown, PlOrdered, plPhase = "waves", PlOpen # {}
    PROVE  PlDomain \in PlOpen
<1>1. PlOpen \in SUBSET Nat
  <2>1. PICK dom : dom = plReport.dom
    OBVIOUS
  <2>2. dom \in [PlTables -> PlDomains]
    BY <2>1 DEF PlKnown
  <2>3. PlDomains \subseteq Nat
    BY PlAssumption
  <2>. QED BY <2>1, <2>2, <2>3 DEF PlOpen
<1>2. CASE ~PlLineageUsed
  <2>1. PICK d \in PlOpen : \A o \in PlOpen : d <= o
    BY <1>1, LeastNatural
  <2>2. \A o \in PlOpen \ {d} : d < o
    BY <1>1, <2>1
  <2>3. \E e \in PlOpen : \A o \in PlOpen \ {e} :
           IF PlLineageUsed THEN PlEarliest(e) < PlEarliest(o) ELSE e < o
    BY <1>2, <2>2
  <2>. QED BY <2>3, Zenon DEF PlDomain
<1>3. CASE PlLineageUsed
  <2>1. ASSUME NEW d \in PlOpen
        PROVE  /\ PlEarliest(d) \in 1..Len(plOrder)
               /\ PlDomOf(plOrder[PlEarliest(d)]) = d
    <3>1. PICK S : S = {i \in 1..Len(plOrder) : plReport.dom[plOrder[i]] = d}
      OBVIOUS
    <3>2. PICK t \in PlTables : plReport.dom[t] = d
      BY <2>1 DEF PlOpen
    <3>3. PICK i \in 1..Len(plOrder) : plOrder[i] = t
      BY <3>2 DEF PlOrdered
    <3>4. S \in SUBSET Nat /\ i \in S
      BY <3>1, <3>2, <3>3
    <3>5. Min(S) \in S
      BY <3>4, FirstPosition
    <3>6. PlEarliest(d) = Min(S)
      BY <3>1, Zenon DEF PlEarliest
    <3>. QED BY <3>1, <3>5, <3>6 DEF PlDomOf
  <2>2. PICK E : E = {PlEarliest(d) : d \in PlOpen}
    OBVIOUS
  <2>3. E \in SUBSET Nat /\ E # {}
    BY <2>1, <2>2
  <2>4. PICK e \in E : \A n \in E : e <= n
    BY <2>3, LeastNatural
  <2>5. PICK d \in PlOpen : e = PlEarliest(d)
    BY <2>2, <2>4
  <2>6. \A o \in PlOpen \ {d} : PlEarliest(d) < PlEarliest(o)
    <3>. SUFFICES ASSUME NEW o \in PlOpen, o # d PROVE PlEarliest(d) < PlEarliest(o)
      OBVIOUS
    <3>1. PlEarliest(d) <= PlEarliest(o)
      BY <2>2, <2>4, <2>5
    <3>2. PlEarliest(d) # PlEarliest(o)
      BY <2>1
    <3>. QED BY <2>1, <3>1, <3>2
  <2>7. \E f \in PlOpen : \A o \in PlOpen \ {f} :
           IF PlLineageUsed THEN PlEarliest(f) < PlEarliest(o) ELSE f < o
    BY <1>3, <2>6
  <2>. QED BY <2>7, Zenon DEF PlDomain
<1>. QED BY <1>2, <1>3

\* The caps are positive: no chunk is empty, no plan without waves.
LEMMA PlCapsKnown == ASSUME PlKnown PROVE plCap[1] \in Nat \ {0} /\ plCap[2] \in Nat \ {0}
BY PlAssumption DEF PlKnown

\* The positions of the tables that the domain at hand has left.
PlRows == {i \in DOMAIN plOrder : plOrder[i] \notin plDone /\ plReport.dom[plOrder[i]] = PlDomain}

\* The chunk: tables that are left, of the domain at hand, in order, and before what the
\* domain has left then.
PlChunkIs(c) ==
    /\ c \in Seq(PlTables) /\ Len(c) \in 1..plCap[1]
    /\ \A i \in 1..Len(c) : c[i] \notin plDone /\ PlDomOf(c[i]) = PlDomain
    /\ \A i, j \in 1..Len(c) : i < j => PlBefore(c[i], c[j])
    /\ \A i \in 1..Len(c) : \A s \in PlTables \ plDone :
          PlDomOf(s) = PlDomain /\ s \notin ToSet(c) => PlBefore(c[i], s)

\* The next chunk is such a one.
LEMMA PlNextChunk ==
    ASSUME PlKnown, PlOrdered, plPhase = "waves", PlOpen # {}
    PROVE  PlChunkIs(PlChunk)
<1>1. PICK rows : rows = PlInOrder(PlRows, <)
  OBVIOUS
<1>2. plOrder \in Seq(PlTables) /\ DOMAIN plOrder = 1..Len(plOrder) /\ Len(plOrder) \in Nat
  BY DEF PlOrdered
<1>3. Lists(rows, PlRows) /\ \A i, j \in 1..Len(rows) : rows[i] < rows[j] <=> i < j
  <2>1. PICK top, S : top = Len(plOrder) /\ S = PlRows
    OBVIOUS
  <2>2. top \in Nat /\ S \in SUBSET (1..top)
    BY <1>2, <2>1 DEF PlRows
  <2>3. /\ Lists(PlInOrder(S, <), S)
        /\ \A i, j \in 1..Len(PlInOrder(S, <)) :
              PlInOrder(S, <)[i] < PlInOrder(S, <)[j] <=> i < j
    BY <2>2, NumbersInOrder, Zenon
  <2>. QED BY <1>1, <2>1, <2>3, Zenon
<1>4. /\ rows \in Seq(PlRows) /\ Len(rows) \in Nat
      /\ \A x \in PlRows : \E i \in 1..Len(rows) : rows[i] = x
  BY <1>3 DEF Lists
<1>5. PICK n : n = Min({Len(rows), plCap[1]})
  OBVIOUS
<1>6. n \in Nat /\ n <= Len(rows) /\ n <= plCap[1] /\ n \in {Len(rows), plCap[1]}
  BY <1>4, <1>5, PlCapsKnown, SmallerOf
<1>7. PICK c : c = [k \in 1..n |-> plOrder[rows[k]]]
  OBVIOUS
<1>8. PlChunk = c
  BY <1>1, <1>5, <1>7, Zenon DEF PlChunk, PlRows
<1>9. ASSUME NEW k \in 1..Len(rows)
      PROVE  /\ rows[k] \in 1..Len(plOrder)
             /\ plOrder[rows[k]] \in PlTables
             /\ plOrder[rows[k]] \notin plDone
             /\ PlDomOf(plOrder[rows[k]]) = PlDomain
  <2>1. rows[k] \in PlRows
    BY <1>4
  <2>. QED BY <1>2, <2>1 DEF PlRows, PlDomOf
<1>10. n >= 1
  <2>1. PlDomain \in PlOpen
    BY PlDomainIsOpen
  <2>2. PICK t \in PlTables \ plDone : plReport.dom[t] = PlDomain
    BY <2>1 DEF PlOpen
  <2>3. PICK i \in 1..Len(plOrder) : plOrder[i] = t
    BY <2>2 DEF PlOrdered
  <2>4. i \in PlRows
    BY <1>2, <2>2, <2>3 DEF PlRows
  <2>5. Len(rows) # 0
    BY <1>4, <2>4
  <2>. QED BY <1>4, <1>6, <2>5, PlCapsKnown
<1>11. c \in Seq(PlTables) /\ Len(c) = n /\ \A k \in 1..n : c[k] = plOrder[rows[k]]
  BY <1>6, <1>7, <1>9
<1>12. ASSUME NEW i \in 1..Len(rows), NEW j \in 1..Len(rows), i < j
       PROVE  PlBefore(plOrder[rows[i]], plOrder[rows[j]])
  <2>1. rows[i] < rows[j]
    BY <1>3, <1>12
  <2>. QED BY <1>9, <2>1 DEF PlOrdered
<1>13. ASSUME NEW i \in 1..n, NEW s \in PlTables \ plDone, PlDomOf(s) = PlDomain,
              s \notin ToSet(c)
       PROVE  PlBefore(c[i], s)
  <2>1. PICK p \in 1..Len(plOrder) : plOrder[p] = s
    BY DEF PlOrdered
  <2>2. p \in PlRows
    BY <1>2, <1>13, <2>1 DEF PlRows, PlDomOf
  <2>3. PICK m \in 1..Len(rows) : rows[m] = p
    BY <1>4, <2>2
  <2>4. m > n
    <3>. SUFFICES ASSUME ~(m > n) PROVE FALSE
      OBVIOUS
    <3>1. m \in 1..n
      BY <1>4, <1>6
    <3>2. c[m] = s
      BY <1>11, <2>1, <2>3, <3>1
    <3>3. DOMAIN c = 1..n
      BY <1>7
    <3>4. s \in ToSet(c)
      BY <3>1, <3>2, <3>3, Zenon DEF ToSet
    <3>. QED BY <1>13, <3>4, Zenon
  <2>5. i \in 1..Len(rows) /\ i < m
    BY <1>4, <1>6, <2>4
  <2>. QED BY <1>11, <1>12, <2>1, <2>3, <2>5
<1>14. \A i \in 1..n : i \in 1..Len(rows)
  BY <1>4, <1>6
<1>15. n \in 1..plCap[1]
  BY <1>6, <1>10, PlCapsKnown
<1>16. PlChunkIs(c)
  <2>1. \A i \in 1..n : c[i] \notin plDone /\ PlDomOf(c[i]) = PlDomain
    BY <1>9, <1>11, <1>14
  <2>2. \A i, j \in 1..n : i < j => PlBefore(c[i], c[j])
    BY <1>11, <1>12, <1>14
  <2>. QED BY <1>11, <1>13, <1>15, <2>1, <2>2 DEF PlChunkIs
<1>. QED BY <1>8, <1>16
-----------------------------------------------------------------------------
(* Planner: the waves *)

\* What a wave may name, and what it is made of.
PlNames == PlTables \cup PlOutside
PlWaveShapes == [tables : Seq(PlNames), broken : SUBSET PlNames, run : Seq(PlNames)]

\* A wave within the cap whose run order is sorted, whose unflagged tables touch nothing
\* unlisted, and whose inventory tables are of one domain.
PlSoundWave(w) ==
    /\ Len(w.tables) \in 1..plCap[1] /\ w.run = w.tables
    /\ \A p, q \in 1..Len(w.tables) : p < q => PlBefore(w.tables[p], w.tables[q])
    /\ \A t \in ToSet(w.tables) \ w.broken : PlUnlisted({t} \union PlNeighbours(t)) = {}
    /\ \A s, t \in ToSet(w.tables) \intersect PlTables : PlDomOf(s) = PlDomOf(t)

\* A table of a later wave: another one, and after the first when of its domain.
PlFollows(s, t) == s # t /\ (PlDomOf(s) = PlDomOf(t) => PlBefore(s, t))

\* Every wave is sound, and what comes later in a domain is in a later wave.
PlWavesSound ==
    /\ plWaves \in Seq(PlWaveShapes) /\ Len(plWaves) <= plCap[2]
    /\ \A i \in 1..Len(plWaves) : PlSoundWave(plWaves[i])
    /\ \A i, j \in 1..Len(plWaves) : i < j =>
          \A s \in ToSet(plWaves[i].tables) \intersect PlTables :
             \A t \in ToSet(plWaves[j].tables) \intersect PlTables : PlFollows(s, t)

\* What is done is in the waves, and comes before what its domain has left.
PlTaken ==
    /\ plPhase = "order" => plWaves = <<>> /\ plDone = {}
    /\ plDone \subseteq PlTables
    /\ \A t \in PlTables : t \in plDone <=> \E i \in 1..Len(plWaves) : t \in ToSet(plWaves[i].tables)
    /\ \A s \in plDone : \A t \in PlTables \ plDone : PlDomOf(s) = PlDomOf(t) => PlBefore(s, t)
    /\ plPhase = "served" => plTruncated \/ plDone = PlTables

\* The inductive invariant.
PlInv ==
    /\ PlKnown /\ PlOrdered /\ PlWavesSound /\ PlTaken
    /\ plPhase \in {"order", "waves", "served"}

\* What depends on the report alone does not change.
LEMMA PlReportKept ==
    ASSUME UNCHANGED <<plReport, plCap>>
    PROVE  /\ PlKnown' <=> PlKnown
           /\ \A w : PlSoundWave(w)' <=> PlSoundWave(w)
           /\ \A s, t : PlFollows(s, t)' <=> PlFollows(s, t)
           /\ \A s, t : PlBefore(s, t)' <=> PlBefore(s, t)
           /\ \A t : PlDomOf(t)' = PlDomOf(t)
<1>1. \A s, t : PlBefore(s, t)' <=> PlBefore(s, t)
  BY Zenon DEF PlBefore, PlPrio
<1>2. \A t : PlDomOf(t)' = PlDomOf(t)
  BY DEF PlDomOf
<1>3. \A t : PlUnlisted({t} \union PlNeighbours(t))' = PlUnlisted({t} \union PlNeighbours(t))
  BY DEF PlUnlisted, PlNeighbours
<1>. QED BY <1>1, <1>2, <1>3 DEF PlKnown, PlSoundWave, PlFollows, PlTables, PlPairs, PlOutside

\* A sorted list of names is the one that the rationale prints.
LEMMA PlRunIs ==
    ASSUME PlKnown, NEW c \in Seq(PlNames),
           \A p, q \in 1..Len(c) : p < q => PlBefore(c[p], c[q])
    PROVE  PlSorted(ToSet(c)) = c
<1>1. PlNames \subseteq Int
  BY PlAssumption DEF PlNames, PlTables, PlOutside
<1>2. PICK S : S = ToSet(c)
  OBVIOUS
<1>3. DOMAIN c = 1..Len(c) /\ Len(c) \in Nat /\ \A i \in 1..Len(c) : c[i] \in S
  BY <1>2 DEF ToSet
<1>4. Lists(c, S)
  <2>1. c \in Seq(S)
    BY <1>3
  <2>2. \A x \in S : \E i \in 1..Len(c) : c[i] = x
    BY <1>2, <1>3 DEF ToSet
  <2>. QED BY <2>1, <2>2 DEF Lists
<1>5. \A p, q \in 1..Len(c) : PlBefore(c[p], c[q]) <=> p < q
  <2>. SUFFICES ASSUME NEW p \in 1..Len(c), NEW q \in 1..Len(c), PlBefore(c[p], c[q])
                PROVE  p < q
    OBVIOUS
  <2>0. c[p] \in PlNames /\ c[q] \in PlNames
    OBVIOUS
  <2>1. c[p] \in Int /\ c[q] \in Int
    BY <1>1, <2>0
  <2>2. p # q
    BY <2>1, PlBeforeOrders
  <2>3. ~(q < p)
    BY <2>1, PlBeforeOrders
  <2>. QED BY <2>2, <2>3
<1>6. PlSorted(S) = c
  BY <1>4, <1>5, SortedTables
<1>. QED BY <1>2, <1>6

\* A wave is added.
LEMMA PlWaveAdded ==
    ASSUME PlInv, UNCHANGED <<plReport, plCap>>, Len(plWaves) < plCap[2],
           NEW w \in PlWaveShapes, PlSoundWave(w), plWaves' = Append(plWaves, w),
           \A i \in 1..Len(plWaves) :
              \A s \in ToSet(plWaves[i].tables) \intersect PlTables :
                 \A t \in ToSet(w.tables) \intersect PlTables : PlFollows(s, t)
    PROVE  /\ PlWavesSound'
           /\ Len(plWaves) \in Nat /\ Len(plWaves') = Len(plWaves) + 1
           /\ plWaves'[Len(plWaves) + 1] = w
           /\ \A i \in 1..Len(plWaves) : plWaves'[i] = plWaves[i]
<1>1. plWaves \in Seq(PlWaveShapes) /\ Len(plWaves) \in Nat
  BY DEF PlInv, PlWavesSound
<1>2. /\ plWaves' \in Seq(PlWaveShapes) /\ Len(plWaves') = Len(plWaves) + 1
      /\ plWaves'[Len(plWaves) + 1] = w
      /\ \A i \in 1..Len(plWaves) : plWaves'[i] = plWaves[i]
  BY <1>1
<1>3. /\ \A v : PlSoundWave(v)' <=> PlSoundWave(v)
      /\ \A s, t : PlFollows(s, t)' <=> PlFollows(s, t)
  BY PlReportKept
<1>4. Len(plWaves') <= plCap[2]
  BY <1>1, <1>2, PlCapsKnown DEF PlInv
<1>5. ASSUME NEW i \in 1..Len(plWaves') PROVE PlSoundWave(plWaves'[i])
  <2>1. CASE i \in 1..Len(plWaves)
    BY <1>2, <2>1 DEF PlInv, PlWavesSound
  <2>2. CASE i = Len(plWaves) + 1
    BY <1>2, <2>2
  <2>. QED BY <1>1, <1>2, <2>1, <2>2
<1>6. ASSUME NEW i \in 1..Len(plWaves'), NEW j \in 1..Len(plWaves'), i < j,
             NEW s \in ToSet(plWaves'[i].tables) \intersect PlTables,
             NEW t \in ToSet(plWaves'[j].tables) \intersect PlTables
      PROVE  PlFollows(s, t)
  <2>1. i \in 1..Len(plWaves) /\ plWaves'[i] = plWaves[i]
    BY <1>1, <1>2, <1>6
  <2>2. CASE j \in 1..Len(plWaves)
    BY <1>2, <1>6, <2>1, <2>2 DEF PlInv, PlWavesSound
  <2>3. CASE j = Len(plWaves) + 1
    BY <1>2, <1>6, <2>1, <2>3
  <2>. QED BY <1>1, <1>2, <2>2, <2>3
<1>7. PlTables' = PlTables /\ PlWaveShapes' = PlWaveShapes /\ plCap' = plCap
  BY DEF PlTables, PlWaveShapes, PlNames, PlOutside
<1>8. PlWavesSound'
  <2>0. PICK waves : waves = plWaves'
    OBVIOUS
  <2>1. \A i \in 1..Len(waves) : PlSoundWave(waves[i])'
    BY <1>3, <1>5, <2>0
  <2>2. \A i, j \in 1..Len(waves) : i < j =>
          \A s \in ToSet(waves[i].tables) \intersect PlTables :
             \A t \in ToSet(waves[j].tables) \intersect PlTables : PlFollows(s, t)'
    BY <1>3, <1>6, <2>0
  <2>3. waves \in Seq(PlWaveShapes) /\ Len(waves) <= plCap[2]
    BY <1>2, <1>4, <1>7, <2>0
  <2>. QED BY <1>7, <2>0, <2>1, <2>2, <2>3, Zenon DEF PlWavesSound
<1>. QED BY <1>1, <1>2, <1>8

\* Cutting a chunk of the domain at hand into a wave.
LEMMA PlEmitStep == PlInv /\ PlEmit => PlInv'
<1>. SUFFICES ASSUME PlInv, PlEmit PROVE PlInv'
  OBVIOUS
<1>0. UNCHANGED <<plReport, plCap>> /\ plPhase' = "waves" /\ plOrder' = plOrder
  BY DEF PlEmit
<1>1. PICK c : c = PlChunk
  OBVIOUS
<1>2. PlChunkIs(c)
  BY <1>1, PlNextChunk DEF PlInv, PlEmit
<1>3. /\ c \in Seq(PlTables) /\ c \in Seq(PlNames) /\ DOMAIN c = 1..Len(c)
      /\ \A t \in ToSet(c) : /\ t \in PlTables \ plDone /\ PlDomOf(t) = PlDomain
                             /\ \A s \in PlTables \ plDone :
                                   PlDomOf(s) = PlDomain /\ s \notin ToSet(c) => PlBefore(t, s)
  <2>1. c \in Seq(PlTables) /\ DOMAIN c = 1..Len(c) /\ PlTables \subseteq PlNames
    BY <1>2 DEF PlChunkIs, PlNames
  <2>2. c \in Seq(PlNames)
    BY <2>1
  <2>3. \A i \in 1..Len(c) : c[i] \in PlTables
    BY <2>1
  <2>. QED BY <1>2, <2>1, <2>2, <2>3 DEF PlChunkIs, ToSet
<1>4. PICK flagged : flagged = {t \in ToSet(c) : PlBroken(t)}
  OBVIOUS
<1>5. PICK w : w = [tables |-> c, broken |-> flagged, run |-> PlSorted(ToSet(c))]
  OBVIOUS
<1>6. plWaves' = Append(plWaves, w) /\ plDone' = plDone \union ToSet(c)
  <2>1. /\ plWaves' = Append(plWaves, PlWave(PlChunk, {t \in ToSet(PlChunk) : PlBroken(t)}))
        /\ plDone' = plDone \union ToSet(PlChunk)
    BY Zenon DEF PlEmit
  <2>2. PlWave(PlChunk, {t \in ToSet(PlChunk) : PlBroken(t)}) = w
    BY <1>1, <1>4, <1>5, Zenon DEF PlWave
  <2>. QED BY <1>1, <2>1, <2>2, Zenon
<1>7. PlSorted(ToSet(c)) = c
  BY <1>2, <1>3, PlRunIs DEF PlInv, PlChunkIs
<1>8. w.tables = c /\ w.broken = flagged /\ w.run = c
  BY <1>5, <1>7
<1>9. w \in PlWaveShapes
  <2>1. flagged \subseteq PlNames
    BY <1>3, <1>4 DEF PlNames
  <2>. QED BY <1>3, <1>5, <1>7, <2>1 DEF PlWaveShapes
<1>10. PlSoundWave(w)
  <2>1. \A t \in ToSet(c) \ flagged : PlUnlisted({t} \union PlNeighbours(t)) = {}
    BY <1>4 DEF PlBroken, PlMissing, PlUnlisted
  <2>2. \A s, t \in ToSet(c) : PlDomOf(s) = PlDomOf(t)
    BY <1>3
  <2>. QED BY <1>2, <1>8, <2>1, <2>2 DEF PlSoundWave, PlChunkIs
<1>11. ASSUME NEW i \in 1..Len(plWaves), NEW s \in ToSet(plWaves[i].tables) \intersect PlTables,
              NEW t \in ToSet(w.tables) \intersect PlTables
       PROVE  PlFollows(s, t)
  <2>1. s \in plDone
    BY <1>11 DEF PlInv, PlTaken
  <2>2. t \in PlTables \ plDone
    BY <1>3, <1>8, <1>11
  <2>. QED BY <2>1, <2>2 DEF PlInv, PlTaken, PlFollows
<1>12. /\ PlWavesSound'
       /\ Len(plWaves) \in Nat /\ Len(plWaves') = Len(plWaves) + 1
       /\ plWaves'[Len(plWaves) + 1] = w
       /\ \A i \in 1..Len(plWaves) : plWaves'[i] = plWaves[i]
  <2>1. Len(plWaves) < plCap[2]
    BY DEF PlEmit
  <2>. QED BY <1>0, <1>6, <1>9, <1>10, <1>11, <2>1, PlWaveAdded
<1>13. PlTables' = PlTables /\ PlOrdered'
  <2>1. PlTables' = PlTables
    BY DEF PlTables
  <2>2. plPhase = "waves"
    BY DEF PlEmit
  <2>. QED BY <1>0, <2>1, <2>2, PlReportKept DEF PlInv, PlOrdered
<1>14. PlTaken'
  <2>1. plDone' \subseteq PlTables
    BY <1>3, <1>6 DEF PlInv, PlTaken
  <2>2. ASSUME NEW t \in PlTables
        PROVE  t \in plDone' <=> \E i \in 1..Len(plWaves') : t \in ToSet(plWaves'[i].tables)
    <3>1. t \in plDone <=> \E i \in 1..Len(plWaves) : t \in ToSet(plWaves[i].tables)
      BY DEF PlInv, PlTaken
    <3>2. \A i \in 1..Len(plWaves') : i \in 1..Len(plWaves) \/ i = Len(plWaves) + 1
      BY <1>12
    <3>3. \A i \in 1..Len(plWaves) : i \in 1..Len(plWaves')
      BY <1>12
    <3>4. Len(plWaves) + 1 \in 1..Len(plWaves')
      BY <1>12
    <3>5. ToSet(plWaves'[Len(plWaves) + 1].tables) = ToSet(c)
      BY <1>8, <1>12
    <3>6. \A i \in 1..Len(plWaves) : ToSet(plWaves'[i].tables) = ToSet(plWaves[i].tables)
      BY <1>12
    <3>7. CASE t \in plDone
      BY <1>6, <3>1, <3>3, <3>6, <3>7
    <3>8. CASE t \in ToSet(c)
      BY <1>6, <3>4, <3>5, <3>8
    <3>9. CASE t \notin plDone /\ t \notin ToSet(c)
      BY <1>6, <3>1, <3>2, <3>5, <3>6, <3>9
    <3>. QED BY <3>7, <3>8, <3>9
  <2>3. ASSUME NEW s \in plDone', NEW t \in PlTables \ plDone', PlDomOf(s) = PlDomOf(t)
        PROVE  PlBefore(s, t)
    <3>1. t \in PlTables \ plDone /\ t \notin ToSet(c)
      BY <1>6
    <3>2. CASE s \in plDone
      BY <2>3, <3>1, <3>2 DEF PlInv, PlTaken
    <3>3. CASE s \in ToSet(c)
      BY <1>3, <2>3, <3>1, <3>3
    <3>. QED BY <1>6, <3>2, <3>3
  <2>4. PICK waves, done : waves = plWaves' /\ done = plDone'
    OBVIOUS
  <2>5. /\ \A t \in PlTables : t \in done <=> \E i \in 1..Len(waves) : t \in ToSet(waves[i].tables)
        /\ \A s \in done : \A t \in PlTables \ done : (PlDomOf(s) = PlDomOf(t) => PlBefore(s, t))'
    BY <1>0, <2>2, <2>3, <2>4, PlReportKept
  <2>6. plPhase' # "order" /\ plPhase' # "served"
    BY <1>0
  <2>. QED BY <1>13, <2>1, <2>4, <2>5, <2>6, Zenon DEF PlTaken
<1>. QED BY <1>0, <1>12, <1>13, <1>14, PlReportKept DEF PlInv

\* What one wave has room for.
PlShown(list) == SubSeq(list, 1, Min({Len(list), plCap[1]}))

LEMMA PlShownIs ==
    ASSUME NEW S, NEW list, Lists(list, S), list # <<>>, S \subseteq PlOutside,
           \A i, j \in 1..Len(list) : list[i] < list[j] <=> i < j, plCap[1] \in Nat \ {0}
    PROVE  /\ PlShown(list) \in Seq(PlOutside) /\ Len(PlShown(list)) \in 1..plCap[1]
           /\ \A p, q \in 1..Len(PlShown(list)) : p < q => PlShown(list)[p] < PlShown(list)[q]
<1>1. list \in Seq(PlOutside) /\ Len(list) \in Nat \ {0}
  BY DEF Lists
<1>2. PICK n : n = Min({Len(list), plCap[1]})
  OBVIOUS
<1>3. n \in Nat /\ n <= Len(list) /\ n \in 1..plCap[1]
  BY <1>1, <1>2, SmallerOf
<1>4. PICK shown : shown = SubSeq(list, 1, n)
  OBVIOUS
<1>5. shown \in Seq(PlOutside) /\ Len(shown) = n /\ \A i \in 1..n : shown[i] = list[i]
  BY <1>1, <1>3, <1>4
<1>6. \A p, q \in 1..n : p < q => shown[p] < shown[q]
  BY <1>1, <1>3, <1>5
<1>7. PlShown(list) = shown
  BY <1>2, <1>4, Zenon DEF PlShown
<1>. QED BY <1>3, <1>5, <1>6, <1>7

\* The placeholders have a sorted list.
LEMMA PlGhostsListed ==
    ASSUME PlInv, NEW ghosts, ghosts = PlInOrder(PlPlaceholders, <), ghosts # <<>>
    PROVE  /\ PlShown(ghosts) \in Seq(PlOutside) /\ Len(PlShown(ghosts)) \in 1..plCap[1]
           /\ \A p, q \in 1..Len(PlShown(ghosts)) :
                 p < q => PlShown(ghosts)[p] < PlShown(ghosts)[q]
<1>1. PICK top, S : top = PlSize + PlGhosts /\ S = PlPlaceholders
  OBVIOUS
<1>2. top \in Nat /\ S \in SUBSET (1..top) /\ S \subseteq PlOutside
  <2>1. PlSize \in Nat \ {0} /\ PlGhosts \in Nat
    BY PlAssumption, Zenon
  <2>2. S \subseteq PlOutside
    BY <1>1, Zenon DEF PlPlaceholders, PlUnlisted
  <2>3. top = PlSize + PlGhosts
    BY <1>1, Zenon
  <2>4. PlOutside \in SUBSET (1..top)
    BY ONLY <2>1, <2>3 DEF PlOutside
  <2>. QED BY ONLY <2>1, <2>2, <2>3, <2>4
<1>3. Lists(ghosts, S) /\ \A i, j \in 1..Len(ghosts) : ghosts[i] < ghosts[j] <=> i < j
  <2>1. /\ Lists(PlInOrder(S, <), S)
        /\ \A i, j \in 1..Len(PlInOrder(S, <)) :
              PlInOrder(S, <)[i] < PlInOrder(S, <)[j] <=> i < j
    BY <1>2, NumbersInOrder, Zenon
  <2>. QED BY <1>1, <2>1, Zenon
<1>. QED
  <2>1. PICK list : list = ghosts
    OBVIOUS
  <2>2. Lists(list, S) /\ (\A i, j \in 1..Len(list) : list[i] < list[j] <=> i < j) /\ list # <<>>
    BY <1>3, <2>1, Zenon
  <2>3. S \subseteq PlOutside
    BY <1>2, Zenon
  <2>4. plCap[1] \in Nat \ {0}
    BY PlCapsKnown DEF PlInv
  <2>5. /\ PlShown(list) \in Seq(PlOutside) /\ Len(PlShown(list)) \in 1..plCap[1]
        /\ \A p, q \in 1..Len(PlShown(list)) : p < q => PlShown(list)[p] < PlShown(list)[q]
    BY ONLY <2>2, <2>3, <2>4, PlShownIs
  <2>. QED BY <2>1, <2>5, Zenon

\* The wave of ghosts: names that the inventory does not have, all of them flagged.
LEMMA PlGhostsSound ==
    ASSUME PlInv, NEW shown \in Seq(PlOutside), Len(shown) \in 1..plCap[1],
           \A p, q \in 1..Len(shown) : p < q => shown[p] < shown[q],
           NEW w, w = PlWave(shown, ToSet(shown))
    PROVE  /\ w \in PlWaveShapes /\ PlSoundWave(w)
           /\ w.tables = shown /\ ToSet(shown) \intersect PlTables = {}
<1>1. PlOutside \intersect PlTables = {} /\ PlOutside \subseteq Int
  <2>1. PlSize \in Nat /\ PlGhosts \in Nat
    BY PlAssumption
  <2>. QED BY <2>1 DEF PlOutside, PlTables
<1>2. PlOutside \subseteq PlNames
  BY DEF PlNames
<1>3. DOMAIN shown = 1..Len(shown) /\ \A i \in 1..Len(shown) : shown[i] \in PlOutside
  OBVIOUS
<1>4. ToSet(shown) \subseteq PlOutside /\ shown \in Seq(PlNames)
  BY <1>2, <1>3 DEF ToSet
<1>5. \A p, q \in 1..Len(shown) : p < q => PlBefore(shown[p], shown[q])
  <2>. SUFFICES ASSUME NEW p \in 1..Len(shown), NEW q \in 1..Len(shown), p < q
                PROVE  PlBefore(shown[p], shown[q])
    OBVIOUS
  <2>1. shown[p] \in PlOutside /\ shown[q] \in PlOutside /\ shown[p] < shown[q]
    BY <1>3
  <2>2. PlPrio(shown[p]) = 0 /\ PlPrio(shown[q]) = 0
    BY <1>1, <2>1 DEF PlPrio
  <2>. QED BY <2>1, <2>2 DEF PlBefore
<1>6. PlSorted(ToSet(shown)) = shown
  BY <1>4, <1>5, PlRunIs DEF PlInv
<1>7. w = [tables |-> shown, broken |-> ToSet(shown), run |-> shown]
  BY <1>6, Zenon DEF PlWave
<1>8. w.tables = shown /\ w.broken = ToSet(shown) /\ w.run = shown
  BY <1>7
<1>9. w \in PlWaveShapes
  BY <1>2, <1>4, <1>7 DEF PlWaveShapes
<1>10. PlSoundWave(w)
  <2>1. \A s \in ToSet(shown) : s \notin PlTables
    BY <1>1, <1>4
  <2>. QED BY <1>5, <1>8, <2>1 DEF PlSoundWave
<1>. QED BY <1>1, <1>4, <1>8, <1>9, <1>10

\* No action after the first phase changes the order.
LEMMA PlOrderKept ==
    ASSUME PlInv, UNCHANGED <<plReport, plCap, plOrder>>, plPhase # "order", plPhase' # "order"
    PROVE  PlKnown' /\ PlOrdered' /\ PlTables' = PlTables
<1>1. PlTables' = PlTables
  BY DEF PlTables
<1>. QED BY <1>1, PlReportKept DEF PlInv, PlOrdered

\* Nor, without a new wave, what the waves say.
LEMMA PlWavesKept ==
    ASSUME PlInv, UNCHANGED <<plReport, plCap, plWaves>>
    PROVE  PlWavesSound'
<1>1. PlTables' = PlTables /\ PlWaveShapes' = PlWaveShapes
  BY DEF PlTables, PlWaveShapes, PlNames, PlOutside
<1>2. PICK waves : waves = plWaves
  OBVIOUS
<1>3. /\ \A i \in 1..Len(waves) : PlSoundWave(waves[i])'
      /\ \A i, j \in 1..Len(waves) : i < j =>
            \A s \in ToSet(waves[i].tables) \intersect PlTables :
               \A t \in ToSet(waves[j].tables) \intersect PlTables : PlFollows(s, t)'
  BY <1>2, PlReportKept DEF PlInv, PlWavesSound
<1>4. waves \in Seq(PlWaveShapes) /\ Len(waves) <= plCap'[2]
  BY <1>2 DEF PlInv, PlWavesSound
<1>. QED BY <1>1, <1>2, <1>3, <1>4, Zenon DEF PlWavesSound

\* One step of each of the other actions, and the initial state.
LEMMA PlTruncateStep == PlInv /\ PlTruncate => PlInv'
<1>. SUFFICES ASSUME PlInv, PlTruncate PROVE PlInv'
  OBVIOUS
<1>1. /\ UNCHANGED <<plReport, plCap, plOrder, plDone, plWaves>>
      /\ plPhase = "waves" /\ plPhase' = "served" /\ plTruncated'
  BY DEF PlTruncate
<1>2. PlKnown' /\ PlOrdered' /\ PlTables' = PlTables /\ PlWavesSound'
  BY <1>1, PlOrderKept, PlWavesKept
<1>3. PlTaken'
  <2>1. \A s \in plDone : \A t \in PlTables \ plDone : (PlDomOf(s) = PlDomOf(t) => PlBefore(s, t))'
    BY <1>1, PlReportKept DEF PlInv, PlTaken
  <2>. QED BY <1>1, <1>2, <2>1 DEF PlInv, PlTaken
<1>. QED BY <1>1, <1>2, <1>3 DEF PlInv

LEMMA PlGhostWaveStep == PlInv /\ PlGhostWave => PlInv'
<1>. SUFFICES ASSUME PlInv, PlGhostWave PROVE PlInv'
  OBVIOUS
<1>1. /\ UNCHANGED <<plReport, plCap, plOrder, plDone, plTruncated>>
      /\ plPhase = "waves" /\ plPhase' = "served" /\ PlOpen = {}
  BY DEF PlGhostWave
<1>2. plDone = PlTables
  BY <1>1 DEF PlOpen, PlInv, PlTaken
<1>3. PlKnown' /\ PlOrdered' /\ PlTables' = PlTables
  BY <1>1, PlOrderKept
<1>4. PICK ghosts : ghosts = PlInOrder(PlPlaceholders, <)
  OBVIOUS
<1>5. PICK shown : shown = PlShown(ghosts)
  OBVIOUS
<1>6. PICK w : w = PlWave(shown, ToSet(shown))
  OBVIOUS
<1>7. plWaves' = IF ghosts # <<>> /\ Len(plWaves) < plCap[2] THEN Append(plWaves, w) ELSE plWaves
  BY <1>4, <1>5, <1>6, Zenon DEF PlGhostWave, PlShown
<1>8. /\ PlWavesSound'
      /\ \A t \in PlTables : (\E i \in 1..Len(plWaves') : t \in ToSet(plWaves'[i].tables))
                                <=> t \in plDone
  <2>0. \A t \in PlTables : (\E i \in 1..Len(plWaves) : t \in ToSet(plWaves[i].tables)) <=> t \in plDone
    BY DEF PlInv, PlTaken
  <2>1. CASE ghosts # <<>> /\ Len(plWaves) < plCap[2]
    <3>1. /\ w \in PlWaveShapes /\ PlSoundWave(w)
          /\ w.tables = shown /\ ToSet(shown) \intersect PlTables = {}
      <4>1. /\ shown \in Seq(PlOutside) /\ Len(shown) \in 1..plCap[1]
            /\ \A p, q \in 1..Len(shown) : p < q => shown[p] < shown[q]
        BY <1>4, <1>5, <2>1, PlGhostsListed, Zenon
      <4>. QED BY <1>6, <4>1, PlGhostsSound
    <3>2. plWaves' = Append(plWaves, w)
      BY <1>7, <2>1
    <3>3. /\ PlWavesSound'
          /\ Len(plWaves) \in Nat /\ Len(plWaves') = Len(plWaves) + 1
          /\ plWaves'[Len(plWaves) + 1] = w
          /\ \A i \in 1..Len(plWaves) : plWaves'[i] = plWaves[i]
      <4>1. \A t \in ToSet(w.tables) : t \notin PlTables
        BY <3>1
      <4>. QED BY <1>1, <2>1, <3>1, <3>2, <4>1, PlWaveAdded
    <3>4. ASSUME NEW t \in PlTables PROVE t \in plDone /\ \E i \in 1..Len(plWaves') : t \in ToSet(plWaves'[i].tables)
      <4>1. PICK i \in 1..Len(plWaves) : t \in ToSet(plWaves[i].tables)
        BY <1>2, <2>0
      <4>2. i \in 1..Len(plWaves') /\ plWaves'[i] = plWaves[i]
        BY <3>3
      <4>. QED BY <1>2, <4>1, <4>2
    <3>. QED BY <3>3, <3>4
  <2>2. CASE ~(ghosts # <<>> /\ Len(plWaves) < plCap[2])
    <3>1. plWaves' = plWaves
      BY <1>7, <2>2
    <3>. QED BY <1>1, <2>0, <3>1, PlWavesKept
  <2>. QED BY <2>1, <2>2
<1>9. PlTaken'
  <2>1. PICK waves, done : waves = plWaves' /\ done = plDone'
    OBVIOUS
  <2>2. /\ \A t \in PlTables : t \in done <=> \E i \in 1..Len(waves) : t \in ToSet(waves[i].tables)
        /\ done = PlTables
    BY <1>1, <1>2, <1>8, <2>1
  <2>3. \A s \in done : \A t \in PlTables \ done : (PlDomOf(s) = PlDomOf(t) => PlBefore(s, t))'
    BY <2>2
  <2>. QED BY <1>1, <1>3, <2>1, <2>2, <2>3, Zenon DEF PlTaken
<1>. QED BY <1>1, <1>3, <1>8, <1>9 DEF PlInv

LEMMA PlPopStep == PlInv /\ PlPop => PlInv'
<1>. SUFFICES ASSUME PlInv, PlPop PROVE PlInv'
  OBVIOUS
<1>1. /\ UNCHANGED <<plReport, plCap, plDone, plWaves, plTruncated>>
      /\ plPhase = "order" /\ plPhase' \in {"order", "waves"}
  BY DEF PlPop
<1>2. PlOrdered'
  BY PlPopKeepsOrder DEF PlInv
<1>3. PlKnown' /\ PlWavesSound'
  BY <1>1, PlReportKept, PlWavesKept DEF PlInv
<1>4. PlTaken'
  <2>1. plWaves = <<>> /\ plDone = {} /\ PlTables' = PlTables
    BY <1>1 DEF PlInv, PlTaken, PlTables
  <2>2. Len(plWaves) = 0
    BY <2>1
  <2>. QED BY <1>1, <2>1, <2>2 DEF PlTaken
<1>. QED BY <1>1, <1>2, <1>3, <1>4 DEF PlInv

LEMMA PlInitInv == PlInit => PlInv
<1>. SUFFICES ASSUME PlInit PROVE PlInv
  OBVIOUS
<1>1. PlKnown
  BY DEF PlInit, PlKnown
<1>2. plOrder = <<>> /\ plDone = {} /\ plWaves = <<>> /\ plPhase = "order" /\ plTruncated = FALSE
  BY DEF PlInit
<1>3. plCap[2] \in Nat
  BY <1>1, PlCapsKnown
<1>4. PlOrdered
  BY <1>2 DEF PlOrdered
<1>5. PlWavesSound
  BY <1>2, <1>3 DEF PlWavesSound
<1>6. PlTaken
  BY <1>2 DEF PlTaken
<1>. QED BY <1>1, <1>2, <1>4, <1>5, <1>6 DEF PlInv

(* The inductive invariant of the planner. The order found by Kahn with a heap is, as   *)
(* far as it goes, sorted and before all that is left (every edge is oriented by        *)
(* PlBefore, so the first of what is left is always ready), and chunking takes from its *)
(* head: so the waves of a domain are slices of the sorted list.                        *)
THEOREM PlInvHolds == PlSpec => []PlInv
<1>1. PlInv /\ [PlNext]_plVars => PlInv'
  <2>. SUFFICES ASSUME PlInv, [PlNext]_plVars PROVE PlInv'
    OBVIOUS
  <2>1. CASE PlPop
    BY <2>1, PlPopStep
  <2>2. CASE PlEmit
    BY <2>2, PlEmitStep
  <2>3. CASE PlTruncate
    BY <2>3, PlTruncateStep
  <2>4. CASE PlGhostWave
    BY <2>4, PlGhostWaveStep
  <2>5. CASE UNCHANGED plVars
    <3>1. UNCHANGED <<plReport, plCap, plOrder, plDone, plWaves, plPhase, plTruncated>>
      BY <2>5 DEF plVars
    <3>2. PlTables' = PlTables
      BY DEF PlTables
    <3>3. PlKnown' /\ PlWavesSound'
      BY <3>1, PlReportKept, PlWavesKept DEF PlInv
    <3>4. PlOrdered'
      BY <3>1, <3>2, PlReportKept DEF PlInv, PlOrdered
    <3>5. PlTaken'
      BY <3>1, <3>2, PlReportKept DEF PlInv, PlTaken
    <3>. QED BY <3>1, <3>3, <3>4, <3>5 DEF PlInv
  <2>. QED BY <2>1, <2>2, <2>3, <2>4, <2>5 DEF PlNext
<1>. QED BY <1>1, PlInitInv, PTL DEF PlSpec

\* Two tables of an edge in one domain: the one with the higher priority is before.
LEMMA PlEdgeOrdered ==
    ASSUME PlInv, NEW i \in 1..Len(plWaves), NEW j \in 1..Len(plWaves),
           NEW p \in 1..Len(plWaves[i].tables), NEW q \in 1..Len(plWaves[j].tables),
           NEW s \in PlTables, NEW t \in PlTables,
           s = plWaves[i].tables[p], t = plWaves[j].tables[q],
           s # t, PlDomOf(s) = PlDomOf(t), plReport.prio[s] > plReport.prio[t]
    PROVE  i < j \/ (i = j /\ p < q)
<1>1. PlBefore(s, t)
  BY DEF PlBefore, PlPrio
<1>2. s \in Int /\ t \in Int
  BY PlAssumption DEF PlTables
<1>3. ~PlBefore(t, s)
  BY <1>1, <1>2, PlBeforeOrders DEF PlInv
<1>4. /\ plWaves[i].tables \in Seq(PlNames) /\ plWaves[j].tables \in Seq(PlNames)
      /\ Len(plWaves) \in Nat
  <2>1. plWaves[i] \in PlWaveShapes /\ plWaves[j] \in PlWaveShapes /\ Len(plWaves) \in Nat
    BY DEF PlInv, PlWavesSound
  <2>. QED BY <2>1 DEF PlWaveShapes
<1>5. ~(j < i)
  <2>. SUFFICES ASSUME j < i PROVE FALSE
    OBVIOUS
  <2>1. s \in ToSet(plWaves[i].tables) /\ t \in ToSet(plWaves[j].tables)
    BY <1>4 DEF ToSet
  <2>2. PlFollows(t, s)
    BY <2>1 DEF PlInv, PlWavesSound
  <2>. QED BY <1>3, <2>2 DEF PlFollows
<1>6. CASE i = j
  <2>1. PICK c : c = plWaves[i].tables
    OBVIOUS
  <2>2. \A m, n \in 1..Len(c) : m < n => PlBefore(c[m], c[n])
    BY <2>1 DEF PlInv, PlWavesSound, PlSoundWave
  <2>3. p \in 1..Len(c) /\ q \in 1..Len(c) /\ Len(c) \in Nat /\ s = c[p] /\ t = c[q]
    BY <1>4, <1>6, <2>1
  <2>4. p # q /\ ~(q < p)
    BY <1>3, <2>2, <2>3
  <2>. QED BY <1>6, <2>3, <2>4
<1>. QED BY <1>4, <1>5, <1>6

(* The plan that POST /planner/{report}/waves serves is sound for every report: every  *)
(* inventory table is in exactly one wave, or the plan says that it was truncated; no  *)
(* wave mixes domains or passes the caps; in a domain the higher-priority end of a     *)
(* co-query edge is migrated first; the run order of a rationale is the order of its   *)
(* wave; and a table that touches the unknown is flagged. For every size of the        *)
(* inventory, every priority and domain, every lineage, manifest and caps.             *)
THEOREM PlPlanSoundHolds == PlSpec => []PlPlanSound
<1>1. PlInv => PlPlanSound
  <2>. SUFFICES ASSUME PlInv, plPhase = "served" PROVE PlPlanSound
    BY DEF PlPlanSound
  <2>1. plWaves \in Seq(PlWaveShapes) /\ DOMAIN plWaves = 1..Len(plWaves) /\ Len(plWaves) <= plCap[2]
    BY DEF PlInv, PlWavesSound
  <2>2. ASSUME NEW i \in DOMAIN plWaves
        PROVE  PlSoundWave(plWaves[i]) /\ plWaves[i].tables \in Seq(PlNames)
    <3>1. plWaves[i] \in PlWaveShapes
      BY <2>1, <2>2
    <3>. QED BY <2>1, <2>2, <3>1 DEF PlInv, PlWavesSound, PlWaveShapes
  <2>3. ASSUME ~plTruncated, NEW t \in PlTables PROVE Cardinality(PlWaveOf(t)) = 1
    <3>1. t \in plDone
      BY <2>3 DEF PlInv, PlTaken
    <3>2. PICK i \in 1..Len(plWaves) : t \in ToSet(plWaves[i].tables)
      BY <3>1 DEF PlInv, PlTaken
    <3>3. ASSUME NEW j \in 1..Len(plWaves), t \in ToSet(plWaves[j].tables) PROVE j = i
      <4>. SUFFICES ASSUME j # i PROVE FALSE
        OBVIOUS
      <4>1. i < j \/ j < i
        BY <2>1
      <4>2. PlFollows(t, t)
        BY <3>2, <3>3, <4>1 DEF PlInv, PlWavesSound
      <4>. QED BY <4>2 DEF PlFollows
    <3>4. PlWaveOf(t) = {i}
      BY <2>1, <3>2, <3>3 DEF PlWaveOf
    <3>. QED BY <3>4, FS_Singleton
  <2>4. ASSUME NEW i \in DOMAIN plWaves
        PROVE  /\ Len(PlInWave(i)) \in 1..plCap[1] /\ plWaves[i].run = PlInWave(i)
               /\ Cardinality({plReport.dom[t] : t \in ToSet(PlInWave(i)) \intersect PlTables}) <= 1
               /\ \A t \in ToSet(PlInWave(i)) \ plWaves[i].broken :
                    PlUnlisted({t} \union PlNeighbours(t)) = {}
    <3>1. PlSoundWave(plWaves[i])
      BY <2>2, <2>4
    <3>2. Cardinality({plReport.dom[t] : t \in ToSet(PlInWave(i)) \intersect PlTables}) <= 1
      <4>1. PICK D : D = {plReport.dom[t] : t \in ToSet(PlInWave(i)) \intersect PlTables}
        OBVIOUS
      <4>2. \A d, e \in D : d = e
        BY <3>1, <4>1 DEF PlSoundWave, PlInWave, PlDomOf
      <4>3. D = {} \/ \E d : D = {d}
        BY <4>2
      <4>4. Cardinality(D) = 0 \/ Cardinality(D) = 1
        BY <4>3, FS_EmptySet, FS_Singleton
      <4>. QED BY <4>1, <4>4
    <3>. QED BY <3>1, <3>2 DEF PlSoundWave, PlInWave
  <2>5. ASSUME NEW i \in DOMAIN plWaves, NEW j \in DOMAIN plWaves,
               NEW p \in DOMAIN PlInWave(i), NEW q \in DOMAIN PlInWave(j),
               NEW s, s = PlInWave(i)[p], NEW t, t = PlInWave(j)[q],
               s # t, {s, t} \subseteq PlTables,
               plReport.dom[s] = plReport.dom[t], plReport.prio[s] > plReport.prio[t]
        PROVE  i < j \/ (i = j /\ p < q)
    <3>1. /\ s = plWaves[i].tables[p] /\ t = plWaves[j].tables[q]
          /\ p \in 1..Len(plWaves[i].tables) /\ q \in 1..Len(plWaves[j].tables)
      BY <2>2, <2>5 DEF PlInWave
    <3>2. PlDomOf(s) = PlDomOf(t) /\ s \in PlTables /\ t \in PlTables
      BY <2>5 DEF PlDomOf
    <3>. QED BY <2>1, <2>5, <3>1, <3>2, PlEdgeOrdered
  <2>6. /\ Len(plWaves) <= plCap[2]
        /\ plTruncated \/ \A t \in PlTables : Cardinality(PlWaveOf(t)) = 1
    BY <2>1, <2>3
  <2>7. \A i, j \in DOMAIN plWaves : \A p \in DOMAIN PlInWave(i), q \in DOMAIN PlInWave(j) :
         LET s == PlInWave(i)[p]
             t == PlInWave(j)[q]
         IN {s, t} \in plReport.pairs /\ s # t /\ {s, t} \subseteq PlTables
              /\ plReport.dom[s] = plReport.dom[t] /\ plReport.prio[s] > plReport.prio[t]
            => i < j \/ (i = j /\ p < q)
    BY <2>5
  <2>. QED BY <2>4, <2>6, <2>7, Zenon DEF PlPlanSound
<1>. QED BY <1>1, PlInvHolds, PTL

\* The flagged tables of a wave are tables of it.
PlFlagged ==
    /\ plTruncated \in BOOLEAN
    /\ \A i \in DOMAIN plWaves : plWaves[i].broken \subseteq ToSet(plWaves[i].tables)

LEMMA PlFlaggedAdded ==
    ASSUME PlFlagged, plWaves \in Seq(PlWaveShapes), UNCHANGED plTruncated, NEW tables,
           NEW flagged \in SUBSET ToSet(tables),
           NEW waves, waves = Append(plWaves, PlWave(tables, flagged))
    PROVE  \A i \in DOMAIN waves : waves[i].broken \subseteq ToSet(waves[i].tables)
<1>1. PICK w : w = PlWave(tables, flagged)
  OBVIOUS
<1>2. w.broken = flagged /\ w.tables = tables
  BY <1>1 DEF PlWave
<1>3. waves = Append(plWaves, w)
  BY <1>1, Zenon
<1>4. \A i \in DOMAIN waves : waves[i] = w \/ (i \in DOMAIN plWaves /\ waves[i] = plWaves[i])
  <2>1. PICK shapes : shapes = PlWaveShapes \cup {w}
    OBVIOUS
  <2>2. plWaves \in Seq(shapes) /\ w \in shapes
    BY <2>1
  <2>. QED BY <1>3, <2>2
<1>. QED BY <1>2, <1>4 DEF PlFlagged

\* The types of a plan, for any report, scores, domains and caps (Planner).
THEOREM PlTypesHold == PlSpec => []PlTypeOK
<1>1. PlInit => PlFlagged
  <2>. SUFFICES ASSUME PlInit PROVE PlFlagged
    OBVIOUS
  <2>1. plWaves = <<>> /\ plTruncated = FALSE
    BY DEF PlInit
  <2>2. DOMAIN plWaves = {}
    BY <2>1
  <2>. QED BY <2>1, <2>2, Zenon DEF PlFlagged
<1>2. PlInv /\ PlFlagged /\ [PlNext]_plVars => PlFlagged'
  <2>. SUFFICES ASSUME PlInv, PlFlagged, [PlNext]_plVars PROVE PlFlagged'
    OBVIOUS
  <2>0. plWaves \in Seq(PlWaveShapes)
    BY DEF PlInv, PlWavesSound
  <2>1. CASE PlEmit
    <3>1. UNCHANGED plTruncated
      BY <2>1 DEF PlEmit
    <3>2. PICK tables : tables = PlChunk
      OBVIOUS
    <3>3. PICK flagged : flagged = {t \in ToSet(tables) : PlBroken(t)}
      OBVIOUS
    <3>4. plWaves' = Append(plWaves, PlWave(tables, flagged))
      BY <2>1, <3>2, <3>3, Zenon DEF PlEmit
    <3>5. flagged \in SUBSET ToSet(tables)
      BY <3>3
    <3>. QED BY <2>0, <3>1, <3>4, <3>5, PlFlaggedAdded DEF PlFlagged
  <2>2. CASE PlGhostWave
    <3>1. UNCHANGED plTruncated
      BY <2>2 DEF PlGhostWave
    <3>2. plWaves' = plWaves \/ \E shown : plWaves' = Append(plWaves, PlWave(shown, ToSet(shown)))
      BY <2>2, Zenon DEF PlGhostWave
    <3>. QED BY <2>0, <3>1, <3>2, PlFlaggedAdded DEF PlFlagged
  <2>3. CASE PlPop \/ PlTruncate \/ UNCHANGED plVars
    BY <2>3 DEF PlPop, PlTruncate, plVars, PlFlagged
  <2>. QED BY <2>1, <2>2, <2>3 DEF PlNext
<1>3. PlInv /\ PlFlagged => PlTypeOK
  <2>. SUFFICES ASSUME PlInv, PlFlagged PROVE PlTypeOK
    OBVIOUS
  <2>1. ToSet(plOrder) \subseteq PlTables
    BY DEF PlInv, PlOrdered, ToSet
  <2>2. DOMAIN plReport.prio = PlTables /\ plReport.pairs \subseteq PlPairs /\ plCap \in PlCaps
    BY DEF PlInv, PlKnown
  <2>. QED BY <2>1, <2>2 DEF PlInv, PlTaken, PlFlagged, PlTypeOK
<1>. QED BY <1>1, <1>2, <1>3, PlInvHolds, PTL DEF PlSpec

-----------------------------------------------------------------------------
(* Sums over finite sets *)

\* What a sum is, step by step: an element at a time, whichever CHOOSE takes.
SumSteps(g, f, S) ==
    g = [s \in SUBSET S |-> IF s = {} THEN 0
                            ELSE LET x == CHOOSE x \in s : TRUE IN f[x] + g[s \ {x}]]
\* The element that CHOOSE takes.
SomeOf(s) == CHOOSE x \in s : TRUE
\* The same, read as three facts about the function.
Steps(g, f, S) ==
    /\ g = [s \in SUBSET S |-> g[s]]
    /\ g[{}] = 0
    /\ \A s \in SUBSET S : s # {} => g[s] = f[SomeOf(s)] + g[s \ {SomeOf(s)}]

\* A sum of the community modules is the value of that function.
LEMMA SumUnfolds ==
    ASSUME NEW f, NEW S
    PROVE  SumFunctionOnSet(f, S) = (CHOOSE g : SumSteps(g, f, S))[S]
BY Zenon DEF SumFunctionOnSet, FoldFunctionOnSet, MapThenFoldSet, SumSteps

\* The two readings agree.
LEMMA StepsAre ==
    ASSUME NEW f, NEW S, NEW g
    PROVE  SumSteps(g, f, S) <=> Steps(g, f, S)
<1>1. ASSUME SumSteps(g, f, S) PROVE Steps(g, f, S)
  <2>1. PICK h : h = [s \in SUBSET S |-> IF s = {} THEN 0 ELSE f[SomeOf(s)] + g[s \ {SomeOf(s)}]]
    OBVIOUS
  <2>2. g = h
    BY <1>1, <2>1, Zenon DEF SumSteps, SomeOf
  <2>. QED BY <2>1, <2>2 DEF Steps
<1>2. ASSUME Steps(g, f, S) PROVE SumSteps(g, f, S)
  <2>1. g = [s \in SUBSET S |-> IF s = {} THEN 0 ELSE f[SomeOf(s)] + g[s \ {SomeOf(s)}]]
    BY <1>2 DEF Steps
  <2>. QED BY <2>1, Zenon DEF SumSteps, SomeOf
<1>. QED BY <1>1, <1>2

\* A finite set has one more element than without one of them.
LEMMA OneLess ==
    ASSUME NEW T, IsFiniteSet(T), NEW x \in T
    PROVE  /\ IsFiniteSet(T \ {x}) /\ Cardinality(T \ {x}) = Cardinality(T) - 1
           /\ Cardinality(T) - 1 \in Nat
<1>1. IsFiniteSet(T \ {x}) /\ Cardinality(T \ {x}) = Cardinality(T) - 1
  BY FS_RemoveElement
<1>2. Cardinality(T \ {x}) \in Nat
  BY <1>1, FS_CardinalityType
<1>. QED BY <1>1, <1>2

\* It is an element.
LEMMA SomeOfIt == ASSUME NEW s, s # {} PROVE SomeOf(s) \in s
BY Zenon DEF SomeOf

\* Two such functions agree where both are defined.
LEMMA StepsAgree ==
    ASSUME NEW f, NEW S, NEW T, NEW g, NEW h, Steps(g, f, S), Steps(h, f, T),
           NEW u, u \subseteq S, u \subseteq T, IsFiniteSet(u)
    PROVE  g[u] = h[u]
<1>. DEFINE Bad == {n \in Nat : \E v \in SUBSET u : IsFiniteSet(v) /\ Cardinality(v) = n /\ g[v] # h[v]}
<1>1. Bad = {}
  <2>. SUFFICES ASSUME Bad # {} PROVE FALSE
    OBVIOUS
  <2>1. PICK n \in Bad : \A m \in Bad : n <= m
    <3>1. Bad \in SUBSET Nat
      OBVIOUS
    <3>. HIDE DEF Bad
    <3>. QED BY <3>1, LeastNatural
  <2>2. PICK v \in SUBSET u : IsFiniteSet(v) /\ Cardinality(v) = n /\ g[v] # h[v]
    OBVIOUS
  <2>3. v # {}
    BY <2>2 DEF Steps
  <2>4. PICK x : x = SomeOf(v)
    OBVIOUS
  <2>5. x \in v
    BY <2>3, <2>4, SomeOfIt
  <2>6. IsFiniteSet(v \ {x}) /\ Cardinality(v \ {x}) = n - 1 /\ n - 1 \in Nat
    BY <2>2, <2>5, OneLess
  <2>7. g[v \ {x}] = h[v \ {x}]
    <3>1. n - 1 \notin Bad
      <4>. HIDE DEF Bad
      <4>1. n \in Nat
        BY <2>2, FS_CardinalityType
      <4>. QED BY <2>1, <4>1
    <3>2. v \ {x} \in SUBSET u
      OBVIOUS
    <3>. QED BY <2>6, <3>1, <3>2
  <2>8. g[v] = f[x] + g[v \ {x}] /\ h[v] = f[x] + h[v \ {x}]
    <3>1. v \in SUBSET S /\ v \in SUBSET T
      OBVIOUS
    <3>. QED BY <2>3, <2>4, <3>1 DEF Steps
  <2>. QED BY <2>2, <2>7, <2>8
<1>2. Cardinality(u) \in Nat /\ u \in SUBSET u
  BY FS_CardinalityType
<1>. QED BY <1>1, <1>2

\* There is such a function on every finite set: by the least set without one.
LEMMA StepsExist ==
    ASSUME NEW f, NEW S, IsFiniteSet(S)
    PROVE  \E g : Steps(g, f, S)
<1>. DEFINE Bad == {n \in Nat : \E T \in SUBSET S : Cardinality(T) = n /\ ~\E g : Steps(g, f, T)}
<1>1. Bad = {}
  <2>. SUFFICES ASSUME Bad # {} PROVE FALSE
    OBVIOUS
  <2>1. PICK n \in Bad : \A m \in Bad : n <= m
    <3>1. Bad \in SUBSET Nat
      OBVIOUS
    <3>. HIDE DEF Bad
    <3>. QED BY <3>1, LeastNatural
  <2>2. PICK T \in SUBSET S : Cardinality(T) = n /\ ~\E g : Steps(g, f, T)
    OBVIOUS
  <2>3. IsFiniteSet(T)
    BY FS_Subset
  <2>. DEFINE Of(U) == CHOOSE g : Steps(g, f, U)
  <2>4. ASSUME NEW U \in SUBSET T, U # T PROVE Steps(Of(U), f, U) /\ IsFiniteSet(U)
    <3>1. IsFiniteSet(U) /\ Cardinality(U) \in Nat /\ Cardinality(U) < n
      BY <2>2, <2>3, <2>4, FS_Subset, FS_CardinalityType
    <3>2. Cardinality(U) \notin Bad
      <4>. HIDE DEF Bad
      <4>. QED BY <2>1, <3>1, <2>2, <2>3, FS_CardinalityType
    <3>3. \E g : Steps(g, f, U)
      <4>1. U \in SUBSET S
        OBVIOUS
      <4>. QED BY <3>1, <3>2, <4>1
    <3>. QED BY <3>1, <3>3, Zenon
  <2>. DEFINE x == SomeOf(T)
              top == IF T = {} THEN 0 ELSE f[x] + Of(T \ {x})[T \ {x}]
              h == [U \in SUBSET T |-> IF U = T THEN top ELSE Of(U)[U]]
  <2>5. PICK o : o = [U \in SUBSET T |-> Of(U)[U]]
    OBVIOUS
  <2>6. \A U \in SUBSET T : U # T => h[U] = o[U]
    BY <2>5
  <2>7. T # {} => h[T] = f[x] + o[T \ {x}]
    BY <2>5
  <2>8. T = {} => h[T] = 0
    OBVIOUS
  <2>9. T # {} => o[{}] = 0
    <3>. SUFFICES ASSUME T # {} PROVE o[{}] = 0
      OBVIOUS
    <3>1. {} \in SUBSET T /\ {} # T
      OBVIOUS
    <3>2. Steps(Of({}), f, {})
      BY <2>4, <3>1
    <3>. QED BY <2>5, <3>1, <3>2 DEF Steps
  <2>10. ASSUME NEW U \in SUBSET T, U # T, U # {}
         PROVE  o[U] = f[SomeOf(U)] + o[U \ {SomeOf(U)}]
    <3>1. PICK g : g = Of(U) /\ Steps(g, f, U)
      BY <2>4, <2>10
    <3>2. PICK V : V = U \ {SomeOf(U)}
      OBVIOUS
    <3>3. V \in SUBSET U /\ V \in SUBSET T /\ V # T
      BY <2>10, <3>2
    <3>4. PICK k : k = Of(V) /\ Steps(k, f, V) /\ IsFiniteSet(V)
      BY <2>4, <3>3
    <3>5. g[V] = k[V]
      BY <3>1, <3>3, <3>4, StepsAgree
    <3>6. g[U] = f[SomeOf(U)] + g[V]
      BY <2>10, <3>1, <3>2 DEF Steps
    <3>7. o[U] = g[U] /\ o[V] = k[V]
      BY <2>5, <3>1, <3>3, <3>4
    <3>. QED BY <3>2, <3>5, <3>6, <3>7
  <2>11. h = [U \in SUBSET T |-> h[U]]
    OBVIOUS
  <2>. HIDE DEF h
  <2>12. Steps(h, f, T)
    <3>1. h[{}] = 0
      BY <2>6, <2>8, <2>9
    <3>2. ASSUME NEW U \in SUBSET T, U # {} PROVE h[U] = f[SomeOf(U)] + h[U \ {SomeOf(U)}]
      <4>1. SomeOf(U) \in U
        BY <3>2, SomeOfIt
      <4>2. U \ {SomeOf(U)} \in SUBSET T /\ U \ {SomeOf(U)} # T
        BY <4>1
      <4>3. h[U \ {SomeOf(U)}] = o[U \ {SomeOf(U)}]
        BY <2>6, <4>2
      <4>4. CASE U = T
        BY <2>7, <3>2, <4>3, <4>4
      <4>5. CASE U # T
        BY <2>6, <2>10, <3>2, <4>3, <4>5
      <4>. QED BY <4>4, <4>5
    <3>. QED BY <2>11, <3>1, <3>2 DEF Steps
  <2>. QED BY <2>2, <2>12
<1>2. Cardinality(S) \in Nat /\ S \in SUBSET S
  BY FS_CardinalityType
<1>. QED BY <1>1, <1>2

\* A sum is its first term and the sum of the others.
LEMMA SumStep ==
    ASSUME NEW f, NEW S, IsFiniteSet(S)
    PROVE  /\ SumFunctionOnSet(f, {}) = 0
           /\ S # {} => SumFunctionOnSet(f, S) = f[SomeOf(S)] + SumFunctionOnSet(f, S \ {SomeOf(S)})
<1>1. ASSUME NEW T, IsFiniteSet(T)
      PROVE  \E g : Steps(g, f, T) /\ SumFunctionOnSet(f, T) = g[T]
  <2>1. \E g : SumSteps(g, f, T)
    BY <1>1, StepsExist, StepsAre
  <2>2. PICK g : g = CHOOSE h : SumSteps(h, f, T)
    OBVIOUS
  <2>3. SumSteps(g, f, T)
    BY <2>1, <2>2, Zenon
  <2>4. SumFunctionOnSet(f, T) = g[T]
    BY <2>2, SumUnfolds, Zenon
  <2>. QED BY <2>3, <2>4, StepsAre
<1>2. SumFunctionOnSet(f, {}) = 0
  BY <1>1, FS_EmptySet DEF Steps
<1>3. ASSUME S # {}
      PROVE  SumFunctionOnSet(f, S) = f[SomeOf(S)] + SumFunctionOnSet(f, S \ {SomeOf(S)})
  <2>1. PICK g : Steps(g, f, S) /\ SumFunctionOnSet(f, S) = g[S]
    BY <1>1
  <2>2. PICK T : T = S \ {SomeOf(S)}
    OBVIOUS
  <2>3. T \in SUBSET S /\ IsFiniteSet(T)
    BY <2>2, FS_Subset
  <2>4. PICK h : Steps(h, f, T) /\ SumFunctionOnSet(f, T) = h[T]
    BY <1>1, <2>3
  <2>5. g[T] = h[T]
    BY <2>1, <2>3, <2>4, StepsAgree
  <2>6. g[S] = f[SomeOf(S)] + g[T]
    BY <1>3, <2>1, <2>2 DEF Steps
  <2>. QED BY <2>1, <2>2, <2>4, <2>5, <2>6
<1>. QED BY <1>2, <1>3

\* An empty sum is zero.
LEMMA SumOfNone == \A f : SumFunctionOnSet(f, {}) = 0
BY SumStep, FS_EmptySet

\* A sum of integers is one, and depends on the terms alone.
LEMMA SumSame ==
    ASSUME NEW S, IsFiniteSet(S), NEW f, NEW g, \A x \in S : f[x] \in Int /\ g[x] = f[x]
    PROVE  SumFunctionOnSet(f, S) \in Int /\ SumFunctionOnSet(g, S) = SumFunctionOnSet(f, S)
<1>. DEFINE Good(T) == SumFunctionOnSet(f, T) \in Int /\ SumFunctionOnSet(g, T) = SumFunctionOnSet(f, T)
            Bad == {n \in Nat : \E T \in SUBSET S : Cardinality(T) = n /\ ~Good(T)}
<1>1. Bad = {}
  <2>. SUFFICES ASSUME Bad # {} PROVE FALSE
    OBVIOUS
  <2>1. PICK n \in Bad : \A m \in Bad : n <= m
    <3>1. Bad \in SUBSET Nat
      OBVIOUS
    <3>. HIDE DEF Bad
    <3>. QED BY <3>1, LeastNatural
  <2>2. PICK T \in SUBSET S : Cardinality(T) = n /\ ~Good(T)
    OBVIOUS
  <2>3. IsFiniteSet(T) /\ n \in Nat
    BY FS_Subset
  <2>4. T # {}
    BY <2>2, SumOfNone
  <2>5. PICK x : x = SomeOf(T)
    OBVIOUS
  <2>6. x \in T
    BY <2>4, <2>5, SomeOfIt
  <2>7. T \ {x} \in SUBSET S /\ Cardinality(T \ {x}) = n - 1 /\ n - 1 \in Nat
    BY <2>2, <2>3, <2>6, OneLess
  <2>8. Good(T \ {x})
    <3>1. n - 1 \notin Bad
      <4>. HIDE DEF Bad
      <4>. QED BY <2>1, <2>3
    <3>. HIDE DEF Good
    <3>. QED BY <2>7, <3>1
  <2>9. /\ SumFunctionOnSet(f, T) = f[x] + SumFunctionOnSet(f, T \ {x})
        /\ SumFunctionOnSet(g, T) = g[x] + SumFunctionOnSet(g, T \ {x})
    BY <2>3, <2>4, <2>5, SumStep
  <2>. QED BY <2>2, <2>6, <2>8, <2>9
<1>2. Cardinality(S) \in Nat /\ S \in SUBSET S
  BY FS_CardinalityType
<1>. QED BY <1>1, <1>2

\* Any term can be taken out first.
LEMMA SumTake ==
    ASSUME NEW S, IsFiniteSet(S), NEW f, \A x \in S : f[x] \in Int, NEW y \in S
    PROVE  SumFunctionOnSet(f, S) = f[y] + SumFunctionOnSet(f, S \ {y})
<1>. DEFINE Good(T) == \A z \in T : SumFunctionOnSet(f, T) = f[z] + SumFunctionOnSet(f, T \ {z})
            Bad == {n \in Nat : \E T \in SUBSET S : Cardinality(T) = n /\ ~Good(T)}
<1>1. Bad = {}
  <2>. SUFFICES ASSUME Bad # {} PROVE FALSE
    OBVIOUS
  <2>1. PICK n \in Bad : \A m \in Bad : n <= m
    <3>1. Bad \in SUBSET Nat
      OBVIOUS
    <3>. HIDE DEF Bad
    <3>. QED BY <3>1, LeastNatural
  <2>2. PICK T \in SUBSET S : Cardinality(T) = n /\ ~Good(T)
    OBVIOUS
  <2>3. IsFiniteSet(T) /\ n \in Nat
    BY FS_Subset
  <2>4. PICK z \in T : SumFunctionOnSet(f, T) # f[z] + SumFunctionOnSet(f, T \ {z})
    BY <2>2
  <2>5. PICK x : x = SomeOf(T)
    OBVIOUS
  <2>6. x \in T /\ T # {}
    BY <2>4, <2>5, SomeOfIt
  <2>7. SumFunctionOnSet(f, T) = f[x] + SumFunctionOnSet(f, T \ {x})
    BY <2>3, <2>5, <2>6, SumStep
  <2>8. x # z
    BY <2>4, <2>7
  <2>9. /\ T \ {x} \in SUBSET S /\ Cardinality(T \ {x}) = n - 1
        /\ T \ {z} \in SUBSET S /\ Cardinality(T \ {z}) = n - 1 /\ n - 1 \in Nat
    BY <2>2, <2>3, <2>6, OneLess
  <2>10. Good(T \ {x}) /\ Good(T \ {z})
    <3>1. n - 1 \notin Bad
      <4>. HIDE DEF Bad
      <4>. QED BY <2>1, <2>3
    <3>. HIDE DEF Good
    <3>. QED BY <2>9, <3>1
  <2>11. PICK U : U = T \ {x, z}
    OBVIOUS
  <2>12. (T \ {x}) \ {z} = U /\ (T \ {z}) \ {x} = U
    BY <2>11
  <2>13. /\ SumFunctionOnSet(f, T \ {x}) = f[z] + SumFunctionOnSet(f, U)
         /\ SumFunctionOnSet(f, T \ {z}) = f[x] + SumFunctionOnSet(f, U)
    BY <2>6, <2>8, <2>10, <2>12
  <2>14. SumFunctionOnSet(f, U) \in Int /\ f[x] \in Int /\ f[z] \in Int
    <3>1. IsFiniteSet(U) /\ U \subseteq S
      BY <2>3, <2>11, FS_Subset
    <3>. QED BY <2>6, <3>1, SumSame
  <2>. QED BY <2>4, <2>7, <2>13, <2>14
<1>2. Cardinality(S) \in Nat /\ S \in SUBSET S
  BY FS_CardinalityType
<1>3. Good(S)
  <2>. HIDE DEF Good
  <2>. QED BY <1>1, <1>2
<1>. QED BY <1>3

\* A sum of one term.
LEMMA SumOfOne ==
    ASSUME NEW f, NEW y, f[y] \in Int
    PROVE  SumFunctionOnSet(f, {y}) = f[y]
<1>1. IsFiniteSet({y}) /\ {y} \ {y} = {}
  BY FS_Singleton
<1>2. SumFunctionOnSet(f, {y}) = f[y] + SumFunctionOnSet(f, {y} \ {y})
  BY <1>1, SumTake
<1>. QED BY <1>1, <1>2, SumOfNone

\* A sum of which one term changes.
LEMMA SumChange ==
    ASSUME NEW S, IsFiniteSet(S), NEW f, NEW g, NEW y \in S, g[y] \in Int,
           \A x \in S : f[x] \in Int, \A x \in S \ {y} : g[x] = f[x]
    PROVE  SumFunctionOnSet(g, S) = SumFunctionOnSet(f, S) - f[y] + g[y]
<1>1. IsFiniteSet(S \ {y}) /\ (\A x \in S : g[x] \in Int) /\ f[y] \in Int
  BY FS_Subset
<1>2. /\ SumFunctionOnSet(g, S \ {y}) = SumFunctionOnSet(f, S \ {y})
      /\ SumFunctionOnSet(f, S \ {y}) \in Int
  BY <1>1, SumSame
<1>3. SumFunctionOnSet(f, S) = f[y] + SumFunctionOnSet(f, S \ {y})
  BY SumTake
<1>4. SumFunctionOnSet(g, S) = g[y] + SumFunctionOnSet(g, S \ {y})
  BY <1>1, SumTake
<1>. QED BY <1>1, <1>2, <1>3, <1>4

\* A sum without a negative term is not negative, and zero only when they all are.
LEMMA SumOfNaturals ==
    ASSUME NEW S, IsFiniteSet(S), NEW f, \A x \in S : f[x] \in Nat
    PROVE  /\ SumFunctionOnSet(f, S) \in Nat
           /\ SumFunctionOnSet(f, S) = 0 <=> \A x \in S : f[x] = 0
<1>. DEFINE Good(T) == /\ SumFunctionOnSet(f, T) \in Nat
                       /\ SumFunctionOnSet(f, T) = 0 <=> \A x \in T : f[x] = 0
            Bad == {n \in Nat : \E T \in SUBSET S : Cardinality(T) = n /\ ~Good(T)}
<1>1. Bad = {}
  <2>. SUFFICES ASSUME Bad # {} PROVE FALSE
    OBVIOUS
  <2>1. PICK n \in Bad : \A m \in Bad : n <= m
    <3>1. Bad \in SUBSET Nat
      OBVIOUS
    <3>. HIDE DEF Bad
    <3>. QED BY <3>1, LeastNatural
  <2>2. PICK T \in SUBSET S : Cardinality(T) = n /\ ~Good(T)
    OBVIOUS
  <2>3. IsFiniteSet(T) /\ n \in Nat
    BY FS_Subset
  <2>4. T # {}
    BY <2>2, SumOfNone
  <2>5. PICK x : x = SomeOf(T)
    OBVIOUS
  <2>6. x \in T
    BY <2>4, <2>5, SomeOfIt
  <2>7. T \ {x} \in SUBSET S /\ Cardinality(T \ {x}) = n - 1 /\ n - 1 \in Nat
    BY <2>2, <2>3, <2>6, OneLess
  <2>8. Good(T \ {x})
    <3>1. n - 1 \notin Bad
      <4>. HIDE DEF Bad
      <4>. QED BY <2>1, <2>3
    <3>. HIDE DEF Good
    <3>. QED BY <2>7, <3>1
  <2>9. SumFunctionOnSet(f, T) = f[x] + SumFunctionOnSet(f, T \ {x})
    BY <2>3, <2>4, <2>5, SumStep
  <2>10. f[x] \in Nat /\ ((\A y \in T : f[y] = 0) <=> f[x] = 0 /\ \A y \in T \ {x} : f[y] = 0)
    BY <2>6
  <2>. QED BY <2>2, <2>8, <2>9, <2>10
<1>2. Cardinality(S) \in Nat /\ S \in SUBSET S
  BY FS_CardinalityType
<1>3. Good(S)
  <2>. HIDE DEF Good
  <2>. QED BY <1>1, <1>2
<1>. QED BY <1>3

-----------------------------------------------------------------------------
(* LogIngest *)

\* The uses of a column that one accepted statement adds to the statistics of a table.
LgUsers(t, rec, c) == {s \in rec.touched : t \in LgInto(s) /\ <<s, c>> \in rec.uses}
LgDue(t, c) == SumFunctionOnSet([rec \in LgAccepted |-> lgSeen[rec] * Cardinality(LgUsers(t, rec, c))],
                                LgAccepted)

\* Types: the request, the statements read, and the statistics of the file at hand and of all files.
LgStats == [LgTables -> [queries : Nat, uses : [LgColumns -> Nat]]]
LgTyped ==
    /\ lgAsk \in [mode : LgModes, ddl : BOOLEAN] /\ (lgAsk.mode = "scan" => ~lgAsk.ddl)
    /\ lgSeen \in [LgRecords -> Nat] /\ lgPart \in LgStats /\ lgTotal \in LgStats

\* What was read so far is in the total and in the file at hand; nothing is left of a file
\* once the logs are read.
LgCounted ==
    /\ \A t \in LgTables, c \in LgColumns : lgTotal[t].uses[c] + lgPart[t].uses[c] = LgDue(t, c)
    /\ lgPc \in {"report", "write", "done"} => lgPart = LgNoStats

\* The rows, the open names and the unmapped names of a report are those of its tables.
LgReportIs(report) ==
    LET several == lgAsk.mode \in {"top", "all"} IN
    /\ report.chosen \subseteq LgTables
    /\ several \/ \E t \in LgTables : report.chosen = {t}
    /\ lgAsk.mode = "target" => report.chosen = {LgScope}
    /\ report.rows = UNION {LgRowsOf(t, lgTotal[t].uses) : t \in report.chosen}
    /\ report.open = UNION {LgOpen(t, lgTotal[t].uses) : t \in report.chosen}
    /\ several \/ \A t \in report.chosen :
                     report.unmapped = {<<o[2], lgTotal[t].uses[o[2]]>> : o \in report.open}
\* A report that was built on a DDL is one of its tables.
LgReported ==
    lgPc \in {"write", "done"} /\ lgAsk.ddl /\ lgReport.chosen # {} => LgReportIs(lgReport)

\* The inductive invariant of a run.
LgInv == LgTyped /\ LgCounted /\ LgReported

\* A statement has finitely many uses of a column.
LEMMA LgUsersFinite ==
    ASSUME NEW rec \in LgRecords, NEW t, NEW c
    PROVE  IsFiniteSet(LgUsers(t, rec, c)) /\ Cardinality(LgUsers(t, rec, c)) \in Nat
<1>1. IsFiniteSet(rec.touched)
  BY LgAssumption, Zenon
<1>2. LgUsers(t, rec, c) \subseteq rec.touched
  BY DEF LgUsers
<1>3. IsFiniteSet(LgUsers(t, rec, c))
  BY <1>1, <1>2, FS_Subset
<1>. QED BY <1>3, FS_CardinalityType

\* Finitely many statements are accepted.
LEMMA LgAcceptedFinite == IsFiniteSet(LgAccepted) /\ LgAccepted \subseteq LgRecords
<1>1. IsFiniteSet(LgRecords)
  BY LgAssumption, Zenon
<1>2. LgAccepted \subseteq LgRecords
  BY Zenon DEF LgAccepted
<1>. QED BY <1>1, <1>2, FS_Subset

\* One line adds what its statement uses.
LEMMA LgDueGrows ==
    ASSUME lgSeen \in [LgRecords -> Nat], NEW rec \in LgRecords, UNCHANGED lgAsk,
           lgSeen' = [lgSeen EXCEPT ![rec] = @ + 1], NEW t, NEW c
    PROVE  LgDue(t, c)' = LgDue(t, c) + IF rec \in LgAccepted THEN Cardinality(LgUsers(t, rec, c)) ELSE 0
<1>1. PICK f : f = [r \in LgAccepted |-> lgSeen[r] * Cardinality(LgUsers(t, r, c))]
  OBVIOUS
<1>2. PICK g : g = [r \in LgAccepted |-> lgSeen'[r] * Cardinality(LgUsers(t, r, c))]
  OBVIOUS
<1>3. \A r : LgUsers(t, r, c)' = LgUsers(t, r, c)
  BY DEF LgUsers, LgInto, LgMatches, LgDotted
<1>4. LgDue(t, c) = SumFunctionOnSet(f, LgAccepted)
  BY <1>1, Zenon DEF LgDue
<1>5. LgDue(t, c)' = SumFunctionOnSet(g, LgAccepted)
  <2>1. LgDue(t, c)' = SumFunctionOnSet([r \in LgAccepted |-> lgSeen'[r] * Cardinality(LgUsers(t, r, c)')], LgAccepted)
    BY Zenon DEF LgDue, LgAccepted
  <2>2. [r \in LgAccepted |-> lgSeen'[r] * Cardinality(LgUsers(t, r, c)')] = g
    BY <1>2, <1>3
  <2>. QED BY <2>1, <2>2, Zenon
<1>6. \A r \in LgAccepted : r \in LgRecords /\ lgSeen[r] \in Nat /\ lgSeen'[r] \in Nat
                            /\ (r # rec => lgSeen'[r] = lgSeen[r])
  BY LgAcceptedFinite
<1>7. \A r \in LgAccepted : Cardinality(LgUsers(t, r, c)) \in Nat
  BY <1>6, LgUsersFinite
<1>8. \A r \in LgAccepted : f[r] \in Int /\ g[r] \in Int /\ (r # rec => g[r] = f[r])
  <2>. SUFFICES ASSUME NEW r \in LgAccepted
                PROVE  f[r] \in Int /\ g[r] \in Int /\ (r # rec => g[r] = f[r])
    OBVIOUS
  <2>1. PICK n \in Nat : n = Cardinality(LgUsers(t, r, c))
    BY <1>7
  <2>2. f[r] = lgSeen[r] * n /\ g[r] = lgSeen'[r] * n
    BY <1>1, <1>2, <2>1
  <2>. QED BY <1>6, <2>2
<1>9. CASE rec \in LgAccepted
  <2>1. SumFunctionOnSet(g, LgAccepted) = SumFunctionOnSet(f, LgAccepted) - f[rec] + g[rec]
    BY <1>8, <1>9, LgAcceptedFinite, SumChange
  <2>2. PICK n \in Nat : n = Cardinality(LgUsers(t, rec, c))
    BY <1>7, <1>9
  <2>3. f[rec] = lgSeen[rec] * n /\ g[rec] = (lgSeen[rec] + 1) * n /\ lgSeen[rec] \in Nat
    BY <1>1, <1>2, <1>9, <2>2
  <2>4. g[rec] = f[rec] + n /\ f[rec] \in Int
    BY <2>3
  <2>5. SumFunctionOnSet(f, LgAccepted) \in Int
    BY <1>8, LgAcceptedFinite, SumSame
  <2>. QED BY <1>4, <1>5, <1>9, <2>1, <2>2, <2>4, <2>5
<1>10. CASE rec \notin LgAccepted
  <2>1. SumFunctionOnSet(g, LgAccepted) = SumFunctionOnSet(f, LgAccepted)
        /\ SumFunctionOnSet(f, LgAccepted) \in Int
    BY <1>8, <1>10, LgAcceptedFinite, SumSame
  <2>. QED BY <1>4, <1>5, <1>10, <2>1
<1>. QED BY <1>9, <1>10

\* The counts of one statement.
LEMMA LgOfIs ==
    ASSUME NEW rec \in LgRecords
    PROVE  /\ LgOf(rec) \in LgStats
           /\ \A t \in LgTables, c \in LgColumns : LgOf(rec)[t].uses[c] = Cardinality(LgUsers(t, rec, c))
<1>. DEFINE From(k) == {s \in rec.touched : k \in LgInto(s)}
            Entry(k) == [queries |-> IF From(k) = {} THEN 0 ELSE 1,
                         uses |-> [c \in LgColumns |-> Cardinality({s \in From(k) : <<s, c>> \in rec.uses})]]
<1>1. LgOf(rec) = [k \in LgTables |-> Entry(k)]
  BY Zenon DEF LgOf
<1>2. \A k, c : {s \in From(k) : <<s, c>> \in rec.uses} = LgUsers(k, rec, c)
  BY DEF LgUsers
<1>3. ASSUME NEW k \in LgTables
      PROVE  Entry(k) \in [queries : Nat, uses : [LgColumns -> Nat]]
             /\ \A c \in LgColumns : Entry(k).uses[c] = Cardinality(LgUsers(k, rec, c))
  <2>1. PICK u : u = [c \in LgColumns |-> Cardinality(LgUsers(k, rec, c))]
    OBVIOUS
  <2>2. u \in [LgColumns -> Nat]
    BY <2>1, LgUsersFinite
  <2>3. [c \in LgColumns |-> Cardinality({s \in From(k) : <<s, c>> \in rec.uses})] = u
    BY <1>2, <2>1
  <2>4. Entry(k) = [queries |-> IF From(k) = {} THEN 0 ELSE 1, uses |-> u]
    BY <2>3, Zenon
  <2>. HIDE DEF Entry, From
  <2>. QED BY <2>1, <2>2, <2>4
<1>. HIDE DEF Entry, From
<1>. QED BY <1>1, <1>3 DEF LgStats

\* Two counts add up, column by column.
LEMMA LgPlusIs ==
    ASSUME NEW s \in [queries : Nat, uses : [LgColumns -> Nat]],
           NEW o \in [queries : Nat, uses : [LgColumns -> Nat]]
    PROVE  /\ LgPlus(s, o) \in [queries : Nat, uses : [LgColumns -> Nat]]
           /\ \A c \in LgColumns : LgPlus(s, o).uses[c] = s.uses[c] + o.uses[c]
<1>1. PICK u : u = [c \in LgColumns |-> s.uses[c] + o.uses[c]]
  OBVIOUS
<1>2. u \in [LgColumns -> Nat]
  BY <1>1
<1>3. LgPlus(s, o) = [queries |-> s.queries + o.queries, uses |-> u]
  BY <1>1, Zenon DEF LgPlus
<1>4. s.queries + o.queries \in Nat
  OBVIOUS
<1>. QED BY <1>1, <1>2, <1>3, <1>4

\* A line adds its statement to the file at hand.
LEMMA LgLineStep == LgInv /\ LgLine => LgInv'
<1>. SUFFICES ASSUME LgInv, LgLine PROVE LgInv'
  OBVIOUS
<1>1. PICK rec \in LgRecords :
        /\ lgSeen' = [lgSeen EXCEPT ![rec] = @ + 1]
        /\ lgPc' = IF rec.fate = "crash" THEN "abort" ELSE "read"
        /\ rec \in LgAccepted => lgPart' = [t \in LgTables |-> LgPlus(lgPart[t], LgOf(rec)[t])]
        /\ rec \notin LgAccepted => lgPart' = lgPart
  BY Zenon DEF LgLine
<1>2. UNCHANGED <<lgAsk, lgTotal>>
  BY DEF LgLine
<1>3. LgTyped
  BY DEF LgInv
<1>4. lgSeen' \in [LgRecords -> Nat]
  BY <1>1, <1>3 DEF LgTyped
<1>5. lgPart' \in LgStats /\ \A t \in LgTables, c \in LgColumns :
        lgPart'[t].uses[c] = lgPart[t].uses[c]
                             + IF rec \in LgAccepted THEN Cardinality(LgUsers(t, rec, c)) ELSE 0
  <2>1. CASE rec \in LgAccepted
    <3>1. PICK o \in LgStats : o = LgOf(rec)
      BY LgOfIs
    <3>2. \A t \in LgTables, c \in LgColumns : o[t].uses[c] = Cardinality(LgUsers(t, rec, c))
      BY <3>1, LgOfIs
    <3>3. \A t \in LgTables : /\ lgPart[t] \in [queries : Nat, uses : [LgColumns -> Nat]]
                              /\ o[t] \in [queries : Nat, uses : [LgColumns -> Nat]]
      BY <1>3, <3>1 DEF LgTyped, LgStats
    <3>4. lgPart' = [t \in LgTables |-> LgPlus(lgPart[t], o[t])]
      BY <1>1, <2>1, <3>1
    <3>5. \A t \in LgTables : /\ lgPart'[t] \in [queries : Nat, uses : [LgColumns -> Nat]]
                              /\ \A c \in LgColumns : lgPart'[t].uses[c] = lgPart[t].uses[c] + o[t].uses[c]
      BY <3>3, <3>4, LgPlusIs
    <3>. QED BY <2>1, <3>2, <3>4, <3>5 DEF LgStats
  <2>2. CASE rec \notin LgAccepted
    BY <1>1, <1>3, <2>2 DEF LgTyped, LgStats
  <2>. QED BY <2>1, <2>2
<1>6. LgTyped'
  BY <1>2, <1>3, <1>4, <1>5 DEF LgTyped, LgStats
<1>7. LgCounted'
  <2>1. ASSUME NEW t \in LgTables, NEW c \in LgColumns
        PROVE  lgTotal'[t].uses[c] + lgPart'[t].uses[c] = LgDue(t, c)'
    <3>1. lgTotal[t].uses[c] + lgPart[t].uses[c] = LgDue(t, c)
      BY DEF LgInv, LgCounted
    <3>2. LgDue(t, c)' = LgDue(t, c) + IF rec \in LgAccepted THEN Cardinality(LgUsers(t, rec, c)) ELSE 0
      BY <1>1, <1>2, <1>3, LgDueGrows DEF LgTyped
    <3>3. lgTotal[t].uses[c] \in Nat /\ lgPart[t].uses[c] \in Nat
      BY <1>3 DEF LgTyped, LgStats
    <3>4. Cardinality(LgUsers(t, rec, c)) \in Nat
      BY LgUsersFinite
    <3>5. PICK k \in Nat : k = IF rec \in LgAccepted THEN Cardinality(LgUsers(t, rec, c)) ELSE 0
      BY <3>4
    <3>6. lgPart'[t].uses[c] = lgPart[t].uses[c] + k
      BY <1>5, <3>5
    <3>. QED BY <1>2, <3>1, <3>2, <3>3, <3>5, <3>6
  <2>2. lgPc' \notin {"report", "write", "done"}
    BY <1>1
  <2>. QED BY <2>1, <2>2 DEF LgCounted
<1>8. LgReported'
  BY <1>1 DEF LgReported
<1>. QED BY <1>6, <1>7, <1>8 DEF LgInv

\* The end of a file moves its counts to the total.
LEMMA LgNextFileStep == LgInv /\ LgNextFile => LgInv'
<1>. SUFFICES ASSUME LgInv, LgNextFile PROVE LgInv'
  OBVIOUS
<1>1. /\ lgTotal' = [t \in LgTables |-> LgPlus(lgTotal[t], lgPart[t])]
      /\ lgPart' = LgNoStats /\ lgPc' \in {"report", "read"}
  BY Zenon DEF LgNextFile, LgMerged
<1>2. UNCHANGED <<lgAsk, lgSeen>> /\ LgTyped
  BY DEF LgNextFile, LgInv
<1>3. PICK none : none = LgNoStats
  OBVIOUS
<1>4. none \in LgStats /\ \A t \in LgTables, c \in LgColumns : none[t].uses[c] = 0
  BY <1>3 DEF LgNoStats, LgNoUse, LgStats
<1>5. \A t \in LgTables : /\ lgTotal[t] \in [queries : Nat, uses : [LgColumns -> Nat]]
                          /\ lgPart[t] \in [queries : Nat, uses : [LgColumns -> Nat]]
  BY <1>2 DEF LgTyped, LgStats
<1>6. \A t \in LgTables : /\ lgTotal'[t] \in [queries : Nat, uses : [LgColumns -> Nat]]
                          /\ \A c \in LgColumns : lgTotal'[t].uses[c] = lgTotal[t].uses[c] + lgPart[t].uses[c]
  BY <1>1, <1>5, LgPlusIs
<1>7. LgTyped'
  BY <1>1, <1>2, <1>3, <1>4, <1>6 DEF LgTyped, LgStats
<1>8. LgCounted'
  <2>1. ASSUME NEW t \in LgTables, NEW c \in LgColumns
        PROVE  lgTotal'[t].uses[c] + lgPart'[t].uses[c] = LgDue(t, c)'
    <3>1. lgTotal[t].uses[c] + lgPart[t].uses[c] = LgDue(t, c)
      BY DEF LgInv, LgCounted
    <3>2. LgDue(t, c)' = LgDue(t, c)
      BY <1>2 DEF LgDue, LgUsers, LgInto, LgMatches, LgDotted
    <3>3. lgTotal[t].uses[c] \in Nat /\ lgPart[t].uses[c] \in Nat
      BY <1>5
    <3>. QED BY <1>1, <1>3, <1>4, <1>6, <3>1, <3>2, <3>3
  <2>2. lgPart' = LgNoStats'
    BY <1>1, Zenon DEF LgNoStats, LgNoUse
  <2>. QED BY <2>1, <2>2 DEF LgCounted
<1>9. LgReported'
  BY <1>1 DEF LgReported
<1>. QED BY <1>7, <1>8, <1>9 DEF LgInv

\* What is summed over the one table that was chosen is what that table has.
LEMMA LgSumOfOne ==
    ASSUME lgTotal \in LgStats, NEW t \in LgTables
    PROVE  LgSum(lgTotal, {t}) = lgTotal[t]
<1>1. PICK s : s = lgTotal[t]
  OBVIOUS
<1>2. s \in [queries : Nat, uses : [LgColumns -> Nat]]
  BY <1>1 DEF LgStats
<1>3. PICK n \in Nat, u \in [LgColumns -> Nat] : n = s.queries /\ u = s.uses
  BY <1>2
<1>4. ASSUME NEW k \in Int PROVE SumFunction([x \in {t} |-> k]) = k
  <2>1. PICK f : f = [x \in {t} |-> k]
    OBVIOUS
  <2>2. f[t] = k /\ DOMAIN f = {t}
    BY <2>1
  <2>3. SumFunction(f) = SumFunctionOnSet(f, {t})
    BY <2>2, Zenon DEF SumFunction
  <2>. QED BY <2>1, <2>2, <2>3, SumOfOne
<1>5. [x \in {t} |-> lgTotal[x].queries] = [x \in {t} |-> n]
  BY <1>1, <1>3
<1>6. ASSUME NEW c \in LgColumns PROVE [x \in {t} |-> lgTotal[x].uses[c]] = [x \in {t} |-> u[c]]
  BY <1>1, <1>3
<1>7. SumFunction([x \in {t} |-> lgTotal[x].queries]) = n
  BY <1>4, <1>5
<1>8. \A c \in LgColumns : SumFunction([x \in {t} |-> lgTotal[x].uses[c]]) = u[c]
  BY <1>4, <1>6
<1>9. PICK v : v = [c \in LgColumns |-> SumFunction([x \in {t} |-> lgTotal[x].uses[c]])]
  OBVIOUS
<1>10. v = u
  BY <1>8, <1>9
<1>11. LgSum(lgTotal, {t}) = [queries |-> n, uses |-> v]
  BY <1>7, <1>9, Zenon DEF LgSum
<1>. QED BY <1>1, <1>2, <1>3, <1>10, <1>11

\* Which tables a report may be about.
LEMMA LgChosenAre ==
    ASSUME LgTyped, NEW chosen \in LgChosen, lgAsk.ddl, chosen # {}
    PROVE  /\ chosen \subseteq LgTables
           /\ lgAsk.mode \in {"top", "all"} \/ \E t \in LgTables : chosen = {t}
           /\ lgAsk.mode = "target" => chosen = {LgScope}
<1>1. lgAsk.mode \in LgModes /\ LgScope \in LgTables
  BY LgAssumption, Zenon DEF LgTyped
<1>2. CASE lgAsk.mode = "target"
  <2>1. chosen = {LgScope}
    BY <1>2, Zenon DEF LgChosen
  <2>. QED BY <1>1, <2>1
<1>3. CASE lgAsk.mode = "one"
  <2>1. LgChosen = LgPicked
    BY <1>3 DEF LgChosen
  <2>2. \E t \in LgFound : chosen = {t}
    BY <2>1, Zenon DEF LgPicked
  <2>. QED BY <1>3, <2>2 DEF LgFound
<1>4. CASE lgAsk.mode \notin {"target", "one"}
  <2>1. LgChosen = LgBusiest(LgMerge)
    BY <1>4 DEF LgChosen
  <2>2. chosen \subseteq LgFound
    BY <2>1, Zenon DEF LgBusiest
  <2>3. lgAsk.mode \in {"top", "all"}
    BY <1>1, <1>4 DEF LgTyped, LgModes
  <2>. QED BY <1>4, <2>2, <2>3 DEF LgFound
<1>. QED BY <1>2, <1>3, <1>4

\* The report that is built is about the chosen tables.
LEMMA LgBuildStep == LgInv /\ LgBuild => LgInv'
<1>. SUFFICES ASSUME LgInv, LgBuild PROVE LgInv'
  OBVIOUS
<1>1. lgPc' = "write" /\ UNCHANGED <<lgAsk, lgSeen, lgPart, lgTotal>> /\ LgTyped /\ lgPc = "report"
  BY DEF LgBuild, LgInv
<1>2. LgTyped'
  BY <1>1 DEF LgTyped, LgStats
<1>3. LgCounted'
  <2>1. \A t, c : LgDue(t, c)' = LgDue(t, c)
    BY <1>1 DEF LgDue, LgUsers, LgInto, LgMatches, LgDotted
  <2>2. LgNoStats' = LgNoStats
    BY DEF LgNoStats, LgNoUse
  <2>. QED BY <1>1, <2>1, <2>2 DEF LgInv, LgCounted
<1>4. ASSUME lgAsk.ddl, lgReport'.chosen # {} PROVE LgReportIs(lgReport')
  <2>. DEFINE several == lgAsk.mode \in {"top", "all"}
              Sum(chosen) == LgSum(lgTotal, chosen)
              For(chosen) == IF chosen = {} THEN LgScope ELSE CHOOSE t \in chosen : TRUE
              Parts(chosen) == IF several THEN {<<t, lgTotal[t].uses>> : t \in chosen}
                               ELSE {<<For(chosen), Sum(chosen).uses>>}
              Open(chosen) == UNION {LgOpen(part[1], part[2]) : part \in Parts(chosen)}
              Rows(chosen) == UNION {LgRowsOf(part[1], part[2]) : part \in Parts(chosen)}
              Unmapped(chosen) == IF several THEN {} ELSE {<<o[2], Sum(chosen).uses[o[2]]>> : o \in Open(chosen)}
  <2>1. lgAsk.mode # "scan"
    BY <1>1, <1>4, Zenon DEF LgTyped
  <2>2. PICK chosen \in LgChosen :
          lgReport' = [LgBlank EXCEPT
             !.chosen = chosen, !.queries = Sum(chosen).queries, !.open = Open(chosen),
             !.rows = Rows(chosen), !.unmapped = Unmapped(chosen),
             !.inventory = IF lgAsk.mode = "target" THEN {} ELSE LgInventory(chosen)]
    BY <1>4, <2>1, Zenon DEF LgBuild, LgReportOf
  <2>. PICK open : open = Open(chosen)
    OBVIOUS
  <2>. PICK rows : rows = Rows(chosen)
    OBVIOUS
  <2>. PICK unmapped : unmapped = Unmapped(chosen)
    OBVIOUS
  <2>3. \E q, inventory :
          lgReport' = [LgBlank EXCEPT !.chosen = chosen, !.queries = q, !.open = open,
                          !.rows = rows, !.unmapped = unmapped, !.inventory = inventory]
    BY <2>2, Zenon
  <2>4. /\ lgReport'.chosen = chosen /\ lgReport'.open = open /\ lgReport'.rows = rows
        /\ lgReport'.unmapped = unmapped
    BY <2>3 DEF LgBlank
  <2>5. /\ chosen \subseteq LgTables
        /\ several \/ \E t \in LgTables : chosen = {t}
        /\ lgAsk.mode = "target" => chosen = {LgScope}
    BY <1>1, <1>4, <2>4, LgChosenAre
  <2>6. ASSUME ~several
        PROVE  \E t \in LgTables : /\ chosen = {t} /\ Parts(chosen) = {<<t, lgTotal[t].uses>>}
                                   /\ Sum(chosen) = lgTotal[t]
    <3>1. PICK t \in LgTables : chosen = {t}
      BY <2>5, <2>6
    <3>2. Sum(chosen) = lgTotal[t]
      BY <1>1, <3>1, LgSumOfOne, Zenon DEF LgTyped
    <3>3. For(chosen) = t
      <4>1. \A x \in chosen : x = t
        BY <3>1
      <4>2. t \in chosen /\ chosen # {}
        BY <3>1
      <4>. QED BY <4>1, <4>2, Zenon
    <3>. QED BY <2>6, <3>1, <3>2, <3>3, Zenon
  <2>7. Parts(chosen) = {<<t, lgTotal[t].uses>> : t \in chosen}
    <3>1. CASE several
      BY <3>1, Zenon
    <3>2. CASE ~several
      <4>1. PICK t \in LgTables : chosen = {t} /\ Parts(chosen) = {<<t, lgTotal[t].uses>>}
        BY <2>6, <3>2
      <4>. HIDE DEF Parts
      <4>. QED BY <4>1
    <3>. QED BY <3>1, <3>2
  <2>8. PICK parts : parts = {<<t, lgTotal[t].uses>> : t \in chosen} /\ parts = Parts(chosen)
    BY <2>7
  <2>9. open = UNION {LgOpen(part[1], part[2]) : part \in parts}
        /\ rows = UNION {LgRowsOf(part[1], part[2]) : part \in parts}
    BY <2>8, Zenon
  <2>10. open = UNION {LgOpen(t, lgTotal[t].uses) : t \in chosen}
         /\ rows = UNION {LgRowsOf(t, lgTotal[t].uses) : t \in chosen}
    <3>1. \A part \in parts : part[1] \in chosen /\ part[2] = lgTotal[part[1]].uses
      <4>. SUFFICES ASSUME NEW part \in parts
                    PROVE  part[1] \in chosen /\ part[2] = lgTotal[part[1]].uses
        OBVIOUS
      <4>1. PICK t \in chosen : part = <<t, lgTotal[t].uses>>
        BY <2>8
      <4>. QED BY <4>1
    <3>2. ASSUME NEW t \in chosen
          PROVE  \E part \in parts : part[1] = t /\ part[2] = lgTotal[t].uses
      <4>1. PICK u : u = lgTotal[t].uses
        OBVIOUS
      <4>2. <<t, u>> \in parts
        BY <2>8, <4>1, Zenon
      <4>3. <<t, u>>[1] = t /\ <<t, u>>[2] = u
        OBVIOUS
      <4>. QED BY <4>1, <4>2, <4>3, Zenon
    <3>. HIDE DEF Open, Rows, Parts, Unmapped
    <3>3. \A x : x \in open <=> \E t \in chosen : x \in LgOpen(t, lgTotal[t].uses)
      <4>1. \A x : x \in open <=> \E part \in parts : x \in LgOpen(part[1], part[2])
        BY <2>9
      <4>. QED BY <3>1, <3>2, <4>1
    <3>4. \A x : x \in rows <=> \E t \in chosen : x \in LgRowsOf(t, lgTotal[t].uses)
      <4>1. \A x : x \in rows <=> \E part \in parts : x \in LgRowsOf(part[1], part[2])
        BY <2>9
      <4>. QED BY <3>1, <3>2, <4>1
    <3>5. open = UNION {LgOpen(t, lgTotal[t].uses) : t \in chosen}
      BY <3>3, Zenon
    <3>6. rows = UNION {LgRowsOf(t, lgTotal[t].uses) : t \in chosen}
      BY <3>4, Zenon
    <3>. QED BY <3>5, <3>6
  <2>11. several \/ \A t \in chosen : unmapped = {<<o[2], lgTotal[t].uses[o[2]]>> : o \in open}
    <3>. SUFFICES ASSUME ~several, NEW s \in chosen
                  PROVE  unmapped = {<<o[2], lgTotal[s].uses[o[2]]>> : o \in open}
      OBVIOUS
    <3>1. PICK t \in LgTables : chosen = {t} /\ Sum(chosen) = lgTotal[t]
      BY <2>6
    <3>2. s = t
      BY <3>1
    <3>3. unmapped = {<<o[2], Sum(chosen).uses[o[2]]>> : o \in open}
      BY Zenon
    <3>. QED BY <3>1, <3>2, <3>3, Zenon
  <2>. HIDE DEF Parts, Open, Rows, Unmapped, For, Sum
  <2>. QED BY <2>4, <2>5, <2>10, <2>11 DEF LgReportIs
<1>5. LgReported'
  <2>1. \A t, u : LgRowsOf(t, u)' = LgRowsOf(t, u) /\ LgOpen(t, u)' = LgOpen(t, u)
    BY DEF LgRowsOf, LgOpen, LgBucket, LgSources, LgPlace
  <2>2. ASSUME lgAsk.ddl, lgReport'.chosen # {} PROVE LgReportIs(lgReport)'
    BY <1>1, <1>4, <2>2 DEF LgReportIs
  <2>. QED BY <1>1, <2>2 DEF LgReported
<1>. QED BY <1>2, <1>3, <1>5 DEF LgInv

\* Writing changes neither counts nor rows.
LEMMA LgWriteStep == LgInv /\ LgWrite => LgInv'
<1>. SUFFICES ASSUME LgInv, LgWrite PROVE LgInv'
  OBVIOUS
<1>1. lgPc' = "done" /\ UNCHANGED <<lgAsk, lgSeen, lgPart, lgTotal>> /\ LgTyped /\ lgPc = "write"
  BY DEF LgWrite, LgInv
<1>2. \E how : lgReport' = [lgReport EXCEPT !.wrote = how]
  BY Zenon DEF LgWrite
<1>3. LgTyped'
  BY <1>1 DEF LgTyped, LgStats
<1>4. LgCounted'
  <2>1. \A t, c : LgDue(t, c)' = LgDue(t, c)
    BY <1>1 DEF LgDue, LgUsers, LgInto, LgMatches, LgDotted
  <2>2. LgNoStats' = LgNoStats
    BY DEF LgNoStats, LgNoUse
  <2>. QED BY <1>1, <2>1, <2>2 DEF LgInv, LgCounted
<1>5. LgReported'
  <2>1. /\ lgReport'.chosen = lgReport.chosen /\ lgReport'.rows = lgReport.rows
        /\ lgReport'.open = lgReport.open /\ lgReport'.unmapped = lgReport.unmapped
    BY <1>2
  <2>2. ASSUME lgAsk.ddl, lgReport.chosen # {} PROVE LgReportIs(lgReport)'
    <3>1. LgReportIs(lgReport)
      BY <1>1, <2>2 DEF LgInv, LgReported
    <3>. QED BY <1>1, <2>1, <3>1 DEF LgReportIs
  <2>. QED BY <1>1, <2>1, <2>2 DEF LgReported
<1>. QED BY <1>3, <1>4, <1>5 DEF LgInv

\* Nothing was read and nothing is counted.
LEMMA LgInitInv == LgInit => LgInv
<1>. SUFFICES ASSUME LgInit PROVE LgInv
  OBVIOUS
<1>1. PICK none : none = LgNoStats
  OBVIOUS
<1>2. none \in LgStats /\ \A t \in LgTables, c \in LgColumns : none[t].uses[c] = 0
  BY <1>1 DEF LgNoStats, LgNoUse, LgStats
<1>3. LgTyped
  <2>1. lgAsk \in [mode : LgModes, ddl : BOOLEAN] /\ (lgAsk.mode = "scan" => ~lgAsk.ddl)
    BY DEF LgInit
  <2>2. lgSeen \in [LgRecords -> Nat]
    BY DEF LgInit
  <2>. QED BY <1>1, <1>2, <2>1, <2>2 DEF LgInit, LgTyped
<1>4. ASSUME NEW t, NEW c PROVE LgDue(t, c) = 0
  <2>1. PICK f : f = [rec \in LgAccepted |-> lgSeen[rec] * Cardinality(LgUsers(t, rec, c))]
    OBVIOUS
  <2>2. \A rec \in LgAccepted : f[rec] = 0
    <3>. SUFFICES ASSUME NEW rec \in LgAccepted PROVE f[rec] = 0
      OBVIOUS
    <3>1. rec \in LgRecords /\ lgSeen[rec] = 0
      BY LgAcceptedFinite DEF LgInit
    <3>2. PICK n \in Nat : n = Cardinality(LgUsers(t, rec, c))
      BY <3>1, LgUsersFinite
    <3>3. f[rec] = lgSeen[rec] * n
      BY <2>1, <3>2
    <3>. QED BY <3>1, <3>2, <3>3
  <2>3. SumFunctionOnSet(f, LgAccepted) = 0
    BY <2>2, LgAcceptedFinite, SumOfNaturals
  <2>. QED BY <2>1, <2>3, Zenon DEF LgDue
<1>5. LgCounted
  BY <1>1, <1>2, <1>4 DEF LgInit, LgCounted
<1>. QED BY <1>3, <1>5 DEF LgInit, LgInv, LgReported

\* The inductive invariant of a run: what was read is in the totals and in the file at
\* hand, and a report has the rows of its tables.
THEOREM LgInvHolds == LgSpec => []LgInv
<1>1. LgInv /\ [LgNext]_lgVars => LgInv'
  <2>. SUFFICES ASSUME LgInv, [LgNext]_lgVars PROVE LgInv'
    OBVIOUS
  <2>1. CASE LgLine
    BY <2>1, LgLineStep
  <2>2. CASE LgNextFile
    BY <2>2, LgNextFileStep
  <2>3. CASE LgBuild
    BY <2>3, LgBuildStep
  <2>4. CASE LgWrite
    BY <2>4, LgWriteStep
  <2>5. CASE UNCHANGED lgVars
    <3>1. UNCHANGED <<lgAsk, lgPc, lgPart, lgTotal, lgSeen, lgReport>>
      BY <2>5 DEF lgVars
    <3>2. \A x, c : LgDue(x, c)' = LgDue(x, c)
      BY <3>1 DEF LgDue, LgUsers, LgInto, LgMatches, LgDotted
    <3>3. \A x, u : LgRowsOf(x, u)' = LgRowsOf(x, u) /\ LgOpen(x, u)' = LgOpen(x, u)
      BY DEF LgRowsOf, LgOpen, LgBucket, LgSources, LgPlace
    <3>4. LgNoStats' = LgNoStats
      BY DEF LgNoStats, LgNoUse
    <3>5. LgTyped' /\ LgCounted'
      BY <3>1, <3>2, <3>4 DEF LgInv, LgTyped, LgStats, LgCounted
    <3>6. LgReported'
      <4>1. ASSUME LgReportIs(lgReport) PROVE LgReportIs(lgReport)'
        BY <3>1, <3>3, <4>1 DEF LgReportIs
      <4>. QED BY <3>1, <4>1 DEF LgInv, LgReported
    <3>. QED BY <3>5, <3>6 DEF LgInv
  <2>. QED BY <2>1, <2>2, <2>3, <2>4, <2>5 DEF LgNext
<1>. QED BY <1>1, LgInitInv, PTL DEF LgSpec

\* The statements that use a column of the tables of a group.
LgUsing(g, rec, c) == {s \in g : <<s, c>> \in rec.uses}

\* When a table's statistics take in just what touches the group, its count is what the
\* accepted statements use of the group.
LEMMA LgCountIsLogged ==
    ASSUME LgInv, lgPc \in {"write", "done"}, NEW t \in LgTables, NEW g,
           \A rec \in LgRecords, c \in LgColumns : LgUsers(t, rec, c) = LgUsing(g, rec, c)
    PROVE  \A c \in LgColumns : LgLogged(g, c) = lgTotal[t].uses[c]
<1>. SUFFICES ASSUME NEW c \in LgColumns PROVE LgLogged(g, c) = lgTotal[t].uses[c]
  OBVIOUS
<1>1. PICK f : f = [rec \in LgAccepted |-> lgSeen[rec] * Cardinality(LgUsers(t, rec, c))]
  OBVIOUS
<1>2. [rec \in LgAccepted |-> lgSeen[rec] * Cardinality(LgUsing(g, rec, c))] = f
  BY <1>1, LgAcceptedFinite
<1>3. DOMAIN f = LgAccepted
  BY <1>1
<1>4. LgLogged(g, c) = SumFunction(f)
  BY <1>2, Zenon DEF LgLogged, LgUsing
<1>5. LgLogged(g, c) = LgDue(t, c)
  BY <1>1, <1>3, <1>4, Zenon DEF SumFunction, LgDue
<1>6. lgTotal[t].uses[c] + lgPart[t].uses[c] = LgDue(t, c) /\ lgPart = LgNoStats
  BY DEF LgInv, LgCounted
<1>7. lgPart[t].uses[c] = 0
  <2>1. PICK none : none = LgNoStats
    OBVIOUS
  <2>2. none[t].uses[c] = 0
    BY <2>1 DEF LgNoStats, LgNoUse
  <2>. QED BY <1>6, <2>1, <2>2
<1>8. lgTotal[t].uses[c] \in Nat
  BY DEF LgInv, LgTyped, LgStats
<1>. QED BY <1>5, <1>6, <1>7, <1>8

\* The rows of a report that are one table's; the counts of its columns.
LgRowsAre(rows, t, uses) == \A r : r \in rows /\ r.table = t <=> r \in LgRowsOf(t, uses)
LgCounts(logged, uses) == \A c \in LgColumns : logged[c] = uses[c]

\* The rows of a table's columns carry what is merged onto them.
LEMMA LgRowsCarry ==
    ASSUME NEW t \in LgTables, NEW uses \in [LgColumns -> Nat], NEW d \in LgDdl[t],
           NEW rows, LgRowsAre(rows, t, uses), NEW logged, LgCounts(logged, uses)
    PROVE  SumFunction([row \in {r \in rows : r.table = t /\ r.column = d} |-> row.uses])
             = SumFunction([c \in LgSources(t, d) |-> logged[c]])
<1>. \A r : r \in rows /\ r.table = t <=> r \in LgRowsOf(t, uses)
  BY DEF LgRowsAre
<1>. \A c \in LgColumns : logged[c] = uses[c]
  BY DEF LgCounts
<1>1. PICK R : R = {r \in rows : r.table = t /\ r.column = d}
  OBVIOUS
<1>2. PICK src : src = LgSources(t, d)
  OBVIOUS
<1>3. IsFiniteSet(src) /\ src \subseteq LgColumns
  <2>1. src \subseteq LgColumns
    BY <1>2 DEF LgSources
  <2>2. IsFiniteSet(LgColumns)
    BY LgAssumption, Zenon
  <2>. QED BY <2>1, <2>2, FS_Subset
<1>4. PICK f : f = [row \in R |-> row.uses]
  OBVIOUS
<1>5. PICK h : h = [c \in src |-> logged[c]]
  OBVIOUS
<1>6. PICK n : n = SumFunctionOnSet(uses, src)
  OBVIOUS
<1>7. n \in Int /\ SumFunctionOnSet(h, src) = n
  <2>1. \A c \in src : uses[c] \in Int /\ h[c] = uses[c]
    BY <1>3, <1>5
  <2>. QED BY <1>3, <1>6, <2>1, SumSame
<1>8. SumFunction(h) = n
  <2>1. DOMAIN h = src
    BY <1>5
  <2>. QED BY <1>7, <2>1, Zenon DEF SumFunction
<1>. DEFINE Row == [table |-> t, column |-> d, uses |-> n]
<1>9. R = IF \E c \in src : uses[c] > 0 THEN {Row} ELSE {}
  <2>1. ASSUME NEW x
        PROVE  LgBucket(uses, LgSources(t, d)) = n
    BY <1>2, <1>6, Zenon DEF LgBucket
  <2>2. ASSUME NEW r \in R PROVE r = Row /\ \E c \in src : uses[c] > 0
    <3>1. r \in LgRowsOf(t, uses) /\ r.column = d
      BY <1>1
    <3>2. PICK e \in LgDdl[t] : /\ \E c \in LgSources(t, e) : uses[c] > 0
                               /\ r = [table |-> t, column |-> e, uses |-> LgBucket(uses, LgSources(t, e))]
      BY <3>1, Zenon DEF LgRowsOf
    <3>3. e = d
      <4>1. PICK k : k = LgBucket(uses, LgSources(t, e))
        OBVIOUS
      <4>. QED BY <3>1, <3>2, <4>1
    <3>. QED BY <1>2, <2>1, <3>2, <3>3, Zenon
  <2>3. ASSUME \E c \in src : uses[c] > 0 PROVE Row \in R
    <3>1. Row \in LgRowsOf(t, uses)
      BY <1>2, <2>1, <2>3, Zenon DEF LgRowsOf
    <3>2. Row.table = t /\ Row.column = d
      OBVIOUS
    <3>. HIDE DEF Row
    <3>. QED BY <1>1, <3>1, <3>2
  <2>. HIDE DEF Row
  <2>. QED BY <2>2, <2>3
<1>10. SumFunction(f) = n
  <2>1. CASE \E c \in src : uses[c] > 0
    <3>1. R = {Row}
      BY <1>9, <2>1, Zenon
    <3>2. f[Row] = n /\ DOMAIN f = {Row}
      <4>1. Row.uses = n
        OBVIOUS
      <4>. HIDE DEF Row
      <4>. QED BY <1>4, <3>1, <4>1
    <3>. HIDE DEF Row
    <3>3. SumFunctionOnSet(f, {Row}) = n
      BY <1>7, <3>2, SumOfOne
    <3>. QED BY <3>2, <3>3, Zenon DEF SumFunction
  <2>2. CASE ~\E c \in src : uses[c] > 0
    <3>1. DOMAIN f = {}
      BY <1>4, <1>9, <2>2
    <3>2. SumFunction(f) = 0
      BY <3>1, SumOfNone, Zenon DEF SumFunction
    <3>3. \A c \in src : uses[c] \in Nat /\ uses[c] = 0
      BY <1>3, <2>2
    <3>4. n = 0
      BY <1>3, <1>6, <3>3, SumOfNaturals
    <3>. QED BY <3>2, <3>4
  <2>. QED BY <2>1, <2>2
<1>. QED BY <1>1, <1>2, <1>4, <1>5, <1>8, <1>10, Zenon

\* What the property says of one group whose uses were counted for a table of the report.
LEMMA LgGroupKept ==
    ASSUME LgInv, lgPc \in {"write", "done"}, lgAsk.ddl, NEW t \in lgReport.chosen, NEW g,
           \A c \in LgColumns : LgLogged(g, c) = lgTotal[t].uses[c]
    PROVE  /\ \A d \in LgDdl[t] :
                SumFunction([row \in {r \in lgReport.rows : r.table = t /\ r.column = d} |-> row.uses])
                  = SumFunction([c \in LgSources(t, d) |-> LgLogged(g, c)])
           /\ \A c \in LgColumns : LgPlace(t, c).as # "merged" /\ LgLogged(g, c) > 0 =>
                /\ \E o \in lgReport.open : o[1] = t /\ o[2] = c
                /\ lgAsk.mode \in {"top", "all"} \/ <<c, LgLogged(g, c)>> \in lgReport.unmapped
<1>1. PICK report : report = lgReport
  OBVIOUS
<1>2. /\ report.chosen \subseteq LgTables
      /\ report.rows = UNION {LgRowsOf(s, lgTotal[s].uses) : s \in report.chosen}
      /\ report.open = UNION {LgOpen(s, lgTotal[s].uses) : s \in report.chosen}
      /\ lgAsk.mode \notin {"top", "all"} => \A s \in report.chosen :
            report.unmapped = {<<o[2], lgTotal[s].uses[o[2]]>> : o \in report.open}
  <2>1. LgReportIs(report)
    BY <1>1 DEF LgInv, LgReported
  <2>. QED BY <2>1, Zenon DEF LgReportIs
<1>3. t \in LgTables /\ t \in report.chosen
  BY <1>1, <1>2
<1>4. PICK uses \in [LgColumns -> Nat] : uses = lgTotal[t].uses
  BY <1>3 DEF LgInv, LgTyped, LgStats
<1>5. PICK logged : logged = [c \in LgColumns |-> LgLogged(g, c)]
  OBVIOUS
<1>6. \A c \in LgColumns : logged[c] = LgLogged(g, c) /\ logged[c] = uses[c]
  BY <1>4, <1>5
<1>7. ASSUME NEW d \in LgDdl[t]
      PROVE  SumFunction([row \in {r \in lgReport.rows : r.table = t /\ r.column = d} |-> row.uses])
               = SumFunction([c \in LgSources(t, d) |-> LgLogged(g, c)])
  <2>1. \A s, u : \A r \in LgRowsOf(s, u) : r.table = s
    BY DEF LgRowsOf
  <2>2. \A r : r \in report.rows /\ r.table = t <=> r \in LgRowsOf(t, uses)
    <3>1. \A r : r \in report.rows <=> \E s \in report.chosen : r \in LgRowsOf(s, lgTotal[s].uses)
      BY <1>2
    <3>. QED BY <1>3, <1>4, <2>1, <3>1
  <2>3. SumFunction([row \in {r \in report.rows : r.table = t /\ r.column = d} |-> row.uses])
          = SumFunction([c \in LgSources(t, d) |-> logged[c]])
    <3>1. PICK rows : rows = report.rows
      OBVIOUS
    <3>2. LgRowsAre(rows, t, uses) /\ LgCounts(logged, uses)
      BY <1>6, <2>2, <3>1 DEF LgRowsAre, LgCounts
    <3>3. SumFunction([row \in {r \in rows : r.table = t /\ r.column = d} |-> row.uses])
            = SumFunction([c \in LgSources(t, d) |-> logged[c]])
      BY <1>3, <3>2, LgRowsCarry
    <3>. QED BY <3>1, <3>3
  <2>4. [c \in LgSources(t, d) |-> logged[c]] = [c \in LgSources(t, d) |-> LgLogged(g, c)]
    BY <1>6 DEF LgSources
  <2>. QED BY <1>1, <2>3, <2>4
<1>8. ASSUME NEW c \in LgColumns, LgPlace(t, c).as # "merged", LgLogged(g, c) > 0
      PROVE  /\ \E o \in lgReport.open : o[1] = t /\ o[2] = c
             /\ lgAsk.mode \in {"top", "all"} \/ <<c, LgLogged(g, c)>> \in lgReport.unmapped
  <2>1. PICK o : o = <<t, c, LgPlace(t, c).as>>
    OBVIOUS
  <2>2. o[1] = t /\ o[2] = c
    BY <2>1
  <2>3. uses[c] > 0 /\ LgLogged(g, c) = uses[c]
    BY <1>6, <1>8
  <2>4. o \in LgOpen(t, uses)
    BY <1>8, <2>1, <2>3, Zenon DEF LgOpen
  <2>5. o \in report.open
    BY <1>2, <1>3, <1>4, <2>4, Zenon
  <2>6. lgAsk.mode \notin {"top", "all"} => <<c, uses[c]>> \in report.unmapped
    <3>. SUFFICES ASSUME lgAsk.mode \notin {"top", "all"} PROVE <<c, uses[c]>> \in report.unmapped
      OBVIOUS
    <3>1. report.unmapped = {<<x[2], lgTotal[t].uses[x[2]]>> : x \in report.open}
      BY <1>2, <1>3, Zenon
    <3>2. <<o[2], lgTotal[t].uses[o[2]]>> \in report.unmapped
      BY <2>5, <3>1, Zenon
    <3>. QED BY <1>4, <2>2, <3>2
  <2>. QED BY <1>1, <2>2, <2>3, <2>5, <2>6
<1>. QED BY <1>7, <1>8

(* The counts of a run: in every mode of ama-ingest run that merges onto a DDL, for any   *)
(* logs split into any number of files, any tables, columns, glossary and similarities,   *)
(* the report has every use of a column the accepted statements make of the tables it is  *)
(* about, once: on the DDL column its name is merged onto, or under its own name.         *)
THEOREM LgUsageKeptHolds == LgSpec => []LgUsageKept
<1>1. ASSUME LgInv, lgPc \in {"write", "done"}, lgAsk.ddl, lgReport.chosen # {},
             NEW g,
             g \in (IF lgAsk.mode \in {"top", "all"} THEN {{t} : t \in lgReport.chosen}
                   ELSE IF lgAsk.mode = "target" THEN {{t \in LgTables : LgMatches(t)}}
                   ELSE {lgReport.chosen})
      PROVE  \E t \in lgReport.chosen :
               /\ (IF g \subseteq lgReport.chosen THEN CHOOSE x \in g : TRUE ELSE LgScope) = t
               /\ \A c \in LgColumns : LgLogged(g, c) = lgTotal[t].uses[c]
  <2>1. PICK chosen : chosen = lgReport.chosen
    OBVIOUS
  <2>2. /\ chosen \subseteq LgTables
        /\ lgAsk.mode \in {"top", "all"} \/ \E t \in LgTables : chosen = {t}
        /\ lgAsk.mode = "target" => chosen = {LgScope}
    <3>1. LgReportIs(lgReport)
      BY <1>1 DEF LgInv, LgReported
    <3>. QED BY <2>1, <3>1, Zenon DEF LgReportIs
  <2>3. \A rec \in LgRecords : rec.touched \subseteq LgTables /\ rec.uses \subseteq rec.touched \X LgColumns
    BY LgAssumption, Zenon
  <2>4. lgAsk.mode # "scan" /\ LgScope \in LgTables
    BY <1>1, LgAssumption, Zenon DEF LgInv, LgTyped
  <2>5. CASE lgAsk.mode = "target"
    <3>1. g = {t \in LgTables : LgMatches(t)} /\ chosen = {LgScope}
      BY <1>1, <2>2, <2>5
    <3>2. LgScope \in g
      BY <2>4, <3>1 DEF LgMatches
    <3>3. (IF g \subseteq chosen THEN CHOOSE x \in g : TRUE ELSE LgScope) = LgScope
      <4>1. CASE g \subseteq chosen
        <5>1. \A x \in g : x = LgScope
          BY <3>1, <4>1
        <5>. QED BY <3>2, <4>1, <5>1, Zenon
      <4>2. CASE ~(g \subseteq chosen)
        BY <4>2, Zenon
      <4>. QED BY <4>1, <4>2
    <3>4. ASSUME NEW rec \in LgRecords, NEW c \in LgColumns
          PROVE  LgUsers(LgScope, rec, c) = LgUsing(g, rec, c)
      <4>1. \A s : LgInto(s) = IF LgMatches(s) THEN {LgScope} ELSE {}
        BY <2>5, Zenon DEF LgInto
      <4>2. \A s : <<s, c>> \in rec.uses => s \in rec.touched /\ s \in LgTables
        BY <2>3
      <4>. QED BY <3>1, <4>1, <4>2 DEF LgUsers, LgUsing
    <3>5. \A c \in LgColumns : LgLogged(g, c) = lgTotal[LgScope].uses[c]
      BY <1>1, <2>4, <3>4, LgCountIsLogged
    <3>. QED BY <2>1, <3>1, <3>3, <3>5
  <2>6. CASE lgAsk.mode # "target"
    <3>1. PICK t \in chosen : g = {t}
      BY <1>1, <2>1, <2>2, <2>6
    <3>2. (IF g \subseteq chosen THEN CHOOSE x \in g : TRUE ELSE LgScope) = t
      <4>1. g \subseteq chosen /\ t \in g /\ \A x \in g : x = t
        BY <3>1
      <4>. QED BY <4>1, Zenon
    <3>3. ASSUME NEW rec \in LgRecords, NEW c \in LgColumns
          PROVE  LgUsers(t, rec, c) = LgUsing(g, rec, c)
      <4>1. \A s : LgInto(s) = {s}
        BY <2>4, <2>6 DEF LgInto
      <4>2. \A s : <<s, c>> \in rec.uses => s \in rec.touched
        BY <2>3
      <4>. QED BY <3>1, <4>1, <4>2 DEF LgUsers, LgUsing
    <3>4. t \in LgTables
      BY <2>2
    <3>5. \A c \in LgColumns : LgLogged(g, c) = lgTotal[t].uses[c]
      BY <1>1, <3>3, <3>4, LgCountIsLogged
    <3>. QED BY <2>1, <3>2, <3>5, Zenon
  <2>. QED BY <2>5, <2>6
<1>2. LgInv => LgUsageKept
  <2>. SUFFICES ASSUME LgInv, lgPc \in {"write", "done"}, lgAsk.ddl, lgReport.chosen # {}
                PROVE  LgUsageKept
    BY Zenon DEF LgUsageKept
  <2>. DEFINE Groups == IF lgAsk.mode \in {"top", "all"} THEN {{t} : t \in lgReport.chosen}
                        ELSE IF lgAsk.mode = "target" THEN {{t \in LgTables : LgMatches(t)}}
                        ELSE {lgReport.chosen}
              Of(g) == IF g \subseteq lgReport.chosen THEN CHOOSE t \in g : TRUE ELSE LgScope
              Kept(g, t) ==
                 /\ \A d \in LgDdl[t] :
                      SumFunction([row \in {r \in lgReport.rows : r.table = t /\ r.column = d} |-> row.uses])
                        = SumFunction([c \in LgSources(t, d) |-> LgLogged(g, c)])
                 /\ \A c \in LgColumns : LgPlace(t, c).as # "merged" /\ LgLogged(g, c) > 0 =>
                      /\ \E o \in lgReport.open : o[1] = t /\ o[2] = c
                      /\ lgAsk.mode \in {"top", "all"} \/ <<c, LgLogged(g, c)>> \in lgReport.unmapped
  <2>1. ASSUME NEW g \in Groups PROVE Kept(g, Of(g))
    <3>1. PICK t \in lgReport.chosen : Of(g) = t /\ \A c \in LgColumns : LgLogged(g, c) = lgTotal[t].uses[c]
      BY <1>1, <2>1, Zenon
    <3>2. Kept(g, t)
      BY <3>1, LgGroupKept, Zenon
    <3>. HIDE DEF Kept, Of
    <3>. QED BY <3>1, <3>2
  <2>. QED BY <2>1, Zenon DEF LgUsageKept
<1>. QED BY <1>2, LgInvHolds, PTL

\* What one line adds to the counters: a fate that has none adds nothing.
LgCounters == {"rows", "parsed", "regex", "empty", "env", "unparsed", "crashed"}

LEMMA LgCountsMore ==
    ASSUME NEW f \in [LgCounters -> Nat], NEW k, NEW g, g = [f EXCEPT !["rows"] = @ + 1, ![k] = @ + 1]
    PROVE  g \in [LgCounters -> Nat]
<1>1. DOMAIN g = LgCounters
  OBVIOUS
<1>2. ASSUME NEW c \in LgCounters PROVE g[c] \in Nat
  <2>1. PICK n \in Nat : n = f[c]
    OBVIOUS
  <2>2. g[c] \in {n, n + 1, n + 2}
    BY <2>1
  <2>. QED BY <2>2
<1>. QED BY <1>1, <1>2

\* The counters, the weights, the file at hand and what a report is about.
LgReportShape(r) ==
    /\ r = [chosen |-> r.chosen, queries |-> r.queries, rows |-> r.rows, unmapped |-> r.unmapped,
            open |-> r.open, inventory |-> r.inventory, wrote |-> r.wrote]
    /\ r.chosen \subseteq LgTables
LgRanges ==
    /\ lgPc \in {"read", "report", "write", "done", "abort"}
    /\ lgFile \in 1..(LgFiles + 1) /\ (lgPc = "read" => lgFile <= LgFiles)
    /\ lgCount \in [LgCounters -> Nat] /\ lgWeight \in [LgPairs -> Nat]
    /\ LgReportShape(lgReport)

LEMMA LgBuiltShape == LgTyped /\ LgBuild => LgReportShape(lgReport')
<1>. SUFFICES ASSUME LgTyped, LgBuild PROVE LgReportShape(lgReport')
  OBVIOUS
<1>1. \A chosen \in LgChosen : chosen \subseteq LgTables
  <2>. SUFFICES ASSUME NEW chosen \in LgChosen PROVE chosen \subseteq LgTables
    OBVIOUS
  <2>0. LgFound \subseteq LgTables /\ LgScope \in LgTables
    BY LgAssumption, Zenon DEF LgFound
  <2>1. CASE chosen = {LgScope}
    BY <2>0, <2>1
  <2>2. CASE chosen \in LgPicked
    BY <2>0, <2>2 DEF LgPicked
  <2>3. CASE chosen \in LgBusiest(LgMerge)
    BY <2>0, <2>3, Zenon DEF LgBusiest
  <2>4. chosen \in {{LgScope}} \/ chosen \in LgPicked \/ chosen \in LgBusiest(LgMerge)
    BY Zenon DEF LgChosen
  <2>. QED BY <2>1, <2>2, <2>3, <2>4
<1>2. PICK blank : blank = LgBlank
  OBVIOUS
<1>3. blank = [chosen |-> {}, queries |-> 0, rows |-> {}, unmapped |-> {}, open |-> {},
               inventory |-> {}, wrote |-> "nothing"]
  BY <1>2 DEF LgBlank
<1>4. PICK r : r = lgReport'
  OBVIOUS
<1>5. CASE lgAsk.mode = "scan"
  <2>0. lgReport' = [LgBlank EXCEPT !.queries = Cardinality(LgFound)]
    <3>1. ~lgAsk.ddl
      BY <1>5 DEF LgTyped
    <3>. QED BY <1>5, <3>1, Zenon DEF LgBuild, LgReportOf
  <2>1. \E q : r = [blank EXCEPT !.queries = q]
    BY <1>2, <1>4, <2>0, Zenon
  <2>2. LgReportShape(r)
    BY <1>3, <2>1 DEF LgReportShape
  <2>. QED BY <1>4, <2>2
<1>6. CASE lgAsk.mode # "scan" /\ lgAsk.ddl
  <2>. DEFINE several == lgAsk.mode \in {"top", "all"}
              Sum(chosen) == LgSum(lgTotal, chosen)
              For(chosen) == IF chosen = {} THEN LgScope ELSE CHOOSE t \in chosen : TRUE
              Parts(chosen) == IF several THEN {<<t, lgTotal[t].uses>> : t \in chosen}
                               ELSE {<<For(chosen), Sum(chosen).uses>>}
              Open(chosen) == UNION {LgOpen(part[1], part[2]) : part \in Parts(chosen)}
              Rows(chosen) == UNION {LgRowsOf(part[1], part[2]) : part \in Parts(chosen)}
              Unmapped(chosen) == IF several THEN {} ELSE {<<o[2], Sum(chosen).uses[o[2]]>> : o \in Open(chosen)}
  <2>0. PICK chosen \in LgChosen :
          lgReport' = [LgBlank EXCEPT
             !.chosen = chosen, !.queries = Sum(chosen).queries, !.open = Open(chosen),
             !.rows = Rows(chosen), !.unmapped = Unmapped(chosen),
             !.inventory = IF lgAsk.mode = "target" THEN {} ELSE LgInventory(chosen)]
    BY <1>6, Zenon DEF LgBuild, LgReportOf
  <2>. HIDE DEF Sum, Open, Rows, Unmapped
  <2>1. \E q, open, rows, unmapped, inventory :
          r = [blank EXCEPT !.chosen = chosen, !.queries = q, !.open = open, !.rows = rows,
                            !.unmapped = unmapped, !.inventory = inventory]
    BY <1>2, <1>4, <2>0, Zenon
  <2>2. chosen \subseteq LgTables
    BY <1>1
  <2>3. LgReportShape(r)
    BY <1>3, <2>1, <2>2 DEF LgReportShape
  <2>. QED BY <1>4, <2>3
<1>7. CASE lgAsk.mode # "scan" /\ ~lgAsk.ddl
  <2>. DEFINE Sum(chosen) == LgSum(lgTotal, chosen)
              For(chosen) == IF chosen = {} THEN LgScope ELSE CHOOSE t \in chosen : TRUE
              Rows(chosen) == {[table |-> For(chosen), column |-> c, uses |-> Sum(chosen).uses[c]] :
                                 c \in {x \in LgColumns : Sum(chosen).uses[x] > 0}}
  <2>0. PICK chosen \in LgChosen :
          lgReport' = [LgBlank EXCEPT
             !.chosen = chosen, !.queries = Sum(chosen).queries, !.rows = Rows(chosen),
             !.inventory = IF lgAsk.mode = "target" THEN {} ELSE LgInventory(chosen)]
    BY <1>7, Zenon DEF LgBuild, LgReportOf
  <2>. HIDE DEF Sum, Rows
  <2>1. \E q, rows, inventory :
          r = [blank EXCEPT !.chosen = chosen, !.queries = q, !.rows = rows,
                            !.inventory = inventory]
    BY <1>2, <1>4, <2>0, Zenon
  <2>2. chosen \subseteq LgTables
    BY <1>1
  <2>3. LgReportShape(r)
    BY <1>3, <2>1, <2>2 DEF LgReportShape
  <2>. QED BY <1>4, <2>3
<1>. QED BY <1>5, <1>6, <1>7

LEMMA LgRangesStep == LgInv /\ LgRanges /\ [LgNext]_lgVars => LgRanges'
<1>. SUFFICES ASSUME LgInv, LgRanges, [LgNext]_lgVars PROVE LgRanges'
  OBVIOUS
<1>0. LgFiles \in Nat
  BY LgAssumption
<1>1. CASE LgLine
  <2>1. PICK rec \in LgRecords :
          /\ lgCount' = IF rec.fate = "garbled" THEN lgCount
                        ELSE [lgCount EXCEPT !["rows"] = @ + 1,
                                ![IF rec.fate = "crash" THEN "crashed" ELSE rec.fate] = @ + 1]
          /\ lgPc' = IF rec.fate = "crash" THEN "abort" ELSE "read"
          /\ lgWeight' = lgWeight \/ lgWeight' \in LgClique(rec)
    BY <1>1, Zenon DEF LgLine
  <2>2. lgPc = "read" /\ UNCHANGED <<lgFile, lgReport>>
    BY <1>1 DEF LgLine
  <2>3. lgCount' \in [LgCounters -> Nat]
    <3>1. PICK k : k = IF rec.fate = "crash" THEN "crashed" ELSE rec.fate
      OBVIOUS
    <3>2. lgCount' = lgCount \/ lgCount' = [lgCount EXCEPT !["rows"] = @ + 1, ![k] = @ + 1]
      BY <2>1, <3>1, Zenon
    <3>3. CASE lgCount' = [lgCount EXCEPT !["rows"] = @ + 1, ![k] = @ + 1]
      <4>1. PICK f \in [LgCounters -> Nat] : f = lgCount
        BY DEF LgRanges
      <4>2. PICK g : g = lgCount'
        OBVIOUS
      <4>3. g = [f EXCEPT !["rows"] = @ + 1, ![k] = @ + 1]
        BY <3>3, <4>1, <4>2, Zenon
      <4>4. g \in [LgCounters -> Nat]
        BY <4>3, LgCountsMore
      <4>. QED BY <4>2, <4>4
    <3>. QED BY <3>2, <3>3 DEF LgRanges
  <2>4. lgWeight' \in [LgPairs -> Nat]
    <3>1. lgWeight \in [LgPairs -> Nat]
      BY DEF LgRanges
    <3>2. lgWeight' = lgWeight
          \/ \E add : lgWeight' = [p \in LgPairs |-> lgWeight[p] + (IF p \in add THEN 1 ELSE 0)]
      BY <2>1, Zenon DEF LgClique
    <3>. QED BY <3>1, <3>2
  <2>. QED BY <2>1, <2>2, <2>3, <2>4 DEF LgRanges, LgReportShape
<1>2. CASE LgNextFile
  <2>1. UNCHANGED <<lgCount, lgWeight, lgReport>> /\ lgFile' = lgFile + 1 /\ lgPc = "read"
        /\ lgPc' = IF lgFile = LgFiles THEN "report" ELSE "read"
    BY <1>2 DEF LgNextFile
  <2>2. lgFile \in 1..(LgFiles + 1) /\ lgFile <= LgFiles
    BY <2>1 DEF LgRanges
  <2>3. lgFile' \in 1..(LgFiles + 1) /\ (lgFile # LgFiles => lgFile' <= LgFiles)
    BY <1>0, <2>1, <2>2
  <2>. QED BY <2>1, <2>3 DEF LgRanges, LgReportShape
<1>3. CASE LgBuild
  <2>1. UNCHANGED <<lgCount, lgWeight, lgFile>> /\ lgPc' = "write"
    BY <1>3 DEF LgBuild
  <2>2. LgReportShape(lgReport')
    BY <1>3, LgBuiltShape DEF LgInv
  <2>3. LgReportShape(lgReport)'
    BY <2>2 DEF LgReportShape
  <2>. QED BY <2>1, <2>3 DEF LgRanges
<1>4. CASE LgWrite
  <2>1. UNCHANGED <<lgCount, lgWeight, lgFile>> /\ lgPc' = "done"
    BY <1>4 DEF LgWrite
  <2>2. \E how : lgReport' = [lgReport EXCEPT !.wrote = how]
    BY <1>4, Zenon DEF LgWrite
  <2>3. PICK r, s : r = lgReport /\ s = lgReport'
    OBVIOUS
  <2>4. LgReportShape(r) /\ \E how : s = [r EXCEPT !.wrote = how]
    BY <2>2, <2>3 DEF LgRanges
  <2>5. LgReportShape(s)
    BY <2>4 DEF LgReportShape
  <2>6. LgReportShape(lgReport)'
    BY <2>3, <2>5 DEF LgReportShape
  <2>. QED BY <2>1, <2>6 DEF LgRanges
<1>5. CASE UNCHANGED lgVars
  BY <1>5 DEF lgVars, LgRanges, LgReportShape
<1>. QED BY <1>1, <1>2, <1>3, <1>4, <1>5 DEF LgNext

\* The types of a run, for any logs, statements and files (LogIngest).
THEOREM LgTypesHold == LgSpec => []LgTypeOK
<1>1. LgInit => LgRanges
  <2>. SUFFICES ASSUME LgInit PROVE LgRanges
    OBVIOUS
  <2>0. LgFiles \in Nat \ {0}
    BY LgAssumption
  <2>1. lgPc = "read" /\ lgFile = 1
    BY DEF LgInit
  <2>2. lgCount \in [LgCounters -> Nat] /\ lgWeight \in [LgPairs -> Nat]
    BY DEF LgInit, LgCounters
  <2>3. LgReportShape(lgReport)
    BY DEF LgInit, LgReportShape, LgBlank
  <2>. QED BY <2>0, <2>1, <2>2, <2>3 DEF LgRanges
<1>2. LgInv /\ LgRanges => LgTypeOK
  BY DEF LgInv, LgTyped, LgStats, LgRanges, LgReportShape, LgTypeOK
<1>. QED BY <1>1, <1>2, LgRangesStep, LgInvHolds, PTL DEF LgSpec

-----------------------------------------------------------------------------
(* SchemaExtract *)

\* What one sequence after the other has.
LEMMA ConcatHas ==
    ASSUME NEW S, NEW a \in Seq(S), NEW b \in Seq(S)
    PROVE  a \o b \in Seq(S) /\ ToSet(a) \subseteq ToSet(a \o b) /\ ToSet(b) \subseteq ToSet(a \o b)
<1>1. PICK n \in Nat, m \in Nat : n = Len(a) /\ m = Len(b)
  OBVIOUS
<1>2. PICK both : both = a \o b
  OBVIOUS
<1>6. both \in Seq(S)
  BY <1>2
<1>3. DOMAIN both = 1..(n + m) /\ DOMAIN a = 1..n /\ DOMAIN b = 1..m
  BY <1>1, <1>2
<1>4. \A i \in 1..n : i \in 1..(n + m) /\ both[i] = a[i]
  BY <1>1, <1>2
<1>5. \A i \in 1..m : i + n \in 1..(n + m) /\ both[i + n] = b[i]
  BY <1>1, <1>2
<1>. QED BY <1>2, <1>3, <1>4, <1>5, <1>6 DEF ToSet

\* The last of the flattened prefixes is a sequence, and has what each of them has.
LEMMA FlattenIs ==
    ASSUME NEW S, NEW seqs \in Seq(Seq(S))
    PROVE  /\ FlattenSeq(seqs) \in Seq(S)
           /\ \A i \in 1..Len(seqs) : ToSet(seqs[i]) \subseteq ToSet(FlattenSeq(seqs))
<1>. DEFINE IsFlat(f, n) == f = [i \in 1..n |-> IF i = 1 THEN seqs[i] ELSE f[i - 1] \o seqs[i]]
            Flat(f, n) == /\ f = [i \in 1..n |-> f[i]]
                          /\ \A i \in 1..n : f[i] = IF i = 1 THEN seqs[i] ELSE f[i - 1] \o seqs[i]
<1>1. ASSUME NEW f, NEW n PROVE IsFlat(f, n) <=> Flat(f, n)
  <2>1. PICK h : h = [i \in 1..n |-> IF i = 1 THEN seqs[i] ELSE f[i - 1] \o seqs[i]]
    OBVIOUS
  <2>2. IsFlat(f, n) <=> f = h
    BY <2>1, Zenon
  <2>. HIDE DEF IsFlat
  <2>. QED BY <2>1, <2>2
<1>. HIDE DEF IsFlat
<1>2. ASSUME NEW n \in Nat, n <= Len(seqs) PROVE \E f : Flat(f, n)
  <2>. DEFINE Bad == {m \in Nat : m <= Len(seqs) /\ ~\E f : Flat(f, m)}
  <2>1. Bad = {}
    <3>. SUFFICES ASSUME Bad # {} PROVE FALSE
      OBVIOUS
    <3>1. PICK m \in Bad : \A k \in Bad : m <= k
      <4>1. Bad \in SUBSET Nat
        OBVIOUS
      <4>. HIDE DEF Bad
      <4>. QED BY <4>1, LeastNatural
    <3>2. m \in Nat /\ m <= Len(seqs) /\ ~\E f : Flat(f, m)
      OBVIOUS
    <3>3. m # 0
      <4>1. PICK f : f = [i \in 1..0 |-> <<>>]
        OBVIOUS
      <4>2. Flat(f, 0)
        BY <4>1
      <4>. HIDE DEF Flat
      <4>. QED BY <3>2, <4>2
    <3>4. m - 1 \in Nat /\ m - 1 <= Len(seqs) /\ m - 1 \notin Bad
      <4>. HIDE DEF Bad
      <4>1. Len(seqs) \in Nat
        OBVIOUS
      <4>. QED BY <3>1, <3>2, <3>3, <4>1
    <3>5. PICK f : Flat(f, m - 1)
      BY <3>4
    <3>6. PICK h : h = [i \in 1..m |-> IF i = m THEN IF m = 1 THEN seqs[m] ELSE f[m - 1] \o seqs[m] ELSE f[i]]
      OBVIOUS
    <3>7. Flat(h, m)
      <4>1. \A i \in 1..m : i # m => i \in 1..(m - 1) /\ h[i] = f[i]
        BY <3>2, <3>6
      <4>2. ASSUME NEW i \in 1..m
            PROVE  h[i] = IF i = 1 THEN seqs[i] ELSE h[i - 1] \o seqs[i]
        <5>1. CASE i = m
          <6>1. m # 1 => m - 1 \in 1..m /\ m - 1 # m
            BY <3>2, <3>3
          <6>. QED BY <3>6, <4>1, <5>1, <6>1
        <5>2. CASE i # m
          <6>1. i # 1 => i - 1 \in 1..m /\ i - 1 # m
            BY <3>2, <5>2
          <6>. QED BY <3>5, <4>1, <5>2, <6>1
        <5>. QED BY <5>1, <5>2
      <4>. QED BY <3>6, <4>2
    <3>. HIDE DEF Flat
    <3>. QED BY <3>2, <3>7
  <2>. HIDE DEF Flat
  <2>. QED BY <1>2, <2>1
<1>3. CASE Len(seqs) = 0
  <2>1. FlattenSeq(seqs) = seqs
    BY <1>3, Zenon DEF FlattenSeq
  <2>2. seqs = <<>>
    BY <1>3
  <2>. QED BY <2>1, <2>2
<1>4. CASE Len(seqs) # 0
  <2>1. PICK n \in Nat : n = Len(seqs)
    OBVIOUS
  <2>2. PICK f : f = CHOOSE g : IsFlat(g, n)
    OBVIOUS
  <2>3. Flat(f, n)
    <3>1. \E g : IsFlat(g, n)
      <4>1. n <= Len(seqs)
        BY <2>1
      <4>. HIDE DEF Flat
      <4>. QED BY <1>1, <1>2, <4>1
    <3>2. IsFlat(f, n)
      BY <2>2, <3>1, Zenon
    <3>. HIDE DEF Flat
    <3>. QED BY <1>1, <3>2
  <2>4. FlattenSeq(seqs) = f[n]
    BY <1>4, <2>1, <2>2, Zenon DEF FlattenSeq, IsFlat
  <2>. DEFINE Bad == {i \in Nat : i \in 1..n /\ f[i] \notin Seq(S)}
  <2>5. Bad = {}
    <3>. SUFFICES ASSUME Bad # {} PROVE FALSE
      OBVIOUS
    <3>1. PICK i \in Bad : \A k \in Bad : i <= k
      <4>1. Bad \in SUBSET Nat
        OBVIOUS
      <4>. HIDE DEF Bad
      <4>. QED BY <4>1, LeastNatural
    <3>2. i \in 1..n /\ f[i] \notin Seq(S) /\ seqs[i] \in Seq(S)
      BY <2>1
    <3>3. f[i] = IF i = 1 THEN seqs[i] ELSE f[i - 1] \o seqs[i]
      BY <2>3, <3>2
    <3>4. i # 1 => i - 1 \in 1..n /\ i - 1 \notin Bad
      <4>. HIDE DEF Bad
      <4>. QED BY <3>1, <3>2
    <3>5. i # 1 => f[i - 1] \in Seq(S)
      BY <3>4
    <3>. QED BY <3>2, <3>3, <3>5
  <2>6. \A i \in 1..n : f[i] \in Seq(S)
    BY <2>5
  <2>. DEFINE Lacking == {j \in Nat : j \in 1..n /\ \E i \in 1..j : ~(ToSet(seqs[i]) \subseteq ToSet(f[j]))}
  <2>7. Lacking = {}
    <3>. SUFFICES ASSUME Lacking # {} PROVE FALSE
      OBVIOUS
    <3>1. PICK j \in Lacking : \A k \in Lacking : j <= k
      <4>1. Lacking \in SUBSET Nat
        OBVIOUS
      <4>. HIDE DEF Lacking
      <4>. QED BY <4>1, LeastNatural
    <3>2. j \in 1..n /\ seqs[j] \in Seq(S)
      BY <2>1
    <3>3. PICK i \in 1..j : ~(ToSet(seqs[i]) \subseteq ToSet(f[j]))
      OBVIOUS
    <3>4. f[j] = IF j = 1 THEN seqs[j] ELSE f[j - 1] \o seqs[j]
      BY <2>3, <3>2
    <3>5. CASE j = 1
      BY <3>3, <3>4, <3>5
    <3>6. CASE j # 1
      <4>1. j - 1 \in 1..n /\ j - 1 \notin Lacking
        <5>. HIDE DEF Lacking
        <5>. QED BY <3>1, <3>2, <3>6
      <4>2. PICK a \in Seq(S) : a = f[j - 1]
        BY <2>6, <4>1
      <4>3. PICK b \in Seq(S) : b = seqs[j]
        BY <3>2
      <4>4. ToSet(a) \subseteq ToSet(f[j]) /\ ToSet(b) \subseteq ToSet(f[j])
        BY <3>4, <3>6, <4>2, <4>3, ConcatHas
      <4>5. \A k \in 1..(j - 1) : ToSet(seqs[k]) \subseteq ToSet(a)
        BY <4>1, <4>2
      <4>6. i = j \/ i \in 1..(j - 1)
        BY <3>2
      <4>. HIDE DEF Lacking
      <4>7. CASE i = j
        BY <3>3, <4>3, <4>4, <4>7, Zenon
      <4>8. CASE i \in 1..(j - 1)
        <5>1. ToSet(seqs[i]) \subseteq ToSet(a)
          BY <4>5, <4>8, Zenon
        <5>2. PICK x, y, z : x = ToSet(seqs[i]) /\ y = ToSet(a) /\ z = ToSet(f[j])
          OBVIOUS
        <5>3. x \subseteq y /\ y \subseteq z /\ ~(x \subseteq z)
          BY <3>3, <4>4, <5>1, <5>2, Zenon
        <5>. QED BY <5>3
      <4>. QED BY <4>6, <4>7, <4>8
    <3>. QED BY <3>5, <3>6
  <2>8. \A i \in 1..n : ToSet(seqs[i]) \subseteq ToSet(f[n])
    <3>1. n \in 1..n
      BY <1>4, <2>1
    <3>. QED BY <2>7, <3>1
  <2>9. f[n] \in Seq(S)
    BY <1>4, <2>1, <2>6
  <2>. HIDE DEF Flat
  <2>. QED BY <2>1, <2>4, <2>8, <2>9, Zenon
<1>. QED BY <1>3, <1>4

\* The places in order, and what is at them.
XtPicks(o, places, s, at) ==
    /\ o \in Seq(places) /\ Len(o) = Cardinality(places)
    /\ \A k, l \in 1..Len(o) : o[k] = o[l] => k = l
    /\ \A k \in 1..Len(o) : o[k] \in places /\ at[k] = s[o[k]]

\* What a sequence has at some places is a sequence of that.
LEMMA XtAtPicks ==
    ASSUME NEW S, NEW s \in Seq(S), NEW places \in SUBSET (1..Len(s))
    PROVE  /\ XtAt(s, places) \in Seq(S) /\ Len(XtAt(s, places)) = Cardinality(places)
           /\ IsFiniteSet(places) /\ Cardinality(places) \in Nat
           /\ \A i \in places : \E k \in 1..Len(XtAt(s, places)) : XtAt(s, places)[k] = s[i]
           /\ \E o : XtPicks(o, places, s, XtAt(s, places))
<1>1. PICK n \in Nat : n = Len(s)
  OBVIOUS
<1>2. PICK o : o = PlInOrder(places, <)
  OBVIOUS
<1>3. Lists(o, places) /\ \A i, j \in 1..Len(o) : o[i] < o[j] <=> i < j
  BY <1>1, <1>2, NumbersInOrder, Zenon
<1>4. IsFiniteSet(places) /\ Cardinality(places) \in Nat
  <2>1. IsFiniteSet(1..n)
    BY FS_Interval
  <2>2. places \in SUBSET (1..n)
    BY <1>1
  <2>. QED BY <2>1, <2>2, FS_Subset, FS_CardinalityType
<1>5. PICK c \in Nat : c = Cardinality(places)
  BY <1>4
<1>6. o = [k \in 1..c |-> CHOOSE t \in places : Cardinality({x \in places : x < t}) = k - 1]
  BY <1>2, <1>5, Zenon DEF PlInOrder
<1>7. Len(o) = c /\ \A k \in 1..c : o[k] \in places
  <2>1. DOMAIN o = 1..c
    BY <1>6
  <2>. QED BY <1>3, <2>1 DEF Lists
<1>8. XtAt(s, places) = [k \in 1..c |-> s[o[k]]]
  <2>1. XtAt(s, places) = [k \in DOMAIN o |-> s[o[k]]]
    <3>1. PICK p : p = [k \in 1..Cardinality(places) |->
                          CHOOSE i \in places : Cardinality({j \in places : j < i}) = k - 1]
      OBVIOUS
    <3>2. p = o
      BY <1>5, <1>6, <3>1, Zenon
    <3>3. XtAt(s, places) = [k \in DOMAIN p |-> s[p[k]]]
      BY <3>1 DEF XtAt
    <3>. QED BY <3>2, <3>3
  <2>2. DOMAIN o = 1..c
    BY <1>6
  <2>. QED BY <2>1, <2>2, Zenon
<1>9. PICK a : a = [k \in 1..c |-> s[o[k]]]
  OBVIOUS
<1>10. a \in Seq(S) /\ Len(a) = c
  <2>1. \A k \in 1..c : a[k] \in S
    <3>1. \A i \in places : s[i] \in S
      BY <1>1
    <3>. QED BY <1>7, <1>9, <3>1
  <2>. QED BY <1>9, <2>1
<1>11. \A i \in places : \E k \in 1..c : a[k] = s[i]
  BY <1>3, <1>7, <1>9 DEF Lists
<1>12. \A k \in 1..c : o[k] \in places /\ a[k] = s[o[k]]
  BY <1>7, <1>9
<1>13. \A k, l \in 1..c : o[k] = o[l] => k = l
  <2>1. \A k \in 1..c : o[k] \in Nat
    <3>1. \A i \in places : i \in Nat
      OBVIOUS
    <3>. QED BY <1>7, <3>1
  <2>. QED BY <1>3, <1>7, <2>1
<1>14. o \in Seq(places)
  BY <1>3 DEF Lists
<1>15. XtPicks(o, places, s, a)
  BY <1>5, <1>7, <1>12, <1>13, <1>14 DEF XtPicks
<1>16. XtAt(s, places) = a
  BY <1>8, <1>9, Zenon
<1>. QED BY <1>4, <1>5, <1>10, <1>11, <1>15, <1>16

\* The same without the order of the places.
LEMMA XtAtIs ==
    ASSUME NEW S, NEW s \in Seq(S), NEW places \in SUBSET (1..Len(s))
    PROVE  /\ XtAt(s, places) \in Seq(S) /\ Len(XtAt(s, places)) = Cardinality(places)
           /\ IsFiniteSet(places) /\ Cardinality(places) \in Nat
           /\ \A i \in places : \E k \in 1..Len(XtAt(s, places)) : XtAt(s, places)[k] = s[i]
BY XtAtPicks, Zenon

\* The first of a sequence.
LEMMA XtFirstIs ==
    ASSUME NEW S, NEW s \in Seq(S), NEW n \in Nat
    PROVE  /\ XtFirst(s, n) \in Seq(S)
           /\ Len(XtFirst(s, n)) = IF Len(s) < n THEN Len(s) ELSE n
           /\ Len(s) <= n => XtFirst(s, n) = s
           /\ \A k \in 1..Len(XtFirst(s, n)) : k \in 1..Len(s) /\ XtFirst(s, n)[k] = s[k]
<1>1. PICK m : m = IF Len(s) < n THEN Len(s) ELSE n
  OBVIOUS
<1>2. m \in Nat /\ m <= Len(s) /\ Len(s) \in Nat
  BY <1>1
<1>3. XtFirst(s, n) = SubSeq(s, 1, m)
  BY <1>1, Zenon DEF XtFirst
<1>4. SubSeq(s, 1, m) \in Seq(S) /\ Len(SubSeq(s, 1, m)) = m
  BY <1>2
<1>5. m = Len(s) => SubSeq(s, 1, m) = s
  BY <1>2
<1>6. \A k \in 1..m : k \in 1..Len(s) /\ SubSeq(s, 1, m)[k] = s[k]
  BY <1>2
<1>. QED BY <1>1, <1>2, <1>3, <1>4, <1>5, <1>6

\* The keys of a sequence of statements.
XtKeysOf(s) == {s[i].key : i \in DOMAIN s}

\* What the filter lets through: the application's statements, unless they are too many.
LEMMA XtFilteredIs ==
    ASSUME NEW raw \in Seq(XtStatements)
    PROVE  /\ XtFiltered(raw) \in Seq(XtStatements)
           /\ IsFiniteSet(XtHits(raw)) /\ Cardinality(XtHits(raw)) \in Nat
           /\ Len(XtFiltered(raw)) = IF Cardinality(XtHits(raw)) < XtFactor * XtCap
                                     THEN Cardinality(XtHits(raw)) ELSE XtFactor * XtCap
           /\ \A k \in DOMAIN XtFiltered(raw) : \E i \in XtHits(raw) : XtFiltered(raw)[k] = raw[i]
           /\ Cardinality(XtHits(raw)) <= XtFactor * XtCap =>
                 \A i \in XtHits(raw) : \E k \in DOMAIN XtFiltered(raw) : XtFiltered(raw)[k] = raw[i]
           /\ ~XtCopied(raw) =>
                 \A k, l \in DOMAIN XtFiltered(raw) : XtFiltered(raw)[k].key = XtFiltered(raw)[l].key => k = l
<1>1. PICK places : places = XtHits(raw)
  OBVIOUS
<1>2. places \in SUBSET (1..Len(raw))
  BY <1>1 DEF XtHits
<1>3. PICK at : at = XtAt(raw, places)
  OBVIOUS
<1>4. /\ at \in Seq(XtStatements) /\ Len(at) = Cardinality(places)
      /\ IsFiniteSet(places) /\ Cardinality(places) \in Nat
      /\ \A i \in places : \E k \in 1..Len(at) : at[k] = raw[i]
  BY <1>2, <1>3, XtAtIs
<1>5. PICK o : XtPicks(o, places, raw, at)
  BY <1>2, <1>3, XtAtPicks
<1>20. /\ o \in Seq(places) /\ Len(o) = Cardinality(places)
       /\ \A k, l \in 1..Len(o) : o[k] = o[l] => k = l
       /\ \A k \in 1..Len(o) : o[k] \in places /\ at[k] = raw[o[k]]
  BY <1>5 DEF XtPicks
<1>6. PICK n : n = XtFactor * XtCap
  OBVIOUS
<1>7. n \in Nat
  <2>1. XtFactor \in Nat /\ XtCap \in Nat
    BY XtAssumption, Zenon
  <2>. QED BY <1>6, <2>1
<1>8. PICK got : got = XtFirst(at, n)
  OBVIOUS
<1>9. /\ got \in Seq(XtStatements)
      /\ Len(got) = IF Len(at) < n THEN Len(at) ELSE n
      /\ Len(at) <= n => got = at
      /\ \A k \in 1..Len(got) : k \in 1..Len(at) /\ got[k] = at[k]
  BY <1>4, <1>7, <1>8, XtFirstIs
<1>10. XtFiltered(raw) = got
  BY <1>1, <1>3, <1>6, <1>8, Zenon DEF XtFiltered
<1>11. DOMAIN got = 1..Len(got)
  BY <1>9
<1>12. ASSUME NEW k \in DOMAIN got PROVE \E i \in places : got[k] = raw[i]
  <2>1. k \in 1..Len(o) /\ got[k] = at[k]
    BY <1>4, <1>9, <1>11, <1>20
  <2>. QED BY <1>20, <2>1, Zenon
<1>13. Cardinality(places) <= n => \A i \in places : \E k \in DOMAIN got : got[k] = raw[i]
  BY <1>4, <1>9, <1>11
<1>14. ASSUME ~XtCopied(raw), NEW k \in DOMAIN got, NEW l \in DOMAIN got, got[k].key = got[l].key
       PROVE  k = l
  <2>1. /\ o[k] \in places /\ o[l] \in places /\ k \in 1..Len(o) /\ l \in 1..Len(o)
        /\ got[k] = raw[o[k]] /\ got[l] = raw[o[l]]
    BY <1>4, <1>20, <1>9, <1>11
  <2>2. raw[o[k]].key = raw[o[l]].key
    BY <1>14, <2>1, Zenon
  <2>3. o[k] = o[l]
    BY <1>1, <1>14, <2>1, <2>2, Zenon DEF XtCopied
  <2>. QED BY <1>20, <2>1, <2>3
<1>. QED BY <1>1, <1>4, <1>6, <1>9, <1>10, <1>12, <1>13, <1>14

\* As many keys as statements, if no two have the same.
LEMMA XtDistinctAre ==
    ASSUME NEW s \in Seq(XtStatements), \A k, l \in DOMAIN s : s[k].key = s[l].key => k = l
    PROVE  Cardinality(XtKeysOf(s)) = Len(s)
<1>1. PICK n \in Nat : n = Len(s) /\ DOMAIN s = 1..n
  OBVIOUS
<1>2. PICK f : f = [k \in 1..n |-> s[k].key]
  OBVIOUS
<1>3. f \in Surjection(1..n, XtKeysOf(s))
  BY <1>1, <1>2 DEF Surjection, XtKeysOf
<1>4. f \in Injection(1..n, XtKeysOf(s))
  BY <1>1, <1>2 DEF Injection, IsInjective, XtKeysOf
<1>5. IsFiniteSet(1..n) /\ Cardinality(1..n) = n
  BY FS_Interval
<1>. QED BY <1>1, <1>3, <1>4, <1>5, FS_Surjection

\* Without duplicates there are as many statements as keys.
LEMMA XtUniqueIs ==
    ASSUME NEW s \in Seq(XtStatements)
    PROVE  /\ XtUnique(s) \in Seq(XtStatements)
           /\ XtKeysOf(XtUnique(s)) = XtKeysOf(s)
           /\ \A k, l \in DOMAIN XtUnique(s) : XtUnique(s)[k].key = XtUnique(s)[l].key => k = l
<1>1. PICK places : places = {i \in DOMAIN s : \A j \in DOMAIN s : s[j].key = s[i].key => i <= j}
  OBVIOUS
<1>2. places \in SUBSET (1..Len(s)) /\ DOMAIN s = 1..Len(s)
  BY <1>1
<1>3. PICK u : u = XtAt(s, places)
  OBVIOUS
<1>4. /\ u \in Seq(XtStatements) /\ Len(u) = Cardinality(places)
      /\ \A i \in places : \E k \in 1..Len(u) : u[k] = s[i]
  BY <1>2, <1>3, XtAtIs
<1>5. PICK o : XtPicks(o, places, s, u)
  BY <1>2, <1>3, XtAtPicks
<1>20. /\ o \in Seq(places) /\ Len(o) = Cardinality(places)
       /\ \A k, l \in 1..Len(o) : o[k] = o[l] => k = l
       /\ \A k \in 1..Len(o) : o[k] \in places /\ u[k] = s[o[k]]
  BY <1>5 DEF XtPicks
<1>6. XtUnique(s) = u
  BY <1>1, <1>3, Zenon DEF XtUnique
<1>7. DOMAIN u = 1..Len(u)
  BY <1>4
<1>8. ASSUME NEW k \in DOMAIN u, NEW l \in DOMAIN u, u[k].key = u[l].key PROVE k = l
  <2>1. /\ k \in 1..Len(o) /\ l \in 1..Len(o) /\ o[k] \in places /\ o[l] \in places
        /\ s[o[k]].key = s[o[l]].key
    BY <1>4, <1>20, <1>7, <1>8
  <2>2. o[k] \in Nat /\ o[l] \in Nat /\ o[k] <= o[l] /\ o[l] <= o[k]
    BY <1>1, <1>2, <2>1
  <2>. QED BY <1>20, <2>1, <2>2
<1>9. ASSUME NEW m \in DOMAIN s PROVE \E k \in DOMAIN u : u[k].key = s[m].key
  <2>1. PICK same : same = {i \in DOMAIN s : s[i].key = s[m].key}
    OBVIOUS
  <2>2. same \in SUBSET Nat /\ same # {}
    BY <1>2, <2>1
  <2>3. PICK i \in same : \A j \in same : i <= j
    BY <2>2, LeastNatural
  <2>4. i \in places /\ s[i].key = s[m].key
    BY <1>1, <2>1, <2>3
  <2>. QED BY <1>4, <1>7, <2>4
<1>10. \A k \in DOMAIN u : \E m \in DOMAIN s : u[k].key = s[m].key
  BY <1>2, <1>4, <1>20, <1>7
<1>11. XtKeysOf(u) = XtKeysOf(s)
  BY <1>9, <1>10 DEF XtKeysOf
<1>. QED BY <1>4, <1>6, <1>8, <1>11

\* What is exported of the statements kept: one for each key, as long as the limit allows.
LEMMA XtExportIs ==
    ASSUME NEW s \in Seq(XtStatements)
    PROVE  /\ XtKeysOf(XtExport(s)) \subseteq XtKeysOf(s)
           /\ Cardinality(XtKeysOf(XtExport(s))) = Len(XtExport(s))
           /\ Len(XtExport(s)) = XtCap \/ XtKeysOf(XtExport(s)) = XtKeysOf(s)
<1>1. PICK u \in Seq(XtStatements) :
        /\ u = XtUnique(s) /\ XtKeysOf(u) = XtKeysOf(s)
        /\ \A k, l \in DOMAIN u : u[k].key = u[l].key => k = l
  BY XtUniqueIs
<1>2. XtCap \in Nat
  BY XtAssumption, Zenon
<1>3. PICK r : r = XtFirst(u, XtCap)
  OBVIOUS
<1>4. /\ r \in Seq(XtStatements)
      /\ Len(r) = IF Len(u) < XtCap THEN Len(u) ELSE XtCap
      /\ Len(u) <= XtCap => r = u
      /\ \A k \in 1..Len(r) : k \in 1..Len(u) /\ r[k] = u[k]
  BY <1>2, <1>3, XtFirstIs
<1>5. XtExport(s) = r
  BY <1>1, <1>3, Zenon DEF XtExport
<1>6. DOMAIN r = 1..Len(r) /\ DOMAIN u = 1..Len(u)
  BY <1>4
<1>7. XtKeysOf(r) \subseteq XtKeysOf(u)
  BY <1>4, <1>6 DEF XtKeysOf
<1>8. ASSUME NEW k \in DOMAIN r, NEW l \in DOMAIN r, r[k].key = r[l].key PROVE k = l
  BY <1>1, <1>4, <1>6, <1>8
<1>9. Cardinality(XtKeysOf(r)) = Len(r)
  BY <1>4, <1>8, XtDistinctAre
<1>10. Len(r) = XtCap \/ r = u
  <2>1. Len(u) \in Nat
    OBVIOUS
  <2>. QED BY <1>2, <1>4, <2>1
<1>. QED BY <1>1, <1>5, <1>7, <1>9, <1>10

\* Never more records than max_log_rows.
LEMMA XtExportBound == ASSUME NEW s \in Seq(XtStatements) PROVE Len(XtExport(s)) <= XtCap
<1>1. PICK u \in Seq(XtStatements) : u = XtUnique(s)
  BY XtUniqueIs
<1>2. XtCap \in Nat
  BY XtAssumption, Zenon
<1>3. Len(XtFirst(u, XtCap)) = IF Len(u) < XtCap THEN Len(u) ELSE XtCap
  BY <1>2, XtFirstIs
<1>4. Len(u) \in Nat
  OBVIOUS
<1>5. XtExport(s) = XtFirst(u, XtCap)
  BY <1>1, Zenon DEF XtExport
<1>. QED BY <1>2, <1>3, <1>4, <1>5

\* The export is a sequence of statements.
LEMMA XtExportTyped ==
    ASSUME NEW s \in Seq(XtStatements) PROVE XtExport(s) \in Seq(XtStatements)
<1>1. PICK u \in Seq(XtStatements) : u = XtUnique(s)
  BY XtUniqueIs
<1>2. XtFirst(u, XtCap) \in Seq(XtStatements)
  BY XtAssumption, XtFirstIs
<1>. QED BY <1>1, <1>2, Zenon DEF XtExport

\* The keys of a sequence are finitely many.
LEMMA XtKeysAre ==
    ASSUME NEW s \in Seq(XtStatements) PROVE IsFiniteSet(XtKeysOf(s))
<1>1. PICK n \in Nat : n = Len(s) /\ DOMAIN s = 1..n
  OBVIOUS
<1>2. IsFiniteSet(1..n)
  BY FS_Interval
<1>3. PICK f : f = [k \in 1..n |-> s[k].key]
  OBVIOUS
<1>4. f \in Surjection(1..n, XtKeysOf(s))
  BY <1>1, <1>3 DEF Surjection, XtKeysOf
<1>. QED BY <1>2, <1>4, FS_Surjection

\* Without copies, the statements that a filter keeps fill the export once there are XtCap.
LEMMA XtFullOf ==
    ASSUME NEW raw \in Seq(XtStatements), ~XtCopied(raw), XtCap <= Cardinality(XtHits(raw))
    PROVE  Len(XtExport(XtFiltered(raw))) = XtCap
<1>1. XtCap \in Nat \ {0} /\ XtFactor \in Nat \ {0}
  BY XtAssumption, Zenon
<1>2. PICK most \in Nat : most = XtFactor * XtCap /\ XtCap <= most
  BY <1>1
<1>3. PICK n \in Nat : n = Cardinality(XtHits(raw)) /\ XtCap <= n
  BY XtFilteredIs
<1>4. PICK kept \in Seq(XtStatements) : kept = XtFiltered(raw)
  BY XtFilteredIs
<1>5. Len(kept) = (IF n < most THEN n ELSE most) /\ XtCap <= Len(kept)
  <2>1. Len(kept) = IF n < most THEN n ELSE most
    BY <1>2, <1>3, <1>4, XtFilteredIs
  <2>. QED BY <1>1, <1>2, <1>3, <2>1
<1>6. \A k, l \in DOMAIN kept : kept[k].key = kept[l].key => k = l
  BY <1>4, XtFilteredIs
<1>7. Cardinality(XtKeysOf(kept)) = Len(kept)
  BY <1>6, XtDistinctAre
<1>8. PICK c \in Nat : c = Len(XtExport(kept))
  <2>1. XtExport(kept) \in Seq(XtStatements)
    BY XtExportTyped
  <2>. QED BY <2>1
<1>9. c = XtCap \/ c = Len(kept)
  BY <1>7, <1>8, XtExportIs
<1>10. c <= XtCap
  BY <1>8, XtExportBound
<1>. QED BY <1>1, <1>4, <1>5, <1>8, <1>9, <1>10

\* What the two sources give.
LEMMA XtRowsAre ==
    ASSUME xtDb \in XtDatabases
    PROVE  XtStoreRows \in Seq(XtStatements) /\ XtCacheRows \in Seq(XtStatements)
<1>1. XtPool \in Nat /\ xtDb.store \in Seq(XtStatements) /\ xtDb.cache \in Seq(Seq(XtStatements))
  BY XtAssumption, Zenon
<1>2. XtStoreRows \in Seq(XtStatements)
  BY <1>1, XtFirstIs DEF XtStoreRows
<1>3. PICK batches \in Seq(Seq(XtStatements)) : batches = XtFirst(xtDb.cache, XtPool)
  BY <1>1, XtFirstIs
<1>4. PICK parts \in Seq(XtStatements) : parts = FlattenSeq(batches)
  BY FlattenIs
<1>5. PICK places : places = {i \in DOMAIN parts : parts[i].kind # "noise"}
  OBVIOUS
<1>6. places \in SUBSET (1..Len(parts))
  BY <1>5
<1>7. XtCacheRows = XtAt(parts, places)
  BY <1>3, <1>4, <1>5, Zenon DEF XtCacheRows, XtParts
<1>. QED BY <1>2, <1>6, <1>7, XtAtIs

\* The keys of one sequence after the other.
LEMMA XtKeysOfBoth ==
    ASSUME NEW a \in Seq(XtStatements), NEW b \in Seq(XtStatements)
    PROVE  XtKeysOf(a \o b) = XtKeysOf(a) \cup XtKeysOf(b)
<1>1. PICK both : both = a \o b
  OBVIOUS
<1>2. PICK n \in Nat, m \in Nat : n = Len(a) /\ m = Len(b)
  OBVIOUS
<1>3. DOMAIN both = 1..(n + m) /\ DOMAIN a = 1..n /\ DOMAIN b = 1..m
  BY <1>1, <1>2
<1>4. \A i \in 1..n : i \in 1..(n + m) /\ both[i] = a[i]
  BY <1>1, <1>2
<1>5. \A i \in 1..m : i + n \in 1..(n + m) /\ both[i + n] = b[i]
  BY <1>1, <1>2
<1>6. \A k \in 1..(n + m) : \/ k \in 1..n \/ (k - n \in 1..m /\ k = (k - n) + n)
  OBVIOUS
<1>7. XtKeysOf(a) \cup XtKeysOf(b) \subseteq XtKeysOf(both)
  BY <1>3, <1>4, <1>5 DEF XtKeysOf
<1>8. ASSUME NEW k \in 1..(n + m)
      PROVE  both[k].key \in XtKeysOf(a) \cup XtKeysOf(b)
  <2>1. CASE k \in 1..n
    BY <1>3, <1>4, <2>1 DEF XtKeysOf
  <2>2. CASE k - n \in 1..m
    <3>1. PICK i \in 1..m : i = k - n
      BY <2>2
    <3>2. both[k] = b[i]
      BY <1>5, <3>1
    <3>. QED BY <1>3, <3>2 DEF XtKeysOf
  <2>. QED BY <1>6, <2>1, <2>2
<1>9. XtKeysOf(both) \subseteq XtKeysOf(a) \cup XtKeysOf(b)
  BY <1>3, <1>8 DEF XtKeysOf
<1>. QED BY <1>1, <1>7, <1>9

\* The keys of what the filter lets through: the application's queries among the rows.
LEMMA XtKeysFiltered ==
    ASSUME NEW raw \in Seq(XtStatements)
    PROVE  /\ XtKeysOf(XtFiltered(raw)) \subseteq XtQueries(raw)
           /\ Cardinality(XtHits(raw)) <= XtFactor * XtCap =>
                 XtQueries(raw) \subseteq XtKeysOf(XtFiltered(raw))
<1>1. XtQueries(raw) = {raw[i].key : i \in XtHits(raw)}
  BY DEF XtQueries, XtHits, ToSet
<1>2. PICK got : got = XtFiltered(raw)
  OBVIOUS
<1>3. /\ \A k \in DOMAIN got : \E i \in XtHits(raw) : got[k] = raw[i]
      /\ Cardinality(XtHits(raw)) <= XtFactor * XtCap =>
            \A i \in XtHits(raw) : \E k \in DOMAIN got : got[k] = raw[i]
  BY <1>2, XtFilteredIs
<1>. QED BY <1>1, <1>2, <1>3 DEF XtKeysOf

\* The rows fetched hold no other query than the sources remember, and hold all of them
\* when they are all the rows.
LEMMA XtFetchedIs ==
    ASSUME xtDb \in XtDatabases
    PROVE  XtFetched \subseteq XtWorkload /\ (~XtOverflow => XtWorkload \subseteq XtFetched)
<1>1. XtPool \in Nat /\ xtDb.store \in Seq(XtStatements) /\ xtDb.cache \in Seq(Seq(XtStatements))
  BY XtAssumption, Zenon
<1>2. PICK store \in Seq(XtStatements), cache \in Seq(Seq(XtStatements)) :
        store = xtDb.store /\ cache = xtDb.cache
  BY <1>1
<1>3. PICK rows : rows = XtFirst(store, XtPool)
  OBVIOUS
<1>4. /\ rows \in Seq(XtStatements) /\ (Len(store) <= XtPool => rows = store)
      /\ ToSet(rows) \subseteq ToSet(store)
  <2>1. /\ rows \in Seq(XtStatements) /\ (Len(store) <= XtPool => rows = store)
        /\ \A k \in 1..Len(rows) : k \in 1..Len(store) /\ rows[k] = store[k]
    BY <1>1, <1>3, XtFirstIs
  <2>. QED BY <2>1 DEF ToSet
<1>5. PICK batches : batches = XtFirst(cache, XtPool)
  OBVIOUS
<1>6. /\ batches \in Seq(Seq(XtStatements)) /\ (Len(cache) <= XtPool => batches = cache)
      /\ \A k \in 1..Len(batches) : k \in 1..Len(cache) /\ batches[k] = cache[k]
  BY <1>1, <1>5, XtFirstIs
<1>7. PICK all \in Seq(XtStatements) : all = FlattenSeq(cache)
  BY FlattenIs
<1>8. PICK parts : parts = FlattenSeq(batches)
  OBVIOUS
<1>15. parts \in Seq(XtStatements)
  BY <1>6, <1>8, FlattenIs, Zenon
<1>9. ToSet(parts) \subseteq ToSet(all)
  <2>1. \A i \in 1..Len(cache) : ToSet(cache[i]) \subseteq ToSet(all)
    BY <1>7, FlattenIs, Zenon
  <2>2. PICK T : T = ToSet(all)
    OBVIOUS
  <2>3. ASSUME NEW k \in 1..Len(batches) PROVE batches[k] \in Seq(T)
    <3>1. k \in 1..Len(cache) /\ batches[k] = cache[k]
      BY <1>6
    <3>2. PICK batch \in Seq(XtStatements) : batch = cache[k]
      BY <3>1
    <3>3. ToSet(batch) \subseteq T
      BY <2>1, <2>2, <3>1, <3>2, Zenon
    <3>4. \A i \in 1..Len(batch) : batch[i] \in T
      BY <3>3 DEF ToSet
    <3>5. batch \in Seq(T)
      <4>1. Len(batch) \in Nat /\ batch = [i \in 1..Len(batch) |-> batch[i]]
        OBVIOUS
      <4>. QED BY <3>4, <4>1
    <3>. QED BY <3>1, <3>2, <3>5, Zenon
  <2>4. batches \in Seq(Seq(T))
    BY <1>6, <2>3
  <2>5. parts \in Seq(T)
    BY <1>8, <2>4, FlattenIs, Zenon
  <2>. QED BY <2>2, <2>5 DEF ToSet
<1>10. XtQueries(XtCacheRows) = XtQueries(parts)
  <2>1. PICK places : places = {i \in DOMAIN parts : parts[i].kind # "noise"}
    OBVIOUS
  <2>2. places \in SUBSET (1..Len(parts)) /\ DOMAIN parts = 1..Len(parts)
    BY <2>1
  <2>3. PICK left : left = XtAt(parts, places)
    OBVIOUS
  <2>4. XtCacheRows = left
    BY <1>2, <1>5, <1>8, <2>1, <2>3, Zenon DEF XtCacheRows, XtParts
  <2>5. /\ left \in Seq(XtStatements) /\ Len(left) = Cardinality(places)
        /\ \A i \in places : \E k \in 1..Len(left) : left[k] = parts[i]
    BY <1>15, <2>2, <2>3, XtAtIs
  <2>6. PICK o : XtPicks(o, places, parts, left)
    BY <1>15, <2>2, <2>3, XtAtPicks
  <2>20. /\ o \in Seq(places) /\ Len(o) = Cardinality(places)
         /\ \A k, l \in 1..Len(o) : o[k] = o[l] => k = l
         /\ \A k \in 1..Len(o) : o[k] \in places /\ left[k] = parts[o[k]]
    BY <2>6 DEF XtPicks
  <2>7. DOMAIN left = 1..Len(left)
    BY <2>5
  <2>8. \A k \in DOMAIN left : \E i \in DOMAIN parts : left[k] = parts[i]
    BY <2>1, <2>5, <2>20, <2>7
  <2>9. \A i \in DOMAIN parts : parts[i].kind = "app" => \E k \in DOMAIN left : left[k] = parts[i]
    BY <2>1, <2>5, <2>7
  <2>. QED BY <2>4, <2>8, <2>9 DEF XtQueries, XtApplication, ToSet
<1>11. XtQueries(rows) \subseteq XtQueries(store) /\ XtQueries(parts) \subseteq XtQueries(all)
  BY <1>4, <1>9 DEF XtQueries
<1>12. XtStoreRows = rows
  BY <1>2, <1>3, Zenon DEF XtStoreRows
<1>13. /\ XtWorkload = (IF xtDb.on THEN XtQueries(store) ELSE {}) \cup XtQueries(all)
       /\ XtFetched = (IF xtDb.on THEN XtQueries(rows) ELSE {}) \cup XtQueries(parts)
  BY <1>2, <1>7, <1>10, <1>12, Zenon DEF XtWorkload, XtFetched
<1>14. ASSUME ~XtOverflow
       PROVE  (xtDb.on => rows = store) /\ parts = all
  <2>1. (xtDb.on => ~(Len(store) > XtPool)) /\ ~(Len(cache) > XtPool)
    BY <1>2, <1>14, Zenon DEF XtOverflow
  <2>2. Len(store) \in Nat /\ Len(cache) \in Nat
    OBVIOUS
  <2>3. (xtDb.on => Len(store) <= XtPool) /\ Len(cache) <= XtPool
    BY <1>1, <2>1, <2>2
  <2>4. (xtDb.on => rows = store) /\ batches = cache
    BY <1>4, <1>6, <2>3, Zenon
  <2>. QED BY <1>7, <1>8, <2>4, Zenon
<1>16. PICK q, r, t, w : /\ q = XtQueries(store) /\ r = XtQueries(rows)
                        /\ t = XtQueries(all) /\ w = XtQueries(parts)
  OBVIOUS
<1>17. /\ XtWorkload = (IF xtDb.on THEN q ELSE {}) \cup t /\ XtFetched = (IF xtDb.on THEN r ELSE {}) \cup w
       /\ r \subseteq q /\ w \subseteq t
  BY <1>11, <1>13, <1>16, Zenon
<1>18. ~XtOverflow => (xtDb.on => q = r) /\ t = w
  BY <1>14, <1>16, Zenon
<1>. QED BY <1>17, <1>18

\* What was kept: of Query Store what does not fill the export, until the plan cache has
\* been read too; what was exported, of which sources.
XtSources(kept) ==
    \/ xtDb.on /\ kept = XtFiltered(XtStoreRows) /\ Len(kept) >= XtCap
    \/ ~xtDb.on /\ kept = XtFiltered(XtCacheRows)
    \/ /\ xtDb.on /\ Len(XtFiltered(XtStoreRows)) < XtCap
       /\ kept = XtFiltered(XtStoreRows) \o XtFiltered(XtCacheRows)
\* The inductive invariant of an extraction.
XtInv ==
    /\ xtDb \in XtDatabases
    /\ xtPc = "supplement" => /\ xtDb.on /\ xtKept = XtFiltered(XtStoreRows)
                              /\ Len(xtKept) < XtCap
    /\ xtPc = "done" /\ ~xtFailed /\ xtOut.tables # {} =>
          XtSources(xtKept) /\ xtRecords = XtExport(xtKept)

\* The inductive invariant of an extraction.
THEOREM XtInvHolds == XtSpec => []XtInv
<1>1. XtInit => XtInv
  BY DEF XtInit, XtInv
<1>2. XtInv /\ [XtNext]_xtVars => XtInv'
  <2>. SUFFICES ASSUME XtInv, [XtNext]_xtVars PROVE XtInv'
    OBVIOUS
  <2>1. ASSUME UNCHANGED xtDb
        PROVE  /\ XtStoreRows' = XtStoreRows /\ XtCacheRows' = XtCacheRows
               /\ XtSources(xtKept') => XtSources(xtKept)'
    BY <2>1 DEF XtStoreRows, XtCacheRows, XtSources
  <2>2. ASSUME UNCHANGED xtDb, xtPc' \notin {"supplement", "done"} PROVE XtInv'
    BY <2>2 DEF XtInv
  <2>3. CASE XtConnectForTables
    BY <2>2, <2>3 DEF XtConnectForTables, XtConnect, XtGo
  <2>4. CASE XtListTables
    BY <2>2, <2>4 DEF XtListTables, XtGo
  <2>5. CASE XtDescribeTable
    <3>1. UNCHANGED xtDb /\ xtPc' \in {"table", "logs"}
      BY <2>5, Zenon DEF XtDescribeTable, XtGo
    <3>. QED BY <2>2, <3>1
  <2>6. CASE XtForeignKeys
    <3>1. UNCHANGED xtDb /\ xtPc' = "logs"
      BY <2>6, Zenon DEF XtForeignKeys, XtGo
    <3>. QED BY <2>2, <3>1
  <2>7. CASE XtConnectForLogs
    <3>1. UNCHANGED <<xtDb, xtOut>>
      BY <2>7, Zenon DEF XtConnectForLogs, XtConnect, XtGo
    <3>2. CASE xtOut.tables = {}
      <4>1. xtPc' = "done"
        BY <2>7, <3>2, Zenon DEF XtConnectForLogs, XtGo
      <4>. QED BY <3>1, <3>2, <4>1 DEF XtInv
    <3>3. CASE xtOut.tables # {}
      <4>1. xtPc' \in {"source", "done"} /\ xtFailed' = (xtPc' = "done")
        BY <2>7, <3>3, Zenon DEF XtConnectForLogs, XtConnect, XtGo
      <4>2. CASE xtPc' = "source"
        BY <2>2, <3>1, <4>2
      <4>3. CASE xtPc' = "done"
        BY <3>1, <4>1, <4>3 DEF XtInv
      <4>. QED BY <4>1, <4>2, <4>3
    <3>. QED BY <3>2, <3>3
  <2>8. CASE XtLogError
    BY <2>8 DEF XtLogError, XtGo, XtInv
  <2>9. CASE XtReadSource
    <3>1. PICK on \in {xtDb.on, FALSE} :
            LET kept == XtFiltered(IF on THEN XtStoreRows ELSE XtCacheRows)
            IN  /\ xtKept' = kept
                /\ IF on /\ XtSparse(kept) THEN XtGo("supplement") /\ UNCHANGED xtRecords
                   ELSE XtGo("done") /\ xtRecords' = XtExport(kept)
                /\ xtFailed' = (on # xtDb.on)
      BY <2>9, Zenon DEF XtReadSource
    <3>2. PICK kept : kept = XtFiltered(IF on THEN XtStoreRows ELSE XtCacheRows)
      OBVIOUS
    <3>3. /\ xtKept' = kept
          /\ IF on /\ XtSparse(kept) THEN XtGo("supplement") /\ UNCHANGED xtRecords
             ELSE XtGo("done") /\ xtRecords' = XtExport(kept)
          /\ xtFailed' = (on # xtDb.on)
      BY <3>1, <3>2, Zenon
    <3>4. UNCHANGED xtDb /\ xtDb.on \in BOOLEAN /\ xtDb \in XtDatabases
      <4>1. UNCHANGED xtDb
        BY <3>3, Zenon DEF XtGo
      <4>. QED BY <4>1, XtAssumption, Zenon DEF XtInv
    <3>5. XtCap \in Nat /\ Len(XtFiltered(XtStoreRows)) \in Nat
      <4>1. XtFiltered(XtStoreRows) \in Seq(XtStatements)
        BY <3>4, XtRowsAre, XtFilteredIs
      <4>2. XtCap \in Nat
        BY XtAssumption, Zenon
      <4>. QED BY <4>1, <4>2
    <3>6. CASE on /\ XtSparse(kept)
      <4>1. xtDb.on /\ kept = XtFiltered(XtStoreRows) /\ Len(kept) < XtCap
        BY <3>2, <3>4, <3>6, Zenon DEF XtSparse
      <4>2. xtPc' = "supplement"
        BY <3>3, <3>6, Zenon DEF XtGo
      <4>. QED BY <2>1, <3>3, <3>4, <4>1, <4>2 DEF XtInv
    <3>7. CASE ~(on /\ XtSparse(kept))
      <4>1. xtPc' = "done" /\ xtRecords' = XtExport(kept)
        BY <3>3, <3>7, Zenon DEF XtGo
      <4>2. ASSUME ~xtFailed' PROVE XtSources(kept)
        <5>1. on = xtDb.on
          BY <3>3, <4>2, Zenon
        <5>2. CASE on
          <6>1. kept = XtFiltered(XtStoreRows) /\ ~(Len(kept) < XtCap)
            BY <3>2, <3>7, <5>2, Zenon DEF XtSparse
          <6>. QED BY <3>5, <5>1, <5>2, <6>1 DEF XtSources
        <5>3. CASE ~on
          <6>1. kept = XtFiltered(XtCacheRows)
            BY <3>2, <5>3, Zenon
          <6>. QED BY <5>1, <5>3, <6>1, Zenon DEF XtSources
        <5>. QED BY <5>2, <5>3
      <4>3. XtExport(xtKept)' = XtExport(xtKept')
        BY DEF XtExport, XtUnique, XtFirst, XtAt
      <4>4. ASSUME ~xtFailed' PROVE XtSources(xtKept)' /\ xtRecords' = XtExport(xtKept)'
        <5>1. XtSources(xtKept') /\ xtRecords' = XtExport(xtKept')
          BY <3>3, <4>1, <4>2, <4>4
        <5>. QED BY <2>1, <3>4, <4>3, <5>1
      <4>. QED BY <3>4, <4>1, <4>4 DEF XtInv
    <3>. QED BY <3>6, <3>7
  <2>10. CASE XtSupplement
    <3>1. /\ xtPc = "supplement" /\ xtPc' = "done" /\ UNCHANGED xtDb
          /\ xtKept' = xtKept \o XtFiltered(XtCacheRows) /\ xtRecords' = XtExport(xtKept')
      BY <2>10, Zenon DEF XtSupplement, XtGo
    <3>2. XtSources(xtKept')
      BY <3>1 DEF XtInv, XtSources
    <3>3. XtExport(xtKept)' = XtExport(xtKept')
      BY DEF XtExport, XtUnique, XtFirst, XtAt
    <3>4. XtSources(xtKept)' /\ xtRecords' = XtExport(xtKept)'
      BY <2>1, <3>1, <3>2, <3>3
    <3>. QED BY <3>1, <3>4 DEF XtInv
  <2>11. CASE UNCHANGED xtVars
    BY <2>1, <2>11 DEF xtVars, XtInv
  <2>. QED BY <2>3, <2>4, <2>5, <2>6, <2>7, <2>8, <2>9, <2>10, <2>11 DEF XtNext
<1>. QED BY <1>1, <1>2, PTL DEF XtSpec

(* The workload of a live database: for any Query Store and plan cache, any limits, and  *)
(* whichever of the probe, the connections and the statements fail, an extraction that   *)
(* ended well has exported queries that the server remembers, each once, and lacks one   *)
(* only if the export is full, or copies reach a limit that counts them, or the server   *)
(* remembers more rows than are fetched and the query is not among those.                *)
THEOREM XtNothingMissedHolds == XtSpec => []XtNothingMissed
<1>1. XtInv => XtNothingMissed
  <2>. SUFFICES ASSUME XtInv, xtPc = "done", ~xtFailed, xtOut.tables # {}
                PROVE  /\ XtExported \subseteq XtWorkload
                       /\ Cardinality(XtExported) = Len(xtRecords)
                       /\ \/ XtWorkload \subseteq XtExported
                          \/ Len(xtRecords) = XtCap
                          \/ XtCrowded
                          \/ XtOverflow /\ XtFetched \subseteq XtExported
    BY Zenon DEF XtNothingMissed
  <2>1. PICK kept : XtSources(kept) /\ xtRecords = XtExport(kept)
    BY Zenon DEF XtInv
  <2>2. PICK store \in Seq(XtStatements), cache \in Seq(XtStatements) :
          store = XtStoreRows /\ cache = XtCacheRows
    BY XtRowsAre DEF XtInv
  <2>3. PICK n \in Nat, m \in Nat : n = Cardinality(XtHits(store)) /\ m = Cardinality(XtHits(cache))
    BY XtFilteredIs
  <2>4. XtCap \in Nat \ {0} /\ XtFactor \in Nat \ {0}
    BY XtAssumption, Zenon
  <2>5. PICK most \in Nat : most = XtFactor * XtCap /\ XtCap <= most
    BY <2>4
  <2>6. PICK a \in Seq(XtStatements), b \in Seq(XtStatements) :
          a = XtFiltered(store) /\ b = XtFiltered(cache)
    BY XtFilteredIs
  <2>7. /\ XtKeysOf(a) \subseteq XtQueries(store) /\ (n <= most => XtQueries(store) \subseteq XtKeysOf(a))
        /\ XtKeysOf(b) \subseteq XtQueries(cache) /\ (m <= most => XtQueries(cache) \subseteq XtKeysOf(b))
    BY <2>3, <2>5, <2>6, XtKeysFiltered, Zenon
  <2>8. Len(a) = (IF n < most THEN n ELSE most) /\ Len(b) = (IF m < most THEN m ELSE most)
    BY <2>3, <2>5, <2>6, XtFilteredIs
  <2>18. Len(a) <= n /\ Len(b) <= m /\ (Len(a) < most => Len(a) = n) /\ (m > most => Len(b) = most)
    BY <2>5, <2>3, <2>8
  <2>9. XtFetched = (IF xtDb.on THEN XtQueries(store) ELSE {}) \cup XtQueries(cache)
    BY <2>2, Zenon DEF XtFetched
  <2>10. \/ xtDb.on /\ kept = a /\ XtCap <= Len(a)
         \/ ~xtDb.on /\ kept = b
         \/ xtDb.on /\ Len(a) < XtCap /\ kept = a \o b
    <3>1. Len(a) \in Nat
      OBVIOUS
    <3>2. \/ xtDb.on /\ kept = a /\ Len(a) >= XtCap
          \/ ~xtDb.on /\ kept = b
          \/ xtDb.on /\ Len(a) < XtCap /\ kept = a \o b
      BY <2>1, <2>2, <2>6, Zenon DEF XtSources
    <3>. QED BY <2>4, <3>1, <3>2
  <2>11. XtKeysOf(a \o b) = XtKeysOf(a) \cup XtKeysOf(b)
    BY XtKeysOfBoth
  <2>17. XtKeysOf(a) \subseteq XtQueries(store) /\ XtKeysOf(b) \subseteq XtQueries(cache)
    BY <2>7, Zenon
  <2>12. kept \in Seq(XtStatements) /\ XtKeysOf(kept) \subseteq XtFetched
    <3>1. CASE xtDb.on /\ kept = a
      BY <2>9, <2>17, <3>1
    <3>2. CASE ~xtDb.on /\ kept = b
      BY <2>9, <2>17, <3>2
    <3>3. CASE xtDb.on /\ kept = a \o b
      <4>1. kept \in Seq(XtStatements)
        BY <3>3
      <4>2. XtKeysOf(kept) = XtKeysOf(a) \cup XtKeysOf(b)
        BY <2>11, <3>3, Zenon
      <4>. QED BY <2>9, <2>17, <3>3, <4>1, <4>2
    <3>. QED BY <2>10, <3>1, <3>2, <3>3
  <2>13. XtExported = XtKeysOf(xtRecords)
    BY DEF XtExported, XtKeysOf
  <2>14. /\ XtExported \subseteq XtKeysOf(kept)
         /\ Cardinality(XtExported) = Len(xtRecords)
         /\ Len(xtRecords) = XtCap \/ XtExported = XtKeysOf(kept)
    BY <2>1, <2>12, <2>13, XtExportIs
  <2>15. XtFetched \subseteq XtWorkload /\ (~XtOverflow => XtWorkload \subseteq XtFetched)
    BY XtFetchedIs DEF XtInv
  <2>16. ASSUME ~XtCrowded, Len(xtRecords) # XtCap PROVE XtFetched \subseteq XtKeysOf(kept)
    <3>1. xtDb.on => n < XtCap \/ ~XtCopied(store)
      <4>1. ~(xtDb.on /\ n >= XtCap /\ XtCopied(store))
        BY <2>2, <2>3, <2>16, Zenon DEF XtCrowded
      <4>. QED BY <2>4, <4>1
    <3>2. m <= most \/ ~XtCopied(cache)
      <4>1. ~(m > most /\ XtCopied(cache))
        BY <2>2, <2>3, <2>5, <2>16, Zenon DEF XtCrowded
      <4>. QED BY <4>1
    <3>3. CASE xtDb.on /\ kept = a /\ XtCap <= Len(a)
      <4>1. XtCap <= n
        <5>1. PICK l \in Nat : l = Len(a)
          OBVIOUS
        <5>2. XtCap <= l /\ l <= n
          BY <2>18, <3>3, <5>1, Zenon
        <5>. QED BY <2>3, <2>4, <5>1, <5>2
      <4>2. ~XtCopied(store)
        BY <2>4, <3>1, <3>3, <4>1
      <4>3. Len(xtRecords) = XtCap
        BY <2>1, <2>3, <2>6, <3>3, <4>1, <4>2, XtFullOf
      <4>. QED BY <2>16, <4>3
    <3>4. CASE ~xtDb.on /\ kept = b
      <4>1. CASE m <= most
        <5>1. XtQueries(cache) \subseteq XtKeysOf(kept)
          BY <2>7, <3>4, <4>1, Zenon
        <5>. QED BY <2>9, <3>4, <5>1
      <4>2. CASE ~(m <= most)
        <5>1. ~XtCopied(cache) /\ XtCap <= m
          BY <2>4, <2>5, <3>2, <4>2
        <5>2. Len(xtRecords) = XtCap
          BY <2>1, <2>3, <2>6, <3>4, <5>1, XtFullOf
        <5>. QED BY <2>16, <5>2
      <4>. QED BY <4>1, <4>2
    <3>5. CASE xtDb.on /\ Len(a) < XtCap /\ kept = a \o b
      <4>1. n <= most
        <5>1. PICK l \in Nat : l = Len(a)
          OBVIOUS
        <5>2. l < XtCap /\ (l < most => l = n)
          BY <2>18, <3>5, <5>1, Zenon
        <5>. QED BY <2>3, <2>4, <2>5, <5>1, <5>2
      <4>4. XtQueries(store) \subseteq XtKeysOf(a)
        BY <2>7, <4>1, Zenon
      <4>5. XtKeysOf(kept) = XtKeysOf(a) \cup XtKeysOf(b)
        BY <2>11, <3>5, Zenon
      <4>2. CASE m <= most
        <5>1. XtQueries(cache) \subseteq XtKeysOf(b)
          BY <2>7, <4>2, Zenon
        <5>. QED BY <2>9, <3>5, <4>4, <4>5, <5>1
      <4>3. CASE ~(m <= most)
        <5>1. ~XtCopied(cache) /\ Len(b) = most
          BY <2>3, <2>5, <2>18, <3>2, <4>3
        <5>2. Cardinality(XtKeysOf(b)) = most
          BY <2>6, <5>1, XtFilteredIs, XtDistinctAre
        <5>3. XtKeysOf(b) \subseteq XtKeysOf(kept)
          BY <4>5
        <5>4. XtExported = XtKeysOf(kept)
          BY <2>14, <2>16
        <5>5. most <= Cardinality(XtKeysOf(kept))
          <6>1. IsFiniteSet(XtKeysOf(kept))
            BY <2>12, XtKeysAre, Zenon
          <6>2. Cardinality(XtKeysOf(b)) <= Cardinality(XtKeysOf(kept))
            BY <5>3, <6>1, FS_Subset
          <6>. QED BY <5>2, <6>2, Zenon
        <5>6. PICK c \in Nat : c = Len(xtRecords) /\ c <= XtCap
          <6>1. xtRecords \in Seq(XtStatements) /\ Len(xtRecords) <= XtCap
            BY <2>1, <2>12, XtExportBound, XtExportTyped, Zenon
          <6>. QED BY <6>1
        <5>7. most <= c
          <6>1. c = Cardinality(XtKeysOf(kept))
            BY <2>14, <5>4, <5>6, Zenon
          <6>. QED BY <5>5, <6>1
        <5>8. c = XtCap
          <6>1. XtCap <= most
            BY <2>5, Zenon
          <6>2. XtCap \in Nat
            BY <2>4
          <6>. QED BY <5>6, <5>7, <6>1, <6>2
        <5>. QED BY <2>16, <5>6, <5>8, Zenon
      <4>. QED BY <4>2, <4>3
    <3>. QED BY <2>10, <3>3, <3>4, <3>5
  <2>. QED BY <2>12, <2>14, <2>15, <2>16
<1>. QED BY <1>1, XtInvHolds, PTL

\* The tables described, what was kept, and how much of it is exported.
XtOutShape(r) ==
    r = [tables |-> r.tables, keys |-> r.keys] /\ r.tables \subseteq XtTables \ XtBare
XtRanges ==
    /\ xtPc \in {"connect", "list", "table", "logs", "source", "supplement", "done"}
    /\ xtTodo \subseteq XtTables /\ XtOutShape(xtOut)
    /\ xtKept \in Seq(XtStatements)
    /\ Len(xtRecords) <= XtCap
    /\ xtFaults \in Nat /\ xtFaults <= XtMaxFaults

LEMMA XtTablesStep ==
    ASSUME XtRanges, XtConnectForTables \/ XtListTables \/ XtDescribeTable \/ XtForeignKeys
                        \/ XtConnectForLogs \/ XtLogError
    PROVE  XtRanges'
<1>0. XtMaxFaults \in Nat
  BY XtAssumption, Zenon
<1>1. UNCHANGED <<xtKept, xtRecords>>
  BY DEF XtConnectForTables, XtListTables, XtDescribeTable, XtForeignKeys, XtConnectForLogs, XtLogError
<1>2. xtFaults' \in Nat /\ xtFaults' <= XtMaxFaults
  <2>1. xtFaults' = xtFaults \/ XtFault(1) \/ XtFault(2)
    BY Zenon DEF XtConnectForTables, XtConnect, XtListTables, XtDescribeTable, XtForeignKeys,
                 XtConnectForLogs, XtLogError
  <2>. QED BY <1>0, <2>1 DEF XtFault, XtRanges
<1>3. xtPc' \in {"connect", "list", "table", "logs", "source", "supplement", "done"}
  BY Zenon DEF XtConnectForTables, XtConnect, XtListTables, XtDescribeTable, XtForeignKeys,
               XtConnectForLogs, XtLogError, XtGo
<1>4. xtTodo' \subseteq XtTables
  <2>1. xtTodo' = xtTodo \/ xtTodo' = XtTables \/ \E t : xtTodo' = xtTodo \ {t}
    BY Zenon DEF XtConnectForTables, XtListTables, XtDescribeTable, XtForeignKeys, XtConnectForLogs,
                 XtLogError
  <2>. QED BY <2>1 DEF XtRanges
<1>5. XtOutShape(xtOut')
  <2>1. PICK r, s : r = xtOut /\ s = xtOut'
    OBVIOUS
  <2>2. XtOutShape(r)
    BY <2>1 DEF XtRanges
  <2>3. CASE XtDescribeTable
    <3>1. PICK t \in xtTodo : s = [r EXCEPT !.tables = @ \cup ({t} \ XtBare)] \/ s = r
      BY <2>1, <2>3, Zenon DEF XtDescribeTable
    <3>2. t \in XtTables
      BY <3>1 DEF XtRanges
    <3>. QED BY <2>1, <2>2, <3>1, <3>2 DEF XtOutShape
  <2>4. CASE XtForeignKeys
    <3>1. s = [r EXCEPT !.keys = r.tables # {}] \/ s = r
      BY <2>1, <2>4, Zenon DEF XtForeignKeys
    <3>. QED BY <2>1, <2>2, <3>1 DEF XtOutShape
  <2>5. CASE XtConnectForTables \/ XtListTables \/ XtConnectForLogs \/ XtLogError
    <3>1. UNCHANGED xtOut
      BY <2>5 DEF XtConnectForTables, XtListTables, XtConnectForLogs, XtLogError
    <3>. QED BY <2>1, <2>2, <3>1
  <2>. QED BY <2>3, <2>4, <2>5
<1>6. XtOutShape(xtOut)'
  BY <1>5 DEF XtOutShape
<1>. QED BY <1>1, <1>2, <1>3, <1>4, <1>6 DEF XtRanges

LEMMA XtSourcesStep ==
    ASSUME XtInv, XtRanges, XtReadSource \/ XtSupplement
    PROVE  XtRanges'
<1>0. XtMaxFaults \in Nat
  BY XtAssumption, Zenon
<1>1. UNCHANGED <<xtTodo, xtOut>>
  BY DEF XtReadSource, XtSupplement
<1>2. xtPc' \in {"supplement", "done"}
  BY Zenon DEF XtReadSource, XtSupplement, XtGo
<1>3. xtFaults' \in Nat /\ xtFaults' <= XtMaxFaults
  <2>1. xtFaults' = xtFaults \/ XtFault(1)
    BY Zenon DEF XtReadSource, XtSupplement
  <2>. QED BY <1>0, <2>1 DEF XtFault, XtRanges
<1>4. XtStoreRows \in Seq(XtStatements) /\ XtCacheRows \in Seq(XtStatements)
  BY XtRowsAre DEF XtInv
<1>5. xtKept' \in Seq(XtStatements)
  <2>1. CASE XtReadSource
    <3>1. xtKept' = XtFiltered(XtStoreRows) \/ xtKept' = XtFiltered(XtCacheRows)
      BY <2>1, Zenon DEF XtReadSource
    <3>. QED BY <1>4, <3>1, XtFilteredIs
  <2>2. CASE XtSupplement
    <3>1. PICK more \in Seq(XtStatements) : more = XtFiltered(XtCacheRows)
      BY <1>4, XtFilteredIs
    <3>2. xtKept' = xtKept \o more
      BY <2>2, <3>1, Zenon DEF XtSupplement
    <3>. QED BY <3>2 DEF XtRanges
  <2>. QED BY <2>1, <2>2
<1>6. Len(xtRecords') <= XtCap
  <2>1. xtRecords' = xtRecords \/ xtRecords' = XtExport(xtKept')
    BY Zenon DEF XtReadSource, XtSupplement
  <2>. QED BY <1>5, <2>1, XtExportBound DEF XtRanges
<1>7. XtOutShape(xtOut)'
  BY <1>1 DEF XtRanges, XtOutShape
<1>. QED BY <1>1, <1>2, <1>3, <1>5, <1>6, <1>7 DEF XtRanges

\* The types of an extraction, for any database and limits (SchemaExtract).
THEOREM XtTypesHold == XtSpec => []XtTypeOK
<1>1. XtInit => XtRanges
  <2>. SUFFICES ASSUME XtInit PROVE XtRanges
    OBVIOUS
  <2>1. XtCap \in Nat /\ XtMaxFaults \in Nat
    BY XtAssumption, Zenon
  <2>2. /\ xtPc = "connect" /\ xtTodo = {} /\ xtOut = [tables |-> {}, keys |-> FALSE]
        /\ xtKept = <<>> /\ xtRecords = <<>> /\ xtFaults = 0
    BY DEF XtInit
  <2>3. XtOutShape(xtOut)
    BY <2>2 DEF XtOutShape
  <2>. QED BY <2>1, <2>2, <2>3 DEF XtRanges
<1>2. XtInv /\ XtRanges /\ [XtNext]_xtVars => XtRanges'
  <2>. SUFFICES ASSUME XtInv, XtRanges, [XtNext]_xtVars PROVE XtRanges'
    OBVIOUS
  <2>1. CASE UNCHANGED xtVars
    BY <2>1 DEF xtVars, XtRanges, XtOutShape
  <2>. QED BY <2>1, XtTablesStep, XtSourcesStep DEF XtNext
<1>3. XtRanges => XtTypeOK
  BY DEF XtRanges, XtOutShape, XtTypeOK
<1>. QED BY <1>1, <1>2, <1>3, XtInvHolds, PTL DEF XtSpec
=============================================================================
