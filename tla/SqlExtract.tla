------------------------------ MODULE SqlExtract ------------------------------
(***************************************************************************)
(* Which columns of which tables a logged statement reads. The parser      *)
(* backend walks SQLGlot's tree of it, every SELECT for itself and a       *)
(* subquery once more with the SELECT around it. What SQLGlot cannot parse *)
(* is searched with regular expressions, as is everything when the         *)
(* environment says so. SQLGlot's parser is external. How often a column   *)
(* occurs, and in which role, is left out: an answer is a set of columns;  *)
(* so is the column list of an INSERT, and ORDER BY.                       *)
(***************************************************************************)
EXTENDS Naturals, Sequences, SequencesExt

CONSTANTS
    SxTables,     \* table names in statements
    SxQualified,  \* the ones with a schema
    SxShort,      \* table -> its name without the schema
    SxStatements  \* [kind, parses, outer, in, inner]

\* A SELECT. An entry of from is [t, a], a = "" for a table without an alias; the first is
\* FROM's, the others are joined. A column read is [q, c], q = "" when it is not qualified.
SxEntry == [t : SxTables, a : STRING]
SxRefs == SUBSET [q : STRING, c : STRING]
SxSelects == [from : Seq(SxEntry), sel : SxRefs, where : SxRefs, on : SxRefs, group : SxRefs,
              having : SxRefs]

\* The columns of a SELECT, and those that it is asked for: HAVING is not.
SxAll(b) == b.sel \cup b.where \cup b.on \cup b.group \cup b.having
SxCounted(b) == b.sel \cup b.where \cup b.on \cup b.group

\* in tells where the inner SELECT is: "no" when there is none, in the outer one's "where",
\* or as a derived table, then all there is in its "from".
ASSUME SxAssumption ==
    /\ SxQualified \subseteq SxTables
    /\ \A s \in SxStatements : s.kind \in {"select", "comment"}
    /\ \A s \in SxStatements :
          s.kind = "select" => /\ s.outer \in SxSelects /\ s.inner \in SxSelects
                               /\ s.in \in {"no", "where", "from"}
                               /\ s.in = "no" => SxAll(s.inner) = {}
                               /\ s.in = "from" => s.outer.from = <<>>

VARIABLES
    sxEnv,  \* AMA_SQL_PARSE_MODE: "" or "regex"
    sxStmt, \* the statement
    sxOut   \* [mode, reads]

sxVars == <<sxEnv, sxStmt, sxOut>>

SxNamed(e, q) == q # "" /\ q \in {e.a, SxShort[e.t]}

SxFirst(from) == IF from = <<>> THEN <<>> ELSE <<Head(from)>>
SxJoined(from) == IF from = <<>> THEN <<>> ELSE Tail(from)

\* A mutated list: the tables that are joined are not registered.
SxEntriesOfFrom(outer, inner) == SxFirst(outer) \o SxFirst(inner)

\* Tables are registered FROM first, then the joins, of a SELECT and of what it contains.
SxEntries(outer, inner) ==
    SxFirst(outer) \o SxFirst(inner) \o SxJoined(outer) \o SxJoined(inner)

\* The last table registered under the qualifier; the first one of all when there is no
\* such table, or it has no schema.
SxTableOf(entries, q) ==
    LET named == {i \in DOMAIN entries : SxNamed(entries[i], q)}
    IN  IF named # {} /\ entries[Max(named)].t \in SxQualified
        THEN entries[Max(named)].t ELSE entries[1].t

SxResolved(entries, refs) ==
    IF entries = <<>> THEN {} ELSE {<<SxTableOf(entries, r.q), r.c>> : r \in refs}

\* What the tree of the outer SELECT shows of the inner one.
SxSeenInside(s) ==
    CASE s.in = "no"    -> {}
      [] s.in = "where" -> SxAll(s.inner)
      [] s.in = "from"  -> s.inner.on \cup s.inner.group

SxByTree(s) ==
    SxResolved(SxEntries(s.outer.from, s.inner.from), SxCounted(s.outer) \cup SxSeenInside(s))
        \cup SxResolved(SxEntries(s.inner.from, <<>>), SxCounted(s.inner))

\* The expression takes the word after an unaliased table as its alias. When that is the JOIN
\* behind FROM's table, the joined table is not seen; behind a joined one it is ON.
SxSpotted(from) ==
    IF from # <<>> /\ from[1].a = "" THEN <<from[1]>> \o SubSeq(from, 3, Len(from)) ELSE from

SxTextTables(s) == SxSpotted(s.outer.from) \o SxSpotted(s.inner.from)

SxTableInText(entries, q) ==
    LET named == {i \in DOMAIN entries : SxNamed(entries[i], q)}
    IN  entries[IF named # {} THEN Max(named) ELSE 1].t

SxInText(entries, refs) ==
    IF entries = <<>> THEN {} ELSE {<<SxTableInText(entries, r.q), r.c>> : r \in refs}

SxDotted(refs) == {r \in refs : r.q # ""}

\* The clauses as they are written, an empty one without its keyword; the names of tables
\* with a schema look like columns.
SxClause(kw, refs) == [kw |-> IF refs = {} THEN "" ELSE kw, refs |-> refs]

SxNames(from) ==
    {[q |-> "schema", c |-> SxShort[e.t]] : e \in {x \in ToSet(from) : x.t \in SxQualified}}

SxOpening(b) ==
    <<SxClause("select", b.sel), SxClause("from", SxNames(b.from)), SxClause("on", b.on)>>
SxClosing(b) == <<SxClause("group", b.group), SxClause("having", b.having)>>
SxWhole(b) == SxOpening(b) \o <<SxClause("where", b.where)>> \o SxClosing(b)

SxText(s) ==
    CASE s.in = "no"    -> SxWhole(s.outer)
      [] s.in = "where" -> SxOpening(s.outer) \o <<[kw |-> "where", refs |-> s.outer.where]>>
                              \o SxWhole(s.inner) \o SxClosing(s.outer)
      [] s.in = "from"  -> <<SxClause("select", s.outer.sel)>> \o SxWhole(s.inner)
                              \o <<SxClause("where", s.outer.where)>> \o SxClosing(s.outer)

\* What stands from clause i on, up to one that ends it.
SxChunk(text, i, end) ==
    UNION {text[j].refs : j \in {k \in i..Len(text) : \A n \in (i + 1)..k : text[n].kw # end}}

SxClauses(text, kw) == {i \in DOMAIN text : text[i].kw = kw}

SxWhereText(text) ==
    LET wheres == SxClauses(text, "where")
    IN  IF wheres = {} THEN {} ELSE SxChunk(text, Min(wheres), "group")

SxOnText(text) == UNION {SxChunk(text, i, "where") : i \in SxClauses(text, "on")}

\* The first SELECT list with every identifier; the qualified ones also as the first
\* table's. Behind WHERE and ON the qualified ones.
SxByRegex(s) ==
    SxInText(SxTextTables(s),
             s.outer.sel \cup {[r EXCEPT !.q = ""] : r \in s.outer.sel}
                \cup SxDotted(SxWhereText(SxText(s)) \cup SxOnText(SxText(s))))

SxParsed(s) ==
    CASE s.kind = "comment" -> [mode |-> "skipped_empty", reads |-> {}]
      [] s.kind = "select" /\ s.parses /\ sxEnv # "regex" ->
            [mode |-> "sqlglot", reads |-> SxByTree(s)]
      [] s.kind # "comment" /\ ~(s.kind = "select" /\ s.parses /\ sxEnv # "regex") ->
            [mode |-> IF SxTextTables(s) = <<>> THEN "empty" ELSE "regex",
             reads |-> SxByRegex(s)]

SxInit ==
    /\ sxEnv \in {"", "regex"}
    /\ sxStmt = [kind |-> "none"]
    /\ sxOut = [mode |-> "none", reads |-> {}]

\* The backend keeps nothing from one statement to the next: one is enough.
SxParse ==
    /\ sxStmt.kind = "none"
    /\ \E s \in SxStatements : sxStmt' = s /\ sxOut' = SxParsed(s)
    /\ UNCHANGED sxEnv

SxNext == SxParse

SxSpec == SxInit /\ [][SxNext]_sxVars

(* The variables stay in their ranges. *)
SxTypeOK ==
    /\ sxEnv \in {"", "regex"}
    /\ sxOut.mode \in {"none", "sqlglot", "regex", "empty", "skipped_empty"}
    /\ \A r \in sxOut.reads : r[1] \in SxTables

\* The reference: a column belongs to the table its qualifier names in its own SELECT,
\* otherwise in the one around; without a qualifier, to the tables of its own.
SxOwners(own, around, q) ==
    LET named(from) == {e.t : e \in {x \in ToSet(from) : q = "" \/ SxNamed(x, q)}}
    IN  IF named(own) # {} THEN named(own) ELSE named(around)

SxReference(s, Of(_)) ==
    (UNION {{<<t, r.c>> : t \in SxOwners(s.outer.from, <<>>, r.q)} : r \in Of(s.outer)})
        \cup (UNION {{<<t, r.c>> : t \in SxOwners(s.inner.from, s.outer.from, r.q)} :
                        r \in Of(s.inner)})

\* Every table has a schema and names of its own, and what is not qualified has one table,
\* of its own SELECT or, where that has none, of the one around.
SxClear(s) ==
    LET from == s.outer.from \o s.inner.from
    IN  /\ \A e \in ToSet(from) : e.t \in SxQualified
        /\ \A i, j \in DOMAIN from : i # j => \A q \in {from[j].a, SxShort[from[j].t]} :
                                                 ~SxNamed(from[i], q)
        /\ \A b \in {s.outer, s.inner} : SxDotted(SxAll(b)) # SxAll(b) =>
                                          Len(IF b.from = <<>> THEN s.outer.from ELSE b.from) <= 1

\* Everything is qualified, by a table of the same SELECT.
SxOwn(s) ==
    \A b \in {s.outer, s.inner} : \A r \in SxAll(b) : \E e \in ToSet(b.from) : SxNamed(e, r.q)

SxTextual(b) == b.sel \cup SxDotted(b.where \cup b.on)

(* A column that the applications use is never taken for an unused one of the next    *)
(* table, which the report would propose to drop: when the tables of a statement can  *)
(* be told apart, every column read outside HAVING is credited to its table, whatever *)
(* is joined or nested (extract_from_select), and nothing else is when every column   *)
(* is qualified by a table of its own SELECT. The regular expressions find the        *)
(* qualified columns of a flat statement with aliases (_fallback_regex_extract).      *)
SxCredited ==
    sxOut.mode \in {"sqlglot", "regex"} /\ sxStmt.kind = "select" /\ SxClear(sxStmt) =>
        IF sxOut.mode = "sqlglot"
        THEN /\ SxReference(sxStmt, SxCounted) \subseteq sxOut.reads
             /\ SxOwn(sxStmt) => sxOut.reads \subseteq SxReference(sxStmt, SxAll)
        ELSE sxStmt.in = "no" /\ (\A e \in ToSet(sxStmt.outer.from) : e.a # "") =>
                SxReference(sxStmt, SxTextual) \subseteq sxOut.reads
=============================================================================
