----------------------------- MODULE MCServices -----------------------------
(* TLC instance of the services beside the bulk job.  They share no variable of *)
(* their models, so their product tells no more than each of them alone: a       *)
(* behaviour is one of one of them (focus), with the others at rest.             *)
EXTENDS HitlReview, ReportCaches, ApproveTable, AgentTurn, AgentGate, LiveJobs, ModelDraft, DashSession, LogIngest, SourceTables, SchemaExtract, SchemaQuery, Cockpit, SqlExtract, ScaleGate, Planner, TLC

CONSTANTS a1, a2, b1, b2, t1, t2

VARIABLE focus   \* the service that moves

Foci == {"review", "caches", "approve", "agent", "gate", "live", "draft", "dash", "ingest", "sources", "extract", "query", "cockpit", "parse", "scale", "plan"}

Symmetry == Permutations({a1, a2}) \cup Permutations({b1, b2})

\* Planner: three tables and one that only occurs in statements; wave caps that truncate.
Listings == {{1, 3}}
Caps == {<<1, 2>>, <<2, 4>>}
PlFirstCap == <<2, 4>>
PlQuiet == [prio |-> [t \in 1..3 |-> 0], dom |-> [t \in 1..3 |-> 1], pairs |-> {}, listed |-> {1, 3}]

\* AgentTurn: one wave of two tables.
AgentTables == [w \in {1} |-> {1, 2}]
AgEmpty == [len |-> 0, system |-> 0, ask |-> 0, waves |-> 0]

\* ScaleGate: a sound table, a hub, a sensitive one, a rejected one, a wide one of odd type.
Row(m, l, ty, q, d, s, r, w, li, t) ==
    [merged |-> m, legacy |-> l, typed |-> ty, queries |-> q, dependents |-> d,
     sensitive |-> s, rejected |-> r, wide |-> w, listed |-> li, type |-> t]
Rows == {Row(2, 0, 2, 0, 0, FALSE, FALSE, FALSE, TRUE, "int"),
         Row(1, 1, 1, 500, 3, FALSE, FALSE, FALSE, TRUE, "int"),
         Row(1, 1, 2, 51, 0, TRUE, FALSE, FALSE, FALSE, "int"),
         Row(0, 1, 0, 501, 0, TRUE, TRUE, FALSE, TRUE, "int"),
         Row(2, 0, 2, 0, 0, FALSE, FALSE, TRUE, FALSE, "blob")}
Gates == {<<70, 40>>, <<90, 20>>}
SgPlain == [t \in {a1, a2} |-> Row(2, 0, 2, 0, 0, FALSE, FALSE, FALSE, TRUE, "int")]
SgQuiet == [flat |-> FALSE, glossary |-> "none", keys |-> FALSE, derivable |-> FALSE]

\* LogIngest: the scope, its namesake in another schema, another table and a bare name; the
\* glossary knows g, sends h outside the DDL; old is only similar.
AO == [schema |-> "a", name |-> "o"]
TO == [schema |-> "temp", name |-> "o"]
AX == [schema |-> "a", name |-> "x"]
Bare == [schema |-> "", name |-> "a"]
Record(fate, use) == [fate |-> fate, touched |-> {u[1] : u \in use}, uses |-> {u \in use : u[2] # "*"}]
LogRecords ==
    {Record("parsed", {<<AO, "id">>, <<AX, "h">>, <<AO, "g">>}),
     Record("regex", {<<TO, "id">>, <<TO, "h">>}),
     Record("parsed", {<<AO, "h">>, <<TO, "old">>, <<Bare, "*">>}),
     Record("env", {}), Record("garbled", {}), Record("crash", {})}
LogTables == {AO, TO, AX, Bare}
LogColumns == {"id", "g", "h", "old"}
Ddl == [t \in LogTables |-> IF t = AX THEN {"id", "h"} ELSE {"id", "amount"}]
Glossary == [id |-> "none", g |-> "amount", h |-> "hh", old |-> "none"]
Guess(d, sure) == [ddl |-> d, sure |-> sure]
Guesses == [id |-> Guess("id", "high"), g |-> Guess("id", "mid"),
            h |-> Guess("amount", "high"), old |-> Guess("id", "mid")]
LgPlain == [mode |-> "target", ddl |-> TRUE]

\* ReportCaches: foreign keys and joined pairs of three tables, of each version.
ForeignKeys == <<{<<1, 2>>, <<3, 3>>}, {<<3, 1>>}>>
CoQueries == <<{{1, 3}}, {{1, 2}, {2, 3}}>>

\* SourceTables: two models share a source table, which one writes in capitals; one has a
\* column of its own by name only.
Parts == [p \in {"s", "S", "t", "u", "U"} |-> CASE p = "S" -> "s" [] p = "U" -> "u" [] OTHER -> p]
SourceNames == {<<"s", "t">>, <<"s", "u">>, <<"S", "U">>}
ModelSql == [m \in {"m1", "m2"} |->
    IF m = "m1" THEN [from |-> {<<"s", "t">>, <<"S", "U">>}, ds |-> {}, casts |-> {"x"},
                      yml |-> {"x"}, key |-> <<"s", "t">>]
    ELSE [from |-> {<<"s", "u">>}, ds |-> {"ds_col"}, casts |-> {"y"}, yml |-> {"y"},
          key |-> <<"s", "u">>]]
ReportColumns == [n \in SourceNames |->
    [importance |-> IF n = <<"s", "t">> THEN {"x"} ELSE {}, columns |-> {}, manifest |-> {},
     ddl |-> IF n = <<"s", "u">> THEN {"z"} ELSE {}]]

\* SchemaExtract: what the query store and the plan cache hold, with copies, noise and
\* statements of another schema.
App(key) == [key |-> key, kind |-> "app"]
Noise == [key |-> "n", kind |-> "noise"]
Foreign == [key |-> "o", kind |-> "other"]
Remembered == {Noise, Foreign} \cup {App(key) : key \in {"p", "q", "r"}}
QueryStores == {<<>>, <<App("p"), App("p")>>, <<Noise, App("q")>>, <<Foreign, App("p"), App("q")>>,
                <<Noise, Foreign, App("p"), App("q")>>, <<Noise, Noise, Noise, App("q")>>}
PlanCaches == {<<>>, << <<App("q"), Noise, App("r")>> >>,
               << <<Noise>>, <<App("p")>>, <<App("q"), App("r")>> >>,
               << <<Noise>>, <<Noise, App("p")>>, <<Noise>>, <<App("q"), App("r")>> >>,
               << <<App("p"), App("p"), App("p")>>, <<App("p"), App("q")>> >>}
Databases == [on : BOOLEAN, given : BOOLEAN, store : QueryStores, cache : PlanCaches]
XtPlain == [on |-> TRUE, given |-> TRUE, store |-> <<>>, cache |-> <<>>]

\* SchemaQuery: a database of each kind, the mode and the string that the server has.
Kinds == [pg |-> "postgres", ms |-> "sqlserver", ora |-> "oracle", db |-> "db2"]
TablesOf == [pg |-> {"t"}, ms |-> {"t", "T"}, ora |-> {"T"}, db |-> {"t"}, file |-> {"t", "T"}]
Upper == [t |-> "T", T |-> "T"]
Envs == [mode : {"unset", "oracle", "file"}, string : {"none", "ora"}]
SqPlain == [mode |-> "unset", string |-> "none"]

\* SqlExtract: one table and two, with and without aliases, joined, nested, with a table
\* that has no schema, with every clause empty or not.
Shorts == [t \in {"s.a", "s.b", "z"} |-> CASE t = "s.a" -> "a" [] t = "s.b" -> "b" [] t = "z" -> "z"]
Entry(t, a) == [t |-> t, a |-> a]
Ref(q, c) == [q |-> q, c |-> c]
Flat == [from : {<<Entry("s.a", "p")>>, <<Entry("s.a", "p"), Entry("s.b", "q")>>,
                 <<Entry("s.a", ""), Entry("s.b", "")>>, <<Entry("s.a", "p"), Entry("z", "q")>>,
                 <<Entry("s.a", "p"), Entry("s.b", ""), Entry("z", "q")>>},
         sel : {{Ref("p", "x")}, {Ref("", "x"), Ref("q", "y")}},
         where : {{}, {Ref("q", "w"), Ref("b", "w")}},
         on : {{}, {Ref("p", "k"), Ref("q", "j")}},
         group : {{}, {Ref("q", "g")}}, having : {{}, {Ref("p", "h")}}]
Nested == [from : {<<>>, <<Entry("s.b", "r")>>, <<Entry("s.b", "p")>>},
           sel : {{Ref("r", "y")}, {Ref("", "y")}}, where : {{}, {Ref("r", "v"), Ref("p", "x")}},
           on : {{}}, group : {{}, {Ref("r", "g")}}, having : {{}}]
NoBody == [from |-> <<>>, sel |-> {}, where |-> {}, on |-> {}, group |-> {}, having |-> {}]
Derived == {[b EXCEPT !.from = <<>>] : b \in {x \in Flat : x.on = {}}}
Selects(in, outers, inners) ==
    [kind : {"select"}, parses : BOOLEAN, in : {in}, outer : outers, inner : inners]
Statements == Selects("no", Flat, {NoBody}) \cup Selects("where", Flat, Nested)
                  \cup Selects("from", Derived, Nested) \cup {[kind |-> "comment"]}

SvInit ==
    /\ focus \in Foci
    /\ IF focus = "review" THEN HrInit ELSE hrWritable = TRUE /\ HrInit
    /\ IF focus = "caches" THEN RcInit ELSE rcLive = 1 /\ RcInit
    /\ ApInit
    /\ IF focus = "agent" THEN AgInit ELSE agLog = AgEmpty /\ AgInit
    /\ GtInit
    /\ LvInit
    /\ MdInit
    /\ DbInit
    /\ IF focus = "ingest" THEN LgInit ELSE lgAsk = LgPlain /\ LgInit
    /\ BsInit
    /\ IF focus = "extract" THEN XtInit ELSE xtDb = XtPlain /\ XtInit
    /\ IF focus = "query" THEN SqInit ELSE sqEnv = SqPlain /\ sqUp = {} /\ SqInit
    /\ CkInit
    /\ IF focus = "parse" THEN SxInit ELSE sxEnv = "" /\ SxInit
    /\ IF focus = "scale" THEN SgInit ELSE sgReport = SgQuiet /\ sgTable = SgPlain /\ SgInit
    /\ IF focus = "plan" THEN PlInit ELSE plCap = PlFirstCap /\ plReport = PlQuiet /\ PlInit

AtRest(f) ==
    /\ f # "review" => UNCHANGED hrVars
    /\ f # "caches" => UNCHANGED rcVars
    /\ f # "approve" => UNCHANGED apVars
    /\ f # "agent" => UNCHANGED agVars
    /\ f # "gate" => UNCHANGED gtVars
    /\ f # "live" => UNCHANGED lvVars
    /\ f # "draft" => UNCHANGED mdVars
    /\ f # "dash" => UNCHANGED dbVars
    /\ f # "ingest" => UNCHANGED lgVars
    /\ f # "sources" => UNCHANGED bsVars
    /\ f # "extract" => UNCHANGED xtVars
    /\ f # "query" => UNCHANGED sqVars
    /\ f # "cockpit" => UNCHANGED ckVars
    /\ f # "parse" => UNCHANGED sxVars
    /\ f # "scale" => UNCHANGED sgVars
    /\ f # "plan" => UNCHANGED plVars

SvNext ==
    \/ focus = "review" /\ HrNext /\ AtRest("review") /\ UNCHANGED focus
    \/ focus = "caches" /\ RcNext /\ AtRest("caches") /\ UNCHANGED focus
    \/ focus = "approve" /\ ApNext /\ AtRest("approve") /\ UNCHANGED focus
    \/ focus = "agent" /\ AgNext /\ AtRest("agent") /\ UNCHANGED focus
    \/ focus = "gate" /\ GtNext /\ AtRest("gate") /\ UNCHANGED focus
    \/ focus = "live" /\ LvNext /\ AtRest("live") /\ UNCHANGED focus
    \/ focus = "draft" /\ MdNext /\ AtRest("draft") /\ UNCHANGED focus
    \/ focus = "dash" /\ DbNext /\ AtRest("dash") /\ UNCHANGED focus
    \/ focus = "ingest" /\ LgNext /\ AtRest("ingest") /\ UNCHANGED focus
    \/ focus = "sources" /\ BsNext /\ AtRest("sources") /\ UNCHANGED focus
    \/ focus = "extract" /\ XtNext /\ AtRest("extract") /\ UNCHANGED focus
    \/ focus = "query" /\ SqNext /\ AtRest("query") /\ UNCHANGED focus
    \/ focus = "cockpit" /\ CkNext /\ AtRest("cockpit") /\ UNCHANGED focus
    \/ focus = "parse" /\ SxNext /\ AtRest("parse") /\ UNCHANGED focus
    \/ focus = "scale" /\ SgNext /\ AtRest("scale") /\ UNCHANGED focus
    \/ focus = "plan" /\ PlNext /\ AtRest("plan") /\ UNCHANGED focus

svVars == <<focus, hrVars, rcVars, apVars, agVars, gtVars, lvVars, mdVars, dbVars, lgVars, bsVars, xtVars, sqVars, ckVars, sxVars, sgVars, plVars>>

SvSpec == SvInit /\ [][SvNext]_svVars

(* Every variable of every service stays in its range. *)
SvTypeOK ==
    /\ focus \in Foci
    /\ focus = "review" => HrTypeOK
    /\ focus = "caches" => RcTypeOK
    /\ focus = "approve" => ApTypeOK
    /\ focus = "agent" => AgTypeOK
    /\ focus = "gate" => GtTypeOK
    /\ focus = "live" => LvTypeOK
    /\ focus = "draft" => MdTypeOK
    /\ focus = "dash" => DbTypeOK
    /\ focus = "ingest" => LgTypeOK
    /\ focus = "sources" => BsTypeOK
    /\ focus = "extract" => XtTypeOK
    /\ focus = "query" => SqTypeOK
    /\ focus = "cockpit" => CkTypeOK
    /\ focus = "parse" => SxTypeOK
    /\ focus = "scale" => SgTypeOK
    /\ focus = "plan" => PlTypeOK
=============================================================================
