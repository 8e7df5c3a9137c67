---------------------------- MODULE MCSparqlCases ----------------------------
EXTENDS Doors

T(name) == <<name, 0>>
a == T("a")  b == T("b")  p == T("p")  q == T("q")  one == T("1")

MCLiterals == {"1", "0", "2", "true", "false", "unbound", "any"}

\* What a graph may hold: a cycle of p, a q, a term nested to the bound.
InGraph == {<<a, p, b>>, <<b, p, a>>, <<a, q, b>>, <<b, q, <<"a", 1>>>>}
InOther == {<<"h", <<a, p, a>>>>, <<"h", <<b, q, b>>>>}

MCDatasets ==
    {Dataset({<<"g", t>> : t \in ts}, {"g"}) : ts \in SUBSET InGraph}
    \cup {Dataset({<<"g", t>> : t \in ts} \cup InOther, {"g", "h"}) :
            ts \in {{}, {<<a, p, b>>, <<b, q, <<"a", 1>>>>}, {<<b, p, a>>, <<a, q, b>>}}}
    \cup {Dataset(InOther, {"h"}), Dataset({<<"", <<a, p, b>>>>}, {})}

-----------------------------------------------------------------------------
(* Patterns *)

x == Var("x")  y == Var("y")  z == Var("z")
Bgp(ts) == [op |-> "bgp", triples |-> ts]
Values(v, rows) == [op |-> "values", var |-> v, rows |-> rows]
Two(op, l, r) == [op |-> op, left |-> l, right |-> r]
Filter(e, i) == [op |-> "filter", expr |-> e, inner |-> i]
In(name, i) == [op |-> "graph", name |-> name, inner |-> i]
Path(s, path, o) == [op |-> "path", s |-> s, path |-> path, o |-> o]
Step(iri) == [kind |-> "predicate", iri |-> iri]
Exists(i) == [kind |-> "exists", pattern |-> i]
Not(e) == [kind |-> "not", of |-> e]
Yes == [kind |-> "term", term |-> True]
C(t) == Const(t)

Bgps == {Bgp({<<x, C(p), y>>}), Bgp({<<x, z, y>>}), Bgp({<<C(a), C(p), y>>}),
         Bgp({<<x, C(q), y>>}), Bgp({<<x, C(p), y>>, <<y, C(q), z>>})}
Lists == {Values("x", {a}), Values("y", {b}), Values("x", {a, Unbound}),
          Values("x", {a, one}), Values("x", {})}
Paths == {Path(x, [kind |-> "one_or_more", of |-> Step(p)], y),
          Path(x, [kind |-> "zero_or_more", of |-> Step(p)], y),
          Path(x, [kind |-> "sequence", a |-> Step(p),
                   b |-> [kind |-> "reverse", of |-> Step(q)]], y),
          Path(x, [kind |-> "alternative", a |-> Step(q),
                   b |-> [kind |-> "negated", iri |-> q]], C(b))}
Leaves == Bgps \cup Lists \cup Paths

Pairings ==
    {Two(op, l, r) : op \in {"join", "union", "minus"}, l \in Bgps \cup Lists, r \in Bgps \cup Lists}
    \cup {Two("optional", l, r) @@ ("expr" :> Yes) : l \in Lists \cup Bgps, r \in Lists \cup Bgps}
    \cup {Two("join", l, r) : l \in Lists, r \in Paths}

\* What wraps a pattern.
Around1(i) ==
    {Filter(Exists(Bgp({<<x, C(q), z>>})), i),
     Filter(Not(Exists(Bgp({<<y, C(p), x>>}))), i),
     Filter([kind |-> "or", args |-> <<Not(Yes), Exists(Two("join", Values("z", {b}), Bgp({<<z, C(p), y>>})))>>], i),
     [op |-> "extend", var |-> "z", expr |-> [kind |-> "triple", var |-> "y"], inner |-> i],
     [op |-> "extend", var |-> "z", expr |-> [kind |-> "term", term |-> b], inner |-> i],
     [op |-> "project", vars |-> {"x"}, inner |-> i],
     [op |-> "group", var |-> "y", by |-> {"x"}, expr |-> Exists(Bgp({<<x, C(q), z>>})), inner |-> i],
     [op |-> "modifier", inner |-> i],
     [op |-> "order", expr |-> Exists(Bgp({<<x, C(q), z>>})), inner |-> i]}

Patterns ==
    Leaves \cup Pairings
    \cup UNION {Around1(i) : i \in Leaves}
    \cup UNION {{Two("join", Values("x", {a, b}), i),
                 Two("union", Values("x", {a}), i),
                 Two("join", i, Bgp({<<x, C(p), y>>})),
                 Two("optional", i, Bgp({<<x, C(p), y>>})) @@ ("expr" :> Exists(Bgp({<<y, C(p), x>>})))} :
                i \in UNION {Around1(j) : j \in Lists \cup {Bgp({<<x, C(p), y>>}),
                            Two("join", Values("y", {b}), Bgp({<<x, C(q), y>>}))}}
                      \cup {Two("optional", l, r) @@ ("expr" :> Yes) : l \in Lists, r \in Bgps}}

-----------------------------------------------------------------------------
(* Updates *)

Template(g, s, r, o) == [graph |-> g, triple |-> <<s, r, o>>]
G == C("g")
NoUsing == [given |-> FALSE, with |-> FALSE, default |-> {}, named |-> {}]
Using(default, named) ==
    [given |-> TRUE, with |-> FALSE, default |-> default, named |-> named]
With(g) == [given |-> TRUE, with |-> TRUE, default |-> {g}, named |-> {}]
Modify(delete, insert, using, where) ==
    [op |-> "delete_insert", delete |-> delete, insert |-> insert, using |-> using,
     pattern |-> where]

DeleteX == Template(G, x, C(p), y)
DeleteNested == Template(G, x, C(q), Around("y"))
DeleteAny == Template(G, x, z, y)
InsertQ == Template(G, y, C(q), x)
InsertY == Template(G, x, C(q), y)
InsertAround == Template(G, x, C(q), Around("y"))

\* Every pattern, in the graph, with a template that its lists narrow.
OverPatterns ==
    {<<Modify({DeleteNested}, {InsertQ}, NoUsing, In(G, i))>> : i \in Patterns}
    \cup {<<Modify({DeleteAny}, {}, With("g"), i)>> : i \in Pairings}
    \cup {<<Modify({}, {InsertAround, InsertY}, Using({"g"}, {}), i)>> : i \in Leaves}
    \cup {<<Modify({DeleteX}, {Template(G, C(b), C(q), z)}, NoUsing,
                   Two("join", Values("x", {b}), In(G, i)))>> :
            i \in UNION {Around1(j) : j \in Leaves}}

\* Other graphs read, by every way of naming them, and by a variable.
Reads == Bgp({<<x, C(p), y>>})
OverGraphs ==
    {<<Modify({}, {InsertY}, using, i)>> :
        using \in {NoUsing, With("g"), With("h"), Using({"g"}, {"h"}),
                   Using({"h"}, {"g"}), Using({"g", "h"}, {}), Using({"g"}, {"g"})},
        i \in {Reads, In(C("h"), Reads), In(G, Reads), In(Var("z"), Reads),
               Two("minus", In(G, Reads), In(C("h"), Reads)),
               In(G, Filter(Not(Exists(In(C("h"), Reads))), Reads)),
               Filter(Exists(In(Var("z"), Bgp({<<y, C(q), x>>}))), In(G, Reads))}}

Data(g, t) == {<<g, t>>}
Insert(g, t) == [op |-> "insert_data", quads |-> Data(g, t)]
Delete(g, t) == [op |-> "delete_data", quads |-> Data(g, t)]
Manage(op, g, silent) == [op |-> op, target |-> g, silent |-> silent]
Create(g, silent) == [op |-> "create", graph |-> g, silent |-> silent]

Simple == {Insert("g", <<a, p, b>>), Insert("h", <<a, p, b>>), Insert("", <<a, p, b>>),
           Delete("g", <<a, p, b>>), Delete("g", <<b, q, <<"a", 1>>>>), Delete("h", <<a, p, a>>)}
          \cup {Manage(op, g, silent) : op \in {"clear", "drop"},
                    g \in {"g", "h", "all", "default", "named"}, silent \in BOOLEAN}
          \cup {Create(g, silent) : g \in {"g", "h"}, silent \in BOOLEAN}

Copies == {Modify({}, {Template(G, x, z, y)}, NoUsing, In(C("h"), Bgp({<<x, z, y>>}))),
           Modify({}, {Template(C("h"), x, z, y)}, NoUsing, In(G, Bgp({<<x, z, y>>}))),
           Modify({DeleteAny}, {}, NoUsing, In(G, Bgp({<<x, z, y>>}))),
           Modify({DeleteX}, {InsertQ}, NoUsing, In(G, Reads)),
           Modify({}, {InsertAround}, NoUsing, In(G, Reads)),
           Modify({}, {InsertAround}, NoUsing, In(G, Bgp({<<x, C(q), y>>}))),
           Modify({}, {Template(G, x, C(p), C(<<"a", 1>>))}, NoUsing, In(G, Reads)),
           Modify({DeleteAny}, {InsertY}, NoUsing,
                  In(G, Bgp({<<x, z, C(<<"a", 1>>)>>, <<x, C(p), y>>})))}

\* Another machine's triples, wherever a text can ask for them.
Elsewhere(i) == [op |-> "service", inner |-> i]
LoadFrom(g, silent) == [op |-> "load", graph |-> g, silent |-> silent]
MCRemoteTriples == {<<a, q, b>>, <<b, p, a>>}
OverMachines ==
    {<<Modify({DeleteX}, {InsertQ}, NoUsing, i)>> :
        i \in {In(G, Elsewhere(Reads)), Two("join", In(G, Reads), Elsewhere(Reads)),
               Two("minus", In(G, Reads), Elsewhere(Reads)),
               In(G, Filter(Not(Exists(Elsewhere(Bgp({<<x, C(q), z>>})))), Reads))}}
    \cup {<<LoadFrom(g, silent)>> : g \in {"g", ""}, silent \in BOOLEAN}
    \cup {<<Insert("g", <<a, p, b>>), LoadFrom("g", TRUE)>>}

MCUpdates ==
    OverPatterns \cup OverGraphs \cup OverMachines
    \cup {<<o>> : o \in Simple \cup Copies}
    \cup {<<o, n>> : o \in Simple, n \in Simple \cup Copies}
    \cup {<<n, o>> : o \in Simple, n \in Copies}

-----------------------------------------------------------------------------
(* Queries *)

Query(form, from, i) == [form |-> form, from |-> from, pattern |-> i,
                         template |-> Template(C(""), x, C(q), y), bound |-> <<>>, bindings |-> "inline"]
Bind(v, type, term) == v :> [type |-> type, term |-> term]
Given(i, bound) == [Query("select", NoUsing, i) EXCEPT !.bound = bound]

\* Other graphs, by every way a query has of reaching one.
Reaching ==
    {Reads, In(G, Reads), In(C("h"), Reads), In(Var("z"), Reads), In(Var("x"), Bgp({})),
     Bgp({<<x, C(p), y>>, <<y, C(q), z>>}),
     Two("join", In(G, Reads), In(C("h"), Bgp({<<x, C(q), z>>}))),
     Two("optional", Reads, In(C("h"), Bgp({<<x, C(q), z>>}))) @@ ("expr" :> Yes),
     Two("union", Reads, In(C("h"), Reads)),
     Two("minus", Reads, In(Var("z"), Reads)),
     Two("minus", In(G, Reads), In(C("h"), Reads)),
     Filter(Exists(In(C("h"), Bgp({<<x, C(q), z>>}))), Reads),
     Filter(Not(Exists(In(C("h"), Bgp({<<x, C(q), z>>})))), Reads),
     Filter(Not(Exists(In(Var("z"), Bgp({<<y, C(q), x>>})))), Reads),
     [op |-> "order", expr |-> Exists(In(C("h"), Bgp({<<y, C(q), y>>}))), inner |-> Reads],
     [op |-> "group", var |-> "y", by |-> {"x"}, expr |-> Exists(In(C("h"), Bgp({<<y, C(q), y>>}))), inner |-> Reads],
     [op |-> "project", vars |-> {"x"}, inner |-> In(Var("z"), Reads)],
     [op |-> "extend", var |-> "z", expr |-> Exists(In(Var("w"), Bgp({<<y, C(q), x>>}))), inner |-> Reads],
     In(Var("z"), Path(x, [kind |-> "one_or_more", of |-> Step(p)], y)),
     Path(x, [kind |-> "zero_or_more", of |-> Step(p)], y),
     Values("x", {a, b})}

\* Values for variables that a query projects, hides, or keeps to an EXISTS or a MINUS.
Project(vs, i) == [op |-> "project", vars |-> vs, inner |-> i]
Hiding ==
    {Reads, In(Var("z"), Reads), Project({"x"}, Reads), Project({"x"}, In(G, Reads)),
     Filter(Exists(Bgp({<<x, C(q), z>>})), Reads),
     Project({"x"}, Filter(Not(Exists(Bgp({<<y, C(q), z>>}))), Reads)),
     Two("minus", Reads, Bgp({<<x, C(q), z>>})),
     Project({"x"}, Two("minus", Bgp({<<x, C(p), C(b)>>}), Bgp({<<x, C(q), y>>}))),
     Two("minus", Two("union", Reads, Bgp({<<x, C(q), z>>})), Bgp({<<x, C(p), z>>})),
     Two("join", Project({"x"}, Reads), Bgp({<<x, C(q), z>>})),
     Project({"x"}, [op |-> "group", var |-> "y", by |-> {"x"}, expr |-> Yes,
                     inner |-> Bgp({<<x, C(p), z>>})]),
     Two("optional", Reads, Bgp({<<y, C(q), z>>})) @@ ("expr" :> Exists(Bgp({<<x, C(p), z>>})))}
OverBindings ==
    {Given(i, Bind(v, "uri", t)) : i \in Hiding, v \in {"x", "y", "z"}, t \in {a, b}}
    \cup {Given(i, Bind("x", "uri", a) @@ Bind("z", "literal", one)) : i \in Hiding}
    \cup {Given(Reads, Bind("x", type, a)) : type \in {"null", "bnode"}}

\* A SERVICE, in the open and in an EXISTS.
OverServices ==
    {Two("join", Reads, Elsewhere(Reads)), In(G, Elsewhere(Reads)),
     Filter(Not(Exists(Elsewhere(Reads))), Reads), Two("minus", Reads, Elsewhere(Reads))}

MCQueries ==
    {Query(form, NoUsing, i) : form \in {"select", "ask", "construct", "describe"}, i \in Reaching}
    \cup {Query("select", from, i) :
            from \in {Using({"g"}, {"g"}), Using({"h"}, {}), Using({}, {"h"}), Using({"g", "h"}, {"g", "h"})},
            i \in {Reads, In(G, Reads), In(C("h"), Reads)}}
    \cup OverBindings \cup {Query("select", NoUsing, i) : i \in OverServices}
    \cup {[Query("select", NoUsing, Reads) EXCEPT !.bindings = ByReference]}

\* Every set in order, and out of it, repeated, untidy, and with what is no graph.
MCIriOrder == <<"g", "h">>
MCSpellings == {Spelling(tokens, TRUE) : tokens \in {<<>>, <<"g">>, <<"h">>, <<"g", "h">>,
                        <<"h", "g">>, <<"g", "g">>, <<"g", NotAnIri>>}}
               \cup {Spelling(<<"g">>, FALSE), Spelling(<<>>, FALSE)}
MCCapabilities ==
    {Capability(FALSE, scopes) : scopes \in (SUBSET Graph) \cup {{CAP_READ_GRAPH}, {CAP_READ},
                {CAP_READ, "g"}, {CAP_READ_GRAPH, "h"}}}
    \cup {Capability(TRUE, {})}

-----------------------------------------------------------------------------
(* The parts of patterns, and how many a part is made of *)

\* The patterns of updates and of queries.
MCPatterns ==
    LET First == {u \in MCUpdates : u[1].op = "delete_insert"}
        Second == {u \in MCUpdates : Len(u) = 2 /\ u[2].op = "delete_insert"}
    IN {i : i \in {u[1].pattern : u \in First} \cup {u[2].pattern : u \in Second}
                \cup {i.pattern : i \in MCQueries}}

\* All that patterns nested MaxLevel deep are made of.
MaxLevel == 7
PartsOf(patterns) ==
    LET Fields == {"left", "right", "inner", "expr", "path", "pattern", "of", "a", "b"}
        Within(i) == {i[f] : f \in Fields \cap DOMAIN i}
                         \cup IF "args" \in DOMAIN i THEN Range(i.args) ELSE {}
        level[n \in 0..MaxLevel] ==
            IF n = 0 THEN [all |-> patterns, last |-> patterns]
            ELSE LET above == level[n - 1]
                     next == UNION {Within(i) : i \in above.last}
                 IN [all |-> above.all \cup next, last |-> next]
    IN level[MaxLevel].all

RECURSIVE MCRank(_)
MCRank(i) ==
    LET Held(field) == IF field \in DOMAIN i THEN MCRank(i[field]) ELSE 0
    IN 1 + Held("left") + Held("right") + Held("inner") + Held("expr") + Held("path")
         + Held("pattern") + Held("of") + Held("a") + Held("b")
         + IF "args" \in DOMAIN i THEN MCRank(i.args[1]) + MCRank(i.args[2]) ELSE 0

-----------------------------------------------------------------------------
(* Documents *)

Document(format, bytes, quads) ==
    [format |-> format, bytes |-> bytes, entity |-> FALSE, parses |-> TRUE, graph |-> "g",
     quads |-> quads]

Plain == <<<<"", <<a, p, b>>>>>>
Several == <<<<"", <<a, q, b>>>>, <<"h", <<b, p, a>>>>>>
Wraps(depth) == <<<<"", <<a, q, <<"b", depth>>>>>>>>
Long == Plain \o Several \o Wraps(1) \o Plain

MCDocuments ==
    {Document(format, bytes, quads) :
        format \in {"Turtle", "N-Quads", "JSON"}, bytes \in {MaxLoad, MaxLoad + 1},
        quads \in {<<>>, Plain, Several, Wraps(1), Wraps(2), Long}}
    \cup {[Document(format, 3, Plain) EXCEPT !.entity = TRUE] : format \in {"RDF/XML", "Turtle"}}
    \cup {[Document("Turtle", 3, quads) EXCEPT !.parses = FALSE] : quads \in {<<>>, Plain, Wraps(2)}}
    \cup {[Document("N-Quads", 3, quads) EXCEPT !.graph = g] :
            quads \in {Plain, Several}, g \in {"h", "", NotAnIri, ByReference}}
=============================================================================
