---------------------------- MODULE MCScopedUpdate ----------------------------
EXTENDS ScopedUpdate, TLC

CONSTANTS MCLiterals, MaxNesting

n == <<"n", 0>>  p == <<"p", 0>>  q == <<"q", 0>>
T == <<n, p, n>>
Nested == <<n, q, <<"n", 1>>>>
MCTriple == {T, Nested}

Where(using, pattern, delete, insert) ==
    [op |-> "delete_insert", delete |-> delete, insert |-> insert,
     using |-> using, pattern |-> pattern]
InGraph(g, inner) == [op |-> "graph", name |-> <<"const", g>>, inner |-> inner]
Template(g, triple) == [graph |-> <<"const", g>>, triple |-> triple]
Here == [given |-> FALSE, with |-> FALSE, default |-> {}, named |-> {}]
x == <<"var", "x">>
y == <<"var", "y">>
C(t) == <<"const", t>>

Moved == [op |-> "bgp", triples |-> {<<x, C(p), y>>}]
MCPart == {Moved, InGraph("g", Moved)}
MCRank(part) == IF part = Moved THEN 0 ELSE 1

\* No update of this run asks a SERVICE or a LOAD, so the machine holds nothing.
F == INSTANCE Footprint WITH
    Literal <- MCLiterals, Remote <- "machine", RemoteTriples <- {},
    Part <- MCPart, Rank <- MCRank

MCExecute(u, d) == F!Execute(u, d)
MCObserved(u, ts) == F!Observed(u, ts)
MCTooDeep(t) == F!TooDeep(t)
MCReads(u) == F!reads_the_dataset(u)
MCReadsOutside(u, g) == F!reads_outside(u, g)
MCSilence(u, gs) == F!silence_graph_management(u, gs)
MCCheckInserted(u, b, a) == F!check_inserted(u, b, a)

Insert(g, t) == [op |-> "insert_data", quads |-> {<<g, t>>}]
Delete(g, t) == [op |-> "delete_data", quads |-> {<<g, t>>}]
Manage(op, g, silent) == [op |-> op, target |-> g, silent |-> silent]
Create(g, silent) == [op |-> "create", graph |-> g, silent |-> silent]

\* A quad that is not copied is inserted; a graph is dropped, and made; quads are
\* moved by a WHERE, and wrapped; updates leave the graph, by a quad or a name.
MCUpdate ==
    {<<Insert("g", T)>>, <<Insert("", T)>>,
     <<Create("h", TRUE), Insert("g", T)>>,
     <<Create("g", TRUE)>>,
     <<Delete("g", Nested), Insert("g", T)>>}
    \cup {<<Manage("drop", "g", silent)>> : silent \in BOOLEAN}
    \cup {<<Where(Here, InGraph("g", Moved),
                  {Template("g", <<x, C(p), y>>)},
                  {Template("g", <<x, C(q), <<"around", "y">>>>)})>>}

Symmetry == Permutations(Caller)

MCInitial == {[quads |-> {<<"g", T>>, <<"g", Nested>>, <<"h", T>>},
               named |-> {"g", "h"}]}
=============================================================================
