----------------------------- MODULE ScopedRead -----------------------------
(***************************************************************************)
(* Reads confined to a set of graphs, as functions: the set that a caller  *)
(* spells, the grants it needs, the graphs a query names outside it, the   *)
(* dataset it is given, the values bound to its variables, and the doors   *)
(* that say which graphs there are and how large one, or all, of them is.  *)
(* Solutions are a set: oxigraph's merge of several graphs is a bag, and   *)
(* how often a row is answered is not looked at. The family of a query     *)
(* (rows or a graph) and its serialization are left out, and so is what a  *)
(* query computes through the broad doors, which confine nothing.          *)
(***************************************************************************)
EXTENDS Bindings, Functions

CONSTANT IriOrder       \* the graphs, as their IRIs are sorted

-----------------------------------------------------------------------------
(* What a caller may read, and how it says what it wants to *)

\* The grant for all there is, and the pattern that a door declares for the grants of
\* single graphs, which somebody may hold as it is. The grant for a graph is its name.
CAP_READ == "read"
CAP_READ_GRAPH == "read:graph:*"

Capability(root, scopes) == [root |-> root, scopes |-> scopes]

\* A grant is matched exactly: the pattern grants no graph.
allows(capability, scope) == capability.root \/ scope \in capability.scopes

\* The kernel lets a caller in to a door that declares a pattern for any grant under it.
MayEnter(capability, family) == capability.root \/ capability.scopes \cap family # {}
ReadsAGraph == Graph \cup {CAP_READ_GRAPH}
ReadsAtAll == ReadsAGraph \cup {CAP_READ}

\* An argument that is given, but not inline, is none that can be read.
ByReference == "by reference"
optional_inline_str(arg) == arg # ByReference

\* The argument `graph` is a list of tokens, tidy if it has a single space between any
\* two and none around them. In any order, with any repetition, it is one set.
Spelling(tokens, tidy) == [tokens |-> tokens, tidy |-> tidy]
NotAnIri == "not an IRI"
graphs_of(raw) == Range(raw.tokens)
canonical(set) == Spelling(SelectSeq(IriOrder, LAMBDA g : g \in set), TRUE)
is_canonical(raw) == raw = canonical(graphs_of(raw))

\* What a query sees: the graphs merged to its default graph, and those GRAPH reaches.
Sees(default, named) == [default |-> default, named |-> named]

\* Mistaken: only what the query reads without GRAPH is confined.
confine_default(graphs) == Sees(graphs, Graph)

\* A confined query sees the graphs merged, and each of them by name.
confine(graphs) == Sees(graphs, graphs)

\* FROM and FROM NAMED are a second way to say what a query sees.
names_its_own_dataset(q) == q.from.given

\* Mistaken: the walk does not look into a FILTER.
graphs_outside_but_filtered(q, graphs) ==
    IF q.pattern.op = "filter" THEN {} ELSE pattern_graphs(q.pattern) \ graphs

\* The constant GRAPH names of a query that are not of the set.
graphs_outside(q, graphs) == pattern_graphs(q.pattern) \ graphs

Heard(kind, names, rows) == [kind |-> kind, names |-> names, rows |-> rows]

\* A value of the argument `bindings` is a term that JSON has a type for, or spells one
\* out; null, an array and a blank node are none.
is_term(value) == value.type \in {"string", "number", "boolean", "uri", "literal"}

\* oxigraph binds the variables that a query projects, and refuses any other.
Unprojected(q) == DOMAIN q.bound \ InScope[q.pattern]

\* The refusal of a binding says what to do. For a variable that only an EXISTS or a
\* MINUS mentions, to write SELECT * is no way out.
query_error(q) ==
    LET scoped_out == DOMAIN q.bound \cap only_inside_exists_or_minus(q)
    IN IF scoped_out # {} THEN Heard("name it", scoped_out, {})
       ELSE Heard("name it or select all", DOMAIN q.bound, {})

\* The graphs asked for that the caller holds no grant for. None is dropped.
Ungranted(raw, capability) == {g \in graphs_of(raw) : ~allows(capability, g)}

\* Whether a read may be of the graphs that it names, and if not why.
scope(raw, capability) ==
    IF graphs_of(raw) \ Graph # {} THEN Heard("not an IRI", graphs_of(raw) \ Graph, {})
    ELSE IF graphs_of(raw) = {} THEN Heard("names no graph", {}, {})
    ELSE IF Ungranted(raw, capability) # {}
         THEN Heard("denied", Ungranted(raw, capability), {})
    ELSE Heard("granted", graphs_of(raw), {})

\* What a read of a set of graphs is answered.
ConfinedRead(q, set, data) ==
    IF \/ ~optional_inline_str(q.bindings)
       \/ \E v \in DOMAIN q.bound : ~is_term(q.bound[v])
    THEN Heard("bindings", {}, {})
    ELSE IF pattern_has_service(q.pattern) THEN Heard("service", {}, {})
    ELSE IF graphs_outside(q, set) # {} THEN Heard("outside", graphs_outside(q, set), {})
    ELSE IF names_its_own_dataset(q) THEN Heard("its own dataset", {}, {})
    ELSE IF Unprojected(q) # {} THEN query_error(q)
    ELSE Heard("answered", set, Answered(q, confine(set), data))

\* A request that spells its set otherwise is issued again, under the one spelling.
reissue_canonical(q, set, data) == <<canonical(set), ConfinedRead(q, set, data)>>

\* A scoped read, with the spelling it is computed, and cached, under. It is granted or
\* denied as it stands.
scoped_query(q, raw, capability, data) ==
    LET set == scope(raw, capability)
    IN IF ~MayEnter(capability, ReadsAGraph) THEN <<raw, Heard("no grant", {}, {})>>
       ELSE IF set.kind # "granted" THEN <<raw, set>>
       ELSE IF is_canonical(raw) THEN <<raw, ConfinedRead(q, set.names, data)>>
       ELSE reissue_canonical(q, set.names, data)

\* Which graphs there are: all that have an IRI for a broad reader; for any other caller,
\* its grants are its universe. The pattern names no graph.
every_named_graph(data) == data.named \cap Graph
granted_graphs(capability) == capability.scopes \cap Graph
existing_among(granted, data) == granted \cap data.named
GraphsEndpoint(capability, data) ==
    IF ~MayEnter(capability, ReadsAtAll) THEN Heard("no grant", {}, {})
    ELSE Heard("graphs",
               IF allows(capability, CAP_READ) THEN every_named_graph(data)
               ELSE existing_among(granted_graphs(capability), data), {})

\* How large a graph is, under the grant for it.
graph_info(graph, capability, data) ==
    IF ~MayEnter(capability, ReadsAGraph) THEN Heard("no grant", {}, {})
    ELSE IF graph \notin Graph THEN Heard("not an IRI", {graph}, {})
    ELSE IF ~allows(capability, graph) THEN Heard("denied", {graph}, {})
    ELSE Heard("counted", existing_among({graph}, data), {Cardinality(TriplesOf(data, graph))})

\* How large the whole store is, the default graph included, under the broad grant.
InfoEndpoint(capability, data) ==
    IF ~allows(capability, CAP_READ) THEN Heard("no grant", {}, {})
    ELSE Heard("counted", {}, {Cardinality(data.quads)})

-----------------------------------------------------------------------------
(* Fingerprints *)

\* What a host keeps of the graphs that the sharers of its store do not write: each
\* one's quads. (Their number and the xor of their hashes, taken to have no collision:
\* a dataset is a set, so nothing cancels out.)
reserved_graphs_fingerprint(data, writes) ==
    [g \in data.named \ writes |-> TriplesOf(data, g)]

\* Mistaken: a graph that vanished is forgotten.
changed_of_those_there(after, before) ==
    {g \in DOMAIN after : g \notin DOMAIN before \/ after[g] # before[g]}

\* The reserved graphs that gained or lost quads, appeared or vanished.
changed_since(after, before) ==
    {g \in DOMAIN after : g \notin DOMAIN before \/ after[g] # before[g]}
        \cup (DOMAIN before \ DOMAIN after)
=============================================================================
