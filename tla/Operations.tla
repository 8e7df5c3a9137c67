------------------------------ MODULE Operations ------------------------------
(***************************************************************************)
(* SPARQL updates as ikigai-store sees them: the operations that spargebra *)
(* parses an update to, what oxigraph does to a dataset when it runs them, *)
(* and what this crate finds out about an update before it runs it: which  *)
(* graphs it names to read, whether it reads at all, whether it would      *)
(* reach another machine.                                                  *)
(***************************************************************************)
EXTENDS Algebra

-----------------------------------------------------------------------------
(* Operations *)

Ok(data) == [ok |-> TRUE, data |-> data]
Failed(data) == [ok |-> FALSE, data |-> data]

\* The quads a template makes of the solutions that bind all its variables, of the
\* first one or two to IRIs, and the graph to one that a graph may have.
Instances(template, M) ==
    {<<IF template.graph[1] = "const" THEN template.graph[2]
       ELSE m[template.graph[2]][1],
       [i \in 1..3 |-> Value(template.triple[i], m)]>> :
        m \in {n \in M :
                /\ VarsOf(template.graph) \subseteq DOMAIN n
                /\ \A i \in 1..3 : VarsOf(template.triple[i]) \subseteq DOMAIN n
                /\ IsIri(Value(template.triple[1], n))
                /\ IsIri(Value(template.triple[2], n))
                /\ \A v \in VarsOf(template.graph) : IsIri(n[v]) /\ n[v][1] \in Graph}}

\* The graphs that CLEAR or DROP names.
Targets(target, data) ==
    CASE target = "all" -> {DefaultGraph} \cup data.named
      [] target = "default" -> {DefaultGraph}
      [] target = "named" -> data.named
      [] OTHER -> {target}

Gone(graphs, data) == {q \in data.quads : q[1] \in graphs}
Named(quads) == {q[1] : q \in quads} \ {DefaultGraph}

\* What a DELETE/INSERT ... WHERE deletes and inserts. The default graph of its WHERE
\* is what USING or WITH names, and USING leaves only what USING NAMED names to GRAPH.
Matched(o, data) ==
    LET read == IF o.using.given /\ ~o.using.with
                THEN Dataset(data.quads, data.named \cap o.using.named)
                ELSE data
        default == IF o.using.given THEN o.using.default ELSE {DefaultGraph}
    IN Solutions(o.pattern, read, <<>>, default)
Made(templates, M) == UNION {Instances(t, M) : t \in templates}
Modified(o, data, M) ==
    LET new == Made(o.insert, M)
    IN Dataset((data.quads \ Made(o.delete, M)) \cup new, data.named \cup Named(new))

\* One operation. CREATE of a graph that is there, and CLEAR or DROP of one that is
\* not, fail unless SILENT. A quad's graph is registered with the quad.
Effect(o, data) ==
    CASE o.op = "insert_data" ->
            Ok(Dataset(data.quads \cup o.quads, data.named \cup Named(o.quads)))
      [] o.op = "load" ->
            IF Remote \in data.named
            THEN Ok(Dataset(data.quads \cup {<<o.graph, t>> : t \in RemoteTriples},
                            data.named \cup ({o.graph} \ {DefaultGraph})))
            ELSE IF o.silent THEN Ok(data) ELSE Failed(data)
      [] o.op = "delete_data" ->
            Ok(Dataset(data.quads \ o.quads, data.named))
      [] o.op = "create" ->
            IF o.graph \in data.named /\ ~o.silent THEN Failed(data)
            ELSE Ok(Dataset(data.quads, data.named \cup {o.graph}))
      [] o.op \in {"clear", "drop"} ->
            LET graphs == Targets(o.target, data)
            IN IF ~(graphs \subseteq data.named \cup {DefaultGraph}) /\ ~o.silent
               THEN Failed(data)
               ELSE Ok(Dataset(data.quads \ Gone(graphs, data),
                               IF o.op = "drop" THEN data.named \ graphs ELSE data.named))
      [] o.op = "delete_insert" -> Ok(Modified(o, data, Matched(o, data)))

\* What oxigraph answers to an update: its operations in order, up to the first
\* that fails. (A function of how many of them have run.)
Then(o, run) == IF run.ok THEN Effect(o, run.data) ELSE run
Runs(u, data) ==
    LET run[n \in 0..Len(u)] == IF n = 0 THEN Ok(data) ELSE Then(u[n], run[n - 1])
    IN run
Execute(u, data) == Runs(u, data)[Len(u)]

-----------------------------------------------------------------------------
(* What a parsed update says of itself *)

Elements(u) == {u[i] : i \in DOMAIN u}

\* What spargebra parses an update to, as far as it says which graphs are meant: CREATE
\* makes one with a name, INSERT DATA and a template write to any, USING reads any.
GraphNames == Graph \cup {DefaultGraph}
IsOperation(o) ==
    \/ o \in [op : {"create"}, graph : Graph, silent : BOOLEAN]
    \/ o \in [op : {"load"}, graph : GraphNames, silent : BOOLEAN]
    \/ o \in [op : {"clear", "drop"}, target : Graph \cup {"all", "default", "named"},
             silent : BOOLEAN]
    \/ o.op \in {"insert_data", "delete_data"} /\ \A q \in o.quads : q[1] \in GraphNames
    \/ /\ o.op = "delete_insert"
       /\ o.pattern \in Pattern
       /\ o.using.given => o.using.default \cup o.using.named \subseteq GraphNames
       /\ \A t \in o.insert : t.graph[1] = "const" => t.graph[2] \in GraphNames
IsUpdate(u) == u \in Seq(Elements(u)) /\ \A o \in Elements(u) : IsOperation(o)

Wheres(u) == {o \in Elements(u) : o.op = "delete_insert"}

\* Whether an update has a WHERE, and so reads.
reads_the_dataset(u) == Wheres(u) # {}

\* Whether a text would reach another machine: by a SERVICE anywhere in it, SILENT or
\* not, or by a LOAD.
pattern_has_service(p) == \E q \in Reached[p] : q.op = "service"
update_has_service(u) == \E o \in Wheres(u) : pattern_has_service(o.pattern)
has_load(u) == \E o \in Elements(u) : o.op = "load"

pattern_graphs(p) == {q.name[2] : q \in
    {r \in Reached[p] : r.op = "graph" /\ r.name[1] = "const"}}

\* Mistaken: USING NAMED is forgotten.
graphs_read_but_named(u) == UNION {
    (IF o.using.given THEN o.using.default ELSE {})
        \cup pattern_graphs(o.pattern) : o \in Wheres(u)}

\* The graphs an update names to read: WITH and USING, USING NAMED, and the
\* constant GRAPH names of its patterns.
graphs_read(u) == UNION {
    (IF o.using.given THEN o.using.default \cup o.using.named ELSE {})
        \cup pattern_graphs(o.pattern) : o \in Wheres(u)}

reads_outside(u, graph) == graphs_read(u) \ {graph} # {}

\* Mistaken: only DROP and CLEAR are silenced.
silence_removals(u, unreadable) ==
    [i \in DOMAIN u |->
        IF u[i].op \in {"clear", "drop"} /\ u[i].target \in unreadable
        THEN [u[i] EXCEPT !.silent = TRUE] ELSE u[i]]

\* DROP, CLEAR and CREATE of a graph the caller may not read, run as SILENT.
silence_graph_management(u, unreadable) ==
    [i \in DOMAIN u |->
        IF \/ u[i].op \in {"clear", "drop"} /\ u[i].target \in unreadable
           \/ u[i].op = "create" /\ u[i].graph \in unreadable
        THEN [u[i] EXCEPT !.silent = TRUE] ELSE u[i]]

=============================================================================
