-------------------------------- MODULE Doors --------------------------------
(***************************************************************************)
(* Updates, queries and documents against datasets, one case at a time:    *)
(* what the graph-scoped door and the broad door answer to an update and   *)
(* leave of a dataset, what a scoped read answers, and what a load does,   *)
(* as functions. A case is checked against what it does to other datasets. *)
(* What a text is refused for before its graphs are looked at, its length, *)
(* its nesting and its cost, is in TextScan and AlgebraCost.               *)
(***************************************************************************)
EXTENDS Footprint, ScopedRead, Confine, SequencesExt

CONSTANTS
    Updates,        \* the updates that are tried
    Spellings,      \* the spellings of a set of graphs
    Capabilities,   \* what the callers of the read doors hold
    Queries,        \* the queries that are tried
    Documents,      \* the documents that are tried
    Datasets,       \* the datasets they are tried on
    Scope,          \* the graph the caller of the scoped door is granted
    MaxCopy,        \* how many quads it copies for a caller who may read it
    MaxLoad         \* how many bytes a document may have, and its terms

QueryForms == {"select", "ask", "construct", "describe"}

\* A text and a document are parsed before a door looks at them, and a dataset is one
\* that oxigraph keeps. A grant for a graph is neither of those for all there is.
ASSUME InputsAreParsed ==
    /\ \A u \in Updates : IsUpdate(u) /\ \A o \in Wheres(u) : IsEvaluated(o.pattern)
    /\ \A q \in Queries : /\ {"form", "pattern", "bound"} \subseteq DOMAIN q
                          /\ q.pattern \in Pattern /\ IsEvaluated(q.pattern)
                          /\ q.form \in QueryForms
    /\ \A d \in Datasets : IsDataset(d)
    /\ \A doc \in Documents :
        /\ doc.graph \in GraphNames \cup {NotAnIri, ByReference}
        /\ \A i \in DOMAIN doc.quads : doc.quads[i][1] \in GraphNames
    /\ CAP_READ \notin Graph /\ CAP_READ_GRAPH \notin Graph
    /\ Scope \in Graph

\* No term nests past the bound to begin with: none that is stored, and none that the text
\* of an update spells out, in an INSERT DATA, a VALUES or a BIND (TextScan).
NestsWithin(term) == term[2] \in 0..MaxNesting
Shallow(quads) == \A q \in quads : \A i \in 1..3 : NestsWithin(q[2][i])
SpeltShallow(pattern) ==
    \A p \in Reached[pattern] :
        /\ p.op = "values" => \A row \in p.rows : NestsWithin(row)
        /\ p.op = "extend" /\ p.expr.kind = "term" => NestsWithin(p.expr.term)
ASSUME NothingIsTooDeepYet ==
    /\ MaxNesting \in Nat
    /\ \A d \in Datasets : Shallow(d.quads)
    /\ \A u \in Updates :
        /\ \A o \in Elements(u) : o.op = "insert_data" => Shallow(o.quads)
        /\ \A o \in Wheres(u) : SpeltShallow(o.pattern)

\* What there is of some graphs.
Only(graphs, d) == Dataset({q \in d.quads : q[1] \in graphs}, d.named \cap graphs)

\* A pattern that says of every GRAPH which one it means.
NamesItsGraphs(pattern) ==
    \A p \in Reached[pattern] : p.op = "graph" => p.name[1] = "const"

\* A WHERE that spells out the graphs it reads, by a constant or as what USING NAMED
\* leaves to a variable, and reads none but the scope, and the graph without a name
\* where it names none to read instead.
SpellsOut(o) == NamesItsGraphs(o.pattern) \/ (o.using.given /\ ~o.using.with)
ReadsTheScope(o) ==
    /\ ~pattern_has_service(o.pattern) /\ SpellsOut(o)
    /\ pattern_graphs(o.pattern) \subseteq {Scope}
    /\ o.using.given => o.using.default \cup o.using.named \subseteq {Scope}
ReadBy(o) == IF o.using.given THEN {Scope} ELSE {Scope, DefaultGraph}

\* A dataset with nothing but the scope in it, and one that the other machine is part of.
ScopeAlone(d) == Alone(Of(d, Scope), Scope, d)
Everywhere(d) == Dataset(d.quads, d.named \cup {Remote})

VARIABLES data, update, query, document

vars == <<data, update, query, document>>

NoQuery == [form |-> "none"]
NoDocument == [format |-> "none"]

\* What a door tells its caller, and the dataset it leaves.
Told(kind, escaped, counts) == [kind |-> kind, escaped |-> escaped, counts |-> counts]
Refused(kind, d) == [told |-> Told(kind, {}, <<>>), data |-> d]

\* Why a text is refused as soon as it is parsed, if it is: it would have the engine
\* reach another machine.
Egress(u) == CASE has_load(u) -> "load"
               [] ~has_load(u) /\ update_has_service(u) -> "service"
               [] OTHER -> "none"

\* What the scoped door runs: the update, SILENT where its caller may not read.
Silenced(u, may_read) == silence_graph_management(u, IF may_read THEN {} ELSE {Scope})

\* What is copied for an update.
copy(u, graph, d) == Copied(Observed(u, {q[2] : q \in Of(d, graph)}), graph, d)

\* The bound on the copy is for a caller who may read: any other it would tell how
\* much the graph holds.
copy_too_large(quads, may_read) == may_read /\ Cardinality(quads) > MaxCopy

\* The last steps of the scoped door, on what the update left of the copy. Counts
\* are for a caller who may read the graph.
apply_difference(before, after, d, may_read) ==
    IF Escaped(after, Scope) # {}
    THEN [told |-> Told("escaped", Escaped(after, Scope), <<>>), data |-> d]
    ELSE IF \E q \in Added(before, after, d) : TooDeep(q[2]) THEN Refused("too deep", d)
    ELSE [told |-> IF may_read
                   THEN Told("applied", {}, <<Cardinality(Added(before, after, d)),
                                              Cardinality(Removed(before, after))>>)
                   ELSE Told("applied", {}, <<>>),
          data |-> Applied(before, after, Scope, d)]

RunOnCopy(u, before, d, may_read) ==
    LET Done(run) == IF run.ok THEN apply_difference(before, run.data, d, may_read)
                     ELSE Refused("failed", d)
    IN IF copy_too_large(before.quads, may_read) THEN Refused("too large", d)
       ELSE Done(Execute(u, before))

\* The scoped door.
scoped_update(u, d, may_read) ==
    IF Egress(u) # "none" THEN Refused(Egress(u), d)
    ELSE IF reads_the_dataset(u) /\ ~may_read THEN Refused("denied", d)
    ELSE IF reads_outside(u, Scope) THEN Refused("reads outside", d)
    ELSE RunOnCopy(Silenced(u, may_read), copy(Silenced(u, may_read), Scope, d), d, may_read)

\* The broad door, which tells how many quads there were and are.
broad_update(u, d, may_read) ==
    LET Done(run) ==
            IF ~run.ok THEN Refused("failed", d)
            ELSE IF ~check_inserted(u, d.quads, run.data.quads) THEN Refused("too deep", d)
            ELSE [told |-> IF may_read
                           THEN Told("applied", {}, <<Cardinality(d.quads),
                                                      Cardinality(run.data.quads)>>)
                           ELSE Told("applied", {}, <<>>),
                  data |-> run.data]
    IN IF Egress(u) # "none" THEN Refused(Egress(u), d)
       ELSE IF reads_the_dataset(u) /\ ~may_read THEN Refused("denied", d)
       ELSE Done(Execute(silence_graph_management(u, IF may_read THEN {} ELSE Graph), d))

\* The bytes of a term as it is written out: one for its name, four for each level
\* that nests it.
term_bytes(t) == 1 + 4 * t[2]
QuadBytes(q) == (IF q[1] = DefaultGraph THEN 0 ELSE 1) + term_bytes(q[2][1])
                    + term_bytes(q[2][2]) + term_bytes(q[2][3])

LOAD_FORMATS == {"Turtle", "N-Quads", "RDF/XML"}

\* How deep the terms of a document nest is read off its text, which only the syntaxes
\* that have a scanner allow. The scan is taken to see what the parser sees.
check_rdf_nesting(format, quads) ==
    format \in LOAD_FORMATS /\ \A q \in Range(quads) : ~TooDeep(q[2])

\* Why a document is refused before the writer is asked for anything. Its statements
\* are read in order up to one that does not parse, or that makes their terms too
\* many: a prefix is written once and copied into each.
check_load(doc, quads) ==
    LET produced == FoldLeft(LAMBDA sum, q : sum + QuadBytes(q), 0, quads)
    IN IF doc.bytes > MaxLoad THEN "too large"
       ELSE IF doc.format = "RDF/XML" /\ doc.entity THEN "entity"
       ELSE IF ~check_rdf_nesting(doc.format, quads) THEN "too deep"
       ELSE IF produced > MaxLoad THEN "expands"
       ELSE IF ~doc.parses THEN "not parsed"
       ELSE "none"

\* The load door. A quad of no graph goes to the one that is asked for, and into the
\* default graph if none is. It is parsed again and committed at once, between two
\* counts, with the write lock held.
load(doc, d, may_read) ==
    LET quads == [i \in DOMAIN doc.quads |->
                    IF doc.quads[i][1] = DefaultGraph THEN <<doc.graph, doc.quads[i][2]>>
                    ELSE doc.quads[i]]
        left == Effect([op |-> "insert_data", quads |-> Range(quads)], d).data
    IN IF doc.format \notin LOAD_FORMATS THEN Refused("format", d)
       ELSE IF ~optional_inline_str(doc.graph) \/ doc.graph = NotAnIri THEN Refused("graph", d)
       ELSE IF check_load(doc, quads) # "none" THEN Refused(check_load(doc, quads), d)
       ELSE [told |-> IF may_read
                      THEN Told("loaded", {}, <<Cardinality(d.quads), Cardinality(left.quads)>>)
                      ELSE Told("loaded", {}, <<>>),
             data |-> left]

Init == data \in Datasets /\ update = <<>> /\ query = NoQuery /\ document = NoDocument

Idle == update = <<>> /\ query = NoQuery /\ document = NoDocument

\* A caller sends an update, a query or a document, and is answered; each case begins
\* anew.
Send == Idle /\ update' \in Updates /\ UNCHANGED <<data, query, document>>
Ask == Idle /\ query' \in Queries /\ UNCHANGED <<data, update, document>>
Load == Idle /\ document' \in Documents /\ UNCHANGED <<data, update, query>>
Reply == /\ ~Idle
         /\ update' = <<>> /\ query' = NoQuery /\ document' = NoDocument
         /\ UNCHANGED data

Next == Send \/ Ask \/ Load \/ Reply
Spec == Init /\ [][Next]_vars

-----------------------------------------------------------------------------
(* Properties of updates *)

\* An update computes on its footprint what it computes on the whole graph.
Faithful(u, graph, d) ==
    StandsFor(Execute(u, copy(u, graph, d)), Execute(u, Alone(Of(d, graph), graph, d)),
              Of(d, graph) \ copy(u, graph, d).quads)

\* The copy is enough: on what of the graph the update can observe it computes
\* what it computes on all of it, fails where it would have failed, and leaves the
\* rest alone ("all it needs to", confine.rs on Footprint).
CopyIsEnough == update # <<>> /\ Egress(update) = "none" => Faithful(update, Scope, data)

\* An update that deletes by what a GRAPH finds, whose name is a variable that a VALUES
\* inside lists for some solutions only. Those of the GRAPH are bound to its name as
\* well, and the list is taken to hold of them all.
NameIsListed(u) ==
    \E o \in {w \in Wheres(u) : w.delete # {}} : \E p \in Reached[o.pattern] :
        /\ p.op = "graph" /\ p.name[1] # "const"
        /\ p.name[2] \in DOMAIN bindings[p.inner].confined \ DOMAIN bindings[p.inner].certain

\* The copy is enough for every other update. The argument is on SPARQL's operators
\* (confine.rs, "What it costs"): it is about VALUES, OPTIONAL, MINUS, EXISTS and paths
\* together.
FootprintIsFaithful ==
    update # <<>> /\ Egress(update) = "none" /\ ~NameIsListed(update)
        => Faithful(update, Scope, data)

\* An update that spells out every graph it reads, or reads a default graph that is
\* empty, and for which the copy is enough.
Explicit(u, d) ==
    /\ \A o \in Wheres(u) : (o.using.given \/ Of(d, DefaultGraph) = {}) /\ SpellsOut(o)
    /\ ~NameIsListed(u)

\* The scoped door does not answer with what another graph would have changed:
\* an update whose graphs are all named and that is applied does to its graph what
\* it would have done through the broad door, which reads every graph. So every
\* name of another graph in WITH, USING, USING NAMED and GRAPH was refused. So was
\* whatever a SERVICE or a LOAD would have brought, which SILENT makes nothing of.
NothingIsReadAsEmpty ==
    LET Same(scoped, everywhere) ==
            scoped.told.kind = "applied" /\ everywhere.ok
                => Of(scoped.data, Scope) = Of(everywhere.data, Scope)
    IN update # <<>> /\ Explicit(update, data) =>
            Same(scoped_update(update, data, TRUE), Execute(update, Everywhere(data)))

\* Whether an update or a document is refused says nothing about a graph to a caller
\* who may write it and not read it, nor does anything else in the answer, whatever
\* the graph holds and whether it exists. The broad doors, too, answer such a caller
\* alike on every dataset. (It is about all datasets, and is evaluated on one.)
WriteOnlyLearnsNothing ==
    LET Outside(d) == <<d.quads \ Of(d, Scope), d.named \ {Scope}>>
        broad == {broad_update(update, d, FALSE).told : d \in Datasets}
        scoped == {<<Outside(d), scoped_update(update, d, FALSE).told>> : d \in Datasets}
        loaded == {load(document, d, FALSE).told : d \in Datasets}
        first == CHOOSE d \in Datasets : TRUE
    IN data = first =>
        /\ update # <<>> =>
            /\ Cardinality(broad) = 1
            /\ \A one, other \in scoped : one[1] = other[1] => one[2] = other[2]
        /\ document # NoDocument => Cardinality(loaded) = 1

\* No update or document that a door commits leaves a triple term past the bound that
\* the store did not already hold, whichever operation wrapped it and by whatever
\* template it was stored: a term cannot grow by an update at a time.
NothingGrowsTooDeep ==
    LET NoDeeper(left) == \A q \in left.data.quads \ data.quads : ~TooDeep(q[2])
    IN /\ update # <<>> => /\ NoDeeper(broad_update(update, data, TRUE))
                           /\ NoDeeper(scoped_update(update, data, TRUE))
       /\ document # NoDocument => NoDeeper(load(document, data, TRUE))

-----------------------------------------------------------------------------
(* Properties of reads *)

\* What a caller hears through any read door depends on the graphs it has grants for
\* and on nothing else: two datasets that agree on those are one to it, whatever
\* graphs it asks for, however it spells them, and however its query tries to reach
\* another one: by name, by a variable, in EXISTS or MINUS, by a path, or by DESCRIBE.
\* The default graph of the store, which has no name, is nobody's but a broad reader's.
\* (It is about all datasets, and is evaluated on one.)
NothingUngrantedIsRead ==
    LET Granted(capability, d) ==
            IF allows(capability, CAP_READ) THEN d
            ELSE Only(granted_graphs(capability), d)
        Hears(capability, d) ==
            <<{<<raw, scoped_query(query, raw, capability, d)>> : raw \in Spellings},
              GraphsEndpoint(capability, d), InfoEndpoint(capability, d),
              {graph_info(g, capability, d) : g \in Graph}>>
        all(capability) == {<<Granted(capability, d), Hears(capability, d)>> : d \in Datasets}
        first == CHOOSE d \in Datasets : TRUE
    IN query # NoQuery /\ data = first =>
        \A capability \in Capabilities :
            \A one, other \in all(capability) : one[1] = other[1] => one[2] = other[2]

\* No graph that a caller or a query names is answered as if it were empty. A scoped
\* read that is answered is answered with what the query means: over the graphs asked
\* for, however they are spelt, with GRAPH and SERVICE reaching whatever they name, or
\* over what its own FROM clauses say. So a name outside the set was refused wherever
\* in the query it stood, and so was a graph the caller has no grant for. All spellings
\* of one set are computed under one.
NoGraphIsAnsweredAsEmpty ==
    LET Meant(set) == IF query.from.given
                      THEN Sees(query.from.default, query.from.named \cup {Remote})
                      ELSE Sees(set, Graph \cup {Remote})
        Given(capability) ==
            {<<graphs_of(raw), scoped_query(query, raw, capability, data)>> : raw \in Spellings}
        heard(capability) == {h \in Given(capability) : h[2][2].kind = "answered"}
    IN query # NoQuery /\ NamesItsGraphs(query.pattern) =>
        \A capability \in Capabilities :
            /\ \A h \in heard(capability) : h[2][2].rows = Answered(query, Meant(h[1]), data)
            /\ \A one, other \in heard(capability) : one[1] = other[1] => one = other

\* The advice that comes with a refused binding works: the query it tells the caller to
\* write has the variable in scope, for whichever operator hid it, and a caller is not
\* told to write SELECT * where that would be refused again. (A variable of a
\* sub-select alone is told so, which is not looked at.)
BindingAdviceWorks ==
    LET t == [type |-> "uri", term |-> True]
        Asked(v) == [query EXCEPT !.bound = Binding(v, t)]
        Body == IF query.pattern.op = "project" THEN query.pattern.inner ELSE query.pattern
        All(v) == [Asked(v) EXCEPT !.pattern = Body]
        Hides == \E p \in Reached[Body] : p.op \in {"project", "group"}
        mentioned == UNION {InScope[p] : p \in Reached[query.pattern]}
    IN query # NoQuery =>
        \A v \in {w \in mentioned : Unprojected(Asked(w)) # {}} :
            CASE query_error(Asked(v)).kind = "name it" -> Unprojected(All(v)) # {}
              [] OTHER -> Unprojected(All(v)) = {} \/ Hides

-----------------------------------------------------------------------------
(* Properties of fingerprints *)

\* The fingerprint that a host takes of the graphs it has promised nobody else writes
\* sees every change that a reader with grants for those graphs could see, whichever
\* door it came through, and trips for nothing else.
FingerprintSeesEveryChange ==
    LET Seen(g, d) == LET reader == Capability(FALSE, {g})
                      IN <<GraphsEndpoint(reader, d), graph_info(g, reader, d), TriplesOf(d, g)>>
        Taken(d, writes) == reserved_graphs_fingerprint(d, writes)
        Tripped(left) ==
            \A writes \in SUBSET Graph :
                changed_since(Taken(left, writes), Taken(data, writes))
                    = {g \in Graph \ writes : Seen(g, left) # Seen(g, data)}
    IN /\ update # <<>> => Tripped(broad_update(update, data, TRUE).data)
       /\ document # NoDocument => Tripped(load(document, data, TRUE).data)
=============================================================================
