------------------------------- MODULE Confine -------------------------------
(***************************************************************************)
(* The steps of a graph-scoped update as functions of a dataset: what is   *)
(* copied of the graph, what an update left of the copy, whether anything  *)
(* of it lies outside the graph, and the difference that is applied. What  *)
(* an update computes and what it observes are arguments: here nothing is  *)
(* assumed of SPARQL.                                                      *)
(***************************************************************************)
EXTENDS Integers, FiniteSets

Of(data, graph) == {q \in data.quads : q[1] = graph}

\* A dataset with quads of one graph alone, and that graph's registration.
Alone(quads, graph, data) ==
    [quads |-> quads, named |-> data.named \cap {graph}]

\* What is copied of a graph: the quads of its triples that an update can observe, and
\* whether it is registered.
Copied(observed, graph, data) ==
    Alone({q \in Of(data, graph) : q[2] \in observed}, graph, data)

\* Mistaken: a quad in the graph without a name is not looked for.
EscapedByName(data, graph) == data.named \ {graph}

\* The graphs other than its own that an update left something in, or created.
Escaped(data, graph) == ({q[1] : q \in data.quads} \cup data.named) \ {graph}

Removed(before, after) == before.quads \ after.quads

\* A quad that was not copied may be in the graph: inserting it adds nothing.
Added(before, after, data) == (after.quads \ before.quads) \ data.quads

\* The dataset with the difference applied. Inserting a quad registers its graph;
\* removing a named graph removes every quad of it.
Applied(before, after, graph, data) ==
    LET quads == (data.quads \ Removed(before, after)) \cup Added(before, after, data)
    IN IF graph \in before.named /\ graph \notin after.named
       THEN [quads |-> {q \in quads : q[1] # graph}, named |-> data.named \ {graph}]
       ELSE [quads |-> quads, named |-> data.named \cup after.named]

\* What an update computed on a copy is what it computes on the whole graph: it fails
\* alike, and the rest, which was not copied, is left alone.
StandsFor(part, whole, rest) ==
    /\ whole.ok = part.ok
    /\ whole.ok => /\ whole.data.named = part.data.named
                   /\ whole.data.quads = part.data.quads \cup rest
=============================================================================
