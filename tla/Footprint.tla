------------------------------ MODULE Footprint ------------------------------
(***************************************************************************)
(* The footprint of an update: what of its graph it can observe or remove, *)
(* which is all that a graph-scoped update is run against. It is read off  *)
(* the update's text, as probes: the constants of each triple pattern, and *)
(* the IRIs that a VALUES block lists for one of its variables. Copying    *)
(* too much is a cost, copying too little a wrong answer.                  *)
(***************************************************************************)
EXTENDS TermDepth

\* The footprint of an update that observes its graph as a whole.
Whole == {<<NoConstant, NoConstant, NoConstant>>}

-----------------------------------------------------------------------------
(* What VALUES says of the variables: functions from variables to the IRIs *)
(* that every solution binds them to (certain), or binds them to if at all *)
(* (confined).                                                             *)

Nothing == [v \in {} |-> {}]
Restricted(listed, vars) == [v \in DOMAIN listed \cap vars |-> listed[v]]
Listed(certain, confined) == [certain |-> certain, confined |-> confined]

\* A side that confines a variable, or cannot bind it.
Speaks(listed, scope, v) == v \in DOMAIN listed \/ v \notin scope
Said(listed, v) == IF v \in DOMAIN listed THEN listed[v] ELSE {}

\* Mistaken: a side that says nothing of a variable is taken not to bind it.
either_or_silent(l, left, r, right) ==
    [v \in DOMAIN l \cup DOMAIN r |-> Said(l, v) \cup Said(r, v)]

\* What either side lets the other one's solutions be bound to.
either(l, left, r, right) ==
    [v \in {w \in DOMAIN l \cup DOMAIN r :
                Speaks(l, InScope[left], w) /\ Speaks(r, InScope[right], w)} |->
        Said(l, v) \cup Said(r, v)]

BindingsOf(p, in) ==
    LET l == in[p.left]
        r == in[p.right]
        i == in[p.inner]
        Both == either(l.confined, p.left, r.confined, p.right)
        Without(listed) == Restricted(listed, DOMAIN listed \ {p.var})
        agreed == Merged([v \in DOMAIN l.certain \cap DOMAIN r.certain |->
                            l.certain[v] \cap r.certain[v]],
                         Merged(l.certain, r.certain))
    IN CASE p.op = "values" ->
                IF \A row \in p.rows : row # Unbound /\ IsIri(row)
                THEN Listed(Binding(p.var, p.rows), Binding(p.var, p.rows))
                ELSE Listed(Nothing, Nothing)
         [] p.op = "join" -> Listed(agreed, Merged(agreed, Both))
         [] p.op = "optional" -> Listed(l.certain, Merged(l.certain, Both))
         [] p.op = "union" ->
                Listed([v \in DOMAIN l.certain \cap DOMAIN r.certain |->
                            l.certain[v] \cup r.certain[v]], Both)
         [] p.op = "minus" -> l
         [] p.op \in {"filter", "graph", "order", "modifier", "slice"} -> i
         [] p.op = "project" ->
                Listed(Restricted(i.certain, p.vars), Restricted(i.confined, p.vars))
         [] p.op = "extend" -> Listed(Without(i.certain), Without(i.confined))
         [] OTHER -> Listed(Nothing, Nothing)     \* bgp, path, group, lateral, service

bindings[p \in Pattern] == BindingsOf(p, bindings)

-----------------------------------------------------------------------------
(* Probes *)

\* One probe of a pattern, or one for each IRI listed for its subject, else its
\* object: never both, and never in a position that is a constant.
push_listed(pattern, listed) ==
    LET probe == ProbeOf(pattern)
        Lists(i) == pattern[i][1] = "var" /\ pattern[i][2] \in DOMAIN listed
    IN IF probe[1] = NoConstant /\ Lists(1)
       THEN {<<iri, probe[2], probe[3]>> : iri \in listed[pattern[1][2]]}
       ELSE IF probe[1] = NoConstant /\ probe[3] = NoConstant /\ Lists(3)
       THEN {<<probe[1], probe[2], iri>> : iri \in listed[pattern[3][2]]}
       ELSE {probe}

PathProbesOf(path, in) ==
    CASE path.kind = "predicate" -> {<<NoConstant, path.iri, NoConstant>>}
      [] path.kind \in {"reverse", "one_or_more"} -> in[path.of]
      [] path.kind \in {"sequence", "alternative"} -> in[path.a] \cup in[path.b]
      [] OTHER -> Whole                 \* zero_or_more, zero_or_one, negated

path_probes[path \in PropertyPath] == PathProbesOf(path, path_probes)

\* A pattern that can observe the graph as a whole probes for everything, which
\* makes the footprint Whole. A basic graph pattern is narrowed by the sibling it
\* is joined to.
ProbesOf(p, in) ==
    LET Operand(q, sibling) ==
            IF q.op = "bgp"
            THEN UNION {push_listed(t, bindings[sibling].certain) : t \in q.triples}
            ELSE in[q]
    IN CASE p.op = "bgp" -> {ProbeOf(t) : t \in p.triples}
         [] p.op = "path" -> path_probes[p.path]
         [] p.op = "join" -> Operand(p.left, p.right) \cup Operand(p.right, p.left)
         [] p.op = "service" -> Whole
         [] OTHER -> UNION {in[q] : q \in Below(p)}

pattern_probes[p \in Pattern] == ProbesOf(p, pattern_probes)

operation_probes(o) ==
    CASE o.op \in {"insert_data", "create"} -> {}
      [] o.op = "delete_data" ->
            {ProbeOf([i \in 1..3 |-> Const(q[2][i])]) : q \in o.quads}
      [] o.op = "delete_insert" ->
            pattern_probes[o.pattern] \cup
                UNION {push_listed(t.triple, bindings[o.pattern].confined) : t \in o.delete}
      [] OTHER -> Whole                 \* clear, drop

\* Everything, as soon as one probe is for everything.
Merging(probes) == IF \E probe \in probes : is_everything(probe) THEN Whole ELSE probes
footprint(u) == Merging(UNION {operation_probes(o) : o \in Elements(u)})

\* The triples of a graph that are copied.
Observed(u, triples) ==
    UNION {Matching(probe, triples) : probe \in footprint(u)}
=============================================================================
