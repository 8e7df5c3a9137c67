------------------------------- MODULE Algebra -------------------------------
(***************************************************************************)
(* The algebra that spargebra parses a SPARQL pattern to: what patterns    *)
(* are made of, the walks over them, and the solutions that oxigraph       *)
(* evaluates them to. What LATERAL and LIMIT do is left out: a pattern     *)
(* that IsEvaluated has none.                                              *)
(*                                                                         *)
(* A term is a pair <<name, depth>>: an IRI or a literal at depth 0, a     *)
(* triple term around it one deeper. A position of a pattern is a constant *)
(* term, a variable, or a triple term around a variable, `<<( .. ?v )>>`.  *)
(* A triple is <<s, p, o>>, a quad <<graph, triple>>, a dataset the record *)
(* of its quads and of the names of its registered graphs. A pattern is a  *)
(* record whose field op names the algebra's operator.                     *)
(*                                                                         *)
(* Patterns are trees, given by constants with all their parts. What is    *)
(* computed along a tree is a recursive function of its parts.             *)
(***************************************************************************)
EXTENDS Integers, Sequences, FiniteSets, TLC, Relation

CONSTANTS
    Graph,          \* the IRIs a graph may have
    DefaultGraph,   \* the graph without a name
    Literal,        \* the names of terms that are literals, not IRIs
    Remote,         \* the machine that a SERVICE or a LOAD would reach
    RemoteTriples,  \* what it holds
    Part,           \* the patterns that are looked at, and all they are made of
    Rank(_)         \* of a part, larger than of what it is made of

ASSUME DefaultIsNoIri == DefaultGraph \notin Graph
ASSUME RemoteIsNoGraph == Remote \notin Graph \cup {DefaultGraph}

-----------------------------------------------------------------------------
(* Terms and positions *)

IsIri(t) == t[2] = 0 /\ t[1] \notin Literal
Unbound == <<"unbound", 0>>
True == <<"true", 0>>
False == <<"false", 0>>
Wrapped(t) == <<t[1], t[2] + 1>>
Unwrapped(t) == <<t[1], t[2] - 1>>

Const(t) == <<"const", t>>
Var(v) == <<"var", v>>
Around(v) == <<"around", v>>

VarsOf(position) == IF position[1] = "const" THEN {} ELSE {position[2]}
Variables(triples) == UNION {VarsOf(t[i]) : t \in triples, i \in 1..3}

\* The value of a position under a solution that binds its variable.
Value(position, m) ==
    CASE position[1] = "const" -> position[2]
      [] position[1] = "var" -> m[position[2]]
      [] position[1] = "around" -> Wrapped(m[position[2]])

-----------------------------------------------------------------------------
(* Patterns, expressions and property paths *)

Pattern == {x \in Part : "op" \in DOMAIN x}
Expression ==
    {x \in Part \ Pattern : x.kind \in {"term", "triple", "exists", "not", "or"}}
PropertyPath == Part \ (Pattern \cup Expression)

\* The expressions that are parts of a pattern, and the patterns.
Expressions(p) == IF p.op \in {"optional", "filter", "extend", "group", "order"}
                  THEN {p.expr} ELSE {}
Operands(p) ==
    CASE p.op \in {"bgp", "path", "values"} -> {}
      [] p.op \in {"join", "optional", "union", "minus", "lateral"} -> {p.left, p.right}
      [] OTHER -> {p.inner}

\* What a part is made of.
Children(x) ==
    IF x \in Pattern
    THEN Operands(x) \cup Expressions(x) \cup IF x.op = "path" THEN {x.path} ELSE {}
    ELSE CASE x.kind \in {"term", "triple", "predicate", "negated"} -> {}
           [] x.kind = "exists" -> {x.pattern}
           [] x.kind = "or" -> {x.args[i] : i \in DOMAIN x.args}
           [] x.kind \in {"sequence", "alternative"} -> {x.a, x.b}
           [] OTHER -> {x.of}

\* A pattern is a tree, of finitely many triples at its leaves.
ASSUME PatternsAreTrees ==
    /\ \A p \in Pattern :
        /\ Operands(p) \subseteq Pattern /\ Expressions(p) \subseteq Expression
        /\ p.op = "path" => p.path \in PropertyPath
        /\ p.op = "bgp" => IsFiniteSet(p.triples)
    /\ \A e \in Expression :
        /\ e.kind = "exists" => e.pattern \in Pattern
        /\ e.kind = "not" => e.of \in Expression
        /\ e.kind = "or" => e.args \in Seq(Expression)
    /\ \A e \in PropertyPath :
        CASE e.kind \in {"predicate", "negated"} -> TRUE
          [] e.kind \in {"sequence", "alternative"} -> {e.a, e.b} \subseteq PropertyPath
          [] OTHER -> /\ e.kind \in {"reverse", "one_or_more", "zero_or_more", "zero_or_one"}
                      /\ e.of \in PropertyPath
    /\ \A x \in Part : Rank(x) \in Nat /\ \A c \in Children(x) : Rank(c) < Rank(x)

-----------------------------------------------------------------------------
(* The walks *)

\* The patterns an expression reads: its EXISTS, however deep.
ExistingOf(e, in) ==
    CASE e.kind = "exists" -> {e.pattern}
      [] e.kind = "not" -> in[e.of]
      [] e.kind = "or" -> UNION {in[e.args[i]] : i \in DOMAIN e.args}
      [] OTHER -> {}

Existing[e \in Expression] == ExistingOf(e, Existing)

\* The patterns a walk goes on to from a pattern, and all it reaches.
Below(p) == Operands(p) \cup UNION {Existing[e] : e \in Expressions(p)}

ReachedOf(p, in) == {p} \cup UNION {in[q] : q \in Below(p)}

Reached[p \in Pattern] == ReachedOf(p, Reached)

\* The variables a pattern may bind (spargebra's on_in_scope_variable).
InScopeOf(p, in) ==
    CASE p.op = "bgp" -> Variables(p.triples)
      [] p.op = "path" -> VarsOf(p.s) \cup VarsOf(p.o)
      [] p.op = "values" -> {p.var}
      [] p.op \in {"join", "optional", "union", "lateral"} -> in[p.left] \cup in[p.right]
      [] p.op = "minus" -> in[p.left]
      [] p.op = "extend" -> {p.var} \cup in[p.inner]
      [] p.op = "group" -> {p.var} \cup p.by
      [] p.op = "project" -> p.vars
      [] p.op = "graph" -> VarsOf(p.name) \cup in[p.inner]
      [] OTHER -> in[p.inner]

InScope[p \in Pattern] == InScopeOf(p, InScope)

\* A pattern whose solutions are those that Solutions says.
IsEvaluated(p) == \A q \in Reached[p] : q.op \notin {"lateral", "slice"}

-----------------------------------------------------------------------------
(* Datasets *)

TriplesOf(data, graph) == {q[2] : q \in {r \in data.quads : r[1] = graph}}

Dataset(quads, named) == [quads |-> quads, named |-> named]
\* A dataset that oxigraph keeps: every quad is in the default graph or in one that is
\* registered, and those have IRIs.
IsDataset(data) ==
    /\ data = Dataset(data.quads, data.named)
    /\ data.named \subseteq Graph
    /\ \A q \in data.quads : q[1] \in data.named \cup {DefaultGraph}

\* The triples that a pattern is matched with where so many graphs are active.
Reachable == Graph \cup {DefaultGraph, Remote}
Active(data, graphs) ==
    UNION {IF g = Remote THEN RemoteTriples ELSE TriplesOf(data, g) : g \in graphs}

-----------------------------------------------------------------------------
(* Solutions: sets of partial functions from variables to terms *)

Compatible(m, n) == \A v \in DOMAIN m \cap DOMAIN n : m[v] = n[v]

\* A solution of one variable, and one of two.
Binding(v, t) == [w \in {v} |-> t]
Merged(m, n) == [v \in DOMAIN m \cup DOMAIN n |-> IF v \in DOMAIN m THEN m[v] ELSE n[v]]

Joined(M, N) == {Merged(pair[1], pair[2]) :
                    pair \in {q \in M \X N : Compatible(q[1], q[2])}}

\* What triples chosen for triple patterns bind their variables to: each to what stands
\* where it occurs.
BoundTo(patterns, chosen) ==
    LET Occurs(v) == CHOOSE w \in patterns \X (1..3) : v \in VarsOf(w[1][w[2]])
        Found(t, i) == IF t[i][1] = "around" THEN Unwrapped(chosen[t][i]) ELSE chosen[t][i]
    IN [v \in Variables(patterns) |-> Found(Occurs(v)[1], Occurs(v)[2])]

\* The solutions of triple patterns over a set of triples: each is one of them when the
\* variables have their values.
Matches(patterns, triples) ==
    LET Fits(t, triple, m) ==
            \A i \in 1..3 : /\ t[i][1] = "around" => triple[i][2] > 0
                            /\ Value(t[i], m) = triple[i]
        chosen == {c \in [patterns -> triples] :
                    \A t \in patterns : Fits(t, c[t], BoundTo(patterns, c))}
    IN {BoundTo(patterns, c) : c \in chosen}

Closure(R) ==
    LET ends == {e[1] : e \in R} \cup {e[2] : e \in R}
        C == TransitiveClosure([x, y \in ends |-> <<x, y>> \in R], ends)
    IN {e \in ends \X ends : C[e[1], e[2]]}

\* The nodes a property path connects.
PairsOf(path, in, triples) ==
    LET nodes == {t[1] : t \in triples} \cup {t[3] : t \in triples}
    IN CASE path.kind = "predicate" ->
                {<<t[1], t[3]>> : t \in {u \in triples : u[2] = path.iri}}
         [] path.kind = "reverse" -> {<<e[2], e[1]>> : e \in in[path.of]}
         [] path.kind = "sequence" ->
                {<<p[1][1], p[2][2]>> :
                    p \in {q \in in[path.a] \X in[path.b] : q[1][2] = q[2][1]}}
         [] path.kind = "alternative" -> in[path.a] \cup in[path.b]
         [] path.kind = "one_or_more" -> Closure(in[path.of])
         [] path.kind = "zero_or_more" -> Closure(in[path.of]) \cup {<<n, n>> : n \in nodes}
         [] path.kind = "zero_or_one" -> in[path.of] \cup {<<n, n>> : n \in nodes}
         [] path.kind = "negated" ->
                {<<t[1], t[3]>> : t \in {u \in triples : u[2] # path.iri}}

Pairs(path, triples) ==
    LET pairs[e \in PropertyPath] == PairsOf(e, pairs, triples)
    IN pairs[path]

\* The value of an expression for a solution. exists has the solutions of the patterns
\* in it: an EXISTS holds of a solution that one of them is compatible with.
ValueOf(e, in, m, exists) ==
    LET Truth(b) == IF b THEN True ELSE False
    IN CASE e.kind = "term" -> e.term
         [] e.kind = "exists" -> Truth(\E n \in exists[e.pattern] : Compatible(m, n))
         [] e.kind = "not" -> Truth(in[e.of] # True)
         [] e.kind = "or" -> Truth(\E i \in DOMAIN e.args : in[e.args[i]] = True)
         [] e.kind = "triple" -> IF e.var \in DOMAIN m THEN Wrapped(m[e.var]) ELSE Unbound

Evaluated(e, m, exists) ==
    LET value[x \in Expression] == ValueOf(x, value, m, exists)
    IN value[e]

\* What the algebra's operators make of the solutions of their operands.
LeftJoined(M, N, e, exists) ==
    LET Kept(m) == {n \in Joined({m}, N) : Evaluated(e, n, exists) = True}
    IN UNION {IF Kept(m) = {} THEN {m} ELSE Kept(m) : m \in M}
Unmatched(M, N) ==
    {m \in M : ~\E n \in N : Compatible(m, n) /\ DOMAIN m \cap DOMAIN n # {}}
Filtered(M, e, exists) == {m \in M : Evaluated(e, m, exists) = True}
Extended(M, v, e, exists) ==
    {IF Evaluated(e, m, exists) = Unbound THEN m
     ELSE Merged(Binding(v, Evaluated(e, m, exists)), m) : m \in M}
Projected(M, vars) == {[v \in vars \cap DOMAIN m |-> m[v]] : m \in M}
Numeral(n) == <<ToString(n), 0>>
Grouped(M, by, v, e, exists) ==
    LET Counted(k) == {m \in M : Projected({m}, by) = {k} /\ Evaluated(e, m, exists) = True}
    IN {Merged(Binding(v, Numeral(Cardinality(Counted(k)))), k) : k \in Projected(M, by)}

\* The solutions of a pattern, given those of the patterns in it. Solutions are a set: a
\* store is one, so how often a solution occurs makes no difference to an update, and
\* COUNT is over distinct ones. DISTINCT, REDUCED and ORDER BY change nothing of a set.
Combined(p, of) ==
    CASE p.op = "values" -> {IF row = Unbound THEN <<>> ELSE Binding(p.var, row) : row \in p.rows}
      [] p.op = "join" -> Joined(of[p.left], of[p.right])
      [] p.op = "optional" -> LeftJoined(of[p.left], of[p.right], p.expr, of)
      [] p.op = "union" -> of[p.left] \cup of[p.right]
      [] p.op = "minus" -> Unmatched(of[p.left], of[p.right])
      [] p.op = "filter" -> Filtered(of[p.inner], p.expr, of)
      [] p.op = "extend" -> Extended(of[p.inner], p.var, p.expr, of)
      [] p.op = "group" -> Grouped(of[p.inner], p.by, p.var, p.expr, of)
      [] p.op = "project" -> Projected(of[p.inner], p.vars)
      [] p.op \in {"modifier", "order"} -> of[p.inner]
      [] OTHER -> {}                    \* lateral, slice

\* Those over a dataset, where so many of its graphs are active. A SERVICE is a SILENT
\* one: this crate's evaluator refuses it, and then it is silently one solution without a
\* variable. Another evaluator's would answer for Remote.
Produced(p, found, data, graphs, inside) ==
    LET Over(g) == found[p.inner][{g}][inside]
        active == Active(data, graphs)
    IN CASE p.op = "bgp" -> Matches(p.triples, active)
         [] p.op = "path" -> Matches({<<p.s, Const(True), p.o>>},
                                     {<<e[1], True, e[2]>> : e \in Pairs(p.path, active)})
         [] p.op = "graph" ->
                IF p.name[1] = "const"
                THEN IF p.name[2] \in data.named THEN Over(p.name[2])
                     ELSE found[p.inner][{}][inside]
                ELSE UNION {Joined({Binding(p.name[2], <<g, 0>>)}, Over(g)) : g \in data.named \ {Remote}}
         [] p.op = "service" -> IF Remote \in data.named THEN Over(Remote) ELSE {<<>>}
         [] OTHER -> Combined(p, [q \in Below(p) |-> found[q][graphs][inside]])

\* Variables may be given values beforehand: they are bound from the start wherever they
\* can be seen, in an EXISTS and in a MINUS too, which is up to where a sub-select or a
\* grouping hides them.
Inside(p, seen) == CASE p.op \in {"bgp", "path", "values"} -> {}
                     [] p.op \in {"project", "group"} -> seen \cap InScope[p]
                     [] OTHER -> seen

Substituted(M, given, vars) ==
    IF vars = {} THEN M ELSE Joined(M, {[v \in vars |-> given[v]]})

SolutionsOf(p, found, data, given, graphs, seen) ==
    LET inside == Inside(p, seen)
    IN Substituted(Produced(p, found, data, graphs, inside), given, seen \ inside)

Evaluation(data, given) ==
    LET found[p \in Pattern] ==
            [graphs \in SUBSET Reachable |-> [seen \in SUBSET DOMAIN given |->
                SolutionsOf(p, found, data, given, graphs, seen)]]
    IN found
Solutions(p, data, given, graphs) == Evaluation(data, given)[p][graphs][DOMAIN given]
=============================================================================
