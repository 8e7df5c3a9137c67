----------------------------- MODULE AlgebraCost -----------------------------
(***************************************************************************)
(* What a parsed query or update would cost to plan, measured before it is *)
(* planned: the widest list of patterns that the planner would have to put *)
(* in order, which takes it about the cube of that width and cannot be     *)
(* interrupted, and the number of the algebra's operators. The planner     *)
(* first erases the wrappers that it can tell to do nothing, and which     *)
(* those are its types decide, out of reach: so the walk counts every      *)
(* wrapper as erased. Lengths is the planner as far as that goes, with any *)
(* choice of wrappers erased.                                              *)
(***************************************************************************)
EXTENDS Operations

CONSTANTS MAX_JOIN_OPERANDS, MAX_ALGEBRA_NODES

ASSUME BoundsAreNumbers == MAX_JOIN_OPERANDS \in Nat /\ MAX_ALGEBRA_NODES \in Nat

Wider(m, n) == IF m < n THEN n ELSE m

-----------------------------------------------------------------------------
(* The walk *)

\* What a walk has counted: the operands a pattern puts into the join it sits in, the
\* operators, and the widest of the joins that are closed.
Cost(nodes, operands) == [nodes |-> nodes, operands |-> operands, widest |-> 0]
Plus(c, d) == [nodes |-> c.nodes + d.nodes, operands |-> c.operands + d.operands,
               widest |-> Wider(c.widest, d.widest)]
Sums(costs) ==
    LET sum[n \in 0..Len(costs)] == IF n = 0 THEN Cost(0, 0) ELSE Plus(sum[n - 1], costs[n])
    IN sum
Sum(costs) == Sums(costs)[Len(costs)]

\* A pattern that is a join of its own adds no operand to another.
Closed(c) == [c EXCEPT !.operands = 0, !.widest = Wider(c.widest, c.operands)]

\* One whose operands are counted apart.
Aside(c) == [c EXCEPT !.operands = 0]

\* Mistaken: a wrapper stays where it is, and is one operand.
Kept(c) == Plus(Cost(1, 1), Closed(c))

\* A wrapper that may be erased leaves its operands to the join around it.
Erased(c) == Plus(Cost(1, 0), c)

\* What the walk makes of a part, given what it makes of those in it. FILTER, BIND,
\* GRAPH, ORDER BY and LIMIT pass on what they wrap, OPTIONAL and MINUS their left side,
\* LATERAL the wider side. Nothing else can be erased.
join(p, of) ==
    CASE p.op = "bgp" -> Cost(Cardinality(p.triples), Wider(Cardinality(p.triples), 1))
      [] p.op = "path" -> Cost(of[p.path].nodes, 1)
      [] p.op = "values" -> Cost(1, 1)
      [] p.op = "join" -> Plus(Cost(1, 0), Plus(of[p.left], of[p.right]))
      [] p.op \in {"graph", "slice"} -> Erased(of[p.inner])
      [] p.op \in {"filter", "extend", "order"} -> Plus(of[p.expr], Erased(of[p.inner]))
      [] p.op = "optional" ->
            Plus(of[p.expr], Plus(Erased(of[p.left]), Closed(of[p.right])))
      [] p.op = "minus" -> Plus(Erased(of[p.left]), Closed(of[p.right]))
      [] p.op = "lateral" ->
            Plus(Cost(1, Wider(of[p.left].operands, of[p.right].operands)),
                 Plus(Aside(of[p.left]), Aside(of[p.right])))
      [] p.op = "union" -> Plus(Cost(1, 1), Plus(Closed(of[p.left]), Closed(of[p.right])))
      [] p.op = "group" -> Plus(of[p.expr], Plus(Cost(1, 1), Closed(of[p.inner])))
      [] OTHER -> Plus(Cost(1, 1), Closed(of[p.inner]))      \* project, modifier, service

expression(e, of) ==
    CASE e.kind = "term" -> Cost(0, 0)
      [] e.kind = "triple" -> Cost(1, 0)
      [] e.kind = "exists" -> Plus(Cost(1, 0), Closed(of[e.pattern]))
      [] e.kind = "not" -> Plus(Cost(1, 0), of[e.of])
      [] e.kind = "or" -> Plus(Cost(1, 0), Sum([i \in DOMAIN e.args |-> of[e.args[i]]]))

path(e, of) ==
    CASE e.kind \in {"predicate", "negated"} -> Cost(1, 0)
      [] e.kind \in {"sequence", "alternative"} -> Plus(Cost(1, 0), Plus(of[e.a], of[e.b]))
      [] OTHER -> Plus(Cost(1, 0), of[e.of])

CostOf(x, of) == IF x \in Pattern THEN join(x, of)
                 ELSE IF x \in Expression THEN expression(x, of) ELSE path(x, of)

walk[x \in Part] == CostOf(x, walk)

query_cost(p) == Closed(walk[p])

\* Each WHERE of an update is a join of its own, and their operators are added up.
update_cost(u) ==
    LET where(o) == IF o.op = "delete_insert" THEN query_cost(o.pattern) ELSE Cost(0, 0)
    IN Sum([i \in DOMAIN u |-> where(u[i])])

Affordable(cost) ==
    cost.widest <= MAX_JOIN_OPERANDS /\ cost.nodes <= MAX_ALGEBRA_NODES

check_query(p) == Affordable(query_cost(p))
check_update(u) == Affordable(update_cost(u))

-----------------------------------------------------------------------------
(* The planner *)

\* How many patterns a pattern may come to in the list it is planned in, given how many
\* those in it may: one if it stays, what it wraps if it is erased. A tree of joins is
\* flattened into the list, and an empty group may vanish.
LengthsOf(p, in) ==
    CASE p.op = "bgp" ->
            IF p.triples = {} THEN {0, 1} ELSE {Cardinality(p.triples)}
      [] p.op = "join" -> {l + r : l \in in[p.left], r \in in[p.right]}
      [] p.op = "graph" -> in[p.inner]
      [] p.op \in {"filter", "extend", "order", "slice"} -> {1} \cup in[p.inner]
      [] p.op \in {"optional", "minus"} -> {1} \cup in[p.left]
      [] p.op = "lateral" -> {1} \cup in[p.left] \cup in[p.right]
      [] OTHER -> {1}

Lengths[p \in Pattern] == LengthsOf(p, Lengths)

\* The lengths of all the lists there may be: of a pattern, and of those in it. Each
\* branch, sub-select and EXISTS is planned for itself.
WidthsOf(x, in) ==
    (IF x \in Pattern THEN Lengths[x] ELSE {}) \cup UNION {in[c] : c \in Children(x)}

Widths[x \in Part] == WidthsOf(x, Widths)

\* How deep an evaluator recurses into a part: a level for each pattern.
DepthsOf(x, in) ==
    LET below == UNION {in[c] : c \in Children(x)}
    IN IF x \in Pattern THEN {1} \cup {n + 1 : n \in below} ELSE below

Depths[x \in Part] == DepthsOf(x, Depths)

-----------------------------------------------------------------------------
VARIABLE shape

NoShape == [op |-> "none"]

ShapeInit == shape = NoShape
Parsed == shape = NoShape /\ shape' \in Pattern
Answer == shape # NoShape /\ shape' = NoShape
ShapeNext == Parsed \/ Answer
ShapeSpec == ShapeInit /\ [][ShapeNext]_shape

\* A text is let through only if it can be planned and run: whichever wrappers the
\* planner finds to do nothing and erases, no list that it puts in order, in an EXISTS
\* or a branch or a sub-select, is longer than the bound, and the evaluator recurses a
\* level at most for each operator that the stack was sized for. The rule costs no more
\* than it says: the width that is measured is that of some plan. And what the bounds
\* make of a text is no different when it is the WHERE of an update.
PlansStayWithinBounds ==
    LET cost == query_cost(shape)
        update == <<[op |-> "delete_insert", pattern |-> shape]>>
    IN shape # NoShape =>
        /\ check_query(shape) =>
                /\ \A width \in Widths[shape] : width <= MAX_JOIN_OPERANDS
                /\ \A depth \in Depths[shape] : depth <= MAX_ALGEBRA_NODES + 1
        /\ cost.widest \in Widths[shape]
        /\ check_update(update) = check_query(shape)

=============================================================================
