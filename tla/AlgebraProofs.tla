-------------------------- MODULE AlgebraProofs --------------------------
(***************************************************************************)
(* What is computed along patterns, proved for patterns of any shape and   *)
(* size, along the rank of their parts: what the walk measures of a        *)
(* pattern bounds whatever the planner makes of it; what VALUES says of    *)
(* the variables holds of every solution; and a pattern whose probes see   *)
(* nothing of what is lost has the same solutions without it.              *)
(***************************************************************************)
EXTENDS AlgebraCost, Footprint, Bindings, FiniteSetTheorems, WellFoundedInduction, TLAPS

-----------------------------------------------------------------------------
(* Induction and recursion along a rank. A statement is proved by the set of what it
   holds of, which is everything. *)

\* A set with the elements of every rank that it has all lower elements of has them all.
LEMMA ByRank ==
  ASSUME NEW D, NEW r \in [D -> Nat], NEW S,
         \A x \in D : (\A y \in D : r[y] < r[x] => y \in S) => x \in S
  PROVE  D \subseteq S
<1> DEFINE R == OpToRel(<, Nat)
           T == {r[x] : x \in D \ S}
<1> SUFFICES ASSUME NEW x0 \in D, x0 \notin S PROVE FALSE
  OBVIOUS
<1>1. \A m, k \in Nat : <<k, m>> \in R <=> k < m
  BY DEF OpToRel
<1>2. IsWellFoundedOn(R, Nat)
  BY NatLessThanWellFounded
<1> HIDE DEF R
<1>3. T \subseteq Nat /\ T # {}
  OBVIOUS
<1>4. PICK m \in T : \A k \in T : ~ (<<k, m>> \in R)
  BY <1>2, <1>3, WFMin
<1>5. PICK x \in D \ S : m = r[x]
  OBVIOUS
<1>6. \A y \in D : r[y] < r[x] => y \in S
  <2> SUFFICES ASSUME NEW y \in D, r[y] < r[x], y \notin S PROVE FALSE
    OBVIOUS
  <2>1. r[y] \in T /\ r[y] \in Nat /\ r[x] \in Nat
    OBVIOUS
  <2> HIDE DEF T
  <2> QED
    BY <1>1, <1>4, <1>5, <2>1
<1> QED
  BY <1>5, <1>6

\* A set of numbers with 0 and with the next of each number in it has them all.
LEMMA AllNumbers ==
  ASSUME NEW S, 0 \in S, \A n \in Nat : n \in S => n + 1 \in S
  PROVE  Nat \subseteq S
<1> DEFINE r == [n \in Nat |-> n]
<1>1. ASSUME NEW n \in Nat, \A k \in Nat : r[k] < r[n] => k \in S
      PROVE  n \in S
  <2>1. CASE n = 0
    BY <2>1
  <2>2. CASE n # 0
    <3>1. n - 1 \in Nat /\ n - 1 < n /\ (n - 1) + 1 = n
      BY <2>2
    <3>2. n - 1 \in S
      BY <1>1, <3>1
    <3> QED
      BY <3>1, <3>2
  <2> QED
    BY <2>1, <2>2
<1>2. r \in [Nat -> Nat]
  OBVIOUS
<1> HIDE DEF r
<1> QED
  BY <1>1, <1>2, ByRank

\* H makes a value of an element and of a function, of whose values it only looks at
\* those at the elements of lower rank.
Recursive(D, r, V, H) ==
    /\ r \in [D -> Nat] /\ V # {} /\ H \in [D \X [D -> V] -> V]
    /\ \A x \in D : \A f, g \in [D -> V] :
        (\A y \in D : r[y] < r[x] => f[y] = g[y]) => H[<<x, f>>] = H[<<x, g>>]

\* There is a function whose values are what H makes of them.
LEMMA Recursion ==
  ASSUME NEW D, NEW r, NEW V, NEW H, Recursive(D, r, V, H)
  PROVE  \E f \in [D -> V] : \A x \in D : f[x] = H[<<x, f>>]
<1> /\ r \in [D -> Nat] /\ V # {} /\ H \in [D \X [D -> V] -> V]
    /\ \A x \in D : \A f, g \in [D -> V] :
        (\A y \in D : r[y] < r[x] => f[y] = g[y]) => H[<<x, f>>] = H[<<x, g>>]
  BY DEF Recursive
<1> DEFINE Good(f, n) == \A x \in D : r[x] < n => f[x] = H[<<x, f>>]
           S == {n \in Nat : \E f \in [D -> V] : Good(f, n)}
           Some(n) == CHOOSE f \in [D -> V] : Good(f, n)
           h == [x \in D |-> Some(r[x] + 1)[x]]
<1>1. 0 \in S
  <2>1. PICK v \in V : TRUE
    OBVIOUS
  <2>2. [x \in D |-> v] \in [D -> V] /\ Good([x \in D |-> v], 0)
    BY <2>1
  <2> QED
    BY <2>2
<1>2. ASSUME NEW n \in Nat, n \in S
      PROVE  n + 1 \in S
  <2>1. PICK f \in [D -> V] : Good(f, n)
    BY <1>2
  <2> DEFINE g == [x \in D |-> H[<<x, f>>]]
  <2>2. g \in [D -> V]
    OBVIOUS
  <2>3. ASSUME NEW x \in D, r[x] < n + 1
        PROVE  g[x] = H[<<x, g>>]
    <3>1. \A y \in D : r[y] < r[x] => r[y] < n
      BY <2>3
    <3>2. \A y \in D : r[y] < r[x] => f[y] = g[y]
      BY <2>1, <3>1
    <3>3. H[<<x, f>>] = H[<<x, g>>]
      BY <2>2, <3>2
    <3> QED
      BY <3>3
  <2>4. Good(g, n + 1)
    BY <2>3
  <2> HIDE DEF g, Good
  <2> QED
    BY <2>2, <2>4
<1>3. \A n \in Nat : Some(n) \in [D -> V] /\ Good(Some(n), n)
  <2>1. Nat \subseteq S
    BY <1>1, <1>2, AllNumbers
  <2> HIDE DEF Good
  <2> QED
    BY <2>1
<1>4. ASSUME NEW x \in D, NEW m \in Nat, NEW n \in Nat, r[x] < m, r[x] < n
      PROVE  Some(m)[x] = Some(n)[x]
  <2> DEFINE f == Some(m)
             g == Some(n)
             A == {y \in D : r[y] < m /\ r[y] < n => f[y] = g[y]}
  <2>1. f \in [D -> V] /\ g \in [D -> V] /\ Good(f, m) /\ Good(g, n)
    BY <1>3
  <2> HIDE DEF f, g
  <2>2. ASSUME NEW y \in D, \A z \in D : r[z] < r[y] => z \in A
        PROVE  y \in A
    <3> SUFFICES ASSUME r[y] < m, r[y] < n PROVE f[y] = g[y]
      OBVIOUS
    <3>1. \A z \in D : r[z] < r[y] => r[z] < m /\ r[z] < n
      OBVIOUS
    <3>2. \A z \in D : r[z] < r[y] => f[z] = g[z]
      BY <2>2, <3>1
    <3>3. H[<<y, f>>] = H[<<y, g>>]
      BY <2>1, <3>2
    <3> QED
      BY <2>1, <3>3
  <2> HIDE DEF A
  <2>3. D \subseteq A
    BY <2>2, ByRank
  <2> QED
    BY <1>4, <2>3 DEF A, f, g
<1>5. h \in [D -> V]
  <2> HIDE DEF Some
  <2>1. \A x \in D : r[x] + 1 \in Nat
    OBVIOUS
  <2> QED
    BY <1>3, <2>1
<1>6. ASSUME NEW x \in D
      PROVE  h[x] = H[<<x, h>>]
  <2> DEFINE f == Some(r[x] + 1)
  <2>1. r[x] + 1 \in Nat /\ r[x] < r[x] + 1
    OBVIOUS
  <2>2. f \in [D -> V] /\ f[x] = H[<<x, f>>]
    BY <1>3, <2>1
  <2> HIDE DEF f, Good, Some
  <2>3. \A y \in D : r[y] < r[x] => f[y] = h[y]
    <3> SUFFICES ASSUME NEW y \in D, r[y] < r[x] PROVE f[y] = h[y]
      OBVIOUS
    <3>1. r[y] + 1 \in Nat /\ r[y] < r[y] + 1 /\ r[y] < r[x] + 1
      OBVIOUS
    <3> QED
      BY <1>4, <2>1, <3>1 DEF f
  <2>4. H[<<x, f>>] = H[<<x, h>>]
    BY <1>5, <2>2, <2>3
  <2>5. h[x] = f[x]
    BY DEF f
  <2> QED
    BY <2>2, <2>4, <2>5
<1> HIDE DEF h
<1> QED
  BY <1>5, <1>6

-----------------------------------------------------------------------------
(* Costs *)

Costs == [nodes : Nat, operands : Nat, widest : Nat]

-----------------------------------------------------------------------------
(* Parts *)

\* What a pattern is made of, by its operator.
LEMMA PartsOfPatterns ==
  ASSUME NEW p \in Pattern
  PROVE  /\ p \in Part
         /\ p.op = "bgp" => IsFiniteSet(p.triples)
         /\ p.op = "path" => p.path \in PropertyPath \cap Children(p)
         /\ p.op \in {"join", "optional", "union", "minus", "lateral"} =>
                {p.left, p.right} \subseteq Pattern \cap Children(p)
         /\ p.op \notin {"bgp", "path", "values",
                         "join", "optional", "union", "minus", "lateral"} =>
                p.inner \in Pattern \cap Children(p)
         /\ p.op \in {"optional", "filter", "extend", "group", "order"} =>
                p.expr \in Expression \cap Children(p)
<1>1. Children(p) =
        Operands(p) \cup Expressions(p) \cup IF p.op = "path" THEN {p.path} ELSE {}
  BY DEF Children
<1>2. /\ Operands(p) \subseteq Pattern /\ Expressions(p) \subseteq Expression
      /\ p.op = "path" => p.path \in PropertyPath
      /\ p.op = "bgp" => IsFiniteSet(p.triples)
  BY PatternsAreTrees
<1>3. p \in Part
  BY DEF Pattern
<1>4. CASE p.op \in {"bgp", "path", "values"}
  BY <1>1, <1>2, <1>3, <1>4
<1>5. CASE p.op \in {"join", "optional", "union", "minus", "lateral"}
  <2>1. Operands(p) = {p.left, p.right}
    BY <1>5 DEF Operands
  <2>2. p.op = "optional" => Expressions(p) = {p.expr}
    BY DEF Expressions
  <2> QED
    BY <1>1, <1>2, <1>3, <1>5, <2>1, <2>2
<1>6. CASE p.op \notin {"bgp", "path", "values",
                        "join", "optional", "union", "minus", "lateral"}
  <2>1. Operands(p) = {p.inner}
    BY <1>6 DEF Operands
  <2>2. p.op \in {"filter", "extend", "group", "order"} => Expressions(p) = {p.expr}
    BY DEF Expressions
  <2> QED
    BY <1>1, <1>2, <1>3, <1>6, <2>1, <2>2
<1> QED
  BY <1>4, <1>5, <1>6

\* What an expression is made of.
LEMMA PartsOfExpressions ==
  ASSUME NEW e \in Expression
  PROVE  /\ e \in Part /\ e \notin Pattern /\ e \notin PropertyPath
         /\ e.kind \in {"term", "triple", "exists", "not", "or"}
         /\ e.kind = "exists" => e.pattern \in Pattern \cap Children(e)
         /\ e.kind = "not" => e.of \in Expression \cap Children(e)
         /\ e.kind = "or" => /\ e.args \in Seq(Expression)
                             /\ \A i \in DOMAIN e.args : e.args[i] \in Expression \cap Children(e)
<1>1. /\ e \in Part /\ e \notin Pattern /\ e \notin PropertyPath
      /\ e.kind \in {"term", "triple", "exists", "not", "or"}
  BY DEF Expression, PropertyPath
<1>2. /\ e.kind = "exists" => e.pattern \in Pattern
      /\ e.kind = "not" => e.of \in Expression
      /\ e.kind = "or" => e.args \in Seq(Expression)
  BY PatternsAreTrees
<1>3. CASE e.kind = "exists"
  BY <1>1, <1>2, <1>3 DEF Children
<1>4. CASE e.kind = "or"
  <2>1. Children(e) = {e.args[i] : i \in DOMAIN e.args}
    BY <1>1, <1>4 DEF Children
  <2>2. \A i \in DOMAIN e.args : e.args[i] \in Expression
    BY <1>2, <1>4
  <2> QED
    BY <1>1, <1>2, <1>4, <2>1, <2>2
<1>5. CASE e.kind = "not"
  BY <1>1, <1>2, <1>5 DEF Children
<1>6. CASE e.kind \in {"term", "triple"}
  BY <1>1, <1>6
<1> QED
  BY <1>1, <1>3, <1>4, <1>5, <1>6

\* What a path is made of.
LEMMA PartsOfPaths ==
  ASSUME NEW e \in PropertyPath
  PROVE  /\ e \in Part /\ e \notin Pattern /\ e \notin Expression
         /\ e.kind \notin {"predicate", "negated", "sequence", "alternative"} =>
                e.of \in PropertyPath \cap Children(e)
         /\ e.kind \in {"sequence", "alternative"} =>
                {e.a, e.b} \subseteq PropertyPath \cap Children(e)
<1>1. /\ e \in Part /\ e \notin Pattern /\ e \notin Expression
      /\ e.kind \notin {"term", "triple", "exists", "not", "or"}
  BY DEF Expression, PropertyPath
<1>2. /\ e.kind \in {"sequence", "alternative"} => {e.a, e.b} \subseteq PropertyPath
      /\ e.kind \notin {"predicate", "negated", "sequence", "alternative"} => e.of \in PropertyPath
  BY PatternsAreTrees
<1>3. CASE e.kind \in {"sequence", "alternative"}
  BY <1>1, <1>2, <1>3 DEF Children
<1>4. CASE e.kind \notin {"predicate", "negated", "sequence", "alternative"}
  <2>1. Children(e) = {e.of}
    BY <1>1, <1>4 DEF Children
  <2> QED
    BY <1>1, <1>2, <1>4, <2>1
<1> QED
  BY <1>1, <1>3, <1>4

\* A part is an expression or a path if it is no pattern.
LEMMA KindsOfParts ==
  ASSUME NEW x \in Part, x \notin Pattern
  PROVE  x \in Expression \/ x \in PropertyPath
BY DEF PropertyPath

\* The ranks of the parts, and of what they are made of.
Ranks == [x \in Part |-> Rank(x)]
LEMMA ChildrenAreLower ==
  /\ Ranks \in [Part -> Nat]
  /\ \A x \in Part : \A c \in Children(x) : c \in Part /\ Ranks[c] < Ranks[x]
<1>1. Ranks \in [Part -> Nat]
  BY PatternsAreTrees DEF Ranks
<1>2. ASSUME NEW x \in Part, NEW c \in Children(x)
      PROVE  c \in Part
  <2>1. CASE x \in Pattern
    <3>1. c \in Operands(x) \/ c \in Expressions(x) \/ (x.op = "path" /\ c = x.path)
      BY <1>2, <2>1 DEF Children
    <3> QED
      BY <2>1, <3>1, PatternsAreTrees DEF Pattern, Expression, PropertyPath
  <2>2. CASE x \in Expression
    <3>1. /\ x.kind \in {"term", "triple"} => Children(x) = {}
          /\ x.kind = "exists" => Children(x) = {x.pattern}
          /\ x.kind = "not" => Children(x) = {x.of}
          /\ x.kind = "or" => Children(x) = {x.args[i] : i \in DOMAIN x.args}
      BY <2>2, PartsOfExpressions DEF Children
    <3>2. CASE x.kind = "or"
      <4>1. PICK i \in DOMAIN x.args : c = x.args[i]
        BY <1>2, <3>1, <3>2
      <4> QED
        BY <2>2, <3>2, <4>1, PartsOfExpressions DEF Expression
    <3>3. CASE x.kind = "exists"
      <4>1. c = x.pattern
        BY <1>2, <3>1, <3>3
      <4> QED
        BY <2>2, <3>3, <4>1, PartsOfExpressions DEF Pattern
    <3>4. CASE x.kind = "not"
      <4>1. c = x.of
        BY <1>2, <3>1, <3>4
      <4> QED
        BY <2>2, <3>4, <4>1, PartsOfExpressions DEF Expression
    <3>5. x.kind \in {"exists", "not", "or"}
      BY <1>2, <2>2, <3>1, PartsOfExpressions
    <3> QED
      BY <3>2, <3>3, <3>4, <3>5
  <2>3. CASE x \in PropertyPath
    <3>1. /\ x.kind \in {"predicate", "negated"} => Children(x) = {}
          /\ x.kind \in {"sequence", "alternative"} => Children(x) = {x.a, x.b}
          /\ x.kind \notin {"predicate", "negated", "sequence", "alternative"} =>
                Children(x) = {x.of}
      BY <2>3 DEF Children, PropertyPath, Expression
    <3> QED
      BY <2>3, <3>1, PartsOfPaths DEF PropertyPath
  <2> QED
    BY <2>1, <2>2, <2>3, KindsOfParts
<1>3. ASSUME NEW x \in Part, NEW c \in Children(x)
      PROVE  Ranks[c] < Ranks[x]
  BY <1>2, <1>3, PatternsAreTrees DEF Ranks
<1> QED
  BY <1>1, <1>2, <1>3

-----------------------------------------------------------------------------
(* Costs *)

\* What is added up and closed is a cost, and no less than what it is made of.
LEMMA CostsAreCosts ==
  ASSUME NEW c \in Costs, NEW d \in Costs, NEW n \in Nat, NEW k \in Nat
  PROVE  /\ Cost(n, k) \in Costs /\ Plus(c, d) \in Costs
         /\ Closed(c) \in Costs /\ Aside(c) \in Costs /\ Erased(c) \in Costs
<1>1. \A i, j \in Nat : Wider(i, j) \in Nat
  BY DEF Wider
<1>2. Cost(n, k) \in Costs /\ Cost(1, 0) \in Costs
  BY DEF Cost, Costs
<1>3. ASSUME NEW a \in Costs, NEW b \in Costs
      PROVE  Plus(a, b) \in Costs
  <2>1. /\ a.nodes + b.nodes \in Nat /\ a.operands + b.operands \in Nat
        /\ a.widest \in Nat /\ b.widest \in Nat
    BY DEF Costs
  <2> QED
    BY <1>1, <2>1 DEF Plus, Costs
<1>4. Closed(c) \in Costs /\ Aside(c) \in Costs
  BY <1>1 DEF Closed, Aside, Costs
<1> QED
  BY <1>2, <1>3, <1>4 DEF Erased

\* The fields of what is added up and closed.
LEMMA Fields ==
  ASSUME NEW c \in Costs, NEW d \in Costs, NEW n \in Nat, NEW k \in Nat
  PROVE  /\ Cost(n, k).nodes = n /\ Cost(n, k).operands = k /\ Cost(n, k).widest = 0
         /\ Plus(c, d).nodes = c.nodes + d.nodes
         /\ Plus(c, d).operands = c.operands + d.operands
         /\ Plus(c, d).widest = Wider(c.widest, d.widest)
         /\ Closed(c).nodes = c.nodes /\ Closed(c).operands = 0
         /\ Closed(c).widest = Wider(c.widest, c.operands)
         /\ Aside(c).nodes = c.nodes /\ Aside(c).operands = 0 /\ Aside(c).widest = c.widest
         /\ Erased(c).nodes = c.nodes + 1 /\ Erased(c).operands = c.operands
         /\ Erased(c).widest = c.widest
<1>1. c.nodes \in Nat /\ c.operands \in Nat /\ c.widest \in Nat
  BY DEF Costs
<1>2. Wider(0, c.widest) = c.widest
  BY <1>1 DEF Wider
<1>3. Erased(c).nodes = c.nodes + 1 /\ Erased(c).operands = c.operands
  BY <1>1 DEF Erased, Plus, Cost
<1>4. Erased(c).widest = c.widest
  BY <1>2 DEF Erased, Plus, Cost
<1>5. /\ Closed(c).nodes = c.nodes /\ Closed(c).operands = 0
      /\ Closed(c).widest = Wider(c.widest, c.operands)
      /\ Aside(c).nodes = c.nodes /\ Aside(c).operands = 0 /\ Aside(c).widest = c.widest
  BY DEF Closed, Aside, Costs
<1> QED
  BY <1>3, <1>4, <1>5 DEF Cost, Plus

\* A sum is added up one by one.
LEMMA SumsStepByStep ==
  ASSUME NEW n \in Nat, NEW costs \in [1..n -> Costs], Len(costs) = n
  PROVE  /\ Sums(costs)[0] = Cost(0, 0)
         /\ \A k \in 1..n : Sums(costs)[k] = Plus(Sums(costs)[k - 1], costs[k])
<1> DEFINE D == 0..n
           r == [k \in D |-> k]
           Next1(k, f) == IF k = 0 THEN Cost(0, 0) ELSE Plus(f[k - 1], costs[k])
           H == [kf \in D \X [D -> Costs] |-> Next1(kf[1], kf[2])]
<1>1. r \in [D -> Nat]
  OBVIOUS
<1>2. ASSUME NEW k \in D, NEW f \in [D -> Costs]
      PROVE  Next1(k, f) \in Costs
  <2>1. CASE k = 0
    <3>1. Cost(0, 0) \in Costs
      BY DEF Cost, Costs
    <3> QED
      BY <2>1, <3>1
  <2>2. CASE k # 0
    <3>1. k - 1 \in D /\ k \in 1..n
      BY <2>2
    <3>2. f[k - 1] \in Costs /\ costs[k] \in Costs
      BY <3>1
    <3>3. Plus(f[k - 1], costs[k]) \in Costs
      BY <3>2, CostsAreCosts
    <3> QED
      BY <2>2, <3>3
  <2> QED
    BY <2>1, <2>2
<1>3. H \in [D \X [D -> Costs] -> Costs]
  <2> HIDE DEF Next1
  <2> QED
    BY <1>2
<1>4. \A k \in D, f \in [D -> Costs] : H[<<k, f>>] = Next1(k, f)
  OBVIOUS
<1>5. ASSUME NEW k \in D, NEW f \in [D -> Costs], NEW g \in [D -> Costs],
             \A j \in D : r[j] < r[k] => f[j] = g[j]
      PROVE  H[<<k, f>>] = H[<<k, g>>]
  <2>1. CASE k = 0
    BY <1>4, <2>1
  <2>2. CASE k # 0
    <3>1. k - 1 \in D /\ k - 1 < k
      BY <2>2
    <3>2. f[k - 1] = g[k - 1]
      BY <1>5, <3>1
    <3> QED
      BY <1>4, <2>2, <3>2
  <2> QED
    BY <2>1, <2>2
<1>6. Costs # {}
  <2>1. Cost(0, 0) \in Costs
    BY DEF Cost, Costs
  <2> QED
    BY <2>1
<1>7. PICK f \in [D -> Costs] : \A k \in D : f[k] = H[<<k, f>>]
  <2>1. \A k \in D : \A f, g \in [D -> Costs] :
            (\A j \in D : r[j] < r[k] => f[j] = g[j]) => H[<<k, f>>] = H[<<k, g>>]
    BY <1>5
  <2> HIDE DEF r, H, D
  <2>2. Recursive(D, r, Costs, H)
    BY <1>1, <1>3, <1>6, <2>1 DEF Recursive
  <2> QED
    BY <2>2, Recursion
<1>8. f = [k \in 0..n |-> IF k = 0 THEN Cost(0, 0) ELSE Plus(f[k - 1], costs[k])]
  BY <1>4, <1>7
<1>9. Sums(costs) = [k \in 0..n |-> IF k = 0 THEN Cost(0, 0)
                                   ELSE Plus(Sums(costs)[k - 1], costs[k])]
  BY <1>8 DEF Sums
<1> QED
  BY <1>9

\* A sum is no less than what is added up, no wider, and of as many operands.
LEMMA SumsOfCosts ==
  ASSUME NEW n \in Nat, NEW costs \in [1..n -> Costs], Len(costs) = n
  PROVE  /\ Sum(costs) \in Costs
         /\ \A i \in 1..n : /\ costs[i].nodes <= Sum(costs).nodes
                            /\ costs[i].widest <= Sum(costs).widest
         /\ Sum(costs).widest = 0 \/ \E i \in 1..n : Sum(costs).widest = costs[i].widest
         /\ (\A i \in 1..n : costs[i].operands = 0) => Sum(costs).operands = 0
<1> DEFINE s == Sums(costs)
           Good(k) ==
             /\ s[k] \in Costs
             /\ \A i \in 1..k : /\ costs[i].nodes <= s[k].nodes
                                /\ costs[i].widest <= s[k].widest
             /\ s[k].widest = 0 \/ \E i \in 1..k : s[k].widest = costs[i].widest
             /\ (\A i \in 1..n : costs[i].operands = 0) => s[k].operands = 0
           S == {k \in Nat : k <= n => Good(k)}
<1>1. s[0] = Cost(0, 0) /\ \A k \in 1..n : s[k] = Plus(s[k - 1], costs[k])
  BY SumsStepByStep
<1> HIDE DEF s
<1>2. 0 \in S
  <2>1. s[0] \in Costs /\ s[0].widest = 0 /\ s[0].operands = 0
    BY <1>1 DEF Cost, Costs
  <2> QED
    BY <2>1
<1>3. ASSUME NEW k \in Nat, k \in S
      PROVE  k + 1 \in S
  <2> SUFFICES ASSUME k + 1 <= n PROVE Good(k + 1)
    OBVIOUS
  <2> DEFINE a == s[k]
             b == costs[k + 1]
             c == s[k + 1]
  <2>1. k + 1 \in 1..n /\ (k + 1) - 1 = k /\ k <= n
    OBVIOUS
  <2>2. Good(k)
    BY <1>3, <2>1
  <2>3. c = Plus(a, b) /\ a \in Costs /\ b \in Costs
    BY <1>1, <2>1, <2>2
  <2>4. /\ c \in Costs /\ c.nodes = a.nodes + b.nodes /\ c.operands = a.operands + b.operands
        /\ c.widest = Wider(a.widest, b.widest)
    BY <2>3, CostsAreCosts, Fields
  <2>5. /\ a.nodes \in Nat /\ b.nodes \in Nat /\ a.widest \in Nat /\ b.widest \in Nat
        /\ a.operands \in Nat /\ b.operands \in Nat
    BY <2>3 DEF Costs
  <2>6. /\ a.nodes <= c.nodes /\ b.nodes <= c.nodes
        /\ a.widest <= c.widest /\ b.widest <= c.widest
        /\ c.widest = a.widest \/ c.widest = b.widest
        /\ c.nodes \in Nat /\ c.widest \in Nat
    BY <2>4, <2>5, SMTT(30) DEF Wider
  <2>7. ASSUME NEW i \in 1..(k + 1)
        PROVE  costs[i].nodes <= c.nodes /\ costs[i].widest <= c.widest
    <3>1. CASE i = k + 1
      BY <2>6, <3>1
    <3>2. CASE i \in 1..k
      <4>1. costs[i].nodes <= a.nodes /\ costs[i].widest <= a.widest
        BY <2>2, <3>2
      <4>2. costs[i] \in Costs
        BY <2>1, <3>2
      <4>3. costs[i].nodes \in Nat /\ costs[i].widest \in Nat
        BY <4>2 DEF Costs
      <4> HIDE DEF a, b, c
      <4> QED
        BY <2>5, <2>6, <4>1, <4>3, SMTT(30)
    <3> QED
      BY <3>1, <3>2
  <2>8. c.widest = 0 \/ \E i \in 1..(k + 1) : c.widest = costs[i].widest
    <3>1. CASE c.widest = a.widest
      <4>1. a.widest = 0 \/ \E i \in 1..k : a.widest = costs[i].widest
        BY <2>2
      <4>2. 1..k \subseteq 1..(k + 1)
        OBVIOUS
      <4> QED
        BY <3>1, <4>1, <4>2
    <3>2. CASE c.widest = b.widest
      <4>1. k + 1 \in 1..(k + 1)
        OBVIOUS
      <4> QED
        BY <3>2, <4>1
    <3> QED
      BY <2>6, <3>1, <3>2
  <2>9. (\A i \in 1..n : costs[i].operands = 0) => c.operands = 0
    BY <2>1, <2>2, <2>4
  <2> QED
    BY <2>4, <2>7, <2>8, <2>9
<1>4. n \in S
  BY <1>2, <1>3, AllNumbers
<1> QED
  BY <1>4 DEF Sum, s

-----------------------------------------------------------------------------
(* The walk *)

\* What the walk makes of a part is a cost if what it makes of those in it are.
LEMMA CostsOfParts ==
  ASSUME NEW x \in Part, NEW of, \A c \in Children(x) : of[c] \in Costs
  PROVE  CostOf(x, of) \in Costs
<1> USE DEF CostOf
<1>1. ASSUME x \in Pattern
      PROVE  join(x, of) \in Costs
  <2>1. CASE x.op = "bgp"
    <3>1. Cardinality(x.triples) \in Nat
      BY <1>1, <2>1, PartsOfPatterns, FS_CardinalityType
    <3>2. Wider(Cardinality(x.triples), 1) \in Nat
      BY <3>1 DEF Wider
    <3>3. join(x, of) = Cost(Cardinality(x.triples), Wider(Cardinality(x.triples), 1))
      BY <2>1 DEF join
    <3> QED
      BY <3>1, <3>2, <3>3 DEF Cost, Costs
  <2>2. CASE x.op = "path"
    <3>1. of[x.path].nodes \in Nat
      BY <1>1, <2>2, PartsOfPatterns DEF Costs
    <3>2. join(x, of) = Cost(of[x.path].nodes, 1)
      BY <2>2 DEF join
    <3> QED
      BY <3>1, <3>2 DEF Cost, Costs
  <2>3. CASE x.op = "values"
    BY <2>3 DEF join, Cost, Costs
  <2>4. CASE x.op \in {"join", "optional", "union", "minus", "lateral"}
    <3>1. of[x.left] \in Costs /\ of[x.right] \in Costs
      BY <1>1, <2>4, PartsOfPatterns
    <3>2. x.op = "optional" => of[x.expr] \in Costs
      BY <1>1, <2>4, PartsOfPatterns
    <3>3. Cost(1, 0) \in Costs /\ Cost(1, 1) \in Costs
      BY DEF Cost, Costs
    <3>4. \A a, b \in Costs : /\ Plus(a, b) \in Costs /\ Closed(a) \in Costs
                              /\ Aside(a) \in Costs /\ Erased(a) \in Costs
      BY CostsAreCosts
    <3>5. Wider(of[x.left].operands, of[x.right].operands) \in Nat
      BY <3>1 DEF Wider, Costs
    <3>6. Cost(1, Wider(of[x.left].operands, of[x.right].operands)) \in Costs
      BY <3>5 DEF Cost, Costs
    <3>7. CASE x.op = "join"
      BY <3>1, <3>3, <3>4, <3>7 DEF join
    <3>8. CASE x.op = "optional"
      BY <3>1, <3>2, <3>4, <3>8 DEF join
    <3>9. CASE x.op = "union"
      BY <3>1, <3>3, <3>4, <3>9 DEF join
    <3>10. CASE x.op = "minus"
      BY <3>1, <3>4, <3>10 DEF join
    <3>11. CASE x.op = "lateral"
      BY <3>1, <3>4, <3>6, <3>11 DEF join
    <3> QED
      BY <2>4, <3>7, <3>8, <3>9, <3>10, <3>11
  <2>5. CASE x.op \notin {"bgp", "path", "values",
                          "join", "optional", "union", "minus", "lateral"}
    <3>1. of[x.inner] \in Costs
      BY <1>1, <2>5, PartsOfPatterns
    <3>2. x.op \in {"filter", "extend", "group", "order"} => of[x.expr] \in Costs
      BY <1>1, <2>5, PartsOfPatterns
    <3>3. Cost(1, 1) \in Costs
      BY DEF Cost, Costs
    <3>4. \A a, b \in Costs : /\ Plus(a, b) \in Costs /\ Closed(a) \in Costs
                              /\ Erased(a) \in Costs
      BY CostsAreCosts
    <3>5. CASE x.op \in {"graph", "slice"}
      BY <3>1, <3>4, <3>5 DEF join
    <3>6. CASE x.op \in {"filter", "extend", "order"}
      BY <3>1, <3>2, <3>4, <3>6 DEF join
    <3>7. CASE x.op = "group"
      BY <3>1, <3>2, <3>3, <3>4, <3>7 DEF join
    <3>8. CASE x.op \notin {"graph", "slice", "filter", "extend", "order", "group"}
      <4>1. join(x, of) = Plus(Cost(1, 1), Closed(of[x.inner]))
        BY <2>5, <3>8 DEF join
      <4> QED
        BY <3>1, <3>3, <3>4, <4>1
    <3> QED
      BY <3>5, <3>6, <3>7, <3>8
  <2> QED
    BY <2>1, <2>2, <2>3, <2>4, <2>5
<1>2. ASSUME x \in Expression
      PROVE  expression(x, of) \in Costs
  <2>1. Cost(0, 0) \in Costs /\ Cost(1, 0) \in Costs
    BY DEF Cost, Costs
  <2>2. \A a, b \in Costs : Plus(a, b) \in Costs /\ Closed(a) \in Costs
    BY CostsAreCosts
  <2>3. CASE x.kind \in {"term", "triple"}
    BY <2>1, <2>3 DEF expression
  <2>4. CASE x.kind = "exists"
    <3>1. of[x.pattern] \in Costs
      BY <1>2, <2>4, PartsOfExpressions
    <3> QED
      BY <2>1, <2>2, <2>4, <3>1 DEF expression
  <2>5. CASE x.kind = "not"
    <3>1. of[x.of] \in Costs
      BY <1>2, <2>5, PartsOfExpressions
    <3> QED
      BY <2>1, <2>2, <2>5, <3>1 DEF expression
  <2>6. CASE x.kind = "or"
    <3> DEFINE costs == [i \in DOMAIN x.args |-> of[x.args[i]]]
    <3>1. costs \in [1..Len(x.args) -> Costs] /\ Len(costs) = Len(x.args) /\ Len(x.args) \in Nat
      BY <1>2, <2>6, PartsOfExpressions
    <3>2. Sum(costs) \in Costs
      BY <3>1, SumsOfCosts
    <3>3. expression(x, of) = Plus(Cost(1, 0), Sum(costs))
      BY <2>6 DEF expression
    <3> HIDE DEF costs
    <3> QED
      BY <2>1, <2>2, <3>2, <3>3
  <2> QED
    BY <1>2, <2>3, <2>4, <2>5, <2>6, PartsOfExpressions
<1>3. ASSUME x \in PropertyPath
      PROVE  path(x, of) \in Costs
  <2>1. Cost(1, 0) \in Costs
    BY DEF Cost, Costs
  <2>2. \A a, b \in Costs : Plus(a, b) \in Costs
    BY CostsAreCosts
  <2>3. CASE x.kind \in {"predicate", "negated"}
    BY <2>1, <2>3 DEF path
  <2>4. CASE x.kind \in {"sequence", "alternative"}
    <3>1. of[x.a] \in Costs /\ of[x.b] \in Costs
      BY <1>3, <2>4, PartsOfPaths
    <3> QED
      BY <2>1, <2>2, <2>4, <3>1 DEF path
  <2>5. CASE x.kind \notin {"predicate", "negated", "sequence", "alternative"}
    <3>1. of[x.of] \in Costs
      BY <1>3, <2>5, PartsOfPaths
    <3>2. path(x, of) = Plus(Cost(1, 0), of[x.of])
      BY <2>5 DEF path
    <3> QED
      BY <2>1, <2>2, <3>1, <3>2
  <2> QED
    BY <2>3, <2>4, <2>5
<1> QED
  BY <1>1, <1>2, <1>3, KindsOfParts, PartsOfPaths, PartsOfExpressions

\* It depends on nothing else.
LEMMA CostsAreLocal ==
  ASSUME NEW x \in Part, NEW f, NEW g, \A c \in Children(x) : f[c] = g[c]
  PROVE  CostOf(x, f) = CostOf(x, g)
<1>1. CASE x \in Pattern
  <2>1. /\ x.op = "path" => f[x.path] = g[x.path]
        /\ x.op \in {"join", "optional", "union", "minus", "lateral"} =>
                f[x.left] = g[x.left] /\ f[x.right] = g[x.right]
        /\ x.op \notin {"bgp", "path", "values",
                        "join", "optional", "union", "minus", "lateral"} =>
                f[x.inner] = g[x.inner]
        /\ x.op \in {"optional", "filter", "extend", "group", "order"} =>
                f[x.expr] = g[x.expr]
    BY <1>1, PartsOfPatterns
  <2>2. join(x, f) = join(x, g)
    BY <2>1 DEF join
  <2> QED
    BY <1>1, <2>2 DEF CostOf
<1>2. CASE x \in Expression
  <2>1. /\ x.kind = "exists" => f[x.pattern] = g[x.pattern]
        /\ x.kind = "not" => f[x.of] = g[x.of]
        /\ x.kind = "or" => \A i \in DOMAIN x.args : f[x.args[i]] = g[x.args[i]]
    BY <1>2, PartsOfExpressions
  <2>2. x.kind = "or" =>
            [i \in DOMAIN x.args |-> f[x.args[i]]] = [i \in DOMAIN x.args |-> g[x.args[i]]]
    BY <2>1
  <2>3. expression(x, f) = expression(x, g)
    BY <2>1, <2>2 DEF expression
  <2> QED
    BY <1>2, <2>3, PartsOfExpressions DEF CostOf
<1>3. CASE x \in PropertyPath
  <2>1. /\ x.kind \in {"sequence", "alternative"} => f[x.a] = g[x.a] /\ f[x.b] = g[x.b]
        /\ x.kind \notin {"predicate", "negated", "sequence", "alternative"} =>
                f[x.of] = g[x.of]
    BY <1>3, PartsOfPaths
  <2>2. path(x, f) = path(x, g)
    BY <2>1 DEF path
  <2> QED
    BY <1>3, <2>2, PartsOfPaths DEF CostOf
<1> QED
  BY <1>1, <1>2, <1>3, KindsOfParts

\* The walk is what it is defined to be, and counts.
LEMMA WalkIsOfCosts == \A x \in Part : walk[x] = CostOf(x, walk) /\ walk[x] \in Costs
<1> DEFINE H == [xf \in Part \X [Part -> Costs] |-> CostOf(xf[1], xf[2])]
<1>1. Costs # {}
  <2>1. Cost(0, 0) \in Costs
    BY DEF Cost, Costs
  <2> QED
    BY <2>1
<1>2. \A x \in Part : \A c \in Children(x) : c \in Part /\ Ranks[c] < Ranks[x]
  BY ChildrenAreLower
<1>3. ASSUME NEW x \in Part, NEW f \in [Part -> Costs]
      PROVE  CostOf(x, f) \in Costs
  <2>1. \A c \in Children(x) : f[c] \in Costs
    BY <1>2
  <2> QED
    BY <2>1, CostsOfParts
<1>4. \A x \in Part : \A f, g \in [Part -> Costs] :
        (\A y \in Part : Ranks[y] < Ranks[x] => f[y] = g[y]) => H[<<x, f>>] = H[<<x, g>>]
  <2> SUFFICES ASSUME NEW x \in Part, NEW f \in [Part -> Costs], NEW g \in [Part -> Costs],
                      \A y \in Part : Ranks[y] < Ranks[x] => f[y] = g[y]
               PROVE  H[<<x, f>>] = H[<<x, g>>]
    OBVIOUS
  <2>1. \A c \in Children(x) : f[c] = g[c]
    BY <1>2
  <2>2. CostOf(x, f) = CostOf(x, g)
    BY <2>1, CostsAreLocal
  <2> QED
    BY <2>2
<1>5. H \in [Part \X [Part -> Costs] -> Costs]
  BY <1>3
<1>6. \A x \in Part, f \in [Part -> Costs] : H[<<x, f>>] = CostOf(x, f)
  OBVIOUS
<1> HIDE DEF H
<1>7. Recursive(Part, Ranks, Costs, H)
  BY <1>1, <1>4, <1>5, ChildrenAreLower DEF Recursive
<1>8. PICK f \in [Part -> Costs] : \A x \in Part : f[x] = H[<<x, f>>]
  BY <1>7, Recursion
<1>9. f = [x \in Part |-> CostOf(x, f)]
  BY <1>6, <1>8
<1>10. walk = [x \in Part |-> CostOf(x, walk)]
  BY <1>9 DEF walk
<1> DEFINE S == {x \in Part : walk[x] \in Costs}
<1>11. ASSUME NEW x \in Part, \A y \in Part : Ranks[y] < Ranks[x] => y \in S
       PROVE  x \in S
  <2>1. \A c \in Children(x) : walk[c] \in Costs
    BY <1>2, <1>11
  <2>2. walk[x] = CostOf(x, walk)
    BY <1>10
  <2> QED
    BY <2>1, <2>2, CostsOfParts
<1>12. Part \subseteq S
  <2> HIDE DEF S
  <2> QED
    BY <1>11, ChildrenAreLower, ByRank
<1> QED
  BY <1>10, <1>12

-----------------------------------------------------------------------------
(* The planner *)

\* What a pattern may come to is a set of numbers, and depends on its operands alone.
LEMMA LengthsOfOperands ==
  ASSUME NEW p \in Pattern, NEW in, \A c \in Operands(p) : in[c] \in SUBSET Nat
  PROVE  LengthsOf(p, in) \in SUBSET Nat
<1>1. CASE p.op \in {"bgp", "path", "values"}
  <2>1. p.op = "bgp" => Cardinality(p.triples) \in Nat
    BY PartsOfPatterns, FS_CardinalityType
  <2> QED
    BY <1>1, <2>1 DEF LengthsOf
<1>2. CASE p.op \in {"join", "optional", "union", "minus", "lateral"}
  <2>1. in[p.left] \in SUBSET Nat /\ in[p.right] \in SUBSET Nat
    BY <1>2 DEF Operands
  <2>2. CASE p.op = "join"
    <3>1. LengthsOf(p, in) = {l + r : l \in in[p.left], r \in in[p.right]}
      BY <2>2 DEF LengthsOf
    <3>2. \A l \in in[p.left], r \in in[p.right] : l + r \in Nat
      BY <2>1
    <3> QED
      BY <3>1, <3>2
  <2>3. CASE p.op # "join"
    BY <1>2, <2>1, <2>3 DEF LengthsOf
  <2> QED
    BY <2>2, <2>3
<1>3. CASE p.op \notin {"bgp", "path", "values",
                        "join", "optional", "union", "minus", "lateral"}
  <2>1. in[p.inner] \in SUBSET Nat
    BY <1>3 DEF Operands
  <2> QED
    BY <1>3, <2>1 DEF LengthsOf
<1> QED
  BY <1>1, <1>2, <1>3

LEMMA LengthsAreLocal ==
  ASSUME NEW p \in Pattern, NEW f, NEW g, \A c \in Operands(p) : f[c] = g[c]
  PROVE  LengthsOf(p, f) = LengthsOf(p, g)
<1>1. /\ p.op \in {"join", "optional", "union", "minus", "lateral"} =>
            f[p.left] = g[p.left] /\ f[p.right] = g[p.right]
      /\ p.op \notin {"bgp", "path", "values",
                      "join", "optional", "union", "minus", "lateral"} =>
            f[p.inner] = g[p.inner]
  BY DEF Operands
<1> QED
  BY <1>1 DEF LengthsOf

\* An operand is a pattern of lower rank.
LEMMA OperandsAreLower ==
  /\ Ranks \in [Part -> Nat] /\ Pattern \subseteq Part
  /\ \A p \in Pattern : \A c \in Operands(p) : c \in Pattern /\ Ranks[c] < Ranks[p]
<1>1. Pattern \subseteq Part
  BY DEF Pattern
<1>2. \A p \in Pattern : Operands(p) \subseteq Pattern \cap Children(p)
  BY PatternsAreTrees DEF Children
<1> QED
  BY <1>1, <1>2, ChildrenAreLower


\* The lengths are what they are defined to be.
LEMMA LengthsAreNumbers == \A x \in Pattern : Lengths[x] = LengthsOf(x, Lengths) /\ Lengths[x] \in SUBSET Nat
<1> DEFINE r == [p \in Pattern |-> Ranks[p]]
           H == [xf \in Pattern \X [Pattern -> SUBSET Nat] |-> LengthsOf(xf[1], xf[2])]
<1>1. r \in [Pattern -> Nat]
  BY OperandsAreLower
<1>2. \A x \in Pattern : \A c \in Operands(x) : c \in Pattern /\ r[c] < r[x]
  BY OperandsAreLower
<1> HIDE DEF r
<1>3. ASSUME NEW x \in Pattern, NEW f \in [Pattern -> SUBSET Nat]
      PROVE  LengthsOf(x, f) \in SUBSET Nat
  <2>1. \A c \in Operands(x) : f[c] \in SUBSET Nat
    BY <1>2
  <2> QED
    BY <2>1, LengthsOfOperands
<1>4. \A x \in Pattern : \A f, g \in [Pattern -> SUBSET Nat] :
        (\A y \in Pattern : r[y] < r[x] => f[y] = g[y]) => H[<<x, f>>] = H[<<x, g>>]
  <2> SUFFICES ASSUME NEW x \in Pattern, NEW f \in [Pattern -> SUBSET Nat],
                      NEW g \in [Pattern -> SUBSET Nat],
                      \A y \in Pattern : r[y] < r[x] => f[y] = g[y]
               PROVE  H[<<x, f>>] = H[<<x, g>>]
    OBVIOUS
  <2>1. \A c \in Operands(x) : f[c] = g[c]
    BY <1>2
  <2>2. LengthsOf(x, f) = LengthsOf(x, g)
    BY <2>1, LengthsAreLocal
  <2> QED
    BY <2>2
<1>5. H \in [Pattern \X [Pattern -> SUBSET Nat] -> SUBSET Nat]
  BY <1>3
<1>6. \A x \in Pattern, f \in [Pattern -> SUBSET Nat] : H[<<x, f>>] = LengthsOf(x, f)
  OBVIOUS
<1> HIDE DEF H
<1>7. Recursive(Pattern, r, SUBSET Nat, H)
  <2>1. SUBSET Nat # {}
    BY {} \in SUBSET Nat
  <2> QED
    BY <1>1, <1>4, <1>5, <2>1 DEF Recursive
<1>8. PICK f \in [Pattern -> SUBSET Nat] : \A x \in Pattern : f[x] = H[<<x, f>>]
  BY <1>7, Recursion
<1>9. f = [x \in Pattern |-> LengthsOf(x, f)]
  BY <1>6, <1>8
<1>10. Lengths = [x \in Pattern |-> LengthsOf(x, Lengths)]
  BY <1>9 DEF Lengths
<1> DEFINE S == {x \in Pattern : Lengths[x] \in SUBSET Nat}
<1>11. ASSUME NEW x \in Pattern, \A y \in Pattern : r[y] < r[x] => y \in S
       PROVE  x \in S
  <2>1. \A c \in Operands(x) : Lengths[c] \in SUBSET Nat
    BY <1>2, <1>11
  <2>2. Lengths[x] = LengthsOf(x, Lengths)
    BY <1>10
  <2> QED
    BY <2>1, <2>2, LengthsOfOperands
<1>12. Pattern \subseteq S
  <2> HIDE DEF S
  <2> QED
    BY <1>1, <1>11, ByRank
<1> QED
  BY <1>10, <1>12


\* The widths of a part are numbers if those of what it is made of are; so are its depths.
LEMMA NumbersOfParts ==
  ASSUME NEW x \in Part, NEW in, \A c \in Children(x) : in[c] \in SUBSET Nat
  PROVE  WidthsOf(x, in) \in SUBSET Nat /\ DepthsOf(x, in) \in SUBSET Nat
<1>1. UNION {in[c] : c \in Children(x)} \in SUBSET Nat
  OBVIOUS
<1>2. x \in Pattern => Lengths[x] \in SUBSET Nat
  BY LengthsAreNumbers
<1> QED
  BY <1>1, <1>2 DEF WidthsOf, DepthsOf

LEMMA NumbersAreLocal ==
  ASSUME NEW x \in Part, NEW f, NEW g, \A c \in Children(x) : f[c] = g[c]
  PROVE  WidthsOf(x, f) = WidthsOf(x, g) /\ DepthsOf(x, f) = DepthsOf(x, g)
<1>1. {f[c] : c \in Children(x)} = {g[c] : c \in Children(x)}
  OBVIOUS
<1> QED
  BY <1>1 DEF WidthsOf, DepthsOf


\* The widths are what they are defined to be.
LEMMA WidthsAreNumbers == \A x \in Part : Widths[x] = WidthsOf(x, Widths) /\ Widths[x] \in SUBSET Nat
<1> DEFINE r == Ranks
           H == [xf \in Part \X [Part -> SUBSET Nat] |-> WidthsOf(xf[1], xf[2])]
<1>1. r \in [Part -> Nat]
  BY ChildrenAreLower
<1>2. \A x \in Part : \A c \in Children(x) : c \in Part /\ r[c] < r[x]
  BY ChildrenAreLower
<1> HIDE DEF r
<1>3. ASSUME NEW x \in Part, NEW f \in [Part -> SUBSET Nat]
      PROVE  WidthsOf(x, f) \in SUBSET Nat
  <2>1. \A c \in Children(x) : f[c] \in SUBSET Nat
    BY <1>2
  <2> QED
    BY <2>1, NumbersOfParts
<1>4. \A x \in Part : \A f, g \in [Part -> SUBSET Nat] :
        (\A y \in Part : r[y] < r[x] => f[y] = g[y]) => H[<<x, f>>] = H[<<x, g>>]
  <2> SUFFICES ASSUME NEW x \in Part, NEW f \in [Part -> SUBSET Nat],
                      NEW g \in [Part -> SUBSET Nat],
                      \A y \in Part : r[y] < r[x] => f[y] = g[y]
               PROVE  H[<<x, f>>] = H[<<x, g>>]
    OBVIOUS
  <2>1. \A c \in Children(x) : f[c] = g[c]
    BY <1>2
  <2>2. WidthsOf(x, f) = WidthsOf(x, g)
    BY <2>1, NumbersAreLocal
  <2> QED
    BY <2>2
<1>5. H \in [Part \X [Part -> SUBSET Nat] -> SUBSET Nat]
  BY <1>3
<1>6. \A x \in Part, f \in [Part -> SUBSET Nat] : H[<<x, f>>] = WidthsOf(x, f)
  OBVIOUS
<1> HIDE DEF H
<1>7. Recursive(Part, r, SUBSET Nat, H)
  <2>1. SUBSET Nat # {}
    BY {} \in SUBSET Nat
  <2> QED
    BY <1>1, <1>4, <1>5, <2>1 DEF Recursive
<1>8. PICK f \in [Part -> SUBSET Nat] : \A x \in Part : f[x] = H[<<x, f>>]
  BY <1>7, Recursion
<1>9. f = [x \in Part |-> WidthsOf(x, f)]
  BY <1>6, <1>8
<1>10. Widths = [x \in Part |-> WidthsOf(x, Widths)]
  BY <1>9 DEF Widths
<1> DEFINE S == {x \in Part : Widths[x] \in SUBSET Nat}
<1>11. ASSUME NEW x \in Part, \A y \in Part : r[y] < r[x] => y \in S
       PROVE  x \in S
  <2>1. \A c \in Children(x) : Widths[c] \in SUBSET Nat
    BY <1>2, <1>11
  <2>2. Widths[x] = WidthsOf(x, Widths)
    BY <1>10
  <2> QED
    BY <2>1, <2>2, NumbersOfParts
<1>12. Part \subseteq S
  <2> HIDE DEF S
  <2> QED
    BY <1>1, <1>11, ByRank
<1> QED
  BY <1>10, <1>12


\* The depths are what they are defined to be.
LEMMA DepthsAreNumbers == \A x \in Part : Depths[x] = DepthsOf(x, Depths) /\ Depths[x] \in SUBSET Nat
<1> DEFINE r == Ranks
           H == [xf \in Part \X [Part -> SUBSET Nat] |-> DepthsOf(xf[1], xf[2])]
<1>1. r \in [Part -> Nat]
  BY ChildrenAreLower
<1>2. \A x \in Part : \A c \in Children(x) : c \in Part /\ r[c] < r[x]
  BY ChildrenAreLower
<1> HIDE DEF r
<1>3. ASSUME NEW x \in Part, NEW f \in [Part -> SUBSET Nat]
      PROVE  DepthsOf(x, f) \in SUBSET Nat
  <2>1. \A c \in Children(x) : f[c] \in SUBSET Nat
    BY <1>2
  <2> QED
    BY <2>1, NumbersOfParts
<1>4. \A x \in Part : \A f, g \in [Part -> SUBSET Nat] :
        (\A y \in Part : r[y] < r[x] => f[y] = g[y]) => H[<<x, f>>] = H[<<x, g>>]
  <2> SUFFICES ASSUME NEW x \in Part, NEW f \in [Part -> SUBSET Nat],
                      NEW g \in [Part -> SUBSET Nat],
                      \A y \in Part : r[y] < r[x] => f[y] = g[y]
               PROVE  H[<<x, f>>] = H[<<x, g>>]
    OBVIOUS
  <2>1. \A c \in Children(x) : f[c] = g[c]
    BY <1>2
  <2>2. DepthsOf(x, f) = DepthsOf(x, g)
    BY <2>1, NumbersAreLocal
  <2> QED
    BY <2>2
<1>5. H \in [Part \X [Part -> SUBSET Nat] -> SUBSET Nat]
  BY <1>3
<1>6. \A x \in Part, f \in [Part -> SUBSET Nat] : H[<<x, f>>] = DepthsOf(x, f)
  OBVIOUS
<1> HIDE DEF H
<1>7. Recursive(Part, r, SUBSET Nat, H)
  <2>1. SUBSET Nat # {}
    BY {} \in SUBSET Nat
  <2> QED
    BY <1>1, <1>4, <1>5, <2>1 DEF Recursive
<1>8. PICK f \in [Part -> SUBSET Nat] : \A x \in Part : f[x] = H[<<x, f>>]
  BY <1>7, Recursion
<1>9. f = [x \in Part |-> DepthsOf(x, f)]
  BY <1>6, <1>8
<1>10. Depths = [x \in Part |-> DepthsOf(x, Depths)]
  BY <1>9 DEF Depths
<1> DEFINE S == {x \in Part : Depths[x] \in SUBSET Nat}
<1>11. ASSUME NEW x \in Part, \A y \in Part : r[y] < r[x] => y \in S
       PROVE  x \in S
  <2>1. \A c \in Children(x) : Depths[c] \in SUBSET Nat
    BY <1>2, <1>11
  <2>2. Depths[x] = DepthsOf(x, Depths)
    BY <1>10
  <2> QED
    BY <2>1, <2>2, NumbersOfParts
<1>12. Part \subseteq S
  <2> HIDE DEF S
  <2> QED
    BY <1>1, <1>11, ByRank
<1> QED
  BY <1>10, <1>12

-----------------------------------------------------------------------------
(* What is counted bounds what is planned *)

\* The fields of what the walk makes of a pattern, by its operator.
LEMMA FieldsOfPatterns ==
  ASSUME NEW p \in Pattern
  PROVE  LET c == walk[p]
             left == walk[p.left]
             right == walk[p.right]
             inner == walk[p.inner]
             expr == walk[p.expr]
         IN /\ p.op = "bgp" =>
                    /\ Cardinality(p.triples) \in Nat
                    /\ c = Cost(Cardinality(p.triples), Wider(Cardinality(p.triples), 1))
            /\ p.op = "path" => c = Cost(walk[p.path].nodes, 1)
            /\ p.op = "values" => c = Cost(1, 1)
            /\ p.op \in {"join", "optional", "union", "minus", "lateral"} =>
                    left \in Costs /\ right \in Costs
            /\ p.op \notin {"bgp", "path", "values",
                            "join", "optional", "union", "minus", "lateral"} => inner \in Costs
            /\ p.op \in {"optional", "filter", "extend", "group", "order"} => expr \in Costs
            /\ p.op = "join" =>
                    /\ c.nodes = 1 + (left.nodes + right.nodes)
                    /\ c.operands = 0 + (left.operands + right.operands)
                    /\ c.widest = Wider(0, Wider(left.widest, right.widest))
            /\ p.op \in {"graph", "slice"} =>
                    /\ c.nodes = inner.nodes + 1 /\ c.operands = inner.operands
                    /\ c.widest = inner.widest
            /\ p.op \in {"filter", "extend", "order"} =>
                    /\ c.nodes = expr.nodes + (inner.nodes + 1)
                    /\ c.operands = expr.operands + inner.operands
                    /\ c.widest = Wider(expr.widest, inner.widest)
            /\ p.op = "optional" =>
                    /\ c.nodes = expr.nodes + ((left.nodes + 1) + right.nodes)
                    /\ c.operands = expr.operands + (left.operands + 0)
                    /\ c.widest = Wider(expr.widest,
                                        Wider(left.widest, Wider(right.widest, right.operands)))
            /\ p.op = "minus" =>
                    /\ c.nodes = (left.nodes + 1) + right.nodes
                    /\ c.operands = left.operands + 0
                    /\ c.widest = Wider(left.widest, Wider(right.widest, right.operands))
            /\ p.op = "lateral" =>
                    /\ c.nodes = 1 + (left.nodes + right.nodes)
                    /\ c.operands = Wider(left.operands, right.operands) + (0 + 0)
                    /\ c.widest = Wider(0, Wider(left.widest, right.widest))
            /\ p.op = "union" =>
                    /\ c.nodes = 1 + (left.nodes + right.nodes)
                    /\ c.operands = 1 + (0 + 0)
                    /\ c.widest = Wider(0, Wider(Wider(left.widest, left.operands),
                                                 Wider(right.widest, right.operands)))
            /\ p.op = "group" =>
                    /\ c.nodes = expr.nodes + (1 + inner.nodes)
                    /\ c.operands = expr.operands + (1 + 0)
                    /\ c.widest = Wider(expr.widest,
                                        Wider(0, Wider(inner.widest, inner.operands)))
            /\ p.op \notin {"bgp", "path", "values", "join", "optional", "union", "minus",
                            "lateral", "graph", "slice", "filter", "extend", "order", "group"} =>
                    /\ c.nodes = 1 + inner.nodes /\ c.operands = 1 + 0
                    /\ c.widest = Wider(0, Wider(inner.widest, inner.operands))
<1> DEFINE c == walk[p]
           left == walk[p.left]
           right == walk[p.right]
           inner == walk[p.inner]
           expr == walk[p.expr]
<1>1. c = join(p, walk)
  BY WalkIsOfCosts DEF CostOf, Pattern
<1>2. /\ p.op \in {"join", "optional", "union", "minus", "lateral"} =>
            left \in Costs /\ right \in Costs
      /\ p.op \notin {"bgp", "path", "values",
                      "join", "optional", "union", "minus", "lateral"} => inner \in Costs
      /\ p.op \in {"optional", "filter", "extend", "group", "order"} => expr \in Costs
  BY PartsOfPatterns, WalkIsOfCosts DEF Pattern, Expression
<1>3. \A n, k \in Nat : /\ Cost(n, k) \in Costs /\ Cost(n, k).nodes = n
                        /\ Cost(n, k).operands = k /\ Cost(n, k).widest = 0
  BY DEF Cost, Costs
<1>4. \A a, b \in Costs :
        /\ Plus(a, b) \in Costs /\ Plus(a, b).nodes = a.nodes + b.nodes
        /\ Plus(a, b).operands = a.operands + b.operands
        /\ Plus(a, b).widest = Wider(a.widest, b.widest)
  BY CostsAreCosts, Fields
<1>5. \A a \in Costs :
        /\ Closed(a) \in Costs /\ Closed(a).nodes = a.nodes /\ Closed(a).operands = 0
        /\ Closed(a).widest = Wider(a.widest, a.operands)
  BY CostsAreCosts, Fields
<1>6. \A a \in Costs :
        /\ Aside(a) \in Costs /\ Aside(a).nodes = a.nodes /\ Aside(a).operands = 0
        /\ Aside(a).widest = a.widest
  BY CostsAreCosts, Fields
<1>7. \A a \in Costs :
        /\ Erased(a) \in Costs /\ Erased(a).nodes = a.nodes + 1
        /\ Erased(a).operands = a.operands /\ Erased(a).widest = a.widest
  BY CostsAreCosts, Fields
<1>8. CASE p.op \in {"bgp", "path", "values"}
  <2>1. p.op = "bgp" => Cardinality(p.triples) \in Nat
    BY PartsOfPatterns, FS_CardinalityType
  <2> QED
    BY <1>1, <1>8, <2>1 DEF join
<1>9. CASE p.op = "join"
  <2>1. c = Plus(Cost(1, 0), Plus(left, right))
    BY <1>1, <1>9 DEF join
  <2> HIDE DEF c, left, right
  <2>2. Plus(left, right) \in Costs
    BY <1>2, <1>4, <1>9
  <2>3. /\ c.nodes = 1 + (left.nodes + right.nodes)
        /\ c.operands = 0 + (left.operands + right.operands)
        /\ c.widest = Wider(0, Wider(left.widest, right.widest))
    BY <1>2, <1>3, <1>4, <1>9, <2>1, <2>2
  <2> QED
    BY <1>2, <1>9, <2>3 DEF c, left, right
<1>10. CASE p.op \in {"graph", "slice"}
  <2>1. c = Erased(inner)
    BY <1>1, <1>10 DEF join
  <2> HIDE DEF c, inner
  <2>2. c.nodes = inner.nodes + 1 /\ c.operands = inner.operands /\ c.widest = inner.widest
    BY <1>2, <1>7, <1>10, <2>1
  <2> QED
    BY <1>2, <1>10, <2>2 DEF c, inner
<1>11. CASE p.op \in {"filter", "extend", "order"}
  <2>1. c = Plus(expr, Erased(inner))
    BY <1>1, <1>11 DEF join
  <2> HIDE DEF c, inner, expr
  <2>2. /\ c.nodes = expr.nodes + (inner.nodes + 1)
        /\ c.operands = expr.operands + inner.operands
        /\ c.widest = Wider(expr.widest, inner.widest)
    BY <1>2, <1>4, <1>7, <1>11, <2>1
  <2> QED
    BY <1>2, <1>11, <2>2 DEF c, inner, expr
<1>12. CASE p.op = "optional"
  <2>1. c = Plus(expr, Plus(Erased(left), Closed(right)))
    BY <1>1, <1>12 DEF join
  <2> HIDE DEF c, left, right, expr
  <2>2. Erased(left) \in Costs /\ Closed(right) \in Costs /\ expr \in Costs
    BY <1>2, <1>5, <1>7, <1>12
  <2>3. Plus(Erased(left), Closed(right)) \in Costs
    BY <1>4, <2>2
  <2>4. /\ c.nodes = expr.nodes + ((left.nodes + 1) + right.nodes)
        /\ c.operands = expr.operands + (left.operands + 0)
        /\ c.widest = Wider(expr.widest,
                            Wider(left.widest, Wider(right.widest, right.operands)))
    BY <1>2, <1>4, <1>5, <1>7, <1>12, <2>1, <2>2, <2>3
  <2> QED
    BY <1>2, <1>12, <2>4 DEF c, left, right, expr
<1>13. CASE p.op = "minus"
  <2>1. c = Plus(Erased(left), Closed(right))
    BY <1>1, <1>13 DEF join
  <2> HIDE DEF c, left, right
  <2>2. /\ c.nodes = (left.nodes + 1) + right.nodes
        /\ c.operands = left.operands + 0
        /\ c.widest = Wider(left.widest, Wider(right.widest, right.operands))
    BY <1>2, <1>4, <1>5, <1>7, <1>13, <2>1
  <2> QED
    BY <1>2, <1>13, <2>2 DEF c, left, right
<1>14. CASE p.op = "lateral"
  <2> DEFINE n == Wider(left.operands, right.operands)
  <2>1. c = Plus(Cost(1, n), Plus(Aside(left), Aside(right)))
    BY <1>1, <1>14 DEF join
  <2>2. n \in Nat
    BY <1>2, <1>14 DEF Wider, Costs
  <2> HIDE DEF c, left, right, n
  <2>3. Aside(left) \in Costs /\ Aside(right) \in Costs /\ Cost(1, n) \in Costs
    BY <1>2, <1>3, <1>6, <1>14, <2>2
  <2>4. Plus(Aside(left), Aside(right)) \in Costs
    BY <1>4, <2>3
  <2>5. /\ c.nodes = 1 + (left.nodes + right.nodes)
        /\ c.operands = n + (0 + 0)
        /\ c.widest = Wider(0, Wider(left.widest, right.widest))
    BY <1>2, <1>3, <1>4, <1>6, <1>14, <2>1, <2>2, <2>3, <2>4
  <2> QED
    BY <1>2, <1>14, <2>5 DEF c, left, right, n
<1>15. CASE p.op = "union"
  <2>1. c = Plus(Cost(1, 1), Plus(Closed(left), Closed(right)))
    BY <1>1, <1>15 DEF join
  <2> HIDE DEF c, left, right
  <2>2. Closed(left) \in Costs /\ Closed(right) \in Costs /\ Cost(1, 1) \in Costs
    BY <1>2, <1>3, <1>5, <1>15
  <2>3. Plus(Closed(left), Closed(right)) \in Costs
    BY <1>4, <2>2
  <2>4. /\ c.nodes = 1 + (left.nodes + right.nodes) /\ c.operands = 1 + (0 + 0)
        /\ c.widest = Wider(0, Wider(Wider(left.widest, left.operands),
                                     Wider(right.widest, right.operands)))
    BY <1>2, <1>3, <1>4, <1>5, <1>15, <2>1, <2>2, <2>3
  <2> QED
    BY <1>2, <1>15, <2>4 DEF c, left, right
<1>16. CASE p.op = "group"
  <2>1. c = Plus(expr, Plus(Cost(1, 1), Closed(inner)))
    BY <1>1, <1>16 DEF join
  <2> HIDE DEF c, inner, expr
  <2>2. Closed(inner) \in Costs /\ Cost(1, 1) \in Costs /\ expr \in Costs
    BY <1>2, <1>3, <1>5, <1>16
  <2>3. Plus(Cost(1, 1), Closed(inner)) \in Costs
    BY <1>4, <2>2
  <2>4. /\ c.nodes = expr.nodes + (1 + inner.nodes)
        /\ c.operands = expr.operands + (1 + 0)
        /\ c.widest = Wider(expr.widest, Wider(0, Wider(inner.widest, inner.operands)))
    BY <1>2, <1>3, <1>4, <1>5, <1>16, <2>1, <2>2, <2>3
  <2> QED
    BY <1>2, <1>16, <2>4 DEF c, inner, expr
<1>17. CASE p.op \notin {"bgp", "path", "values", "join", "optional", "union", "minus",
                         "lateral", "graph", "slice", "filter", "extend", "order", "group"}
  <2>1. c = Plus(Cost(1, 1), Closed(inner))
    BY <1>1, <1>17 DEF join
  <2> HIDE DEF c, inner
  <2>2. Closed(inner) \in Costs /\ Cost(1, 1) \in Costs
    BY <1>2, <1>3, <1>5, <1>17
  <2>3. /\ c.nodes = 1 + inner.nodes /\ c.operands = 1 + 0
        /\ c.widest = Wider(0, Wider(inner.widest, inner.operands))
    BY <1>2, <1>3, <1>4, <1>5, <1>17, <2>1, <2>2
  <2> QED
    BY <1>2, <1>17, <2>3 DEF c, inner
<1> QED
  BY <1>8, <1>9, <1>10, <1>11, <1>12, <1>13, <1>14, <1>15, <1>16, <1>17

\* No expression or path puts an operand into a join, and no path holds a pattern.
LEMMA FieldsOfExpressions ==
  \A x \in Part \ Pattern :
    /\ walk[x].operands = 0
    /\ x \in PropertyPath => walk[x].widest = 0
    /\ \A c \in Children(x) :
        /\ walk[c].nodes + (IF c \in Pattern THEN 1 ELSE 0) <= walk[x].nodes
        /\ Wider(walk[c].widest, walk[c].operands) <= walk[x].widest
    /\ \/ walk[x].widest = 0
       \/ \E c \in Children(x) : walk[x].widest = Wider(walk[c].widest, walk[c].operands)
<1> DEFINE Good(x) ==
             /\ walk[x].operands = 0
             /\ x \in PropertyPath => walk[x].widest = 0
             /\ \A c \in Children(x) :
                 /\ walk[c].nodes + (IF c \in Pattern THEN 1 ELSE 0) <= walk[x].nodes
                 /\ Wider(walk[c].widest, walk[c].operands) <= walk[x].widest
             /\ \/ walk[x].widest = 0
                \/ \E c \in Children(x) :
                    walk[x].widest = Wider(walk[c].widest, walk[c].operands)
           S == {x \in Part : x \notin Pattern => Good(x)}
<1>1. /\ Cost(0, 0) \in Costs /\ Cost(1, 0) \in Costs
      /\ Cost(0, 0).nodes = 0 /\ Cost(0, 0).operands = 0 /\ Cost(0, 0).widest = 0
      /\ Cost(1, 0).nodes = 1 /\ Cost(1, 0).operands = 0 /\ Cost(1, 0).widest = 0
  BY DEF Cost, Costs
<1>2. \A x \in Part : walk[x] \in Costs /\ walk[x] = CostOf(x, walk)
  BY WalkIsOfCosts
<1>3. \A a, b \in Costs :
        /\ Plus(a, b) \in Costs /\ Plus(a, b).nodes = a.nodes + b.nodes
        /\ Plus(a, b).operands = a.operands + b.operands
        /\ Plus(a, b).widest = Wider(a.widest, b.widest)
  BY CostsAreCosts, Fields
<1>4. \A a \in Costs : a.nodes \in Nat /\ a.operands \in Nat /\ a.widest \in Nat
  BY DEF Costs
<1>5. \A n \in Nat : Wider(0, n) = n /\ Wider(n, 0) = n
  BY DEF Wider
<1>6. ASSUME NEW x \in Part, \A y \in Part : Ranks[y] < Ranks[x] => y \in S
      PROVE  x \in S
  <2> SUFFICES ASSUME x \notin Pattern PROVE Good(x)
    OBVIOUS
  <2>1. \A c \in Children(x) : c \in Part /\ (c \notin Pattern => Good(c))
    BY <1>6, ChildrenAreLower
  <2> HIDE DEF Good
  <2>2. ASSUME x \in Expression
        PROVE  Good(x)
    <3>1. x \notin PropertyPath /\ walk[x] = expression(x, walk)
      BY <1>2, <2>2, PartsOfExpressions DEF CostOf
    <3>2. CASE x.kind \in {"term", "triple"}
      <4>1. Children(x) = {}
        BY <3>2 DEF Children
      <4>2. walk[x].operands = 0 /\ walk[x].widest = 0
        BY <1>1, <3>1, <3>2 DEF expression
      <4> QED
        BY <3>1, <4>1, <4>2 DEF Good
    <3>3. CASE x.kind = "exists"
      <4> DEFINE a == walk[x.pattern]
                 c == walk[x]
      <4>1. x.pattern \in Pattern /\ x.pattern \in Part /\ Children(x) = {x.pattern}
        BY <2>2, <3>3, PartsOfExpressions DEF Children, Pattern
      <4>2. c = Plus(Cost(1, 0), Closed(a))
        BY <3>1, <3>3 DEF expression
      <4>3. a \in Costs
        BY <1>2, <4>1
      <4> HIDE DEF a, c
      <4>4. /\ Closed(a) \in Costs /\ Closed(a).nodes = a.nodes /\ Closed(a).operands = 0
            /\ Closed(a).widest = Wider(a.widest, a.operands)
        BY <4>3, CostsAreCosts, Fields
      <4>5. c.nodes = 1 + a.nodes /\ c.operands = 0 /\ c.widest = Wider(a.widest, a.operands)
        BY <1>1, <1>3, <1>4, <1>5, <4>2, <4>4
      <4>6. a.nodes + 1 <= c.nodes /\ Wider(a.widest, a.operands) <= c.widest
        <5>1. a.nodes \in Nat /\ Wider(a.widest, a.operands) \in Nat
          BY <4>3 DEF Costs, Wider
        <5> QED
          BY <4>5, <5>1
      <4> QED
        BY <3>1, <4>1, <4>5, <4>6 DEF Good, a, c
    <3>4. CASE x.kind = "not"
      <4> DEFINE a == walk[x.of]
                 c == walk[x]
      <4>1. x.of \in Expression /\ Children(x) = {x.of}
        BY <2>2, <3>4, PartsOfExpressions DEF Children
      <4>2. x.of \in Part /\ x.of \notin Pattern /\ x.of \notin PropertyPath
        BY <4>1, PartsOfExpressions
      <4>3. a \in Costs /\ a.operands = 0
        BY <1>2, <2>1, <4>1, <4>2 DEF Good
      <4>4. c = Plus(Cost(1, 0), a)
        BY <3>1, <3>4 DEF expression
      <4> HIDE DEF a, c
      <4>5. c.nodes = 1 + a.nodes /\ c.operands = 0 /\ c.widest = Wider(a.widest, a.operands)
        BY <1>1, <1>3, <1>4, <1>5, <4>3, <4>4
      <4>6. a.nodes + 0 <= c.nodes /\ Wider(a.widest, a.operands) <= c.widest
        <5>1. a.nodes \in Nat /\ Wider(a.widest, a.operands) \in Nat
          BY <4>3 DEF Costs, Wider
        <5> QED
          BY <4>5, <5>1
      <4> QED
        BY <3>1, <4>1, <4>2, <4>5, <4>6 DEF Good, a, c
    <3>5. CASE x.kind = "or"
      <4> DEFINE costs == [i \in DOMAIN x.args |-> walk[x.args[i]]]
                 n == Len(x.args)
                 c == walk[x]
      <4>1. /\ x.args \in Seq(Expression) /\ Children(x) = {x.args[i] : i \in DOMAIN x.args}
        BY <2>2, <3>5, PartsOfExpressions DEF Children
      <4>2. n \in Nat /\ DOMAIN x.args = 1..n
        BY <4>1
      <4>3. \A i \in 1..n : /\ x.args[i] \in Expression /\ x.args[i] \in Children(x)
                            /\ x.args[i] \in Part /\ x.args[i] \notin Pattern
        BY <4>1, <4>2, PartsOfExpressions
      <4>4. costs \in [1..n -> Costs] /\ Len(costs) = n
        BY <1>2, <4>2, <4>3
      <4>5. \A i \in 1..n : costs[i] = walk[x.args[i]] /\ costs[i].operands = 0
        BY <2>1, <4>2, <4>3 DEF Good
      <4>6. c = Plus(Cost(1, 0), Sum(costs))
        BY <3>1, <3>5 DEF expression
      <4> HIDE DEF costs, n, c
      <4>7. /\ Sum(costs) \in Costs /\ Sum(costs).operands = 0
            /\ \A i \in 1..n : /\ costs[i].nodes <= Sum(costs).nodes
                               /\ costs[i].widest <= Sum(costs).widest
            /\ Sum(costs).widest = 0 \/ \E i \in 1..n : Sum(costs).widest = costs[i].widest
        BY <4>2, <4>4, <4>5, SumsOfCosts
      <4>8. /\ c.nodes = 1 + Sum(costs).nodes /\ c.operands = 0
            /\ c.widest = Sum(costs).widest
        BY <1>1, <1>3, <1>4, <1>5, <4>6, <4>7
      <4>9. \A i \in 1..n : Wider(costs[i].widest, costs[i].operands) = costs[i].widest
        BY <1>4, <1>5, <4>4, <4>5
      <4>10. ASSUME NEW d \in Children(x)
             PROVE  /\ walk[d].nodes + (IF d \in Pattern THEN 1 ELSE 0) <= c.nodes
                    /\ Wider(walk[d].widest, walk[d].operands) <= c.widest
        <5>1. PICK i \in 1..n : d = x.args[i]
          BY <4>1, <4>2, <4>10
        <5>2. d \notin Pattern /\ walk[d] = costs[i]
          BY <4>3, <4>5, <5>1
        <5>3. costs[i].nodes \in Nat /\ Sum(costs).nodes \in Nat
          BY <1>4, <4>4, <4>7
        <5>4. costs[i].nodes <= Sum(costs).nodes /\ costs[i].widest <= Sum(costs).widest
          BY <4>7
        <5>5. costs[i].nodes + 0 <= c.nodes
          BY <4>8, <5>3, <5>4
        <5> QED
          BY <4>8, <4>9, <5>2, <5>4, <5>5
      <4>11. \/ c.widest = 0
             \/ \E d \in Children(x) : c.widest = Wider(walk[d].widest, walk[d].operands)
        BY <4>3, <4>5, <4>7, <4>8, <4>9
      <4> QED
        BY <3>1, <4>8, <4>10, <4>11 DEF Good, c
    <3> QED
      BY <2>2, <3>2, <3>3, <3>4, <3>5, PartsOfExpressions
  <2>3. ASSUME x \in PropertyPath
        PROVE  Good(x)
    <3> DEFINE c == walk[x]
    <3>1. x \notin Pattern /\ x \notin Expression /\ c = path(x, walk)
      BY <1>2, <2>3, PartsOfPaths DEF CostOf
    <3>2. x.kind \notin {"term", "triple", "exists", "not", "or"}
      BY <3>1 DEF Expression
    <3>3. CASE x.kind \in {"predicate", "negated"}
      <4>1. Children(x) = {}
        BY <3>1, <3>3 DEF Children
      <4>2. c.operands = 0 /\ c.widest = 0
        BY <1>1, <3>1, <3>3 DEF path
      <4> QED
        BY <4>1, <4>2 DEF Good
    <3>4. CASE x.kind \in {"sequence", "alternative"}
      <4> DEFINE a == walk[x.a]
                 b == walk[x.b]
      <4>1. x.a \in PropertyPath /\ x.b \in PropertyPath /\ Children(x) = {x.a, x.b}
        BY <2>3, <3>1, <3>4, PartsOfPaths DEF Children
      <4>2. /\ x.a \in Part /\ x.a \notin Pattern /\ x.b \in Part /\ x.b \notin Pattern
        BY <4>1, PartsOfPaths
      <4>3. /\ a \in Costs /\ a.operands = 0 /\ a.widest = 0
            /\ b \in Costs /\ b.operands = 0 /\ b.widest = 0
        BY <1>2, <2>1, <4>1, <4>2 DEF Good
      <4>4. c = Plus(Cost(1, 0), Plus(a, b))
        BY <3>1, <3>4 DEF path
      <4> HIDE DEF a, b, c
      <4>5. /\ Plus(a, b) \in Costs /\ Plus(a, b).nodes = a.nodes + b.nodes
            /\ Plus(a, b).operands = 0 + 0 /\ Plus(a, b).widest = Wider(0, 0)
        BY <1>3, <4>3
      <4>6. /\ c.nodes = 1 + (a.nodes + b.nodes) /\ c.operands = 0 /\ c.widest = 0
        BY <1>1, <1>3, <1>5, <4>4, <4>5
      <4>7. a.nodes + 0 <= c.nodes /\ b.nodes + 0 <= c.nodes
        <5>1. a.nodes \in Nat /\ b.nodes \in Nat
          BY <1>4, <4>3
        <5> QED
          BY <4>6, <5>1
      <4>8. Wider(a.widest, a.operands) <= c.widest /\ Wider(b.widest, b.operands) <= c.widest
        BY <4>3, <4>6 DEF Wider
      <4> QED
        BY <4>1, <4>2, <4>6, <4>7, <4>8 DEF Good, a, b, c
    <3>5. CASE x.kind \notin {"predicate", "negated", "sequence", "alternative"}
      <4> DEFINE a == walk[x.of]
      <4>1. x.of \in PropertyPath /\ Children(x) = {x.of}
        BY <2>3, <3>1, <3>2, <3>5, PartsOfPaths DEF Children
      <4>2. x.of \in Part /\ x.of \notin Pattern
        BY <4>1, PartsOfPaths
      <4>3. a \in Costs /\ a.operands = 0 /\ a.widest = 0
        BY <1>2, <2>1, <4>1, <4>2 DEF Good
      <4>4. c = Plus(Cost(1, 0), a)
        BY <3>1, <3>5 DEF path
      <4> HIDE DEF a, c
      <4>5. c.nodes = 1 + a.nodes /\ c.operands = 0 /\ c.widest = 0
        BY <1>1, <1>3, <1>4, <1>5, <4>3, <4>4
      <4>6. a.nodes + 0 <= c.nodes
        <5>1. a.nodes \in Nat
          BY <1>4, <4>3
        <5> QED
          BY <4>5, <5>1
      <4>7. Wider(a.widest, a.operands) <= c.widest
        BY <4>3, <4>5 DEF Wider
      <4> QED
        BY <4>1, <4>2, <4>5, <4>6, <4>7 DEF Good, a, c
    <3> QED
      BY <3>3, <3>4, <3>5
  <2> QED
    BY <2>2, <2>3, KindsOfParts
<1>7. Part \subseteq S
  <2> HIDE DEF S
  <2> QED
    BY <1>6, ChildrenAreLower, ByRank
<1> QED
  BY <1>7

\* The operands that a pattern is counted for are the most it may come to in a list.
LEMMA OperandsAreLengths ==
  \A p \in Pattern :
    /\ walk[p].operands \in Nat /\ walk[p].operands >= 1
    /\ walk[p].operands \in Lengths[p]
    /\ \A n \in Lengths[p] : n <= walk[p].operands
<1> DEFINE r == [p \in Pattern |-> Ranks[p]]
           Good(p) == /\ walk[p].operands \in Nat /\ walk[p].operands >= 1
                      /\ walk[p].operands \in Lengths[p]
                      /\ \A n \in Lengths[p] : n <= walk[p].operands
           S == {p \in Pattern : Good(p)}
<1>1. r \in [Pattern -> Nat]
  BY OperandsAreLower
<1>2. ASSUME NEW p \in Pattern, \A y \in Pattern : r[y] < r[p] => y \in S
      PROVE  p \in S
  <2>1. \A c \in Operands(p) : Good(c)
    BY <1>2, OperandsAreLower
  <2> HIDE DEF Good
  <2> SUFFICES Good(p)
    OBVIOUS
  <2> DEFINE k == walk[p].operands
             Len1 == Lengths[p]
  <2>2. Len1 = LengthsOf(p, Lengths) /\ Len1 \subseteq Nat
    BY LengthsAreNumbers
  <2>3. p.op \in {"optional", "filter", "extend", "group", "order"} =>
            walk[p.expr].operands = 0
    BY PartsOfPatterns, PartsOfExpressions, FieldsOfExpressions
  <2>4. CASE p.op = "bgp"
    <3> DEFINE n == Cardinality(p.triples)
    <3>1. n \in Nat /\ k = Wider(n, 1) /\ IsFiniteSet(p.triples)
      <4>1. n \in Nat /\ walk[p] = Cost(n, Wider(n, 1))
        BY <2>4, FieldsOfPatterns
      <4>2. IsFiniteSet(p.triples)
        BY <2>4, PartsOfPatterns
      <4> QED
        BY <4>1, <4>2 DEF Cost
    <3>2. Len1 = IF p.triples = {} THEN {0, 1} ELSE {n}
      BY <2>2, <2>4 DEF LengthsOf
    <3>3. n = 0 <=> p.triples = {}
      BY <3>1, FS_EmptySet
    <3> HIDE DEF n, k, Len1
    <3>4. k \in Nat /\ k >= 1 /\ k \in Len1 /\ \A m \in Len1 : m <= k
      <4>1. CASE n = 0
        BY <3>1, <3>2, <3>3, <4>1 DEF Wider
      <4>2. CASE n # 0
        <5>1. k = n /\ n >= 1
          BY <3>1, <4>2 DEF Wider
        <5> QED
          BY <3>1, <3>2, <3>3, <4>2, <5>1
      <4> QED
        BY <4>1, <4>2
    <3> QED
      BY <3>4 DEF Good, k, Len1
  <2>5. CASE p.op = "join"
    <3> DEFINE i == walk[p.left].operands
               j == walk[p.right].operands
    <3>1. p.left \in Operands(p) /\ p.right \in Operands(p)
      BY <2>5 DEF Operands
    <3>2. Good(p.left) /\ Good(p.right)
      BY <2>1, <3>1
    <3>3. k = 0 + (i + j)
      BY <2>5, FieldsOfPatterns
    <3>4. Len1 = {l + m : l \in Lengths[p.left], m \in Lengths[p.right]}
      BY <2>2, <2>5 DEF LengthsOf
    <3>5. /\ i \in Nat /\ i >= 1 /\ j \in Nat /\ j >= 1
          /\ i \in Lengths[p.left] /\ j \in Lengths[p.right]
      BY <3>2 DEF Good
    <3>6. Lengths[p.left] \subseteq Nat /\ Lengths[p.right] \subseteq Nat
      BY <3>1, OperandsAreLower, LengthsAreNumbers
    <3>7. ASSUME NEW n \in Len1
          PROVE  n <= k
      <4>1. PICK l \in Lengths[p.left], m \in Lengths[p.right] : n = l + m
        BY <3>4
      <4>2. l <= i /\ m <= j /\ l \in Nat /\ m \in Nat
        BY <3>2, <3>6 DEF Good
      <4> HIDE DEF i, j, k
      <4> QED
        BY <3>3, <3>5, <4>1, <4>2
    <3>8. k = i + j
      BY <3>3, <3>5
    <3>9. k \in Len1
      BY <3>4, <3>5, <3>8
    <3> HIDE DEF i, j, k
    <3>10. k \in Nat /\ k >= 1
      BY <3>5, <3>8
    <3> QED
      BY <3>7, <3>9, <3>10 DEF Good, k
  <2>6. CASE p.op \in {"graph", "filter", "extend", "order", "slice"}
    <3> DEFINE i == walk[p.inner].operands
    <3>1. p.inner \in Operands(p)
      BY <2>6 DEF Operands
    <3>2. Good(p.inner)
      BY <2>1, <3>1
    <3>3. /\ i \in Nat /\ i >= 1 /\ i \in Lengths[p.inner]
          /\ \A n \in Lengths[p.inner] : n <= i
      BY <3>2 DEF Good
    <3>4. k = i
      <4>1. p.op \in {"filter", "extend", "order"} => k = walk[p.expr].operands + i
        BY FieldsOfPatterns
      <4>2. p.op \in {"graph", "slice"} => k = i
        BY FieldsOfPatterns
      <4> HIDE DEF i, k
      <4> QED
        BY <2>3, <2>6, <3>3, <4>1, <4>2
    <3>5. Len1 = Lengths[p.inner] \/ Len1 = {1} \cup Lengths[p.inner]
      BY <2>2, <2>6 DEF LengthsOf
    <3> QED
      BY <3>3, <3>4, <3>5 DEF Good
  <2>7. CASE p.op \in {"optional", "minus"}
    <3> DEFINE i == walk[p.left].operands
    <3>1. p.left \in Operands(p)
      BY <2>7 DEF Operands
    <3>2. Good(p.left)
      BY <2>1, <3>1
    <3>3. /\ i \in Nat /\ i >= 1 /\ i \in Lengths[p.left]
          /\ \A n \in Lengths[p.left] : n <= i
      BY <3>2 DEF Good
    <3>4. k = i
      <4>1. p.op = "optional" => k = walk[p.expr].operands + (i + 0)
        BY FieldsOfPatterns
      <4>2. p.op = "minus" => k = i + 0
        BY FieldsOfPatterns
      <4> HIDE DEF i, k
      <4> QED
        BY <2>3, <2>7, <3>3, <4>1, <4>2
    <3>5. Len1 = {1} \cup Lengths[p.left]
      BY <2>2, <2>7 DEF LengthsOf
    <3> QED
      BY <3>3, <3>4, <3>5 DEF Good
  <2>8. CASE p.op = "lateral"
    <3> DEFINE i == walk[p.left].operands
               j == walk[p.right].operands
    <3>1. p.left \in Operands(p) /\ p.right \in Operands(p)
      BY <2>8 DEF Operands
    <3>2. Good(p.left) /\ Good(p.right)
      BY <2>1, <3>1
    <3>3. k = Wider(i, j) + (0 + 0)
      BY <2>8, FieldsOfPatterns
    <3>4. Len1 = {1} \cup Lengths[p.left] \cup Lengths[p.right]
      BY <2>2, <2>8 DEF LengthsOf
    <3>5. /\ i \in Nat /\ i >= 1 /\ j \in Nat /\ j >= 1
          /\ i \in Lengths[p.left] /\ j \in Lengths[p.right]
          /\ \A n \in Lengths[p.left] : n <= i
          /\ \A n \in Lengths[p.right] : n <= j
      BY <3>2 DEF Good
    <3> HIDE DEF i, j, k
    <3>6. k \in Nat /\ k >= 1 /\ (k = i \/ k = j) /\ i <= k /\ j <= k
      BY <3>3, <3>5 DEF Wider
    <3>7. k \in Len1
      BY <3>4, <3>5, <3>6
    <3>8. ASSUME NEW n \in Len1
          PROVE  n <= k
      <4>1. n \in Nat
        BY <2>2
      <4>2. n = 1 \/ n <= i \/ n <= j
        BY <3>4, <3>5, <3>8
      <4> QED
        BY <3>5, <3>6, <4>1, <4>2
    <3> QED
      BY <3>6, <3>7, <3>8 DEF Good, k
  <2>9. CASE p.op \notin {"bgp", "join", "graph", "filter", "extend", "order", "slice",
                          "optional", "minus", "lateral"}
    <3>1. Len1 = {1}
      BY <2>2, <2>9 DEF LengthsOf
    <3>2. k = 1
      <4>1. p.op \in {"path", "values"} => k = 1
        <5>1. \A n : Cost(n, 1).operands = 1
          BY DEF Cost
        <5>2. p.op \in {"path", "values"} =>
                walk[p] = Cost(walk[p.path].nodes, 1) \/ walk[p] = Cost(1, 1)
          BY FieldsOfPatterns
        <5> QED
          BY <5>1, <5>2
      <4>2. p.op = "union" => k = 1 + (0 + 0)
        BY FieldsOfPatterns
      <4>3. p.op = "group" => k = walk[p.expr].operands + (1 + 0)
        BY FieldsOfPatterns
      <4>4. p.op \notin {"path", "values", "union", "group"} => k = 1 + 0
        BY <2>9, FieldsOfPatterns
      <4> QED
        BY <2>3, <2>9, <4>1, <4>2, <4>3, <4>4
    <3> QED
      BY <3>1, <3>2 DEF Good
  <2> QED
    BY <2>4, <2>5, <2>6, <2>7, <2>8, <2>9
<1>3. Pattern \subseteq S
  <2> HIDE DEF S
  <2> QED
    BY <1>1, <1>2, ByRank
<1> QED
  BY <1>3

\* What a pattern holds is smaller and no wider than it is, and makes it as wide.
LEMMA FieldsOfOperands ==
  \A p \in Pattern :
    /\ \A c \in Children(p) :
        /\ walk[c].nodes + (IF c \in Pattern THEN 1 ELSE 0) <= walk[p].nodes
        /\ Wider(walk[c].widest, walk[c].operands) <= Wider(walk[p].widest, walk[p].operands)
    /\ \/ walk[p].widest = 0
       \/ \E c \in Children(p) :
            walk[p].widest \in {walk[c].widest, Wider(walk[c].widest, walk[c].operands)}
<1> SUFFICES ASSUME NEW p \in Pattern
             PROVE  /\ \A c \in Children(p) :
                        /\ walk[c].nodes + (IF c \in Pattern THEN 1 ELSE 0) <= walk[p].nodes
                        /\ Wider(walk[c].widest, walk[c].operands)
                                <= Wider(walk[p].widest, walk[p].operands)
                    /\ \/ walk[p].widest = 0
                       \/ \E c \in Children(p) : walk[p].widest
                            \in {walk[c].widest, Wider(walk[c].widest, walk[c].operands)}
  OBVIOUS
<1> DEFINE c == walk[p]
           left == walk[p.left]
           right == walk[p.right]
           inner == walk[p.inner]
           expr == walk[p.expr]
           Width(a) == Wider(a.widest, a.operands)
           Within(x, k) == walk[x].nodes + k <= c.nodes /\ Width(walk[x]) <= Width(c)
           From(x) == c.widest \in {walk[x].widest, Width(walk[x])}
<1>1. c \in Costs
  BY WalkIsOfCosts DEF Pattern
<1>2. \A a \in Costs : a.nodes \in Nat /\ a.operands \in Nat /\ a.widest \in Nat
  BY DEF Costs
<1>3. p.op \in {"join", "optional", "union", "minus", "lateral"} =>
            left \in Costs /\ right \in Costs
  BY FieldsOfPatterns
<1>4. p.op \notin {"bgp", "path", "values",
                   "join", "optional", "union", "minus", "lateral"} => inner \in Costs
  BY FieldsOfPatterns
<1>5. p.op \in {"optional", "filter", "extend", "group", "order"} =>
            /\ p.expr \in Expression /\ p.expr \notin Pattern
            /\ expr \in Costs /\ expr.operands = 0
  BY FieldsOfPatterns, PartsOfPatterns, PartsOfExpressions, FieldsOfExpressions
<1>6. /\ p.op \in {"join", "optional", "union", "minus", "lateral"} =>
            p.left \in Pattern /\ p.right \in Pattern
      /\ p.op \notin {"bgp", "path", "values",
                      "join", "optional", "union", "minus", "lateral"} => p.inner \in Pattern
  BY PartsOfPatterns
<1>7. CASE p.op \in {"bgp", "values"}
  <2>1. Children(p) = {}
    BY <1>7 DEF Children, Operands, Expressions
  <2>2. c.widest = 0
    <3>1. \A n, k : Cost(n, k).widest = 0
      BY DEF Cost
    <3>2. c = Cost(1, 1) \/ c = Cost(Cardinality(p.triples), Wider(Cardinality(p.triples), 1))
      BY <1>7, FieldsOfPatterns
    <3> QED
      BY <3>1, <3>2
  <2> QED
    BY <2>1, <2>2
<1>8. CASE p.op = "path"
  <2>1. Children(p) = {p.path}
    BY <1>8 DEF Children, Operands, Expressions
  <2>2. p.path \in PropertyPath /\ p.path \in Part /\ p.path \notin Pattern
    BY <1>8, PartsOfPatterns, PartsOfPaths
  <2>3. walk[p.path].widest = 0 /\ walk[p.path].operands = 0 /\ walk[p.path] \in Costs
    BY <2>2, FieldsOfExpressions, WalkIsOfCosts
  <2>4. c = Cost(walk[p.path].nodes, 1)
    BY <1>8, FieldsOfPatterns
  <2>5. c.nodes = walk[p.path].nodes /\ c.widest = 0 /\ c.operands = 1
    BY <2>4 DEF Cost
  <2>6. Within(p.path, 0)
    <3>1. Width(walk[p.path]) = 0 /\ Width(c) = 1
      BY <2>3, <2>5 DEF Wider
    <3>2. walk[p.path].nodes + 0 <= c.nodes
      BY <1>2, <2>3, <2>5
    <3> QED
      BY <3>1, <3>2
  <2> QED
    BY <2>1, <2>2, <2>5, <2>6
<1>9. CASE p.op \in {"join", "union", "minus", "lateral"}
  <2>1. Children(p) = {p.left, p.right}
    BY <1>9 DEF Children, Operands, Expressions
  <2> HIDE DEF c, left, right
  <2>2. /\ left.nodes + 1 <= c.nodes /\ right.nodes + 1 <= c.nodes
        /\ Width(left) <= Width(c) /\ Width(right) <= Width(c)
        /\ \/ c.widest \in {left.widest, Width(left)}
           \/ c.widest \in {right.widest, Width(right)}
    <3>1. /\ left.nodes \in Nat /\ left.operands \in Nat /\ left.widest \in Nat
          /\ right.nodes \in Nat /\ right.operands \in Nat /\ right.widest \in Nat
      BY <1>2, <1>3, <1>9
    <3>2. CASE p.op = "join"
      <4>1. /\ c.nodes = 1 + (left.nodes + right.nodes)
            /\ c.operands = 0 + (left.operands + right.operands)
            /\ c.widest = Wider(0, Wider(left.widest, right.widest))
        BY <3>2, FieldsOfPatterns DEF c, left, right
      <4> QED
        BY <3>1, <4>1 DEF Wider
    <3>3. CASE p.op = "union"
      <4>1. /\ c.nodes = 1 + (left.nodes + right.nodes)
            /\ c.operands = 1 + (0 + 0)
            /\ c.widest = Wider(0, Wider(Wider(left.widest, left.operands),
                                         Wider(right.widest, right.operands)))
        BY <3>3, FieldsOfPatterns DEF c, left, right
      <4> QED
        BY <3>1, <4>1 DEF Wider
    <3>4. CASE p.op = "minus"
      <4>1. /\ c.nodes = (left.nodes + 1) + right.nodes
            /\ c.operands = left.operands + 0
            /\ c.widest = Wider(left.widest, Wider(right.widest, right.operands))
        BY <3>4, FieldsOfPatterns DEF c, left, right
      <4> QED
        BY <3>1, <4>1 DEF Wider
    <3>5. CASE p.op = "lateral"
      <4>1. /\ c.nodes = 1 + (left.nodes + right.nodes)
            /\ c.operands = Wider(left.operands, right.operands) + (0 + 0)
            /\ c.widest = Wider(0, Wider(left.widest, right.widest))
        BY <3>5, FieldsOfPatterns DEF c, left, right
      <4> QED
        BY <3>1, <4>1 DEF Wider
    <3> QED
      BY <1>9, <3>2, <3>3, <3>4, <3>5
  <2>3. Within(p.left, 1) /\ Within(p.right, 1) /\ (From(p.left) \/ From(p.right))
    BY <2>2 DEF c, left, right
  <2> HIDE DEF Width
  <2> QED
    BY <1>6, <1>9, <2>1, <2>3 DEF c, Width
<1>10. CASE p.op = "optional"
  <2>1. Children(p) = {p.left, p.right, p.expr}
    BY <1>10 DEF Children, Operands, Expressions
  <2> HIDE DEF c, left, right, expr
  <2>2. /\ left.nodes + 1 <= c.nodes /\ right.nodes + 1 <= c.nodes /\ expr.nodes + 0 <= c.nodes
        /\ Width(left) <= Width(c) /\ Width(right) <= Width(c) /\ Width(expr) <= Width(c)
        /\ \/ c.widest \in {left.widest, Width(left)}
           \/ c.widest \in {right.widest, Width(right)}
           \/ c.widest \in {expr.widest, Width(expr)}
    <3>1. /\ left.nodes \in Nat /\ left.operands \in Nat /\ left.widest \in Nat
          /\ right.nodes \in Nat /\ right.operands \in Nat /\ right.widest \in Nat
          /\ expr.nodes \in Nat /\ expr.operands = 0 /\ expr.widest \in Nat
      BY <1>2, <1>3, <1>5, <1>10
    <3>2. /\ c.nodes = expr.nodes + ((left.nodes + 1) + right.nodes)
          /\ c.operands = expr.operands + (left.operands + 0)
          /\ c.widest = Wider(expr.widest,
                              Wider(left.widest, Wider(right.widest, right.operands)))
      BY <1>10, FieldsOfPatterns DEF c, left, right, expr
    <3> QED
      BY <3>1, <3>2 DEF Wider
  <2>3. /\ Within(p.left, 1) /\ Within(p.right, 1) /\ Within(p.expr, 0)
        /\ From(p.left) \/ From(p.right) \/ From(p.expr)
    BY <2>2 DEF c, left, right, expr
  <2> HIDE DEF Width
  <2> QED
    BY <1>5, <1>6, <1>10, <2>1, <2>3 DEF c, Width
<1>11. CASE p.op \in {"filter", "extend", "order", "group"}
  <2>1. Children(p) = {p.inner, p.expr}
    BY <1>11 DEF Children, Operands, Expressions
  <2> HIDE DEF c, inner, expr
  <2>2. /\ inner.nodes + 1 <= c.nodes /\ expr.nodes + 0 <= c.nodes
        /\ Width(inner) <= Width(c) /\ Width(expr) <= Width(c)
        /\ \/ c.widest \in {inner.widest, Width(inner)}
           \/ c.widest \in {expr.widest, Width(expr)}
    <3>1. /\ inner.nodes \in Nat /\ inner.operands \in Nat /\ inner.widest \in Nat
          /\ expr.nodes \in Nat /\ expr.operands = 0 /\ expr.widest \in Nat
      BY <1>2, <1>4, <1>5, <1>11
    <3>2. CASE p.op \in {"filter", "extend", "order"}
      <4>1. /\ c.nodes = expr.nodes + (inner.nodes + 1)
            /\ c.operands = expr.operands + inner.operands
            /\ c.widest = Wider(expr.widest, inner.widest)
        BY <3>2, FieldsOfPatterns DEF c, inner, expr
      <4> QED
        BY <3>1, <4>1 DEF Wider
    <3>3. CASE p.op = "group"
      <4>1. /\ c.nodes = expr.nodes + (1 + inner.nodes)
            /\ c.operands = expr.operands + (1 + 0)
            /\ c.widest = Wider(expr.widest, Wider(0, Wider(inner.widest, inner.operands)))
        BY <3>3, FieldsOfPatterns DEF c, inner, expr
      <4> QED
        BY <3>1, <4>1 DEF Wider
    <3> QED
      BY <1>11, <3>2, <3>3
  <2>3. Within(p.inner, 1) /\ Within(p.expr, 0) /\ (From(p.inner) \/ From(p.expr))
    BY <2>2 DEF c, inner, expr
  <2> HIDE DEF Width
  <2> QED
    BY <1>5, <1>6, <1>11, <2>1, <2>3 DEF c, Width
<1>12. CASE p.op \notin {"bgp", "path", "values", "join", "optional", "union", "minus",
                         "lateral", "filter", "extend", "order", "group"}
  <2>1. Children(p) = {p.inner}
    BY <1>12 DEF Children, Operands, Expressions
  <2> HIDE DEF c, inner
  <2>2. /\ inner.nodes + 1 <= c.nodes /\ Width(inner) <= Width(c)
        /\ c.widest \in {inner.widest, Width(inner)}
    <3>1. inner.nodes \in Nat /\ inner.operands \in Nat /\ inner.widest \in Nat
      BY <1>2, <1>4, <1>12
    <3>2. CASE p.op \in {"graph", "slice"}
      <4>1. c.nodes = inner.nodes + 1 /\ c.operands = inner.operands /\ c.widest = inner.widest
        BY <3>2, FieldsOfPatterns DEF c, inner
      <4> QED
        BY <3>1, <4>1 DEF Wider
    <3>3. CASE p.op \notin {"graph", "slice"}
      <4>1. /\ c.nodes = 1 + inner.nodes /\ c.operands = 1 + 0
            /\ c.widest = Wider(0, Wider(inner.widest, inner.operands))
        BY <1>12, <3>3, FieldsOfPatterns DEF c, inner
      <4> QED
        BY <3>1, <4>1 DEF Wider
    <3> QED
      BY <3>2, <3>3
  <2>3. Within(p.inner, 1) /\ From(p.inner)
    BY <2>2 DEF c, inner
  <2> HIDE DEF Width
  <2> QED
    BY <1>6, <1>12, <2>1, <2>3 DEF c, Width
<1> QED
  BY <1>7, <1>8, <1>9, <1>10, <1>11, <1>12

\* The lists that are planned are no longer than what is counted, which is the length of
\* one of them. No part is deeper than it has operators.
LEMMA WidthsAreCounted ==
  \A x \in Part :
    /\ \A w \in Widths[x] : w <= Wider(walk[x].widest, walk[x].operands)
    /\ walk[x].widest = 0 \/ walk[x].widest \in Widths[x]
    /\ \A d \in Depths[x] : d <= walk[x].nodes + (IF x \in Pattern THEN 1 ELSE 0)
<1> DEFINE Width(x) == Wider(walk[x].widest, walk[x].operands)
           Levels(x) == walk[x].nodes + (IF x \in Pattern THEN 1 ELSE 0)
           Good(x) == /\ \A w \in Widths[x] : w <= Width(x)
                      /\ walk[x].widest = 0 \/ walk[x].widest \in Widths[x]
                      /\ \A d \in Depths[x] : d <= Levels(x)
           S == {x \in Part : Good(x)}
<1>1. \A x \in Part : /\ walk[x].nodes \in Nat /\ walk[x].operands \in Nat
                      /\ walk[x].widest \in Nat
  BY WalkIsOfCosts DEF Costs
<1>2. \A x \in Part :
        /\ Width(x) \in Nat /\ walk[x].widest <= Width(x) /\ walk[x].operands <= Width(x)
        /\ Width(x) = walk[x].widest \/ Width(x) = walk[x].operands
  BY <1>1 DEF Wider
<1>3. \A x \in Part : /\ Widths[x] = WidthsOf(x, Widths) /\ Widths[x] \subseteq Nat
                      /\ Depths[x] = DepthsOf(x, Depths) /\ Depths[x] \subseteq Nat
  BY WidthsAreNumbers, DepthsAreNumbers
<1>4. \A x \in Part : \A c \in Children(x) :
        c \in Part /\ Levels(c) <= walk[x].nodes /\ Width(c) <= Width(x)
  <2> SUFFICES ASSUME NEW x \in Part, NEW c \in Children(x)
               PROVE  c \in Part /\ Levels(c) <= walk[x].nodes /\ Width(c) <= Width(x)
    OBVIOUS
  <2>1. c \in Part
    BY ChildrenAreLower
  <2>2. CASE x \in Pattern
    BY <2>1, <2>2, FieldsOfOperands
  <2>3. CASE x \notin Pattern
    <3>1. Levels(c) <= walk[x].nodes /\ Width(c) <= walk[x].widest
      BY <2>3, FieldsOfExpressions
    <3>2. Width(c) \in Nat /\ Width(x) \in Nat /\ walk[x].widest \in Nat
      BY <1>1, <1>2, <2>1
    <3>3. walk[x].widest <= Width(x)
      BY <1>2
    <3> HIDE DEF Width, Levels
    <3> QED
      BY <2>1, <3>1, <3>2, <3>3
  <2> QED
    BY <2>2, <2>3
<1>5. \A x \in Part : walk[x].widest = 0 \/ \E c \in Children(x) :
        walk[x].widest \in {walk[c].widest, Width(c)}
  BY FieldsOfOperands, FieldsOfExpressions
<1>6. \A x \in Pattern : /\ x \in Part /\ Lengths[x] \subseteq Widths[x]
                         /\ walk[x].operands \in Widths[x]
  <2> SUFFICES ASSUME NEW x \in Pattern
               PROVE  /\ x \in Part /\ Lengths[x] \subseteq Widths[x]
                      /\ walk[x].operands \in Widths[x]
    OBVIOUS
  <2>1. x \in Part
    BY DEF Pattern
  <2>2. Lengths[x] \subseteq Widths[x]
    BY <1>3, <2>1 DEF WidthsOf
  <2> QED
    BY <2>1, <2>2, OperandsAreLengths
<1>7. \A x \in Part \ Pattern : walk[x].operands = 0
  BY FieldsOfExpressions
<1>8. ASSUME NEW x \in Part, \A y \in Part : Ranks[y] < Ranks[x] => y \in S
      PROVE  x \in S
  <2> HIDE DEF Width, Levels
  <2>1. \A c \in Children(x) : c \in Part /\ Good(c)
    BY <1>8, ChildrenAreLower
  <2>2. ASSUME NEW w \in Widths[x]
        PROVE  w <= Width(x)
    <3>1. w \in Nat /\ Width(x) \in Nat
      BY <1>2, <1>3
    <3>2. CASE x \in Pattern /\ w \in Lengths[x]
      <4>1. w <= walk[x].operands /\ walk[x].operands <= Width(x) /\ walk[x].operands \in Nat
        BY <1>1, <1>2, <3>2, OperandsAreLengths
      <4> QED
        BY <3>1, <4>1
    <3>3. CASE \E c \in Children(x) : w \in Widths[c]
      <4>1. PICK c \in Children(x) : w \in Widths[c]
        BY <3>3
      <4>2. w <= Width(c) /\ Width(c) <= Width(x) /\ Width(c) \in Nat
        BY <1>2, <1>4, <2>1, <4>1
      <4> QED
        BY <3>1, <4>2
    <3> QED
      BY <1>3, <2>2, <3>2, <3>3 DEF WidthsOf
  <2>3. walk[x].widest = 0 \/ walk[x].widest \in Widths[x]
    <3> SUFFICES ASSUME walk[x].widest # 0 PROVE walk[x].widest \in Widths[x]
      OBVIOUS
    <3>1. PICK c \in Children(x) : walk[x].widest \in {walk[c].widest, Width(c)}
      BY <1>5
    <3>2. c \in Part /\ Good(c)
      BY <2>1
    <3>3. Widths[c] \subseteq Widths[x]
      BY <1>3 DEF WidthsOf
    <3>4. walk[x].widest = walk[c].widest \/ walk[x].widest = walk[c].operands
      BY <1>2, <3>1, <3>2
    <3>5. CASE walk[x].widest = walk[c].widest
      BY <3>2, <3>3, <3>5
    <3>6. CASE walk[x].widest = walk[c].operands
      <4>1. c \in Pattern
        BY <1>7, <3>2, <3>6
      <4> QED
        BY <1>6, <3>3, <3>6, <4>1
    <3> QED
      BY <3>4, <3>5, <3>6
  <2>4. ASSUME NEW d \in Depths[x]
        PROVE  d <= Levels(x)
    <3>1. \A c \in Children(x) : \A n \in Depths[c] :
            n \in Nat /\ n <= Levels(c) /\ Levels(c) <= walk[x].nodes
      BY <1>3, <1>4, <2>1
    <3>2. \A c \in Part : Levels(c) \in Nat
      BY <1>1 DEF Levels
    <3>3. \A c \in Children(x) : \A n \in Depths[c] : n \in Nat /\ n <= walk[x].nodes
      <4> SUFFICES ASSUME NEW c \in Children(x), NEW n \in Depths[c]
                   PROVE  n \in Nat /\ n <= walk[x].nodes
        OBVIOUS
      <4>1. n \in Nat /\ n <= Levels(c) /\ Levels(c) <= walk[x].nodes
        BY <3>1
      <4>2. Levels(c) \in Nat /\ walk[x].nodes \in Nat
        BY <1>1, <2>1, <3>2
      <4> QED
        BY <4>1, <4>2
    <3> DEFINE below == UNION {Depths[c] : c \in Children(x)}
    <3>4. Depths[x] = IF x \in Pattern THEN {1} \cup {n + 1 : n \in below} ELSE below
      BY <1>3 DEF DepthsOf
    <3>5. CASE x \in Pattern
      <4>1. d = 1 \/ \E c \in Children(x) : \E n \in Depths[c] : d = n + 1
        <5>1. d = 1 \/ \E n \in below : d = n + 1
          <6> HIDE DEF below
          <6> QED
            BY <2>4, <3>5, <3>4
        <5> QED
          BY <5>1
      <4>2. Levels(x) = walk[x].nodes + 1 /\ walk[x].nodes \in Nat
        BY <1>1, <3>5 DEF Levels
      <4>3. CASE d = 1
        BY <4>2, <4>3
      <4>4. CASE \E c \in Children(x) : \E n \in Depths[c] : d = n + 1
        <5>1. PICK c \in Children(x) : \E n \in Depths[c] : d = n + 1
          BY <4>4
        <5>2. PICK n \in Depths[c] : d = n + 1
          BY <5>1
        <5>3. n \in Nat /\ n <= walk[x].nodes
          BY <3>3
        <5> QED
          BY <4>2, <5>2, <5>3
      <4> QED
        BY <4>1, <4>3, <4>4
    <3>6. CASE x \notin Pattern
      <4>1. \E c \in Children(x) : d \in Depths[c]
        BY <2>4, <3>6, <3>4
      <4>2. d \in Nat /\ d <= walk[x].nodes
        BY <3>3, <4>1
      <4>3. Levels(x) = walk[x].nodes
        BY <1>1, <3>6 DEF Levels
      <4> QED
        BY <4>2, <4>3
    <3> QED
      BY <3>5, <3>6
  <2> QED
    BY <2>2, <2>3, <2>4
<1>9. Part \subseteq S
  <2> HIDE DEF S
  <2> QED
    BY <1>8, ChildrenAreLower, ByRank
<1> QED
  BY <1>9

\* An update with one WHERE is measured as that is.
LEMMA UpdatesOfOneWhere ==
  ASSUME NEW p \in Pattern
  PROVE  check_update(<<[op |-> "delete_insert", pattern |-> p]>>) = check_query(p)
<1> DEFINE u == <<[op |-> "delete_insert", pattern |-> p]>>
           cost == query_cost(p)
           where(o) == IF o.op = "delete_insert" THEN query_cost(o.pattern) ELSE Cost(0, 0)
           costs == [i \in DOMAIN u |-> where(u[i])]
<1>1. cost \in Costs
  BY WalkIsOfCosts, CostsAreCosts DEF query_cost, Pattern
<1>2. DOMAIN u = 1..1 /\ u[1].op = "delete_insert" /\ u[1].pattern = p
  OBVIOUS
<1>3. costs = [i \in 1..1 |-> cost]
  BY <1>2
<1>4. costs \in [1..1 -> Costs] /\ Len(costs) = 1 /\ costs[1] = cost
  BY <1>1, <1>3
<1>5. update_cost(u) = Sum(costs)
  BY DEF update_cost
<1> HIDE DEF u, cost, costs
<1>6. Sum(costs) = Plus(Cost(0, 0), cost)
  <2>1. /\ Sums(costs)[0] = Cost(0, 0)
        /\ \A k \in 1..1 : Sums(costs)[k] = Plus(Sums(costs)[k - 1], costs[k])
    BY <1>4, SumsStepByStep
  <2> QED
    BY <1>4, <2>1 DEF Sum
<1>7. /\ Cost(0, 0) \in Costs /\ Cost(0, 0).nodes = 0 /\ Cost(0, 0).widest = 0
      /\ cost.nodes \in Nat /\ cost.widest \in Nat
  BY <1>1 DEF Cost, Costs
<1>8. Sum(costs).nodes = cost.nodes /\ Sum(costs).widest = cost.widest
  <2>1. Sum(costs).nodes = 0 + cost.nodes /\ Sum(costs).widest = Wider(0, cost.widest)
    BY <1>1, <1>6, <1>7, Fields
  <2> QED
    BY <1>7, <2>1 DEF Wider
<1>9. Affordable(update_cost(u)) = Affordable(cost)
  BY <1>5, <1>8 DEF Affordable
<1> QED
  BY <1>9 DEF check_update, check_query, u, cost

-----------------------------------------------------------------------------
(* The bounds *)

\* Whatever is let through can be planned and run within the bounds, for patterns of any
\* shape and size and any bounds.
THEOREM PlansAreBounded == ShapeSpec => []PlansStayWithinBounds
<1> DEFINE Inv == shape = NoShape \/ shape \in Pattern
<1>1. ShapeInit => Inv
  BY DEF ShapeInit
<1>2. Inv /\ [ShapeNext]_shape => Inv'
  BY DEF ShapeNext, Parsed, Answer
<1>3. Inv => PlansStayWithinBounds
  <2> SUFFICES ASSUME shape \in Pattern, shape # NoShape
               PROVE  PlansStayWithinBounds
    BY DEF PlansStayWithinBounds
  <2> DEFINE p == shape
             c == walk[p]
             cost == query_cost(p)
             width == Wider(c.widest, c.operands)
  <2>1. p \in Part /\ c \in Costs
    BY WalkIsOfCosts DEF Pattern
  <2>2. cost.nodes = c.nodes /\ cost.widest = width
    BY <2>1, Fields DEF query_cost
  <2>3. c.nodes \in Nat /\ c.operands \in Nat /\ c.widest \in Nat /\ width \in Nat
    BY <2>1 DEF Costs, Wider
  <2>4. /\ \A w \in Widths[p] : w <= width
        /\ c.widest = 0 \/ c.widest \in Widths[p]
        /\ \A d \in Depths[p] : d <= c.nodes + 1
    BY <2>1, WidthsAreCounted
  <2>5. Widths[p] \subseteq Nat /\ Depths[p] \subseteq Nat
    BY <2>1, WidthsAreNumbers, DepthsAreNumbers
  <2>6. c.operands >= 1 /\ c.operands \in Widths[p]
    <3>1. c.operands >= 1 /\ c.operands \in Lengths[p]
      BY OperandsAreLengths
    <3>2. Widths[p] = WidthsOf(p, Widths)
      BY <2>1, WidthsAreNumbers
    <3> QED
      BY <3>1, <3>2 DEF WidthsOf
  <2>7. MAX_JOIN_OPERANDS \in Nat /\ MAX_ALGEBRA_NODES \in Nat
    BY BoundsAreNumbers
  <2>8. width \in Widths[p]
    <3>1. width = c.operands \/ (width = c.widest /\ c.widest # 0)
      BY <2>3, <2>6 DEF Wider
    <3> QED
      BY <2>4, <2>6, <3>1
  <2> HIDE DEF p, c, cost, width
  <2>9. ASSUME check_query(p)
        PROVE  /\ \A w \in Widths[p] : w <= MAX_JOIN_OPERANDS
               /\ \A d \in Depths[p] : d <= MAX_ALGEBRA_NODES + 1
    <3>1. width <= MAX_JOIN_OPERANDS /\ c.nodes <= MAX_ALGEBRA_NODES
      BY <2>2, <2>9 DEF check_query, Affordable, cost
    <3>2. ASSUME NEW w \in Widths[p]
          PROVE  w <= MAX_JOIN_OPERANDS
      <4>1. w \in Nat /\ w <= width
        BY <2>4, <2>5
      <4> QED
        BY <2>3, <2>7, <3>1, <4>1
    <3>3. ASSUME NEW d \in Depths[p]
          PROVE  d <= MAX_ALGEBRA_NODES + 1
      <4>1. d \in Nat /\ d <= c.nodes + 1
        BY <2>4, <2>5
      <4> QED
        BY <2>3, <2>7, <3>1, <4>1
    <3> QED
      BY <3>2, <3>3
  <2>10. check_update(<<[op |-> "delete_insert", pattern |-> p]>>) = check_query(p)
    BY UpdatesOfOneWhere DEF p
  <2> QED
    BY <2>2, <2>8, <2>9, <2>10 DEF PlansStayWithinBounds, p, cost
<1> QED
  BY <1>1, <1>2, <1>3, PTL DEF ShapeSpec

-----------------------------------------------------------------------------
(* What is computed along patterns, expressions and paths *)

\* What the recursive functions of this development make of a part. a says which of them
\* it is, and has what else it looks at.
Step(a, x, f) ==
    CASE a[1] = "existing" -> ExistingOf(x, f)
      [] a[1] = "reached" -> ReachedOf(x, f)
      [] a[1] = "scope" -> InScopeOf(x, f)
      [] a[1] = "scopes" -> ScopesOf(x, f)
      [] a[1] = "bindings" -> BindingsOf(x, f)
      [] a[1] = "path probes" -> PathProbesOf(x, f)
      [] a[1] = "probes" -> ProbesOf(x, f)
      [] a[1] = "pairs" -> PairsOf(x, f, a[2])
      [] a[1] = "value" -> ValueOf(x, f, a[2], a[3])
      [] a[1] = "solutions" -> [graphs \in SUBSET Reachable |-> [seen \in SUBSET DOMAIN a[3] |->
                                    SolutionsOf(x, f, a[2], a[3], graphs, seen)]]

\* The step of a part only looks at the values of lower ones.
Local(a, D) ==
    \A x \in D : \A f, g :
        (\A y \in D : Ranks[y] < Ranks[x] => f[y] = g[y]) => Step(a, x, f) = Step(a, x, g)

\* The values of a function are what a step makes of them.
Fixed(a, D, f) == f = [x \in D |-> Step(a, x, f)]

\* There is such a function, then.
LEMMA Computed == ASSUME NEW a, NEW D, D \subseteq Part, Local(a, D) PROVE \E f : Fixed(a, D, f)
<1> DEFINE r == [x \in D |-> Ranks[x]]
<1> r \in [D -> Nat]
  BY ChildrenAreLower
<1> \A x \in D : \A f, g :
        (\A y \in D : r[y] < r[x] => f[y] = g[y]) => Step(a, x, f) = Step(a, x, g)
  <2> SUFFICES ASSUME NEW x \in D, NEW f, NEW g, \A y \in D : r[y] < r[x] => f[y] = g[y]
               PROVE  Step(a, x, f) = Step(a, x, g)
    OBVIOUS
  <2>1. \A y \in D : Ranks[y] < Ranks[x] => f[y] = g[y]
    OBVIOUS
  <2> QED
    BY <2>1 DEF Local
<1> HIDE DEF r
<1> DEFINE Good(f, n) == \A x \in D : r[x] < n => f[x] = Step(a, x, f)
           S == {n \in Nat : \E f : Good(f, n)}
           Some(n) == CHOOSE f : Good(f, n)
           h == [x \in D |-> Some(r[x] + 1)[x]]
<1>1. 0 \in S
  <2>1. Good(<<>>, 0)
    OBVIOUS
  <2> HIDE DEF Good
  <2> QED
    BY <2>1
<1>2. ASSUME NEW n \in Nat, n \in S
      PROVE  n + 1 \in S
  <2>1. PICK f : Good(f, n)
    BY <1>2
  <2> DEFINE g == [x \in D |-> Step(a, x, f)]
  <2>2. ASSUME NEW x \in D, r[x] < n + 1
        PROVE  g[x] = Step(a, x, g)
    <3>1. \A y \in D : r[y] < r[x] => r[y] < n
      BY <2>2
    <3>2. \A y \in D : r[y] < r[x] => f[y] = g[y]
      BY <2>1, <3>1
    <3>3. Step(a, x, f) = Step(a, x, g)
      BY <3>2
    <3> QED
      BY <3>3
  <2>3. Good(g, n + 1)
    BY <2>2
  <2> HIDE DEF g, Good
  <2> QED
    BY <2>3
<1>3. \A n \in Nat : Good(Some(n), n)
  <2>1. Nat \subseteq S
    BY <1>1, <1>2, AllNumbers
  <2> HIDE DEF Good
  <2> QED
    BY <2>1
<1>4. ASSUME NEW x \in D, NEW m \in Nat, NEW n \in Nat, r[x] < m, r[x] < n
      PROVE  Some(m)[x] = Some(n)[x]
  <2> DEFINE f == Some(m)
             g == Some(n)
             A == {y \in D : r[y] < m /\ r[y] < n => f[y] = g[y]}
  <2>1. Good(f, m) /\ Good(g, n)
    BY <1>3
  <2> HIDE DEF f, g
  <2>2. ASSUME NEW y \in D, \A z \in D : r[z] < r[y] => z \in A
        PROVE  y \in A
    <3> SUFFICES ASSUME r[y] < m, r[y] < n PROVE f[y] = g[y]
      OBVIOUS
    <3>1. \A z \in D : r[z] < r[y] => r[z] < m /\ r[z] < n
      OBVIOUS
    <3>2. \A z \in D : r[z] < r[y] => f[z] = g[z]
      BY <2>2, <3>1
    <3>3. Step(a, y, f) = Step(a, y, g)
      BY <3>2
    <3> QED
      BY <2>1, <3>3
  <2> HIDE DEF A
  <2>3. D \subseteq A
    BY <2>2, ByRank
  <2> QED
    BY <1>4, <2>3 DEF A, f, g
<1>5. ASSUME NEW x \in D
      PROVE  h[x] = Step(a, x, h)
  <2> DEFINE f == Some(r[x] + 1)
  <2>1. r[x] + 1 \in Nat /\ r[x] < r[x] + 1
    OBVIOUS
  <2>2. f[x] = Step(a, x, f)
    BY <1>3, <2>1
  <2> HIDE DEF f, Good, Some
  <2>3. \A y \in D : r[y] < r[x] => f[y] = h[y]
    <3> SUFFICES ASSUME NEW y \in D, r[y] < r[x] PROVE f[y] = h[y]
      OBVIOUS
    <3>1. r[y] + 1 \in Nat /\ r[y] < r[y] + 1 /\ r[y] < r[x] + 1
      OBVIOUS
    <3> QED
      BY <1>4, <2>1, <3>1 DEF f
  <2>4. Step(a, x, f) = Step(a, x, h)
    BY <2>3
  <2>5. h[x] = f[x]
    BY DEF f
  <2> QED
    BY <2>2, <2>4, <2>5
<1>6. h = [x \in D |-> h[x]]
  OBVIOUS
<1> HIDE DEF h
<1>7. Fixed(a, D, h)
  BY <1>5, <1>6 DEF Fixed
<1> QED
  BY <1>7

\* The patterns that an expression reads are of lower rank.
LEMMA ExistingAreLower ==
  /\ Existing = [e \in Expression |-> ExistingOf(e, Existing)]
  /\ \A e \in Expression : \A q \in Existing[e] : q \in Pattern /\ Ranks[q] < Ranks[e]
<1> Expression \subseteq Part
  BY DEF Expression
<1>1. ASSUME NEW e \in Expression, NEW f, NEW g,
             \A y \in Expression : Ranks[y] < Ranks[e] => f[y] = g[y]
      PROVE  ExistingOf(e, f) = ExistingOf(e, g)
  <2>1. CASE e.kind = "not"
    <3>1. f[e.of] = g[e.of]
      BY <1>1, <2>1, PartsOfExpressions, ChildrenAreLower
    <3> QED
      BY <2>1, <3>1 DEF ExistingOf
  <2>2. CASE e.kind = "or"
    <3>1. \A i \in DOMAIN e.args : f[e.args[i]] = g[e.args[i]]
      BY <1>1, <2>2, PartsOfExpressions, ChildrenAreLower
    <3>2. {f[e.args[i]] : i \in DOMAIN e.args} = {g[e.args[i]] : i \in DOMAIN e.args}
      BY <3>1
    <3> QED
      BY <2>2, <3>2 DEF ExistingOf
  <2>3. CASE e.kind \in {"term", "triple", "exists"}
    BY <2>3 DEF ExistingOf
  <2> QED
    BY <2>1, <2>2, <2>3, PartsOfExpressions
<1>2. \A e, f : Step(<<"existing">>, e, f) = ExistingOf(e, f)
  BY DEF Step
<1>3. Local(<<"existing">>, Expression)
  BY <1>1, <1>2 DEF Local
<1>4. Existing = [e \in Expression |-> ExistingOf(e, Existing)]
  <2>1. PICK f : Fixed(<<"existing">>, Expression, f)
    BY <1>3, Computed
  <2>2. f = [e \in Expression |-> ExistingOf(e, f)]
    BY <1>2, <2>1 DEF Fixed
  <2> QED
    BY <2>2 DEF Existing
<1> DEFINE S == {e \in Expression : \A q \in Existing[e] : q \in Pattern /\ Ranks[q] < Ranks[e]}
           r == [e \in Expression |-> Ranks[e]]
<1>5. ASSUME NEW e \in Expression, \A y \in Expression : r[y] < r[e] => y \in S
      PROVE  e \in S
  <2>1. Existing[e] = ExistingOf(e, Existing)
    BY <1>4
  <2>2. Ranks \in [Part -> Nat]
    BY ChildrenAreLower
  <2>3. \A y \in Expression \cap Children(e) : \A q \in Existing[y] : q \in Pattern /\ Ranks[q] < Ranks[e]
    <3> SUFFICES ASSUME NEW y \in Expression \cap Children(e), NEW q \in Existing[y]
                 PROVE  q \in Pattern /\ Ranks[q] < Ranks[e]
      OBVIOUS
    <3>1. Ranks[y] < Ranks[e]
      BY ChildrenAreLower
    <3>2. q \in Pattern /\ Ranks[q] < Ranks[y] /\ q \in Part
      BY <1>5, <3>1 DEF Pattern
    <3>3. Ranks[q] \in Nat /\ Ranks[y] \in Nat /\ Ranks[e] \in Nat
      BY <2>2, <3>2
    <3> QED
      BY <3>1, <3>2, <3>3
  <2>4. CASE e.kind = "exists"
    BY <2>1, <2>4, PartsOfExpressions, ChildrenAreLower DEF ExistingOf
  <2>5. CASE e.kind = "not"
    BY <2>1, <2>3, <2>5, PartsOfExpressions DEF ExistingOf
  <2>6. CASE e.kind = "or"
    <3>1. Existing[e] = UNION {Existing[e.args[i]] : i \in DOMAIN e.args}
      BY <2>1, <2>6 DEF ExistingOf
    <3>2. \A i \in DOMAIN e.args : e.args[i] \in Expression \cap Children(e)
      BY <2>6, PartsOfExpressions
    <3> QED
      BY <2>3, <3>1, <3>2
  <2>7. CASE e.kind \in {"term", "triple"}
    BY <2>1, <2>7 DEF ExistingOf
  <2> QED
    BY <2>4, <2>5, <2>6, <2>7, PartsOfExpressions
<1>6. Expression \subseteq S
  <2>1. r \in [Expression -> Nat]
    BY ChildrenAreLower
  <2> HIDE DEF S, r
  <2> QED
    BY <1>5, <2>1, ByRank
<1> QED
  BY <1>4, <1>6

\* What a walk goes on to is of lower rank.
LEMMA BelowAreLower ==
  /\ Ranks \in [Part -> Nat] /\ Pattern \subseteq Part
  /\ \A p \in Pattern : \A q \in Below(p) : q \in Pattern /\ Ranks[q] < Ranks[p]
<1>1. Ranks \in [Part -> Nat] /\ Pattern \subseteq Part /\ Expression \subseteq Part
  BY OperandsAreLower DEF Expression
<1>2. ASSUME NEW p \in Pattern, NEW q \in Below(p)
      PROVE  q \in Pattern /\ Ranks[q] < Ranks[p]
  <2>1. CASE q \in Operands(p)
    BY <2>1, OperandsAreLower
  <2>2. CASE q \notin Operands(p)
    <3>1. PICK e \in Expressions(p) : q \in Existing[e]
      BY <1>2, <2>2 DEF Below
    <3>2. e \in Expression /\ e \in Children(p)
      BY PatternsAreTrees DEF Children
    <3>3. q \in Pattern /\ Ranks[q] < Ranks[e] /\ Ranks[e] < Ranks[p]
      BY <1>1, <3>1, <3>2, ExistingAreLower, ChildrenAreLower
    <3>4. Ranks[q] \in Nat /\ Ranks[e] \in Nat /\ Ranks[p] \in Nat
      BY <1>1, <3>2, <3>3
    <3> QED
      BY <3>3, <3>4
  <2> QED
    BY <2>1, <2>2
<1> QED
  BY <1>1, <1>2

\* The parts that a pattern's operator has.
Two == {"join", "optional", "union", "minus", "lateral"}
None == {"bgp", "path", "values"}

\* Functions that agree on lower patterns agree on what a pattern is made of.
LEMMA AgreeBelow ==
  ASSUME NEW p \in Pattern, NEW f, NEW g,
         \A y \in Pattern : Ranks[y] < Ranks[p] => f[y] = g[y]
  PROVE  /\ \A q \in Below(p) : f[q] = g[q]
         /\ p.op \in Two => f[p.left] = g[p.left] /\ f[p.right] = g[p.right]
         /\ p.op \notin Two \cup None => f[p.inner] = g[p.inner]
<1>1. \A q \in Below(p) : f[q] = g[q]
  BY BelowAreLower
<1>2. \A q \in Operands(p) : f[q] = g[q]
  BY <1>1 DEF Below
<1> QED
  BY <1>1, <1>2 DEF Operands, Two, None

\* What is computed along patterns is what the equations say.
LEMMA ReachedStep == Reached = [p \in Pattern |-> ReachedOf(p, Reached)]
<1> DEFINE a == <<"reached">>
<1>1. \A p, f : Step(a, p, f) = ReachedOf(p, f)
  BY DEF Step
<1>2. Local(a, Pattern)
  <2> SUFFICES ASSUME NEW p \in Pattern, NEW f, NEW g,
                      \A y \in Pattern : Ranks[y] < Ranks[p] => f[y] = g[y]
               PROVE  ReachedOf(p, f) = ReachedOf(p, g)
    BY <1>1 DEF Local
  <2>1. {f[q] : q \in Below(p)} = {g[q] : q \in Below(p)}
    BY AgreeBelow
  <2> QED
    BY <2>1 DEF ReachedOf
<1>3. PICK f : Fixed(a, Pattern, f)
  BY <1>2, Computed, BelowAreLower
<1>4. f = [p \in Pattern |-> ReachedOf(p, f)]
  BY <1>1, <1>3 DEF Fixed
<1> QED
  BY <1>4 DEF Reached

\* So of the variables in scope,
LEMMA InScopeStep == InScope = [p \in Pattern |-> InScopeOf(p, InScope)]
<1> DEFINE a == <<"scope">>
<1>1. \A p, f : Step(a, p, f) = InScopeOf(p, f)
  BY DEF Step
<1>2. Local(a, Pattern)
  <2> SUFFICES ASSUME NEW p \in Pattern, NEW f, NEW g,
                      \A y \in Pattern : Ranks[y] < Ranks[p] => f[y] = g[y]
               PROVE  InScopeOf(p, f) = InScopeOf(p, g)
    BY <1>1 DEF Local
  <2>1. /\ p.op \in Two => f[p.left] = g[p.left] /\ f[p.right] = g[p.right]
        /\ p.op \notin Two \cup None => f[p.inner] = g[p.inner]
    BY AgreeBelow
  <2>2. CASE p.op \in Two
    BY <2>1, <2>2 DEF InScopeOf, Two
  <2>3. CASE p.op \in None
    BY <2>3 DEF InScopeOf, None
  <2>4. CASE p.op \notin Two \cup None
    BY <2>1, <2>4 DEF InScopeOf, Two, None
  <2> QED
    BY <2>2, <2>3, <2>4
<1>3. PICK f : Fixed(a, Pattern, f)
  BY <1>2, Computed, BelowAreLower
<1>4. f = [p \in Pattern |-> InScopeOf(p, f)]
  BY <1>1, <1>3 DEF Fixed
<1> QED
  BY <1>4 DEF InScope

\* of what VALUES says of them,
LEMMA BindingsStep == bindings = [p \in Pattern |-> BindingsOf(p, bindings)]
<1> DEFINE a == <<"bindings">>
<1>1. \A p, f : Step(a, p, f) = BindingsOf(p, f)
  BY DEF Step
<1>2. Local(a, Pattern)
  <2> SUFFICES ASSUME NEW p \in Pattern, NEW f, NEW g,
                      \A y \in Pattern : Ranks[y] < Ranks[p] => f[y] = g[y]
               PROVE  BindingsOf(p, f) = BindingsOf(p, g)
    BY <1>1 DEF Local
  <2>1. /\ p.op \in Two => f[p.left] = g[p.left] /\ f[p.right] = g[p.right]
        /\ p.op \notin Two \cup None => f[p.inner] = g[p.inner]
    BY AgreeBelow
  <2>2. CASE p.op \in Two
    BY <2>1, <2>2 DEF BindingsOf, Two
  <2>3. CASE p.op \in None
    BY <2>3 DEF BindingsOf, None
  <2>4. CASE p.op \notin Two \cup None
    BY <2>1, <2>4 DEF BindingsOf, Two, None
  <2> QED
    BY <2>2, <2>3, <2>4
<1>3. PICK f : Fixed(a, Pattern, f)
  BY <1>2, Computed, BelowAreLower
<1>4. f = [p \in Pattern |-> BindingsOf(p, f)]
  BY <1>1, <1>3 DEF Fixed
<1> QED
  BY <1>4 DEF bindings

\* of the probes of paths,
LEMMA PathProbesStep == path_probes = [e \in PropertyPath |-> PathProbesOf(e, path_probes)]
<1> DEFINE a == <<"path probes">>
<1>1. \A e, f : Step(a, e, f) = PathProbesOf(e, f)
  BY DEF Step
<1>2. ASSUME NEW e \in PropertyPath, NEW f, NEW g,
             \A y \in PropertyPath : Ranks[y] < Ranks[e] => f[y] = g[y]
      PROVE  PathProbesOf(e, f) = PathProbesOf(e, g)
  <2>1. \A c \in PropertyPath \cap Children(e) : f[c] = g[c]
    BY <1>2, ChildrenAreLower, PartsOfPaths
  <2>2. /\ e.kind \in {"reverse", "one_or_more"} => f[e.of] = g[e.of]
        /\ e.kind \in {"sequence", "alternative"} => f[e.a] = g[e.a] /\ f[e.b] = g[e.b]
    BY <1>2, <2>1, PartsOfPaths
  <2> QED
    BY <2>2 DEF PathProbesOf
<1> HIDE DEF a
<1>3. PICK f : Fixed(a, PropertyPath, f)
  <2>1. Local(a, PropertyPath)
    BY <1>1, <1>2 DEF Local
  <2> QED
    BY <2>1, Computed DEF PropertyPath
<1>4. f = [e \in PropertyPath |-> PathProbesOf(e, f)]
  BY <1>1, <1>3 DEF Fixed
<1> QED
  BY <1>4 DEF path_probes

\* and of those of patterns.
LEMMA ProbesStep == pattern_probes = [p \in Pattern |-> ProbesOf(p, pattern_probes)]
<1> DEFINE a == <<"probes">>
<1>1. \A p, f : Step(a, p, f) = ProbesOf(p, f)
  BY DEF Step
<1>2. Local(a, Pattern)
  <2> SUFFICES ASSUME NEW p \in Pattern, NEW f, NEW g,
                      \A y \in Pattern : Ranks[y] < Ranks[p] => f[y] = g[y]
               PROVE  ProbesOf(p, f) = ProbesOf(p, g)
    BY <1>1 DEF Local
  <2>1. {f[q] : q \in Below(p)} = {g[q] : q \in Below(p)}
    BY AgreeBelow
  <2>2. p.op = "join" => f[p.left] = g[p.left] /\ f[p.right] = g[p.right]
    BY AgreeBelow DEF Two
  <2>3. CASE p.op = "join"
    BY <2>2, <2>3 DEF ProbesOf
  <2>4. CASE p.op # "join"
    BY <2>1, <2>4 DEF ProbesOf
  <2> QED
    BY <2>3, <2>4
<1>3. PICK f : Fixed(a, Pattern, f)
  BY <1>2, Computed, BelowAreLower
<1>4. f = [p \in Pattern |-> ProbesOf(p, f)]
  BY <1>1, <1>3 DEF Fixed
<1> QED
  BY <1>4 DEF pattern_probes

(* Solutions *)

\* The operators whose solutions depend on the dataset itself.
OfDatasets == {"bgp", "path", "graph", "service"}

\* The other ones make the same of the same solutions.
LEMMA CombinedAlike ==
  ASSUME NEW p \in Pattern, p.op \notin OfDatasets, NEW f, NEW g, NEW d, NEW e, NEW graphs,
         NEW inside, \A q \in Below(p) : f[q][graphs][inside] = g[q][graphs][inside]
  PROVE  Produced(p, f, d, graphs, inside) = Produced(p, g, e, graphs, inside)
<1>1. [q \in Below(p) |-> f[q][graphs][inside]] = [q \in Below(p) |-> g[q][graphs][inside]]
  OBVIOUS
<1>2. \A h, c : Produced(p, h, c, graphs, inside)
                    = Combined(p, [q \in Below(p) |-> h[q][graphs][inside]])
  BY DEF Produced, OfDatasets
<1> QED
  BY <1>1, <1>2

\* All of them look only at those of lower patterns.
LEMMA ProducedAlike ==
  ASSUME NEW p \in Pattern, NEW f, NEW g, NEW d, NEW graphs, NEW inside,
         \A q \in Below(p) : f[q] = g[q]
  PROVE  Produced(p, f, d, graphs, inside) = Produced(p, g, d, graphs, inside)
<1>1. CASE p.op \notin OfDatasets
  BY <1>1, CombinedAlike
<1>2. CASE p.op \in {"bgp", "path"}
  BY <1>2 DEF Produced
<1>3. CASE p.op \in {"graph", "service"}
  <2>1. f[p.inner] = g[p.inner]
    BY <1>3 DEF Below, Operands
  <2> QED
    BY <1>3, <2>1 DEF Produced
<1> QED
  BY <1>1, <1>2, <1>3 DEF OfDatasets

\* The solutions of a pattern are what its step makes of those of lower ones.
LEMMA EvaluationStep ==
  ASSUME NEW d, NEW given, NEW p \in Pattern,
         NEW graphs \in SUBSET Reachable, NEW seen \in SUBSET DOMAIN given
  PROVE  Evaluation(d, given)[p][graphs][seen]
            = SolutionsOf(p, Evaluation(d, given), d, given, graphs, seen)
<1> DEFINE a == <<"solutions", d, given>>
           Over(q, f, gs) == [vs \in SUBSET DOMAIN given |-> SolutionsOf(q, f, d, given, gs, vs)]
           Of(q, f) == [gs \in SUBSET Reachable |-> Over(q, f, gs)]
<1>1. \A q, f : Step(a, q, f) = Of(q, f)
  BY DEF Step
<1>2. ASSUME NEW q \in Pattern, NEW f, NEW g,
             \A y \in Pattern : Ranks[y] < Ranks[q] => f[y] = g[y]
      PROVE  Of(q, f) = Of(q, g)
  <2>1. \A y \in Below(q) : f[y] = g[y]
    BY <1>2, AgreeBelow
  <2>2. ASSUME NEW gs, NEW vs
        PROVE  SolutionsOf(q, f, d, given, gs, vs) = SolutionsOf(q, g, d, given, gs, vs)
    <3>1. Produced(q, f, d, gs, Inside(q, vs)) = Produced(q, g, d, gs, Inside(q, vs))
      BY <2>1, ProducedAlike
    <3> QED
      BY <3>1 DEF SolutionsOf
  <2>3. ASSUME NEW gs
        PROVE  Over(q, f, gs) = Over(q, g, gs)
    BY <2>2
  <2> HIDE DEF Over
  <2> QED
    BY <2>3
<1> HIDE DEF a, Of
<1>3. PICK f : Fixed(a, Pattern, f)
  <2>1. Local(a, Pattern)
    BY <1>1, <1>2 DEF Local
  <2> QED
    BY <2>1, Computed, BelowAreLower
<1> DEFINE F == Evaluation(d, given)
<1>4. F = [q \in Pattern |-> Of(q, F)]
  <2>1. f = [q \in Pattern |-> Of(q, f)]
    BY <1>1, <1>3 DEF Fixed
  <2> QED
    BY <2>1 DEF Evaluation, Of
<1> HIDE DEF F
<1>5. F[p][graphs] = Over(p, F, graphs)
  <2> HIDE DEF Over
  <2>1. F[p] = Of(p, F)
    BY <1>4
  <2> QED
    BY <2>1 DEF Of
<1>6. F[p][graphs][seen] = SolutionsOf(p, F, d, given, graphs, seen)
  BY <1>5
<1> QED
  BY <1>6 DEF F

-----------------------------------------------------------------------------
(* The solutions of an update's WHERE *)

\* The solutions of a part of an update's WHERE, which no variable is given to.
Found(p, d, graphs) == Evaluation(d, <<>>)[p][graphs][{}]
FoundBelow(p, d, graphs) == [q \in Below(p) |-> Found(q, d, graphs)]

\* No variable is one that the empty solution binds.
LEMMA NothingGiven == DOMAIN <<>> = {}
  OBVIOUS

\* No variable is given, so a pattern has the solutions that are produced for it:
LEMMA FoundIsProduced ==
  ASSUME NEW d, NEW p \in Pattern, NEW graphs \in SUBSET Reachable
  PROVE  Found(p, d, graphs) = Produced(p, Evaluation(d, <<>>), d, graphs, {})
<1>0. PICK given : given = <<>>
  OBVIOUS
<1> DEFINE F == Evaluation(d, given)
<1>1. {} \in SUBSET DOMAIN given
  OBVIOUS
<1>3. F[p][graphs][{}] = SolutionsOf(p, F, d, given, graphs, {})
  BY <1>1, EvaluationStep
<1>4. Inside(p, {}) = {}
  BY DEF Inside
<1>5. SolutionsOf(p, F, d, given, graphs, {}) = Produced(p, F, d, graphs, {})
  BY <1>4 DEF SolutionsOf, Substituted
<1> QED
  BY <1>0, <1>3, <1>5 DEF F, Found

\* matches of its triples,
LEMMA BgpFound ==
  ASSUME NEW d, NEW p \in Pattern, p.op = "bgp", NEW graphs \in SUBSET Reachable
  PROVE  Found(p, d, graphs) = Matches(p.triples, Active(d, graphs))
BY FoundIsProduced DEF Produced

\* The triples that stand for the pairs of a path.
PathTriples(e, triples) == {<<c[1], True, c[2]>> : c \in Pairs(e, triples)}

\* of what its path connects,
LEMMA PathFound ==
  ASSUME NEW d, NEW p \in Pattern, p.op = "path", NEW graphs \in SUBSET Reachable
  PROVE  Found(p, d, graphs) = Matches({<<p.s, Const(True), p.o>>},
                                       PathTriples(p.path, Active(d, graphs)))
BY FoundIsProduced DEF Produced, PathTriples

\* The solutions of a GRAPH with a variable for a name, in one graph.
FoundIn(p, d, g) == Joined({Binding(p.name[2], <<g, 0>>)}, Found(p.inner, d, {g}))

\* what is found in the graph that GRAPH names, or in each there is,
LEMMA GraphFound ==
  ASSUME NEW d, NEW p \in Pattern, p.op = "graph", NEW graphs \in SUBSET Reachable
  PROVE  /\ p.name[1] = "const" /\ p.name[2] \in d.named =>
                Found(p, d, graphs) = Found(p.inner, d, {p.name[2]})
         /\ p.name[1] = "const" /\ p.name[2] \notin d.named =>
                Found(p, d, graphs) = Found(p.inner, d, {})
         /\ p.name[1] # "const" =>
                Found(p, d, graphs) = UNION {FoundIn(p, d, g) : g \in d.named \ {Remote}}
<1>1. Found(p, d, graphs) = Produced(p, Evaluation(d, <<>>), d, graphs, {})
  BY FoundIsProduced
<1> QED
  BY <1>1 DEF Produced, Found, FoundIn

\* what the other machine has,
LEMMA ServiceFound ==
  ASSUME NEW d, NEW p \in Pattern, p.op = "service", NEW graphs \in SUBSET Reachable
  PROVE  Found(p, d, graphs) = IF Remote \in d.named THEN Found(p.inner, d, {Remote}) ELSE {<<>>}
<1>1. Found(p, d, graphs) = Produced(p, Evaluation(d, <<>>), d, graphs, {})
  BY FoundIsProduced
<1> QED
  BY <1>1 DEF Produced, Found

\* or what the other operators make of the solutions of their operands.
LEMMA OthersFound ==
  ASSUME NEW d, NEW p \in Pattern, p.op \notin OfDatasets, NEW graphs \in SUBSET Reachable
  PROVE  Found(p, d, graphs) = Combined(p, FoundBelow(p, d, graphs))
<1>1. Found(p, d, graphs) = Produced(p, Evaluation(d, <<>>), d, graphs, {})
  BY FoundIsProduced
<1> QED
  BY <1>1 DEF Produced, Found, FoundBelow, OfDatasets

\* The operators that have solutions.
Solved == OfDatasets \cup {"values", "join", "optional", "union", "minus", "filter", "extend",
                           "group", "project", "modifier", "order"}

\* The solutions of a pattern of other patterns.
LEMMA FoundInParts ==
  ASSUME NEW d, NEW p \in Pattern, NEW graphs \in SUBSET Reachable
  PROVE  LET of == FoundBelow(p, d, graphs)
             L == Found(p.left, d, graphs)
             R == Found(p.right, d, graphs)
             M == Found(p.inner, d, graphs)
             Here(op, N) == p.op = op => Found(p, d, graphs) = N
         IN /\ Here("values", {IF row = Unbound THEN <<>> ELSE Binding(p.var, row) : row \in p.rows})
            /\ Here("join", Joined(L, R))
            /\ Here("optional", LeftJoined(L, R, p.expr, of))
            /\ Here("union", L \cup R)
            /\ Here("minus", Unmatched(L, R))
            /\ Here("filter", Filtered(M, p.expr, of))
            /\ Here("extend", Extended(M, p.var, p.expr, of))
            /\ Here("group", Grouped(M, p.by, p.var, p.expr, of))
            /\ Here("project", Projected(M, p.vars))
            /\ Here("modifier", M)
            /\ Here("order", M)
            /\ p.op \notin Solved => Found(p, d, graphs) = {}
<1> DEFINE of == FoundBelow(p, d, graphs)
<1>1. p.op \notin OfDatasets => Found(p, d, graphs) = Combined(p, of)
  BY OthersFound
<1>2. /\ p.op \in Two => of[p.left] = Found(p.left, d, graphs) /\ of[p.right] = Found(p.right, d, graphs)
      /\ p.op \notin Two \cup None => of[p.inner] = Found(p.inner, d, graphs)
  BY DEF FoundBelow, Below, Operands, Two, None
<1>3. p.op \in Two => Combined(p, of) =
        CASE p.op = "join" -> Joined(of[p.left], of[p.right])
          [] p.op = "optional" -> LeftJoined(of[p.left], of[p.right], p.expr, of)
          [] p.op = "union" -> of[p.left] \cup of[p.right]
          [] p.op = "minus" -> Unmatched(of[p.left], of[p.right])
          [] p.op = "lateral" -> {}
  BY DEF Combined, Two
<1>4. CASE p.op = "join"
  BY <1>1, <1>2, <1>4 DEF Combined, Two, None, OfDatasets, Solved
<1>5. CASE p.op = "optional"
  BY <1>1, <1>2, <1>5 DEF Combined, Two, None, OfDatasets, Solved
<1>6. CASE p.op = "union"
  BY <1>1, <1>2, <1>6 DEF Combined, Two, None, OfDatasets, Solved
<1>7. CASE p.op = "minus"
  BY <1>1, <1>2, <1>7 DEF Combined, Two, None, OfDatasets, Solved
<1>8. CASE p.op \notin Solved
  BY <1>1, <1>8 DEF Combined, Solved, OfDatasets
<1>9. CASE p.op = "filter"
  BY <1>1, <1>2, <1>9 DEF Combined, Two, None, OfDatasets, Solved
<1>10. CASE p.op = "extend"
  BY <1>1, <1>2, <1>10 DEF Combined, Two, None, OfDatasets, Solved
<1>11. CASE p.op = "group"
  BY <1>1, <1>2, <1>11 DEF Combined, Two, None, OfDatasets, Solved
<1>12. CASE p.op = "project"
  BY <1>1, <1>2, <1>12 DEF Combined, Two, None, OfDatasets, Solved
<1>13. CASE p.op = "modifier"
  BY <1>1, <1>2, <1>13 DEF Combined, Two, None, OfDatasets, Solved
<1>14. CASE p.op = "order"
  BY <1>1, <1>2, <1>14 DEF Combined, Two, None, OfDatasets, Solved
<1>15. CASE p.op = "values"
  BY <1>1, <1>2, <1>15 DEF Combined, Two, None, OfDatasets, Solved
<1> QED
  BY <1>4, <1>5, <1>6, <1>7, <1>8, <1>9, <1>10, <1>11, <1>12, <1>13, <1>14, <1>15 DEF Solved, OfDatasets

-----------------------------------------------------------------------------
(* What a solution is made of *)

\* What the operators on solutions make.
LEMMA MergedAre ==
  ASSUME NEW l, NEW r
  PROVE  /\ \A v : v \in DOMAIN Merged(l, r) <=> v \in DOMAIN l \/ v \in DOMAIN r
         /\ \A v \in DOMAIN l : Merged(l, r)[v] = l[v]
         /\ \A v \in DOMAIN r : v \notin DOMAIN l => Merged(l, r)[v] = r[v]
<1>1. \A v : v \in DOMAIN Merged(l, r) <=> v \in DOMAIN l \/ v \in DOMAIN r
  BY DEF Merged
<1>2. \A v \in DOMAIN l : Merged(l, r)[v] = l[v]
  BY DEF Merged
<1>3. \A v \in DOMAIN r : v \notin DOMAIN l => Merged(l, r)[v] = r[v]
  BY DEF Merged
<1> QED
  BY <1>1, <1>2, <1>3

\* A solution of one variable binds that one.
LEMMA BindingIs ==
  ASSUME NEW v, NEW t
  PROVE  (\A w : w \in DOMAIN Binding(v, t) <=> w = v) /\ Binding(v, t)[v] = t
BY DEF Binding

\* A solution of two patterns together, one of another with a variable more or with
\* another value for it, and one with another's values for some of its variables.
Joins(m, l, r) == Compatible(l, r) /\ m = Merged(l, r)
Adds(m, v, n) == \E t : m = Merged(Binding(v, t), n)
CutTo(m, n, vars) == DOMAIN m = vars \cap DOMAIN n /\ \A v \in DOMAIN m : m[v] = n[v]

\* A solution that has another's values for all of its variables.
Has(m, n) == \A v \in DOMAIN n : v \in DOMAIN m /\ m[v] = n[v]

\* Two solutions together bind what either does, to what it does.
LEMMA JoinsDomain ==
  ASSUME NEW m, NEW l, NEW r, Joins(m, l, r)
  PROVE  \A v : v \in DOMAIN m <=> v \in DOMAIN l \/ v \in DOMAIN r
BY MergedAre DEF Joins

\* They have the values of both.
LEMMA JoinsHas ==
  ASSUME NEW m, NEW l, NEW r, Joins(m, l, r)
  PROVE  Has(m, l) /\ Has(m, r)
<1>1. m = Merged(l, r) /\ \A v \in DOMAIN l : v \in DOMAIN r => l[v] = r[v]
  BY DEF Joins, Compatible
<1>2. \A v \in DOMAIN l : v \in DOMAIN m /\ m[v] = l[v]
  BY <1>1, MergedAre
<1>3. \A v \in DOMAIN r : v \in DOMAIN m /\ m[v] = r[v]
  BY <1>1, MergedAre
<1> QED
  BY <1>2, <1>3 DEF Has

\* A variable more is one variable more,
LEMMA AddsDomain ==
  ASSUME NEW m, NEW v, NEW n, Adds(m, v, n)
  PROVE  \A w : w \in DOMAIN m <=> w = v \/ w \in DOMAIN n
<1>1. PICK t : m = Merged(Binding(v, t), n)
  BY DEF Adds
<1> QED
  BY <1>1, MergedAre, BindingIs

\* and the others keep their values.
LEMMA AddsHas ==
  ASSUME NEW m, NEW v, NEW n, Adds(m, v, n)
  PROVE  \A w \in DOMAIN n : w # v => w \in DOMAIN m /\ m[w] = n[w]
<1>1. PICK t : m = Merged(Binding(v, t), n)
  BY DEF Adds
<1> QED
  BY <1>1, MergedAre, BindingIs

\* A join is of every two solutions that go together.
LEMMA JoinedAre ==
  ASSUME NEW M, NEW N, NEW m
  PROVE  m \in Joined(M, N) <=> \E l \in M, r \in N : Joins(m, l, r)
<1>1. ASSUME m \in Joined(M, N)
      PROVE  \E l \in M, r \in N : Joins(m, l, r)
  <2>1. PICK q \in M \X N : Compatible(q[1], q[2]) /\ m = Merged(q[1], q[2])
    BY <1>1 DEF Joined
  <2> QED
    BY <2>1 DEF Joins
<1>2. ASSUME NEW l \in M, NEW r \in N, Joins(m, l, r)
      PROVE  m \in Joined(M, N)
  <2>1. <<l, r>> \in {q \in M \X N : Compatible(q[1], q[2])}
    BY <1>2 DEF Joins
  <2> QED
    BY <1>2, <2>1 DEF Joined, Joins
<1> QED
  BY <1>1, <1>2

\* An OPTIONAL keeps a solution of its left side, or joins it to one of the right.
LEMMA LeftJoinedAre ==
  ASSUME NEW M, NEW N, NEW e, NEW of, NEW m \in LeftJoined(M, N, e, of)
  PROVE  m \in M \/ m \in Joined(M, N)
<1> DEFINE Passing(l) == {n \in Joined({l}, N) : Evaluated(e, n, of) = True}
<1>1. PICK l \in M : m \in IF Passing(l) = {} THEN {l} ELSE Passing(l)
  BY DEF LeftJoined
<1>2. m = l \/ m \in Joined({l}, N)
  BY <1>1
<1> QED
  BY <1>2, JoinedAre

\* What a solution of a pattern is made of, or at least what it binds.
LEMMA BgpShape ==
  ASSUME NEW d, NEW p \in Pattern, p.op = "bgp", NEW graphs \in SUBSET Reachable,
         NEW m \in Found(p, d, graphs)
  PROVE  DOMAIN m = Variables(p.triples)
<1>1. m \in Matches(p.triples, Active(d, graphs))
  BY BgpFound
<1> QED
  BY <1>1 DEF Matches, BoundTo

\* A path binds the variables at its ends,
LEMMA PathShape ==
  ASSUME NEW d, NEW p \in Pattern, p.op = "path", NEW graphs \in SUBSET Reachable,
         NEW m \in Found(p, d, graphs)
  PROVE  DOMAIN m = VarsOf(p.s) \cup VarsOf(p.o)
<1> DEFINE t == <<p.s, Const(True), p.o>>
           N == PathTriples(p.path, Active(d, graphs))
<1>1. m \in Matches({t}, N)
  BY PathFound
<1>2. VarsOf(t[1]) \cup VarsOf(t[2]) \cup VarsOf(t[3]) = VarsOf(p.s) \cup VarsOf(p.o)
  BY DEF VarsOf, Const
<1> HIDE DEF N, t
<1>3. Variables({t}) = VarsOf(t[1]) \cup VarsOf(t[2]) \cup VarsOf(t[3])
  BY DEF Variables
<1>4. DOMAIN m = Variables({t})
  BY <1>1 DEF Matches, BoundTo
<1> QED
  BY <1>2, <1>3, <1>4

\* VALUES one variable or none,
LEMMA ValuesShape ==
  ASSUME NEW d, NEW p \in Pattern, p.op = "values", NEW graphs \in SUBSET Reachable,
         NEW m \in Found(p, d, graphs)
  PROVE  \/ Unbound \in p.rows /\ DOMAIN m = {}
         \/ (\A v : v \in DOMAIN m <=> v = p.var) /\ m[p.var] \in p.rows
<1>1. m \in {IF row = Unbound THEN <<>> ELSE Binding(p.var, row) : row \in p.rows}
  BY FoundInParts
<1>2. PICK row \in p.rows : IF row = Unbound THEN m = <<>> ELSE m = Binding(p.var, row)
  BY <1>1
<1>3. CASE row = Unbound
  BY <1>2, <1>3, NothingGiven
<1>4. CASE row # Unbound
  BY <1>2, <1>4, BindingIs
<1> QED
  BY <1>3, <1>4

\* a join has a solution of either side,
LEMMA JoinShape ==
  ASSUME NEW d, NEW p \in Pattern, p.op = "join", NEW graphs \in SUBSET Reachable,
         NEW m \in Found(p, d, graphs)
  PROVE  \E l \in Found(p.left, d, graphs), r \in Found(p.right, d, graphs) : Joins(m, l, r)
<1>1. m \in Joined(Found(p.left, d, graphs), Found(p.right, d, graphs))
  BY FoundInParts
<1> QED
  BY <1>1, JoinedAre

\* an OPTIONAL one of its left side, or of both,
LEMMA OptionalShape ==
  ASSUME NEW d, NEW p \in Pattern, p.op = "optional", NEW graphs \in SUBSET Reachable,
         NEW m \in Found(p, d, graphs)
  PROVE  \/ m \in Found(p.left, d, graphs)
         \/ \E l \in Found(p.left, d, graphs), r \in Found(p.right, d, graphs) : Joins(m, l, r)
<1> DEFINE of == FoundBelow(p, d, graphs)
<1>1. m \in LeftJoined(Found(p.left, d, graphs), Found(p.right, d, graphs), p.expr, of)
  BY FoundInParts
<1> QED
  BY <1>1, LeftJoinedAre, JoinedAre

\* and these have what one of their sides has.
LEMMA PlainShape ==
  ASSUME NEW d, NEW p \in Pattern, NEW graphs \in SUBSET Reachable,
         NEW m \in Found(p, d, graphs)
  PROVE  /\ p.op = "union" => m \in Found(p.left, d, graphs) \/ m \in Found(p.right, d, graphs)
         /\ p.op = "minus" => m \in Found(p.left, d, graphs)
         /\ p.op \in {"filter", "modifier", "order"} => m \in Found(p.inner, d, graphs)
         /\ p.op \in Solved
<1> DEFINE of == FoundBelow(p, d, graphs)
<1>1. CASE p.op \in {"union", "modifier", "order"}
  BY <1>1, FoundInParts DEF Solved
<1>2. CASE p.op = "minus"
  <2>1. m \in Unmatched(Found(p.left, d, graphs), Found(p.right, d, graphs))
    BY <1>2, FoundInParts
  <2> QED
    BY <1>2, <2>1 DEF Unmatched, Solved
<1>3. CASE p.op = "filter"
  <2>1. m \in Filtered(Found(p.inner, d, graphs), p.expr, of)
    BY <1>3, FoundInParts
  <2> QED
    BY <1>3, <2>1 DEF Filtered, Solved
<1>4. p.op \in Solved
  BY FoundInParts
<1> QED
  BY <1>1, <1>2, <1>3, <1>4

\* A BIND adds a variable, or nothing,
LEMMA ExtendShape ==
  ASSUME NEW d, NEW p \in Pattern, p.op = "extend", NEW graphs \in SUBSET Reachable,
         NEW m \in Found(p, d, graphs)
  PROVE  \E n \in Found(p.inner, d, graphs) : m = n \/ Adds(m, p.var, n)
<1> DEFINE of == FoundBelow(p, d, graphs)
<1>1. m \in Extended(Found(p.inner, d, graphs), p.var, p.expr, of)
  BY FoundInParts
<1> QED
  BY <1>1 DEF Extended, Adds

\* a grouping binds what it groups by, and its count,
LEMMA GroupShape ==
  ASSUME NEW d, NEW p \in Pattern, p.op = "group", NEW graphs \in SUBSET Reachable,
         NEW m \in Found(p, d, graphs)
  PROVE  DOMAIN m \subseteq {p.var} \cup p.by
<1> DEFINE of == FoundBelow(p, d, graphs)
           M == Found(p.inner, d, graphs)
<1>1. m \in Grouped(M, p.by, p.var, p.expr, of)
  BY FoundInParts
<1> HIDE DEF M, of
<1>2. PICK k \in Projected(M, p.by) : Adds(m, p.var, k)
  BY <1>1 DEF Grouped, Adds
<1>3. DOMAIN k \subseteq p.by
  BY DEF Projected
<1>4. \A v : v \in DOMAIN m <=> v = p.var \/ v \in DOMAIN k
  BY <1>2, AddsDomain
<1> QED
  BY <1>3, <1>4

\* a projection drops variables,
LEMMA ProjectShape ==
  ASSUME NEW d, NEW p \in Pattern, p.op = "project", NEW graphs \in SUBSET Reachable,
         NEW m \in Found(p, d, graphs)
  PROVE  \E n \in Found(p.inner, d, graphs) : CutTo(m, n, p.vars)
<1>1. m \in Projected(Found(p.inner, d, graphs), p.vars)
  BY FoundInParts
<1>2. PICK n \in Found(p.inner, d, graphs) : m = [v \in p.vars \cap DOMAIN n |-> n[v]]
  BY <1>1 DEF Projected
<1>3. CutTo(m, n, p.vars)
  BY <1>2 DEF CutTo
<1> QED
  BY <1>3

\* a GRAPH has what is found in a graph, with its name where that is a variable,
LEMMA GraphShape ==
  ASSUME NEW d, d.named \subseteq Reachable, NEW p \in Pattern, p.op = "graph",
         NEW graphs \in SUBSET Reachable, NEW m \in Found(p, d, graphs)
  PROVE  \E gs \in SUBSET Reachable : \E n \in Found(p.inner, d, gs) :
            \/ p.name[1] = "const" /\ m = n
            \/ p.name[1] # "const" /\ \E g : Joins(m, Binding(p.name[2], <<g, 0>>), n)
<1>1. CASE p.name[1] = "const"
  <2>1. {} \in SUBSET Reachable /\ (p.name[2] \in d.named => {p.name[2]} \in SUBSET Reachable)
    OBVIOUS
  <2>2. \/ p.name[2] \in d.named /\ m \in Found(p.inner, d, {p.name[2]})
        \/ m \in Found(p.inner, d, {})
    BY <1>1, GraphFound
  <2> QED
    BY <1>1, <2>1, <2>2
<1>2. CASE p.name[1] # "const"
  <2>1. m \in UNION {FoundIn(p, d, g) : g \in d.named \ {Remote}}
    BY <1>2, GraphFound
  <2>2. PICK g \in d.named : m \in FoundIn(p, d, g)
    BY <2>1
  <2>3. {g} \in SUBSET Reachable
    OBVIOUS
  <2>4. \E n \in Found(p.inner, d, {g}) : Joins(m, Binding(p.name[2], <<g, 0>>), n)
    BY <2>2, JoinedAre DEF FoundIn
  <2> QED
    BY <1>2, <2>3, <2>4
<1> QED
  BY <1>1, <1>2

\* and a SERVICE what the other machine finds, or nothing.
LEMMA ServiceShape ==
  ASSUME NEW d, NEW p \in Pattern, p.op = "service", NEW graphs \in SUBSET Reachable,
         NEW m \in Found(p, d, graphs)
  PROVE  DOMAIN m = {} \/ m \in Found(p.inner, d, {Remote})
BY ServiceFound, NothingGiven

-----------------------------------------------------------------------------
(* Induction over patterns *)

\* The operands of a pattern are patterns of a lower rank.
LEMMA LowerParts ==
  ASSUME NEW p \in Pattern
  PROVE  /\ p.op \in Two => /\ p.left \in Pattern /\ Ranks[p.left] < Ranks[p]
                            /\ p.right \in Pattern /\ Ranks[p.right] < Ranks[p]
         /\ p.op \notin Two \cup None => p.inner \in Pattern /\ Ranks[p.inner] < Ranks[p]
BY OperandsAreLower DEF Operands, Two, None

\* What holds of a pattern when it holds of all lower ones holds of every pattern.
LEMMA ByPatterns ==
  ASSUME NEW S, \A p \in Pattern : (\A q \in Pattern : Ranks[q] < Ranks[p] => q \in S) => p \in S
  PROVE  Pattern \subseteq S
<1> DEFINE r == [p \in Pattern |-> Ranks[p]]
<1>1. r \in [Pattern -> Nat]
  BY BelowAreLower
<1>2. \A p \in Pattern : (\A q \in Pattern : r[q] < r[p] => q \in S) => p \in S
  <2> SUFFICES ASSUME NEW p \in Pattern, \A q \in Pattern : r[q] < r[p] => q \in S PROVE p \in S
    OBVIOUS
  <2>1. \A q \in Pattern : Ranks[q] < Ranks[p] => q \in S
    OBVIOUS
  <2> QED
    BY <2>1
<1> HIDE DEF r
<1> QED
  BY ONLY <1>1, <1>2, ByRank

\* A solution binds none but the variables that are in scope.
InTheirScope(d) == {p \in Pattern : \A graphs \in SUBSET Reachable :
                        \A m \in Found(p, d, graphs) : DOMAIN m \subseteq InScope[p]}

\* A solution binds none but the variables that are in scope.
LEMMA SolutionsAreInScope ==
  ASSUME NEW d, d.named \subseteq Reachable
  PROVE  \A p \in Pattern : \A graphs \in SUBSET Reachable :
            \A m \in Found(p, d, graphs) : DOMAIN m \subseteq InScope[p]
<1>1. ASSUME NEW p \in Pattern, \A q \in Pattern : Ranks[q] < Ranks[p] => q \in InTheirScope(d)
      PROVE  p \in InTheirScope(d)
  <2> SUFFICES ASSUME NEW graphs \in SUBSET Reachable, NEW m \in Found(p, d, graphs)
               PROVE  DOMAIN m \subseteq InScope[p]
    BY DEF InTheirScope
  <2>1. /\ p.op \in Two => p.left \in InTheirScope(d) /\ p.right \in InTheirScope(d)
        /\ p.op \notin Two \cup None => p.inner \in InTheirScope(d)
    BY <1>1, LowerParts
  <2>2. InScope[p] = InScopeOf(p, InScope)
    BY InScopeStep
  <2>3. p.op \in Two =>
            /\ \A l \in Found(p.left, d, graphs) : DOMAIN l \subseteq InScope[p.left]
            /\ \A r \in Found(p.right, d, graphs) : DOMAIN r \subseteq InScope[p.right]
    BY <2>1 DEF InTheirScope
  <2>4. p.op \notin Two \cup None => \A gs \in SUBSET Reachable :
            \A n \in Found(p.inner, d, gs) : DOMAIN n \subseteq InScope[p.inner]
    BY <2>1 DEF InTheirScope
  <2>5. CASE p.op \in {"bgp", "path"}
    <3>1. /\ p.op = "bgp" => DOMAIN m = Variables(p.triples)
          /\ p.op = "path" => DOMAIN m = VarsOf(p.s) \cup VarsOf(p.o)
      BY BgpShape, PathShape
    <3> QED
      BY <2>2, <2>5, <3>1 DEF InScopeOf
  <2>7. CASE p.op = "values"
    <3>1. InScope[p] = {p.var}
      BY <2>2, <2>7 DEF InScopeOf
    <3>2. DOMAIN m \subseteq {p.var}
      BY <2>7, ValuesShape
    <3> QED
      BY <3>1, <3>2
  <2>8. CASE p.op \in {"join", "optional", "union"}
    <3>1. InScope[p] = InScope[p.left] \cup InScope[p.right]
      BY <2>2, <2>8 DEF InScopeOf
    <3>2. \/ m \in Found(p.left, d, graphs) \/ m \in Found(p.right, d, graphs)
          \/ \E l \in Found(p.left, d, graphs), r \in Found(p.right, d, graphs) : Joins(m, l, r)
      BY <2>8, JoinShape, OptionalShape, PlainShape
    <3>3. ASSUME NEW l \in Found(p.left, d, graphs), NEW r \in Found(p.right, d, graphs), Joins(m, l, r)
          PROVE  \A v : v \in DOMAIN m <=> v \in DOMAIN l \/ v \in DOMAIN r
      BY <3>3, JoinsDomain
    <3> QED
      BY <2>3, <2>8, <3>1, <3>2, <3>3 DEF Two
  <2>9. CASE p.op = "minus"
    <3>1. InScope[p] = InScope[p.left] /\ m \in Found(p.left, d, graphs)
      BY <2>2, <2>9, PlainShape DEF InScopeOf
    <3> QED
      BY <2>3, <2>9, <3>1 DEF Two
  <2>10. CASE p.op \in {"filter", "modifier", "order"}
    <3>1. InScope[p] = InScope[p.inner] /\ m \in Found(p.inner, d, graphs)
      BY <2>2, <2>10, PlainShape DEF InScopeOf
    <3> QED
      BY <2>4, <2>10, <3>1 DEF Two, None
  <2>11. CASE p.op = "extend"
    <3>1. InScope[p] = {p.var} \cup InScope[p.inner]
      BY <2>2, <2>11 DEF InScopeOf
    <3>2. PICK n \in Found(p.inner, d, graphs) : m = n \/ Adds(m, p.var, n)
      BY <2>11, ExtendShape
    <3>3. DOMAIN m \subseteq {p.var} \cup DOMAIN n
      BY <3>2, AddsDomain
    <3> QED
      BY <2>4, <2>11, <3>1, <3>3 DEF Two, None
  <2>12. CASE p.op = "group"
    BY <2>2, <2>12, GroupShape DEF InScopeOf
  <2>13. CASE p.op = "project"
    <3>1. PICK n \in Found(p.inner, d, graphs) : CutTo(m, n, p.vars)
      BY <2>13, ProjectShape
    <3>2. InScope[p] = p.vars
      BY <2>2, <2>13 DEF InScopeOf
    <3> QED
      BY <3>1, <3>2 DEF CutTo
  <2>14. CASE p.op = "graph"
    <3>1. InScope[p] = VarsOf(p.name) \cup InScope[p.inner]
      BY <2>2, <2>14 DEF InScopeOf
    <3>2. PICK gs \in SUBSET Reachable : \E n \in Found(p.inner, d, gs) :
                \/ p.name[1] = "const" /\ m = n
                \/ p.name[1] # "const" /\ \E g : Joins(m, Binding(p.name[2], <<g, 0>>), n)
      BY <2>14, GraphShape
    <3>3. PICK n \in Found(p.inner, d, gs) :
                \/ p.name[1] = "const" /\ m = n
                \/ p.name[1] # "const" /\ \E g : Joins(m, Binding(p.name[2], <<g, 0>>), n)
      BY <3>2
    <3>4. DOMAIN n \subseteq InScope[p.inner]
      BY <2>4, <2>14 DEF Two, None
    <3>5. CASE p.name[1] = "const"
      BY <3>1, <3>3, <3>4, <3>5
    <3>6. CASE p.name[1] # "const"
      <4>1. PICK g : Joins(m, Binding(p.name[2], <<g, 0>>), n)
        BY <3>3, <3>6
      <4>2. \A v : v \in DOMAIN m <=> v = p.name[2] \/ v \in DOMAIN n
        BY <4>1, JoinsDomain, BindingIs
      <4> QED
        BY <3>1, <3>4, <3>6, <4>2 DEF VarsOf
    <3> QED
      BY <3>5, <3>6
  <2>15. CASE p.op = "service"
    <3>1. InScope[p] = InScope[p.inner] /\ (DOMAIN m = {} \/ m \in Found(p.inner, d, {Remote}))
      BY <2>2, <2>15, ServiceShape DEF InScopeOf
    <3>2. {Remote} \in SUBSET Reachable
      BY DEF Reachable
    <3> QED
      BY <2>4, <2>15, <3>1, <3>2 DEF Two, None
  <2>16. p.op \in Solved
    BY PlainShape
  <2> QED
    BY <2>5, <2>7, <2>8, <2>9, <2>10, <2>11, <2>12, <2>13, <2>14, <2>15, <2>16
       DEF Solved, OfDatasets
<1>2. Pattern \subseteq InTheirScope(d)
  BY <1>1, ByPatterns
<1> QED
  BY <1>2 DEF InTheirScope

-----------------------------------------------------------------------------
(* What VALUES says of the variables *)

\* What every solution binds, and what it binds if at all.
Certainly(m, listed) == \A v \in DOMAIN listed : v \in DOMAIN m /\ m[v] \in listed[v]
Within(m, listed) == \A v \in DOMAIN listed : v \in DOMAIN m => m[v] \in listed[v]

\* A list that says no more than both sides do, one for the solutions of both and one for
\* those of either.
SaysBoth(listed, l, r) ==
    \A v \in DOMAIN listed :
        /\ v \in DOMAIN l \/ v \in DOMAIN r
        /\ \A t : (v \in DOMAIN l => t \in l[v]) /\ (v \in DOMAIN r => t \in r[v]) => t \in listed[v]
SaysEither(t, v, l, r) == (v \in DOMAIN l /\ t \in l[v]) \/ (v \in DOMAIN r /\ t \in r[v])
Says(listed, v, l, left, r, right) ==
    /\ Speaks(l, InScope[left], v) /\ Speaks(r, InScope[right], v)
    /\ \A t : SaysEither(t, v, l, r) => t \in listed[v]

\* What may be bound on either side says as much,
LEMMA EitherSays ==
  ASSUME NEW l, NEW left, NEW r, NEW right, NEW v \in DOMAIN either(l, left, r, right)
  PROVE  Says(either(l, left, r, right), v, l, left, r, right)
<1>1. Speaks(l, InScope[left], v) /\ Speaks(r, InScope[right], v)
  BY DEF either
<1>2. either(l, left, r, right)[v] = Said(l, v) \cup Said(r, v)
  BY DEF either
<1> QED
  BY <1>1, <1>2 DEF Says, SaysEither, Said

\* Of two lists, the first one counts.
LEMMA MergedLists ==
  ASSUME NEW a, NEW b, NEW v \in DOMAIN Merged(a, b)
  PROVE  \/ v \in DOMAIN a /\ Merged(a, b)[v] = a[v]
         \/ v \in DOMAIN b /\ Merged(a, b)[v] = b[v]
BY MergedAre

\* A list of nothing lists nothing.
LEMMA NothingIsListed == DOMAIN Nothing = {}
BY DEF Nothing

\* So what is listed of a join is what both sides are certain of, or what either says.
LEMMA JoinLists ==
  ASSUME NEW p \in Pattern, p.op = "join"
  PROVE  LET l == bindings[p.left]
             r == bindings[p.right]
             b == bindings[p]
         IN /\ SaysBoth(b.certain, l.certain, r.certain)
            /\ \A v \in DOMAIN b.confined :
                    \/ v \in DOMAIN b.certain /\ b.confined[v] = b.certain[v]
                    \/ Says(b.confined, v, l.confined, p.left, r.confined, p.right)
<1> DEFINE l == bindings[p.left]
           r == bindings[p.right]
           Both == either(l.confined, p.left, r.confined, p.right)
           c == [v \in DOMAIN l.certain \cap DOMAIN r.certain |-> l.certain[v] \cap r.certain[v]]
           lr == Merged(l.certain, r.certain)
           agreed == Merged(c, lr)
<1>1. bindings[p] = Listed(agreed, Merged(agreed, Both))
  BY BindingsStep DEF BindingsOf
<1>2. bindings[p].certain = agreed /\ bindings[p].confined = Merged(agreed, Both)
  BY <1>1 DEF Listed
<1>3. SaysBoth(agreed, l.certain, r.certain)
  <2> SUFFICES ASSUME NEW v \in DOMAIN agreed
               PROVE  /\ v \in DOMAIN l.certain \/ v \in DOMAIN r.certain
                      /\ \A t : /\ v \in DOMAIN l.certain => t \in l.certain[v]
                                /\ v \in DOMAIN r.certain => t \in r.certain[v]
                                => t \in agreed[v]
    BY DEF SaysBoth
  <2>1. CASE v \in DOMAIN l.certain /\ v \in DOMAIN r.certain
    <3>1. v \in DOMAIN c /\ c[v] = l.certain[v] \cap r.certain[v]
      BY <2>1
    <3> HIDE DEF c
    <3>2. agreed[v] = c[v]
      BY <3>1, MergedAre
    <3> QED
      BY <2>1, <3>1, <3>2
  <2>2. CASE v \notin DOMAIN l.certain \/ v \notin DOMAIN r.certain
    <3>1. v \notin DOMAIN c
      BY <2>2
    <3> HIDE DEF c
    <3>2. v \in DOMAIN lr /\ agreed[v] = lr[v]
      BY <3>1, MergedAre
    <3>3. \/ v \in DOMAIN l.certain /\ lr[v] = l.certain[v]
          \/ v \in DOMAIN r.certain /\ lr[v] = r.certain[v]
      BY <3>2, MergedLists
    <3> QED
      BY <3>2, <3>3
  <2> QED
    BY <2>1, <2>2
<1> HIDE DEF agreed, Both
<1>4. ASSUME NEW v \in DOMAIN Merged(agreed, Both)
      PROVE  \/ v \in DOMAIN agreed /\ Merged(agreed, Both)[v] = agreed[v]
             \/ Says(Merged(agreed, Both), v, l.confined, p.left, r.confined, p.right)
  <2>1. CASE v \in DOMAIN agreed
    BY <2>1, MergedAre
  <2>2. CASE v \notin DOMAIN agreed
    <3>1. v \in DOMAIN Both /\ Merged(agreed, Both)[v] = Both[v]
      BY <2>2, MergedAre
    <3>2. Says(Both, v, l.confined, p.left, r.confined, p.right)
      BY <3>1, EitherSays DEF Both
    <3> QED
      BY <3>1, <3>2 DEF Says
  <2> QED
    BY <2>1, <2>2
<1> QED
  BY <1>2, <1>3, <1>4

\* Of an OPTIONAL it is what the left side is certain of, or what either side says,
LEMMA OptionalLists ==
  ASSUME NEW p \in Pattern, p.op = "optional"
  PROVE  LET l == bindings[p.left]
             r == bindings[p.right]
             b == bindings[p]
         IN /\ b.certain = l.certain
            /\ \A v \in DOMAIN b.confined :
                    \/ v \in DOMAIN l.certain /\ b.confined[v] = l.certain[v]
                    \/ Says(b.confined, v, l.confined, p.left, r.confined, p.right)
<1> DEFINE l == bindings[p.left]
           r == bindings[p.right]
           Both == either(l.confined, p.left, r.confined, p.right)
<1>1. bindings[p] = Listed(l.certain, Merged(l.certain, Both))
  BY BindingsStep DEF BindingsOf
<1>2. bindings[p].certain = l.certain /\ bindings[p].confined = Merged(l.certain, Both)
  BY <1>1 DEF Listed
<1> HIDE DEF Both
<1>4. ASSUME NEW v \in DOMAIN Merged(l.certain, Both)
      PROVE  \/ v \in DOMAIN l.certain /\ Merged(l.certain, Both)[v] = l.certain[v]
             \/ Says(Merged(l.certain, Both), v, l.confined, p.left, r.confined, p.right)
  <2>1. CASE v \in DOMAIN l.certain
    BY <2>1, MergedAre
  <2>2. CASE v \notin DOMAIN l.certain
    <3>1. v \in DOMAIN Both /\ Merged(l.certain, Both)[v] = Both[v]
      BY <2>2, MergedAre
    <3>2. Says(Both, v, l.confined, p.left, r.confined, p.right)
      BY <3>1, EitherSays DEF Both
    <3> QED
      BY <3>1, <3>2 DEF Says
  <2> QED
    BY <2>1, <2>2
<1> QED
  BY <1>2, <1>4

\* of a UNION what both sides are certain of, or what either says,
LEMMA UnionLists ==
  ASSUME NEW p \in Pattern, p.op = "union"
  PROVE  LET l == bindings[p.left]
             r == bindings[p.right]
             b == bindings[p]
         IN /\ \A v \in DOMAIN b.certain :
                    /\ v \in DOMAIN l.certain /\ v \in DOMAIN r.certain
                    /\ \A t : t \in l.certain[v] \/ t \in r.certain[v] => t \in b.certain[v]
            /\ \A v \in DOMAIN b.confined :
                    Says(b.confined, v, l.confined, p.left, r.confined, p.right)
<1> DEFINE l == bindings[p.left]
           r == bindings[p.right]
           Both == either(l.confined, p.left, r.confined, p.right)
           c == [v \in DOMAIN l.certain \cap DOMAIN r.certain |-> l.certain[v] \cup r.certain[v]]
<1>1. bindings[p] = Listed(c, Both)
  BY BindingsStep DEF BindingsOf
<1>2. bindings[p].certain = c /\ bindings[p].confined = Both
  BY <1>1 DEF Listed
<1>3. \A v \in DOMAIN c : /\ v \in DOMAIN l.certain /\ v \in DOMAIN r.certain
                          /\ \A t : t \in l.certain[v] \/ t \in r.certain[v] => t \in c[v]
  OBVIOUS
<1> HIDE DEF c, Both
<1>4. \A v \in DOMAIN Both : Says(Both, v, l.confined, p.left, r.confined, p.right)
  BY EitherSays DEF Both
<1> QED
  BY <1>2, <1>3, <1>4

\* A list that is part of another one.
CutFrom(listed, of) == \A v \in DOMAIN listed : v \in DOMAIN of /\ listed[v] = of[v]

\* and of the others what is listed of their operand, as far as they leave that alone.
LEMMA OtherLists ==
  ASSUME NEW p \in Pattern
  PROVE  LET b == bindings[p]
             i == bindings[p.inner]
         IN /\ p.op = "values" => \A listed \in {b.certain, b.confined} :
                    \A v \in DOMAIN listed : /\ v = p.var /\ listed[v] = p.rows
                                             /\ Unbound \notin p.rows
            /\ p.op = "minus" => b = bindings[p.left]
            /\ p.op \in {"filter", "graph", "order", "modifier", "slice"} => b = i
            /\ p.op = "project" => /\ CutFrom(b.certain, i.certain) /\ CutFrom(b.confined, i.confined)
                                   /\ \A v \in DOMAIN b.certain : v \in p.vars
            /\ p.op = "extend" => /\ CutFrom(b.certain, i.certain) /\ CutFrom(b.confined, i.confined)
                                  /\ p.var \notin DOMAIN b.certain /\ p.var \notin DOMAIN b.confined
            /\ p.op \in {"bgp", "path", "group", "service"} =>
                    DOMAIN b.certain = {} /\ DOMAIN b.confined = {}
<1> DEFINE i == bindings[p.inner]
<1>0. bindings[p] = BindingsOf(p, bindings)
  BY BindingsStep
<1>1. CASE p.op = "values"
  <2>1. \/ bindings[p] = Listed(Nothing, Nothing)
        \/ /\ bindings[p] = Listed(Binding(p.var, p.rows), Binding(p.var, p.rows))
           /\ Unbound \notin p.rows
    BY <1>0, <1>1 DEF BindingsOf
  <2>2. CASE bindings[p] = Listed(Nothing, Nothing)
    <3>1. bindings[p].certain = Nothing /\ bindings[p].confined = Nothing
      BY <2>2 DEF Listed
    <3> QED
      BY <1>1, <3>1, NothingIsListed
  <2>3. CASE /\ bindings[p] = Listed(Binding(p.var, p.rows), Binding(p.var, p.rows))
             /\ Unbound \notin p.rows
    <3> DEFINE c == Binding(p.var, p.rows)
    <3>1. bindings[p].certain = c /\ bindings[p].confined = c
      BY <2>3 DEF Listed
    <3>2. \A v \in DOMAIN c : v = p.var /\ c[v] = p.rows
      BY BindingIs
    <3> HIDE DEF c
    <3> QED
      BY <1>1, <2>3, <3>1, <3>2
  <2> QED
    BY <2>1, <2>2, <2>3
<1>2. CASE p.op \in {"minus", "filter", "graph", "order", "modifier", "slice"}
  BY <1>0, <1>2 DEF BindingsOf
<1>3. CASE p.op = "project"
  <2> DEFINE c == Restricted(i.certain, p.vars)
             f == Restricted(i.confined, p.vars)
  <2>1. bindings[p] = Listed(c, f)
    BY <1>0, <1>3 DEF BindingsOf
  <2>2. CutFrom(c, i.certain) /\ CutFrom(f, i.confined) /\ \A v \in DOMAIN c : v \in p.vars
    BY DEF CutFrom, Restricted
  <2> HIDE DEF c, f
  <2>3. bindings[p].certain = c /\ bindings[p].confined = f
    BY <2>1 DEF Listed
  <2> QED
    BY <1>3, <2>2, <2>3
<1>4. CASE p.op = "extend"
  <2> DEFINE c == Restricted(i.certain, DOMAIN i.certain \ {p.var})
             f == Restricted(i.confined, DOMAIN i.confined \ {p.var})
  <2>1. bindings[p] = Listed(c, f)
    BY <1>0, <1>4 DEF BindingsOf
  <2>2. CutFrom(c, i.certain) /\ CutFrom(f, i.confined) /\ p.var \notin DOMAIN c /\ p.var \notin DOMAIN f
    BY DEF CutFrom, Restricted
  <2> HIDE DEF c, f
  <2>3. bindings[p].certain = c /\ bindings[p].confined = f
    BY <2>1 DEF Listed
  <2> QED
    BY <1>4, <2>2, <2>3
<1>5. CASE p.op \in {"bgp", "path", "group", "service"}
  <2>1. bindings[p] = Listed(Nothing, Nothing)
    BY <1>0, <1>5 DEF BindingsOf
  <2>2. bindings[p].certain = Nothing /\ bindings[p].confined = Nothing
    BY <2>1 DEF Listed
  <2> QED
    BY <1>5, <2>2, NothingIsListed
<1> QED
  BY <1>1, <1>2, <1>3, <1>4, <1>5

-----------------------------------------------------------------------------
(* It is so of every solution *)

\* What a side is certain of, both are.
LEMMA HasCertainly ==
  ASSUME NEW m, NEW n, Has(m, n), NEW listed, Certainly(n, listed)
  PROVE  Certainly(m, listed)
BY DEF Has, Certainly

CertainOf(d) == {p \in Pattern : \A graphs \in SUBSET Reachable :
                    \A m \in Found(p, d, graphs) : Certainly(m, bindings[p].certain)}

\* Every solution binds a variable that is certainly listed to what is listed for it.
THEOREM CertainIsCertain ==
  ASSUME NEW d, d.named \subseteq Reachable
  PROVE  \A p \in Pattern : \A graphs \in SUBSET Reachable :
            \A m \in Found(p, d, graphs) : Certainly(m, bindings[p].certain)
<1>1. ASSUME NEW p \in Pattern, \A q \in Pattern : Ranks[q] < Ranks[p] => q \in CertainOf(d)
      PROVE  p \in CertainOf(d)
  <2> DEFINE b == bindings[p]
             l == bindings[p.left]
             r == bindings[p.right]
             i == bindings[p.inner]
  <2> SUFFICES ASSUME NEW graphs \in SUBSET Reachable, NEW m \in Found(p, d, graphs)
               PROVE  Certainly(m, b.certain)
    BY DEF CertainOf
  <2>1. /\ p.op \in Two => p.left \in CertainOf(d) /\ p.right \in CertainOf(d)
        /\ p.op \notin Two \cup None => p.inner \in CertainOf(d)
    BY <1>1, LowerParts
  <2>2. p.op \in Two => /\ \A n \in Found(p.left, d, graphs) : Certainly(n, l.certain)
                        /\ \A n \in Found(p.right, d, graphs) : Certainly(n, r.certain)
    BY <2>1 DEF CertainOf
  <2>3. p.op \notin Two \cup None => \A gs \in SUBSET Reachable :
            \A n \in Found(p.inner, d, gs) : Certainly(n, i.certain)
    BY <2>1 DEF CertainOf
  <2>4. CASE p.op \in {"bgp", "path", "group", "service"}
    BY <2>4, OtherLists DEF Certainly
  <2>5. CASE p.op = "values"
    <3>1. \A v \in DOMAIN b.certain : v = p.var /\ b.certain[v] = p.rows /\ Unbound \notin p.rows
      BY <2>5, OtherLists
    <3>2. \/ Unbound \in p.rows
          \/ p.var \in DOMAIN m /\ m[p.var] \in p.rows
      BY <2>5, ValuesShape
    <3> QED
      BY <3>1, <3>2 DEF Certainly
  <2>6. CASE p.op = "join"
    <3>1. PICK s \in Found(p.left, d, graphs), t \in Found(p.right, d, graphs) : Joins(m, s, t)
      BY <2>6, JoinShape
    <3>2. Certainly(m, l.certain) /\ Certainly(m, r.certain)
      BY <2>2, <2>6, <3>1, JoinsHas, HasCertainly DEF Two
    <3>3. SaysBoth(b.certain, l.certain, r.certain)
      BY <2>6, JoinLists
    <3> QED
      BY <3>2, <3>3 DEF Certainly, SaysBoth
  <2>7. CASE p.op = "optional"
    <3>1. b.certain = l.certain
      BY <2>7, OptionalLists
    <3>2. CASE m \in Found(p.left, d, graphs)
      BY <2>2, <2>7, <3>1, <3>2 DEF Two
    <3>3. CASE \E s \in Found(p.left, d, graphs), t \in Found(p.right, d, graphs) : Joins(m, s, t)
      BY <2>2, <2>7, <3>1, <3>3, JoinsHas, HasCertainly DEF Two
    <3> QED
      BY <2>7, <3>2, <3>3, OptionalShape
  <2>8. CASE p.op = "union"
    <3>1. \A v \in DOMAIN b.certain :
                    /\ v \in DOMAIN l.certain /\ v \in DOMAIN r.certain
                    /\ \A t : t \in l.certain[v] \/ t \in r.certain[v] => t \in b.certain[v]
      BY <2>8, UnionLists
    <3>2. Certainly(m, l.certain) \/ Certainly(m, r.certain)
      BY <2>2, <2>8, PlainShape DEF Two
    <3> QED
      BY <3>1, <3>2 DEF Certainly
  <2>9. CASE p.op = "minus"
    <3>1. b = l /\ m \in Found(p.left, d, graphs)
      BY <2>9, OtherLists, PlainShape
    <3> QED
      BY <2>2, <2>9, <3>1 DEF Two
  <2>10. CASE p.op \in {"filter", "modifier", "order"}
    <3>1. b = i /\ m \in Found(p.inner, d, graphs)
      BY <2>10, OtherLists, PlainShape
    <3> QED
      BY <2>3, <2>10, <3>1 DEF Two, None
  <2>11. CASE p.op = "extend"
    <3>1. CutFrom(b.certain, i.certain) /\ p.var \notin DOMAIN b.certain
      BY <2>11, OtherLists
    <3>2. PICK n \in Found(p.inner, d, graphs) : m = n \/ Adds(m, p.var, n)
      BY <2>11, ExtendShape
    <3>3. Certainly(n, i.certain)
      BY <2>3, <2>11 DEF Two, None
    <3>4. \A v \in DOMAIN n : v # p.var => v \in DOMAIN m /\ m[v] = n[v]
      BY <3>2, AddsHas
    <3> QED
      BY <3>1, <3>3, <3>4 DEF Certainly, CutFrom
  <2>12. CASE p.op = "project"
    <3>1. CutFrom(b.certain, i.certain) /\ \A v \in DOMAIN b.certain : v \in p.vars
      BY <2>12, OtherLists
    <3>2. PICK n \in Found(p.inner, d, graphs) : CutTo(m, n, p.vars)
      BY <2>12, ProjectShape
    <3>3. Certainly(n, i.certain)
      BY <2>3, <2>12 DEF Two, None
    <3> QED
      BY <3>1, <3>2, <3>3 DEF Certainly, CutFrom, CutTo
  <2>13. CASE p.op = "graph"
    <3>1. PICK gs \in SUBSET Reachable : \E n \in Found(p.inner, d, gs) :
                \/ p.name[1] = "const" /\ m = n
                \/ p.name[1] # "const" /\ \E g : Joins(m, Binding(p.name[2], <<g, 0>>), n)
      BY <2>13, GraphShape
    <3>2. PICK n \in Found(p.inner, d, gs) : m = n \/ \E g : Joins(m, Binding(p.name[2], <<g, 0>>), n)
      BY <3>1
    <3>3. Certainly(n, i.certain) /\ b = i
      BY <2>3, <2>13, OtherLists DEF Two, None
    <3> QED
      BY <3>2, <3>3, JoinsHas, HasCertainly
  <2>14. p.op \in Solved
    BY PlainShape
  <2> QED
    BY <2>4, <2>5, <2>6, <2>7, <2>8, <2>9, <2>10, <2>11, <2>12, <2>13, <2>14 DEF Solved, OfDatasets
<1>2. Pattern \subseteq CertainOf(d)
  BY <1>1, ByPatterns
<1> QED
  BY <1>2 DEF CertainOf

\* A walk reaches the pattern itself and what the patterns in it reach.
LEMMA ReachedAre ==
  ASSUME NEW p \in Pattern
  PROVE  /\ p \in Reached[p]
         /\ \A q \in Below(p) : Reached[q] \subseteq Reached[p]
         /\ \A q \in Operands(p) : Reached[q] \subseteq Reached[p]
<1>1. Reached[p] = {p} \cup UNION {Reached[q] : q \in Below(p)}
  BY ReachedStep DEF ReachedOf
<1>2. \A q \in Below(p) : Reached[q] \subseteq Reached[p]
  BY <1>1
<1> QED
  BY <1>1, <1>2 DEF Below

\* A GRAPH whose name is a variable that is listed for some of the solutions in it only.
ListsItsName(p) ==
    /\ p.op = "graph" /\ p.name[1] # "const"
    /\ p.name[2] \in DOMAIN bindings[p.inner].confined \ DOMAIN bindings[p.inner].certain
ListsNoName(p) == \A q \in Reached[p] : ~ListsItsName(q)

\* What may be bound on either side is bound to what is listed for one of them.
LEMMA EitherWithin ==
  ASSUME NEW m, NEW v \in DOMAIN m, NEW listed, NEW l, NEW left, NEW r, NEW right,
         Says(listed, v, l, left, r, right),
         \/ \E s : DOMAIN s \subseteq InScope[left] /\ Within(s, l) /\ v \in DOMAIN s /\ m[v] = s[v]
         \/ \E s : DOMAIN s \subseteq InScope[right] /\ Within(s, r) /\ v \in DOMAIN s /\ m[v] = s[v]
  PROVE  m[v] \in listed[v]
<1>1. SaysEither(m[v], v, l, r)
  BY DEF Says, SaysEither, Speaks, Within
<1> QED
  BY <1>1 DEF Says

WithinOf(d) == {p \in Pattern : ListsNoName(p) => \A graphs \in SUBSET Reachable :
                    \A m \in Found(p, d, graphs) : Within(m, bindings[p].confined)}

\* A solution that binds a listed variable binds it to what is listed for it, but where
\* a GRAPH binds its name otherwise.
THEOREM ConfinedIsConfined ==
  ASSUME NEW d, d.named \subseteq Reachable
  PROVE  \A p \in Pattern : ListsNoName(p) => \A graphs \in SUBSET Reachable :
            \A m \in Found(p, d, graphs) : Within(m, bindings[p].confined)
<1>1. ASSUME NEW p \in Pattern, \A q \in Pattern : Ranks[q] < Ranks[p] => q \in WithinOf(d)
      PROVE  p \in WithinOf(d)
  <2> DEFINE b == bindings[p]
             l == bindings[p.left]
             r == bindings[p.right]
             i == bindings[p.inner]
  <2> SUFFICES ASSUME ListsNoName(p), NEW graphs \in SUBSET Reachable, NEW m \in Found(p, d, graphs)
               PROVE  Within(m, b.confined)
    BY DEF WithinOf
  <2>0. \A q \in Operands(p) : ListsNoName(q)
    BY ReachedAre DEF ListsNoName
  <2>1. /\ p.op \in Two => /\ p.left \in WithinOf(d) /\ p.right \in WithinOf(d)
                           /\ ListsNoName(p.left) /\ ListsNoName(p.right)
        /\ p.op \notin Two \cup None => p.inner \in WithinOf(d) /\ ListsNoName(p.inner)
    BY <1>1, <2>0, LowerParts DEF Operands, Two, None
  <2>2. p.op \in Two => /\ \A n \in Found(p.left, d, graphs) :
                                Within(n, l.confined) /\ DOMAIN n \subseteq InScope[p.left]
                        /\ \A n \in Found(p.right, d, graphs) :
                                Within(n, r.confined) /\ DOMAIN n \subseteq InScope[p.right]
    BY <2>1, LowerParts, SolutionsAreInScope DEF WithinOf
  <2>3. p.op \notin Two \cup None => \A gs \in SUBSET Reachable :
            \A n \in Found(p.inner, d, gs) : Within(n, i.confined)
    BY <2>1 DEF WithinOf
  <2>4. CASE p.op \in {"bgp", "path", "group", "service"}
    BY <2>4, OtherLists DEF Within
  <2>5. CASE p.op = "values"
    <3>1. \A v \in DOMAIN b.confined : v = p.var /\ b.confined[v] = p.rows /\ Unbound \notin p.rows
      BY <2>5, OtherLists
    <3>2. \/ Unbound \in p.rows
          \/ p.var \in DOMAIN m /\ m[p.var] \in p.rows
      BY <2>5, ValuesShape
    <3> QED
      BY <3>1, <3>2 DEF Within
  <2>6. ASSUME NEW s \in Found(p.left, d, graphs), NEW t \in Found(p.right, d, graphs), Joins(m, s, t),
               p.op \in Two, NEW v \in DOMAIN m,
               Says(b.confined, v, l.confined, p.left, r.confined, p.right)
        PROVE  m[v] \in b.confined[v]
    <3>1. v \in DOMAIN s \/ v \in DOMAIN t
      BY <2>6, JoinsDomain
    <3>2. Has(m, s) /\ Has(m, t)
      BY <2>6, JoinsHas
    <3>3. \/ v \in DOMAIN s /\ m[v] = s[v]
          \/ v \in DOMAIN t /\ m[v] = t[v]
      BY <3>1, <3>2 DEF Has
    <3> QED
      BY <2>2, <2>6, <3>3, EitherWithin
  <2>7. CASE p.op = "join"
    <3>1. PICK s \in Found(p.left, d, graphs), t \in Found(p.right, d, graphs) : Joins(m, s, t)
      BY <2>7, JoinShape
    <3>2. Certainly(m, b.certain)
      BY CertainIsCertain
    <3>3. \A v \in DOMAIN b.confined :
                    \/ v \in DOMAIN b.certain /\ b.confined[v] = b.certain[v]
                    \/ Says(b.confined, v, l.confined, p.left, r.confined, p.right)
      BY <2>7, JoinLists
    <3>4. ASSUME NEW v \in DOMAIN b.confined, v \in DOMAIN m
          PROVE  m[v] \in b.confined[v]
      <4>1. CASE v \in DOMAIN b.certain /\ b.confined[v] = b.certain[v]
        BY <3>2, <4>1 DEF Certainly
      <4>2. CASE Says(b.confined, v, l.confined, p.left, r.confined, p.right)
        BY <2>6, <2>7, <3>1, <3>4, <4>2 DEF Two
      <4> QED
        BY <3>3, <4>1, <4>2
    <3> QED
      BY <3>4 DEF Within
  <2>8. CASE p.op = "optional"
    <3>1. \A v \in DOMAIN b.confined :
                    \/ v \in DOMAIN l.certain /\ b.confined[v] = l.certain[v]
                    \/ Says(b.confined, v, l.confined, p.left, r.confined, p.right)
      BY <2>8, OptionalLists
    <3>2. Certainly(m, l.certain)
      <4>1. Certainly(m, b.certain) /\ b.certain = l.certain
        BY <2>8, CertainIsCertain, OptionalLists
      <4> QED
        BY <4>1
    <3>3. ASSUME NEW v \in DOMAIN b.confined, v \in DOMAIN m
          PROVE  m[v] \in b.confined[v]
      <4>1. CASE v \in DOMAIN l.certain /\ b.confined[v] = l.certain[v]
        BY <3>2, <4>1 DEF Certainly
      <4>2. CASE Says(b.confined, v, l.confined, p.left, r.confined, p.right)
        <5>1. CASE m \in Found(p.left, d, graphs)
          BY <2>2, <2>8, <3>3, <4>2, <5>1, EitherWithin DEF Two
        <5>2. CASE \E s \in Found(p.left, d, graphs), t \in Found(p.right, d, graphs) : Joins(m, s, t)
          BY <2>6, <2>8, <3>3, <4>2, <5>2 DEF Two
        <5> QED
          BY <2>8, <5>1, <5>2, OptionalShape
      <4> QED
        BY <3>1, <4>1, <4>2
    <3> QED
      BY <3>3 DEF Within
  <2>9. CASE p.op = "union"
    <3>1. \A v \in DOMAIN b.confined : Says(b.confined, v, l.confined, p.left, r.confined, p.right)
      BY <2>9, UnionLists
    <3>2. \/ m \in Found(p.left, d, graphs)
          \/ m \in Found(p.right, d, graphs)
      BY <2>9, PlainShape
    <3>3. \/ Within(m, l.confined) /\ DOMAIN m \subseteq InScope[p.left]
          \/ Within(m, r.confined) /\ DOMAIN m \subseteq InScope[p.right]
      BY <2>2, <2>9, <3>2 DEF Two
    <3>4. ASSUME NEW v \in DOMAIN b.confined, v \in DOMAIN m
          PROVE  m[v] \in b.confined[v]
      BY <3>1, <3>3, <3>4, EitherWithin
    <3> QED
      BY <3>4 DEF Within
  <2>10. CASE p.op = "minus"
    <3>1. b = l /\ m \in Found(p.left, d, graphs)
      BY <2>10, OtherLists, PlainShape
    <3> QED
      BY <2>2, <2>10, <3>1 DEF Two
  <2>11. CASE p.op \in {"filter", "modifier", "order"}
    <3>1. b = i /\ m \in Found(p.inner, d, graphs)
      BY <2>11, OtherLists, PlainShape
    <3> QED
      BY <2>3, <2>11, <3>1 DEF Two, None
  <2>12. CASE p.op = "extend"
    <3>1. CutFrom(b.confined, i.confined) /\ p.var \notin DOMAIN b.confined
      BY <2>12, OtherLists
    <3>2. PICK n \in Found(p.inner, d, graphs) : m = n \/ Adds(m, p.var, n)
      BY <2>12, ExtendShape
    <3>3. Within(n, i.confined)
      BY <2>3, <2>12 DEF Two, None
    <3>4. /\ \A v \in DOMAIN n : v # p.var => v \in DOMAIN m /\ m[v] = n[v]
          /\ \A v \in DOMAIN m : v # p.var => v \in DOMAIN n
      BY <3>2, AddsHas, AddsDomain
    <3> QED
      BY <3>1, <3>3, <3>4 DEF Within, CutFrom
  <2>13. CASE p.op = "project"
    <3>1. CutFrom(b.confined, i.confined)
      BY <2>13, OtherLists
    <3>2. PICK n \in Found(p.inner, d, graphs) : CutTo(m, n, p.vars)
      BY <2>13, ProjectShape
    <3>3. Within(n, i.confined)
      BY <2>3, <2>13 DEF Two, None
    <3> QED
      BY <3>1, <3>2, <3>3 DEF Within, CutFrom, CutTo
  <2>14. CASE p.op = "graph"
    <3>1. PICK gs \in SUBSET Reachable : \E n \in Found(p.inner, d, gs) :
                \/ p.name[1] = "const" /\ m = n
                \/ p.name[1] # "const" /\ \E g : Joins(m, Binding(p.name[2], <<g, 0>>), n)
      BY <2>14, GraphShape
    <3>2. PICK n \in Found(p.inner, d, gs) :
                \/ p.name[1] = "const" /\ m = n
                \/ p.name[1] # "const" /\ \E g : Joins(m, Binding(p.name[2], <<g, 0>>), n)
      BY <3>1
    <3>3. Within(n, i.confined) /\ b = i
      BY <2>3, <2>14, OtherLists DEF Two, None
    <3>4. CASE p.name[1] = "const"
      BY <3>2, <3>3, <3>4
    <3>5. CASE p.name[1] # "const"
      <4>1. PICK g : Joins(m, Binding(p.name[2], <<g, 0>>), n)
        BY <3>2, <3>5
      <4>2. Has(m, n) /\ \A v \in DOMAIN m : v = p.name[2] \/ v \in DOMAIN n
        BY <4>1, JoinsHas, JoinsDomain, BindingIs
      <4>3. p.name[2] \in DOMAIN i.confined => p.name[2] \in DOMAIN i.certain
        BY <2>14, <3>5, ReachedAre DEF ListsNoName, ListsItsName
      <4>4. Certainly(n, i.certain)
        BY <2>14, CertainIsCertain, LowerParts DEF Two, None
      <4> QED
        BY <3>3, <4>2, <4>3, <4>4 DEF Has, Within, Certainly
    <3> QED
      BY <3>4, <3>5
  <2>15. p.op \in Solved
    BY PlainShape
  <2> QED
    BY <2>4, <2>5, <2>7, <2>8, <2>9, <2>10, <2>11, <2>12, <2>13, <2>14, <2>15 DEF Solved, OfDatasets
<1>2. Pattern \subseteq WithinOf(d)
  BY <1>1, ByPatterns
<1> QED
  BY <1>2 DEF WithinOf

-----------------------------------------------------------------------------
(* What the probes of an update see *)

\* None of the triples is one that a probe is for.
Catches(probe, t) == \A i \in 1..3 : probe[i] \in {NoConstant, t[i]}
Misses(probes, lost) == \A probe \in probes : \A t \in lost : ~Catches(probe, t)

\* What a pattern is instantiated to, its probe catches.
LEMMA ProbeSees ==
  ASSUME NEW t, NEW triple, NEW m, \A i \in 1..3 : Value(t[i], m) = triple[i]
  PROVE  Catches(ProbeOf(t), triple)
<1>1. \A i \in 1..3 : Spelt(t[i]) => t[i][2] = triple[i]
  BY DEF Spelt, Value
<1> QED
  BY <1>1 DEF ProbeOf, Catches

\* What a pattern is instantiated to, one of the probes for what is listed sees.
LEMMA ListedProbeSees ==
  ASSUME NEW t, NEW triple, NEW m, NEW listed, Within(m, listed),
         \A i \in 1..3 : Value(t[i], m) = triple[i] /\ VarsOf(t[i]) \subseteq DOMAIN m
  PROVE  \E probe \in push_listed(t, listed) : Catches(probe, triple)
<1> DEFINE probe == ProbeOf(t)
           Lists(i) == t[i][1] = "var" /\ t[i][2] \in DOMAIN listed
<1>1. Catches(probe, triple)
  BY ProbeSees
<1>2. ASSUME NEW i \in 1..3, Lists(i)
      PROVE  triple[i] \in listed[t[i][2]]
  <2>1. t[i][2] \in DOMAIN m /\ Value(t[i], m) = m[t[i][2]]
    BY <1>2 DEF VarsOf, Value
  <2> QED
    BY <1>2, <2>1 DEF Within
<1>3. CASE probe[1] = NoConstant /\ Lists(1)
  <2>1. push_listed(t, listed) = {<<iri, probe[2], probe[3]>> : iri \in listed[t[1][2]]}
    BY <1>3 DEF push_listed
  <2>2. <<triple[1], probe[2], probe[3]>> \in push_listed(t, listed)
    BY <1>2, <1>3, <2>1
  <2>3. Catches(<<triple[1], probe[2], probe[3]>>, triple)
    BY <1>1 DEF Catches
  <2> QED
    BY <2>2, <2>3
<1>4. CASE ~(probe[1] = NoConstant /\ Lists(1)) /\ probe[1] = NoConstant /\ probe[3] = NoConstant /\ Lists(3)
  <2>1. push_listed(t, listed) = {<<probe[1], probe[2], iri>> : iri \in listed[t[3][2]]}
    BY <1>4 DEF push_listed
  <2>2. <<probe[1], probe[2], triple[3]>> \in push_listed(t, listed)
    BY <1>2, <1>4, <2>1
  <2>3. Catches(<<probe[1], probe[2], triple[3]>>, triple)
    BY <1>1 DEF Catches
  <2> QED
    BY <2>2, <2>3
<1>5. CASE /\ ~(probe[1] = NoConstant /\ Lists(1))
           /\ ~(probe[1] = NoConstant /\ probe[3] = NoConstant /\ Lists(3))
  <2>1. push_listed(t, listed) = {probe}
    BY <1>5 DEF push_listed
  <2> QED
    BY <1>1, <2>1
<1> QED
  BY <1>3, <1>4, <1>5

\* A choice of triples that fits, one for each pattern.
FitsAll(patterns, c) ==
    \A t \in patterns : \A i \in 1..3 : /\ t[i][1] = "around" => c[t][i][2] > 0
                                        /\ Value(t[i], BoundTo(patterns, c)) = c[t][i]
IsChoice(c, patterns, triples) == c = [t \in patterns |-> c[t]] /\ \A t \in patterns : c[t] \in triples

\* A match is what a choice that fits binds.
LEMMA MatchesBy ==
  ASSUME NEW patterns, NEW triples, NEW m
  PROVE  m \in Matches(patterns, triples) <=>
            \E c : IsChoice(c, patterns, triples) /\ FitsAll(patterns, c) /\ m = BoundTo(patterns, c)
<1> DEFINE chosen == {c \in [patterns -> triples] : FitsAll(patterns, c)}
<1>1. Matches(patterns, triples) = {BoundTo(patterns, c) : c \in chosen}
  BY DEF Matches, FitsAll
<1>2. \A c : c \in chosen <=> IsChoice(c, patterns, triples) /\ FitsAll(patterns, c)
  BY DEF IsChoice
<1> HIDE DEF chosen
<1> QED
  BY <1>1, <1>2

\* A choice binds every variable of the patterns.
LEMMA BoundToDomain ==
  ASSUME NEW patterns, NEW c, NEW t \in patterns, NEW i \in 1..3
  PROVE  VarsOf(t[i]) \subseteq DOMAIN BoundTo(patterns, c)
<1>1. DOMAIN BoundTo(patterns, c) = UNION {VarsOf(s[j]) : s \in patterns, j \in 1..3}
  BY DEF BoundTo, Variables
<1>2. VarsOf(t[i]) \in {VarsOf(s[j]) : s \in patterns, j \in 1..3}
  OBVIOUS
<1> QED
  BY <1>1, <1>2

\* A match is one where there are more triples.
LEMMA MatchesOfMore ==
  ASSUME NEW patterns, NEW A, NEW B \in SUBSET A, NEW m \in Matches(patterns, B)
  PROVE  m \in Matches(patterns, A)
<1>1. PICK c : IsChoice(c, patterns, B) /\ FitsAll(patterns, c) /\ m = BoundTo(patterns, c)
  BY MatchesBy
<1>2. IsChoice(c, patterns, A)
  BY <1>1 DEF IsChoice
<1> QED
  BY <1>1, <1>2, MatchesBy

\* A match that no lost triple is part of.
LEMMA MatchesOfFewer ==
  ASSUME NEW patterns, NEW A, NEW B, NEW lost, \A t \in A : t \in B \/ t \in lost,
         NEW m \in Matches(patterns, A), NEW listed, Within(m, listed),
         \A t \in patterns : Misses(push_listed(t, listed), lost)
  PROVE  m \in Matches(patterns, B)
<1>1. PICK c : IsChoice(c, patterns, A) /\ FitsAll(patterns, c) /\ m = BoundTo(patterns, c)
  BY MatchesBy
<1>2. ASSUME NEW t \in patterns
      PROVE  c[t] \in B
  <2>1. \A i \in 1..3 : Value(t[i], m) = c[t][i] /\ VarsOf(t[i]) \subseteq DOMAIN m
    BY <1>1, BoundToDomain DEF FitsAll
  <2>2. \E probe \in push_listed(t, listed) : Catches(probe, c[t])
    BY <2>1, ListedProbeSees
  <2>3. c[t] \notin lost
    BY <2>2 DEF Misses
  <2> QED
    BY <1>1, <2>3 DEF IsChoice
<1>3. IsChoice(c, patterns, B)
  BY <1>1, <1>2 DEF IsChoice
<1> QED
  BY <1>1, <1>3, MatchesBy

\* Where nothing is listed, a pattern has one probe.
LEMMA MatchesAlike ==
  ASSUME NEW patterns, NEW A, NEW B \in SUBSET A, NEW lost, \A t \in A : t \in B \/ t \in lost,
         \A t \in patterns : Misses({ProbeOf(t)}, lost)
  PROVE  Matches(patterns, A) = Matches(patterns, B)
<1>1. \A t : push_listed(t, Nothing) = {ProbeOf(t)}
  BY NothingIsListed DEF push_listed
<1>2. \A t \in patterns : Misses(push_listed(t, Nothing), lost)
  BY <1>1
<1>3. \A m : Within(m, Nothing)
  BY NothingIsListed DEF Within
<1>4. \A m \in Matches(patterns, A) : m \in Matches(patterns, B)
  BY <1>2, <1>3, MatchesOfFewer
<1> QED
  BY <1>4, MatchesOfMore

-----------------------------------------------------------------------------
(* Paths *)

PairsOver(triples) ==
    LET pairs[e \in PropertyPath] == PairsOf(e, pairs, triples)
    IN pairs

\* The parts of a path are paths of a lower rank.
LEMMA PathParts ==
  ASSUME NEW e \in PropertyPath
  PROVE  /\ e.kind \in {"sequence", "alternative"} =>
                /\ e.a \in PropertyPath /\ Ranks[e.a] < Ranks[e]
                /\ e.b \in PropertyPath /\ Ranks[e.b] < Ranks[e]
         /\ e.kind \in {"reverse", "one_or_more", "zero_or_more", "zero_or_one"} =>
                e.of \in PropertyPath /\ Ranks[e.of] < Ranks[e]
<1>1. \A c \in PropertyPath \cap Children(e) : Ranks[c] < Ranks[e]
  BY ChildrenAreLower DEF PropertyPath
<1> QED
  BY <1>1, PartsOfPaths

\* What holds of a path when it holds of all lower ones holds of every path.
LEMMA ByPaths ==
  ASSUME NEW S,
         \A e \in PropertyPath : (\A y \in PropertyPath : Ranks[y] < Ranks[e] => y \in S) => e \in S
  PROVE  PropertyPath \subseteq S
<1> DEFINE r == [e \in PropertyPath |-> Ranks[e]]
<1>1. r \in [PropertyPath -> Nat]
  BY ChildrenAreLower DEF PropertyPath
<1>2. \A e \in PropertyPath : (\A y \in PropertyPath : r[y] < r[e] => y \in S) => e \in S
  <2> SUFFICES ASSUME NEW e \in PropertyPath, \A y \in PropertyPath : r[y] < r[e] => y \in S
               PROVE  e \in S
    OBVIOUS
  <2>1. \A y \in PropertyPath : Ranks[y] < Ranks[e] => y \in S
    OBVIOUS
  <2> QED
    BY <2>1
<1> HIDE DEF r
<1> QED
  BY ONLY <1>1, <1>2, ByRank

\* What a path connects is read off what its parts do,
LEMMA PairsOfAlike ==
  ASSUME NEW e \in PropertyPath, NEW f, NEW g, NEW triples,
         e.kind \in {"sequence", "alternative"} => f[e.a] = g[e.a] /\ f[e.b] = g[e.b],
         e.kind \in {"reverse", "one_or_more", "zero_or_more", "zero_or_one"} => f[e.of] = g[e.of]
  PROVE  PairsOf(e, f, triples) = PairsOf(e, g, triples)
<1>1. CASE e.kind = "sequence"
  BY <1>1 DEF PairsOf
<1>2. CASE e.kind = "alternative"
  BY <1>2 DEF PairsOf
<1>3. CASE e.kind = "reverse"
  BY <1>3 DEF PairsOf
<1>4. CASE e.kind = "one_or_more"
  BY <1>4 DEF PairsOf
<1>5. CASE e.kind = "zero_or_more"
  BY <1>5 DEF PairsOf
<1>6. CASE e.kind = "zero_or_one"
  BY <1>6 DEF PairsOf
<1>7. CASE e.kind \notin {"sequence", "alternative", "reverse", "one_or_more", "zero_or_more", "zero_or_one"}
  BY <1>7 DEF PairsOf
<1> QED
  BY <1>1, <1>2, <1>3, <1>4, <1>5, <1>6, <1>7

\* step by step.
LEMMA PairsStep ==
  ASSUME NEW triples
  PROVE  /\ PairsOver(triples) = [e \in PropertyPath |-> PairsOf(e, PairsOver(triples), triples)]
         /\ \A e : Pairs(e, triples) = PairsOver(triples)[e]
<1> DEFINE a == <<"pairs", triples>>
<1>1. \A e, f : Step(a, e, f) = PairsOf(e, f, triples)
  BY DEF Step
<1>2. ASSUME NEW e \in PropertyPath, NEW f, NEW g,
             \A y \in PropertyPath : Ranks[y] < Ranks[e] => f[y] = g[y]
      PROVE  PairsOf(e, f, triples) = PairsOf(e, g, triples)
  BY <1>2, PathParts, PairsOfAlike
<1> HIDE DEF a
<1>3. PICK f : Fixed(a, PropertyPath, f)
  <2>1. Local(a, PropertyPath)
    BY <1>1, <1>2 DEF Local
  <2> QED
    BY <2>1, Computed DEF PropertyPath
<1>4. f = [e \in PropertyPath |-> PairsOf(e, f, triples)]
  BY <1>1, <1>3 DEF Fixed
<1>5. PairsOver(triples) = [e \in PropertyPath |-> PairsOf(e, PairsOver(triples), triples)]
  BY <1>4 DEF PairsOver
<1>6. \A e : Pairs(e, triples) = PairsOver(triples)[e]
  BY DEF Pairs, PairsOver
<1> QED
  BY <1>5, <1>6

\* What a path connects is read off the triples that its probes see.
PairsSame(A, B, lost) ==
    {e \in PropertyPath : Misses(path_probes[e], lost) => Pairs(e, A) = Pairs(e, B)}

\* A probe for everything catches whatever is lost.
LEMMA EverythingIsSeen ==
  ASSUME NEW lost, NEW t \in lost, NEW probes, Misses(probes, lost)
  PROVE  <<NoConstant, NoConstant, NoConstant>> \notin probes
<1>1. Catches(<<NoConstant, NoConstant, NoConstant>>, t)
  BY DEF Catches
<1> QED
  BY <1>1 DEF Misses

\* A path that none of the lost triples is probed for connects the same.
LEMMA PathsAlike ==
  ASSUME NEW A, NEW B \in SUBSET A, NEW lost, lost # {}, \A t \in A : t \in B \/ t \in lost
  PROVE  \A e \in PropertyPath : Misses(path_probes[e], lost) => Pairs(e, A) = Pairs(e, B)
<1>1. ASSUME NEW e \in PropertyPath,
             \A y \in PropertyPath : Ranks[y] < Ranks[e] => y \in PairsSame(A, B, lost)
      PROVE  e \in PairsSame(A, B, lost)
  <2> SUFFICES ASSUME Misses(path_probes[e], lost)
               PROVE  Pairs(e, A) = Pairs(e, B)
    BY DEF PairsSame
  <2>1. path_probes[e] = PathProbesOf(e, path_probes)
    BY PathProbesStep
  <2>2. /\ Pairs(e, A) = PairsOf(e, PairsOver(A), A)
        /\ Pairs(e, B) = PairsOf(e, PairsOver(B), B)
    BY PairsStep
  <2>3. ASSUME NEW y \in PropertyPath, Ranks[y] < Ranks[e], Misses(path_probes[y], lost)
        PROVE  PairsOver(A)[y] = PairsOver(B)[y]
    <3>1. Pairs(y, A) = Pairs(y, B)
      BY <1>1, <2>3 DEF PairsSame
    <3> QED
      BY <3>1, PairsStep
  <2>4. CASE e.kind = "predicate"
    <3>1. path_probes[e] = {<<NoConstant, e.iri, NoConstant>>}
      BY <2>1, <2>4 DEF PathProbesOf
    <3>2. \A t \in lost : t[2] # e.iri
      <4>1. ASSUME NEW t \in lost, t[2] = e.iri
            PROVE  FALSE
        <5>1. Catches(<<NoConstant, e.iri, NoConstant>>, t)
          BY <4>1 DEF Catches
        <5> QED
          BY <3>1, <5>1 DEF Misses
      <4> QED
        BY <4>1
    <3>3. {u \in A : u[2] = e.iri} = {u \in B : u[2] = e.iri}
      BY <3>2
    <3>4. \A f, T : PairsOf(e, f, T) = {<<t[1], t[3]>> : t \in {u \in T : u[2] = e.iri}}
      BY <2>4 DEF PairsOf
    <3> QED
      BY <2>2, <3>3, <3>4
  <2>5. CASE e.kind \in {"reverse", "one_or_more"}
    <3>1. path_probes[e] = path_probes[e.of]
      BY <2>1, <2>5 DEF PathProbesOf
    <3>2. PairsOver(A)[e.of] = PairsOver(B)[e.of]
      BY <2>3, <2>5, <3>1, PathParts
    <3> QED
      BY <2>2, <2>5, <3>2 DEF PairsOf
  <2>6. CASE e.kind \in {"sequence", "alternative"}
    <3>1. path_probes[e] = path_probes[e.a] \cup path_probes[e.b]
      BY <2>1, <2>6 DEF PathProbesOf
    <3>2. Misses(path_probes[e.a], lost) /\ Misses(path_probes[e.b], lost)
      BY <3>1 DEF Misses
    <3>3. PairsOver(A)[e.a] = PairsOver(B)[e.a] /\ PairsOver(A)[e.b] = PairsOver(B)[e.b]
      BY <2>3, <2>6, <3>2, PathParts
    <3>4. \A f, T : PairsOf(e, f, T) = PairsOf(e, f, {})
      BY <2>6 DEF PairsOf
    <3>5. PairsOf(e, PairsOver(A), A) = PairsOf(e, PairsOver(B), A)
      BY <2>6, <3>3, PairsOfAlike
    <3> QED
      BY <2>2, <3>4, <3>5
  <2>7. CASE e.kind \notin {"predicate", "reverse", "one_or_more", "sequence", "alternative"}
    <3>1. path_probes[e] = Whole
      BY <2>1, <2>7 DEF PathProbesOf
    <3> QED
      BY <3>1, EverythingIsSeen DEF Whole
  <2> QED
    BY <2>4, <2>5, <2>6, <2>7
<1>2. PropertyPath \subseteq PairsSame(A, B, lost)
  BY <1>1, ByPaths
<1> QED
  BY <1>2 DEF PairsSame

-----------------------------------------------------------------------------
(* What is computed on a copy *)

\* A dataset with the same graphs, and no quad that the other one has not.
IsCopyOf(c, d) == c.named = d.named /\ d.named \subseteq Reachable /\ c.quads \subseteq d.quads
Lost(c, d) == {q[2] : q \in d.quads \ c.quads}

\* What is active is on the copy, or lost.
LEMMA ActiveTriples ==
  ASSUME NEW c, NEW d, IsCopyOf(c, d), NEW graphs
  PROVE  /\ Active(c, graphs) \in SUBSET Active(d, graphs)
         /\ \A t \in Active(d, graphs) : t \in Active(c, graphs) \/ t \in Lost(c, d)
<1>1. \A g : TriplesOf(c, g) \subseteq TriplesOf(d, g)
  BY DEF TriplesOf, IsCopyOf
<1>2. \A g : \A t \in TriplesOf(d, g) : t \in TriplesOf(c, g) \/ t \in Lost(c, d)
  <2> SUFFICES ASSUME NEW g, NEW t \in TriplesOf(d, g), t \notin TriplesOf(c, g)
               PROVE  t \in Lost(c, d)
    OBVIOUS
  <2>1. PICK q \in d.quads : q[1] = g /\ t = q[2]
    BY DEF TriplesOf
  <2>2. q \notin c.quads
    BY <2>1 DEF TriplesOf
  <2> QED
    BY <2>1, <2>2 DEF Lost
<1> DEFINE Of(e, g) == IF g = Remote THEN RemoteTriples ELSE TriplesOf(e, g)
<1>3. \A e : Active(e, graphs) = UNION {Of(e, g) : g \in graphs}
  BY DEF Active
<1>4. \A g : /\ Of(c, g) \subseteq Of(d, g)
             /\ \A t \in Of(d, g) : t \in Of(c, g) \/ t \in Lost(c, d)
  BY <1>1, <1>2
<1> HIDE DEF Of
<1> QED
  BY <1>3, <1>4

\* A solution on one side of a join, that goes with one on the other side.
SideProbes(q, sibling) ==
    IF q.op = "bgp" THEN UNION {push_listed(t, bindings[sibling].certain) : t \in q.triples}
    ELSE pattern_probes[q]

\* It is one on the copy too, where the probes of its side miss what is lost.
LEMMA SideKept ==
  ASSUME NEW c, NEW d, IsCopyOf(c, d), NEW graphs \in SUBSET Reachable,
         NEW q \in Pattern, NEW s \in Pattern, Misses(SideProbes(q, s), Lost(c, d)),
         Misses(pattern_probes[q], Lost(c, d)) => Found(q, d, graphs) = Found(q, c, graphs),
         NEW l \in Found(q, d, graphs), NEW r \in Found(s, d, graphs), Compatible(l, r)
  PROVE  l \in Found(q, c, graphs)
<1>1. CASE q.op = "bgp"
  <2> DEFINE listed == bindings[s].certain
  <2>1. Certainly(r, listed)
    BY CertainIsCertain DEF IsCopyOf
  <2>2. Within(l, listed)
    <3> SUFFICES ASSUME NEW v \in DOMAIN listed, v \in DOMAIN l
                 PROVE  l[v] \in listed[v]
      BY DEF Within
    <3>1. v \in DOMAIN r /\ r[v] \in listed[v]
      BY <2>1 DEF Certainly
    <3>2. l[v] = r[v]
      BY <3>1 DEF Compatible
    <3> QED
      BY <3>1, <3>2
  <2>3. \A t \in q.triples : Misses(push_listed(t, listed), Lost(c, d))
    BY <1>1 DEF Misses, SideProbes
  <2>4. l \in Matches(q.triples, Active(d, graphs))
    BY <1>1, BgpFound
  <2> HIDE DEF listed
  <2>5. l \in Matches(q.triples, Active(c, graphs))
    BY <2>2, <2>3, <2>4, ActiveTriples, MatchesOfFewer
  <2> QED
    BY <1>1, <2>5, BgpFound
<1>2. CASE q.op # "bgp"
  BY <1>2 DEF SideProbes
<1> QED
  BY <1>1, <1>2

\* What is found on the copy is found.
LEMMA SideOfMore ==
  ASSUME NEW c, NEW d, IsCopyOf(c, d), NEW graphs \in SUBSET Reachable,
         NEW q \in Pattern, NEW s \in Pattern, Misses(SideProbes(q, s), Lost(c, d)),
         Misses(pattern_probes[q], Lost(c, d)) => Found(q, d, graphs) = Found(q, c, graphs),
         NEW l \in Found(q, c, graphs)
  PROVE  l \in Found(q, d, graphs)
<1>1. CASE q.op = "bgp"
  <2>1. l \in Matches(q.triples, Active(c, graphs))
    BY <1>1, BgpFound
  <2>2. l \in Matches(q.triples, Active(d, graphs))
    BY <2>1, ActiveTriples, MatchesOfMore
  <2> QED
    BY <1>1, <2>2, BgpFound
<1>2. CASE q.op # "bgp"
  BY <1>2 DEF SideProbes
<1> QED
  BY <1>1, <1>2

SameOf(c, d) ==
    {p \in Pattern : Misses(pattern_probes[p], Lost(c, d)) =>
                        \A graphs \in SUBSET Reachable : Found(p, d, graphs) = Found(p, c, graphs)}

\* A pattern whose probes see no lost triple has the same solutions on the copy.
THEOREM FoundOnCopies ==
  ASSUME NEW c, NEW d, IsCopyOf(c, d)
  PROVE  \A p \in Pattern : Misses(pattern_probes[p], Lost(c, d)) =>
            \A graphs \in SUBSET Reachable : Found(p, d, graphs) = Found(p, c, graphs)
<1> DEFINE lost == Lost(c, d)
<1>1. ASSUME NEW p \in Pattern, \A q \in Pattern : Ranks[q] < Ranks[p] => q \in SameOf(c, d)
      PROVE  p \in SameOf(c, d)
  <2> SUFFICES ASSUME Misses(pattern_probes[p], lost), NEW graphs \in SUBSET Reachable
               PROVE  Found(p, d, graphs) = Found(p, c, graphs)
    BY DEF SameOf
  <2> HIDE DEF lost
  <2>1. pattern_probes[p] = ProbesOf(p, pattern_probes)
    BY ProbesStep
  <2>2. \A q \in Below(p) : Misses(pattern_probes[q], lost) =>
            \A gs \in SUBSET Reachable : Found(q, d, gs) = Found(q, c, gs)
    BY <1>1, BelowAreLower DEF SameOf, lost
  <2>3. p.op \notin {"bgp", "path", "join", "service"} =>
            \A q \in Below(p) : \A gs \in SUBSET Reachable : Found(q, d, gs) = Found(q, c, gs)
    <3>1. SUFFICES ASSUME p.op \notin {"bgp", "path", "join", "service"}, NEW q \in Below(p)
                   PROVE  Misses(pattern_probes[q], lost)
      BY <2>2
    <3>2. pattern_probes[p] = UNION {pattern_probes[y] : y \in Below(p)}
      BY <2>1, <3>1 DEF ProbesOf
    <3>3. pattern_probes[q] \subseteq pattern_probes[p]
      BY <3>2
    <3> QED
      BY <3>3 DEF Misses
  <2> DEFINE A == Active(d, graphs)
             B == Active(c, graphs)
  <2>4. B \in SUBSET A /\ \A t \in A : t \in B \/ t \in lost
    BY ActiveTriples DEF lost
  <2>5. CASE p.op = "bgp"
    <3>1. pattern_probes[p] = {ProbeOf(t) : t \in p.triples}
      BY <2>1, <2>5 DEF ProbesOf
    <3>2. \A t \in p.triples : Misses({ProbeOf(t)}, lost)
      BY <3>1 DEF Misses
    <3> HIDE DEF A, B
    <3>3. Matches(p.triples, A) = Matches(p.triples, B)
      BY <2>4, <3>2, MatchesAlike
    <3> QED
      BY <2>5, <3>3, BgpFound DEF A, B
  <2>6. CASE p.op = "path"
    <3>1. pattern_probes[p] = path_probes[p.path] /\ p.path \in PropertyPath
      BY <2>1, <2>6, PatternsAreTrees DEF ProbesOf
    <3> HIDE DEF A, B
    <3>2. Pairs(p.path, A) = Pairs(p.path, B)
      <4>1. CASE lost # {}
        BY <2>4, <3>1, <4>1, PathsAlike
      <4>2. CASE lost = {}
        <5>1. A = B
          BY <2>4, <4>2
        <5> QED
          BY <5>1
      <4> QED
        BY <4>1, <4>2
    <3>3. PathTriples(p.path, A) = PathTriples(p.path, B)
      BY <3>2 DEF PathTriples
    <3> DEFINE t == {<<p.s, Const(True), p.o>>}
    <3>4. /\ Found(p, d, graphs) = Matches(t, PathTriples(p.path, A))
          /\ Found(p, c, graphs) = Matches(t, PathTriples(p.path, B))
      BY <2>6, PathFound DEF A, B
    <3> QED
      BY <3>3, <3>4
  <2>7. CASE p.op = "join"
    <3> DEFINE ll == Found(p.left, d, graphs)
               rr == Found(p.right, d, graphs)
               lc == Found(p.left, c, graphs)
               rc == Found(p.right, c, graphs)
    <3>1. pattern_probes[p] = SideProbes(p.left, p.right) \cup SideProbes(p.right, p.left)
      BY <2>1, <2>7 DEF ProbesOf, SideProbes
    <3>2. Misses(SideProbes(p.left, p.right), lost) /\ Misses(SideProbes(p.right, p.left), lost)
      BY <3>1 DEF Misses
    <3>3. p.left \in Pattern /\ p.right \in Pattern
      BY <2>7, LowerParts DEF Two
    <3>4. /\ Misses(pattern_probes[p.left], lost) => ll = lc
          /\ Misses(pattern_probes[p.right], lost) => rr = rc
      BY <2>2, <2>7 DEF Below, Operands
    <3>5. ASSUME NEW l \in ll, NEW r \in rr, Compatible(l, r)
          PROVE  l \in lc /\ r \in rc
      <4>1. l \in lc
        BY <3>2, <3>3, <3>4, <3>5, SideKept DEF lost
      <4>2. Compatible(r, l)
        BY <3>5 DEF Compatible
      <4>3. r \in rc
        BY <3>2, <3>3, <3>4, <4>2, SideKept DEF lost
      <4> QED
        BY <4>1, <4>3
    <3>6. lc \subseteq ll /\ rc \subseteq rr
      <4>1. \A l \in lc : l \in ll
        BY <3>2, <3>3, <3>4, SideOfMore DEF lost
      <4>2. \A r \in rc : r \in rr
        BY <3>2, <3>3, <3>4, SideOfMore DEF lost
      <4> QED
        BY <4>1, <4>2
    <3> HIDE DEF ll, rr, lc, rc
    <3>7. \A m : m \in Joined(ll, rr) <=> m \in Joined(lc, rc)
      BY <3>5, <3>6, JoinedAre DEF Joins
    <3>8. Joined(ll, rr) = Joined(lc, rc)
      BY <3>7
    <3>9. /\ Found(p, d, graphs) = Joined(Found(p.left, d, graphs), Found(p.right, d, graphs))
          /\ Found(p, c, graphs) = Joined(Found(p.left, c, graphs), Found(p.right, c, graphs))
      BY <2>7, FoundInParts
    <3> QED
      BY <3>8, <3>9 DEF ll, rr, lc, rc
  <2>8. CASE p.op = "service"
    <3>1. pattern_probes[p] = Whole
      BY <2>1, <2>8 DEF ProbesOf
    <3>2. lost = {}
      BY <3>1, EverythingIsSeen DEF Whole
    <3>3. Misses(pattern_probes[p.inner], lost)
      BY <3>2 DEF Misses, Catches
    <3>4. p.inner \in Below(p)
      BY <2>8 DEF Below, Operands
    <3>5. c.named = d.named /\ d.named \subseteq Reachable
      BY DEF IsCopyOf
    <3>6. CASE Remote \in d.named
      <4>1. {Remote} \in SUBSET Reachable
        BY DEF Reachable
      <4>2. Found(p.inner, d, {Remote}) = Found(p.inner, c, {Remote})
        BY <2>2, <3>3, <3>4, <4>1
      <4> QED
        BY <2>8, <3>5, <3>6, <4>1, <4>2, ServiceFound
    <3>7. CASE Remote \notin d.named
      BY <2>8, <3>5, <3>7, ServiceFound
    <3> QED
      BY <3>6, <3>7
  <2>9. CASE p.op = "graph"
    <3>1. p.inner \in Below(p)
      BY <2>9 DEF Below, Operands
    <3>2. \A gs \in SUBSET Reachable : Found(p.inner, d, gs) = Found(p.inner, c, gs)
      BY <2>3, <2>9, <3>1
    <3>3. c.named = d.named /\ d.named \subseteq Reachable
      BY DEF IsCopyOf
    <3>4. {} \in SUBSET Reachable /\ \A g \in d.named : {g} \in SUBSET Reachable
      BY <3>3
    <3>5. CASE p.name[1] = "const" /\ p.name[2] \in d.named
      <4>1. /\ Found(p, d, graphs) = Found(p.inner, d, {p.name[2]})
            /\ Found(p, c, graphs) = Found(p.inner, c, {p.name[2]})
        BY <2>9, <3>3, <3>5, GraphFound
      <4> QED
        BY <3>2, <3>4, <3>5, <4>1
    <3>6. CASE p.name[1] = "const" /\ p.name[2] \notin d.named
      <4>1. /\ Found(p, d, graphs) = Found(p.inner, d, {})
            /\ Found(p, c, graphs) = Found(p.inner, c, {})
        BY <2>9, <3>3, <3>6, GraphFound
      <4> QED
        BY <3>2, <3>4, <4>1
    <3>7. CASE p.name[1] # "const"
      <4>1. \A g \in d.named : FoundIn(p, d, g) = FoundIn(p, c, g)
        BY <3>2, <3>4 DEF FoundIn
      <4>2. {FoundIn(p, d, g) : g \in d.named \ {Remote}} = {FoundIn(p, c, g) : g \in d.named \ {Remote}}
        BY <4>1
      <4>3. /\ Found(p, d, graphs) = UNION {FoundIn(p, d, g) : g \in d.named \ {Remote}}
            /\ Found(p, c, graphs) = UNION {FoundIn(p, c, g) : g \in d.named \ {Remote}}
        BY <2>9, <3>3, <3>7, GraphFound
      <4> QED
        BY <4>2, <4>3
    <3> QED
      BY <3>5, <3>6, <3>7
  <2>10. CASE p.op \notin OfDatasets \cup {"join"}
    <3>1. \A q \in Below(p) : Found(q, d, graphs) = Found(q, c, graphs)
      BY <2>3, <2>10 DEF OfDatasets
    <3>2. FoundBelow(p, d, graphs) = FoundBelow(p, c, graphs)
      BY <3>1 DEF FoundBelow
    <3> QED
      BY <2>10, <3>2, OthersFound
  <2> QED
    BY <2>5, <2>6, <2>7, <2>8, <2>9, <2>10 DEF OfDatasets
<1>2. Pattern \subseteq SameOf(c, d)
  BY <1>1, ByPatterns
<1> QED
  BY <1>2 DEF SameOf

-----------------------------------------------------------------------------
(* What a pattern is evaluated from *)

\* Two datasets that have the same in some graphs, and a pattern that by GRAPH reaches
\* none but those, and no other machine.
ReachesAlike(p, within, d, e) ==
    /\ \A g \in within \ {Remote} : TriplesOf(d, g) = TriplesOf(e, g)
    /\ \A q \in Reached[p] :
        /\ q.op # "service"
        /\ q.op = "graph" /\ q.name[1] = "const" =>
                /\ q.name[2] \in d.named <=> q.name[2] \in e.named
                /\ q.name[2] \in d.named => q.name[2] \in within
        /\ q.op = "graph" /\ q.name[1] # "const" =>
                /\ d.named \ {Remote} = e.named \ {Remote}
                /\ d.named \ {Remote} \subseteq within

SameWithin(within, d, e, given) ==
    {p \in Pattern : ReachesAlike(p, within, d, e) =>
        \A graphs \in SUBSET within : \A seen \in SUBSET DOMAIN given :
            Evaluation(d, given)[p][graphs][seen] = Evaluation(e, given)[p][graphs][seen]}

\* Its solutions are the same.
LEMMA EvaluatedAlike ==
  ASSUME NEW d, NEW e, NEW given, NEW within, within \subseteq Reachable,
         NEW x \in Pattern, ReachesAlike(x, within, d, e), NEW some, some \subseteq within
  PROVE  Evaluation(d, given)[x][some][DOMAIN given] = Evaluation(e, given)[x][some][DOMAIN given]
<1> DEFINE D == Evaluation(d, given)
           E == Evaluation(e, given)
<1>1. ASSUME NEW p \in Pattern,
             \A q \in Pattern : Ranks[q] < Ranks[p] => q \in SameWithin(within, d, e, given)
      PROVE  p \in SameWithin(within, d, e, given)
  <2> SUFFICES ASSUME ReachesAlike(p, within, d, e), NEW graphs \in SUBSET within,
                      NEW seen \in SUBSET DOMAIN given
               PROVE  D[p][graphs][seen] = E[p][graphs][seen]
    BY DEF SameWithin
  <2> DEFINE inside == Inside(p, seen)
  <2>1. inside \in SUBSET DOMAIN given
    BY DEF Inside
  <2>2. \A q \in Below(p) : \A gs \in SUBSET within : D[q][gs][inside] = E[q][gs][inside]
    <3> SUFFICES ASSUME NEW q \in Below(p)
                 PROVE  \A gs \in SUBSET within : D[q][gs][inside] = E[q][gs][inside]
      OBVIOUS
    <3>1. Reached[q] \subseteq Reached[p]
      BY ReachedAre
    <3>2. ReachesAlike(q, within, d, e)
      BY <3>1 DEF ReachesAlike
    <3>3. q \in SameWithin(within, d, e, given)
      BY <1>1, BelowAreLower
    <3> HIDE DEF inside
    <3> QED
      BY <2>1, <3>2, <3>3 DEF SameWithin
  <2>3. p \in Reached[p]
    BY ReachedAre
  <2> HIDE DEF D, E, inside
  <2>4. Produced(p, D, d, graphs, inside) = Produced(p, E, e, graphs, inside)
    <3>1. CASE p.op \notin OfDatasets
      BY <2>2, <3>1, CombinedAlike
    <3>2. CASE p.op \in {"bgp", "path"}
      <4> DEFINE Over(data, g) == IF g = Remote THEN RemoteTriples ELSE TriplesOf(data, g)
      <4>1. \A g \in graphs : Over(d, g) = Over(e, g)
        BY DEF ReachesAlike
      <4> HIDE DEF Over
      <4>2. UNION {Over(d, g) : g \in graphs} = UNION {Over(e, g) : g \in graphs}
        BY <4>1
      <4>3. Active(d, graphs) = Active(e, graphs)
        BY <4>2 DEF Active, Over
      <4> QED
        BY <3>2, <4>3 DEF Produced
    <3>3. CASE p.op = "graph" /\ p.name[1] = "const"
      <4> DEFINE n == p.name[2]
      <4>1. /\ n \in d.named <=> n \in e.named
            /\ n \in d.named => {n} \in SUBSET within
        BY <2>3, <3>3 DEF ReachesAlike
      <4>2. p.inner \in Below(p)
        BY <3>3 DEF Below, Operands
      <4>3. D[p.inner][{}][inside] = E[p.inner][{}][inside]
        BY <2>2, <4>2
      <4>4. n \in d.named => D[p.inner][{n}][inside] = E[p.inner][{n}][inside]
        BY <2>2, <4>1, <4>2
      <4> QED
        BY <3>3, <4>1, <4>3, <4>4 DEF Produced
    <3>4. CASE p.op = "graph" /\ p.name[1] # "const"
      <4> DEFINE OfName(F, g) == Joined({Binding(p.name[2], <<g, 0>>)}, F[p.inner][{g}][inside])
      <4>1. /\ d.named \ {Remote} = e.named \ {Remote}
            /\ \A g \in d.named \ {Remote} : {g} \in SUBSET within
        BY <2>3, <3>4 DEF ReachesAlike
      <4>2. p.inner \in Below(p)
        BY <3>4 DEF Below, Operands
      <4>3. \A g \in d.named \ {Remote} : D[p.inner][{g}][inside] = E[p.inner][{g}][inside]
        BY <2>2, <4>1, <4>2
      <4>4. \A g \in d.named \ {Remote} : OfName(D, g) = OfName(E, g)
        BY <4>3
      <4>5. /\ Produced(p, D, d, graphs, inside) = UNION {OfName(D, g) : g \in d.named \ {Remote}}
            /\ Produced(p, E, e, graphs, inside) = UNION {OfName(E, g) : g \in e.named \ {Remote}}
        BY <3>4 DEF Produced
      <4> HIDE DEF OfName
      <4> QED
        BY <4>1, <4>4, <4>5
    <3>5. p.op # "service"
      BY <2>3 DEF ReachesAlike
    <3> QED
      BY <3>1, <3>2, <3>3, <3>4, <3>5 DEF OfDatasets
  <2>5. graphs \in SUBSET Reachable
    OBVIOUS
  <2>6. D[p][graphs][seen] = SolutionsOf(p, D, d, given, graphs, seen)
    BY <2>5, EvaluationStep DEF D
  <2>7. E[p][graphs][seen] = SolutionsOf(p, E, e, given, graphs, seen)
    BY <2>5, EvaluationStep DEF E
  <2> QED
    BY <2>4, <2>6, <2>7 DEF SolutionsOf, inside
<1>2. Pattern \subseteq SameWithin(within, d, e, given)
  BY <1>1, ByPatterns
<1>3. some \in SUBSET within /\ DOMAIN given \in SUBSET DOMAIN given
  OBVIOUS
<1> QED
  BY <1>2, <1>3 DEF SameWithin

-----------------------------------------------------------------------------
(* What is shown and hidden *)

\* The parts that a pattern shows are its own, and those it hides are further below.
LEMMA ShownAndHidden ==
  ASSUME NEW p \in Pattern
  PROVE  /\ Shown(p) \subseteq Operands(p)
         /\ Below(p) = Shown(p) \cup HiddenBy(p)
<1>1. CASE p.op = "minus"
  BY <1>1 DEF Below, Shown, HiddenBy, HiddenInside, Operands
<1>2. CASE p.op # "minus"
  BY <1>2 DEF Below, Shown, HiddenBy, HiddenInside
<1> QED
  BY <1>1, <1>2

\* The parts of a pattern that are shown and hidden are what the equation says.
LEMMA ScopesStep == Scopes = [p \in Pattern |-> ScopesOf(p, Scopes)]
<1> DEFINE a == <<"scopes">>
<1>1. \A p, f : Step(a, p, f) = ScopesOf(p, f)
  BY DEF Step
<1>2. Local(a, Pattern)
  <2> SUFFICES ASSUME NEW p \in Pattern, NEW f, NEW g,
                      \A y \in Pattern : Ranks[y] < Ranks[p] => f[y] = g[y]
               PROVE  ScopesOf(p, f) = ScopesOf(p, g)
    BY <1>1 DEF Local
  <2>1. \A q \in Below(p) : f[q] = g[q]
    BY AgreeBelow
  <2>2. {f[q] : q \in Shown(p)} = {g[q] : q \in Shown(p)}
    BY <2>1, ShownAndHidden
  <2> QED
    BY <2>2 DEF ScopesOf
<1>3. PICK f : Fixed(a, Pattern, f)
  BY <1>2, Computed, BelowAreLower
<1>4. f = [p \in Pattern |-> ScopesOf(p, f)]
  BY <1>1, <1>3 DEF Fixed
<1> QED
  BY <1>4 DEF Scopes

\* Each part that is reached is one that is shown or hidden.
LEMMA ScopesReachAll ==
  ASSUME NEW p \in Pattern
  PROVE  \A q \in Reached[p] : <<q, FALSE>> \in Scopes[p] \/ <<q, TRUE>> \in Scopes[p]
<1> DEFINE S == {x \in Pattern : \A q \in Reached[x] :
                        <<q, FALSE>> \in Scopes[x] \/ <<q, TRUE>> \in Scopes[x]}
<1>1. ASSUME NEW x \in Pattern, \A y \in Pattern : Ranks[y] < Ranks[x] => y \in S
      PROVE  x \in S
  <2>1. Scopes[x] = {<<x, FALSE>>} \cup (UNION {Scopes[q] : q \in Shown(x)})
                        \cup (UNION {Reached[q] : q \in HiddenBy(x)}) \X {TRUE}
    BY ScopesStep DEF ScopesOf
  <2>2. Reached[x] = {x} \cup UNION {Reached[q] : q \in Below(x)}
    BY ReachedStep DEF ReachedOf
  <2> SUFFICES ASSUME NEW q \in Reached[x]
               PROVE  <<q, FALSE>> \in Scopes[x] \/ <<q, TRUE>> \in Scopes[x]
    OBVIOUS
  <2>3. CASE q = x
    BY <2>1, <2>3
  <2>4. CASE q # x
    <3>1. PICK y \in Below(x) : q \in Reached[y]
      BY <2>2, <2>4
    <3>2. CASE y \in Shown(x)
      <4>1. y \in S
        BY <1>1, <3>1, BelowAreLower
      <4>2. <<q, FALSE>> \in Scopes[y] \/ <<q, TRUE>> \in Scopes[y]
        BY <3>1, <4>1
      <4>3. Scopes[y] \subseteq Scopes[x]
        BY <2>1, <3>2
      <4> QED
        BY <4>2, <4>3
    <3>3. CASE y \in HiddenBy(x)
      BY <2>1, <3>1, <3>3
    <3> QED
      BY <3>1, <3>2, <3>3, ShownAndHidden
  <2> QED
    BY <2>3, <2>4
<1> HIDE DEF S
<1>2. Pattern \subseteq S
  BY ONLY <1>1, ByPatterns
<1> QED
  BY <1>2 DEF S

\* What closes the scope of what is inside it.
Closes(p) == p.op \in {"project", "group"}

\* A variable in the scope of a part that is shown is in the pattern's scope, unless an
\* operator closes it.
LEMMA ShownIsInScope ==
  ASSUME NEW p \in Pattern, NEW q, <<q, FALSE>> \in Scopes[p], NEW v \in InScope[q]
  PROVE  v \in InScope[p] \/ \E c \in Reached[p] : Closes(c)
<1> DEFINE S == {x \in Pattern : \A y : <<y, FALSE>> \in Scopes[x] =>
                    InScope[y] \subseteq InScope[x] \/ \E c \in Reached[x] : Closes(c)}
<1>1. ASSUME NEW x \in Pattern, \A y \in Pattern : Ranks[y] < Ranks[x] => y \in S
      PROVE  x \in S
  <2>1. Scopes[x] = {<<x, FALSE>>} \cup (UNION {Scopes[z] : z \in Shown(x)})
                        \cup (UNION {Reached[z] : z \in HiddenBy(x)}) \X {TRUE}
    BY ScopesStep DEF ScopesOf
  <2>2. x \in Reached[x] /\ \A z \in Operands(x) : Reached[z] \subseteq Reached[x]
    BY ReachedAre
  <2>3. ASSUME ~Closes(x), NEW z \in Shown(x)
        PROVE  InScope[z] \subseteq InScope[x]
    <3>1. InScope[x] = InScopeOf(x, InScope)
      BY InScopeStep
    <3>2. CASE x.op = "minus"
      BY <2>3, <3>1, <3>2 DEF InScopeOf, Shown
    <3>3. CASE x.op \in Two \ {"minus"}
      BY <2>3, <3>1, <3>3 DEF InScopeOf, Shown, Operands, Two
    <3>4. CASE x.op \in None
      BY <2>3, <3>4 DEF Shown, Operands, None
    <3>5. CASE x.op \notin Two \cup None
      <4>1. z = x.inner
        BY <2>3, <3>5 DEF Shown, Operands, Two, None
      <4> QED
        BY <2>3, <3>1, <3>5, <4>1 DEF InScopeOf, Closes, Two, None
    <3> QED
      BY <3>2, <3>3, <3>4, <3>5
  <2> SUFFICES ASSUME NEW y, <<y, FALSE>> \in Scopes[x], \A c \in Reached[x] : ~Closes(c)
               PROVE  InScope[y] \subseteq InScope[x]
    OBVIOUS
  <2>4. CASE y = x
    BY <2>4
  <2>5. CASE y # x
    <3>1. PICK z \in Shown(x) : <<y, FALSE>> \in Scopes[z]
      BY <2>1, <2>5
    <3>2. z \in Operands(x) /\ z \in S
      BY <1>1, <3>1, ShownAndHidden, BelowAreLower
    <3>3. InScope[y] \subseteq InScope[z]
      BY <2>2, <3>1, <3>2
    <3> QED
      BY <2>2, <2>3, <3>1, <3>3
  <2> QED
    BY <2>4, <2>5
<1> HIDE DEF S
<1>2. Pattern \subseteq S
  BY ONLY <1>1, ByPatterns
<1>3. InScope[q] \subseteq InScope[p] \/ \E c \in Reached[p] : Closes(c)
  BY <1>2 DEF S
<1> QED
  BY <1>3

\* A part is told with whether it is hidden.
LEMMA ScopesArePairs ==
  ASSUME NEW p \in Pattern, NEW s \in Scopes[p]
  PROVE  s = <<s[1], s[2]>>
<1> DEFINE S == {x \in Pattern : \A y \in Scopes[x] : y = <<y[1], y[2]>>}
<1>1. ASSUME NEW x \in Pattern, \A y \in Pattern : Ranks[y] < Ranks[x] => y \in S
      PROVE  x \in S
  <2>1. Scopes[x] = {<<x, FALSE>>} \cup (UNION {Scopes[z] : z \in Shown(x)})
                        \cup (UNION {Reached[z] : z \in HiddenBy(x)}) \X {TRUE}
    BY ScopesStep DEF ScopesOf
  <2>2. \A z \in Shown(x) : z \in S
    BY <1>1, ShownAndHidden, BelowAreLower
  <2> SUFFICES ASSUME NEW y \in Scopes[x] PROVE y = <<y[1], y[2]>>
    OBVIOUS
  <2>3. CASE \E z \in Shown(x) : y \in Scopes[z]
    BY <2>2, <2>3
  <2>4. CASE y = <<x, FALSE>>
    BY <2>4
  <2>5. CASE y \in (UNION {Reached[z] : z \in HiddenBy(x)}) \X {TRUE}
    BY <2>5
  <2> QED
    BY <2>1, <2>3, <2>4, <2>5
<1> HIDE DEF S
<1>2. Pattern \subseteq S
  BY ONLY <1>1, ByPatterns
<1> QED
  BY <1>2 DEF S
=============================================================================
