----------------------------- MODULE DoorsProofs -----------------------------
(***************************************************************************)
(* What the doors promise of every update, query and document, proved. An  *)
(* update is run an operation at a time, for as many as it has: what holds *)
(* of each number of them is a set of numbers, and it is all of them.      *)
(***************************************************************************)
EXTENDS Doors, AlgebraProofs

-----------------------------------------------------------------------------
(* Runs *)

\* How many operations of an update have run determines what they have left.
LEMMA RunsStepByStep ==
  ASSUME NEW u, NEW d, Len(u) \in Nat
  PROVE  /\ Runs(u, d)[0] = Ok(d)
         /\ \A n \in 0..Len(u) : n # 0 => Runs(u, d)[n] = Then(u[n], Runs(u, d)[n - 1])
<1> DEFINE Value1(f, n) == IF n = 0 THEN Ok(d) ELSE Then(u[n], f[n - 1])
           Run(f, k) == f = [n \in 0..k |-> Value1(f, n)]
           S == {k \in Nat : \E f : Run(f, k)}
<1>1. 0 \in S
  <2> DEFINE f == [n \in 0..0 |-> Ok(d)]
  <2>1. Run(f, 0)
    OBVIOUS
  <2> QED
    BY <2>1
<1>2. ASSUME NEW k \in Nat, k \in S
      PROVE  k + 1 \in S
  <2>1. PICK f : Run(f, k)
    BY <1>2
  <2> DEFINE g == [n \in 0..(k + 1) |-> IF n = k + 1 THEN Then(u[n], f[k]) ELSE f[n]]
  <2>2. \A n \in 0..k : f[n] = Value1(f, n) /\ g[n] = f[n]
    BY <2>1
  <2>3. \A n \in 0..(k + 1) : n - 1 \in 0..k \/ n = 0
    OBVIOUS
  <2>4. ASSUME NEW n \in 0..(k + 1)
        PROVE  g[n] = Value1(g, n)
    <3>1. CASE n = k + 1
      BY <3>1, <2>2
    <3>2. CASE n \in 0..k /\ n # k + 1
      BY <3>2, <2>2, <2>3
    <3> QED
      BY <3>1, <3>2
  <2>5. Run(g, k + 1)
    BY <2>4
  <2> HIDE DEF g
  <2>6. \E f1 : Run(f1, k + 1)
    BY <2>5, Zenon
  <2> QED
    BY <2>6
<1>3. Len(u) \in S
  BY <1>1, <1>2, AllNumbers
<1>4. PICK f : f = [n \in 0..Len(u) |-> IF n = 0 THEN Ok(d) ELSE Then(u[n], f[n - 1])]
  BY <1>3
<1>5. Runs(u, d) = [n \in 0..Len(u) |->
                    IF n = 0 THEN Ok(d) ELSE Then(u[n], Runs(u, d)[n - 1])]
  BY <1>4 DEF Runs
<1> QED
  BY <1>5

-----------------------------------------------------------------------------
(* Operations *)

\* The operations of an update are typed, and there are as many as it is long.
LEMMA UpdateOperations ==
  ASSUME NEW u, IsUpdate(u)
  PROVE  /\ Len(u) \in Nat /\ DOMAIN u = 1..Len(u)
         /\ u = [i \in 1..Len(u) |-> u[i]]
         /\ \A i \in 1..Len(u) : u[i] \in Elements(u) /\ IsOperation(u[i])
<1> u \in Seq(Elements(u)) /\ \A o \in Elements(u) : IsOperation(o)
  BY DEF IsUpdate
<1> QED
  BY DEF Elements

\* What silencing does to an operation: it stays what it was, and may become SILENT.
LEMMA SilencedOperations ==
  ASSUME NEW u, IsUpdate(u), NEW graphs
  PROVE  LET v == silence_graph_management(u, graphs)
         IN /\ Len(v) = Len(u) /\ DOMAIN v = 1..Len(u)
            /\ \A i \in 1..Len(u) :
                /\ IsOperation(v[i]) /\ v[i].op = u[i].op
                /\ v[i].op \notin {"create", "clear", "drop"} => v[i] = u[i]
                /\ v[i].op = "create" => /\ v[i].graph = u[i].graph
                                         /\ v[i].graph \in graphs => v[i].silent
                /\ v[i].op \in {"clear", "drop"} =>
                        /\ v[i].target = u[i].target
                        /\ v[i].target \in graphs => v[i].silent
<1> DEFINE v == silence_graph_management(u, graphs)
<1>1. /\ Len(u) \in Nat /\ DOMAIN u = 1..Len(u)
      /\ \A i \in 1..Len(u) : IsOperation(u[i])
  BY UpdateOperations
<1>2. v = [i \in 1..Len(u) |->
            IF \/ u[i].op \in {"clear", "drop"} /\ u[i].target \in graphs
               \/ u[i].op = "create" /\ u[i].graph \in graphs
            THEN [u[i] EXCEPT !.silent = TRUE] ELSE u[i]]
  BY <1>1 DEF silence_graph_management
<1>3. Len(v) = Len(u) /\ DOMAIN v = 1..Len(u)
  BY <1>1, <1>2
<1> HIDE DEF v
<1>4. ASSUME NEW i \in 1..Len(u)
      PROVE  /\ IsOperation(v[i]) /\ v[i].op = u[i].op
             /\ v[i].op \notin {"create", "clear", "drop"} => v[i] = u[i]
             /\ v[i].op = "create" => /\ v[i].graph = u[i].graph
                                      /\ v[i].graph \in graphs => v[i].silent
             /\ v[i].op \in {"clear", "drop"} =>
                    /\ v[i].target = u[i].target
                    /\ v[i].target \in graphs => v[i].silent
  <2> DEFINE o == u[i]
             w == v[i]
  <2>1. IsOperation(o)
    BY <1>1
  <2>2. w = IF \/ o.op \in {"clear", "drop"} /\ o.target \in graphs
               \/ o.op = "create" /\ o.graph \in graphs
            THEN [o EXCEPT !.silent = TRUE] ELSE o
    BY <1>2
  <2> HIDE DEF o, w
  <2>3. CASE o.op = "create"
    <3>1. o \in [op : {"create"}, graph : Graph, silent : BOOLEAN]
      BY <2>1, <2>3 DEF IsOperation
    <3> QED
      BY <2>2, <2>3, <3>1 DEF IsOperation, w, o
  <2>4. CASE o.op \in {"clear", "drop"}
    <3>1. o \in [op : {"clear", "drop"}, target : Graph \cup {"all", "default", "named"},
                 silent : BOOLEAN]
      BY <2>1, <2>4 DEF IsOperation
    <3> QED
      BY <2>2, <2>4, <3>1 DEF IsOperation, w, o
  <2>5. CASE o.op \notin {"create", "clear", "drop"}
    BY <2>1, <2>2, <2>5 DEF w, o
  <2> QED
    BY <2>3, <2>4, <2>5
<1> QED
  BY <1>3, <1>4 DEF v

\* An operation, by what it is.
LEMMA Effects ==
  ASSUME NEW o, IsOperation(o), NEW d
  PROVE  /\ o.op \in {"insert_data", "load", "delete_data", "create", "clear", "drop",
                      "delete_insert"}
         /\ o.op = "insert_data" =>
                Effect(o, d) = Ok(Dataset(d.quads \cup o.quads, d.named \cup Named(o.quads)))
         /\ o.op = "load" =>
                Effect(o, d) = IF Remote \in d.named
                    THEN Ok(Dataset(d.quads \cup {<<o.graph, t>> : t \in RemoteTriples},
                                    d.named \cup ({o.graph} \ {DefaultGraph})))
                    ELSE IF o.silent THEN Ok(d) ELSE Failed(d)
         /\ o.op = "delete_data" => Effect(o, d) = Ok(Dataset(d.quads \ o.quads, d.named))
         /\ o.op = "create" =>
                Effect(o, d) = IF o.graph \in d.named /\ ~o.silent THEN Failed(d)
                               ELSE Ok(Dataset(d.quads, d.named \cup {o.graph}))
         /\ o.op \in {"clear", "drop"} =>
                Effect(o, d) =
                    IF /\ ~(Targets(o.target, d) \subseteq d.named \cup {DefaultGraph})
                       /\ ~o.silent
                    THEN Failed(d)
                    ELSE Ok(Dataset(d.quads \ Gone(Targets(o.target, d), d),
                                    IF o.op = "drop" THEN d.named \ Targets(o.target, d)
                                    ELSE d.named))
         /\ o.op = "delete_insert" =>
                Effect(o, d) =
                    Ok(Dataset((d.quads \ Made(o.delete, Matched(o, d)))
                                   \cup Made(o.insert, Matched(o, d)),
                               d.named \cup Named(Made(o.insert, Matched(o, d)))))
<1>1. o.op \in {"insert_data", "load", "delete_data", "create", "clear", "drop",
               "delete_insert"}
  BY DEF IsOperation
<1>2. CASE o.op = "insert_data"
  BY <1>2 DEF Effect
<1>3. CASE o.op = "load"
  BY <1>3 DEF Effect
<1>4. CASE o.op = "delete_data"
  BY <1>4 DEF Effect
<1>5. CASE o.op = "create"
  BY <1>5 DEF Effect
<1>6. CASE o.op \in {"clear", "drop"}
  BY <1>6 DEF Effect
<1>7. CASE o.op = "delete_insert"
  BY <1>7 DEF Effect, Modified
<1> QED
  BY <1>1, <1>2, <1>3, <1>4, <1>5, <1>6, <1>7

\* The graphs that CLEAR and DROP name.
LEMMA TargetsAre ==
  ASSUME NEW d, NEW target \in Graph \cup {"all", "default", "named"}
  PROVE  /\ Targets(target, d) \in {{DefaultGraph} \cup d.named, {DefaultGraph}, d.named}
            \/ /\ target \in Graph
               /\ Targets(target, d) = {target}
  BY DEF Targets

\* A quad that a template makes is in a graph that it may name, and its object is
\* what the template says.
LEMMA InstancesAre ==
  ASSUME NEW template, NEW M, NEW q \in Instances(template, M),
         template.graph[1] = "const" => template.graph[2] \in GraphNames
  PROVE  /\ q[1] \in GraphNames
         /\ template.graph[1] = "const" => q[1] = template.graph[2]
         /\ \E m \in M : /\ q[2] = [i \in 1..3 |-> Value(template.triple[i], m)]
                         /\ \A i \in 1..3 : VarsOf(template.triple[i]) \subseteq DOMAIN m
                         /\ IsIri(Value(template.triple[1], m))
                         /\ IsIri(Value(template.triple[2], m))
<1>1. PICK m \in M :
        /\ VarsOf(template.graph) \subseteq DOMAIN m
        /\ \A i \in 1..3 : VarsOf(template.triple[i]) \subseteq DOMAIN m
        /\ IsIri(Value(template.triple[1], m))
        /\ IsIri(Value(template.triple[2], m))
        /\ \A v \in VarsOf(template.graph) : IsIri(m[v]) /\ m[v][1] \in Graph
        /\ q = <<IF template.graph[1] = "const" THEN template.graph[2]
                 ELSE m[template.graph[2]][1],
                 [i \in 1..3 |-> Value(template.triple[i], m)]>>
  BY DEF Instances
<1>2. template.graph[1] # "const" => m[template.graph[2]][1] \in Graph
  BY <1>1 DEF VarsOf
<1> QED
  BY <1>1, <1>2 DEF GraphNames

-----------------------------------------------------------------------------
(* What the doors leave is a dataset *)

\* Taking quads away, and a graph when nothing is left in it, and putting quads in
\* graphs that are then registered, leaves a dataset.
LEMMA EffectKeepsDataset ==
  ASSUME NEW o, IsOperation(o), NEW d, IsDataset(d)
  PROVE  IsDataset(Effect(o, d).data)
<1> USE DefaultIsNoIri
<1>1. /\ d.named \subseteq Graph
      /\ \A q \in d.quads : q[1] \in d.named \cup {DefaultGraph}
  BY DEF IsDataset
<1>2. ASSUME NEW quads, NEW named, named \subseteq Graph,
             \A q \in quads : q[1] \in named \cup {DefaultGraph}
      PROVE  IsDataset(Ok(Dataset(quads, named)).data)
  BY <1>2 DEF IsDataset, Ok, Dataset
<1>3. CASE o.op = "insert_data"
  <2>1. \A q \in o.quads : q[1] \in GraphNames
    BY <1>3 DEF IsOperation
  <2>2. Named(o.quads) \subseteq Graph
    BY <2>1 DEF Named, GraphNames
  <2>3. \A q \in d.quads \cup o.quads : q[1] \in (d.named \cup Named(o.quads)) \cup {DefaultGraph}
    BY <1>1 DEF Named
  <2>4. d.named \cup Named(o.quads) \subseteq Graph
    BY <1>1, <2>2
  <2>5. Effect(o, d) = Ok(Dataset(d.quads \cup o.quads, d.named \cup Named(o.quads)))
    BY <1>3, Effects
  <2> QED
    BY <1>2, <2>3, <2>4, <2>5
<1>4. CASE o.op = "load"
  <2> DEFINE new == {<<o.graph, t>> : t \in RemoteTriples}
  <2>1. o.graph \in GraphNames
    BY <1>4 DEF IsOperation
  <2>2. /\ d.named \cup ({o.graph} \ {DefaultGraph}) \subseteq Graph
        /\ \A q \in d.quads \cup new :
                q[1] \in (d.named \cup ({o.graph} \ {DefaultGraph})) \cup {DefaultGraph}
    BY <1>1, <2>1 DEF GraphNames
  <2>3. IsDataset(Ok(Dataset(d.quads \cup new, d.named \cup ({o.graph} \ {DefaultGraph}))).data)
    BY <1>2, <2>2
  <2>4. Effect(o, d) \in {Ok(Dataset(d.quads \cup new, d.named \cup ({o.graph} \ {DefaultGraph}))),
                         Ok(d), Failed(d)}
    BY <1>4, Effects
  <2> QED
    BY <2>3, <2>4 DEF Ok, Failed
<1>5. CASE o.op = "delete_data"
  <2>1. Effect(o, d) = Ok(Dataset(d.quads \ o.quads, d.named))
    BY <1>5, Effects
  <2> QED
    BY <1>1, <1>2, <2>1
<1>6. CASE o.op = "create"
  <2>1. o.graph \in Graph
    BY <1>6 DEF IsOperation
  <2>2. IsDataset(Ok(Dataset(d.quads, d.named \cup {o.graph})).data)
    BY <1>1, <1>2, <2>1
  <2>3. Effect(o, d) \in {Ok(Dataset(d.quads, d.named \cup {o.graph})), Failed(d)}
    BY <1>6, Effects
  <2> QED
    BY <2>2, <2>3 DEF Failed
<1>7. CASE o.op \in {"clear", "drop"}
  <2> DEFINE gone == Targets(o.target, d)
             left == IF o.op = "drop" THEN d.named \ gone ELSE d.named
  <2>1. /\ left \subseteq Graph
        /\ \A q \in d.quads \ Gone(gone, d) : q[1] \in left \cup {DefaultGraph}
    BY <1>1 DEF Gone
  <2>2. IsDataset(Ok(Dataset(d.quads \ Gone(gone, d), left)).data)
    BY <1>2, <2>1
  <2>3. Effect(o, d) \in {Ok(Dataset(d.quads \ Gone(gone, d), left)), Failed(d)}
    BY <1>7, Effects
  <2> QED
    BY <2>2, <2>3 DEF Failed
<1>8. CASE o.op = "delete_insert"
  <2> DEFINE M == Matched(o, d)
             new == Made(o.insert, M)
             old == Made(o.delete, M)
  <2> HIDE DEF M
  <2>1. \A q \in new : q[1] \in GraphNames
    <3>1. \A t \in o.insert : t.graph[1] = "const" => t.graph[2] \in GraphNames
      BY <1>8 DEF IsOperation
    <3> QED
      BY <3>1, InstancesAre DEF Made
  <2> HIDE DEF new, old
  <2>2. d.named \cup Named(new) \subseteq Graph
    BY <1>1, <2>1 DEF Named, GraphNames
  <2>3. \A q \in (d.quads \ old) \cup new : q[1] \in (d.named \cup Named(new)) \cup {DefaultGraph}
    BY <1>1 DEF Named
  <2>4. IsDataset(Ok(Dataset((d.quads \ old) \cup new, d.named \cup Named(new))).data)
    BY <1>2, <2>2, <2>3
  <2> QED
    BY <1>8, <2>4, Effects DEF M, new, old
<1> QED
  BY <1>3, <1>4, <1>5, <1>6, <1>7, <1>8, Effects

\* However many operations have run.
LEMMA RunsKeepDataset ==
  ASSUME NEW u, Len(u) \in Nat, \A i \in 1..Len(u) : IsOperation(u[i]),
         NEW d, IsDataset(d)
  PROVE  \A n \in 0..Len(u) : IsDataset(Runs(u, d)[n].data)
<1> DEFINE S == {n \in Nat : n <= Len(u) => IsDataset(Runs(u, d)[n].data)}
<1>1. 0 \in S
  <2>1. Runs(u, d)[0] = Ok(d)
    BY RunsStepByStep
  <2> QED
    BY <2>1 DEF Ok
<1>2. ASSUME NEW n \in Nat, n \in S
      PROVE  n + 1 \in S
  <2> SUFFICES ASSUME n + 1 <= Len(u)
               PROVE  IsDataset(Runs(u, d)[n + 1].data)
    OBVIOUS
  <2>1. n + 1 \in 1..Len(u) /\ (n + 1) - 1 = n /\ n + 1 # 0
    OBVIOUS
  <2>2. IsDataset(Runs(u, d)[n].data)
    BY <1>2
  <2>3. Runs(u, d)[n + 1] = Then(u[n + 1], Runs(u, d)[n])
    BY <2>1, RunsStepByStep
  <2>4. IsOperation(u[n + 1])
    BY <2>1
  <2> QED
    BY <2>2, <2>3, <2>4, EffectKeepsDataset DEF Then
<1> HIDE DEF S
<1>3. Nat \subseteq S
  BY <1>1, <1>2, AllNumbers
<1> QED
  BY <1>3 DEF S

\* What an update that has run leaves.
LEMMA ExecuteLeavesDataset ==
  ASSUME NEW u, IsUpdate(u), NEW graphs, NEW d, IsDataset(d)
  PROVE  IsDataset(Execute(silence_graph_management(u, graphs), d).data)
<1> DEFINE v == silence_graph_management(u, graphs)
<1>1. Len(v) \in Nat /\ \A i \in 1..Len(v) : IsOperation(v[i])
  BY UpdateOperations, SilencedOperations
<1> QED
  BY <1>1, RunsKeepDataset DEF Execute

\* What is copied of a graph is a dataset of that graph alone.
LEMMA CopyIsOfTheGraph ==
  ASSUME NEW u, NEW g, NEW d, IsDataset(d)
  PROVE  /\ IsDataset(copy(u, g, d))
         /\ copy(u, g, d).quads \subseteq Of(d, g)
         /\ copy(u, g, d).named = d.named \cap {g}
<1> QED
  BY DEF copy, Copied, Alone, Of, IsDataset, Dataset

\* The difference is applied to a dataset, and leaves one.
LEMMA AppliedIsDataset ==
  ASSUME NEW before, NEW after, NEW d, IsDataset(d), IsDataset(after),
         Escaped(after, Scope) = {}
  PROVE  IsDataset(Applied(before, after, Scope, d))
<1>1. /\ d.named \subseteq Graph /\ after.named \subseteq Graph
      /\ \A q \in d.quads : q[1] \in d.named \cup {DefaultGraph}
      /\ \A q \in after.quads : q[1] \in after.named \cup {DefaultGraph}
  BY DEF IsDataset
<1>2. Scope # DefaultGraph
  BY DefaultIsNoIri, InputsAreParsed
<1>3. \A q \in after.quads : q[1] = Scope
  BY DEF Escaped
<1> DEFINE quads == (d.quads \ Removed(before, after)) \cup Added(before, after, d)
<1>4. \A q \in quads : q[1] \in (d.named \cup after.named) \cup {DefaultGraph}
  BY <1>1 DEF Added
<1>5. \A q \in quads : q[1] \notin d.named \cup {DefaultGraph} => q[1] = Scope
  BY <1>1, <1>3 DEF Added
<1> QED
  BY <1>1, <1>4, <1>5 DEF IsDataset, Dataset, Applied

\* Whatever a door is asked, it leaves a dataset.
LEMMA DoorsLeaveDatasets ==
  ASSUME NEW d, IsDataset(d)
  PROVE  /\ \A u, may_read : IsUpdate(u) =>
                /\ IsDataset(broad_update(u, d, may_read).data)
                /\ IsDataset(scoped_update(u, d, may_read).data)
         /\ \A doc \in Documents : \A may_read : IsDataset(load(doc, d, may_read).data)
<1>1. ASSUME NEW u, NEW may_read, IsUpdate(u)
      PROVE  IsDataset(broad_update(u, d, may_read).data)
  <2> DEFINE v == silence_graph_management(u, IF may_read THEN {} ELSE Graph)
  <2>1. IsDataset(Execute(v, d).data)
    BY <1>1, ExecuteLeavesDataset
  <2> HIDE DEF v
  <2>2. broad_update(u, d, may_read).data \in {d, Execute(v, d).data}
    BY DEF broad_update, Refused, v
  <2> QED
    BY <2>1, <2>2
<1>2. ASSUME NEW u, NEW may_read, IsUpdate(u)
      PROVE  IsDataset(scoped_update(u, d, may_read).data)
  <2> DEFINE v == Silenced(u, may_read)
             before == copy(v, Scope, d)
             run == Execute(v, before)
  <2>1. IsDataset(before)
    BY CopyIsOfTheGraph
  <2>2. IsDataset(run.data)
    BY <1>2, <2>1, ExecuteLeavesDataset DEF Silenced
  <2> HIDE DEF v, before, run
  <2>3. IsDataset(apply_difference(before, run.data, d, may_read).data)
    <3>1. CASE Escaped(run.data, Scope) # {}
      BY <3>1 DEF apply_difference
    <3>2. CASE Escaped(run.data, Scope) = {}
      <4>1. IsDataset(Applied(before, run.data, Scope, d))
        BY <2>2, <3>2, AppliedIsDataset
      <4> QED
        BY <3>2, <4>1 DEF apply_difference, Refused
    <3> QED
      BY <3>1, <3>2
  <2>4. IsDataset(RunOnCopy(v, before, d, may_read).data)
    BY <2>3 DEF RunOnCopy, Refused, run
  <2> QED
    BY <2>4 DEF scoped_update, Refused, v, before
<1>3. ASSUME NEW doc \in Documents, NEW may_read
      PROVE  IsDataset(load(doc, d, may_read).data)
  <2> SUFFICES ASSUME doc.graph \in GraphNames
               PROVE  IsDataset(load(doc, d, may_read).data)
    BY InputsAreParsed DEF load, Refused, optional_inline_str
  <2> DEFINE quads == [i \in DOMAIN doc.quads |->
                        IF doc.quads[i][1] = DefaultGraph THEN <<doc.graph, doc.quads[i][2]>>
                        ELSE doc.quads[i]]
             o == [op |-> "insert_data", quads |-> Range(quads)]
  <2>1. \A q \in o.quads : q[1] \in GraphNames
    <3>1. \A i \in DOMAIN doc.quads : doc.quads[i][1] \in GraphNames
      BY InputsAreParsed
    <3>2. \A i \in DOMAIN quads : quads[i][1] \in GraphNames
      BY <3>1
    <3> QED
      BY <3>2 DEF Range
  <2>2. IsOperation(o)
    BY <2>1 DEF IsOperation
  <2>3. IsDataset(Effect(o, d).data)
    BY <2>2, EffectKeepsDataset
  <2>4. load(doc, d, may_read).data \in {d, Effect(o, d).data}
    BY DEF load, Refused
  <2> QED
    BY <2>3, <2>4
<1> QED
  BY <1>1, <1>2, <1>3

-----------------------------------------------------------------------------
(* What is asked of the doors *)

\* A case is of the inputs that are tried.
TypeOK ==
    /\ data \in Datasets
    /\ update \in Updates \cup {<<>>}
    /\ query \in Queries \cup {NoQuery}
    /\ document \in Documents \cup {NoDocument}

\* Every case is one of those that are tried.
THEOREM TypeCorrect == Spec => []TypeOK
<1>1. Init => TypeOK
  BY DEF Init, TypeOK
<1>2. TypeOK /\ [Next]_vars => TypeOK'
  BY DEF TypeOK, Next, Send, Ask, Load, Reply, vars
<1> QED
  BY <1>1, <1>2, PTL DEF Spec

-----------------------------------------------------------------------------
(* Fingerprints *)

\* What a reader of one graph sees of it.
LEMMA ReaderOfOneGraph ==
  ASSUME NEW g \in Graph, NEW d
  PROVE  LET reader == Capability(FALSE, {g})
         IN /\ GraphsEndpoint(reader, d) = Heard("graphs", {g} \cap d.named, {})
            /\ graph_info(g, reader, d) =
                    Heard("counted", {g} \cap d.named, {Cardinality(TriplesOf(d, g))})
<1> DEFINE reader == Capability(FALSE, {g})
<1>1. reader.root = FALSE /\ reader.scopes = {g}
  BY DEF Capability
<1>2. g # CAP_READ /\ g # CAP_READ_GRAPH
  BY InputsAreParsed
<1>3. MayEnter(reader, ReadsAtAll) /\ MayEnter(reader, ReadsAGraph)
  BY <1>1 DEF MayEnter, ReadsAtAll, ReadsAGraph
<1>4. ~allows(reader, CAP_READ) /\ allows(reader, g)
  BY <1>1, <1>2 DEF allows
<1>5. granted_graphs(reader) = {g}
  BY <1>1 DEF granted_graphs
<1> HIDE DEF reader
<1> QED
  BY <1>3, <1>4, <1>5 DEF GraphsEndpoint, graph_info, existing_among, reader

\* Between two datasets the fingerprint of the reserved graphs changes for those that
\* a reader would see to be others.
LEMMA FingerprintTrips ==
  ASSUME NEW d, IsDataset(d), NEW left, IsDataset(left), NEW writes \in SUBSET Graph
  PROVE  LET Seen(g, e) == LET reader == Capability(FALSE, {g})
                           IN <<GraphsEndpoint(reader, e), graph_info(g, reader, e), TriplesOf(e, g)>>
         IN changed_since(reserved_graphs_fingerprint(left, writes),
                          reserved_graphs_fingerprint(d, writes))
                = {g \in Graph \ writes : Seen(g, left) # Seen(g, d)}
<1> DEFINE Seen(g, e) == LET reader == Capability(FALSE, {g})
                         IN <<GraphsEndpoint(reader, e), graph_info(g, reader, e), TriplesOf(e, g)>>
           Changed(g) == \/ ~(g \in left.named <=> g \in d.named)
                         \/ TriplesOf(left, g) # TriplesOf(d, g)
<1>1. /\ d.named \subseteq Graph /\ left.named \subseteq Graph
      /\ \A q \in d.quads : q[1] \in d.named \cup {DefaultGraph}
      /\ \A q \in left.quads : q[1] \in left.named \cup {DefaultGraph}
  BY DEF IsDataset
<1>2. \A g \in Graph : /\ g \notin d.named => TriplesOf(d, g) = {}
                       /\ g \notin left.named => TriplesOf(left, g) = {}
  BY <1>1, DefaultIsNoIri DEF TriplesOf
<1>3. ASSUME NEW g \in Graph
      PROVE  Seen(g, left) # Seen(g, d) <=> Changed(g)
  <2>1. \A e : Seen(g, e) = <<Heard("graphs", {g} \cap e.named, {}),
                             Heard("counted", {g} \cap e.named, {Cardinality(TriplesOf(e, g))}),
                             TriplesOf(e, g)>>
    BY ReaderOfOneGraph
  <2> HIDE DEF Seen
  <2>2. CASE Changed(g)
    <3>1. {g} \cap left.named # {g} \cap d.named \/ TriplesOf(left, g) # TriplesOf(d, g)
      BY <2>2
    <3>2. ASSUME NEW one, NEW other, Heard("graphs", one, {}) = Heard("graphs", other, {})
          PROVE  one = other
      BY <3>2 DEF Heard
    <3>3. ASSUME NEW e
          PROVE  /\ Seen(g, e)[1] = Heard("graphs", {g} \cap e.named, {})
                 /\ Seen(g, e)[3] = TriplesOf(e, g)
      <4>1. Seen(g, e) = <<Heard("graphs", {g} \cap e.named, {}),
                           Heard("counted", {g} \cap e.named, {Cardinality(TriplesOf(e, g))}),
                           TriplesOf(e, g)>>
        BY <2>1
      <4> QED
        BY <4>1
    <3>4. /\ Seen(g, left)[1] = Heard("graphs", {g} \cap left.named, {})
          /\ Seen(g, d)[1] = Heard("graphs", {g} \cap d.named, {})
          /\ Seen(g, left)[3] = TriplesOf(left, g)
          /\ Seen(g, d)[3] = TriplesOf(d, g)
      BY <3>3
    <3>5. CASE {g} \cap left.named # {g} \cap d.named
      BY <2>2, <3>2, <3>4, <3>5
    <3>6. CASE TriplesOf(left, g) # TriplesOf(d, g)
      BY <2>2, <3>4, <3>6
    <3> QED
      BY <3>1, <3>5, <3>6
  <2>3. CASE ~Changed(g)
    <3>1. {g} \cap left.named = {g} \cap d.named /\ TriplesOf(left, g) = TriplesOf(d, g)
      BY <2>3
    <3> QED
      BY <2>1, <2>3, <3>1
  <2> QED
    BY <2>2, <2>3
<1> HIDE DEF Seen
<1> DEFINE after == reserved_graphs_fingerprint(left, writes)
           before == reserved_graphs_fingerprint(d, writes)
<1>4. /\ DOMAIN after = left.named \ writes /\ DOMAIN before = d.named \ writes
      /\ \A g \in DOMAIN after : after[g] = TriplesOf(left, g)
      /\ \A g \in DOMAIN before : before[g] = TriplesOf(d, g)
  BY DEF reserved_graphs_fingerprint
<1> HIDE DEF after, before
<1>5. changed_since(after, before) = {g \in Graph \ writes : Changed(g)}
  <2>1. ASSUME NEW g \in changed_since(after, before)
        PROVE  g \in Graph \ writes /\ Changed(g)
    BY <1>1, <1>4, <2>1 DEF changed_since
  <2>2. ASSUME NEW g \in Graph \ writes, Changed(g)
        PROVE  g \in changed_since(after, before)
    <3> g \in Graph
      OBVIOUS
    <3>1. g \in left.named \/ g \in d.named
      <4> SUFFICES ASSUME g \notin left.named, g \notin d.named
                   PROVE  FALSE
        OBVIOUS
      <4>1. TriplesOf(left, g) = {} /\ TriplesOf(d, g) = {}
        BY <1>2
      <4> QED
        BY <2>2, <4>1
    <3>2. g \in DOMAIN after \/ g \in DOMAIN before
      BY <1>4, <3>1
    <3>3. g \in DOMAIN after /\ g \in DOMAIN before => after[g] # before[g]
      BY <1>4, <2>2
    <3> QED
      BY <3>2, <3>3 DEF changed_since
  <2> QED
    BY <2>1, <2>2
<1> QED
  BY <1>3, <1>5 DEF Seen, after, before

\* The fingerprint of the graphs that a host has promised nobody else writes sees what
\* a reader of them could see, of every update and every document.
THEOREM FingerprintsAreExact == Spec => []FingerprintSeesEveryChange
<1>1. TypeOK => FingerprintSeesEveryChange
  <2> SUFFICES ASSUME TypeOK
               PROVE  FingerprintSeesEveryChange
    OBVIOUS
  <2>1. IsDataset(data)
    BY InputsAreParsed DEF TypeOK
  <2>2. update # <<>> => IsDataset(broad_update(update, data, TRUE).data)
    <3>1. update # <<>> => IsUpdate(update)
      BY InputsAreParsed DEF TypeOK
    <3> QED
      BY <2>1, <3>1, DoorsLeaveDatasets
  <2>3. document # NoDocument => IsDataset(load(document, data, TRUE).data)
    BY <2>1, DoorsLeaveDatasets DEF TypeOK
  <2> DEFINE Seen(g, d) == LET reader == Capability(FALSE, {g})
                           IN <<GraphsEndpoint(reader, d), graph_info(g, reader, d), TriplesOf(d, g)>>
             Taken(d, writes) == reserved_graphs_fingerprint(d, writes)
             Tripped(left) ==
                 \A writes \in SUBSET Graph :
                     changed_since(Taken(left, writes), Taken(data, writes))
                         = {g \in Graph \ writes : Seen(g, left) # Seen(g, data)}
  <2>4. \A left : IsDataset(left) => Tripped(left)
    BY <2>1, FingerprintTrips
  <2> HIDE DEF Tripped
  <2>5. /\ update # <<>> => Tripped(broad_update(update, data, TRUE).data)
        /\ document # NoDocument => Tripped(load(document, data, TRUE).data)
    BY <2>2, <2>3, <2>4
  <2> QED
    BY <2>5 DEF FingerprintSeesEveryChange, Tripped
<1> QED
  BY <1>1, TypeCorrect, PTL

-----------------------------------------------------------------------------
(* Confined reads *)

\* Two datasets that agree on some graphs agree on fewer.
LEMMA OnlyOfFewer ==
  ASSUME NEW graphs, NEW fewer \in SUBSET graphs, NEW d1, NEW d2,
         Only(graphs, d1) = Only(graphs, d2)
  PROVE  /\ Only(fewer, d1) = Only(fewer, d2)
         /\ fewer \cap d1.named = fewer \cap d2.named
         /\ \A g \in fewer : TriplesOf(d1, g) = TriplesOf(d2, g)
<1>1. /\ {q \in d1.quads : q[1] \in graphs} = {q \in d2.quads : q[1] \in graphs}
      /\ d1.named \cap graphs = d2.named \cap graphs
  BY DEF Only, Dataset
<1>2. {q \in d1.quads : q[1] \in fewer} = {q \in d2.quads : q[1] \in fewer}
  <2>1. \A q : q[1] \in fewer => (q \in d1.quads <=> q \in d2.quads)
    BY <1>1
  <2> QED
    BY <2>1
<1>3. d1.named \cap fewer = d2.named \cap fewer
  BY <1>1
<1>4. ASSUME NEW g \in fewer
      PROVE  TriplesOf(d1, g) = TriplesOf(d2, g)
  <2>1. {q \in d1.quads : q[1] = g} = {q \in d2.quads : q[1] = g}
    BY <1>2
  <2> QED
    BY <2>1 DEF TriplesOf
<1> QED
  BY <1>2, <1>3, <1>4 DEF Only

\* The solutions of a query that sees so much.
SolutionsSeen(q, sees, d) ==
    Solutions(q.pattern, Dataset(d.quads, (d.named \cup {Remote}) \cap sees.named),
              [v \in DOMAIN q.bound |-> q.bound[v].term], sees.default)

\* A query's answer is made of its solutions, and DESCRIBE of what there is in the graphs
\* merged.
LEMMA AnsweredAlike ==
  ASSUME NEW q, q.form \in QueryForms, NEW sees, NEW other, sees.default = other.default,
         NEW d, NEW e, SolutionsSeen(q, sees, d) = SolutionsSeen(q, other, e),
         \A g \in sees.default : TriplesOf(d, g) = TriplesOf(e, g)
  PROVE  Answered(q, sees, d) = Answered(q, other, e)
<1> DEFINE M == SolutionsSeen(q, sees, d)
           All(any) == UNION {TriplesOf(any, g) : g \in sees.default}
           Got(any) == CASE q.form = "select" -> M
                        [] q.form = "ask" -> {<<>> : m \in M}
                        [] q.form = "construct" -> {quad[2] : quad \in Instances(q.template, M)}
                        [] q.form = "describe" ->
                               {t \in All(any) : \E m \in M : \E v \in DOMAIN m : t[1] = m[v]}
<1>1. Answered(q, sees, d) = Got(d)
  BY DEF Answered, SolutionsSeen
<1>2. Answered(q, other, e) = Got(e)
  BY DEF Answered, SolutionsSeen
<1>3. All(d) = All(e)
  OBVIOUS
<1> HIDE DEF M, All
<1>4. Got(d) = Got(e)
  BY <1>3 DEF QueryForms
<1> QED
  BY <1>1, <1>2, <1>4

\* A query that sees a set of graphs, and reaches no other machine, is answered from them.
LEMMA AnswersAreOfWhatIsSeen ==
  ASSUME NEW q, q.pattern \in Pattern, q.form \in QueryForms,
         ~pattern_has_service(q.pattern), NEW graphs \in SUBSET Graph, NEW d
  PROVE  Answered(q, Sees(graphs, graphs), d) = Answered(q, Sees(graphs, graphs), Only(graphs, d))
<1> DEFINE sees == Sees(graphs, graphs)
           e == Only(graphs, d)
           given == [v \in DOMAIN q.bound |-> q.bound[v].term]
           View(any) == Dataset(any.quads, (any.named \cup {Remote}) \cap graphs)
<1>1. Remote \notin graphs /\ graphs \in SUBSET Reachable
  BY RemoteIsNoGraph DEF Reachable
<1>2. \A g \in graphs : TriplesOf(d, g) = TriplesOf(e, g)
  <2> SUFFICES ASSUME NEW g \in graphs
               PROVE  TriplesOf(d, g) = TriplesOf(e, g)
    OBVIOUS
  <2>1. {r \in d.quads : r[1] = g} = {r \in e.quads : r[1] = g}
    BY DEF Only, Dataset
  <2> QED
    BY <2>1 DEF TriplesOf
<1>3. \A any, g : TriplesOf(View(any), g) = TriplesOf(any, g)
  BY DEF TriplesOf, Dataset
<1>4. View(d).named = d.named \cap graphs /\ View(e).named = d.named \cap graphs
  BY <1>1 DEF Only, Dataset
<1>5. \A any : SolutionsSeen(q, sees, any)
                   = Evaluation(View(any), given)[q.pattern][graphs][DOMAIN given]
  BY DEF SolutionsSeen, Solutions, Sees
<1>6. sees.default = graphs
  BY DEF Sees
<1> HIDE DEF e, given, View, sees
<1>7. ReachesAlike(q.pattern, graphs, View(d), View(e))
  BY <1>1, <1>2, <1>3, <1>4 DEF ReachesAlike, pattern_has_service
<1>8. SolutionsSeen(q, sees, d) = SolutionsSeen(q, sees, e)
  <2> DEFINE small == View(e)
             large == View(d)
  <2>1. graphs \subseteq graphs /\ graphs \subseteq Reachable
    BY <1>1
  <2>2. ReachesAlike(q.pattern, graphs, large, small)
    BY <1>7
  <2> HIDE DEF small, large
  <2>3. Evaluation(large, given)[q.pattern][graphs][DOMAIN given]
            = Evaluation(small, given)[q.pattern][graphs][DOMAIN given]
    BY <1>1, <2>1, <2>2, EvaluatedAlike
  <2> QED
    BY <1>5, <2>3 DEF small, large
<1>9. Answered(q, sees, d) = Answered(q, sees, e)
  BY <1>2, <1>6, <1>8, AnsweredAlike
<1> QED
  BY <1>9 DEF sees, e

\* As far as GRAPH reaches, it is what a query names that counts.
LEMMA NamesAreAllThatIsReached ==
  ASSUME NEW q, q.pattern \in Pattern, q.form \in QueryForms,
         ~pattern_has_service(q.pattern), NamesItsGraphs(q.pattern),
         NEW graphs \in SUBSET Graph, pattern_graphs(q.pattern) \subseteq graphs, NEW d
  PROVE  Answered(q, Sees(graphs, graphs), d) = Answered(q, Sees(graphs, Graph \cup {Remote}), d)
<1> DEFINE one == Sees(graphs, graphs)
           other == Sees(graphs, Graph \cup {Remote})
           given == [v \in DOMAIN q.bound |-> q.bound[v].term]
           View(named) == Dataset(d.quads, (d.named \cup {Remote}) \cap named)
           small == View(graphs)
           large == View(Graph \cup {Remote})
<1>1. graphs \in SUBSET Reachable
  BY DEF Reachable
<1>2. \A g : TriplesOf(small, g) = TriplesOf(large, g)
  BY DEF TriplesOf, Dataset
<1>3. small.named \subseteq large.named /\ \A g \in graphs : g \in large.named => g \in small.named
  BY DEF Dataset
<1>4. \A p \in Reached[q.pattern] : p.op = "graph" => p.name[1] = "const" /\ p.name[2] \in graphs
  BY DEF NamesItsGraphs, pattern_graphs
<1>5. /\ SolutionsSeen(q, one, d) = Evaluation(small, given)[q.pattern][graphs][DOMAIN given]
      /\ SolutionsSeen(q, other, d) = Evaluation(large, given)[q.pattern][graphs][DOMAIN given]
  BY DEF SolutionsSeen, Solutions, Sees
<1>6. one.default = other.default
  BY DEF Sees
<1> HIDE DEF one, other, given, small, large
<1>7. ReachesAlike(q.pattern, graphs, small, large)
  BY <1>2, <1>3, <1>4 DEF ReachesAlike, pattern_has_service
<1>8. SolutionsSeen(q, one, d) = SolutionsSeen(q, other, d)
  BY <1>1, <1>5, <1>7, EvaluatedAlike
<1>9. Answered(q, one, d) = Answered(q, other, d)
  BY <1>6, <1>8, AnsweredAlike
<1> QED
  BY <1>9 DEF one, other

\* A WHERE that spells out its graphs, and reads none but the scope, is evaluated from it,
\* and from the graph without a name where it names none to read instead.
LEMMA WheresReadWhatTheyName ==
  ASSUME NEW o, IsOperation(o), o.op = "delete_insert", ReadsTheScope(o), NEW d
  PROVE  Matched(o, d) = Matched(o, Only(ReadBy(o), d))
<1> DEFINE e == Only(ReadBy(o), d)
           within == ReadBy(o)
           Read(any) == IF o.using.given /\ ~o.using.with
                        THEN Dataset(any.quads, any.named \cap o.using.named) ELSE any
           default == IF o.using.given THEN o.using.default ELSE {DefaultGraph}
           given == <<>>
<1>1. o.pattern \in Pattern /\ Scope \in Graph
  BY InputsAreParsed DEF IsOperation
<1>2. /\ default \in SUBSET within /\ within \in SUBSET Reachable
      /\ Remote \notin within /\ Scope \in within
  BY <1>1, RemoteIsNoGraph DEF ReadsTheScope, ReadBy, Reachable
<1>3. \A g \in within : TriplesOf(Read(d), g) = TriplesOf(Read(e), g)
  <2> SUFFICES ASSUME NEW g \in within
               PROVE  TriplesOf(Read(d), g) = TriplesOf(Read(e), g)
    OBVIOUS
  <2>1. \A any : Read(any).quads = any.quads
    BY DEF Dataset
  <2> HIDE DEF Read
  <2>2. {r \in d.quads : r[1] = g} = {r \in e.quads : r[1] = g}
    BY DEF Only, Dataset
  <2> QED
    BY <2>1, <2>2 DEF TriplesOf
<1>4. /\ \A g \in within : g \in Read(d).named <=> g \in Read(e).named
      /\ o.using.given /\ ~o.using.with =>
            Read(d).named = Read(e).named /\ Read(d).named \subseteq {Scope}
  BY DEF Only, Dataset, ReadsTheScope, ReadBy
<1>5. \A q \in Reached[o.pattern] :
        /\ q.op # "service"
        /\ q.op = "graph" /\ q.name[1] = "const" => q.name[2] = Scope
        /\ q.op = "graph" /\ q.name[1] # "const" => o.using.given /\ ~o.using.with
  BY DEF ReadsTheScope, pattern_has_service, pattern_graphs, SpellsOut, NamesItsGraphs
<1>6. \A any : Matched(o, any) = Evaluation(Read(any), given)[o.pattern][default][DOMAIN given]
  BY DEF Matched, Solutions
<1> HIDE DEF e, within, Read, default, given
<1>7. ReachesAlike(o.pattern, within, Read(d), Read(e))
  <2>1. \A g \in within \ {Remote} : TriplesOf(Read(d), g) = TriplesOf(Read(e), g)
    BY <1>3
  <2>2. ASSUME NEW q \in Reached[o.pattern], q.op = "graph", q.name[1] = "const"
        PROVE  /\ q.name[2] \in Read(d).named <=> q.name[2] \in Read(e).named
               /\ q.name[2] \in within
    BY <1>2, <1>4, <1>5, <2>2
  <2>3. ASSUME NEW q \in Reached[o.pattern], q.op = "graph", q.name[1] # "const"
        PROVE  /\ Read(d).named \ {Remote} = Read(e).named \ {Remote}
               /\ Read(d).named \ {Remote} \subseteq within
    BY <1>2, <1>4, <1>5, <2>3
  <2> QED
    BY <1>5, <2>1, <2>2, <2>3 DEF ReachesAlike
<1>8. Matched(o, d) = Matched(o, e)
  <2> DEFINE all == Read(d)
             part == Read(e)
  <2>1. default \subseteq within /\ within \subseteq Reachable
    BY <1>2
  <2>2. ReachesAlike(o.pattern, within, all, part)
    BY <1>7
  <2> HIDE DEF all, part
  <2>3. Evaluation(all, given)[o.pattern][default][DOMAIN given]
            = Evaluation(part, given)[o.pattern][default][DOMAIN given]
    BY ONLY <1>1, <1>2, <2>1, <2>2, EvaluatedAlike, SMTT(30)
  <2> QED
    BY <1>6, <2>3 DEF all, part
<1> QED
  BY <1>8 DEF e

\* A scoped read is answered alike on datasets that agree on what the caller is granted,
\* however it spells the graphs it asks for: those that are answered are all granted.
LEMMA ScopedReadsAlike ==
  ASSUME NEW q \in Queries, NEW raw, NEW capability, ~capability.root,
         NEW d1 \in Datasets, NEW d2 \in Datasets,
         Only(granted_graphs(capability), d1) = Only(granted_graphs(capability), d2)
  PROVE  scoped_query(q, raw, capability, d1) = scoped_query(q, raw, capability, d2)
<1> DEFINE set == scope(raw, capability)
<1>1. set.kind = "granted" =>
        set.names \in SUBSET Graph /\ set.names \subseteq granted_graphs(capability)
  BY DEF scope, Heard, Ungranted, allows, granted_graphs
<1> HIDE DEF set
<1>2. ASSUME set.kind = "granted"
      PROVE  ConfinedRead(q, set.names, d1) = ConfinedRead(q, set.names, d2)
  <2>0. q.pattern \in Pattern /\ q.form \in QueryForms
    BY InputsAreParsed
  <2>1. Only(set.names, d1) = Only(set.names, d2)
    BY <1>1, <1>2, OnlyOfFewer
  <2>2. ~pattern_has_service(q.pattern) =>
            Answered(q, confine(set.names), d1) = Answered(q, confine(set.names), d2)
    <3>1. ASSUME ~pattern_has_service(q.pattern)
          PROVE  \A d \in Datasets : Answered(q, confine(set.names), d)
                                        = Answered(q, confine(set.names), Only(set.names, d))
      BY <1>1, <1>2, <2>0, <3>1, AnswersAreOfWhatIsSeen DEF confine
    <3> QED
      BY <2>1, <3>1
  <2> QED
    BY <2>2 DEF ConfinedRead
<1> QED
  BY <1>2 DEF scoped_query, reissue_canonical, set

\* So are the doors that say which graphs there are, and how large they are.
LEMMA OtherReadsAlike ==
  ASSUME NEW capability, ~allows(capability, CAP_READ), NEW d1, NEW d2,
         Only(granted_graphs(capability), d1) = Only(granted_graphs(capability), d2)
  PROVE  /\ GraphsEndpoint(capability, d1) = GraphsEndpoint(capability, d2)
         /\ InfoEndpoint(capability, d1) = InfoEndpoint(capability, d2)
         /\ \A g : graph_info(g, capability, d1) = graph_info(g, capability, d2)
<1> DEFINE holds == granted_graphs(capability)
<1>1. ~capability.root
  BY DEF allows
<1>2. existing_among(holds, d1) = existing_among(holds, d2)
  <2>1. Only(holds, d1) = Only(holds, d2)
    OBVIOUS
  <2> HIDE DEF holds
  <2>2. holds \cap d1.named = holds \cap d2.named
    BY <2>1, OnlyOfFewer
  <2> QED
    BY <2>2 DEF existing_among
<1>3. ASSUME NEW g \in holds
      PROVE  /\ existing_among({g}, d1) = existing_among({g}, d2)
             /\ TriplesOf(d1, g) = TriplesOf(d2, g)
  <2>1. {g} \in SUBSET holds
    BY <1>3
  <2> HIDE DEF holds
  <2> QED
    BY <2>1, OnlyOfFewer DEF existing_among, holds
<1>4. \A g \in Graph : allows(capability, g) => g \in holds
  BY <1>1 DEF allows, granted_graphs
<1> HIDE DEF holds
<1>5. ASSUME NEW g
      PROVE  graph_info(g, capability, d1) = graph_info(g, capability, d2)
  BY <1>3, <1>4 DEF graph_info
<1> QED
  BY <1>2, <1>5 DEF GraphsEndpoint, InfoEndpoint, holds

\* What a caller hears through any read door depends on the graphs it has grants for.
THEOREM ReadsAreConfined == Spec => []NothingUngrantedIsRead
<1>1. TypeOK => NothingUngrantedIsRead
  <2> SUFFICES ASSUME TypeOK, query # NoQuery
               PROVE  NothingUngrantedIsRead
    BY DEF NothingUngrantedIsRead
  <2>1. query \in Queries
    BY DEF TypeOK
  <2> DEFINE Granted(capability, d) ==
                 IF allows(capability, CAP_READ) THEN d
                 ELSE Only(granted_graphs(capability), d)
             Reads(capability, d) ==
                 {<<raw, scoped_query(query, raw, capability, d)>> : raw \in Spellings}
             Infos(capability, d) == {graph_info(g, capability, d) : g \in Graph}
             Hears(capability, d) ==
                 <<Reads(capability, d), GraphsEndpoint(capability, d),
                   InfoEndpoint(capability, d), Infos(capability, d)>>
             all(capability) ==
                 {<<Granted(capability, d), Hears(capability, d)>> : d \in Datasets}
  <2>2. ASSUME NEW capability \in Capabilities, NEW d1 \in Datasets, NEW d2 \in Datasets,
               Granted(capability, d1) = Granted(capability, d2)
        PROVE  Hears(capability, d1) = Hears(capability, d2)
    <3>1. CASE allows(capability, CAP_READ)
      BY <2>2, <3>1
    <3>2. CASE ~allows(capability, CAP_READ)
      <4>1. Only(granted_graphs(capability), d1) = Only(granted_graphs(capability), d2)
        BY <2>2, <3>2
      <4>2. ~capability.root
        BY <3>2 DEF allows
      <4>3. Reads(capability, d1) = Reads(capability, d2)
        BY <2>1, <4>1, <4>2, ScopedReadsAlike
      <4>4. /\ GraphsEndpoint(capability, d1) = GraphsEndpoint(capability, d2)
            /\ InfoEndpoint(capability, d1) = InfoEndpoint(capability, d2)
            /\ \A g \in Graph : graph_info(g, capability, d1) = graph_info(g, capability, d2)
        BY <3>2, <4>1, OtherReadsAlike
      <4>5. Infos(capability, d1) = Infos(capability, d2)
        BY <4>4
      <4> QED
        BY <4>3, <4>4, <4>5
    <3> QED
      BY <3>1, <3>2
  <2> HIDE DEF Granted, Hears
  <2>3. ASSUME NEW capability \in Capabilities,
               NEW one \in all(capability), NEW other \in all(capability), one[1] = other[1]
        PROVE  one[2] = other[2]
    <3>1. PICK d1 \in Datasets : one = <<Granted(capability, d1), Hears(capability, d1)>>
      OBVIOUS
    <3>2. PICK d2 \in Datasets : other = <<Granted(capability, d2), Hears(capability, d2)>>
      OBVIOUS
    <3> QED
      BY <2>2, <2>3, <3>1, <3>2
  <2> QED
    BY <2>3 DEF NothingUngrantedIsRead, Granted, Hears
<1> QED
  BY <1>1, TypeCorrect, PTL

-----------------------------------------------------------------------------
(* What a run adds *)

\* A quad that an operation leaves was there, or is one that it says to insert.
LEMMA WhatAnOperationAdds ==
  ASSUME NEW o, IsOperation(o), NEW d, NEW q \in Effect(o, d).data.quads
  PROVE  \/ q \in d.quads
         \/ o.op = "insert_data" /\ q \in o.quads
         \/ o.op = "load"
         \/ o.op = "delete_insert" /\ q \in Made(o.insert, Matched(o, d))
<1>1. ASSUME NEW quads, NEW named
      PROVE  Ok(Dataset(quads, named)).data.quads = quads
  BY DEF Ok, Dataset
<1>2. Ok(d).data.quads = d.quads /\ Failed(d).data.quads = d.quads
  BY DEF Ok, Failed
<1>3. CASE o.op = "insert_data"
  <2>1. Effect(o, d) = Ok(Dataset(d.quads \cup o.quads, d.named \cup Named(o.quads)))
    BY <1>3, Effects
  <2> QED
    BY <1>1, <1>3, <2>1
<1>4. CASE o.op = "load"
  BY <1>4
<1>5. CASE o.op = "delete_data"
  <2>1. Effect(o, d) = Ok(Dataset(d.quads \ o.quads, d.named))
    BY <1>5, Effects
  <2> QED
    BY <1>1, <2>1
<1>6. CASE o.op = "create"
  <2>1. Effect(o, d) \in {Failed(d), Ok(Dataset(d.quads, d.named \cup {o.graph}))}
    BY <1>6, Effects
  <2> QED
    BY <1>1, <1>2, <2>1
<1>7. CASE o.op \in {"clear", "drop"}
  <2> DEFINE gone == Targets(o.target, d)
             named == IF o.op = "drop" THEN d.named \ gone ELSE d.named
  <2>1. Effect(o, d) \in {Failed(d), Ok(Dataset(d.quads \ Gone(gone, d), named))}
    BY <1>7, Effects
  <2> HIDE DEF gone, named
  <2> QED
    BY <1>1, <1>2, <2>1
<1>8. CASE o.op = "delete_insert"
  <2> DEFINE new == Made(o.insert, Matched(o, d))
             old == Made(o.delete, Matched(o, d))
  <2>1. Effect(o, d) = Ok(Dataset((d.quads \ old) \cup new, d.named \cup Named(new)))
    BY <1>8, Effects
  <2> HIDE DEF old, new
  <2>2. q \in (d.quads \ old) \cup new
    BY <1>1, <2>1
  <2> QED
    BY <1>8, <2>2 DEF new
<1> QED
  BY <1>3, <1>4, <1>5, <1>6, <1>7, <1>8, Effects

\* A quad that a run has left was there, or one of its operations inserted it.
LEMMA WhatARunAdds ==
  ASSUME NEW u, Len(u) \in Nat, \A i \in 1..Len(u) : IsOperation(u[i]), NEW d
  PROVE  \A n \in 0..Len(u) : \A q \in Runs(u, d)[n].data.quads :
            \/ q \in d.quads
            \/ \E i \in 1..n :
                \/ u[i].op = "insert_data" /\ q \in u[i].quads
                \/ u[i].op = "load"
                \/ /\ u[i].op = "delete_insert" /\ Runs(u, d)[i - 1].ok
                   /\ q \in Made(u[i].insert, Matched(u[i], Runs(u, d)[i - 1].data))
<1> DEFINE From(q, i) ==
              \/ u[i].op = "insert_data" /\ q \in u[i].quads
              \/ u[i].op = "load"
              \/ /\ u[i].op = "delete_insert" /\ Runs(u, d)[i - 1].ok
                 /\ q \in Made(u[i].insert, Matched(u[i], Runs(u, d)[i - 1].data))
           Known(n) == \A q \in Runs(u, d)[n].data.quads :
                            q \in d.quads \/ \E i \in 1..n : From(q, i)
           S == {n \in Nat : n <= Len(u) => Known(n)}
<1>1. 0 \in S
  <2>1. Runs(u, d)[0] = Ok(d)
    BY RunsStepByStep
  <2> QED
    BY <2>1 DEF Ok
<1>2. ASSUME NEW n \in Nat, n \in S
      PROVE  n + 1 \in S
  <2> SUFFICES ASSUME n + 1 <= Len(u),
                      NEW q \in Runs(u, d)[n + 1].data.quads
               PROVE  q \in d.quads \/ \E i \in 1..(n + 1) : From(q, i)
    OBVIOUS
  <2>1. /\ n + 1 \in 1..Len(u) /\ n + 1 \in 0..Len(u) /\ (n + 1) - 1 = n /\ n + 1 # 0
        /\ n + 1 \in 1..(n + 1) /\ 1..n \subseteq 1..(n + 1)
    OBVIOUS
  <2>2. Known(n)
    BY <1>2
  <2> HIDE DEF From
  <2>3. Runs(u, d)[n + 1] = Then(u[n + 1], Runs(u, d)[n])
    BY <2>1, RunsStepByStep
  <2>4. CASE ~Runs(u, d)[n].ok
    <3>1. q \in Runs(u, d)[n].data.quads
      BY <2>3, <2>4 DEF Then
    <3> QED
      BY <2>1, <2>2, <3>1
  <2>5. CASE Runs(u, d)[n].ok
    <3>1. q \in Effect(u[n + 1], Runs(u, d)[n].data).data.quads
      BY <2>3, <2>5 DEF Then
    <3>2. IsOperation(u[n + 1])
      BY <2>1
    <3>3. q \in Runs(u, d)[n].data.quads \/ From(q, n + 1)
      BY <2>1, <2>5, <3>1, <3>2, WhatAnOperationAdds DEF From
    <3> QED
      BY <2>1, <2>2, <3>3
  <2> QED
    BY <2>4, <2>5
<1> HIDE DEF S
<1>3. Nat \subseteq S
  BY <1>1, <1>2, AllNumbers
<1> QED
  BY <1>3 DEF S

-----------------------------------------------------------------------------
(* Callers who may not read *)

\* An operation that neither reads nor asks another machine, and is SILENT where it
\* makes or removes one of the graphs.
Mute(o, graphs) ==
    /\ IsOperation(o) /\ o.op \notin {"load", "delete_insert"}
    /\ o.op = "create" /\ o.graph \in graphs => o.silent
    /\ o.op \in {"clear", "drop"} /\ o.target \in graphs => o.silent

\* What the doors run for a caller who may not read is a sequence of such operations.
LEMMA SilencedIsMute ==
  ASSUME NEW u, IsUpdate(u), ~reads_the_dataset(u), ~has_load(u), NEW graphs
  PROVE  LET v == silence_graph_management(u, graphs)
         IN Len(v) \in Nat /\ \A i \in 1..Len(v) : Mute(v[i], graphs)
<1> DEFINE v == silence_graph_management(u, graphs)
<1>1. /\ Len(u) \in Nat
      /\ \A i \in 1..Len(u) : u[i].op \notin {"load", "delete_insert"}
  BY UpdateOperations DEF reads_the_dataset, Wheres, has_load
<1>2. /\ Len(v) = Len(u)
      /\ \A i \in 1..Len(u) :
            /\ IsOperation(v[i]) /\ v[i].op = u[i].op
            /\ v[i].op = "create" => (v[i].graph \in graphs => v[i].silent)
            /\ v[i].op \in {"clear", "drop"} => (v[i].target \in graphs => v[i].silent)
  BY SilencedOperations
<1> HIDE DEF v
<1>3. Len(v) \in Nat /\ \A i \in 1..Len(v) : Mute(v[i], graphs)
  BY <1>1, <1>2 DEF Mute
<1> QED
  BY <1>3 DEF v

\* SILENT on every graph, it never fails.
LEMMA MuteNeverFails ==
  ASSUME NEW o, Mute(o, Graph), NEW d
  PROVE  Effect(o, d).ok
<1>1. IsOperation(o) /\ o.op \notin {"load", "delete_insert"}
  BY DEF Mute
<1>2. \A quads, named : Ok(Dataset(quads, named)).ok
  BY DEF Ok
<1>3. CASE o.op = "insert_data"
  <2>1. Effect(o, d) = Ok(Dataset(d.quads \cup o.quads, d.named \cup Named(o.quads)))
    BY <1>1, <1>3, Effects
  <2> QED
    BY <1>2, <2>1
<1>4. CASE o.op = "delete_data"
  <2>1. Effect(o, d) = Ok(Dataset(d.quads \ o.quads, d.named))
    BY <1>1, <1>4, Effects
  <2> QED
    BY <1>2, <2>1
<1>5. CASE o.op = "create"
  <2>1. o.graph \in Graph /\ o.silent
    BY <1>1, <1>5 DEF Mute, IsOperation
  <2>2. Effect(o, d) = Ok(Dataset(d.quads, d.named \cup {o.graph}))
    BY <1>1, <1>5, <2>1, Effects
  <2> QED
    BY <1>2, <2>2
<1>6. CASE o.op \in {"clear", "drop"}
  <2>1. o.target \in Graph \cup {"all", "default", "named"}
    BY <1>1, <1>6 DEF IsOperation
  <2>2. Targets(o.target, d) \subseteq d.named \cup {DefaultGraph} \/ o.silent
    BY <1>6, <2>1, TargetsAre DEF Mute
  <2> DEFINE gone == Targets(o.target, d)
             named == IF o.op = "drop" THEN d.named \ gone ELSE d.named
  <2>3. Effect(o, d) = Ok(Dataset(d.quads \ Gone(gone, d), named))
    BY <1>1, <1>6, <2>2, Effects
  <2> QED
    BY <1>2, <2>3
<1> QED
  BY <1>1, <1>3, <1>4, <1>5, <1>6, Effects

\* Two datasets that differ in the caller's graph alone.
Alike(d1, d2) ==
    /\ \A g : g # Scope => (g \in d1.named <=> g \in d2.named)
    /\ \A q : q[1] # Scope => (q \in d1.quads <=> q \in d2.quads)

\* SILENT on that graph, it does the same to both.
LEMMA MuteActsAlike ==
  ASSUME NEW o, Mute(o, {Scope}), NEW d1, NEW d2, Alike(d1, d2)
  PROVE  /\ Effect(o, d1).ok <=> Effect(o, d2).ok
         /\ Alike(Effect(o, d1).data, Effect(o, d2).data)
<1>1. IsOperation(o) /\ o.op \notin {"load", "delete_insert"}
  BY DEF Mute
<1>2. ASSUME NEW q1, NEW n1, NEW q2, NEW n2,
             \A g : g # Scope => (g \in n1 <=> g \in n2),
             \A q : q[1] # Scope => (q \in q1 <=> q \in q2)
      PROVE  /\ Ok(Dataset(q1, n1)).ok /\ Ok(Dataset(q2, n2)).ok
             /\ Alike(Ok(Dataset(q1, n1)).data, Ok(Dataset(q2, n2)).data)
  BY <1>2 DEF Ok, Dataset, Alike
<1>3. \A d : Failed(d).ok = FALSE /\ Failed(d).data = d
  BY DEF Failed
<1>4. /\ \A g : g # Scope => (g \in d1.named <=> g \in d2.named)
      /\ \A q : q[1] # Scope => (q \in d1.quads <=> q \in d2.quads)
  BY DEF Alike
<1>5. CASE o.op = "insert_data"
  <2>1. \A d : Effect(o, d) = Ok(Dataset(d.quads \cup o.quads, d.named \cup Named(o.quads)))
    BY <1>1, <1>5, Effects
  <2> QED
    BY <1>2, <1>4, <2>1
<1>6. CASE o.op = "delete_data"
  <2>1. \A d : Effect(o, d) = Ok(Dataset(d.quads \ o.quads, d.named))
    BY <1>1, <1>6, Effects
  <2> QED
    BY <1>2, <1>4, <2>1
<1>7. CASE o.op = "create"
  <2>1. \A d : Effect(o, d) = IF o.graph \in d.named /\ ~o.silent THEN Failed(d)
                              ELSE Ok(Dataset(d.quads, d.named \cup {o.graph}))
    BY <1>1, <1>7, Effects
  <2>2. o.graph \in d1.named /\ ~o.silent <=> o.graph \in d2.named /\ ~o.silent
    BY <1>4, <1>7 DEF Mute
  <2>3. CASE o.graph \in d1.named /\ ~o.silent
    BY <1>3, <2>1, <2>2, <2>3
  <2>4. CASE ~(o.graph \in d1.named /\ ~o.silent)
    <3>1. /\ Effect(o, d1) = Ok(Dataset(d1.quads, d1.named \cup {o.graph}))
          /\ Effect(o, d2) = Ok(Dataset(d2.quads, d2.named \cup {o.graph}))
      BY <2>1, <2>2, <2>4
    <3> QED
      BY <1>2, <1>4, <3>1
  <2> QED
    BY <2>3, <2>4
<1>8. CASE o.op \in {"clear", "drop"}
  <2> DEFINE gone(d) == Targets(o.target, d)
             named(d) == IF o.op = "drop" THEN d.named \ gone(d) ELSE d.named
             fails(d) == ~(gone(d) \subseteq d.named \cup {DefaultGraph}) /\ ~o.silent
  <2>1. \A d : Effect(o, d) = IF fails(d) THEN Failed(d)
                              ELSE Ok(Dataset(d.quads \ Gone(gone(d), d), named(d)))
    BY <1>1, <1>8, Effects
  <2>2. o.target \in Graph \cup {"all", "default", "named"}
    BY <1>1, <1>8 DEF IsOperation
  <2>3. \A g : g # Scope => (g \in gone(d1) <=> g \in gone(d2))
    BY <1>4, <2>2 DEF Targets
  <2>4. fails(d1) <=> fails(d2)
    <3>1. CASE o.target \in {"all", "default", "named"}
      <4>1. \A d : gone(d) \subseteq d.named \cup {DefaultGraph}
        BY <3>1 DEF Targets
      <4> QED
        BY <4>1
    <3>2. CASE o.target \notin {"all", "default", "named"} /\ o.target # Scope
      <4>1. \A d : gone(d) = {o.target}
        BY <3>2 DEF Targets
      <4> HIDE DEF gone
      <4> QED
        BY <1>4, <3>2, <4>1
    <3>3. CASE o.target = Scope
      BY <1>8, <3>3 DEF Mute
    <3> QED
      BY <3>1, <3>2, <3>3
  <2>5. CASE fails(d1)
    <3>1. Effect(o, d1) = Failed(d1) /\ Effect(o, d2) = Failed(d2)
      BY <2>1, <2>4, <2>5
    <3> QED
      BY <1>3, <3>1
  <2>6. CASE ~fails(d1)
    <3>1. /\ Effect(o, d1) = Ok(Dataset(d1.quads \ Gone(gone(d1), d1), named(d1)))
          /\ Effect(o, d2) = Ok(Dataset(d2.quads \ Gone(gone(d2), d2), named(d2)))
      BY <2>1, <2>4, <2>6
    <3>2. /\ \A g : g # Scope => (g \in named(d1) <=> g \in named(d2))
          /\ \A q : q[1] # Scope => (q \in d1.quads \ Gone(gone(d1), d1)
                                        <=> q \in d2.quads \ Gone(gone(d2), d2))
      BY <1>4, <2>3 DEF Gone
    <3> QED
      BY <1>2, <3>1, <3>2
  <2> QED
    BY <2>5, <2>6
<1> QED
  BY <1>1, <1>5, <1>6, <1>7, <1>8, Effects

\* However many have run.
LEMMA MuteRunsNeverFail ==
  ASSUME NEW v, Len(v) \in Nat, \A i \in 1..Len(v) : Mute(v[i], Graph), NEW d
  PROVE  Execute(v, d).ok
<1> DEFINE S == {n \in Nat : n <= Len(v) => Runs(v, d)[n].ok}
<1>1. 0 \in S
  <2>1. Runs(v, d)[0] = Ok(d)
    BY RunsStepByStep
  <2> QED
    BY <2>1 DEF Ok
<1>2. ASSUME NEW n \in Nat, n \in S
      PROVE  n + 1 \in S
  <2> SUFFICES ASSUME n + 1 <= Len(v)
               PROVE  Runs(v, d)[n + 1].ok
    OBVIOUS
  <2>1. n + 1 \in 1..Len(v) /\ (n + 1) - 1 = n /\ n + 1 # 0
    OBVIOUS
  <2>2. Runs(v, d)[n + 1] = Then(v[n + 1], Runs(v, d)[n])
    BY <2>1, RunsStepByStep
  <2>3. Runs(v, d)[n].ok
    BY <1>2
  <2>4. Mute(v[n + 1], Graph)
    BY <2>1
  <2> QED
    BY <2>2, <2>3, <2>4, MuteNeverFails DEF Then
<1> HIDE DEF S
<1>3. Nat \subseteq S
  BY <1>1, <1>2, AllNumbers
<1> QED
  BY <1>3 DEF S, Execute

LEMMA MuteRunsAlike ==
  ASSUME NEW v, Len(v) \in Nat, \A i \in 1..Len(v) : Mute(v[i], {Scope}),
         NEW d1, NEW d2, Alike(d1, d2)
  PROVE  /\ Execute(v, d1).ok <=> Execute(v, d2).ok
         /\ Alike(Execute(v, d1).data, Execute(v, d2).data)
<1> DEFINE Both(r1, r2) == (r1.ok <=> r2.ok) /\ Alike(r1.data, r2.data)
           S == {n \in Nat : n <= Len(v) => Both(Runs(v, d1)[n], Runs(v, d2)[n])}
<1>1. 0 \in S
  <2>1. Runs(v, d1)[0] = Ok(d1) /\ Runs(v, d2)[0] = Ok(d2)
    BY RunsStepByStep
  <2> QED
    BY <2>1 DEF Ok
<1>2. ASSUME NEW n \in Nat, n \in S
      PROVE  n + 1 \in S
  <2> SUFFICES ASSUME n + 1 <= Len(v)
               PROVE  Both(Runs(v, d1)[n + 1], Runs(v, d2)[n + 1])
    OBVIOUS
  <2>1. n + 1 \in 1..Len(v) /\ (n + 1) - 1 = n /\ n + 1 # 0
    OBVIOUS
  <2>2. /\ Runs(v, d1)[n + 1] = Then(v[n + 1], Runs(v, d1)[n])
        /\ Runs(v, d2)[n + 1] = Then(v[n + 1], Runs(v, d2)[n])
    BY <2>1, RunsStepByStep
  <2>3. Both(Runs(v, d1)[n], Runs(v, d2)[n])
    BY <1>2
  <2>4. Mute(v[n + 1], {Scope})
    BY <2>1
  <2>5. CASE Runs(v, d1)[n].ok
    <3>1. /\ Runs(v, d1)[n + 1] = Effect(v[n + 1], Runs(v, d1)[n].data)
          /\ Runs(v, d2)[n + 1] = Effect(v[n + 1], Runs(v, d2)[n].data)
      BY <2>2, <2>3, <2>5 DEF Then
    <3>2. Alike(Runs(v, d1)[n].data, Runs(v, d2)[n].data)
      BY <2>3
    <3> DEFINE e1 == Runs(v, d1)[n].data
               e2 == Runs(v, d2)[n].data
    <3> HIDE DEF e1, e2
    <3>3. /\ Effect(v[n + 1], e1).ok <=> Effect(v[n + 1], e2).ok
          /\ Alike(Effect(v[n + 1], e1).data, Effect(v[n + 1], e2).data)
      BY <2>4, <3>2, MuteActsAlike DEF e1, e2
    <3> QED
      BY <3>1, <3>3 DEF e1, e2
  <2>6. CASE ~Runs(v, d1)[n].ok
    BY <2>2, <2>3, <2>6 DEF Then
  <2> QED
    BY <2>5, <2>6
<1> HIDE DEF S
<1>3. Nat \subseteq S
  BY <1>1, <1>2, AllNumbers
<1>4. Len(v) \in S
  BY <1>3
<1> QED
  BY <1>4 DEF S, Execute

\* What nests within the bound is not too deep.
LEMMA ShallowIsNotDeep ==
  ASSUME NEW quads, Shallow(quads), NEW q \in quads
  PROVE  ~TooDeep(q[2])
<1>1. q[2][3][2] \in 0..MaxNesting
  BY DEF Shallow, NestsWithin
<1> QED
  BY <1>1, NothingIsTooDeepYet DEF TooDeep, nests_deeper_than_the_bound

\* What such a run inserts was spelt out in an INSERT DATA, and nests no deeper than
\* its text.
LEMMA MuteAddsNothingDeep ==
  ASSUME NEW u \in Updates, ~reads_the_dataset(u), ~has_load(u), NEW graphs, NEW before,
         NEW q \in Execute(silence_graph_management(u, graphs), before).data.quads \ before.quads
  PROVE  ~TooDeep(q[2])
<1> DEFINE v == silence_graph_management(u, graphs)
<1>1. /\ Len(u) \in Nat
      /\ \A i \in 1..Len(u) : u[i] \in Elements(u) /\ u[i].op \notin {"load", "delete_insert"}
  BY InputsAreParsed, UpdateOperations DEF reads_the_dataset, Wheres, has_load
<1>2. /\ Len(v) = Len(u)
      /\ \A i \in 1..Len(u) : /\ IsOperation(v[i]) /\ v[i].op = u[i].op
                              /\ v[i].op = "insert_data" => v[i] = u[i]
  BY InputsAreParsed, SilencedOperations
<1> HIDE DEF v
<1>3. q \in Runs(v, before)[Len(v)].data.quads /\ q \notin before.quads
  BY DEF v, Execute
<1>4. PICK i \in 1..Len(v) : \/ v[i].op = "insert_data" /\ q \in v[i].quads
                             \/ v[i].op \in {"load", "delete_insert"}
  <2>1. Len(v) \in Nat /\ Len(v) \in 0..Len(v) /\ \A i \in 1..Len(v) : IsOperation(v[i])
    BY <1>1, <1>2
  <2>2. \A x \in Runs(v, before)[Len(v)].data.quads :
            \/ x \in before.quads
            \/ \E i \in 1..Len(v) :
                \/ v[i].op = "insert_data" /\ x \in v[i].quads
                \/ v[i].op = "load"
                \/ v[i].op = "delete_insert"
    BY <2>1, WhatARunAdds
  <2> QED
    BY <1>3, <2>2
<1>5. u[i].op = "insert_data" /\ q \in u[i].quads /\ u[i] \in Elements(u)
  BY <1>1, <1>2, <1>4
<1> QED
  BY <1>5, NothingIsTooDeepYet, ShallowIsNotDeep

\* The broad door answers a caller who may not read alike on every dataset.
LEMMA BroadToldAlike ==
  ASSUME NEW u \in Updates, NEW d1, NEW d2
  PROVE  broad_update(u, d1, FALSE).told = broad_update(u, d2, FALSE).told
<1> DEFINE v == silence_graph_management(u, Graph)
<1>1. CASE Egress(u) # "none" \/ reads_the_dataset(u)
  BY <1>1 DEF broad_update, Refused
<1>2. CASE Egress(u) = "none" /\ ~reads_the_dataset(u)
  <2>1. ~has_load(u)
    BY <1>2 DEF Egress
  <2>2. \A d : Execute(v, d).ok
    BY <1>2, <2>1, InputsAreParsed, SilencedIsMute, MuteRunsNeverFail
  <2>3. \A before, after : check_inserted(u, before, after)
    BY <1>2 DEF check_inserted, insert_probes, reads_the_dataset
  <2> HIDE DEF v
  <2>4. \A d : broad_update(u, d, FALSE).told = Told("applied", {}, <<>>)
    BY <1>2, <2>2, <2>3 DEF broad_update, v
  <2> QED
    BY <2>4
<1> QED
  BY <1>1, <1>2

\* The scoped door answers it alike on datasets that differ in its graph alone.
LEMMA ScopedToldAlike ==
  ASSUME NEW u \in Updates, NEW d1, NEW d2, Alike(d1, d2)
  PROVE  scoped_update(u, d1, FALSE).told = scoped_update(u, d2, FALSE).told
<1> DEFINE v == silence_graph_management(u, {Scope})
           before(d) == copy(v, Scope, d)
           after(d) == Execute(v, before(d)).data
<1>1. CASE Egress(u) # "none" \/ reads_the_dataset(u) \/ reads_outside(u, Scope)
  BY <1>1 DEF scoped_update, Refused
<1>2. CASE Egress(u) = "none" /\ ~reads_the_dataset(u) /\ ~reads_outside(u, Scope)
  <2>1. ~has_load(u)
    BY <1>2 DEF Egress
  <2>2. Alike(before(d1), before(d2))
    BY DEF Alike, copy, Copied, Alone, Of
  <2>3. /\ Execute(v, before(d1)).ok <=> Execute(v, before(d2)).ok
        /\ Alike(after(d1), after(d2))
    <3>1. Len(v) \in Nat /\ \A i \in 1..Len(v) : Mute(v[i], {Scope})
      BY <1>2, <2>1, InputsAreParsed, SilencedIsMute
    <3> HIDE DEF v, before
    <3> QED
      BY <2>2, <3>1, MuteRunsAlike
  <2>4. Escaped(after(d1), Scope) = Escaped(after(d2), Scope)
    <3> HIDE DEF after
    <3>1. \A x : x \in Escaped(after(d1), Scope) <=> x \in Escaped(after(d2), Scope)
      BY <2>3 DEF Escaped, Alike
    <3> QED
      BY <3>1
  <2>5. \A d : \A q \in Added(before(d), after(d), d) : ~TooDeep(q[2])
    BY <1>2, <2>1, MuteAddsNothingDeep DEF Added
  <2> HIDE DEF before, after
  <2>6. apply_difference(before(d1), after(d1), d1, FALSE).told
            = apply_difference(before(d2), after(d2), d2, FALSE).told
    BY <2>4, <2>5 DEF apply_difference
  <2>7. \A d : scoped_update(u, d, FALSE).told =
                IF Execute(v, before(d)).ok
                THEN apply_difference(before(d), after(d), d, FALSE).told
                ELSE Told("failed", {}, <<>>)
    <3> HIDE DEF v
    <3>1. v = Silenced(u, FALSE)
      BY DEF v, Silenced
    <3> QED
      BY <1>2, <3>1 DEF scoped_update, RunOnCopy, copy_too_large, Refused, before, after
  <2> QED
    BY <2>3, <2>6, <2>7
<1> QED
  BY <1>1, <1>2

\* A caller who may write a graph and not read it is told nothing of what it holds.
THEOREM WritersLearnNothing == Spec => []WriteOnlyLearnsNothing
<1>1. TypeOK => WriteOnlyLearnsNothing
  <2> SUFFICES ASSUME TypeOK
               PROVE  WriteOnlyLearnsNothing
    OBVIOUS
  <2> DEFINE Outside(d) == <<d.quads \ Of(d, Scope), d.named \ {Scope}>>
             broad == {broad_update(update, d, FALSE).told : d \in Datasets}
             scoped == {<<Outside(d), scoped_update(update, d, FALSE).told>> : d \in Datasets}
             loaded == {load(document, d, FALSE).told : d \in Datasets}
  <2>1. data \in Datasets
    BY DEF TypeOK
  <2>2. ASSUME update # <<>>
        PROVE  Cardinality(broad) = 1
    <3>1. update \in Updates
      BY <2>2 DEF TypeOK
    <3>2. broad = {broad_update(update, data, FALSE).told}
      BY <2>1, <3>1, BroadToldAlike
    <3> QED
      BY <3>2, FS_Singleton
  <2>3. ASSUME update # <<>>, NEW one \in scoped, NEW other \in scoped, one[1] = other[1]
        PROVE  one[2] = other[2]
    <3>1. update \in Updates
      BY <2>3 DEF TypeOK
    <3>2. PICK d1 \in Datasets : one = <<Outside(d1), scoped_update(update, d1, FALSE).told>>
      OBVIOUS
    <3>3. PICK d2 \in Datasets : other = <<Outside(d2), scoped_update(update, d2, FALSE).told>>
      OBVIOUS
    <3>4. Outside(d1) = Outside(d2)
      <4> HIDE DEF Outside
      <4> QED
        BY <2>3, <3>2, <3>3
    <3>5. /\ d1.quads \ Of(d1, Scope) = d2.quads \ Of(d2, Scope)
          /\ d1.named \ {Scope} = d2.named \ {Scope}
      BY <3>4
    <3>6. Alike(d1, d2)
      <4>1. \A q : q[1] # Scope => /\ q \in d1.quads <=> q \in d1.quads \ Of(d1, Scope)
                                   /\ q \in d2.quads <=> q \in d2.quads \ Of(d2, Scope)
        BY DEF Of
      <4>2. \A g : g # Scope => /\ g \in d1.named <=> g \in d1.named \ {Scope}
                                /\ g \in d2.named <=> g \in d2.named \ {Scope}
        OBVIOUS
      <4> QED
        BY <3>5, <4>1, <4>2 DEF Alike
    <3> HIDE DEF Outside
    <3> QED
      BY <3>1, <3>2, <3>3, <3>6, ScopedToldAlike
  <2>4. Cardinality(loaded) = 1
    <3>1. \A d : load(document, d, FALSE).told = load(document, data, FALSE).told
      BY DEF load, Refused
    <3>2. loaded = {load(document, data, FALSE).told}
      BY <2>1, <3>1
    <3> QED
      BY <3>2, FS_Singleton
  <2> QED
    BY <2>2, <2>3, <2>4 DEF WriteOnlyLearnsNothing
<1> QED
  BY <1>1, TypeCorrect, PTL

-----------------------------------------------------------------------------
(* How deep terms nest *)

\* What a template makes is matched by the probe that it is read as.
LEMMA ProbeMatches ==
  ASSUME NEW t, NEW m, NEW triple, triple = [i \in 1..3 |-> Value(t.triple[i], m)]
  PROVE  Matching(ProbeOf(t.triple), {triple}) # {}
<1>1. \A position : Spelt(position) => Value(position, m) = position[2]
  BY DEF Spelt, Value
<1>2. ASSUME NEW i \in 1..3
      PROVE  ProbeOf(t.triple)[i] \in {NoConstant, triple[i]}
  <2>1. \A position : (IF Spelt(position) THEN position[2] ELSE NoConstant)
                        \in {NoConstant, Value(position, m)}
    BY <1>1
  <2>2. triple[i] = Value(t.triple[i], m)
    OBVIOUS
  <2> QED
    BY <2>1, <2>2 DEF ProbeOf
<1>3. triple \in Matching(ProbeOf(t.triple), {triple})
  BY <1>2 DEF Matching
<1> QED
  BY <1>3

\* Triples, and what a solution binds, that do not nest past the bound.
ShallowTriples(triples) == \A t \in triples : \A i \in 1..3 : NestsWithin(t[i])
BindsShallow(m) == \A v \in DOMAIN m : NestsWithin(m[v])

\* What does not nest nests within the bound.
LEMMA FlatIsWithin == \A name : NestsWithin(<<name, 0>>)
BY NothingIsTooDeepYet DEF NestsWithin

\* A match binds terms of the triples it is of, or what is inside one.
LEMMA MatchesAreShallow ==
  ASSUME NEW patterns, NEW triples, ShallowTriples(triples), NEW m \in Matches(patterns, triples)
  PROVE  BindsShallow(m)
<1>1. PICK c : /\ IsChoice(c, patterns, triples) /\ FitsAll(patterns, c)
               /\ m = BoundTo(patterns, c)
  BY MatchesBy
<1> SUFFICES ASSUME NEW v \in DOMAIN m PROVE NestsWithin(m[v])
  BY DEF BindsShallow
<1> DEFINE Occurs == CHOOSE w \in patterns \X (1..3) : v \in VarsOf(w[1][w[2]])
           t == Occurs[1]
           i == Occurs[2]
           Got == IF t[i][1] = "around" THEN Unwrapped(c[t][i]) ELSE c[t][i]
<1>2. v \in Variables(patterns)
  BY <1>1 DEF BoundTo
<1>3. m[v] = Got
  BY <1>1, <1>2 DEF BoundTo
<1>4. Occurs \in patterns \X (1..3)
  <2>1. PICK s \in patterns, j \in 1..3 : v \in VarsOf(s[j])
    BY <1>2 DEF Variables
  <2>2. <<s, j>> \in patterns \X (1..3) /\ v \in VarsOf(<<s, j>>[1][<<s, j>>[2]])
    BY <2>1
  <2> QED
    BY <2>2
<1>5. t \in patterns /\ i \in 1..3
  BY <1>4
<1> HIDE DEF Occurs, t, i
<1>6. NestsWithin(c[t][i]) /\ (t[i][1] = "around" => c[t][i][2] > 0)
  BY <1>1, <1>5 DEF IsChoice, FitsAll, ShallowTriples
<1>7. CASE t[i][1] = "around"
  <2>1. c[t][i][2] - 1 \in 0..MaxNesting
    BY <1>6, <1>7, NothingIsTooDeepYet DEF NestsWithin
  <2> QED
    BY <1>3, <1>7, <2>1 DEF NestsWithin, Unwrapped
<1> QED
  BY <1>3, <1>6, <1>7

\* A path connects what its triples have at their ends.
ShallowPairs(triples) ==
    {e \in PropertyPath : \A c \in Pairs(e, triples) : NestsWithin(c[1]) /\ NestsWithin(c[2])}

\* So on any path.
LEMMA PathsAreShallow ==
  ASSUME NEW triples, ShallowTriples(triples)
  PROVE  \A e \in PropertyPath : \A c \in Pairs(e, triples) : NestsWithin(c[1]) /\ NestsWithin(c[2])
<1> DEFINE nodes == {t[1] : t \in triples} \cup {t[3] : t \in triples}
           P == PairsOver(triples)
           Fine(pairs) == \A c \in pairs : NestsWithin(c[1]) /\ NestsWithin(c[2])
<1>1. \A n \in nodes : NestsWithin(n)
  BY DEF ShallowTriples
<1>2. \A n \in {<<x, x>> : x \in nodes} : NestsWithin(n[1]) /\ NestsWithin(n[2])
  BY <1>1
<1>3. ASSUME NEW R, Fine(R)
      PROVE  Fine(Closure(R))
  <2>1. \A c \in Closure(R) : \E x, y \in {e[1] : e \in R} \cup {e[2] : e \in R} : c = <<x, y>>
    <3> DEFINE ends == {e[1] : e \in R} \cup {e[2] : e \in R}
           reached == TransitiveClosure([x, y \in ends |-> <<x, y>> \in R], ends)
    <3>0. Closure(R) = {e \in ends \X ends : reached[e[1], e[2]]}
      BY DEF Closure
    <3> HIDE DEF ends, reached
    <3>1. \A c \in Closure(R) : c \in ends \X ends
      BY <3>0
    <3>2. \A c \in ends \X ends : \E x, y \in ends : c = <<x, y>>
      OBVIOUS
    <3> QED
      BY <3>1, <3>2 DEF ends
  <2>2. \A x \in {e[1] : e \in R} \cup {e[2] : e \in R} : NestsWithin(x)
    BY <1>3
  <2> QED
    BY <2>1, <2>2
<1>4. ASSUME NEW e \in PropertyPath,
             \A y \in PropertyPath : Ranks[y] < Ranks[e] => y \in ShallowPairs(triples)
      PROVE  e \in ShallowPairs(triples)
  <2>1. Pairs(e, triples) = PairsOf(e, P, triples)
    BY PairsStep
  <2>2. \A y \in PropertyPath : Ranks[y] < Ranks[e] => Fine(P[y])
    BY <1>4, PairsStep DEF ShallowPairs
  <2>3. e.kind \in {"sequence", "alternative"} => Fine(P[e.a]) /\ Fine(P[e.b])
    BY <2>2, PathParts
  <2>4. e.kind \in {"reverse", "one_or_more", "zero_or_more", "zero_or_one"} => Fine(P[e.of])
    BY <2>2, PathParts
  <2> DEFINE loops == {<<x, x>> : x \in nodes}
  <2>5. Fine(loops)
    BY <1>2
  <2> HIDE DEF P
  <2>6. Fine(PairsOf(e, P, triples))
    <3>1. CASE e.kind \in {"predicate", "negated"}
      <4>1. \A c \in PairsOf(e, P, triples) : \E t \in triples : c = <<t[1], t[3]>>
        BY <3>1 DEF PairsOf
      <4> QED
        BY <4>1 DEF ShallowTriples
    <3>2. CASE e.kind = "reverse"
      BY <2>4, <3>2 DEF PairsOf
    <3>3. CASE e.kind = "sequence"
      <4>1. \A c \in PairsOf(e, P, triples) : \E x \in P[e.a], y \in P[e.b] : c = <<x[1], y[2]>>
        BY <3>3 DEF PairsOf
      <4> QED
        BY <2>3, <3>3, <4>1
    <3>4. CASE e.kind = "alternative"
      BY <2>3, <3>4 DEF PairsOf
    <3>5. CASE e.kind = "one_or_more"
      BY <1>3, <2>4, <3>5 DEF PairsOf
    <3>6. CASE e.kind = "zero_or_more"
      <4>1. PairsOf(e, P, triples) = Closure(P[e.of]) \cup loops
        BY <3>6 DEF PairsOf
      <4>2. Fine(Closure(P[e.of]))
        BY <1>3, <2>4, <3>6
      <4> HIDE DEF loops
      <4> QED
        BY <2>5, <4>1, <4>2
    <3>7. CASE e.kind = "zero_or_one"
      <4>1. PairsOf(e, P, triples) = P[e.of] \cup loops
        BY <3>7 DEF PairsOf
      <4> HIDE DEF loops
      <4> QED
        BY <2>4, <2>5, <3>7, <4>1
    <3>8. e.kind \in {"predicate", "negated", "reverse", "sequence", "alternative",
                      "one_or_more", "zero_or_more", "zero_or_one"}
      BY PatternsAreTrees
    <3> QED
      BY <3>1, <3>2, <3>3, <3>4, <3>5, <3>6, <3>7, <3>8
  <2> QED
    BY <2>1, <2>6 DEF ShallowPairs
<1>5. PropertyPath \subseteq ShallowPairs(triples)
  BY <1>4, ByPaths
<1> QED
  BY <1>5 DEF ShallowPairs

\* What an expression makes of a solution: what it spells out, or a truth value.
LEMMA ValuesAreOf ==
  ASSUME NEW e \in Expression, NEW m, NEW exists
  PROVE  /\ e.kind = "term" => Evaluated(e, m, exists) = e.term
         /\ e.kind \notin {"term", "triple"} => Evaluated(e, m, exists) \in {True, False}
<1> DEFINE a == <<"value", m, exists>>
<1>1. \A x, f : Step(a, x, f) = ValueOf(x, f, m, exists)
  BY DEF Step
<1>2. ASSUME NEW x \in Expression, NEW f, NEW g,
             \A y \in Expression : Ranks[y] < Ranks[x] => f[y] = g[y]
      PROVE  ValueOf(x, f, m, exists) = ValueOf(x, g, m, exists)
  <2>1. /\ x \in Part
        /\ x.kind \in {"term", "triple", "exists", "not", "or"}
        /\ x.kind = "not" => x.of \in Expression \cap Children(x)
        /\ x.kind = "or" => \A i \in DOMAIN x.args : x.args[i] \in Expression \cap Children(x)
    BY PartsOfExpressions
  <2>2. \A y \in Expression \cap Children(x) : f[y] = g[y]
    BY <1>2, <2>1, ChildrenAreLower
  <2>3. CASE x.kind \in {"term", "triple", "exists"}
    BY <2>3 DEF ValueOf
  <2>4. CASE x.kind = "not"
    BY <2>1, <2>2, <2>4 DEF ValueOf
  <2>5. CASE x.kind = "or"
    <3>1. \A i \in DOMAIN x.args : f[x.args[i]] = g[x.args[i]]
      BY <2>1, <2>2, <2>5
    <3>2. \A h : ValueOf(x, h, m, exists)
                    = IF \E i \in DOMAIN x.args : h[x.args[i]] = True THEN True ELSE False
      BY <2>5 DEF ValueOf
    <3> QED
      BY <3>1, <3>2
  <2> QED
    BY <2>1, <2>3, <2>4, <2>5
<1> HIDE DEF a
<1>3. PICK f : Fixed(a, Expression, f)
  <2>1. Local(a, Expression)
    BY <1>1, <1>2 DEF Local
  <2> QED
    BY <2>1, Computed DEF Expression
<1> DEFINE F == CHOOSE h : h = [x \in Expression |-> ValueOf(x, h, m, exists)]
<1>4. f = [x \in Expression |-> ValueOf(x, f, m, exists)]
  BY <1>1, <1>3 DEF Fixed
<1>5. F = [x \in Expression |-> ValueOf(x, F, m, exists)]
  BY <1>4
<1>6. Evaluated(e, m, exists) = F[e]
  BY DEF Evaluated
<1> HIDE DEF F
<1>7. Evaluated(e, m, exists) = ValueOf(e, F, m, exists)
  BY <1>5, <1>6
<1>8. e.kind \in {"term", "triple", "exists", "not", "or"}
  BY PartsOfExpressions
<1> QED
  BY <1>7, <1>8 DEF ValueOf

\* A pattern whose text builds no triple term, and spells out none past the bound.
BuildsNone(p) ==
    /\ SpeltShallow(p)
    /\ \A q \in Reached[p] : q.op = "extend" => q.expr.kind # "triple"

\* Beyond what is in them, a BIND binds the value of its expression,
LEMMA BindValues ==
  ASSUME NEW d, NEW p \in Pattern, p.op = "extend", NEW graphs \in SUBSET Reachable,
         NEW m \in Found(p, d, graphs)
  PROVE  \E n \in Found(p.inner, d, graphs) : \A v \in DOMAIN m :
            \/ v \in DOMAIN n /\ m[v] = n[v]
            \/ m[v] = Evaluated(p.expr, n, FoundBelow(p, d, graphs))
<1> DEFINE of == FoundBelow(p, d, graphs)
           E(n) == Evaluated(p.expr, n, of)
<1>1. m \in Extended(Found(p.inner, d, graphs), p.var, p.expr, of)
  BY FoundInParts
<1>2. PICK n \in Found(p.inner, d, graphs) : m = n \/ m = Merged(Binding(p.var, E(n)), n)
  BY <1>1 DEF Extended
<1> HIDE DEF E
<1>3. \A v \in DOMAIN m : \/ v \in DOMAIN n /\ m[v] = n[v]
                          \/ m[v] = E(n)
  <2>1. CASE m = n
    BY <2>1
  <2>2. CASE m = Merged(Binding(p.var, E(n)), n)
    BY <2>2, MergedAre, BindingIs
  <2> QED
    BY <1>2, <2>1, <2>2
<1> QED
  BY <1>3 DEF E

\* a grouping its count,
LEMMA CountValues ==
  ASSUME NEW d, NEW p \in Pattern, p.op = "group", NEW graphs \in SUBSET Reachable,
         NEW m \in Found(p, d, graphs)
  PROVE  \E n \in Found(p.inner, d, graphs) : \A v \in DOMAIN m :
            \/ v \in DOMAIN n /\ m[v] = n[v]
            \/ \E k : m[v] = Numeral(k)
<1> DEFINE of == FoundBelow(p, d, graphs)
           M == Found(p.inner, d, graphs)
           Number(k) == Cardinality({n \in M : Projected({n}, p.by) = {k} /\ Evaluated(p.expr, n, of) = True})
<1>1. m \in Grouped(M, p.by, p.var, p.expr, of)
  BY FoundInParts
<1> HIDE DEF M, of
<1>2. PICK k \in Projected(M, p.by) : m = Merged(Binding(p.var, Numeral(Number(k))), k)
  BY <1>1 DEF Grouped
<1> DEFINE t == Numeral(Number(k))
<1>3. PICK n \in M : k = [v \in p.by \cap DOMAIN n |-> n[v]]
  BY DEF Projected
<1>4. m = Merged(Binding(p.var, t), k)
  BY <1>2
<1>5. \E i : t = Numeral(i)
  OBVIOUS
<1> HIDE DEF t
<1>6. ASSUME NEW v \in DOMAIN m
      PROVE  (v \in DOMAIN n /\ m[v] = n[v]) \/ m[v] = t
  <2>1. v = p.var \/ v \in DOMAIN k
    BY <1>4, MergedAre, BindingIs
  <2>2. CASE v = p.var
    BY <1>4, <2>2, MergedAre, BindingIs
  <2>3. CASE v # p.var /\ v \in DOMAIN k
    BY <1>3, <1>4, <2>3, MergedAre, BindingIs
  <2> QED
    BY <2>1, <2>2, <2>3
<1> QED
  BY <1>5, <1>6 DEF M

\* and a GRAPH the name it finds it in.
LEMMA NameValues ==
  ASSUME NEW d, d.named \subseteq Graph, NEW p \in Pattern, p.op = "graph",
         NEW graphs \in SUBSET Reachable, NEW m \in Found(p, d, graphs)
  PROVE  \E gs \in SUBSET Graph : \E n \in Found(p.inner, d, gs) : \A v \in DOMAIN m :
            \/ v \in DOMAIN n /\ m[v] = n[v]
            \/ \E g : m[v] = <<g, 0>>
<1>1. CASE p.name[1] = "const"
  <2>1. {} \in SUBSET Graph /\ (p.name[2] \in d.named => {p.name[2]} \in SUBSET Graph)
    OBVIOUS
  <2>2. \/ p.name[2] \in d.named /\ m \in Found(p.inner, d, {p.name[2]})
        \/ m \in Found(p.inner, d, {})
    BY <1>1, GraphFound
  <2> QED
    BY <2>1, <2>2
<1>2. CASE p.name[1] # "const"
  <2>1. m \in UNION {FoundIn(p, d, g) : g \in d.named \ {Remote}}
    BY <1>2, GraphFound
  <2>2. PICK g \in d.named : m \in FoundIn(p, d, g)
    BY <2>1
  <2>3. {g} \in SUBSET Graph
    OBVIOUS
  <2>4. PICK l \in {Binding(p.name[2], <<g, 0>>)}, n \in Found(p.inner, d, {g}) : Joins(m, l, n)
    BY <2>2, JoinedAre DEF FoundIn
  <2>5. \A v \in DOMAIN m : (v \in DOMAIN n /\ m[v] = n[v]) \/ m[v] = <<g, 0>>
    BY <2>4, JoinsHas, JoinsDomain, BindingIs DEF Has
  <2> QED
    BY <2>3, <2>5
<1> QED
  BY <1>1, <1>2

\* What is active where none but the store's own graphs are, if it stores nothing deep.
LEMMA ActiveIsShallow ==
  ASSUME NEW d, Shallow(d.quads), NEW graphs \in SUBSET GraphNames
  PROVE  ShallowTriples(Active(d, graphs)) /\ graphs \in SUBSET Reachable
<1>1. Remote \notin graphs /\ graphs \in SUBSET Reachable
  BY RemoteIsNoGraph DEF GraphNames, Reachable
<1>2. ASSUME NEW t \in Active(d, graphs)
      PROVE  \A i \in 1..3 : NestsWithin(t[i])
  <2>1. PICK g \in graphs : t \in IF g = Remote THEN RemoteTriples ELSE TriplesOf(d, g)
    BY DEF Active
  <2>2. t \in TriplesOf(d, g)
    BY <1>1, <2>1
  <2> QED
    BY <2>2 DEF TriplesOf, Shallow
<1> QED
  BY <1>1, <1>2 DEF ShallowTriples

ShallowIn(d) == {p \in Pattern : BuildsNone(p) => \A graphs \in SUBSET GraphNames :
                    \A m \in Found(p, d, graphs) : BindsShallow(m)}

\* A pattern that builds no triple term finds none past the bound where none is stored.
LEMMA SolutionsAreShallow ==
  ASSUME NEW d, d.named \subseteq Graph, Shallow(d.quads)
  PROVE  \A p \in Pattern : BuildsNone(p) => \A graphs \in SUBSET GraphNames :
            \A m \in Found(p, d, graphs) : BindsShallow(m)
<1>1. ASSUME NEW p \in Pattern, \A q \in Pattern : Ranks[q] < Ranks[p] => q \in ShallowIn(d)
      PROVE  p \in ShallowIn(d)
  <2> SUFFICES ASSUME BuildsNone(p), NEW graphs \in SUBSET GraphNames,
                      NEW m \in Found(p, d, graphs)
               PROVE  BindsShallow(m)
    BY DEF ShallowIn
  <2>0. \A q \in Operands(p) : BuildsNone(q)
    BY ReachedAre DEF BuildsNone, SpeltShallow
  <2>1. /\ p.op \in Two => /\ p.left \in ShallowIn(d) /\ p.right \in ShallowIn(d)
                           /\ BuildsNone(p.left) /\ BuildsNone(p.right)
        /\ p.op \notin Two \cup None => p.inner \in ShallowIn(d) /\ BuildsNone(p.inner)
    BY <1>1, <2>0, LowerParts DEF Operands, Two, None
  <2>2. p.op \in Two => /\ \A n \in Found(p.left, d, graphs) : BindsShallow(n)
                        /\ \A n \in Found(p.right, d, graphs) : BindsShallow(n)
    BY <2>1 DEF ShallowIn
  <2>3. p.op \notin Two \cup None => \A gs \in SUBSET GraphNames :
            \A n \in Found(p.inner, d, gs) : BindsShallow(n)
    BY <2>1 DEF ShallowIn
  <2>4. ShallowTriples(Active(d, graphs)) /\ graphs \in SUBSET Reachable
    BY ActiveIsShallow
  <2>5. p \in Reached[p]
    BY ReachedAre
  <2>6. CASE p.op = "bgp"
    <3>1. m \in Matches(p.triples, Active(d, graphs))
      BY <2>4, <2>6, BgpFound
    <3> QED
      BY <2>4, <3>1, MatchesAreShallow
  <2>7. CASE p.op = "path"
    <3> DEFINE N == PathTriples(p.path, Active(d, graphs))
    <3>1. m \in Matches({<<p.s, Const(True), p.o>>}, N)
      BY <2>4, <2>7, PathFound
    <3>2. ShallowTriples(N)
      <4>1. p.path \in PropertyPath
        BY <2>7, PatternsAreTrees
      <4>2. \A c \in Pairs(p.path, Active(d, graphs)) : NestsWithin(c[1]) /\ NestsWithin(c[2])
        BY <2>4, <4>1, PathsAreShallow
      <4>3. NestsWithin(True)
        BY FlatIsWithin DEF True
      <4> QED
        BY <4>2, <4>3 DEF PathTriples, ShallowTriples
    <3> HIDE DEF N
    <3> QED
      BY <3>1, <3>2, MatchesAreShallow
  <2>8. CASE p.op = "values"
    <3>1. \A row \in p.rows : NestsWithin(row)
      BY <2>5, <2>8 DEF BuildsNone, SpeltShallow
    <3>2. \/ DOMAIN m = {}
          \/ (\A v : v \in DOMAIN m <=> v = p.var) /\ m[p.var] \in p.rows
      BY <2>4, <2>8, ValuesShape
    <3> QED
      BY <3>1, <3>2 DEF BindsShallow
  <2>9. CASE p.op \in {"join", "optional", "union"}
    <3>1. \/ m \in Found(p.left, d, graphs) \/ m \in Found(p.right, d, graphs)
          \/ \E l \in Found(p.left, d, graphs), r \in Found(p.right, d, graphs) : Joins(m, l, r)
      BY <2>4, <2>9, JoinShape, OptionalShape, PlainShape
    <3>2. ASSUME NEW l \in Found(p.left, d, graphs), NEW r \in Found(p.right, d, graphs), Joins(m, l, r)
          PROVE  BindsShallow(m)
      <4>1. BindsShallow(l) /\ BindsShallow(r)
        BY <2>2, <2>9 DEF Two
      <4>2. /\ \A v : v \in DOMAIN m <=> v \in DOMAIN l \/ v \in DOMAIN r
            /\ Has(m, l) /\ Has(m, r)
        BY <3>2, JoinsDomain, JoinsHas
      <4> QED
        BY <4>1, <4>2 DEF BindsShallow, Has
    <3> QED
      BY <2>2, <2>9, <3>1, <3>2 DEF Two
  <2>10. CASE p.op = "minus"
    <3>1. m \in Found(p.left, d, graphs)
      BY <2>4, <2>10, PlainShape
    <3> QED
      BY <2>2, <2>10, <3>1 DEF Two
  <2>11. CASE p.op \in {"filter", "modifier", "order"}
    <3>1. m \in Found(p.inner, d, graphs)
      BY <2>4, <2>11, PlainShape
    <3> QED
      BY <2>3, <2>11, <3>1 DEF Two, None
  <2>12. CASE p.op = "extend"
    <3> DEFINE of == FoundBelow(p, d, graphs)
    <3>1. PICK n \in Found(p.inner, d, graphs) : \A v \in DOMAIN m :
                \/ v \in DOMAIN n /\ m[v] = n[v]
                \/ m[v] = Evaluated(p.expr, n, of)
      BY <2>4, <2>12, BindValues
    <3>2. p.expr \in Expression /\ p.expr.kind # "triple"
      <4>1. Expressions(p) = {p.expr} /\ Expressions(p) \subseteq Expression
        BY <2>12, PatternsAreTrees DEF Expressions
      <4> QED
        BY <2>5, <2>12, <4>1 DEF BuildsNone
    <3> HIDE DEF of
    <3>3. NestsWithin(Evaluated(p.expr, n, of))
      <4>1. CASE p.expr.kind = "term"
        BY <2>5, <2>12, <3>2, <4>1, ValuesAreOf DEF BuildsNone, SpeltShallow
      <4>2. CASE p.expr.kind # "term"
        <5>1. Evaluated(p.expr, n, of) \in {True, False}
          BY <3>2, <4>2, ValuesAreOf
        <5> QED
          BY <5>1, FlatIsWithin DEF True, False
      <4> QED
        BY <4>1, <4>2
    <3>4. BindsShallow(n)
      BY <2>3, <2>12 DEF Two, None
    <3> QED
      BY <3>1, <3>3, <3>4 DEF BindsShallow
  <2>13. CASE p.op = "group"
    <3>1. PICK n \in Found(p.inner, d, graphs) : \A v \in DOMAIN m :
                \/ v \in DOMAIN n /\ m[v] = n[v]
                \/ \E k : m[v] = Numeral(k)
      BY <2>4, <2>13, CountValues
    <3>2. \A k : NestsWithin(Numeral(k))
      BY FlatIsWithin DEF Numeral
    <3>3. BindsShallow(n)
      BY <2>3, <2>13 DEF Two, None
    <3> QED
      BY <3>1, <3>2, <3>3 DEF BindsShallow
  <2>14. CASE p.op = "project"
    <3>1. PICK n \in Found(p.inner, d, graphs) : CutTo(m, n, p.vars)
      BY <2>4, <2>14, ProjectShape
    <3>2. BindsShallow(n)
      BY <2>3, <2>14 DEF Two, None
    <3> QED
      BY <3>1, <3>2 DEF BindsShallow, CutTo
  <2>15. CASE p.op = "graph"
    <3>1. PICK gs \in SUBSET Graph : \E n \in Found(p.inner, d, gs) : \A v \in DOMAIN m :
                \/ v \in DOMAIN n /\ m[v] = n[v]
                \/ \E g : m[v] = <<g, 0>>
      BY <2>4, <2>15, NameValues
    <3>2. PICK n \in Found(p.inner, d, gs) : \A v \in DOMAIN m :
                \/ v \in DOMAIN n /\ m[v] = n[v]
                \/ \E g : m[v] = <<g, 0>>
      BY <3>1
    <3>3. BindsShallow(n)
      BY <2>3, <2>15 DEF Two, None, GraphNames
    <3> QED
      BY <3>2, <3>3, FlatIsWithin DEF BindsShallow
  <2>16. CASE p.op = "service"
    <3>1. Found(p, d, graphs) = {<<>>}
      BY <2>4, <2>16, ServiceFound, RemoteIsNoGraph
    <3>2. m = <<>>
      BY <3>1
    <3> QED
      BY <3>2, NothingGiven DEF BindsShallow
  <2>17. p.op \in Solved
    BY <2>4, PlainShape
  <2> QED
    BY <2>6, <2>7, <2>8, <2>9, <2>10, <2>11, <2>12, <2>13, <2>14, <2>15, <2>16, <2>17
       DEF Solved, OfDatasets
<1>2. Pattern \subseteq ShallowIn(d)
  BY <1>1, ByPatterns
<1> QED
  BY <1>2 DEF ShallowIn

\* A template that spells its object out makes none that is too deep.
LEMMA TemplateObjects ==
  ASSUME NEW t, NEW M, NEW q \in Instances(t, M), TooDeep(q[2]),
         t.graph[1] = "const" => t.graph[2] \in GraphNames
  PROVE  ~Spelt(t.triple[3])
<1>1. PICK m \in M : q[2] = [i \in 1..3 |-> Value(t.triple[i], m)]
  BY InstancesAre
<1>2. nests_deeper_than_the_bound(Value(t.triple[3], m))
  BY <1>1 DEF TooDeep
<1> SUFFICES ASSUME Spelt(t.triple[3])
             PROVE  FALSE
  OBVIOUS
<1>3. Value(t.triple[3], m) = t.triple[3][2] /\ t.triple[3][2][2] = 0
  BY DEF Spelt, Value
<1>4. 0 > MaxNesting
  BY <1>2, <1>3 DEF nests_deeper_than_the_bound
<1> QED
  BY <1>4, NothingIsTooDeepYet

\* One that spells it out, or leaves it to a variable, makes none of solutions that bind
\* none.
LEMMA TemplatesAreShallow ==
  ASSUME NEW t, NEW M, \A m \in M : BindsShallow(m), NEW q \in Instances(t, M),
         t.triple[3][1] = "var" \/ Spelt(t.triple[3]),
         t.graph[1] = "const" => t.graph[2] \in GraphNames
  PROVE  \A i \in 1..3 : NestsWithin(q[2][i])
<1>1. PICK m \in M : /\ q[2] = [i \in 1..3 |-> Value(t.triple[i], m)]
                     /\ \A i \in 1..3 : VarsOf(t.triple[i]) \subseteq DOMAIN m
                     /\ IsIri(Value(t.triple[1], m))
                     /\ IsIri(Value(t.triple[2], m))
  BY InstancesAre
<1>2. \A term : term[2] = 0 => NestsWithin(term)
  BY NothingIsTooDeepYet DEF NestsWithin
<1>3. NestsWithin(Value(t.triple[1], m)) /\ NestsWithin(Value(t.triple[2], m))
  BY <1>1, <1>2 DEF IsIri
<1>4. NestsWithin(Value(t.triple[3], m))
  <2>1. CASE Spelt(t.triple[3])
    BY <1>2, <2>1 DEF Spelt, Value
  <2>2. CASE t.triple[3][1] = "var"
    <3>1. t.triple[3][2] \in DOMAIN m
      BY <1>1, <2>2 DEF VarsOf
    <3> QED
      BY <2>2, <3>1 DEF BindsShallow, Value
  <2> QED
    BY <2>1, <2>2
<1> QED
  BY <1>1, <1>3, <1>4

\* So a WHERE that builds no triple term finds none past the bound.
LEMMA MatchedIsShallow ==
  ASSUME NEW o, IsOperation(o), o.op = "delete_insert", BuildsNone(o.pattern),
         NEW d, IsDataset(d), Shallow(d.quads)
  PROVE  \A m \in Matched(o, d) : BindsShallow(m)
<1> DEFINE read == IF o.using.given /\ ~o.using.with
                   THEN Dataset(d.quads, d.named \cap o.using.named)
                   ELSE d
           graphs == IF o.using.given THEN o.using.default ELSE {DefaultGraph}
<1>1. Matched(o, d) = Found(o.pattern, read, graphs)
  BY NothingGiven DEF Matched, Solutions, Found
<1>2. read.named \subseteq Graph /\ Shallow(read.quads)
  BY DEF IsDataset, Dataset
<1>3. o.pattern \in Pattern /\ graphs \in SUBSET GraphNames
  BY DEF IsOperation, GraphNames
<1> HIDE DEF read, graphs
<1> QED
  BY <1>1, <1>2, <1>3, SolutionsAreShallow

\* An update whose text can build no triple term leaves none that is too deep, after
\* however many of its operations.
LEMMA BuildsNothingDeep ==
  ASSUME NEW u \in Updates, ~may_construct_triple_term(u), ~has_load(u), NEW d \in Datasets
  PROVE  \A n \in 0..Len(u) : Shallow(Runs(u, d)[n].data.quads)
<1> DEFINE S == {n \in Nat : n <= Len(u) => Shallow(Runs(u, d)[n].data.quads)}
<1>1. /\ Len(u) \in Nat /\ DOMAIN u = 1..Len(u)
      /\ \A i \in 1..Len(u) : u[i] \in Elements(u) /\ IsOperation(u[i])
  BY InputsAreParsed, UpdateOperations
<1>2. 0 \in S
  <2>1. Runs(u, d)[0] = Ok(d)
    BY <1>1, RunsStepByStep
  <2> QED
    BY <2>1, NothingIsTooDeepYet DEF Ok
<1>3. ASSUME NEW n \in Nat, n \in S
      PROVE  n + 1 \in S
  <2> SUFFICES ASSUME n + 1 <= Len(u), NEW q \in Runs(u, d)[n + 1].data.quads
               PROVE  \A i \in 1..3 : NestsWithin(q[2][i])
    BY DEF Shallow
  <2> DEFINE o == u[n + 1]
             run == Runs(u, d)[n]
  <2>1. n + 1 \in 1..Len(u) /\ n \in 0..Len(u) /\ (n + 1) - 1 = n /\ n + 1 # 0
    OBVIOUS
  <2>2. Shallow(run.data.quads)
    BY <1>1, <1>3
  <2>3. Runs(u, d)[n + 1] = Then(o, run)
    <3>1. \A m \in 0..Len(u) : m # 0 => Runs(u, d)[m] = Then(u[m], Runs(u, d)[m - 1])
      BY <1>1, RunsStepByStep
    <3> QED
      BY <1>1, <2>1, <3>1
  <2>4. o \in Elements(u) /\ IsOperation(o)
    BY <1>1, <2>1
  <2>5. IsDataset(run.data)
    BY <1>1, <2>1, InputsAreParsed, RunsKeepDataset
  <2> HIDE DEF o, run
  <2>6. CASE q \in run.data.quads
    BY <2>2, <2>6 DEF Shallow
  <2>7. CASE q \notin run.data.quads
    <3>1. q \in Effect(o, run.data).data.quads
      BY <2>3, <2>7 DEF Then
    <3>2. \/ o.op = "insert_data" /\ q \in o.quads
          \/ o.op = "delete_insert" /\ q \in Made(o.insert, Matched(o, run.data))
      <4>1. o.op # "load"
        BY <2>4 DEF has_load
      <4> QED
        BY <2>4, <2>7, <3>1, <4>1, WhatAnOperationAdds
    <3>3. CASE o.op = "insert_data" /\ q \in o.quads
      BY <2>4, <3>3, NothingIsTooDeepYet DEF Shallow
    <3>4. CASE o.op = "delete_insert" /\ q \in Made(o.insert, Matched(o, run.data))
      <4>1. PICK t \in o.insert : q \in Instances(t, Matched(o, run.data))
        BY <3>4 DEF Made
      <4>2. o \in Wheres(u)
        BY <2>4, <3>4 DEF Wheres
      <4>3. t.triple[3][1] = "var" \/ Spelt(t.triple[3])
        BY <4>1, <4>2 DEF may_construct_triple_term
      <4>4. t.graph[1] = "const" => t.graph[2] \in GraphNames
        BY <2>4, <3>4, <4>1 DEF IsOperation
      <4>5. BuildsNone(o.pattern)
        BY <4>2, NothingIsTooDeepYet DEF BuildsNone, may_construct_triple_term
      <4>6. \A m \in Matched(o, run.data) : BindsShallow(m)
        BY <2>2, <2>4, <2>5, <3>4, <4>5, MatchedIsShallow
      <4> QED
        BY <4>1, <4>3, <4>4, <4>6, TemplatesAreShallow
    <3> QED
      BY <3>2, <3>3, <3>4
  <2> QED
    BY <2>6, <2>7
<1> HIDE DEF S
<1>4. Nat \subseteq S
  BY <1>2, <1>3, AllNumbers
<1> QED
  BY <1>4 DEF S

\* The probes of an update find whatever it inserts that is too deep.
LEMMA ProbesFindTheDeep ==
  ASSUME NEW u \in Updates, Egress(u) = "none", NEW d \in Datasets,
         check_inserted(u, d.quads, Execute(u, d).data.quads),
         NEW q \in Execute(u, d).data.quads \ d.quads
  PROVE  ~TooDeep(q[2])
<1> SUFFICES ASSUME TooDeep(q[2])
             PROVE  FALSE
  OBVIOUS
<1>1. ~has_load(u)
  BY DEF Egress
<1>2. /\ Len(u) \in Nat /\ Len(u) \in 0..Len(u) /\ DOMAIN u = 1..Len(u)
      /\ \A i \in 1..Len(u) : u[i] \in Elements(u) /\ IsOperation(u[i])
  BY InputsAreParsed, UpdateOperations
<1>3. q \in Runs(u, d)[Len(u)].data.quads /\ q \notin d.quads
  BY DEF Execute
<1>4. may_construct_triple_term(u)
  BY <1>1, <1>2, <1>3, BuildsNothingDeep, ShallowIsNotDeep
<1>5. PICK i \in 1..Len(u) :
        \/ u[i].op = "insert_data" /\ q \in u[i].quads
        \/ u[i].op = "load"
        \/ /\ u[i].op = "delete_insert"
           /\ q \in Made(u[i].insert, Matched(u[i], Runs(u, d)[i - 1].data))
  <2>1. \A x \in Runs(u, d)[Len(u)].data.quads :
            \/ x \in d.quads
            \/ \E i \in 1..Len(u) :
                \/ u[i].op = "insert_data" /\ x \in u[i].quads
                \/ u[i].op = "load"
                \/ /\ u[i].op = "delete_insert"
                   /\ x \in Made(u[i].insert, Matched(u[i], Runs(u, d)[i - 1].data))
    BY <1>2, WhatARunAdds
  <2> QED
    BY <1>3, <2>1
<1> DEFINE o == u[i]
           M == Matched(u[i], Runs(u, d)[i - 1].data)
<1>6. o.op = "delete_insert" /\ q \in Made(o.insert, M)
  BY <1>1, <1>2, <1>5, NothingIsTooDeepYet, ShallowIsNotDeep DEF has_load
<1>7. o \in Wheres(u) /\ IsOperation(o)
  BY <1>2, <1>6 DEF Wheres
<1> HIDE DEF o, M
<1>8. PICK t \in o.insert : q \in Instances(t, M)
  BY <1>6 DEF Made
<1>9. t.graph[1] = "const" => t.graph[2] \in GraphNames
  BY <1>6, <1>7, <1>8 DEF IsOperation
<1>10. ~Spelt(t.triple[3])
  BY <1>8, <1>9, TemplateObjects
<1> DEFINE probe == [graph |-> t.graph, triple |-> ProbeOf(t.triple)]
<1>11. probe \in insert_probes(u)
  BY <1>7, <1>8, <1>10 DEF insert_probes
<1>12. PICK m \in M : q[2] = [j \in 1..3 |-> Value(t.triple[j], m)]
  BY <1>8, <1>9, InstancesAre
<1>13. Matching(probe.triple, {q[2]}) # {}
  BY <1>12, ProbeMatches
<1>14. probe.graph[1] = "const" => q[1] = probe.graph[2]
  BY <1>8, <1>9, InstancesAre
<1> HIDE DEF probe
<1> QED
  BY <1>4, <1>11, <1>13, <1>14 DEF check_inserted

\* No door leaves a triple term past the bound that was not there.
THEOREM TermsStayShallow == Spec => []NothingGrowsTooDeep
<1>1. TypeOK => NothingGrowsTooDeep
  <2> SUFFICES ASSUME TypeOK
               PROVE  NothingGrowsTooDeep
    OBVIOUS
  <2> DEFINE NoDeeper(left) == \A q \in left.data.quads \ data.quads : ~TooDeep(q[2])
  <2>1. data \in Datasets
    BY DEF TypeOK
  <2>2. ASSUME update # <<>>
        PROVE  NoDeeper(broad_update(update, data, TRUE))
    <3>1. update \in Updates
      BY <2>2 DEF TypeOK
    <3>2. silence_graph_management(update, {}) = update
      <4>1. update = [i \in DOMAIN update |-> update[i]]
        BY <3>1, InputsAreParsed, UpdateOperations
      <4> QED
        BY <4>1 DEF silence_graph_management
    <3> DEFINE run == Execute(update, data)
    <3>3. \/ broad_update(update, data, TRUE).data = data
          \/ /\ broad_update(update, data, TRUE).data = run.data
             /\ Egress(update) = "none" /\ check_inserted(update, data.quads, run.data.quads)
      <4> HIDE DEF run
      <4>1. run = Execute(silence_graph_management(update, {}), data)
        BY <3>2 DEF run
      <4> QED
        BY <4>1 DEF broad_update, Refused
    <3> QED
      BY <2>1, <3>1, <3>3, ProbesFindTheDeep
  <2>3. NoDeeper(scoped_update(update, data, TRUE))
    <3> DEFINE v == Silenced(update, TRUE)
               before == copy(v, Scope, data)
               after == Execute(v, before).data
    <3>1. \/ scoped_update(update, data, TRUE).data = data
          \/ /\ scoped_update(update, data, TRUE).data = Applied(before, after, Scope, data)
             /\ \A q \in Added(before, after, data) : ~TooDeep(q[2])
      BY DEF scoped_update, Refused, RunOnCopy, apply_difference
    <3> HIDE DEF before, after
    <3>2. Applied(before, after, Scope, data).quads
            \subseteq data.quads \cup Added(before, after, data)
      BY DEF Applied
    <3> QED
      BY <3>1, <3>2
  <2>4. NoDeeper(load(document, data, TRUE))
    <3> DEFINE quads == [i \in DOMAIN document.quads |->
                            IF document.quads[i][1] = DefaultGraph
                            THEN <<document.graph, document.quads[i][2]>>
                            ELSE document.quads[i]]
               o == [op |-> "insert_data", quads |-> Range(quads)]
    <3>1. \/ load(document, data, TRUE).data = data
          \/ /\ load(document, data, TRUE).data = Effect(o, data).data
             /\ check_load(document, quads) = "none"
      BY DEF load, Refused
    <3>2. Effect(o, data).data.quads = data.quads \cup Range(quads)
      BY DEF Effect, Ok, Dataset
    <3> HIDE DEF quads
    <3>3. check_load(document, quads) = "none" => \A q \in Range(quads) : ~TooDeep(q[2])
      BY DEF check_load, check_rdf_nesting
    <3> QED
      BY <3>1, <3>2, <3>3
  <2> QED
    BY <2>2, <2>3, <2>4 DEF NothingGrowsTooDeep
<1> QED
  BY <1>1, TypeCorrect, PTL

-----------------------------------------------------------------------------
(* Reads are answered as they are meant *)

\* A read that is answered asked for graphs that the caller holds grants for, names no
\* other and is not of a dataset of its own. It is computed under the one spelling of
\* what it asked for.
LEMMA AnsweredReads ==
  ASSUME NEW q, NEW raw, NEW capability, NEW d,
         scoped_query(q, raw, capability, d)[2].kind = "answered"
  PROVE  /\ graphs_of(raw) \in SUBSET Graph
         /\ ~pattern_has_service(q.pattern) /\ ~q.from.given
         /\ pattern_graphs(q.pattern) \subseteq graphs_of(raw)
         /\ scoped_query(q, raw, capability, d) =
                <<canonical(graphs_of(raw)), ConfinedRead(q, graphs_of(raw), d)>>
         /\ scoped_query(q, raw, capability, d)[2].rows =
                Answered(q, Sees(graphs_of(raw), graphs_of(raw)), d)
<1> DEFINE set == scope(raw, capability)
           read == ConfinedRead(q, graphs_of(raw), d)
<1>1. set.kind = "granted" => /\ set.names = graphs_of(raw)
                              /\ graphs_of(raw) \in SUBSET Graph
  BY DEF scope, Heard
<1>2. set.kind = "granted" =>
        scoped_query(q, raw, capability, d) = <<canonical(graphs_of(raw)), read>>
  <2> HIDE DEF set, read
  <2>1. CASE ~MayEnter(capability, ReadsAGraph)
    BY <2>1 DEF scoped_query, Heard
  <2>2. CASE MayEnter(capability, ReadsAGraph)
    BY <1>1, <2>2 DEF scoped_query, reissue_canonical, is_canonical, set, read
  <2> QED
    BY <2>1, <2>2
<1>3. set.kind = "granted"
  <2>1. set.kind # "answered"
    BY DEF scope, Heard
  <2> HIDE DEF set, read
  <2> QED
    BY <2>1 DEF scoped_query, Heard, set
<1>4. read.kind = "answered"
  BY <1>2, <1>3
<1>5. /\ ~pattern_has_service(q.pattern) /\ ~q.from.given
      /\ graphs_outside(q, graphs_of(raw)) = {}
      /\ read.rows = Answered(q, confine(graphs_of(raw)), d)
  BY <1>4 DEF ConfinedRead, Heard, names_its_own_dataset, query_error
<1> QED
  BY <1>1, <1>2, <1>3, <1>5 DEF graphs_outside, confine

\* No graph that a caller or a query names is answered as if it were empty.
THEOREM ReadsMeanWhatTheySay == Spec => []NoGraphIsAnsweredAsEmpty
<1>1. TypeOK => NoGraphIsAnsweredAsEmpty
  <2> SUFFICES ASSUME TypeOK, query # NoQuery, NamesItsGraphs(query.pattern)
               PROVE  NoGraphIsAnsweredAsEmpty
    BY DEF NoGraphIsAnsweredAsEmpty
  <2>1. query \in Queries /\ data \in Datasets
    BY DEF TypeOK
  <2>0. query.pattern \in Pattern /\ query.form \in QueryForms
    BY <2>1, InputsAreParsed
  <2> DEFINE Meant(set) == IF query.from.given
                           THEN Sees(query.from.default, query.from.named \cup {Remote})
                           ELSE Sees(set, Graph \cup {Remote})
             Given(capability) ==
                 {<<graphs_of(raw), scoped_query(query, raw, capability, data)>> :
                     raw \in Spellings}
             heard(capability) == {h \in Given(capability) : h[2][2].kind = "answered"}
  <2>2. ASSUME NEW capability, NEW h \in heard(capability)
        PROVE  /\ h[2] = <<canonical(h[1]), ConfinedRead(query, h[1], data)>>
               /\ h[2][2].rows = Answered(query, Meant(h[1]), data)
               /\ h = <<h[1], h[2]>>
    <3>1. PICK raw \in Spellings :
            h = <<graphs_of(raw), scoped_query(query, raw, capability, data)>>
      OBVIOUS
    <3>2. h[1] = graphs_of(raw) /\ h[2] = scoped_query(query, raw, capability, data)
      BY <3>1
    <3>3. scoped_query(query, raw, capability, data)[2].kind = "answered"
      BY <3>2
    <3>4. /\ graphs_of(raw) \in SUBSET Graph
          /\ ~pattern_has_service(query.pattern) /\ ~query.from.given
          /\ pattern_graphs(query.pattern) \subseteq graphs_of(raw)
          /\ scoped_query(query, raw, capability, data) =
                <<canonical(graphs_of(raw)), ConfinedRead(query, graphs_of(raw), data)>>
          /\ scoped_query(query, raw, capability, data)[2].rows =
                Answered(query, Sees(graphs_of(raw), graphs_of(raw)), data)
      BY <3>3, AnsweredReads
    <3>5. Answered(query, Sees(graphs_of(raw), graphs_of(raw)), data)
            = Answered(query, Sees(graphs_of(raw), Graph \cup {Remote}), data)
      BY <2>0, <2>1, <3>4, NamesAreAllThatIsReached
    <3> QED
      BY <3>1, <3>2, <3>4, <3>5
  <2> HIDE DEF heard, Meant
  <2>3. ASSUME NEW capability
        PROVE  /\ \A h \in heard(capability) : h[2][2].rows = Answered(query, Meant(h[1]), data)
               /\ \A one, other \in heard(capability) : one[1] = other[1] => one = other
    BY <2>2
  <2> QED
    BY <2>3 DEF NoGraphIsAnsweredAsEmpty, heard, Meant
<1> QED
  BY <1>1, TypeCorrect, PTL

-----------------------------------------------------------------------------
(* The advice on a refused binding *)

\* Variables that are in the scope of a part that is shown, or hidden.
Mentions(p, v, hidden) == \E q : <<q, hidden>> \in Scopes[p] /\ v \in InScope[q]

\* What is said of a query with one value bound.
LEMMA OneBinding ==
  ASSUME NEW q, q.pattern \in Pattern, NEW v, DOMAIN q.bound = {v}
  PROVE  /\ Unprojected(q) = {v} \ InScope[q.pattern]
         /\ query_error(q).kind = "name it"
                <=> Mentions(q.pattern, v, TRUE) /\ ~Mentions(q.pattern, v, FALSE)
<1> DEFINE P == q.pattern
           Bound(hidden) == UNION {InScope[s[1]] : s \in {w \in Scopes[P] : w[2] = hidden}}
<1>1. only_inside_exists_or_minus(q) = Bound(TRUE) \ Bound(FALSE)
  BY DEF only_inside_exists_or_minus
<1>2. ASSUME NEW hidden
      PROVE  v \in Bound(hidden) <=> Mentions(P, v, hidden)
  <2>1. ASSUME v \in Bound(hidden) PROVE Mentions(P, v, hidden)
    <3>1. PICK s \in Scopes[P] : s[2] = hidden /\ v \in InScope[s[1]]
      BY <2>1
    <3>2. s = <<s[1], s[2]>>
      BY ScopesArePairs
    <3>3. <<s[1], hidden>> \in Scopes[P]
      BY <3>1, <3>2
    <3> QED
      BY <3>1, <3>3 DEF Mentions
  <2>2. ASSUME Mentions(P, v, hidden) PROVE v \in Bound(hidden)
    <3>1. PICK p : <<p, hidden>> \in Scopes[P] /\ v \in InScope[p]
      BY <2>2 DEF Mentions
    <3>2. InScope[<<p, hidden>>[1]] \subseteq Bound(hidden)
      BY <3>1
    <3> QED
      BY <3>1, <3>2
  <2> QED
    BY <2>1, <2>2
<1> HIDE DEF Bound
<1>3. Unprojected(q) = {v} \ InScope[q.pattern]
  BY DEF Unprojected
<1>4. query_error(q).kind = "name it" <=> {v} \cap (Bound(TRUE) \ Bound(FALSE)) # {}
  BY <1>1 DEF query_error, Heard
<1>5. query_error(q).kind = "name it" <=> Mentions(P, v, TRUE) /\ ~Mentions(P, v, FALSE)
  BY <1>2, <1>4
<1> QED
  BY <1>3, <1>5

\* The advice that comes with a refused binding works: a variable that only an EXISTS or a
\* MINUS mentions is not in scope under SELECT * either, and any other is, unless a
\* sub-select or a GROUP closes the scope that it is in.
THEOREM AdviceWorks == Spec => []BindingAdviceWorks
<1>1. TypeOK => BindingAdviceWorks
  <2> SUFFICES ASSUME TypeOK, query # NoQuery
               PROVE  BindingAdviceWorks
    BY DEF BindingAdviceWorks
  <2> DEFINE t == [type |-> "uri", term |-> True]
             Asked(v) == [query EXCEPT !.bound = Binding(v, t)]
             P == query.pattern
             Body == IF P.op = "project" THEN P.inner ELSE P
             All(v) == [Asked(v) EXCEPT !.pattern = Body]
             Hides == \E p \in Reached[Body] : p.op \in {"project", "group"}
             mentioned == UNION {InScope[p] : p \in Reached[P]}
  <2>1. query \in Queries /\ P \in Pattern
    BY InputsAreParsed DEF TypeOK
  <2>2. /\ P.op = "project" => Body = P.inner /\ Body \in Pattern /\ Body \in Shown(P)
        /\ P.op # "project" => Body = P
        /\ Body \in Pattern
    BY <2>1, LowerParts DEF Shown, Operands, Two, None
  <2>3. ASSUME NEW v \in mentioned, Unprojected(Asked(v)) # {}
        PROVE  IF query_error(Asked(v)).kind = "name it" THEN Unprojected(All(v)) # {}
               ELSE Unprojected(All(v)) = {} \/ Hides
    <3> DEFINE one == Asked(v)
               all == All(v)
    <3>0. /\ one.pattern = P /\ DOMAIN one.bound = {v}
          /\ all.pattern = Body /\ DOMAIN all.bound = {v}
      BY <2>1, InputsAreParsed DEF Binding
    <3> HIDE DEF one, all, t, Body
    <3>1. /\ Unprojected(one) = {v} \ InScope[P] /\ Unprojected(all) = {v} \ InScope[Body]
          /\ query_error(one).kind = "name it"
                <=> Mentions(P, v, TRUE) /\ ~Mentions(P, v, FALSE)
      BY <2>1, <2>2, <3>0, OneBinding
    <3>2. v \notin InScope[P]
      BY <2>3, <3>1 DEF one
    <3>3. Scopes[P] = {<<P, FALSE>>} \cup (UNION {Scopes[q] : q \in Shown(P)})
                            \cup (UNION {Reached[q] : q \in HiddenBy(P)}) \X {TRUE}
      BY <2>1, ScopesStep DEF ScopesOf
    <3>4. CASE Mentions(P, v, TRUE) /\ ~Mentions(P, v, FALSE)
      <4>1. <<Body, FALSE>> \in Scopes[P]
        <5>1. <<Body, FALSE>> \in Scopes[Body]
          BY <2>2, ScopesStep DEF ScopesOf
        <5> QED
          BY <2>2, <3>3, <5>1
      <4>2. v \notin InScope[Body]
        BY <3>4, <4>1 DEF Mentions
      <4> QED
        BY <3>1, <3>4, <4>2 DEF one, all
    <3>5. CASE ~(Mentions(P, v, TRUE) /\ ~Mentions(P, v, FALSE))
      <4>1. PICK p \in Reached[P] : v \in InScope[p]
        OBVIOUS
      <4>2. Mentions(P, v, FALSE) \/ Mentions(P, v, TRUE)
        BY <2>1, <4>1, ScopesReachAll DEF Mentions
      <4>3. PICK q : <<q, FALSE>> \in Scopes[P] /\ v \in InScope[q]
        BY <3>5, <4>2 DEF Mentions
      <4>4. <<q, FALSE>> \in Scopes[Body]
        <5>1. CASE P.op # "project"
          BY <2>2, <4>3, <5>1
        <5>2. CASE P.op = "project"
          <6>1. Shown(P) = {Body}
            BY <2>2, <5>2 DEF Shown, Operands
          <6> QED
            BY <3>2, <3>3, <4>3, <6>1
        <5> QED
          BY <5>1, <5>2
      <4>5. v \in InScope[Body] \/ Hides
        BY <2>2, <4>3, <4>4, ShownIsInScope DEF Closes
      <4> QED
        BY <3>1, <3>5, <4>5 DEF one, all
    <3> QED
      BY <3>4, <3>5
  <2> QED
    BY <2>3 DEF BindingAdviceWorks
<1> QED
  BY <1>1, TypeCorrect, PTL

-----------------------------------------------------------------------------
(* The copy is enough *)

\* What is not copied of a graph, and the triples of some quads.
Rest(u, g, d) == Of(d, g) \ copy(u, g, d).quads
TriplesIn(quads) == {q[2] : q \in quads}

\* No probe of an update sees what is not copied.
LEMMA NoProbeSeesTheRest ==
  ASSUME NEW u, NEW g, NEW d, NEW o \in Elements(u)
  PROVE  Misses(operation_probes(o), TriplesIn(Rest(u, g, d)))
<1> DEFINE triples == {q[2] : q \in Of(d, g)}
           probes == UNION {operation_probes(x) : x \in Elements(u)}
<1> SUFFICES ASSUME NEW probe \in operation_probes(o), NEW q \in Rest(u, g, d),
                    Catches(probe, q[2])
             PROVE  FALSE
  BY DEF Misses, TriplesIn
<1>1. q[2] \in triples /\ q[2] \notin Observed(u, triples)
  BY DEF Rest, copy, Copied, Alone
<1>2. probe \in probes
  OBVIOUS
<1>3. footprint(u) = IF \E x \in probes : is_everything(x) THEN Whole ELSE probes
  BY DEF footprint, Merging
<1> HIDE DEF triples, probes
<1>4. \A x \in footprint(u) : q[2] \notin Matching(x, triples)
  BY <1>1 DEF Observed
<1>5. CASE \E x \in probes : is_everything(x)
  <2>1. footprint(u) = Whole
    BY <1>3, <1>5
  <2>2. q[2] \in Matching(<<NoConstant, NoConstant, NoConstant>>, triples)
    BY <1>1 DEF Matching
  <2> QED
    BY <1>4, <2>1, <2>2 DEF Whole
<1>6. CASE ~\E x \in probes : is_everything(x)
  <2>1. q[2] \in Matching(probe, triples)
    BY <1>1 DEF Matching, Catches
  <2> QED
    BY <1>2, <1>3, <1>4, <1>6, <2>1
<1> QED
  BY <1>5, <1>6

\* Where everything is probed for, nothing is left out.
LEMMA WholeMissesNothing ==
  ASSUME NEW rest, Misses(Whole, TriplesIn(rest))
  PROVE  rest = {}
<1> SUFFICES ASSUME NEW q \in rest PROVE FALSE
  OBVIOUS
<1>1. Catches(<<NoConstant, NoConstant, NoConstant>>, q[2])
  BY DEF Catches
<1> QED
  BY <1>1 DEF Misses, Whole, TriplesIn

\* A dataset, and what it is but for some quads.
ButFor(whole, part, rest) ==
    part.named = whole.named /\ whole.quads = part.quads \cup rest

\* A WHERE whose probes see none of those finds the same.
LEMMA MatchedOnCopies ==
  ASSUME NEW o, IsOperation(o), o.op = "delete_insert",
         NEW whole, IsDataset(whole), NEW part, NEW rest, ButFor(whole, part, rest),
         Misses(pattern_probes[o.pattern], TriplesIn(rest))
  PROVE  Matched(o, part) = Matched(o, whole)
<1> DEFINE Read(e) == IF o.using.given /\ ~o.using.with
                      THEN Dataset(e.quads, e.named \cap o.using.named) ELSE e
           default == IF o.using.given THEN o.using.default ELSE {DefaultGraph}
           d == Read(whole)
           c == Read(part)
<1>1. o.pattern \in Pattern /\ default \in SUBSET Reachable
  BY DEF IsOperation, GraphNames, Reachable
<1>2. \A e : Matched(o, e) = Found(o.pattern, Read(e), default)
  BY DEF Matched, Solutions, Found
<1>3. whole.named \subseteq Reachable
  BY DEF IsDataset, Reachable
<1>4. /\ d.quads = whole.quads /\ c.quads = part.quads
      /\ d.named = c.named /\ d.named \subseteq whole.named
  BY DEF Dataset, ButFor
<1> HIDE DEF d, c, default
<1>5. IsCopyOf(c, d)
  BY <1>3, <1>4 DEF IsCopyOf, ButFor
<1>6. \A t \in Lost(c, d) : t \in TriplesIn(rest)
  BY <1>4 DEF Lost, ButFor, TriplesIn
<1>7. Misses(pattern_probes[o.pattern], Lost(c, d))
  BY <1>6 DEF Misses
<1>8. Found(o.pattern, d, default) = Found(o.pattern, c, default)
  BY <1>1, <1>5, <1>7, FoundOnCopies
<1> QED
  BY <1>2, <1>8 DEF d, c

\* What it deletes are none of those either.
LEMMA NoneOfTheRestIsDeleted ==
  ASSUME NEW o, IsOperation(o), o.op = "delete_insert", o.delete # {} => ListsNoName(o.pattern),
         NEW d, IsDataset(d), NEW rest, Misses(operation_probes(o), TriplesIn(rest))
  PROVE  \A q \in Made(o.delete, Matched(o, d)) : q \notin rest
<1> DEFINE default == IF o.using.given THEN o.using.default ELSE {DefaultGraph}
           read == IF o.using.given /\ ~o.using.with
                   THEN Dataset(d.quads, d.named \cap o.using.named) ELSE d
<1>1. o.pattern \in Pattern /\ default \in SUBSET Reachable
  BY DEF IsOperation, GraphNames, Reachable
<1>2. Matched(o, d) = Found(o.pattern, read, default)
  BY DEF Matched, Solutions, Found
<1>3. read.named \subseteq Reachable
  BY DEF IsDataset, Reachable, Dataset
<1> SUFFICES ASSUME NEW t \in o.delete, NEW q \in Instances(t, Matched(o, d)), q \in rest
             PROVE  FALSE
  BY DEF Made
<1>4. PICK m \in Matched(o, d) :
        /\ q[2] = [i \in 1..3 |-> Value(t.triple[i], m)]
        /\ \A i \in 1..3 : VarsOf(t.triple[i]) \subseteq DOMAIN m
  BY DEF Instances
<1> DEFINE listed == bindings[o.pattern].confined
<1>5. Within(m, listed)
  <2>1. ListsNoName(o.pattern)
    OBVIOUS
  <2> HIDE DEF default, read, listed
  <2>2. m \in Found(o.pattern, read, default)
    BY <1>2
  <2> QED
    BY <1>1, <1>3, <2>1, <2>2, ConfinedIsConfined DEF listed
<1> HIDE DEF listed
<1>6. \A i \in 1..3 : Value(t.triple[i], m) = q[2][i] /\ VarsOf(t.triple[i]) \subseteq DOMAIN m
  BY <1>4
<1>7. PICK probe \in push_listed(t.triple, listed) : Catches(probe, q[2])
  BY <1>5, <1>6, ListedProbeSees
<1>8. probe \in operation_probes(o)
  BY <1>7 DEF operation_probes, listed
<1> QED
  BY <1>7, <1>8 DEF Misses, TriplesIn

\* An operation whose probes see none of some quads fails alike with them and without, and
\* leaves them alone.
LEMMA EffectsOnCopies ==
  ASSUME NEW o, IsOperation(o), o.op = "delete_insert" /\ o.delete # {} => ListsNoName(o.pattern),
         NEW whole, IsDataset(whole), NEW part, NEW rest, ButFor(whole, part, rest),
         Misses(operation_probes(o), TriplesIn(rest))
  PROVE  /\ Effect(o, whole).ok = Effect(o, part).ok
         /\ ButFor(Effect(o, whole).data, Effect(o, part).data, rest)
<1>1. part.named = whole.named /\ whole.quads = part.quads \cup rest
  BY DEF ButFor
<1>2. \A e : /\ Ok(e).ok = TRUE /\ Failed(e).ok = FALSE
             /\ Ok(e).data = e /\ Failed(e).data = e
  BY DEF Ok, Failed
<1>4. CASE o.op = "insert_data"
  <2> DEFINE New(e) == Dataset(e.quads \cup o.quads, e.named \cup Named(o.quads))
  <2>1. \A e : Effect(o, e) = Ok(New(e))
    BY <1>4, Effects
  <2>2. ButFor(New(whole), New(part), rest)
    BY <1>1 DEF ButFor, Dataset
  <2> HIDE DEF New
  <2> QED
    BY <1>2, <2>1, <2>2
<1>5. CASE o.op \in {"load", "clear", "drop"}
  <2>1. operation_probes(o) = Whole
    BY <1>5 DEF operation_probes
  <2>2. rest = {}
    BY <2>1, WholeMissesNothing
  <2>3. whole.quads = part.quads /\ whole.named = part.named
    BY <1>1, <2>2
  <2>4. CASE o.op = "load"
    <3> DEFINE New(e) == Dataset(e.quads \cup {<<o.graph, t>> : t \in RemoteTriples},
                                 e.named \cup ({o.graph} \ {DefaultGraph}))
    <3>1. \A e : Effect(o, e) = IF Remote \in e.named THEN Ok(New(e))
                                ELSE IF o.silent THEN Ok(e) ELSE Failed(e)
      BY <2>4, Effects
    <3>2. New(whole) = New(part)
      BY <2>3
    <3> HIDE DEF New
    <3>3. ButFor(New(whole), New(part), rest) /\ ButFor(whole, part, rest)
      BY <2>2, <3>2 DEF ButFor
    <3>4. CASE Remote \in whole.named
      <4>1. Effect(o, whole) = Ok(New(whole)) /\ Effect(o, part) = Ok(New(part))
        BY <2>3, <3>1, <3>4
      <4> QED
        BY <1>2, <3>3, <4>1
    <3>5. CASE Remote \notin whole.named /\ o.silent
      <4>1. Effect(o, whole) = Ok(whole) /\ Effect(o, part) = Ok(part)
        BY <2>3, <3>1, <3>5
      <4> QED
        BY <1>2, <3>3, <4>1
    <3>6. CASE Remote \notin whole.named /\ ~o.silent
      <4>1. Effect(o, whole) = Failed(whole) /\ Effect(o, part) = Failed(part)
        BY <2>3, <3>1, <3>6
      <4> QED
        BY <1>2, <3>3, <4>1
    <3> QED
      BY <3>4, <3>5, <3>6
  <2>5. CASE o.op \in {"clear", "drop"}
    <3> DEFINE gone(e) == Targets(o.target, e)
               New(e) == Dataset(e.quads \ Gone(gone(e), e),
                                 IF o.op = "drop" THEN e.named \ gone(e) ELSE e.named)
               Fails(e) == ~(gone(e) \subseteq e.named \cup {DefaultGraph}) /\ ~o.silent
    <3>1. \A e : Effect(o, e) = IF Fails(e) THEN Failed(e) ELSE Ok(New(e))
      BY <2>5, Effects
    <3>2. gone(whole) = gone(part)
      BY <2>3 DEF Targets
    <3>3. Gone(gone(whole), whole) = Gone(gone(part), part)
      BY <2>3, <3>2 DEF Gone
    <3>4. New(whole) = New(part) /\ Fails(whole) = Fails(part)
      BY <2>3, <3>2, <3>3
    <3> HIDE DEF New, Fails
    <3>5. ButFor(New(whole), New(part), rest) /\ ButFor(whole, part, rest)
      BY <2>2, <3>4 DEF ButFor
    <3> QED
      BY <1>2, <3>1, <3>4, <3>5
  <2> QED
    BY <1>5, <2>4, <2>5
<1>6. CASE o.op = "delete_data"
  <2>1. \A q \in o.quads : q \notin rest
    <3> SUFFICES ASSUME NEW q \in o.quads, q \in rest PROVE FALSE
      OBVIOUS
    <3> DEFINE t == [i \in 1..3 |-> Const(q[2][i])]
    <3>1. \A i \in 1..3 : Value(t[i], <<>>) = q[2][i]
      BY DEF Value, Const
    <3>2. ProbeOf(t) \in operation_probes(o)
      BY <1>6 DEF operation_probes
    <3> HIDE DEF t
    <3>3. Catches(ProbeOf(t), q[2])
      BY <3>1, ProbeSees
    <3> QED
      BY <3>2, <3>3 DEF Misses, TriplesIn
  <2> DEFINE New(e) == Dataset(e.quads \ o.quads, e.named)
  <2>2. \A e : Effect(o, e) = Ok(New(e))
    BY <1>6, Effects
  <2>3. ButFor(New(whole), New(part), rest)
    BY <1>1, <2>1 DEF ButFor, Dataset
  <2> HIDE DEF New
  <2> QED
    BY <1>2, <2>2, <2>3
<1>7. CASE o.op = "create"
  <2> DEFINE New(e) == Dataset(e.quads, e.named \cup {o.graph})
  <2>1. \A e : Effect(o, e) = IF o.graph \in e.named /\ ~o.silent THEN Failed(e) ELSE Ok(New(e))
    BY <1>7, Effects
  <2>2. ButFor(New(whole), New(part), rest)
    BY <1>1 DEF ButFor, Dataset
  <2> HIDE DEF New
  <2>3. CASE o.graph \in whole.named /\ ~o.silent
    <3>1. Effect(o, whole) = Failed(whole) /\ Effect(o, part) = Failed(part)
      BY <1>1, <2>1, <2>3
    <3> QED
      BY <1>2, <3>1
  <2>4. CASE ~(o.graph \in whole.named /\ ~o.silent)
    <3>1. Effect(o, whole) = Ok(New(whole)) /\ Effect(o, part) = Ok(New(part))
      BY <1>1, <2>1, <2>4
    <3> QED
      BY <1>2, <2>2, <3>1
  <2> QED
    BY <2>3, <2>4
<1>8. CASE o.op = "delete_insert"
  <2> DEFINE M == Matched(o, whole)
             old == Made(o.delete, M)
             new == Made(o.insert, M)
             New(e, N) == Dataset((e.quads \ Made(o.delete, N)) \cup Made(o.insert, N),
                                  e.named \cup Named(Made(o.insert, N)))
  <2>1. \A e : Effect(o, e) = Ok(New(e, Matched(o, e)))
    BY <1>8, Effects
  <2>2. Matched(o, part) = M
    <3> DEFINE deleted == UNION {push_listed(t.triple, bindings[o.pattern].confined) : t \in o.delete}
    <3>0. operation_probes(o) = pattern_probes[o.pattern] \cup deleted
      BY <1>8 DEF operation_probes
    <3> HIDE DEF deleted
    <3>1. pattern_probes[o.pattern] \subseteq operation_probes(o)
      BY <3>0
    <3>2. Misses(pattern_probes[o.pattern], TriplesIn(rest))
      BY <3>1 DEF Misses
    <3> QED
      BY <1>8, <3>2, MatchedOnCopies
  <2>3. \A q \in old : q \notin rest
    BY <1>8, NoneOfTheRestIsDeleted
  <2> HIDE DEF M, old, new, New
  <2>4. Effect(o, whole) = Ok(New(whole, M)) /\ Effect(o, part) = Ok(New(part, M))
    BY <2>1, <2>2 DEF M
  <2>5. (whole.quads \ old) \cup new = ((part.quads \ old) \cup new) \cup rest
    BY <1>1, <2>3
  <2>6. ButFor(New(whole, M), New(part, M), rest)
    BY <1>1, <2>5 DEF ButFor, Dataset, New, old, new
  <2> QED
    BY <1>2, <2>4, <2>6
<1> QED
  BY <1>4, <1>5, <1>6, <1>7, <1>8, Effects

\* However many operations have run.
LEMMA RunsOnCopies ==
  ASSUME NEW u, Len(u) \in Nat, NEW whole, IsDataset(whole), NEW part, NEW rest,
         ButFor(whole, part, rest),
         \A i \in 1..Len(u) :
            /\ IsOperation(u[i])
            /\ u[i].op = "delete_insert" /\ u[i].delete # {} => ListsNoName(u[i].pattern)
            /\ Misses(operation_probes(u[i]), TriplesIn(rest))
  PROVE  /\ Execute(u, whole).ok = Execute(u, part).ok
         /\ ButFor(Execute(u, whole).data, Execute(u, part).data, rest)
<1> DEFINE Same(a, b) == a.ok = b.ok /\ ButFor(a.data, b.data, rest)
           S == {n \in Nat : n <= Len(u) => Same(Runs(u, whole)[n], Runs(u, part)[n])}
<1>1. 0 \in S
  <2>1. Runs(u, whole)[0] = Ok(whole) /\ Runs(u, part)[0] = Ok(part)
    BY RunsStepByStep
  <2>2. Same(Ok(whole), Ok(part))
    BY DEF Ok
  <2> HIDE DEF Same
  <2> QED
    BY <2>1, <2>2
<1>2. ASSUME NEW n \in Nat, n \in S
      PROVE  n + 1 \in S
  <2> SUFFICES ASSUME n + 1 <= Len(u)
               PROVE  Same(Runs(u, whole)[n + 1], Runs(u, part)[n + 1])
    OBVIOUS
  <2> DEFINE a == Runs(u, whole)[n]
             b == Runs(u, part)[n]
             o == u[n + 1]
  <2>1. /\ n + 1 \in 1..Len(u) /\ n + 1 \in 0..Len(u) /\ (n + 1) - 1 = n /\ n + 1 # 0
        /\ n \in 0..Len(u)
    OBVIOUS
  <2>2. Same(a, b)
    BY <1>2
  <2>3. Runs(u, whole)[n + 1] = Then(o, a) /\ Runs(u, part)[n + 1] = Then(o, b)
    BY <2>1, RunsStepByStep
  <2>4. IsDataset(a.data)
    BY <2>1, RunsKeepDataset
  <2>5. /\ IsOperation(o)
        /\ o.op = "delete_insert" /\ o.delete # {} => ListsNoName(o.pattern)
        /\ Misses(operation_probes(o), TriplesIn(rest))
    BY <2>1
  <2> HIDE DEF a, b, o
  <2>6. CASE ~a.ok
    BY <2>2, <2>3, <2>6 DEF Then
  <2>7. CASE a.ok
    <3>1. Same(Effect(o, a.data), Effect(o, b.data))
      BY <2>2, <2>4, <2>5, EffectsOnCopies
    <3> QED
      BY <2>2, <2>3, <2>7, <3>1 DEF Then
  <2> QED
    BY <2>6, <2>7
<1> HIDE DEF S
<1>3. Nat \subseteq S
  BY <1>1, <1>2, AllNumbers
<1>4. Same(Runs(u, whole)[Len(u)], Runs(u, part)[Len(u)])
  BY <1>3 DEF S
<1> QED
  BY <1>4 DEF Execute

\* Whatever the update, its operations and their patterns, the graph and the dataset: on the
\* copy it computes what it computes on the whole graph. No probe sees what is left out, so
\* every WHERE finds the same, nothing that is left out is deleted, and each operation leaves
\* two datasets that differ by it alone. (ScopedUpdate assumes it of its updates.)
THEOREM FootprintSuffices ==
  ASSUME NEW u, IsUpdate(u), ~NameIsListed(u), NEW g \in Graph, NEW d, IsDataset(d)
  PROVE  Faithful(u, g, d)
<1> DEFINE part == copy(u, g, d)
           whole == Alone(Of(d, g), g, d)
           rest == Rest(u, g, d)
<1>1. /\ Len(u) \in Nat /\ DOMAIN u = 1..Len(u)
      /\ \A i \in 1..Len(u) : u[i] \in Elements(u) /\ IsOperation(u[i])
  BY UpdateOperations
<1>2. IsDataset(whole)
  BY DEF Alone, Of, IsDataset, Dataset
<1>3. ButFor(whole, part, rest)
  <2>0. IsDataset(d)
    OBVIOUS
  <2>1. part.quads \subseteq Of(d, g) /\ part.named = d.named \cap {g}
    BY ONLY <2>0, CopyIsOfTheGraph
  <2>2. whole.quads = Of(d, g) /\ whole.named = d.named \cap {g}
    BY DEF Alone
  <2> HIDE DEF part, whole
  <2> QED
    BY <2>1, <2>2 DEF ButFor, Rest, part
<1>4. ASSUME NEW i \in 1..Len(u)
      PROVE  /\ IsOperation(u[i])
             /\ u[i].op = "delete_insert" /\ u[i].delete # {} => ListsNoName(u[i].pattern)
             /\ Misses(operation_probes(u[i]), TriplesIn(rest))
  <2>1. u[i] \in Elements(u) /\ IsOperation(u[i])
    BY <1>1
  <2>2. u[i].op = "delete_insert" /\ u[i].delete # {} => ListsNoName(u[i].pattern)
    BY <2>1 DEF NameIsListed, Wheres, ListsNoName, ListsItsName
  <2> QED
    BY <2>1, <2>2, NoProbeSeesTheRest
<1> HIDE DEF part, whole, rest
<1>5. /\ Execute(u, whole).ok = Execute(u, part).ok
      /\ ButFor(Execute(u, whole).data, Execute(u, part).data, rest)
  BY <1>1, <1>2, <1>3, <1>4, RunsOnCopies
<1> QED
  BY <1>5 DEF Faithful, StandsFor, ButFor, Rest, part, whole, rest

\* So it is of every case.
THEOREM CopiesAreEnough == Spec => []FootprintIsFaithful
<1>1. TypeOK => FootprintIsFaithful
  <2> SUFFICES ASSUME TypeOK, update # <<>>, ~NameIsListed(update)
               PROVE  Faithful(update, Scope, data)
    BY DEF FootprintIsFaithful
  <2>1. IsUpdate(update) /\ IsDataset(data) /\ Scope \in Graph
    BY InputsAreParsed DEF TypeOK
  <2> QED
    BY <2>1, FootprintSuffices
<1> QED
  BY <1>1, TypeCorrect, PTL

-----------------------------------------------------------------------------
(* Nothing is read as empty *)

\* What an operation leaves of some graphs depends on what there was in them, if a
\* WHERE finds the same.
LEMMA AgreeingEffects ==
  ASSUME NEW o, IsOperation(o), o.op # "load", NEW graphs, NEW d1, NEW d2,
         Only(graphs, d1) = Only(graphs, d2),
         o.op = "delete_insert" => Matched(o, d1) = Matched(o, d2),
         Effect(o, d1).ok, Effect(o, d2).ok
  PROVE  Only(graphs, Effect(o, d1).data) = Only(graphs, Effect(o, d2).data)
<1>1. /\ \A q : q[1] \in graphs => (q \in d1.quads <=> q \in d2.quads)
      /\ \A g \in graphs : g \in d1.named <=> g \in d2.named
  BY DEF Only, Dataset
<1>2. ASSUME NEW e1, NEW e2,
             \A q : q[1] \in graphs => (q \in e1.quads <=> q \in e2.quads),
             \A g \in graphs : g \in e1.named <=> g \in e2.named
      PROVE  Only(graphs, e1) = Only(graphs, e2)
  <2>1. /\ {q \in e1.quads : q[1] \in graphs} = {q \in e2.quads : q[1] \in graphs}
        /\ e1.named \cap graphs = e2.named \cap graphs
    BY <1>2
  <2> QED
    BY <2>1 DEF Only
<1>3. CASE o.op = "insert_data"
  <2>1. ASSUME NEW d
        PROVE  Effect(o, d).data = Dataset(d.quads \cup o.quads, d.named \cup Named(o.quads))
    <3>1. Effect(o, d) = Ok(Dataset(d.quads \cup o.quads, d.named \cup Named(o.quads)))
      BY <1>3, Effects
    <3> QED
      BY <3>1 DEF Ok
  <2> DEFINE e1 == Effect(o, d1).data
             e2 == Effect(o, d2).data
  <2>2. /\ e1 = Dataset(d1.quads \cup o.quads, d1.named \cup Named(o.quads))
        /\ e2 = Dataset(d2.quads \cup o.quads, d2.named \cup Named(o.quads))
    BY <2>1
  <2> HIDE DEF e1, e2
  <2>3. /\ \A q : q[1] \in graphs => (q \in e1.quads <=> q \in e2.quads)
        /\ \A g \in graphs : g \in e1.named <=> g \in e2.named
    BY <1>1, <2>2 DEF Dataset
  <2>4. Only(graphs, e1) = Only(graphs, e2)
    BY <1>2, <2>3
  <2> QED
    BY <2>4 DEF e1, e2
<1>4. CASE o.op = "delete_data"
  <2>1. ASSUME NEW d
        PROVE  Effect(o, d).data = Dataset(d.quads \ o.quads, d.named)
    <3>1. Effect(o, d) = Ok(Dataset(d.quads \ o.quads, d.named))
      BY <1>4, Effects
    <3> QED
      BY <3>1 DEF Ok
  <2> DEFINE e1 == Effect(o, d1).data
             e2 == Effect(o, d2).data
  <2>2. /\ e1 = Dataset(d1.quads \ o.quads, d1.named)
        /\ e2 = Dataset(d2.quads \ o.quads, d2.named)
    BY <2>1
  <2> HIDE DEF e1, e2
  <2>3. /\ \A q : q[1] \in graphs => (q \in e1.quads <=> q \in e2.quads)
        /\ \A g \in graphs : g \in e1.named <=> g \in e2.named
    BY <1>1, <2>2 DEF Dataset
  <2>4. Only(graphs, e1) = Only(graphs, e2)
    BY <1>2, <2>3
  <2> QED
    BY <2>4 DEF e1, e2
<1>5. CASE o.op = "create"
  <2>1. ASSUME NEW d, Effect(o, d).ok
        PROVE  Effect(o, d).data = Dataset(d.quads, d.named \cup {o.graph})
    <3>1. Effect(o, d) = IF o.graph \in d.named /\ ~o.silent THEN Failed(d)
                         ELSE Ok(Dataset(d.quads, d.named \cup {o.graph}))
      BY <1>5, Effects
    <3> QED
      BY <2>1, <3>1 DEF Ok, Failed
  <2> DEFINE e1 == Effect(o, d1).data
             e2 == Effect(o, d2).data
  <2>2. /\ e1 = Dataset(d1.quads, d1.named \cup {o.graph})
        /\ e2 = Dataset(d2.quads, d2.named \cup {o.graph})
    BY <2>1
  <2> HIDE DEF e1, e2
  <2>3. /\ \A q : q[1] \in graphs => (q \in e1.quads <=> q \in e2.quads)
        /\ \A g \in graphs : g \in e1.named <=> g \in e2.named
    BY <1>1, <2>2 DEF Dataset
  <2>4. Only(graphs, e1) = Only(graphs, e2)
    BY <1>2, <2>3
  <2> QED
    BY <2>4 DEF e1, e2
<1>6. CASE o.op \in {"clear", "drop"}
  <2> DEFINE Left(d) == Dataset(d.quads \ Gone(Targets(o.target, d), d),
                                IF o.op = "drop" THEN d.named \ Targets(o.target, d)
                                ELSE d.named)
  <2>1. ASSUME NEW d, Effect(o, d).ok
        PROVE  Effect(o, d).data = Left(d)
    <3>1. Effect(o, d) = IF /\ ~(Targets(o.target, d) \subseteq d.named \cup {DefaultGraph})
                            /\ ~o.silent
                         THEN Failed(d) ELSE Ok(Left(d))
      BY <1>6, Effects
    <3> QED
      BY <2>1, <3>1 DEF Ok, Failed
  <2>2. \A g \in graphs : g \in Targets(o.target, d1) <=> g \in Targets(o.target, d2)
    BY <1>1 DEF Targets
  <2>3. \A q : q[1] \in graphs => (q \in Left(d1).quads <=> q \in Left(d2).quads)
    BY <1>1, <2>2 DEF Gone, Dataset
  <2>4. \A g \in graphs : g \in Left(d1).named <=> g \in Left(d2).named
    BY <1>1, <2>2 DEF Dataset
  <2> HIDE DEF Left
  <2> QED
    BY <1>2, <2>1, <2>3, <2>4
<1>7. CASE o.op = "delete_insert"
  <2> DEFINE M == Matched(o, d1)
             Left(d) == Dataset((d.quads \ Made(o.delete, M)) \cup Made(o.insert, M),
                                d.named \cup Named(Made(o.insert, M)))
  <2>1. Effect(o, d1).data = Left(d1) /\ Effect(o, d2).data = Left(d2)
    <3> DEFINE Made1(d, N) == Ok(Dataset((d.quads \ Made(o.delete, N)) \cup Made(o.insert, N),
                                         d.named \cup Named(Made(o.insert, N))))
    <3>1. \A d : Effect(o, d) = Made1(d, Matched(o, d))
      BY <1>7, Effects
    <3>2. Matched(o, d2) = M
      BY <1>7
    <3> HIDE DEF Made1
    <3>3. Effect(o, d1) = Made1(d1, M) /\ Effect(o, d2) = Made1(d2, M)
      BY <3>1, <3>2
    <3> QED
      BY <3>3 DEF Ok, Made1
  <2> HIDE DEF M
  <2>2. \A q : q[1] \in graphs => (q \in Left(d1).quads <=> q \in Left(d2).quads)
    BY <1>1 DEF Dataset
  <2>3. \A g \in graphs : g \in Left(d1).named <=> g \in Left(d2).named
    BY <1>1 DEF Dataset
  <2> HIDE DEF Left
  <2> QED
    BY <1>2, <2>1, <2>2, <2>3
<1> QED
  BY <1>3, <1>4, <1>5, <1>6, <1>7, Effects

\* A run that is fine is fine after every operation.
LEMMA RunsAreFineThroughout ==
  ASSUME NEW u, Len(u) \in Nat, NEW d, Runs(u, d)[Len(u)].ok
  PROVE  \A n \in 0..Len(u) : Runs(u, d)[n].ok
<1> DEFINE S == {k \in Nat : k <= Len(u) => Runs(u, d)[Len(u) - k].ok}
<1>1. 0 \in S
  OBVIOUS
<1>2. ASSUME NEW k \in Nat, k \in S
      PROVE  k + 1 \in S
  <2> SUFFICES ASSUME k + 1 <= Len(u)
               PROVE  Runs(u, d)[Len(u) - (k + 1)].ok
    OBVIOUS
  <2> DEFINE n == Len(u) - k
  <2>1. n \in 0..Len(u) /\ n # 0 /\ Len(u) - (k + 1) = n - 1
    OBVIOUS
  <2>2. Runs(u, d)[n].ok
    BY <1>2
  <2> HIDE DEF n
  <2>3. Runs(u, d)[n] = Then(u[n], Runs(u, d)[n - 1])
    BY <2>1, RunsStepByStep
  <2> QED
    BY <2>1, <2>2, <2>3 DEF Then
<1> HIDE DEF S
<1>3. Nat \subseteq S
  BY <1>1, <1>2, AllNumbers
<1>4. ASSUME NEW n \in 0..Len(u)
      PROVE  Runs(u, d)[n].ok
  <2>1. Len(u) - n \in Nat /\ Len(u) - n <= Len(u) /\ Len(u) - (Len(u) - n) = n
    OBVIOUS
  <2> QED
    BY <1>3, <2>1 DEF S
<1> QED
  BY <1>4

\* Two runs that are fine, of datasets that agree on some graphs, leave datasets that
\* agree on them.
LEMMA AgreeingRuns ==
  ASSUME NEW u, Len(u) \in Nat,
         \A i \in 1..Len(u) : IsOperation(u[i]) /\ u[i].op # "load",
         NEW graphs, NEW d1, NEW d2, Only(graphs, d1) = Only(graphs, d2),
         \A i \in 1..Len(u) :
            LET run1 == Runs(u, d1)[i - 1]
                run2 == Runs(u, d2)[i - 1]
            IN /\ u[i].op = "delete_insert" /\ run1.ok /\ run2.ok
               /\ Only(graphs, run1.data) = Only(graphs, run2.data)
               => Matched(u[i], run1.data) = Matched(u[i], run2.data),
         Runs(u, d1)[Len(u)].ok, Runs(u, d2)[Len(u)].ok
  PROVE  Only(graphs, Runs(u, d1)[Len(u)].data) = Only(graphs, Runs(u, d2)[Len(u)].data)
<1> DEFINE Agree(n) == Only(graphs, Runs(u, d1)[n].data) = Only(graphs, Runs(u, d2)[n].data)
           S == {n \in Nat : n <= Len(u) => Agree(n)}
<1>1. 0 \in S
  <2>1. Runs(u, d1)[0] = Ok(d1) /\ Runs(u, d2)[0] = Ok(d2)
    BY RunsStepByStep
  <2> QED
    BY <2>1 DEF Ok
<1>2. ASSUME NEW n \in Nat, n \in S
      PROVE  n + 1 \in S
  <2> SUFFICES ASSUME n + 1 <= Len(u)
               PROVE  Agree(n + 1)
    OBVIOUS
  <2>1. /\ n + 1 \in 1..Len(u) /\ n + 1 \in 0..Len(u) /\ (n + 1) - 1 = n /\ n + 1 # 0
        /\ n \in 0..Len(u)
    OBVIOUS
  <2>2. Agree(n)
    BY <1>2
  <2>3. Runs(u, d1)[n].ok /\ Runs(u, d2)[n].ok /\ Runs(u, d1)[n + 1].ok /\ Runs(u, d2)[n + 1].ok
    BY <2>1, RunsAreFineThroughout
  <2> DEFINE e1 == Runs(u, d1)[n].data
             e2 == Runs(u, d2)[n].data
  <2>4. /\ Runs(u, d1)[n + 1] = Effect(u[n + 1], e1)
        /\ Runs(u, d2)[n + 1] = Effect(u[n + 1], e2)
    <3>1. /\ Runs(u, d1)[n + 1] = Then(u[n + 1], Runs(u, d1)[n])
          /\ Runs(u, d2)[n + 1] = Then(u[n + 1], Runs(u, d2)[n])
      BY <2>1, RunsStepByStep
    <3> QED
      BY <2>3, <3>1 DEF Then
  <2>5. /\ IsOperation(u[n + 1]) /\ u[n + 1].op # "load"
        /\ u[n + 1].op = "delete_insert" => Matched(u[n + 1], e1) = Matched(u[n + 1], e2)
    BY <2>1, <2>2, <2>3
  <2>6. Only(graphs, e1) = Only(graphs, e2)
    BY <2>2
  <2> HIDE DEF e1, e2
  <2> QED
    BY <2>3, <2>4, <2>5, <2>6, AgreeingEffects
<1> HIDE DEF S
<1>3. Nat \subseteq S
  BY <1>1, <1>2, AllNumbers
<1> QED
  BY <1>3 DEF S

\* If the copy is enough, the scope holds after the difference was applied what the
\* update leaves of all of it.
LEMMA AppliedIsWhatIsLeft ==
  ASSUME NEW u, NEW d, IsDataset(d), Faithful(u, Scope, d),
         Execute(u, ScopeAlone(d)).ok, IsDataset(Execute(u, ScopeAlone(d)).data)
  PROVE  Of(Applied(copy(u, Scope, d), Execute(u, copy(u, Scope, d)).data, Scope, d), Scope)
            = Of(Execute(u, ScopeAlone(d)).data, Scope)
<1> DEFINE before == copy(u, Scope, d)
           after == Execute(u, before).data
           whole == Execute(u, ScopeAlone(d)).data
           quads == (d.quads \ Removed(before, after)) \cup Added(before, after, d)
<1>1. /\ whole.named = after.named
      /\ whole.quads = after.quads \cup (Of(d, Scope) \ before.quads)
  BY DEF Faithful, StandsFor, ScopeAlone
<1>2. before.quads \subseteq Of(d, Scope)
  BY CopyIsOfTheGraph
<1>3. IsDataset(whole)
  OBVIOUS
<1>4. Scope # DefaultGraph
  BY DefaultIsNoIri, InputsAreParsed
<1> HIDE DEF before, after, whole
<1>5. Of(whole, Scope) = {q \in quads : q[1] = Scope}
  BY <1>1, <1>2 DEF Of, Removed, Added
<1>6. CASE Scope \in before.named /\ Scope \notin after.named
  <2>1. \A q \in whole.quads : q[1] # Scope
    BY <1>1, <1>3, <1>4, <1>6 DEF IsDataset
  <2>2. Of(whole, Scope) = {}
    BY <2>1 DEF Of
  <2>3. Of(Applied(before, after, Scope, d), Scope) = {}
    BY <1>6 DEF Of, Applied
  <2> QED
    BY <2>2, <2>3 DEF before, after, whole
<1>7. CASE ~(Scope \in before.named /\ Scope \notin after.named)
  <2>1. Applied(before, after, Scope, d).quads = quads
    BY <1>7 DEF Applied
  <2> HIDE DEF quads
  <2> QED
    BY <1>5, <2>1 DEF Of, before, after, whole
<1> QED
  BY <1>6, <1>7

\* With everything granted, the scoped door runs the update as it stands. One that it
\* applies asks no other machine and names no graph but the scope, and its difference
\* is applied.
LEMMA AppliedUpdates ==
  ASSUME NEW u, IsUpdate(u), NEW d, scoped_update(u, d, TRUE).told.kind = "applied"
  PROVE  /\ Egress(u) = "none" /\ ~has_load(u) /\ ~update_has_service(u)
         /\ graphs_read(u) \subseteq {Scope}
         /\ Execute(u, copy(u, Scope, d)).ok
         /\ scoped_update(u, d, TRUE).data =
                Applied(copy(u, Scope, d), Execute(u, copy(u, Scope, d)).data, Scope, d)
<1>1. Silenced(u, TRUE) = u
  <2>1. silence_graph_management(u, {}) = u
    BY UpdateOperations DEF silence_graph_management
  <2> QED
    BY <2>1 DEF Silenced
<1> DEFINE before == copy(u, Scope, d)
           run == Execute(u, before)
<1>2. Egress(u) = "none"
  BY DEF scoped_update, Refused, Told, Egress
<1>3. ~has_load(u) /\ ~update_has_service(u)
  BY <1>2 DEF Egress
<1>4. ~reads_outside(u, Scope)
  BY <1>2 DEF scoped_update, Refused, Told
<1>5. scoped_update(u, d, TRUE) = RunOnCopy(u, before, d, TRUE)
  BY <1>1, <1>2, <1>4 DEF scoped_update
<1> HIDE DEF before, run
<1>6. ~copy_too_large(before.quads, TRUE)
  <2>1. RunOnCopy(u, before, d, TRUE).told.kind = "applied"
    BY <1>5
  <2> QED
    BY <2>1 DEF RunOnCopy, Refused, Told
<1>7. RunOnCopy(u, before, d, TRUE) =
        IF run.ok THEN apply_difference(before, run.data, d, TRUE) ELSE Refused("failed", d)
  BY <1>6 DEF RunOnCopy, run
<1>8. run.ok
  <2>1. Refused("failed", d).told.kind # "applied"
    BY DEF Refused, Told
  <2> QED
    BY <1>5, <1>7, <2>1
<1>9. apply_difference(before, run.data, d, TRUE).told.kind = "applied"
  BY <1>5, <1>7, <1>8
<1>10. apply_difference(before, run.data, d, TRUE).data = Applied(before, run.data, Scope, d)
  BY <1>9 DEF apply_difference, Refused, Told
<1> QED
  BY <1>2, <1>3, <1>4, <1>5, <1>7, <1>8, <1>10 DEF reads_outside, before, run

\* What spells out its graphs, and names none but the scope, finds alike in the scope
\* alone and in all there is.
LEMMA ScopeAloneAndEverywhere ==
  ASSUME NEW u \in Updates, NEW d \in Datasets, Explicit(u, d),
         ~has_load(u), ~update_has_service(u), graphs_read(u) \subseteq {Scope},
         Execute(u, ScopeAlone(d)).ok, Execute(u, Everywhere(d)).ok
  PROVE  Of(Execute(u, ScopeAlone(d)).data, Scope) = Of(Execute(u, Everywhere(d)).data, Scope)
<1> DEFINE graphs == IF Of(d, DefaultGraph) = {} THEN {Scope, DefaultGraph} ELSE {Scope}
           alone == ScopeAlone(d)
           all == Everywhere(d)
<1>1. IsUpdate(u) /\ IsDataset(d) /\ Scope \in Graph
  BY InputsAreParsed
<1>2. /\ Len(u) \in Nat /\ DOMAIN u = 1..Len(u)
      /\ \A i \in 1..Len(u) : u[i] \in Elements(u) /\ IsOperation(u[i])
  BY <1>1, UpdateOperations
<1>3. Only(graphs, alone) = Only(graphs, all)
  <2>1. {q \in alone.quads : q[1] \in graphs} = {q \in all.quads : q[1] \in graphs}
    BY DEF ScopeAlone, Everywhere, Alone, Of, Dataset
  <2>2. alone.named \cap graphs = all.named \cap graphs
    <3>1. DefaultGraph \notin d.named /\ Remote \notin graphs
      BY <1>1, DefaultIsNoIri, RemoteIsNoGraph DEF IsDataset
    <3> QED
      BY <3>1 DEF ScopeAlone, Everywhere, Alone, Dataset
  <2> QED
    BY <2>1, <2>2 DEF Only
<1>4. ASSUME NEW i \in 1..Len(u), u[i].op = "delete_insert"
      PROVE  ReadsTheScope(u[i]) /\ ReadBy(u[i]) \subseteq graphs
  <2>1. u[i] \in Wheres(u)
    BY <1>2, <1>4 DEF Wheres
  <2>2. /\ u[i].using.given => u[i].using.default \cup u[i].using.named \subseteq {Scope}
        /\ pattern_graphs(u[i].pattern) \subseteq {Scope}
    <3> DEFINE Reads(o) == (IF o.using.given THEN o.using.default \cup o.using.named ELSE {})
                               \cup pattern_graphs(o.pattern)
    <3>1. graphs_read(u) = UNION {Reads(o) : o \in Wheres(u)}
      BY DEF graphs_read
    <3> HIDE DEF Reads
    <3>2. Reads(u[i]) \subseteq {Scope}
      BY <2>1, <3>1
    <3> QED
      BY <3>2 DEF Reads
  <2>3. ~pattern_has_service(u[i].pattern)
    BY <2>1 DEF update_has_service
  <2>4. (u[i].using.given \/ Of(d, DefaultGraph) = {}) /\ SpellsOut(u[i])
    BY <2>1 DEF Explicit
  <2> QED
    BY <2>2, <2>3, <2>4 DEF ReadsTheScope, ReadBy
<1> HIDE DEF graphs
<1>5. ASSUME NEW i \in 1..Len(u), u[i].op = "delete_insert",
             Runs(u, alone)[i - 1].ok, Runs(u, all)[i - 1].ok,
             Only(graphs, Runs(u, alone)[i - 1].data) = Only(graphs, Runs(u, all)[i - 1].data)
      PROVE  Matched(u[i], Runs(u, alone)[i - 1].data) = Matched(u[i], Runs(u, all)[i - 1].data)
  <2>1. ReadsTheScope(u[i]) /\ ReadBy(u[i]) \subseteq graphs
    BY <1>4, <1>5
  <2>2. \A start \in {alone, all} : Runs(u, start)[i - 1].ok =>
            Matched(u[i], Runs(u, start)[i - 1].data)
                = Matched(u[i], Only(ReadBy(u[i]), Runs(u, start)[i - 1].data))
    BY <1>2, <1>5, <2>1, WheresReadWhatTheyName
  <2>3. Only(ReadBy(u[i]), Runs(u, alone)[i - 1].data)
            = Only(ReadBy(u[i]), Runs(u, all)[i - 1].data)
    <3> DEFINE e1 == Runs(u, alone)[i - 1].data
               e2 == Runs(u, all)[i - 1].data
               read == ReadBy(u[i])
    <3>1. Only(graphs, e1) = Only(graphs, e2) /\ read \in SUBSET graphs
      BY <1>5, <2>1
    <3> HIDE DEF e1, e2, read
    <3>2. Only(read, e1) = Only(read, e2)
      BY <3>1, OnlyOfFewer
    <3> QED
      BY <3>2 DEF e1, e2, read
  <2> QED
    BY <1>5, <2>2, <2>3
<1>6. \A i \in 1..Len(u) : u[i].op # "load"
  BY <1>2 DEF has_load
<1>7. Runs(u, alone)[Len(u)].ok /\ Runs(u, all)[Len(u)].ok
  BY DEF Execute
<1> HIDE DEF alone, all
<1>8. Only(graphs, Runs(u, alone)[Len(u)].data) = Only(graphs, Runs(u, all)[Len(u)].data)
  BY <1>2, <1>3, <1>5, <1>6, <1>7, AgreeingRuns
<1>9. Scope \in graphs
  BY DEF graphs
<1>10. {q \in Runs(u, alone)[Len(u)].data.quads : q[1] \in graphs}
        = {q \in Runs(u, all)[Len(u)].data.quads : q[1] \in graphs}
  BY <1>8 DEF Only, Dataset
<1>11. {q \in Runs(u, alone)[Len(u)].data.quads : q[1] = Scope}
        = {q \in Runs(u, all)[Len(u)].data.quads : q[1] = Scope}
  BY <1>9, <1>10
<1> QED
  BY <1>11 DEF Execute, Of, alone, all

\* No update whose graphs are all named is answered with what another graph would have
\* changed.
THEOREM NothingElseIsRead == Spec => []NothingIsReadAsEmpty
<1>1. TypeOK /\ FootprintIsFaithful => NothingIsReadAsEmpty
  <2> DEFINE u == update
             d == data
             scoped == scoped_update(u, d, TRUE)
             everywhere == Execute(u, Everywhere(d))
  <2> SUFFICES ASSUME TypeOK, FootprintIsFaithful, u # <<>>, Explicit(u, d),
                      scoped.told.kind = "applied", everywhere.ok
               PROVE  Of(scoped.data, Scope) = Of(everywhere.data, Scope)
    BY DEF NothingIsReadAsEmpty
  <2>1. u \in Updates /\ d \in Datasets /\ IsUpdate(u) /\ IsDataset(d)
    BY InputsAreParsed DEF TypeOK
  <2>2. /\ Egress(u) = "none" /\ ~has_load(u) /\ ~update_has_service(u)
        /\ graphs_read(u) \subseteq {Scope}
        /\ Execute(u, copy(u, Scope, d)).ok
        /\ scoped.data =
                Applied(copy(u, Scope, d), Execute(u, copy(u, Scope, d)).data, Scope, d)
    BY <2>1, AppliedUpdates
  <2>3. Faithful(u, Scope, d)
    BY <2>2 DEF FootprintIsFaithful, Explicit
  <2>5. Execute(u, ScopeAlone(d)).ok
    BY <2>2, <2>3 DEF Faithful, StandsFor, ScopeAlone
  <2>6. IsDataset(Execute(u, ScopeAlone(d)).data)
    <3>1. IsDataset(ScopeAlone(d))
      BY <2>1 DEF ScopeAlone, Alone, Of, IsDataset, Dataset
    <3>2. Len(u) \in Nat /\ \A i \in 1..Len(u) : IsOperation(u[i])
      BY <2>1, UpdateOperations
    <3> QED
      BY <3>1, <3>2, RunsKeepDataset DEF Execute
  <2>7. Of(scoped.data, Scope) = Of(Execute(u, ScopeAlone(d)).data, Scope)
    BY <2>1, <2>2, <2>3, <2>5, <2>6, AppliedIsWhatIsLeft
  <2>8. Of(Execute(u, ScopeAlone(d)).data, Scope) = Of(everywhere.data, Scope)
    BY <2>1, <2>2, <2>5, ScopeAloneAndEverywhere
  <2> QED
    BY <2>7, <2>8
<1> QED
  BY <1>1, TypeCorrect, CopiesAreEnough, PTL
=============================================================================
