-------------------------- MODULE ScopedUpdateProofs --------------------------
(***************************************************************************)
(* What is proved of the two update doors for any callers, graphs, updates *)
(* and datasets: a step changes only the graph it was granted, and the     *)
(* copy, the difference and the lock implement an update that is atomic.   *)
(* Of SPARQL it is assumed that the footprint suffices (ScopedUpdate).     *)
(***************************************************************************)
EXTENDS ScopedUpdate, FiniteSetTheorems, TLAPS

-----------------------------------------------------------------------------
(* Datasets *)

\* The part of a dataset that is one graph, and its registration.
Whole(g, d) == Alone(Of(d, g), g, d)

LEMMA DatasetParts ==
  ASSUME NEW d \in Dataset
  PROVE  /\ d.quads \in SUBSET Quad /\ d.named \in SUBSET Graph
         /\ IsFiniteSet(d.quads)
         /\ \A q \in d.quads : q[1] # DefaultGraph => q[1] \in d.named
         /\ d = [quads |-> d.quads, named |-> d.named]
BY DEF Dataset

LEMMA GraphsOfQuads ==
  ASSUME NEW q \in Quad PROVE q[1] \in Graph \cup {DefaultGraph}
BY DEF Quad

LEMMA DatasetOf ==
  ASSUME NEW Q \in SUBSET Quad, NEW N \in SUBSET Graph, IsFiniteSet(Q),
         \A q \in Q : q[1] # DefaultGraph => q[1] \in N
  PROVE  [quads |-> Q, named |-> N] \in Dataset
BY DEF Dataset

LEMMA EmptyIsADataset == Empty \in Dataset
BY FS_EmptySet, DatasetOf DEF Empty

\* Any quads of one graph, with its registration, are a dataset.
LEMMA AloneIsADataset ==
  ASSUME NEW d \in Dataset, NEW g \in Graph, NEW Q \in SUBSET Of(d, g)
  PROVE  Alone(Q, g, d) \in Dataset
<1>1. Q \in SUBSET d.quads /\ \A q \in Q : q[1] = g
  BY DEF Of
<1>2. IsFiniteSet(Q) /\ Q \in SUBSET Quad
  BY <1>1, DatasetParts, FS_Subset
<1>3. \A q \in Q : q[1] # DefaultGraph => q[1] \in d.named \cap {g}
  BY <1>1, DatasetParts
<1>4. d.named \cap {g} \in SUBSET Graph
  BY DatasetParts
<1> QED
  BY <1>2, <1>3, <1>4, DatasetOf DEF Alone

LEMMA WholeIsADataset ==
  ASSUME NEW d \in Dataset, NEW g \in Graph
  PROVE  /\ Whole(g, d) \in Dataset
         /\ Whole(g, d).quads = Of(d, g)
         /\ Whole(g, d).named = d.named \cap {g}
BY AloneIsADataset DEF Whole, Alone

LEMMA CopyIsADataset ==
  ASSUME NEW d \in Dataset, NEW g \in Graph, NEW u
  PROVE  /\ copy(u, g, d) \in Dataset
         /\ copy(u, g, d).quads \subseteq Of(d, g)
         /\ copy(u, g, d).named = d.named \cap {g}
<1> DEFINE triples == {q[2] : q \in Of(d, g)}
           Q == {q \in Of(d, g) : q[2] \in Observes(u, triples)}
<1>1. copy(u, g, d) = Alone(Q, g, d)
  BY DEF copy, Copied
<1>2. Q \in SUBSET Of(d, g)
  OBVIOUS
<1> HIDE DEF Q
<1> QED
  BY <1>1, <1>2, AloneIsADataset DEF Alone

LEMMA AppliedIsADataset ==
  ASSUME NEW d \in Dataset, NEW b \in Dataset, NEW a \in Dataset, NEW g \in Graph,
         Escaped(a, g) = {}
  PROVE  Applied(b, a, g, d) \in Dataset
<1> DEFINE quads == (d.quads \ Removed(b, a)) \cup Added(b, a, d)
<1>1. quads \in SUBSET (d.quads \cup a.quads)
  BY DEF Added
<1>2. IsFiniteSet(d.quads \cup a.quads)
  BY DatasetParts, FS_Union
<1>3. IsFiniteSet(quads) /\ quads \in SUBSET Quad
  BY <1>1, <1>2, FS_Subset, DatasetParts
<1>4. \A q \in quads : q[1] # DefaultGraph => q[1] \in d.named \cup a.named
  BY <1>1, DatasetParts
<1> HIDE DEF quads
<1>5. CASE g \in b.named /\ g \notin a.named
  <2> DEFINE kept == {q \in quads : q[1] # g}
  <2>1. Applied(b, a, g, d) = [quads |-> kept, named |-> d.named \ {g}]
    BY <1>5 DEF Applied, quads
  <2>2. IsFiniteSet(kept) /\ kept \in SUBSET Quad
    BY <1>3, FS_Subset
  <2>3. \A q \in kept : q[1] # DefaultGraph => q[1] \in d.named \ {g}
    BY <1>4 DEF Escaped
  <2>4. d.named \ {g} \in SUBSET Graph
    BY DatasetParts
  <2> HIDE DEF kept
  <2> QED
    BY <2>1, <2>2, <2>3, <2>4, DatasetOf
<1>6. CASE ~(g \in b.named /\ g \notin a.named)
  <2>1. Applied(b, a, g, d) = [quads |-> quads, named |-> d.named \cup a.named]
    BY <1>6 DEF Applied, quads
  <2>2. d.named \cup a.named \in SUBSET Graph
    BY DatasetParts
  <2> QED
    BY <1>3, <1>4, <2>1, <2>2, DatasetOf
<1> QED
  BY <1>5, <1>6

(* What the difference of a copy does to the dataset is to replace the     *)
(* graph by what the update makes of the whole of it.                      *)
LEMMA StaysIn ==
  ASSUME NEW a, NEW g
  PROVE  Escaped(a, g) = {} <=> /\ \A q \in a.quads : q[1] = g
                                /\ a.named \subseteq {g}
BY DEF Escaped

LEMMA TheCopyStandsForTheGraph ==
  ASSUME NEW d \in Dataset, NEW g \in Graph, NEW u \in Update
  PROVE  LET part == Computes(u, copy(u, g, d))
             whole == Computes(u, Whole(g, d))
         IN /\ part.ok = whole.ok
            /\ part.data \in Dataset /\ whole.data \in Dataset
            /\ whole.ok => /\ whole.data.named = part.data.named
                           /\ whole.data.quads = part.data.quads
                                 \cup (Of(d, g) \ copy(u, g, d).quads)
                           /\ Escaped(whole.data, g) = Escaped(part.data, g)
<1> DEFINE part == Computes(u, copy(u, g, d))
           whole == Computes(u, Whole(g, d))
<1>1. part.data \in Dataset /\ whole.data \in Dataset
  BY CopyIsADataset, WholeIsADataset, ComputesADataset
<1>2. /\ part.ok = whole.ok
      /\ whole.ok => /\ whole.data.named = part.data.named
                     /\ whole.data.quads = part.data.quads
                           \cup (Of(d, g) \ copy(u, g, d).quads)
  BY FootprintSuffices DEF Faithful, StandsFor, Whole
<1>3. whole.ok => Escaped(whole.data, g) = Escaped(part.data, g)
  BY <1>2 DEF Escaped, Of
<1> QED
  BY <1>1, <1>2, <1>3

LEMMA TheDifferenceReplacesTheGraph ==
  ASSUME NEW d \in Dataset, NEW g \in Graph,
         NEW b \in Dataset, NEW p \in Dataset, NEW r \in Dataset,
         b.quads \subseteq Of(d, g), b.named = d.named \cap {g},
         Escaped(p, g) = {},
         r.named = p.named,
         r.quads = p.quads \cup (Of(d, g) \ b.quads)
  PROVE  /\ Applied(b, p, g, d) = [quads |-> (d.quads \ Of(d, g)) \cup r.quads,
                                   named |-> (d.named \ {g}) \cup r.named]
         /\ Added(b, p, d) = r.quads \ Of(d, g)
         /\ Removed(b, p) = Of(d, g) \ r.quads
<1>1. /\ \A q \in p.quads : q[1] = g
      /\ p.named \subseteq {g}
  BY StaysIn
<1>2. \A q \in d.quads : q \in Of(d, g) <=> q[1] = g
  BY DEF Of
<1>3. Of(d, g) \subseteq d.quads
  BY DEF Of
<1>4. Added(b, p, d) = r.quads \ Of(d, g)
  BY <1>1, <1>2, <1>3 DEF Added
<1>5. Removed(b, p) = Of(d, g) \ r.quads
  BY DEF Removed
<1> DEFINE quads == (d.quads \ Removed(b, p)) \cup Added(b, p, d)
<1>6. quads = (d.quads \ Of(d, g)) \cup r.quads
  BY <1>1, <1>2, <1>3, <1>4, <1>5
<1>7. CASE g \in b.named /\ g \notin p.named
  <2>1. \A q \in r.quads : q[1] = g
    BY <1>1, <1>2, <1>3
  <2>2. r.quads = {}
    BY <1>1, <1>7, <2>1, DatasetParts, DefaultIsNoGraph
  <2>3. {q \in quads : q[1] # g} = (d.quads \ Of(d, g)) \cup r.quads
    BY <1>2, <1>6, <2>2
  <2>4. d.named \ {g} = (d.named \ {g}) \cup r.named
    BY <1>1, <1>7
  <2> HIDE DEF quads
  <2>5. Applied(b, p, g, d) = [quads |-> {q \in quads : q[1] # g}, named |-> d.named \ {g}]
    BY <1>7 DEF Applied, quads
  <2> QED
    BY <1>4, <1>5, <2>3, <2>4, <2>5
<1>8. CASE ~(g \in b.named /\ g \notin p.named)
  <2>1. d.named \cup p.named = (d.named \ {g}) \cup r.named
    BY <1>1, <1>8
  <2> HIDE DEF quads
  <2>2. Applied(b, p, g, d) = [quads |-> quads, named |-> d.named \cup p.named]
    BY <1>8 DEF Applied, quads
  <2> QED
    BY <1>4, <1>5, <1>6, <2>1, <2>2
<1> QED
  BY <1>7, <1>8

LEMMA CountsAreNumbers ==
  ASSUME NEW d \in Dataset, NEW b \in Dataset, NEW a \in Dataset
  PROVE  Told("applied", CountAdded(b, a, d), Cardinality(Removed(b, a))) \in Answers
<1>1. IsFiniteSet(Added(b, a, d)) /\ IsFiniteSet(Removed(b, a))
  BY DatasetParts, FS_Subset, FS_Difference DEF Added, Removed
<1>2. CountAdded(b, a, d) \in Nat /\ Cardinality(Removed(b, a)) \in Nat
  BY <1>1, FS_CardinalityType DEF CountAdded
<1> QED
  BY <1>2 DEF Told, Answers

-----------------------------------------------------------------------------
(* The invariant. Whoever holds the lock has, of what the dataset is now,  *)
(* a copy or a snapshot, and what its update makes of it.                  *)

Writing == {"locked", "copied", "ran"}

Controls(c) ==
  /\ pc[c] \in Writing => lock = c
  /\ pc[c] = "idle" <=> request[c] = None
  /\ pc[c] = "answered" <=> answer[c] # None

CopyIsCurrent(c) ==
  LET run == Computes(request[c].update, before[c])
  IN /\ pc[c] = "copied" => Scoped(c)
     /\ pc[c] \in {"copied", "ran"} /\ Scoped(c) =>
            before[c] = copy(request[c].update, request[c].graph, data)
     /\ pc[c] = "ran" /\ ~Scoped(c) => before[c] = data
     /\ pc[c] = "ran" =>
            /\ run.ok /\ after[c] = run.data
            /\ Scoped(c) => Escaped(run.data, request[c].graph) = {}

IInv == TypeOK /\ \A c \in Caller : Controls(c) /\ CopyIsCurrent(c)

LEMMA RequestTypes ==
  ASSUME TypeOK, NEW c \in Caller, request[c] # None
  PROVE  /\ request[c] \in Request
         /\ request[c].update \in Update
         /\ request[c].may_read \in BOOLEAN
         /\ Scoped(c) => request[c].graph \in Graph
<1>1. request[c] \in Request
  BY DEF TypeOK
<1>2. CASE request[c] \in [door : {"scoped"}, update : Update, graph : Graph,
                           may_read : BOOLEAN]
  BY <1>1, <1>2
<1>3. CASE request[c] \in [door : {"broad"}, update : Update, may_read : BOOLEAN]
  BY <1>1, <1>3 DEF Scoped
<1> QED
  BY <1>1, <1>2, <1>3 DEF Request

LEMMA SilencedRequest ==
  ASSUME NEW r \in Request, NEW unreadable \in SUBSET Graph
  PROVE  [r EXCEPT !.update = SilentOn(r.update, unreadable)] \in Request
<1>1. r.update \in Update
  BY DEF Request
<1>2. SilentOn(r.update, unreadable) \in Update
  BY <1>1, SilencedIsUpdate
<1> QED
  BY <1>2 DEF Request

LEMMA AnswerTypes ==
  ASSUME TypeOK, NEW c \in Caller, NEW told \in Answers, Answer(c, told),
         data' \in Dataset
  PROVE  TypeOK'
<1>1. lock' \in Caller \cup {None}
  BY DEF Answer, TypeOK
<1>2. pc' \in [Caller -> Steps]
  BY DEF Answer, TypeOK, Steps
<1>3. before' \in [Caller -> Dataset] /\ after' \in [Caller -> Dataset]
  BY EmptyIsADataset DEF Answer, TypeOK
<1>4. answer' \in [Caller -> Answers \cup {None}]
  BY DEF Answer, TypeOK
<1>5. request' \in [Caller -> Request \cup {None}]
  BY DEF Answer, TypeOK
<1> QED
  BY <1>1, <1>2, <1>3, <1>4, <1>5 DEF TypeOK

LEMMA RefuseTypes ==
  ASSUME TypeOK, NEW c \in Caller, NEW kind \in {"refused", "failed", "escaped"},
         Refuse(c, kind)
  PROVE  TypeOK'
<1>1. Told(kind, 0, 0) \in Answers
  BY DEF Told, Answers
<1>2. data' \in Dataset
  BY DEF Refuse, TypeOK
<1> QED
  BY <1>1, <1>2, AnswerTypes DEF Refuse

(* What the commit of either door makes of the dataset. *)
LEMMA ScopedCommit ==
  ASSUME IInv, NEW c \in Caller, pc[c] = "ran", Scoped(c)
  PROVE  LET r == request[c]
             whole == Computes(r.update, Whole(r.graph, data))
             new == Applied(before[c], after[c], r.graph, data)
         IN /\ r.update \in Update /\ r.graph \in Graph
            /\ new \in Dataset
            /\ whole.ok /\ Escaped(whole.data, r.graph) = {}
            /\ new = [quads |-> (data.quads \ Of(data, r.graph)) \cup whole.data.quads,
                      named |-> (data.named \ {r.graph}) \cup whole.data.named]
            /\ Added(before[c], after[c], data) = whole.data.quads \ Of(data, r.graph)
            /\ Removed(before[c], after[c]) = Of(data, r.graph) \ whole.data.quads
<1> DEFINE u == request[c].update
           g == request[c].graph
           b == copy(u, g, data)
           part == Computes(u, b)
           whole == Computes(u, Whole(g, data))
<1>1. request[c] # None
  BY DEF IInv, Controls
<1>2. u \in Update /\ g \in Graph
  BY <1>1, RequestTypes DEF IInv
<1>3. data \in Dataset
  BY DEF IInv, TypeOK
<1>4. /\ b \in Dataset /\ b.quads \subseteq Of(data, g) /\ b.named = data.named \cap {g}
  BY <1>2, <1>3, CopyIsADataset
<1>5. /\ before[c] = b /\ part.ok /\ after[c] = part.data
      /\ Escaped(part.data, g) = {}
  BY DEF IInv, CopyIsCurrent
<1>6. /\ part.ok = whole.ok
      /\ part.data \in Dataset /\ whole.data \in Dataset
      /\ whole.ok => /\ whole.data.named = part.data.named
                     /\ whole.data.quads = part.data.quads \cup (Of(data, g) \ b.quads)
                     /\ Escaped(whole.data, g) = Escaped(part.data, g)
  BY <1>2, <1>3, TheCopyStandsForTheGraph
<1> HIDE DEF u, g, b, part, whole
<1>7. whole.ok /\ Escaped(whole.data, g) = {}
  BY <1>5, <1>6
<1> DEFINE p == part.data
           w == whole.data
<1>8. /\ p \in Dataset /\ w \in Dataset
      /\ w.named = p.named /\ w.quads = p.quads \cup (Of(data, g) \ b.quads)
      /\ Escaped(p, g) = {}
  BY <1>5, <1>6, <1>7
<1> HIDE DEF p, w
<1>9. Applied(b, p, g, data) \in Dataset
  BY <1>2, <1>3, <1>4, <1>8, AppliedIsADataset
<1>10. /\ Applied(b, p, g, data) = [quads |-> (data.quads \ Of(data, g)) \cup w.quads,
                                   named |-> (data.named \ {g}) \cup w.named]
       /\ Added(b, p, data) = w.quads \ Of(data, g)
       /\ Removed(b, p) = Of(data, g) \ w.quads
  BY <1>2, <1>3, <1>4, <1>8, TheDifferenceReplacesTheGraph, SMTT(30)
<1>11. before[c] = b /\ after[c] = p
  BY <1>5 DEF p
<1> QED
  BY <1>2, <1>7, <1>9, <1>10, <1>11 DEF u, g, b, part, whole, p, w

LEMMA BroadCommit ==
  ASSUME IInv, NEW c \in Caller, pc[c] = "ran", ~Scoped(c), CommitInPlace(c),
         MayInsert(request[c].update, before[c].quads, after[c].quads)
  PROVE  /\ Computes(request[c].update, data).ok
         /\ data' = Computes(request[c].update, data).data
         /\ data' \in Dataset
         /\ \E kind \in {"applied", "uncounted"} : Answer(c, Told(kind, 0, 0))
<1> DEFINE run == Computes(request[c].update, data)
           b == before[c]
           a == after[c]
<1>1. before[c] = data /\ run.ok /\ after[c] = run.data
  BY DEF IInv, CopyIsCurrent
<1>2. request[c].update \in Update /\ data \in Dataset
  BY RequestTypes DEF IInv, TypeOK, Controls
<1>3. run.data \in Dataset
  BY <1>2, ComputesADataset
<1>4. /\ data' = [quads |-> (data.quads \ (b.quads \ a.quads)) \cup (a.quads \ b.quads),
                  named |-> (data.named \ (b.named \ a.named)) \cup (a.named \ b.named)]
      /\ \E kind \in {"applied", "uncounted"} : Answer(c, Told(kind, 0, 0))
  BY DEF CommitInPlace
<1>5. (data.quads \ (b.quads \ a.quads)) \cup (a.quads \ b.quads) = a.quads
  BY <1>1
<1>6. (data.named \ (b.named \ a.named)) \cup (a.named \ b.named) = a.named
  BY <1>1
<1>7. run.data = [quads |-> run.data.quads, named |-> run.data.named]
  BY <1>3, DatasetParts
<1> QED
  BY <1>1, <1>3, <1>4, <1>5, <1>6, <1>7

-----------------------------------------------------------------------------
(* The invariant is inductive *)

\* A step of one caller leaves the others' own state as it is.
Others(c) == \A q \in Caller \ {c} :
  /\ pc'[q] = pc[q] /\ request'[q] = request[q] /\ answer'[q] = answer[q]
  /\ before'[q] = before[q] /\ after'[q] = after[q]

\* Only the holder of the lock writes the dataset, or hands the lock on.
Orderly(c) == lock = c \/ (data' = data /\ (lock = None \/ lock' = lock))

LEMMA OthersStand ==
  ASSUME IInv, NEW c \in Caller, Others(c), Orderly(c), NEW q \in Caller \ {c}
  PROVE  Controls(q)' /\ CopyIsCurrent(q)'
<1>1. /\ pc'[q] = pc[q] /\ request'[q] = request[q] /\ answer'[q] = answer[q]
      /\ before'[q] = before[q] /\ after'[q] = after[q]
  BY DEF Others
<1>2. Controls(q) /\ CopyIsCurrent(q)
  BY DEF IInv
<1>3. Scoped(q)' <=> Scoped(q)
  BY <1>1 DEF Scoped
<1>4. CASE pc[q] \in Writing
  <2>1. lock = q /\ q # None
    BY <1>2, <1>4, NoneIsNothing DEF Controls
  <2>2. data' = data /\ lock' = lock
    BY <2>1 DEF Orderly
  <2> QED
    BY <1>1, <1>2, <1>3, <2>1, <2>2 DEF Controls, CopyIsCurrent
<1>5. CASE pc[q] \notin Writing
  BY <1>1, <1>2, <1>3, <1>5 DEF Controls, CopyIsCurrent, Writing
<1> QED
  BY <1>4, <1>5

\* An answer ends a request that was in progress, under the lock or before it.
LEMMA AnswerHolds ==
  ASSUME IInv, NEW c \in Caller, NEW told \in Answers, Answer(c, told),
         data' \in Dataset,
         pc[c] \in Writing \cup {"called"},
         pc[c] = "called" => data' = data
  PROVE  IInv'
<1>1. TypeOK'
  BY AnswerTypes DEF IInv
<1>2. Others(c)
  BY DEF Others, Answer, IInv, TypeOK
<1>3. Orderly(c)
  BY DEF Orderly, Answer, IInv, Controls, Writing
<1>4. pc'[c] = "answered" /\ answer'[c] = told /\ request'[c] = request[c]
  BY DEF Answer, IInv, TypeOK
<1>5. request[c] # None
  BY DEF IInv, Controls, Writing
<1>6. told # None
  BY NoneIsNothing
<1>7. Controls(c)' /\ CopyIsCurrent(c)'
  BY <1>4, <1>5, <1>6 DEF Controls, CopyIsCurrent, Writing
<1> QED
  BY <1>1, <1>2, <1>3, <1>7, OthersStand DEF IInv

LEMMA RefuseHolds ==
  ASSUME IInv, NEW c \in Caller, NEW kind \in {"refused", "failed", "escaped"},
         Refuse(c, kind), pc[c] \in Writing \cup {"called"}
  PROVE  IInv'
<1>1. Told(kind, 0, 0) \in Answers
  BY DEF Told, Answers
<1>2. data' = data /\ data' \in Dataset /\ Answer(c, Told(kind, 0, 0))
  BY DEF Refuse, IInv, TypeOK
<1> QED
  BY <1>1, <1>2, AnswerHolds

\* A commit of either door.
LEMMA ApplyHolds ==
  ASSUME IInv, NEW c \in Caller, NEW b \in Dataset, NEW a \in Dataset,
         pc[c] = "ran", data' \in Dataset,
         \/ Answer(c, Told("applied", CountAdded(b, a, data), Cardinality(Removed(b, a))))
         \/ \E kind \in {"applied", "uncounted"} : Answer(c, Told(kind, 0, 0))
  PROVE  IInv'
<1>1. \A kind \in {"applied", "uncounted"} : Told(kind, 0, 0) \in Answers
  BY DEF Told, Answers
<1>2. data \in Dataset /\ pc[c] \in Writing
  BY DEF IInv, TypeOK, Writing
<1> QED
  BY <1>1, <1>2, CountsAreNumbers, AnswerHolds

LEMMA InvariantHoldsInitially == Init => IInv
<1> SUFFICES ASSUME Init PROVE IInv
  OBVIOUS
<1>1. TypeOK
  BY EmptyIsADataset, InitialDatasets DEF Init, TypeOK, Steps
<1>2. \A c \in Caller : Controls(c) /\ CopyIsCurrent(c)
  BY DEF Init, Controls, CopyIsCurrent, Writing
<1> QED
  BY <1>1, <1>2 DEF IInv

LEMMA CallHolds ==
  ASSUME IInv, NEW c \in Caller, Call(c)
  PROVE  /\ IInv'
         /\ \E r \in Request : request' = [request EXCEPT ![c] = r]
<1>1. PICK r \in Request :
        LET unreadable == IF r.may_read THEN {}
                          ELSE IF r.door = "scoped" THEN {r.graph} ELSE Graph
        IN request' = [request EXCEPT ![c] =
                [r EXCEPT !.update = SilentOn(r.update, unreadable)]]
  BY DEF Call
<1> DEFINE unreadable == IF r.may_read THEN {}
                         ELSE IF r.door = "scoped" THEN {r.graph} ELSE Graph
           asked == [r EXCEPT !.update = SilentOn(r.update, unreadable)]
<1>2. unreadable \in SUBSET Graph
  <2>1. r.door = "scoped" => r.graph \in Graph
    BY DEF Request
  <2> QED
    BY <2>1
<1>3. asked \in Request /\ request' = [request EXCEPT ![c] = asked]
  <2> HIDE DEF unreadable
  <2>1. asked \in Request
    BY <1>2, SilencedRequest
  <2> QED
    BY <1>1, <2>1 DEF unreadable
<1> HIDE DEF asked, unreadable
<1>4. /\ pc[c] = "idle" /\ pc' = [pc EXCEPT ![c] = "called"]
      /\ UNCHANGED <<data, lock, before, after, answer>>
  BY DEF Call, GoTo
<1>5. TypeOK'
  BY <1>3, <1>4 DEF IInv, TypeOK, Steps
<1>6. Others(c) /\ Orderly(c)
  BY <1>3, <1>4 DEF Others, Orderly, IInv, TypeOK
<1>7. Controls(c)' /\ CopyIsCurrent(c)'
  BY <1>3, <1>4, NoneIsNothing DEF IInv, TypeOK, Controls, CopyIsCurrent, Writing
<1> QED
  BY <1>3, <1>5, <1>6, <1>7, OthersStand DEF IInv

LEMMA LeaveHolds ==
  ASSUME IInv, NEW c \in Caller, Leave(c) PROVE IInv'
<1>1. /\ pc[c] = "answered" /\ pc' = [pc EXCEPT ![c] = "idle"]
      /\ request' = [request EXCEPT ![c] = None]
      /\ answer' = [answer EXCEPT ![c] = None]
      /\ UNCHANGED <<data, lock, before, after>>
  BY DEF Leave, GoTo
<1>2. TypeOK'
  BY <1>1 DEF IInv, TypeOK, Steps
<1>3. Others(c) /\ Orderly(c)
  BY <1>1 DEF Others, Orderly, IInv, TypeOK
<1>4. Controls(c)' /\ CopyIsCurrent(c)'
  BY <1>1 DEF IInv, TypeOK, Controls, CopyIsCurrent, Writing
<1> QED
  BY <1>2, <1>3, <1>4, OthersStand DEF IInv

\* Of the steps of a request in progress, those that only go on to the next.
GoesOn(c, step) ==
  /\ GoTo(c, step)
  /\ UNCHANGED <<data, request, answer>>

LEMMA GoingOnHolds ==
  ASSUME IInv, NEW c \in Caller, NEW step \in Writing \cup {"parsed"},
         GoesOn(c, step), pc[c] \in {"called", "parsed", "locked", "copied"},
         Others(c), lock = None \/ lock' = lock,
         lock' \in Caller \cup {None},
         before' \in [Caller -> Dataset], after' \in [Caller -> Dataset],
         step \in Writing => lock' = c,
         CopyIsCurrent(c)'
  PROVE  IInv'
<1>1. /\ pc' = [pc EXCEPT ![c] = step] /\ data' = data
      /\ request' = request /\ answer' = answer
  BY DEF GoesOn, GoTo
<1>2. TypeOK'
  BY <1>1 DEF IInv, TypeOK, Steps, Writing
<1>3. Orderly(c)
  BY <1>1 DEF Orderly
<1>4. Controls(c)'
  BY <1>1 DEF IInv, TypeOK, Controls, Writing
<1> QED
  BY <1>2, <1>3, <1>4, OthersStand DEF IInv

LEMMA ParseHolds ==
  ASSUME IInv, NEW c \in Caller, Parse(c) PROVE IInv'
<1>1. CASE RefusedByText(request[c])
  BY <1>1, RefuseHolds DEF Parse, IInv
<1>2. CASE ~RefusedByText(request[c])
  <2>1. /\ GoesOn(c, "parsed") /\ pc[c] = "called"
        /\ UNCHANGED <<data, lock, request, before, after, answer>>
    BY <1>2 DEF Parse, GoesOn
  <2>2. Others(c) /\ CopyIsCurrent(c)'
    BY <2>1 DEF Others, GoesOn, GoTo, IInv, TypeOK, CopyIsCurrent
  <2> QED
    BY <2>1, <2>2, GoingOnHolds DEF IInv, TypeOK, Writing
<1> QED
  BY <1>1, <1>2

LEMMA LockHolds ==
  ASSUME IInv, NEW c \in Caller, Lock(c) PROVE IInv'
<1>1. /\ GoesOn(c, "locked") /\ pc[c] = "parsed" /\ lock = None /\ lock' = c
      /\ UNCHANGED <<data, request, before, after, answer>>
  BY DEF Lock, GoesOn
<1>2. Others(c) /\ CopyIsCurrent(c)'
  BY <1>1 DEF Others, GoesOn, GoTo, IInv, TypeOK, CopyIsCurrent
<1> QED
  BY <1>1, <1>2, GoingOnHolds DEF IInv, TypeOK, Writing

LEMMA CopyHolds ==
  ASSUME IInv, NEW c \in Caller, Copy(c) PROVE IInv'
<1> DEFINE r == request[c]
           copied == copy(r.update, r.graph, data)
<1>1. /\ pc[c] = "locked" /\ Scoped(c) /\ lock = c
  BY DEF Copy, IInv, Controls, Writing
<1>2. r.graph \in Graph /\ data \in Dataset
  BY <1>1, RequestTypes DEF IInv, TypeOK, Controls
<1>3. CASE Refuse(c, "refused")
  BY <1>1, <1>3, RefuseHolds DEF Writing
<1>4. CASE ~Refuse(c, "refused")
  <2>1. /\ GoesOn(c, "copied") /\ before' = [before EXCEPT ![c] = copied]
        /\ UNCHANGED <<data, lock, request, after, answer>>
    BY <1>4 DEF Copy, GoesOn
  <2>2. copied \in Dataset
    BY <1>2, CopyIsADataset
  <2> HIDE DEF copied
  <2>3. before' \in [Caller -> Dataset] /\ before'[c] = copied
    BY <2>1, <2>2 DEF IInv, TypeOK
  <2>4. Others(c)
    BY <2>1 DEF Others, GoesOn, GoTo, IInv, TypeOK
  <2>5. pc'[c] = "copied" /\ Scoped(c)'
    BY <1>1, <2>1 DEF GoesOn, GoTo, IInv, TypeOK, Scoped
  <2>6. CopyIsCurrent(c)'
    BY <2>1, <2>3, <2>5 DEF CopyIsCurrent, copied
  <2> QED
    BY <1>1, <2>1, <2>3, <2>4, <2>6, GoingOnHolds DEF IInv, TypeOK, Writing
<1> QED
  BY <1>3, <1>4

LEMMA RunOnCopyHolds ==
  ASSUME IInv, NEW c \in Caller, RunOnCopy(c) PROVE IInv'
<1> DEFINE r == request[c]
           run == Computes(r.update, before[c])
<1>1. pc[c] = "copied" /\ Scoped(c) /\ lock = c
  BY DEF RunOnCopy, IInv, Controls, Writing
<1>2. before[c] \in Dataset /\ r.update \in Update
  BY <1>1, RequestTypes DEF IInv, TypeOK, Controls
<1>3. CASE \E kind \in {"refused", "failed", "escaped"} : Refuse(c, kind)
  BY <1>1, <1>3, RefuseHolds DEF Writing
<1>4. CASE ~\E kind \in {"refused", "failed", "escaped"} : Refuse(c, kind)
  <2>1. /\ run.ok /\ Escaped(run.data, r.graph) = {}
        /\ GoesOn(c, "ran") /\ after' = [after EXCEPT ![c] = run.data]
        /\ UNCHANGED <<data, lock, request, before, answer>>
    BY <1>4 DEF RunOnCopy, GoesOn
  <2>2. run.data \in Dataset
    BY <1>2, ComputesADataset
  <2>3. before[c] = copy(r.update, r.graph, data)
    BY <1>1 DEF IInv, CopyIsCurrent
  <2> HIDE DEF run
  <2>4. after' \in [Caller -> Dataset] /\ after'[c] = run.data
    BY <2>1, <2>2 DEF IInv, TypeOK
  <2>5. Others(c)
    BY <2>1 DEF Others, GoesOn, GoTo, IInv, TypeOK
  <2>6. pc'[c] = "ran" /\ Scoped(c)'
    BY <1>1, <2>1 DEF GoesOn, GoTo, IInv, TypeOK, Scoped
  <2>7. CopyIsCurrent(c)'
    BY <2>1, <2>3, <2>4, <2>6 DEF CopyIsCurrent, run
  <2> QED
    BY <1>1, <2>1, <2>4, <2>5, <2>7, GoingOnHolds DEF IInv, TypeOK, Writing
<1> QED
  BY <1>3, <1>4

LEMMA RunInPlaceHolds ==
  ASSUME IInv, NEW c \in Caller, RunInPlace(c) PROVE IInv'
<1> DEFINE r == request[c]
           run == Computes(r.update, data)
<1>1. pc[c] = "locked" /\ ~Scoped(c) /\ lock = c
  BY DEF RunInPlace, IInv, Controls, Writing
<1>2. data \in Dataset /\ r.update \in Update
  BY <1>1, RequestTypes DEF IInv, TypeOK, Controls
<1>3. CASE ~run.ok
  BY <1>1, <1>3, RefuseHolds DEF RunInPlace, Writing
<1>4. CASE run.ok
  <2>1. /\ GoesOn(c, "ran")
        /\ before' = [before EXCEPT ![c] = data]
        /\ after' = [after EXCEPT ![c] = run.data]
        /\ UNCHANGED <<data, lock, request, answer>>
    BY <1>4 DEF RunInPlace, GoesOn
  <2>2. run.data \in Dataset
    BY <1>2, ComputesADataset
  <2> HIDE DEF run
  <2>3. /\ before' \in [Caller -> Dataset] /\ before'[c] = data
        /\ after' \in [Caller -> Dataset] /\ after'[c] = run.data
    BY <1>2, <2>1, <2>2 DEF IInv, TypeOK
  <2>4. Others(c)
    BY <2>1 DEF Others, GoesOn, GoTo, IInv, TypeOK
  <2>5. pc'[c] = "ran" /\ ~Scoped(c)'
    BY <1>1, <2>1 DEF GoesOn, GoTo, IInv, TypeOK, Scoped
  <2>6. CopyIsCurrent(c)'
    BY <1>4, <2>1, <2>3, <2>5 DEF CopyIsCurrent, run
  <2> QED
    BY <1>1, <2>1, <2>3, <2>4, <2>6, GoingOnHolds DEF IInv, TypeOK, Writing
<1> QED
  BY <1>3, <1>4

\* What the scoped commit needs of the invariant; nothing of SPARQL is among it.
LEMMA ReadyToApply ==
  ASSUME IInv, NEW c \in Caller, pc[c] = "ran", Scoped(c)
  PROVE  /\ request[c].graph \in Graph /\ data \in Dataset
         /\ before[c] \in Dataset /\ after[c] \in Dataset
         /\ before[c].quads \subseteq Of(data, request[c].graph)
         /\ before[c].named = data.named \cap {request[c].graph}
         /\ Escaped(after[c], request[c].graph) = {}
<1>1. /\ request[c].graph \in Graph /\ data \in Dataset
      /\ before[c] \in Dataset /\ after[c] \in Dataset
  BY RequestTypes DEF IInv, TypeOK, Controls
<1>2. /\ before[c] = copy(request[c].update, request[c].graph, data)
      /\ Escaped(after[c], request[c].graph) = {}
  BY DEF IInv, CopyIsCurrent
<1> QED
  BY <1>1, <1>2, CopyIsADataset

LEMMA ApplyDifferenceHolds ==
  ASSUME IInv, NEW c \in Caller, ApplyDifference(c) PROVE IInv'
<1>1. pc[c] = "ran" /\ Scoped(c)
  BY DEF ApplyDifference
<1>2. CASE Refuse(c, "refused")
  BY <1>1, <1>2, RefuseHolds DEF Writing
<1>3. CASE ~Refuse(c, "refused")
  <2>1. /\ data' = Applied(before[c], after[c], request[c].graph, data)
        /\ Answer(c, Told("applied", CountAdded(before[c], after[c], data),
                          Cardinality(Removed(before[c], after[c]))))
    BY <1>3 DEF ApplyDifference
  <2>2. data' \in Dataset
    BY <1>1, <2>1, ReadyToApply, AppliedIsADataset
  <2> QED
    BY <1>1, <2>1, <2>2, ReadyToApply, ApplyHolds
<1> QED
  BY <1>2, <1>3

LEMMA CommitInPlaceHolds ==
  ASSUME IInv, NEW c \in Caller, CommitInPlace(c) PROVE IInv'
<1>1. pc[c] = "ran" /\ ~Scoped(c)
  BY DEF CommitInPlace
<1>2. CASE MayInsert(request[c].update, before[c].quads, after[c].quads)
  <2>1. data' \in Dataset /\ \E kind \in {"applied", "uncounted"} : Answer(c, Told(kind, 0, 0))
    BY <1>1, <1>2, BroadCommit
  <2> QED
    BY <1>1, <2>1, ApplyHolds, EmptyIsADataset
<1>3. CASE ~MayInsert(request[c].update, before[c].quads, after[c].quads)
  <2>1. Refuse(c, "refused")
    BY <1>3 DEF CommitInPlace
  <2> QED
    BY <1>1, <2>1, RefuseHolds DEF Writing
<1> QED
  BY <1>2, <1>3

LEMMA StepHolds ==
  ASSUME IInv, [Next]_vars PROVE IInv'
<1>1. ASSUME NEW c \in Caller, TimeOut(c) PROVE IInv'
  BY <1>1, RefuseHolds DEF TimeOut, Writing
<1>2. CASE UNCHANGED vars
  BY <1>2 DEF vars, IInv, TypeOK, Controls, CopyIsCurrent, Scoped
<1> QED
  BY <1>1, <1>2, CallHolds, ParseHolds, LockHolds, CopyHolds, RunOnCopyHolds,
     ApplyDifferenceHolds, RunInPlaceHolds, CommitInPlaceHolds, LeaveHolds DEF Next

LEMMA InvariantHolds == Spec => []IInv
BY InvariantHoldsInitially, StepHolds, PTL DEF Spec

-----------------------------------------------------------------------------
(* The theorems *)

\* Every dataset on the way is one a store may hold, and a caller is told numbers.
THEOREM TypesAreCorrect == Spec => []TypeOK
<1>1. IInv => TypeOK
  BY DEF IInv
<1> QED
  BY <1>1, InvariantHolds, PTL

\* The difference of a copy, where nothing left the graph, lies in the graph.
LEMMA TheDifferenceStaysInItsGraph ==
  ASSUME NEW d \in Dataset, NEW b \in Dataset, NEW a \in Dataset, NEW g \in Graph,
         b.quads \subseteq Of(d, g), Escaped(a, g) = {},
         NEW other \in Graph \cup {DefaultGraph}, other # g
  PROVE  LET new == Applied(b, a, g, d)
         IN /\ Of(new, other) = Of(d, other)
            /\ other \in new.named <=> other \in d.named
<1> DEFINE quads == (d.quads \ Removed(b, a)) \cup Added(b, a, d)
           new == Applied(b, a, g, d)
<1>1. \A q \in Removed(b, a) \cup Added(b, a, d) : q[1] = g
  BY StaysIn DEF Removed, Added, Of
<1>2. \A q : q[1] = other => (q \in quads <=> q \in d.quads)
  BY <1>1 DEF Added
<1>3. a.named \subseteq {g}
  BY StaysIn
<1> HIDE DEF quads
<1>4. CASE g \in b.named /\ g \notin a.named
  <2>1. new = [quads |-> {q \in quads : q[1] # g}, named |-> d.named \ {g}]
    BY <1>4 DEF Applied, quads
  <2> HIDE DEF new
  <2> QED
    BY <1>2, <2>1 DEF Of, new
<1>5. CASE ~(g \in b.named /\ g \notin a.named)
  <2>1. new = [quads |-> quads, named |-> d.named \cup a.named]
    BY <1>5 DEF Applied, quads
  <2> HIDE DEF new
  <2> QED
    BY <1>2, <1>3, <2>1 DEF Of, new
<1> QED
  BY <1>4, <1>5

LEMMA AnAnswerIsTold ==
  ASSUME IInv, NEW c \in Caller, NEW told \in Answers, Answer(c, told)
  PROVE  pc'[c] = "answered" /\ answer'[c] = told
BY DEF Answer, IInv, TypeOK

LEMMA OnlyACommitWrites ==
  ASSUME IInv, [Next]_vars, data' # data
  PROVE  \E c \in Caller :
            /\ pc[c] = "ran" /\ pc'[c] = "answered"
            /\ answer'[c].kind \in {"applied", "uncounted"}
            /\ Scoped(c) =>
                 data' = Applied(before[c], after[c], request[c].graph, data)
<1>1. PICK c \in Caller : ApplyDifference(c) \/ CommitInPlace(c)
  BY DEF Next, vars, Call, Parse, Lock, Copy, RunOnCopy, RunInPlace, TimeOut, Leave, Refuse
<1>2. pc[c] = "ran" /\ before[c] \in Dataset /\ after[c] \in Dataset /\ data \in Dataset
  BY <1>1 DEF ApplyDifference, CommitInPlace, IInv, TypeOK
<1>3. CASE ApplyDifference(c)
  <2>1. /\ data' = Applied(before[c], after[c], request[c].graph, data)
        /\ Answer(c, Told("applied", CountAdded(before[c], after[c], data),
                          Cardinality(Removed(before[c], after[c]))))
    BY <1>3 DEF ApplyDifference, Refuse
  <2>2. pc'[c] = "answered" /\ answer'[c] =
          Told("applied", CountAdded(before[c], after[c], data),
               Cardinality(Removed(before[c], after[c])))
    BY <1>2, <2>1, CountsAreNumbers, AnAnswerIsTold
  <2>3. answer'[c].kind = "applied"
    BY <2>2 DEF Told
  <2> QED
    BY <1>2, <2>1, <2>2, <2>3
<1>4. CASE CommitInPlace(c)
  <2>1. ~Scoped(c)
    BY <1>4 DEF CommitInPlace
  <2>2. PICK kind \in {"applied", "uncounted"} : Answer(c, Told(kind, 0, 0))
    BY <1>4 DEF CommitInPlace, Refuse
  <2>3. Told(kind, 0, 0) \in Answers
    BY DEF Told, Answers
  <2>4. pc'[c] = "answered" /\ answer'[c] = Told(kind, 0, 0)
    BY <2>2, <2>3, AnAnswerIsTold
  <2>5. answer'[c].kind \in {"applied", "uncounted"}
    BY <2>4 DEF Told
  <2> QED
    BY <1>2, <2>1, <2>4, <2>5
<1> QED
  BY <1>1, <1>3, <1>4

\* A grant over one graph changes that graph alone, whatever the update computes:
\* the proof does not use FootprintSuffices.
THEOREM OneGraphIsChanged == Spec => OnlyTheGrantedGraph
<1> DEFINE Step == \A g \in Graph \cup {DefaultGraph} : Changed(g) =>
              \E c \in Caller : /\ pc[c] = "ran" /\ pc'[c] = "answered"
                                /\ answer'[c].kind \in {"applied", "uncounted"}
                                /\ Scoped(c) => request[c].graph = g
<1>1. IInv /\ [Next]_vars => Step
  <2> SUFFICES ASSUME IInv, [Next]_vars,
                      NEW g \in Graph \cup {DefaultGraph}, Changed(g)
               PROVE  \E c \in Caller :
                        /\ pc[c] = "ran" /\ pc'[c] = "answered"
                        /\ answer'[c].kind \in {"applied", "uncounted"}
                        /\ Scoped(c) => request[c].graph = g
    OBVIOUS
  <2>1. data' # data
    BY DEF Changed, Of
  <2>2. PICK c \in Caller :
          /\ pc[c] = "ran" /\ pc'[c] = "answered"
          /\ answer'[c].kind \in {"applied", "uncounted"}
          /\ Scoped(c) => data' = Applied(before[c], after[c], request[c].graph, data)
    BY <2>1, OnlyACommitWrites
  <2>3. Scoped(c) => request[c].graph = g
    <3> SUFFICES ASSUME Scoped(c), request[c].graph # g PROVE FALSE
      OBVIOUS
    <3> DEFINE own == request[c].graph
               new == Applied(before[c], after[c], own, data)
    <3>1. /\ own \in Graph /\ data \in Dataset
          /\ before[c] \in Dataset /\ after[c] \in Dataset
          /\ before[c].quads \subseteq Of(data, own) /\ Escaped(after[c], own) = {}
      BY <2>2, ReadyToApply
    <3>2. data' = new
      BY <2>2
    <3>3. Of(new, g) = Of(data, g) /\ (g \in new.named <=> g \in data.named)
      <4> HIDE DEF own
      <4> QED
        BY <3>1, TheDifferenceStaysInItsGraph DEF own
    <3> QED
      BY <3>2, <3>3 DEF Changed, Of
  <2> QED
    BY <2>2, <2>3
<1>2. IInv /\ [Next]_vars => [Step]_vars
  BY <1>1
<1> QED
  BY <1>2, InvariantHolds, PTL DEF Spec, OnlyTheGrantedGraph

-----------------------------------------------------------------------------
(* The doors implement the atomic update *)

LEMMA AtomicCardinality == \A S : Atomic!Cardinality(S) = Cardinality(S)
BY Zenon DEF Atomic!Cardinality, Cardinality

LEMMA AtomicOutcome ==
  ASSUME NEW r
  PROVE  Atomic!Outcome(r) =
            Computes(r.update, IF r.door = "scoped" THEN Whole(r.graph, data) ELSE data)
BY DEF Atomic!Outcome, Atomic!Seen, Atomic!Of, Whole, Alone, Of

LEMMA InProgressIsPending ==
  ASSUME IInv, NEW c \in Caller, pc[c] \in Writing \cup {"called"}
  PROVE  Atomic!Pending(c)
BY DEF IInv, Controls, Writing, Atomic!Pending

LEMMA RefuseImplements ==
  ASSUME IInv, NEW c \in Caller, NEW kind \in {"refused", "failed", "escaped"},
         Refuse(c, kind), pc[c] \in Writing \cup {"called"},
         kind = "failed" => ~Atomic!Outcome(request[c]).ok,
         kind = "escaped" =>
            /\ Scoped(c)
            /\ Escaped(Atomic!Outcome(request[c]).data, request[c].graph) # {}
  PROVE  Atomic!Refuse(c)
<1>1. /\ answer' = [answer EXCEPT ![c] = Told(kind, 0, 0)]
      /\ UNCHANGED <<data, request>>
  BY DEF Refuse, Answer
<1>2. Atomic!Told(kind, 0, 0) = Told(kind, 0, 0)
  BY DEF Atomic!Told, Told
<1>3. Atomic!Pending(c)
  BY InProgressIsPending
<1>4. kind = "escaped" =>
        /\ request[c].door = "scoped"
        /\ Atomic!Escaped(Atomic!Outcome(request[c]).data, request[c].graph) # {}
  BY DEF Scoped, Atomic!Escaped, Escaped
<1> QED
  BY <1>1, <1>2, <1>3, <1>4 DEF Atomic!Refuse

LEMMA ParseImplements ==
  ASSUME IInv, NEW c \in Caller, Parse(c)
  PROVE  Atomic!Refuse(c) \/ UNCHANGED <<data, request, answer>>
<1>1. CASE RefusedByText(request[c])
  <2>1. Refuse(c, "refused") /\ pc[c] = "called"
    BY <1>1 DEF Parse
  <2> QED
    BY <2>1, RefuseImplements
<1>2. CASE ~RefusedByText(request[c])
  BY <1>2 DEF Parse
<1> QED
  BY <1>1, <1>2

LEMMA CopyImplements ==
  ASSUME IInv, NEW c \in Caller, Copy(c)
  PROVE  Atomic!Refuse(c) \/ UNCHANGED <<data, request, answer>>
<1>1. pc[c] \in Writing
  BY DEF Copy, Writing
<1>2. Refuse(c, "refused") \/ UNCHANGED <<data, request, answer>>
  BY DEF Copy
<1> QED
  BY <1>1, <1>2, RefuseImplements

LEMMA RunOnCopyImplements ==
  ASSUME IInv, NEW c \in Caller, RunOnCopy(c)
  PROVE  Atomic!Refuse(c) \/ UNCHANGED <<data, request, answer>>
<1> DEFINE u == request[c].update
           g == request[c].graph
           run == Computes(u, before[c])
           whole == Computes(u, Whole(g, data))
<1>1. pc[c] = "copied" /\ Scoped(c)
  BY DEF RunOnCopy
<1>2. u \in Update /\ g \in Graph /\ data \in Dataset
  BY <1>1, RequestTypes DEF IInv, TypeOK, Controls
<1>3. before[c] = copy(u, g, data)
  BY <1>1 DEF IInv, CopyIsCurrent
<1>4. run.ok = whole.ok /\ (whole.ok => Escaped(whole.data, g) = Escaped(run.data, g))
  BY <1>2, <1>3, TheCopyStandsForTheGraph
<1>5. Atomic!Outcome(request[c]) = whole
  BY <1>1, AtomicOutcome DEF Scoped
<1>6. CASE ~run.ok /\ Refuse(c, "failed")
  <2>1. ~Atomic!Outcome(request[c]).ok
    BY <1>4, <1>5, <1>6
  <2> QED
    BY <1>1, <1>6, <2>1, RefuseImplements DEF Writing
<1>7. CASE run.ok /\ Escaped(run.data, g) # {} /\ Refuse(c, "escaped")
  <2>1. Escaped(Atomic!Outcome(request[c]).data, g) # {}
    BY <1>4, <1>5, <1>7
  <2> QED
    BY <1>1, <1>7, <2>1, RefuseImplements DEF Writing
<1>8. CASE UNCHANGED <<data, request, answer>>
  BY <1>8
<1> QED
  BY <1>6, <1>7, <1>8 DEF RunOnCopy

LEMMA RunInPlaceImplements ==
  ASSUME IInv, NEW c \in Caller, RunInPlace(c)
  PROVE  Atomic!Refuse(c) \/ UNCHANGED <<data, request, answer>>
<1>1. pc[c] = "locked" /\ ~Scoped(c)
  BY DEF RunInPlace
<1>2. Atomic!Outcome(request[c]) = Computes(request[c].update, data)
  BY <1>1, AtomicOutcome DEF Scoped
<1>3. CASE ~Computes(request[c].update, data).ok
  <2>1. Refuse(c, "failed")
    BY <1>3 DEF RunInPlace
  <2>2. ~Atomic!Outcome(request[c]).ok
    BY <1>2, <1>3
  <2> QED
    BY <1>1, <2>1, <2>2, RefuseImplements DEF Writing
<1>4. CASE Computes(request[c].update, data).ok
  BY <1>4 DEF RunInPlace
<1> QED
  BY <1>3, <1>4

LEMMA ApplyDifferenceImplements ==
  ASSUME IInv, NEW c \in Caller, ApplyDifference(c)
  PROVE  Atomic!Refuse(c) \/ Atomic!ApplyScoped(c)
<1> DEFINE r == request[c]
           g == r.graph
           whole == Computes(r.update, Whole(g, data))
           told == Told("applied", CountAdded(before[c], after[c], data),
                        Cardinality(Removed(before[c], after[c])))
<1>1. pc[c] = "ran" /\ Scoped(c)
  BY DEF ApplyDifference
<1>2. CASE Refuse(c, "refused")
  BY <1>1, <1>2, RefuseImplements DEF Writing
<1>3. CASE ~Refuse(c, "refused")
  <2>1. data' = Applied(before[c], after[c], g, data) /\ Answer(c, told)
    BY <1>3 DEF ApplyDifference
  <2>2. /\ whole.ok /\ Escaped(whole.data, g) = {}
        /\ data' = [quads |-> (data.quads \ Of(data, g)) \cup whole.data.quads,
                    named |-> (data.named \ {g}) \cup whole.data.named]
        /\ Added(before[c], after[c], data) = whole.data.quads \ Of(data, g)
        /\ Removed(before[c], after[c]) = Of(data, g) \ whole.data.quads
    BY <1>1, <2>1, ScopedCommit
  <2>3. Atomic!Outcome(r) = whole
    BY <1>1, AtomicOutcome DEF Scoped
  <2> HIDE DEF whole
  <2>4. Atomic!Pending(c) /\ r.door = "scoped"
    BY <1>1, InProgressIsPending DEF Writing, Scoped
  <2>5. Atomic!Outcome(r).ok /\ Atomic!Escaped(Atomic!Outcome(r).data, g) = {}
    BY <2>2, <2>3 DEF Atomic!Escaped, Escaped
  <2>6. Atomic!Of(g) = Of(data, g)
    BY DEF Atomic!Of, Of
  <2>7. told = Atomic!Told("applied",
                 Atomic!Cardinality(whole.data.quads \ Atomic!Of(g)),
                 Atomic!Cardinality(Atomic!Of(g) \ whole.data.quads))
    BY <2>2, <2>6, AtomicCardinality DEF Atomic!Told, Told, CountAdded
  <2>8. answer' = [answer EXCEPT ![c] = told] /\ UNCHANGED request
    BY <2>1 DEF Answer
  <2> HIDE DEF told, r
  <2> QED
    BY <2>2, <2>3, <2>4, <2>5, <2>6, <2>7, <2>8 DEF Atomic!ApplyScoped, r
<1> QED
  BY <1>2, <1>3

LEMMA CommitInPlaceImplements ==
  ASSUME IInv, NEW c \in Caller, CommitInPlace(c)
  PROVE  Atomic!Refuse(c) \/ Atomic!ApplyBroad(c)
<1> DEFINE run == Computes(request[c].update, data)
<1>1. pc[c] = "ran" /\ ~Scoped(c)
  BY DEF CommitInPlace
<1>2. CASE ~MayInsert(request[c].update, before[c].quads, after[c].quads)
  <2>1. Refuse(c, "refused")
    BY <1>2 DEF CommitInPlace
  <2> QED
    BY <1>1, <2>1, RefuseImplements DEF Writing
<1>3. CASE MayInsert(request[c].update, before[c].quads, after[c].quads)
  <2>1. run.ok /\ data' = run.data
    BY <1>1, <1>3, BroadCommit
  <2> PICK kind \in {"applied", "uncounted"} : Answer(c, Told(kind, 0, 0))
    BY <1>1, <1>3, BroadCommit
  <2>2. Atomic!Outcome(request[c]) = run
    BY <1>1, AtomicOutcome DEF Scoped
  <2>3. request[c] \in Request
    BY <1>1, RequestTypes DEF IInv, Controls
  <2>4. request[c].door = "broad"
    BY <1>1, <2>3 DEF Request, Scoped
  <2>5. Atomic!Pending(c)
    BY <1>1, InProgressIsPending DEF Writing
  <2>6. /\ answer' = [answer EXCEPT ![c] = Atomic!Told(kind, 0, 0)]
        /\ UNCHANGED request
    BY DEF Answer, Atomic!Told, Told
  <2> QED
    BY <2>1, <2>2, <2>4, <2>5, <2>6 DEF Atomic!ApplyBroad
<1> QED
  BY <1>2, <1>3

LEMMA StepImplements ==
  ASSUME IInv, [Next]_vars
  PROVE  [Atomic!Next]_<<data, request, answer>>
<1>1. ASSUME NEW c \in Caller, Call(c) PROVE Atomic!Ask(c)
  <2>1. request[c] = None
    BY <1>1 DEF Call, IInv, Controls
  <2>2. \E r \in Request : request' = [request EXCEPT ![c] = r]
    BY <1>1, CallHolds
  <2>3. UNCHANGED <<data, answer>>
    BY <1>1 DEF Call
  <2> QED
    BY <2>1, <2>2, <2>3 DEF Atomic!Ask
<1>2. ASSUME NEW c \in Caller, Lock(c) PROVE UNCHANGED <<data, request, answer>>
  BY <1>2 DEF Lock
<1>3. ASSUME NEW c \in Caller, TimeOut(c) PROVE Atomic!Refuse(c)
  <2>1. Refuse(c, "refused") /\ pc[c] \in Writing
    BY <1>3 DEF TimeOut, Writing
  <2> QED
    BY <2>1, RefuseImplements
<1>4. ASSUME NEW c \in Caller, Leave(c) PROVE Atomic!Leave(c)
  <2>1. answer[c] # None
    BY <1>4 DEF Leave, IInv, Controls
  <2>2. /\ request' = [request EXCEPT ![c] = None]
        /\ answer' = [answer EXCEPT ![c] = None]
        /\ UNCHANGED data
    BY <1>4 DEF Leave
  <2> QED
    BY <2>1, <2>2 DEF Atomic!Leave
<1>5. CASE UNCHANGED vars
  BY <1>5 DEF vars
<1>6. CASE Next
  <2>1. PICK c \in Caller :
          \/ Call(c) \/ Parse(c) \/ Lock(c)
          \/ Copy(c) \/ RunOnCopy(c) \/ ApplyDifference(c)
          \/ RunInPlace(c) \/ CommitInPlace(c)
          \/ TimeOut(c) \/ Leave(c)
    BY <1>6 DEF Next
  <2>2. \/ Atomic!Ask(c) \/ Atomic!ApplyScoped(c) \/ Atomic!ApplyBroad(c)
        \/ Atomic!Refuse(c) \/ Atomic!Leave(c)
        \/ UNCHANGED <<data, request, answer>>
    BY <1>1, <1>2, <1>3, <1>4, <2>1, ParseImplements, CopyImplements,
       RunOnCopyImplements, RunInPlaceImplements, ApplyDifferenceImplements,
       CommitInPlaceImplements
  <2> QED
    BY <2>2 DEF Atomic!Next
<1> QED
  BY <1>5, <1>6

\* The copy, the difference and the lock do what an update done at once would do,
\* and the caller is told of it truly. This one rests on FootprintSuffices.
THEOREM TheDoorsAreAtomic == Spec => ImplementsAtomicUpdate
<1>1. Init => Atomic!Init
  BY DEF Init, Atomic!Init
<1>2. IInv /\ [Next]_vars => [Atomic!Next]_(Atomic!vars)
  BY StepImplements DEF Atomic!vars
<1> QED
  BY <1>1, <1>2, InvariantHolds, PTL DEF Spec, ImplementsAtomicUpdate, Atomic!Spec
=============================================================================
