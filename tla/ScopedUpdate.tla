----------------------------- MODULE ScopedUpdate -----------------------------
(***************************************************************************)
(* The two update doors over one dataset, as the code runs them: the text  *)
(* is looked at first, then the write lock is taken, then the scoped door  *)
(* copies what the update observes of its graph, runs it on the copy,      *)
(* looks for what left the graph and commits the difference; the broad     *)
(* door runs it in a transaction and commits that. The caller's time may   *)
(* run out at every step before the commit.                                *)
(*                                                                         *)
(* What an update computes, observes and names is given by constants, with *)
(* what is assumed of them stated below.                                   *)
(***************************************************************************)
EXTENDS Confine

CONSTANTS
    Caller, None,
    Graph, DefaultGraph, Triple,
    Update,
    Initial,                        \* the datasets the store may hold at first
    MaxCopy,                        \* how many quads a copy may have
    Reads(_),                       \* the update has a WHERE
    ReadsOutside(_, _),             \* and names a graph other than this to read
    Computes(_, _),                 \* [ok, data]: what an update makes of a dataset
    Observes(_, _),                 \* of a set of triples, what an update can observe
    Deep(_),                        \* a triple whose object nests past the bound
    SilentOn(_, _),                 \* the update, SILENT where it names these graphs
    MayInsert(_, _, _)              \* the broad door's check for terms too deep

Quad == (Graph \cup {DefaultGraph}) \X Triple

\* What a store may hold: finitely many quads, their graphs registered.
Dataset == {d \in [quads : SUBSET Quad, named : SUBSET Graph] :
                /\ IsFiniteSet(d.quads)
                /\ \A q \in d.quads : q[1] # DefaultGraph => q[1] \in d.named}

Request ==
    [door : {"scoped"}, update : Update, graph : Graph, may_read : BOOLEAN]
        \cup [door : {"broad"}, update : Update, may_read : BOOLEAN]

\* What a caller is told: the kind of answer, and the quads gained and lost.
Answers == [kind : {"applied", "uncounted", "refused", "failed", "escaped"},
            added : Nat, removed : Nat]

\* The constants are what they are used as, and oxigraph keeps a dataset a dataset.
ASSUME NoneIsNothing == None \notin Request /\ None \notin Caller /\ None \notin Answers
ASSUME DefaultIsNoGraph == DefaultGraph \notin Graph
ASSUME InitialDatasets == Initial \subseteq Dataset
ASSUME SilencedIsUpdate ==
    \A u \in Update, unreadable \in SUBSET Graph :
        SilentOn(u, unreadable) \in Update
ASSUME ComputesADataset ==
    \A u \in Update, d \in Dataset :
        Computes(u, d) \in [ok : BOOLEAN, data : Dataset]

\* What is copied for an update.
copy(u, graph, d) == Copied(Observes(u, {q[2] : q \in Of(d, graph)}), graph, d)

\* An update computes on its footprint what it computes on the whole graph.
Faithful(u, graph, d) ==
    StandsFor(Computes(u, copy(u, graph, d)), Computes(u, Alone(Of(d, graph), graph, d)),
              Of(d, graph) \ copy(u, graph, d).quads)

\* The footprint is enough. It is a claim about SPARQL, not about this machine, and is
\* checked and proved of each update, but for those that list the name of a GRAPH (Doors,
\* FootprintIsFaithful): none of those is among these.
ASSUME FootprintSuffices ==
    \A u \in Update, g \in Graph, d \in Dataset : Faithful(u, g, d)

VARIABLES
    data,       \* the dataset
    lock,       \* the caller that holds the write lock, or None
    pc,         \* of each caller, the step it is at
    request,    \* what it asked for
    before,     \* the copy it made, or the snapshot of its transaction
    after,      \* what its update left of that
    answer      \* what it was told

vars == <<data, lock, pc, request, before, after, answer>>

Empty == [quads |-> {}, named |-> {}]
Told(kind, added, removed) == [kind |-> kind, added |-> added, removed |-> removed]

Init ==
    /\ data \in Initial
    /\ lock = None
    /\ pc = [c \in Caller |-> "idle"]
    /\ request = [c \in Caller |-> None]
    /\ before = [c \in Caller |-> Empty]
    /\ after = [c \in Caller |-> Empty]
    /\ answer = [c \in Caller |-> None]

\* The end of a request, refused or applied: what it held is dropped, the lock too.
Answer(c, told) ==
    /\ answer' = [answer EXCEPT ![c] = told]
    /\ pc' = [pc EXCEPT ![c] = "answered"]
    /\ before' = [before EXCEPT ![c] = Empty]
    /\ after' = [after EXCEPT ![c] = Empty]
    /\ lock' = IF lock = c THEN None ELSE lock
    /\ UNCHANGED request

Refuse(c, kind) == Answer(c, Told(kind, 0, 0)) /\ UNCHANGED data

GoTo(c, step) == pc' = [pc EXCEPT ![c] = step]

-----------------------------------------------------------------------------
(* Before the lock *)

\* An update arrives. DROP, CLEAR and CREATE of what its caller may not read are
\* SILENT: the scoped door's graph, or every graph at the broad door.
Call(c) ==
    /\ pc[c] = "idle"
    /\ \E r \in Request :
        LET unreadable == IF r.may_read THEN {}
                          ELSE IF r.door = "scoped" THEN {r.graph} ELSE Graph
        IN request' = [request EXCEPT ![c] =
                [r EXCEPT !.update = SilentOn(r.update, unreadable)]]
    /\ GoTo(c, "called")
    /\ UNCHANGED <<data, lock, before, after, answer>>

RefusedByText(r) ==
    \/ Reads(r.update) /\ ~r.may_read
    \/ r.door = "scoped" /\ ReadsOutside(r.update, r.graph)

\* The read grant, then the graphs it names: decided on the text alone.
Parse(c) ==
    /\ pc[c] = "called"
    /\ IF RefusedByText(request[c]) THEN Refuse(c, "refused")
       ELSE GoTo(c, "parsed") /\ UNCHANGED <<data, lock, request, before, after, answer>>

\* Mistaken: nobody else's hold of the lock is waited for.
LockInPassing(c) ==
    /\ pc[c] = "parsed"
    /\ lock' = c
    /\ GoTo(c, "locked")
    /\ UNCHANGED <<data, request, before, after, answer>>

Lock(c) ==
    /\ pc[c] = "parsed"
    /\ lock = None
    /\ lock' = c
    /\ GoTo(c, "locked")
    /\ UNCHANGED <<data, request, before, after, answer>>

-----------------------------------------------------------------------------
(* The scoped door *)

Scoped(c) == request[c].door = "scoped"

\* The copy is refused past the bound, for a caller who may read the graph.
Copy(c) ==
    LET r == request[c]
        copied == copy(r.update, r.graph, data)
    IN /\ pc[c] = "locked" /\ Scoped(c)
       /\ IF r.may_read /\ Cardinality(copied.quads) > MaxCopy
          THEN Refuse(c, "refused")
          ELSE /\ before' = [before EXCEPT ![c] = copied]
               /\ GoTo(c, "copied")
               /\ UNCHANGED <<data, lock, request, after, answer>>

\* The update runs on the copy, and nothing of it may lie outside the graph.
RunOnCopy(c) ==
    LET r == request[c]
        run == Computes(r.update, before[c])
    IN /\ pc[c] = "copied" /\ Scoped(c)
       /\ \/ ~run.ok /\ Refuse(c, "failed")
          \/ run.ok /\ Escaped(run.data, r.graph) # {} /\ Refuse(c, "escaped")
          \/ /\ run.ok /\ Escaped(run.data, r.graph) = {}
             /\ after' = [after EXCEPT ![c] = run.data]
             /\ GoTo(c, "ran")
             /\ UNCHANGED <<data, lock, request, before, answer>>

\* Mistaken: the quads gained are counted as what the copy grew by.
CountGrowth(b, a, d) == Cardinality(a.quads) - Cardinality(b.quads)

CountAdded(b, a, d) == Cardinality(Added(b, a, d))

\* The difference is committed in one transaction, unless it nests too deep.
ApplyDifference(c) ==
    LET g == request[c].graph
    IN /\ pc[c] = "ran" /\ Scoped(c)
       /\ IF \E q \in Added(before[c], after[c], data) : Deep(q[2])
          THEN Refuse(c, "refused")
          ELSE /\ data' = Applied(before[c], after[c], g, data)
               /\ Answer(c, Told("applied", CountAdded(before[c], after[c], data),
                                 Cardinality(Removed(before[c], after[c]))))

-----------------------------------------------------------------------------
(* The broad door *)

\* The update runs in a transaction, on the dataset as it is when that begins.
RunInPlace(c) ==
    LET run == Computes(request[c].update, data)
    IN /\ pc[c] = "locked" /\ ~Scoped(c)
       /\ IF run.ok
          THEN /\ before' = [before EXCEPT ![c] = data]
               /\ after' = [after EXCEPT ![c] = run.data]
               /\ GoTo(c, "ran")
               /\ UNCHANGED <<data, lock, request, answer>>
          ELSE Refuse(c, "failed")

\* The transaction's own writes are committed, and then the dataset is counted for the
\* answer: if that fails the caller hears its error, and the update is applied.
CommitInPlace(c) ==
    LET b == before[c]
        a == after[c]
        Written(was, is, now) == (now \ (was \ is)) \cup (is \ was)
    IN /\ pc[c] = "ran" /\ ~Scoped(c)
       /\ IF MayInsert(request[c].update, b.quads, a.quads)
          THEN /\ data' = [quads |-> Written(b.quads, a.quads, data.quads),
                           named |-> Written(b.named, a.named, data.named)]
               /\ \E kind \in {"applied", "uncounted"} : Answer(c, Told(kind, 0, 0))
          ELSE Refuse(c, "refused")

-----------------------------------------------------------------------------

\* The caller's time runs out: between the quads of a copy, in an evaluation, or at
\* the commit, which then does not happen. What the storage fails at before then, a
\* count or the commit itself, ends alike.
TimeOut(c) ==
    /\ pc[c] \in {"locked", "copied", "ran"}
    /\ Refuse(c, "refused")

\* The caller leaves with its answer.
Leave(c) ==
    /\ pc[c] = "answered"
    /\ GoTo(c, "idle")
    /\ request' = [request EXCEPT ![c] = None]
    /\ answer' = [answer EXCEPT ![c] = None]
    /\ UNCHANGED <<data, lock, before, after>>

Next == \E c \in Caller :
    \/ Call(c) \/ Parse(c) \/ Lock(c)
    \/ Copy(c) \/ RunOnCopy(c) \/ ApplyDifference(c)
    \/ RunInPlace(c) \/ CommitInPlace(c)
    \/ TimeOut(c) \/ Leave(c)

Spec == Init /\ [][Next]_vars

-----------------------------------------------------------------------------
(* Properties *)

Steps == {"idle", "called", "parsed", "locked", "copied", "ran", "answered"}

\* The types; the counts a caller is told are numbers of quads.
TypeOK ==
    /\ data \in Dataset
    /\ lock \in Caller \cup {None}
    /\ pc \in [Caller -> Steps]
    /\ request \in [Caller -> Request \cup {None}]
    /\ before \in [Caller -> Dataset]
    /\ after \in [Caller -> Dataset]
    /\ answer \in [Caller -> Answers \cup {None}]

\* A grant over one graph is a grant over one graph: every quad and every
\* registration that a step changes is in the graph of a scoped request that this
\* step applied, or was written by a broad one. Nothing an update says, and no
\* other request between its copy and its commit, makes it otherwise.
Changed(g) ==
    \/ Of(data, g) # Of(data, g)'
    \/ (g \in data.named) # (g \in data.named)'
OnlyTheGrantedGraph ==
    [][\A g \in Graph \cup {DefaultGraph} : Changed(g) =>
          \E c \in Caller : /\ pc[c] = "ran" /\ pc'[c] = "answered"
                            /\ answer'[c].kind \in {"applied", "uncounted"}
                            /\ Scoped(c) => request[c].graph = g]_vars

\* The doors do what they promise: an update is applied at once or not at all, on
\* the dataset as it is when it is applied, and a scoped one does to its graph what
\* it would do if it ran against all of that graph and nothing else. Its caller is
\* told how much it changed, and why it was not applied.
Atomic == INSTANCE AtomicUpdate
ImplementsAtomicUpdate == Atomic!Spec
=============================================================================
