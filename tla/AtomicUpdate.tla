----------------------------- MODULE AtomicUpdate -----------------------------
(***************************************************************************)
(* What the two update doors promise: an update takes effect at once or    *)
(* not at all, on the dataset as it is at that moment. Through the scoped  *)
(* door it is evaluated against the whole of one graph and nothing else,   *)
(* and replaces that graph; through the broad door, against the dataset.   *)
(* No copy, no footprint, no difference and no lock is in sight.           *)
(***************************************************************************)
EXTENDS Integers, FiniteSets

CONSTANTS
    Caller,
    Initial,        \* the datasets it may start from
    Request,        \* [door, update, may_read], and the graph of a scoped one
    Computes(_, _),
    None            \* no request, or no answer yet

VARIABLES data, request, answer

vars == <<data, request, answer>>

Of(graph) == {q \in data.quads : q[1] = graph}
Escaped(d, graph) == ({q[1] : q \in d.quads} \cup d.named) \ {graph}

\* The dataset a request is evaluated against, and what it computes there.
Seen(r) == IF r.door = "scoped"
           THEN [quads |-> Of(r.graph), named |-> data.named \cap {r.graph}]
           ELSE data
Outcome(r) == Computes(r.update, Seen(r))

Told(kind, added, removed) == [kind |-> kind, added |-> added, removed |-> removed]

Ask(c) ==
    /\ request[c] = None
    /\ \E r \in Request : request' = [request EXCEPT ![c] = r]
    /\ UNCHANGED <<data, answer>>

Pending(c) == request[c] # None /\ answer[c] = None

\* The scoped door tells truly how many quads its graph gained and lost.
ApplyScoped(c) ==
    LET r == request[c]
        new == Outcome(r).data
    IN /\ Pending(c) /\ r.door = "scoped"
       /\ Outcome(r).ok /\ Escaped(new, r.graph) = {}
       /\ data' = [quads |-> (data.quads \ Of(r.graph)) \cup new.quads,
                   named |-> (data.named \ {r.graph}) \cup new.named]
       /\ answer' = [answer EXCEPT ![c] =
                        Told("applied", Cardinality(new.quads \ Of(r.graph)),
                                        Cardinality(Of(r.graph) \ new.quads))]
       /\ UNCHANGED request

\* The broad door may fail to count the dataset it has just changed, which is told as
\* an error.
ApplyBroad(c) ==
    LET r == request[c]
    IN /\ Pending(c) /\ r.door = "broad"
       /\ Outcome(r).ok
       /\ data' = Outcome(r).data
       /\ \E kind \in {"applied", "uncounted"} :
              answer' = [answer EXCEPT ![c] = Told(kind, 0, 0)]
       /\ UNCHANGED request

\* An update may be refused for its text, its size or its time; that it failed or
\* escaped is told only when it did.
Refuse(c) ==
    /\ Pending(c)
    /\ \E kind \in {"refused", "failed", "escaped"} :
        /\ kind = "failed" => ~Outcome(request[c]).ok
        /\ kind = "escaped" =>
                /\ request[c].door = "scoped"
                /\ Escaped(Outcome(request[c]).data, request[c].graph) # {}
        /\ answer' = [answer EXCEPT ![c] = Told(kind, 0, 0)]
    /\ UNCHANGED <<data, request>>

Leave(c) ==
    /\ answer[c] # None
    /\ request' = [request EXCEPT ![c] = None]
    /\ answer' = [answer EXCEPT ![c] = None]
    /\ UNCHANGED data

Init ==
    /\ data \in Initial
    /\ request = [c \in Caller |-> None]
    /\ answer = [c \in Caller |-> None]

Next == \E c \in Caller :
    Ask(c) \/ ApplyScoped(c) \/ ApplyBroad(c) \/ Refuse(c) \/ Leave(c)

Spec == Init /\ [][Next]_vars
=============================================================================
