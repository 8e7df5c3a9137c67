------------------------------ MODULE TermDepth ------------------------------
(***************************************************************************)
(* How deep the terms that an update may store can nest. Insert templates  *)
(* are read as probes, positions that a quad agrees with, and the quads    *)
(* that an update left are looked at where a probe could have put one. The *)
(* broad door does this after the fact; a graph-scoped update has its      *)
(* whole difference in hand.                                               *)
(***************************************************************************)
EXTENDS Operations

CONSTANT MaxNesting     \* how deep a stored term may nest

\* A position of a probe that any term agrees with. A variable is one, and so is a
\* triple term, even one without a variable in it.
NoConstant == <<"any", 0>>
Spelt(position) == position[1] = "const" /\ position[2][2] = 0
ProbeOf(pattern) ==
    LET Constant(position) == IF Spelt(position) THEN position[2] ELSE NoConstant
        s == Constant(pattern[1])
    IN << IF s # NoConstant /\ ~IsIri(s) THEN NoConstant ELSE s,
          Constant(pattern[2]), Constant(pattern[3]) >>

is_everything(probe) == probe = <<NoConstant, NoConstant, NoConstant>>
Matching(probe, triples) ==
    {t \in triples : \A i \in 1..3 : probe[i] \in {NoConstant, t[i]}}

-----------------------------------------------------------------------------
(* Terms that nest too deep *)

nests_deeper_than_the_bound(term) == term[2] > MaxNesting
TooDeep(triple) == nests_deeper_than_the_bound(triple[3])

\* Mistaken: only a template that writes the << >> itself is probed.
insert_probes_of_terms(u) ==
    {[graph |-> t.graph, triple |-> ProbeOf(t.triple)] :
        t \in {s \in UNION {o.insert : o \in Wheres(u)} : s.triple[3][1] = "around"}}

\* The insert templates that can put a triple term in the store.
insert_probes(u) ==
    {[graph |-> t.graph, triple |-> ProbeOf(t.triple)] :
        t \in {s \in UNION {o.insert : o \in Wheres(u)} : ~Spelt(s.triple[3])}}

\* The text can build a triple term: it writes one somewhere, or calls TRIPLE.
may_construct_triple_term(u) ==
    LET Writes(position) == ~Spelt(position) /\ position[1] # "var"
    IN \/ \E o \in Elements(u) \ Wheres(u) :
            o.op \in {"insert_data", "delete_data"} /\ \E q \in o.quads : q[2][3][2] > 0
       \/ \E o \in Wheres(u) :
            \/ \E t \in o.insert \cup o.delete : Writes(t.triple[3])
            \/ \E p \in Reached[o.pattern] :
                    \/ p.op = "bgp" /\ \E t \in p.triples : Writes(t[3])
                    \/ p.op = "extend" /\ p.expr.kind = "triple"

\* Whether the broad door commits an update that left the quads it did.
check_inserted(u, before, after) ==
    may_construct_triple_term(u) =>
        \A probe \in insert_probes(u), q \in after \ before :
            ~ /\ probe.graph[1] = "const" => q[1] = probe.graph[2]
              /\ Matching(probe.triple, {q[2]}) # {}
              /\ TooDeep(q[2])
=============================================================================
