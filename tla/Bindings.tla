------------------------------- MODULE Bindings -------------------------------
(***************************************************************************)
(* A query with values bound to its variables: what oxigraph answers to    *)
(* it, and which of its variables no value can be bound to because only an *)
(* EXISTS or a MINUS mentions them.                                        *)
(***************************************************************************)
EXTENDS Operations

\* What oxigraph answers to a query that sees so much of a dataset. DESCRIBE
\* collects from the default graph alone.
Answered(q, sees, data) ==
    LET view == Dataset(data.quads, (data.named \cup {Remote}) \cap sees.named)
        given == [v \in DOMAIN q.bound |-> q.bound[v].term]
        M == Solutions(q.pattern, view, given, sees.default)
    IN CASE q.form = "select" -> M
         [] q.form = "ask" -> {<<>> : m \in M}
         [] q.form = "construct" -> {quad[2] : quad \in Instances(q.template, M)}
         [] q.form = "describe" ->
                {t \in UNION {TriplesOf(data, g) : g \in sees.default} :
                    \E m \in M : \E v \in DOMAIN m : t[1] = m[v]}

\* The patterns that a pattern shows, and those that an EXISTS or a MINUS in it hides.
Shown(p) == IF p.op = "minus" THEN {p.left} ELSE Operands(p)
HiddenInside(p) == UNION {Existing[e] : e \in Expressions(p)}
HiddenBy(p) == HiddenInside(p) \cup IF p.op = "minus" THEN {p.right} ELSE {}

\* Mistaken: what is after a MINUS is taken to be in scope.
ScopesButMinus(p, in) ==
    {<<p, FALSE>>} \cup (UNION {in[q] : q \in Operands(p)})
        \cup (UNION {Reached[q] : q \in HiddenInside(p)}) \X {TRUE}

\* The parts of a pattern, each with whether an EXISTS or a MINUS hides it.
ScopesOf(p, in) ==
    {<<p, FALSE>>} \cup (UNION {in[q] : q \in Shown(p)})
        \cup (UNION {Reached[q] : q \in HiddenBy(p)}) \X {TRUE}

Scopes[p \in Pattern] == ScopesOf(p, Scopes)

\* The variables that occur nowhere but in an EXISTS or after a MINUS.
only_inside_exists_or_minus(q) ==
    LET Bound(hidden) == UNION {InScope[s[1]] : s \in {t \in Scopes[q.pattern] : t[2] = hidden}}
    IN Bound(TRUE) \ Bound(FALSE)
=============================================================================
