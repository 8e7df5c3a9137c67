----------------------------- MODULE MCFootprint -----------------------------
(***************************************************************************)
(* Updates that delete by the name of a graph, where a VALUES lists it.    *)
(***************************************************************************)
EXTENDS MCSparqlCases

\* A name that is listed by a VALUES that every solution, some, or none comes from.
ByName(i) == In(Var("g"), i)
Kept == Two("optional", Bgp({<<x, C(q), y>>}), Values("g", {T("h")}))
Listing ==
    {ByName(Kept @@ ("expr" :> e)) : e \in {Yes, Not(Yes)}}
    \cup {ByName(Two("join", Bgp({<<x, C(q), y>>}), Values("g", {T(n)}))) : n \in {"g", "h"}}
    \cup {ByName(Bgp({<<x, C(q), y>>}))}

MCListed == {<<Modify({Template(G, Var("g"), C(p), y)}, {}, using, i)>> :
                using \in {NoUsing, With("g")}, i \in Listing}

\* What a graph says of itself, among other things.
OfItself == {<<a, q, b>>, <<T("g"), p, b>>, <<T("h"), p, b>>, <<a, p, b>>}
MCListedDatasets == {Dataset({<<"g", t>> : t \in ts}, {"g"}) : ts \in SUBSET OfItself}

MCNone == {}
PartsOfListing == PartsOf(Listing)
MCListedParts == PartsOfListing
=============================================================================
