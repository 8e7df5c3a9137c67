------------------------------- MODULE MCDoors -------------------------------
(***************************************************************************)
(* The stages at which a door may refuse a request, each tried on inputs   *)
(* of its own: its text is scanned, the algebra it is parsed to is         *)
(* measured, what is left is asked of the store, and the answer is         *)
(* written. A behaviour is of one stage, the state of the others does not  *)
(* change.                                                                 *)
(***************************************************************************)
EXTENDS MCSparqlCases, AlgebraCost, TextScan, Answers

-----------------------------------------------------------------------------
(* Texts: what they begin with, and the tokens they are grown by *)

MCStarts ==
    {[text |-> <<"{", "a", "(">>, open |-> <<"{", "X">>],
     [text |-> <<"{", "<", "<">>, open |-> <<"{", "<">>],
     [text |-> <<"{", "a", "(", "a", "<">>, open |-> <<"{", "X">>]}

\* A name; a prefixed name with an escaped bracket; IRIs and strings that hold brackets,
\* quotes and what would end a term.
MCTerms == {<<"a">>, <<"a", "\\", "(">>, <<"<", "(", ">">>, <<"<", "'", ">">>,
            <<"'", "(", "\\", "'", "'">>,
            <<"'", "'", "'", "'", "{", "nl", "'", "'", "'">>}
MCOperators == {<<"<">>, <<">">>, <<"!", "=">>}
MCGaps == {<<" ">>, <<"#", "(", "'", ">", "nl">>}

-----------------------------------------------------------------------------
(* Shapes: what a pattern may be wrapped in, around joins narrow and wide *)

Ranked(op, i) == [op |-> op, inner |-> i]
Narrow == Bgp({<<x, C(p), y>>})
Wide == Bgp({<<x, C(p), y>>, <<y, C(q), z>>})
AnyPath == Path(x, [kind |-> "sequence", a |-> Step(p),
                    b |-> [kind |-> "zero_or_more", of |-> Step(q)]], y)
Cores == {Narrow, Wide, Bgp({}), AnyPath, Values("x", {a}), Two("join", Wide, Narrow)}

\* One operator around a pattern, with a narrow sibling on the other side.
Wrapping(op, on_left, i) ==
    LET Both == IF on_left THEN Two(op, i, Narrow) ELSE Two(op, Narrow, i)
    IN CASE op \in {"join", "union", "minus", "lateral"} -> Both
         [] op = "optional" -> Both @@ ("expr" :> Yes)
         [] op = "filter" -> IF on_left THEN Filter(Yes, i) ELSE Filter(Not(Exists(i)), Narrow)
         [] op \in {"slice", "modifier", "service"} -> Ranked(op, i)
         [] op = "graph" -> In(G, i)
         [] op = "project" -> Project({"x"}, i)
         [] op = "order" -> [op |-> "order", expr |-> Exists(Narrow), inner |-> i]
         [] op = "extend" ->
                [op |-> "extend", var |-> "z",
                 expr |-> [kind |-> "or", args |-> <<Yes, Exists(i)>>], inner |-> Narrow]
         [] op = "group" ->
                [op |-> "group", var |-> "y", by |-> {"x"}, expr |-> Yes, inner |-> i]
         [] OTHER -> i
Wrappings(patterns) ==
    LET ops == {"join", "union", "minus", "lateral", "optional", "filter", "slice", "modifier",
                "service", "graph", "project", "order", "extend", "group", "none"}
    IN {Wrapping(op, on_left, i) : op \in ops, on_left \in BOOLEAN, i \in patterns}

MCShapes ==
    LET once == Wrappings(Cores)
    IN Wrappings(once \cup {Two("join", i, Wide) : i \in once})

PartsOfAll == PartsOf(MCPatterns \cup MCShapes)
\* (A LET, which TLC's statistics of coverage do not go into at each use of Part.)
MCParts == LET parts == PartsOfAll IN parts

-----------------------------------------------------------------------------
(* Answers: rows in pieces, one that is empty too, and callers of every kind *)

Per(rows, bytes, time) == ("rows" :> rows) @@ ("bytes" :> bytes) @@ ("time" :> time)
MCLimit == ("rows" :> 3) @@ ("bytes" :> 6)
MCHostBases == {Per(2, 4, 1), Per(0, 4, 1), Per(2, 9, 1)}
MCHostCeilings == {Per(1, 5, 1)}
NoGrants == Per({}, {}, {})
NoArgs == Per(Absent, Absent, Absent)
Caller(root, grants, args) == [root |-> root, grants |-> grants, args |-> args]
MCCallers ==
    {Caller(TRUE, NoGrants, NoArgs), Caller(FALSE, NoGrants, NoArgs),
     Caller(FALSE, Per({1, 9}, {}, {}), NoArgs),
     Caller(FALSE, Per({}, {5}, {}), Per(9, Absent, Absent)),
     Caller(FALSE, NoGrants, Per(1, 3, 0)), Caller(FALSE, NoGrants, Per(Absent, 3, Absent))}
MCStores == {<<>>, <<<<1, 1>>, <<2>>>>, <<<<3, 1>>, <<1>>>>, <<<<1>>, <<0>>, <<1>>>>}
Bracket == <<1>>

-----------------------------------------------------------------------------
VARIABLE stage

doors == <<vars, text_vars, shape, answer_vars, stage>>

\* A stage that is not tried stays as it begins.
DoorsInit ==
    /\ stage \in {"text", "algebra", "store", "answer"}
    /\ Init /\ ShapeInit /\ TextInit /\ AnswerInit
    /\ stage # "store" => data = Dataset(InOther, {"h"})
    /\ stage # "text" => text = <<"{", "<", "<">>
    /\ stage # "answer" => store = <<>>

DoorsNext ==
    \/ stage = "text" /\ TextNext /\ UNCHANGED <<vars, shape, answer_vars, stage>>
    \/ stage = "algebra" /\ ShapeNext /\ UNCHANGED <<vars, text_vars, answer_vars, stage>>
    \/ stage = "store" /\ Next /\ UNCHANGED <<text_vars, shape, answer_vars, stage>>
    \/ stage = "answer" /\ AnswerNext /\ UNCHANGED <<vars, text_vars, shape, stage>>

DoorsSpec == DoorsInit /\ [][DoorsNext]_doors
=============================================================================
