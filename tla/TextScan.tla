------------------------------ MODULE TextScan ------------------------------
(***************************************************************************)
(* What a door reads of a SPARQL text before it is parsed: how deep its    *)
(* brackets and its triple terms nest, so that the recursive parser is not *)
(* handed more than its stack holds. The scan cannot parse. Where a `<`    *)
(* may open an IRI, open a triple term, or be a less-than, it keeps every  *)
(* reading, and takes the deepest.                                         *)
(*                                                                         *)
(* A text is a sequence of characters, each a string; "a" stands for any   *)
(* character that a name or a number may hold, and a unicode escape is two *)
(* characters, a backslash and "u" with what it stands for. The texts are  *)
(* those a parser goes along with: grown a token at a time by SPARQL's own *)
(* rules, which know what each bracket is.                                 *)
(***************************************************************************)
EXTENDS Integers, SequencesExt

CONSTANTS
    MaxSparqlBytes, MaxSparqlNesting, MaxRdfNesting, MaxScanBranches,
    Starts,         \* the texts that begin, with the brackets they have open
    Terms,          \* the terms of a text, as they are written
    Operators,      \* what stands between two operands of an expression
    Gaps,           \* white space and comments
    Escapes,        \* the characters that may be written as a unicode escape
    MaxTokens       \* how many tokens a text is grown by

MaxOf(m, n) == IF m < n THEN n ELSE m
At(t, i) == IF i \in DOMAIN t THEN t[i] ELSE ""

-----------------------------------------------------------------------------
(* A reading *)

\* Where a reading is: in code, a comment, an IRI, or a string of some quote; how many
\* characters it still passes over; its open brackets, where "<" is a reified triple
\* and "T" a triple term; the last character of code; and the run of `!` it is in.
Reading(open, lex, skip, last) ==
    [lex |-> lex, quote |-> "", long |-> FALSE, skip |-> skip, open |-> open,
     last |-> last, bangs |-> 0]

Innermost(r) == IF r.open = <<>> THEN "" ELSE Last(r.open)
Push(r, opener) == [r EXCEPT !.open = Append(@, opener)]
Pop(r) == [r EXCEPT !.open = Front(@)]

TermsOf(open) == Len(SelectSeq(open, LAMBDA o : o \in {"<", "T"}))
Depth(r) == [brackets |-> Len(r.open) - TermsOf(r.open) + r.bangs, terms |-> TermsOf(r.open)]
Deeper(d, e) == [brackets |-> MaxOf(d.brackets, e.brackets), terms |-> MaxOf(d.terms, e.terms)]
Over(d) == d.brackets > MaxSparqlNesting \/ d.terms > MaxRdfNesting

Blank == {" ", "nl"}
NEVER_ENDS_AN_OPERAND == {"(", ",", "=", "!", "&", "|", "+", "*", "/", "^", "<"}

\* An IRI has no white space, quote, brace or `<` before its `>`.
could_be_iri(t, i) ==
    \E j \in i + 1..Len(t) :
        t[j] = ">" /\ \A k \in i + 1..j - 1 : t[k] \notin Blank \cup {"<", ">", "\"", "{", "}"}

\* A closer that does not match closes nothing: it never lowers the count.
close(r, opener) ==
    [(IF Innermost(r) = opener THEN Pop(r) ELSE r) EXCEPT !.last = ")"]

\* Every reading the grammar allows at a `<`. A less-than needs an operand before it
\* and an open parenthesis around it, unless there is no other reading.
AtLess(r, t, i) ==
    LET term == At(t, i + 2) = "("
        iri == IF could_be_iri(t, i) THEN {Reading(r.open, "iri", 0, ">")} ELSE {}
        opener == CASE At(t, i + 1) # "<" -> {}
                    [] term -> {Reading(Append(r.open, "T"), "code", 2, "(")}
                    [] OTHER -> {Reading(Append(r.open, "<"), "code", 1, "<")}
        less_than == /\ Innermost(r) = "("
                     /\ r.last \notin NEVER_ENDS_AN_OPERAND
    IN iri \cup opener
        \cup IF less_than \/ iri \cup opener = {} THEN {[r EXCEPT !.last = "<"]} ELSE {}

\* A character of code.
code(r, t, i) ==
    LET c == t[i]
        ends(n) == \A k \in 1..n : At(t, i + k) = ">"
        long == At(t, i + 1) = c /\ At(t, i + 2) = c
    IN CASE c \in Blank -> {r}
         [] c = "#" -> {[r EXCEPT !.lex = "comment"]}
         [] c = "\\" -> {[r EXCEPT !.skip = 1, !.last = "a"]}
         [] c \in {"'", "\""} ->
                {[r EXCEPT !.lex = "str", !.quote = c, !.long = long, !.last = c,
                           !.skip = IF long THEN 2 ELSE 0]}
         [] c \in {"(", "{", "["} -> {[Push(r, c) EXCEPT !.last = c]}
         [] c = ")" /\ ends(2) /\ Innermost(r) = "T" ->
                {[Pop(r) EXCEPT !.skip = 2, !.last = ">"]}
         [] c = ")" /\ ~(ends(2) /\ Innermost(r) = "T") -> {close(r, "(")}
         [] c = "}" -> {close(r, "{")}
         [] c = "]" -> {close(r, "[")}
         [] c = ">" /\ ends(1) /\ Innermost(r) = "<" -> {[Pop(r) EXCEPT !.skip = 1, !.last = c]}
         [] c = "<" -> AtLess(r, t, i)
         [] OTHER -> {[r EXCEPT !.last = c]}

\* Mistaken: whatever is not `!` or white space ends a run.
RunEndedByComment(r, t, i) ==
    CASE t[i] \in Blank -> r
      [] t[i] = "!" /\ At(t, i + 1) # "=" -> [r EXCEPT !.bangs = @ + 1]
      [] OTHER -> [r EXCEPT !.bangs = 0]

\* A comment does not end a run of `!`, nor does white space.
Run(r, t, i) == CASE t[i] \in Blank \cup {"#"} -> r
                  [] t[i] = "!" /\ At(t, i + 1) # "=" -> [r EXCEPT !.bangs = @ + 1]
                  [] OTHER -> [r EXCEPT !.bangs = 0]

\* Inside a string. A short one ends with its line. Nothing of it is remembered after.
string(r, t, i) ==
    LET over == [r EXCEPT !.lex = "code", !.quote = "", !.long = FALSE]
    IN CASE t[i] = "\\" -> [r EXCEPT !.skip = 1]
         [] t[i] \in {"nl", r.quote} /\ ~r.long -> over
         [] t[i] = r.quote /\ r.long /\ At(t, i + 1) = t[i] /\ At(t, i + 2) = t[i] ->
               [over EXCEPT !.skip = 2]
         [] OTHER -> r

\* What becomes of a reading at a character: the readings it goes on as.
step(r, t, i) ==
    CASE r.skip > 0 -> {[r EXCEPT !.skip = @ - 1]}
      [] r.skip = 0 /\ r.lex = "comment" -> {IF t[i] = "nl" THEN [r EXCEPT !.lex = "code"] ELSE r}
      [] r.skip = 0 /\ r.lex = "iri" -> {IF t[i] = ">" THEN [r EXCEPT !.lex = "code"] ELSE r}
      [] r.skip = 0 /\ r.lex = "str" -> {string(r, t, i)}
      [] OTHER -> code(Run(r, t, i), t, i)

\* The deepest any reading nests, up to where one passes a bound; or that too many
\* readings were open at once.
deepest(t) ==
    LET Advance(scan, i) ==
            LET readings == UNION {step(r, t, i) : r \in scan.readings}
            IN IF scan.ambiguous \/ Over(scan.depth) THEN scan
               ELSE IF Cardinality(readings) > MaxScanBranches
                    THEN [scan EXCEPT !.ambiguous = TRUE]
               ELSE [readings |-> readings, ambiguous |-> FALSE,
                     depth |-> FoldSet(LAMBDA r, d : Deeper(d, Depth(r)), scan.depth, readings)]
    IN FoldLeft(Advance,
                [readings |-> {Reading(<<>>, "code", 0, "(")}, ambiguous |-> FALSE,
                 depth |-> [brackets |-> 0, terms |-> 0]],
                [i \in 1..Len(t) |-> i])

\* The text with each unicode escape replaced by what it stands for, left to right.
unescaped(t) ==
    LET Decoded(c) == CHOOSE d \in Escapes : "u" \o d = c
        Unescape(out, c) ==
            IF out # <<>> /\ Last(out) = "\\" /\ c \in {"u" \o d : d \in Escapes}
            THEN Append(Front(out), Decoded(c)) ELSE Append(out, c)
    IN FoldLeft(Unescape, <<>>, t)

\* Whether a text is let through to the parser.
check_sparql(t) ==
    LET Within(scan) == ~scan.ambiguous /\ ~Over(scan.depth)
    IN /\ Len(t) <= MaxSparqlBytes
       /\ Within(deepest(t))
       /\ unescaped(t) # t => Within(deepest(unescaped(t)))

-----------------------------------------------------------------------------
(* The texts a parser goes along with *)

VARIABLES
    text,           \* what is written so far
    opened,         \* its open brackets, by what the grammar has them be: "X" is the
                    \* parenthesis of an expression or of arguments, "(" of a list
    expects,        \* what an expression goes on with
    negations,      \* how many `!` the run has that the text ends with
    nested,         \* how deep it ever nested
    tokens

text_vars == <<text, opened, expects, negations, nested, tokens>>

NestsTo(open, run) == [brackets |-> Len(open) - TermsOf(open) + run, terms |-> TermsOf(open)]

TextInit ==
    \E start \in Starts :
        /\ text = start.text /\ opened = start.open /\ expects = "operand"
        /\ negations = 0 /\ nested = NestsTo(start.open, 0) /\ tokens = 0

\* A token as it is written: its first character may be a unicode escape.
Written(token) == {token} \cup {<<"\\", "u" \o c>> \o Tail(token) : c \in Escapes \cap {token[1]}}

Token(token, open, next, run) ==
    /\ tokens < MaxTokens /\ tokens' = tokens + 1
    /\ \E w \in Written(token) : text' = text \o w
    /\ opened' = open /\ expects' = next /\ negations' = run
    /\ nested' = Deeper(nested, NestsTo(open, run))

Within == IF opened = <<>> THEN "" ELSE Last(opened)
InOperand == Within = "X" /\ expects = "operand"
InOperator == Within = "X" /\ expects = "operator"
InTriples == Within \in {"{", "[", "(", "<", "T"}

Term == \E t \in Terms : (InTriples \/ InOperand) /\ Token(t, opened, "operator", 0)
Operator == \E o \in Operators : InOperator /\ Token(o, opened, "operand", 0)
Negate == InOperand /\ Token(<<"!">>, opened, "operand", negations + 1)
Gap == \E g \in Gaps : Token(g, opened, expects, negations)

\* What may open where. A group follows OPTIONAL or EXISTS, and arguments a name.
Opens(token, bracket, here) == here /\ Token(token, Append(opened, bracket), "operand", 0)
Open ==
    \/ Opens(<<"(">>, "X", InOperand)
    \/ Opens(<<"(">>, "(", Within \in {"{", "[", "("})
    \/ Opens(<<"a", "(">>, "X", InOperand \/ Within = "{")
    \/ Opens(<<"a", "{">>, "{", InOperand \/ Within = "{")
    \/ Opens(<<"[">>, "[", Within \in {"{", "[", "("})
    \/ Opens(<<"<", "<">>, "<", Within \in {"{", "[", "(", "<"})
    \/ Opens(<<"<", "<", "(">>, "T", InTriples \/ InOperand)

Closer(bracket) == CASE bracket \in {"X", "("} -> <<")">>
                      [] bracket = "{" -> <<"}">>
                      [] bracket = "[" -> <<"]">>
                      [] bracket = "<" -> <<">", ">">>
                      [] bracket = "T" -> <<")", ">", ">">>
Shut == (InTriples \/ InOperator) /\ Token(Closer(Within), Front(opened), "operator", 0)

\* A text has got as long as is looked at, and another begins.
Begin(start) ==
    /\ tokens = MaxTokens
    /\ text' = start.text /\ opened' = start.open /\ expects' = "operand"
    /\ negations' = 0 /\ nested' = NestsTo(start.open, 0) /\ tokens' = 0

TextNext == Term \/ Operator \/ Negate \/ Gap \/ Open \/ Shut \/ \E s \in Starts : Begin(s)
TextSpec == TextInit /\ [][TextNext]_text_vars

-----------------------------------------------------------------------------
(* Property *)

\* The scan does not parse, and is not fooled. A text that goes to the parser nests no
\* deeper than the bounds, whatever its strings, comments and IRIs hold, however its
\* brackets are written, and whether a `<` is a less-than, an IRI or a term; and one
\* without a `<` or an escape, that can be read one way only, is refused for its
\* nesting or its length and for nothing else.
TextsAreAdmittedByTheirNesting ==
    LET admitted == check_sparql(text)
        one_way == (\A i \in DOMAIN text : text[i] # "<") /\ unescaped(text) = text
    IN /\ Over(nested) => ~admitted
       /\ one_way /\ ~Over(nested) /\ Len(text) <= MaxSparqlBytes => admitted

=============================================================================
