------------------------------- MODULE Answers -------------------------------
(***************************************************************************)
(* How an answer is written and how large it may be: the bounds a host     *)
(* sets, a capability lifts and an argument lowers; the serializers, which *)
(* write each row in several pieces into a writer that holds no more than  *)
(* its cap; and the dump of the whole store, collected like an answer or   *)
(* streamed a quad at a time from one snapshot while writes go on.         *)
(*                                                                         *)
(* A row is the sequence of the widths of the pieces it is written in. A   *)
(* bound is a function over what is bounded: rows, bytes and time.         *)
(***************************************************************************)
EXTENDS Integers, Sequences, FiniteSets

CONSTANTS
    Limit,          \* the most of each that any host may allow
    TimeCeiling,    \* the ceiling on time of a host that named none
    HostBases, HostCeilings,    \* the bounds that hosts ask for
    Callers,        \* who asks: root or not, for what amounts it holds grants, and the
                    \* arguments of its request, where 0 is any that is unusable
    Absent,         \* an argument that a request does not give
    Stores,         \* what the store may hold: sequences of rows
    Opening, Closing    \* the pieces a serializer writes before and after the rows

Size == {"rows", "bytes"}
Measure == Size \cup {"time"}
Smaller(m, n) == IF m < n THEN m ELSE n
Larger(m, n) == IF m < n THEN n ELSE m

ASSUME LimitsArePositive == Limit \in [Size -> Nat \ {0}] /\ TimeCeiling \in Nat \ {0}
ASSUME HostsAskForAmounts ==
    /\ HostBases \subseteq [Measure -> Nat]
    /\ HostCeilings \subseteq [Measure -> Nat]
ASSUME AbsentIsNoNumber == Absent \notin Nat
ASSUME CallersGiveAmounts == Callers \subseteq
    [root : BOOLEAN, grants : [Measure -> SUBSET Nat], args : [Measure -> Nat \cup {Absent}]]
\* A capability holds finitely many grants.
ASSUME OneGrantIsLargest == \A c \in Callers, m \in Measure :
    c.grants[m] # {} => \E n \in c.grants[m] : \A o \in c.grants[m] : o <= n
ASSUME RowsAreWidths ==
    /\ Stores \subseteq Seq(Seq(Nat))
    /\ Opening \in Seq(Nat) /\ Closing \in Seq(Nat)

-----------------------------------------------------------------------------
(* The bound on one answer *)

\* A host that asks for nothing, or for more than any may, gets no bound at all.
CanBound(bound) == \A s \in Size : bound[s] > 0 /\ bound[s] <= Limit[s]

\* A budget of a base for every caller, under the ceiling that any host has. The one
\* on time rises with the base.
NewBudget(base) ==
    [base |-> base,
     ceiling |-> [m \in Measure |-> IF m = "time" THEN Larger(base[m], TimeCeiling)
                                    ELSE Limit[m]]]

\* A ceiling below the base lowers the base.
with_ceiling(budget, ceiling) ==
    [base |-> [m \in Measure |-> Smaller(budget.base[m], ceiling[m])],
     ceiling |-> ceiling]

Budgets ==
    LET new == {NewBudget(base) : base \in {b \in HostBases : CanBound(b)}}
    IN new \cup {with_ceiling(b, c) : b \in new, c \in {d \in HostCeilings : CanBound(d)}}

\* What a capability is given of each: the ceiling if it is root; else its largest
\* grant, no less than the base and no more than the ceiling.
Largest(grants) == IF grants = {} THEN 0
                   ELSE CHOOSE n \in grants : \A o \in grants : o <= n
Lifted(grants, base, ceiling) == Smaller(Larger(Largest(grants), base), ceiling)

for_capability(budget, caller) ==
    IF caller.root THEN budget.ceiling
    ELSE [m \in Measure |-> Lifted(caller.grants[m], budget.base[m], budget.ceiling[m])]

\* An argument is refused unless it is a positive number given inline.
Unusable(args) == \E m \in Measure : args[m] = 0

\* It lowers the bound and never raises it.
Lowered(arg, bound) == IF arg = Absent THEN bound ELSE Smaller(arg, bound)
effective(args, bound) == [m \in Measure |-> Lowered(args[m], bound[m])]

Requests == [budget : Budgets, caller : Callers, streamed : BOOLEAN]

-----------------------------------------------------------------------------
VARIABLES
    store,          \* the rows the store would answer with now
    stood,          \* all it has held since the request came, until the answer's snapshot:
                    \* read by nothing but the properties
    request,        \* what is being answered
    source,         \* the rows it is answered from
    phase,          \* what is done next
    line, piece,    \* how far the writing is: row 0 stands for the opening, the
                    \* one after the last for the closing
    held,           \* the pieces in the writer
    len, capacity,  \* how many bytes those are, and how many are reserved
    over,           \* whether the writer refused a write
    fault,          \* why the writing stopped
    late,           \* whether the time is up
    sent, spent,    \* the pieces the caller was given, and how many bytes
    reply           \* how the answer ended

answer_vars == <<store, stood, request, source, phase, line, piece, held, len, capacity,
                 over, fault, late, sent, spent, reply>>
writer == <<held, len, capacity, over>>

NoRequest == [none |-> TRUE]
Bound == effective(request.caller.args, for_capability(request.budget, request.caller))

\* Mistaken: each quad of a stream may have the whole bound.
CapOfEach == Bound["bytes"]

\* A collected answer is written into one writer. Each quad of a streamed one has
\* its own, of what is left of the bound.
Cap == IF Bound["bytes"] > spent THEN Bound["bytes"] - spent ELSE 0

Pieces(n) == CASE n \in 1..Len(source) -> source[n]
               [] n = 0 -> Opening
               [] OTHER -> Closing

Empty == held' = {} /\ len' = 0 /\ capacity' = 0 /\ over' = FALSE
Ended(how) == phase' = "ended" /\ reply' = how

AnswerInit ==
    /\ store \in Stores /\ stood = {} /\ request = NoRequest /\ source = <<>> /\ phase = "ended"
    /\ line = 0 /\ piece = 1 /\ held = {} /\ len = 0 /\ capacity = 0 /\ over = FALSE
    /\ fault = "none" /\ late = FALSE /\ sent = {} /\ spent = 0 /\ reply = "none"

\* A request comes. Each of its bounds is read before anything is evaluated.
Request(r) ==
    /\ request = NoRequest
    /\ request' = r /\ stood' = {store}
    /\ IF Unusable(r.caller.args) THEN Ended("argument") ELSE phase' = "accepted" /\ UNCHANGED reply
    /\ UNCHANGED <<store, source, line, piece, writer, fault, late, sent, spent>>

\* The snapshot is taken: by the evaluation of a collected answer; of a streamed one
\* before its body is handed out, not at the first poll.
Snapshot ==
    /\ phase = "accepted"
    /\ source' = store
    /\ IF request.streamed THEN phase' = "waiting" /\ line' = 1
                            ELSE phase' = "writing" /\ line' = 0
    /\ UNCHANGED <<store, stood, request, piece, writer, fault, late, sent, spent, reply>>

\* A collected answer that fails still goes by the writer's word, in Settle. A
\* stream that fails ends with the error and has no state left.
Stop(why) ==
    IF request.streamed THEN Ended(why) /\ UNCHANGED fault
    ELSE phase' = "failed" /\ fault' = why /\ UNCHANGED reply

\* The consumer of a stream asks for its next item.
Poll ==
    /\ phase = "waiting"
    /\ IF late THEN Stop("timeout") ELSE phase' = "next" /\ UNCHANGED <<fault, reply>>
    /\ UNCHANGED <<store, stood, request, source, line, piece, writer, late, sent, spent>>

\* The rows have run out.
EndOfRows ==
    /\ phase = "next" /\ line > Len(source)
    /\ \/ ~request.streamed /\ phase' = "writing" /\ piece' = 1 /\ UNCHANGED <<fault, reply>>
       \/ request.streamed /\ late /\ Stop("timeout") /\ UNCHANGED piece
       \/ request.streamed /\ ~late /\ Ended("whole") /\ UNCHANGED <<piece, fault>>
    /\ UNCHANGED <<store, stood, request, source, line, writer, late, sent, spent>>

\* The row past the bound is refused before it is written, and a row the storage
\* cannot read is an error.
NextRow ==
    /\ phase = "next" /\ line <= Len(source)
    /\ CASE late -> Stop("timeout") /\ UNCHANGED piece
         [] ~late /\ line > Bound["rows"] -> Stop("rows") /\ UNCHANGED piece
         [] OTHER -> \/ Stop("store") /\ UNCHANGED piece
                     \/ phase' = "writing" /\ piece' = 1 /\ UNCHANGED <<fault, reply>>
    /\ UNCHANGED <<store, stood, request, source, line, writer, late, sent, spent>>

\* The writer grows by doubling, and never past its cap.
Grown(needed) == IF needed <= capacity THEN capacity
                 ELSE Smaller(Larger(2 * capacity, needed), Cap)

WritePiece ==
    LET needed == len + Pieces(line)[piece]
    IN /\ phase = "writing" /\ piece <= Len(Pieces(line))
       /\ needed <= Cap
       /\ held' = held \cup {<<line, piece>>} /\ len' = needed /\ capacity' = Grown(needed)
       /\ piece' = piece + 1
       /\ UNCHANGED <<store, stood, request, source, phase, line, over, fault, late, sent, spent, reply>>

\* The write past the cap is refused, and holds nothing. Whatever the serializer
\* makes of the error, the writer remembers.
RefusePiece ==
    /\ phase = "writing" /\ piece <= Len(Pieces(line))
    /\ len + Pieces(line)[piece] > Cap
    /\ over' = TRUE
    /\ \/ piece' = piece + 1 /\ UNCHANGED <<phase, fault>>
       \/ phase' = "failed" /\ fault' = "io" /\ UNCHANGED piece
    /\ UNCHANGED <<store, stood, request, source, line, held, len, capacity, late, sent, spent, reply>>

\* The line is written. A quad of a stream, and the closing of a collected answer,
\* are settled.
EndLine ==
    /\ phase = "writing" /\ piece > Len(Pieces(line))
    /\ IF request.streamed \/ line > Len(source)
       THEN phase' = "written" /\ UNCHANGED line
       ELSE phase' = "next" /\ line' = line + 1
    /\ UNCHANGED <<store, stood, request, source, piece, writer, fault, late, sent, spent, reply>>

\* Mistaken: the serializer's word is taken for it.
SettleAsSerialized ==
    /\ phase \in {"written", "failed"} /\ ~request.streamed
    /\ Ended(IF phase = "failed" THEN fault ELSE "whole")
    /\ IF phase = "written" THEN sent' = held /\ spent' = len ELSE UNCHANGED <<sent, spent>>
    /\ UNCHANGED <<store, stood, request, source, line, piece, writer, fault, late>>

\* A collected answer is settled: refused if the writer refused a write, whatever
\* else went wrong; else the error, or all of it.
Settle ==
    /\ phase \in {"written", "failed"} /\ ~request.streamed
    /\ Ended(IF over THEN "bytes" ELSE IF phase = "failed" THEN fault ELSE "whole")
    /\ IF ~over /\ phase = "written" THEN sent' = held /\ spent' = len
                                     ELSE UNCHANGED <<sent, spent>>
    /\ UNCHANGED <<store, stood, request, source, line, piece, writer, fault, late>>

\* A quad of a stream is handed out, unless the time is up by now.
HandOut ==
    /\ phase \in {"written", "failed"} /\ request.streamed
    /\ IF over \/ phase = "failed" \/ late
       THEN /\ Ended(IF over THEN "bytes" ELSE IF phase = "failed" THEN fault ELSE "timeout")
            /\ UNCHANGED <<line, writer, sent, spent>>
       ELSE /\ sent' = sent \cup held /\ spent' = spent + len /\ line' = line + 1 /\ Empty
            /\ phase' = "waiting" /\ UNCHANGED reply
    /\ UNCHANGED <<store, stood, request, source, piece, fault, late>>

\* Time passes, and the caller of a collected answer gives up on it; writes go on.
Expire ==
    /\ phase # "ended" /\ ~late /\ late' = TRUE
    /\ UNCHANGED <<store, stood, request, source, phase, line, piece, writer, fault, sent, spent, reply>>
GiveUp ==
    /\ phase # "ended" /\ late /\ (~request.streamed \/ phase = "accepted")
    /\ Ended("timeout")
    /\ UNCHANGED <<store, stood, request, source, line, piece, writer, fault, late, sent, spent>>
Write(rows) ==
    /\ phase # "ended" /\ store' = rows
    /\ stood' = IF phase = "accepted" THEN stood \cup {rows} ELSE stood
    /\ UNCHANGED <<request, source, phase, line, piece, writer, fault, late, sent, spent, reply>>

\* The answer is with its caller, and nothing is left of it.
Close ==
    /\ phase = "ended" /\ request # NoRequest
    /\ request' = NoRequest /\ stood' = {} /\ source' = <<>> /\ line' = 0 /\ piece' = 1 /\ fault' = "none"
    /\ late' = FALSE /\ sent' = {} /\ spent' = 0 /\ Empty /\ reply' = "none"
    /\ UNCHANGED <<store, phase>>

AnswerNext ==
    \/ \E r \in Requests : Request(r)
    \/ Snapshot \/ Poll \/ EndOfRows \/ NextRow \/ WritePiece \/ RefusePiece \/ EndLine
    \/ Settle \/ HandOut \/ Expire \/ GiveUp \/ Close
    \/ \E rows \in Stores : Write(rows)

AnswerSpec == AnswerInit /\ [][AnswerNext]_answer_vars

-----------------------------------------------------------------------------
(* Properties *)

Places(lines) == UNION {{<<n, i>> : i \in 1..Len(Pieces(n))} : n \in lines}
Text == Places(IF request.streamed THEN 1..Len(source) ELSE 0..Len(source) + 1)

\* An answer is refused, not truncated. One that ends well is every piece of every
\* row the store held at some time after it was asked for and before its body was
\* handed out, whatever was written since; a collected one that ends otherwise tells
\* nothing; and what a stream has sent is always whole quads of that time, from the
\* first on, with the error as its last item.
AnswerIsWhole ==
    request # NoRequest =>
        /\ reply = "whole" => sent = Text
        /\ ~request.streamed /\ reply # "whole" => sent = {}
        /\ request.streamed => sent = Places(1..line - 1)
        /\ reply = "whole" \/ sent # {} => source \in stood

\* Rows are counted: an answer is refused for its rows if it has more of them than
\* the bound, and is not answered whole if it has.
RowRefusalsAreExact ==
    request # NoRequest =>
        /\ reply = "rows" => Len(source) > Bound["rows"]
        /\ reply = "whole" => Len(source) <= Bound["rows"]

\* At no time have the writers of an answer reserved more memory than its bound leaves,
\* nor than any host may allow. What is made of their bytes afterwards is not counted:
\* a collected dump is sorted, in a copy of as many bytes again (sorted_lines).
MemoryIsBounded ==
    request # NoRequest =>
        /\ spent + (IF request.streamed THEN capacity ELSE 0) <= Bound["bytes"]
        /\ capacity <= Bound["bytes"]
        /\ Bound["bytes"] <= Limit["bytes"]

Width(place) == Pieces(place[1])[place[2]]

\* The bytes of so many pieces: of each the first, the second, and so on.
Bytes(places) == UNION {{p} \X (1..Width(p)) : p \in places}

\* Bytes are counted, though how many there are is only known as they are written: an
\* answer is refused for its bytes if it has more of them than the bound, and is not
\* answered whole if it has.
ByteRefusalsAreExact ==
    LET bytes == Cardinality(Bytes(Text))
    IN request # NoRequest =>
        /\ reply = "bytes" => bytes > Bound["bytes"]
        /\ reply = "whole" => bytes <= Bound["bytes"]

\* The size of an answer is held to its bound exactly: one that is refused for its
\* rows or its bytes had more of them than the bound, one that is answered had not,
\* and no writer of it reserves more.
SizeRefusalsAreExact == RowRefusalsAreExact /\ ByteRefusalsAreExact /\ MemoryIsBounded

=============================================================================
