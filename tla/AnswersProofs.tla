---------------------------- MODULE AnswersProofs ----------------------------
(***************************************************************************)
(* Answers are whole or refused, and bounded, for every store, bound,      *)
(* capability and argument: the writer's state is related to the places of *)
(* the text it has been given so far, and its length to their bytes.       *)
(***************************************************************************)
EXTENDS Answers, FiniteSetTheorems, TLAPS

-----------------------------------------------------------------------------
(* Bounds are numbers, and no host's is past the limit.                    *)

LEMMA SmallerAndLarger ==
  ASSUME NEW m \in Nat, NEW n \in Nat
  PROVE  /\ Smaller(m, n) \in Nat /\ Smaller(m, n) <= m /\ Smaller(m, n) <= n
         /\ Larger(m, n) \in Nat /\ Larger(m, n) >= m /\ Larger(m, n) >= n
BY DEF Smaller, Larger

LEMMA BudgetsAreBounded ==
  ASSUME NEW b \in Budgets
  PROVE  /\ b.base \in [Measure -> Nat] /\ b.ceiling \in [Measure -> Nat]
         /\ \A s \in Size : b.ceiling[s] <= Limit[s]
<1> DEFINE new == {NewBudget(base) : base \in {c \in HostBases : CanBound(c)}}
<1>1. ASSUME NEW n \in new
      PROVE  /\ n.base \in [Measure -> Nat] /\ n.ceiling \in [Measure -> Nat]
             /\ \A s \in Size : n.ceiling[s] <= Limit[s]
  <2>1. PICK base \in HostBases : n = NewBudget(base)
    BY <1>1
  <2>2. base \in [Measure -> Nat]
    BY HostsAskForAmounts
  <2>3. n.base = base
    BY <2>1 DEF NewBudget
  <2>4. n.ceiling = [m \in Measure |-> IF m = "time" THEN Larger(base[m], TimeCeiling)
                                       ELSE Limit[m]]
    BY <2>1 DEF NewBudget
  <2>5. ASSUME NEW m \in Measure PROVE n.ceiling[m] \in Nat
    <3>1. CASE m = "time"
      BY <2>2, <2>4, <3>1, SmallerAndLarger, LimitsArePositive DEF Measure
    <3>2. CASE m # "time"
      BY <2>4, <3>2, LimitsArePositive DEF Measure
    <3> QED
      BY <3>1, <3>2
  <2>6. \A s \in Size : n.ceiling[s] <= Limit[s]
    BY <2>4, LimitsArePositive DEF Size, Measure
  <2> QED
    BY <2>2, <2>3, <2>4, <2>5, <2>6
<1>2. CASE b \in new
  BY <1>1, <1>2
<1>3. CASE b \notin new
  <2>1. PICK n \in new, c \in HostCeilings : CanBound(c) /\ b = with_ceiling(n, c)
    BY <1>3 DEF Budgets
  <2>2. c \in [Measure -> Nat] /\ n.base \in [Measure -> Nat]
    BY <1>1, HostsAskForAmounts
  <2>3. b.ceiling = c
    BY <2>1 DEF with_ceiling
  <2>4. b.base = [m \in Measure |-> Smaller(n.base[m], c[m])]
    BY <2>1 DEF with_ceiling
  <2>5. \A m \in Measure : Smaller(n.base[m], c[m]) \in Nat
    BY <2>2, SmallerAndLarger
  <2>6. \A s \in Size : c[s] <= Limit[s]
    BY <2>1 DEF CanBound
  <2> QED
    BY <2>2, <2>3, <2>4, <2>5, <2>6
<1> QED
  BY <1>2, <1>3

LEMMA LargestIsNumber ==
  ASSUME NEW c \in Callers, NEW m \in Measure PROVE Largest(c.grants[m]) \in Nat
<1> DEFINE grants == c.grants[m]
           IsLargest(n) == \A o \in grants : o <= n
<1>1. grants \in SUBSET Nat
  BY CallersGiveAmounts
<1>2. CASE grants = {}
  BY <1>2 DEF Largest
<1>3. CASE grants # {}
  <2>1. \E n \in grants : IsLargest(n)
    BY <1>3, OneGrantIsLargest
  <2>2. (CHOOSE n \in grants : IsLargest(n)) \in grants
    BY <2>1
  <2>3. Largest(grants) = CHOOSE n \in grants : IsLargest(n)
    BY <1>3 DEF Largest
  <2> QED
    BY <1>1, <2>2, <2>3
<1> QED
  BY <1>2, <1>3

LEMMA LiftedIsBounded ==
  ASSUME NEW grants, NEW base \in Nat, NEW ceiling \in Nat, Largest(grants) \in Nat
  PROVE  Lifted(grants, base, ceiling) \in Nat /\ Lifted(grants, base, ceiling) <= ceiling
<1>1. Larger(Largest(grants), base) \in Nat
  BY SmallerAndLarger
<1> QED
  BY <1>1, SmallerAndLarger DEF Lifted

LEMMA LoweredIsBounded ==
  ASSUME NEW arg \in Nat \cup {Absent}, NEW bound \in Nat
  PROVE  Lowered(arg, bound) \in Nat /\ Lowered(arg, bound) <= bound
<1>1. CASE arg = Absent
  BY <1>1 DEF Lowered
<1>2. CASE arg # Absent
  <2>1. arg \in Nat
    BY <1>2
  <2> QED
    BY <1>2, <2>1, SmallerAndLarger DEF Lowered
<1> QED
  BY <1>1, <1>2

(* What a request is bounded by: a number of each, and of sizes no more    *)
(* than any host may allow.                                                *)
LEMMA BoundIsBounded ==
  ASSUME NEW r \in Requests, NEW m \in Size
  PROVE  LET bound == effective(r.caller.args, for_capability(r.budget, r.caller))
         IN  bound[m] \in Nat /\ bound[m] <= Limit[m]
<1> DEFINE given == for_capability(r.budget, r.caller)
           bound == effective(r.caller.args, given)
<1>1. r.budget \in Budgets /\ r.caller \in Callers /\ m \in Measure
  BY DEF Requests, Measure
<1>2. /\ r.budget.base[m] \in Nat /\ r.budget.ceiling[m] \in Nat
      /\ r.budget.ceiling[m] <= Limit[m] /\ Limit[m] \in Nat
  BY <1>1, BudgetsAreBounded, LimitsArePositive
<1>3. r.caller.args[m] \in Nat \cup {Absent}
  BY <1>1, CallersGiveAmounts
<1>4. given[m] \in Nat /\ given[m] <= r.budget.ceiling[m]
  <2>1. CASE r.caller.root
    BY <1>2, <2>1 DEF for_capability
  <2>2. CASE ~r.caller.root
    <3>1. Largest(r.caller.grants[m]) \in Nat
      BY <1>1, LargestIsNumber
    <3>2. given[m] = Lifted(r.caller.grants[m], r.budget.base[m], r.budget.ceiling[m])
      BY <1>1, <2>2 DEF for_capability
    <3> HIDE DEF given
    <3> QED
      BY <1>2, <3>1, <3>2, LiftedIsBounded
  <2> QED
    BY <2>1, <2>2
<1>5. bound[m] = Lowered(r.caller.args[m], given[m])
  BY <1>1 DEF effective
<1> HIDE DEF given, bound
<1>6. bound[m] \in Nat /\ bound[m] <= given[m]
  BY <1>3, <1>4, <1>5, LoweredIsBounded
<1>7. bound[m] \in Nat /\ bound[m] <= Limit[m]
  BY <1>2, <1>4, <1>6
<1> QED
  BY <1>7 DEF bound, given

-----------------------------------------------------------------------------
(* The pieces of lines as functions of the rows they are of                *)

Row(rows, n) == CASE n \in 1..Len(rows) -> rows[n]
                  [] n = 0 -> Opening
                  [] OTHER -> Closing
Count(rows, n) == Len(Row(rows, n))
Cells(n, count) == {<<n, i>> : i \in 1..count}
PlacesIn(rows, lines) == UNION {Cells(n, Count(rows, n)) : n \in lines}

-----------------------------------------------------------------------------
(* The invariant                                                           *)

AnswerTypes ==
    /\ store \in Stores /\ stood \subseteq Stores /\ source \in Stores \cup {<<>>}
    /\ request \in Requests \cup {NoRequest}
    /\ phase \in {"accepted", "waiting", "next", "writing", "written", "failed", "ended"}
    /\ line \in Nat /\ piece \in Nat \ {0}
    /\ len \in Nat /\ capacity \in Nat /\ spent \in Nat
    /\ over \in BOOLEAN /\ late \in BOOLEAN
    /\ fault \in {"none", "io", "timeout", "rows", "store"}

\* Between two requests nothing is left of the one before.
Fresh ==
    /\ line = 0 /\ piece = 1 /\ held = {} /\ len = 0 /\ capacity = 0 /\ over = FALSE
    /\ fault = "none" /\ sent = {} /\ spent = 0 /\ reply = "none"
Idle == request = NoRequest => phase = "ended" /\ Fresh

\* The writer holds the lines before this one, of a collected answer all and of a
\* stream none, and so many pieces of this one: some of those, if it has refused a
\* write, and else all.
LinesBefore(n) == IF request.streamed THEN {} ELSE 0..n - 1
HeldIs(places) == held \subseteq places /\ (over \/ held = places)

Writing ==
    /\ phase = "accepted" => Fresh
    /\ phase = "waiting" => request.streamed
    /\ phase \in {"waiting", "next"} =>
          /\ line \in 1..Len(source) + 1
          /\ HeldIs(PlacesIn(source, LinesBefore(line)))
    /\ phase = "writing" =>
          /\ line <= Len(source) + 1
          /\ request.streamed => line \in 1..Len(source)
          /\ piece <= Count(source, line) + 1
          /\ HeldIs(PlacesIn(source, LinesBefore(line)) \cup Cells(line, piece - 1))
    /\ phase = "written" =>
          /\ request.streamed => line \in 1..Len(source)
          /\ ~request.streamed => line = Len(source) + 1
          /\ HeldIs(PlacesIn(source, LinesBefore(line) \cup {line}))

AllLines == IF request.streamed THEN 1..Len(source) ELSE 0..Len(source) + 1
Told ==
    /\ request.streamed => sent = PlacesIn(source, 1..line - 1)
    /\ phase # "ended" => reply = "none" /\ (~request.streamed => sent = {})
    /\ reply = "whole" => sent = PlacesIn(source, AllLines) /\ line = Len(source) + 1
    /\ reply # "whole" /\ ~request.streamed => sent = {}

Counted ==
    /\ line - 1 <= Bound["rows"]
    /\ phase \in {"writing", "written"} /\ line <= Len(source) => line <= Bound["rows"]
    /\ fault = "rows" \/ reply = "rows" => Len(source) > Bound["rows"]

Reserved ==
    /\ len <= capacity /\ capacity <= Bound["bytes"] /\ spent <= Bound["bytes"]
    /\ request.streamed => spent + capacity <= Bound["bytes"]

\* So many bytes: WidthIn, BytesIn and Volume are of the places of a text as Width,
\* Bytes and their number are of those of the present one.
WidthIn(rows, place) == Row(rows, place[1])[place[2]]
BytesIn(rows, places) == UNION {{p} \X (1..WidthIn(rows, p)) : p \in places}
Volume(rows, places) == Cardinality(BytesIn(rows, places))

Weighed ==
    /\ len = Volume(source, held) /\ spent = Volume(source, sent)
    /\ over \/ reply = "bytes" => Volume(source, PlacesIn(source, AllLines)) > Bound["bytes"]

\* Until its snapshot, the store holds what it is known to have held since the request
\* came; and after it, that is what the answer is of.
OfItsTime ==
    /\ phase = "accepted" => store \in stood
    /\ phase \notin {"accepted", "ended"} \/ reply = "whole" \/ sent # {} => source \in stood

AnswerInv ==
    /\ AnswerTypes /\ Idle
    /\ request # NoRequest => Writing /\ Told /\ Counted /\ Reserved /\ Weighed /\ OfItsTime

-----------------------------------------------------------------------------
(* Lines and their pieces                                                  *)

LEMMA NoPlaces == \A rows : PlacesIn(rows, {}) = {}
BY DEF PlacesIn

LEMMA OneMoreLine ==
  \A rows, lines, n :
    PlacesIn(rows, lines \cup {n}) = PlacesIn(rows, lines) \cup Cells(n, Count(rows, n))
BY DEF PlacesIn

LEMMA NoCells == \A n : Cells(n, 0) = {}
BY DEF Cells

LEMMA OneMoreCell ==
  ASSUME NEW n, NEW k \in Nat \ {0}
  PROVE  Cells(n, k) = Cells(n, k - 1) \cup {<<n, k>>}
<1>1. 1..k = (1..k - 1) \cup {k}
  OBVIOUS
<1> QED
  BY <1>1 DEF Cells

LEMMA SourcesAreRows == \A rows \in Stores \cup {<<>>} : rows \in Seq(Seq(Nat))
<1> TAKE rows \in Stores \cup {<<>>}
<1>1. CASE rows = <<>>
  BY <1>1
<1> QED
  BY <1>1, RowsAreWidths

LEMMA RowsOfWidths ==
  ASSUME AnswerTypes, NEW n \in Nat
  PROVE  /\ Len(source) \in Nat
         /\ Pieces(n) = Row(source, n) /\ Len(Pieces(n)) = Count(source, n)
         /\ Row(source, n) \in Seq(Nat)
         /\ Count(source, n) \in Nat
<1>1. source \in Seq(Seq(Nat))
  BY SourcesAreRows DEF AnswerTypes
<1>2. Pieces(n) = Row(source, n)
  BY DEF Pieces, Row
<1>3. Row(source, n) \in Seq(Nat)
  BY <1>1, RowsAreWidths DEF Row
<1> QED
  BY <1>1, <1>2, <1>3 DEF Count

LEMMA RequestsAreSome == \A r \in Requests : r # NoRequest
<1> SUFFICES ASSUME NEW r \in Requests, r = NoRequest PROVE FALSE
  OBVIOUS
<1>1. "budget" \in DOMAIN r
  BY DEF Requests
<1> QED
  BY <1>1 DEF NoRequest

LEMMA BoundIsNumber ==
  ASSUME AnswerTypes, request # NoRequest
  PROVE  /\ Bound["rows"] \in Nat /\ Bound["bytes"] \in Nat
         /\ Bound["bytes"] <= Limit["bytes"]
<1>1. request \in Requests
  BY DEF AnswerTypes
<1>2. "rows" \in Size /\ "bytes" \in Size
  BY DEF Size
<1> QED
  BY <1>1, <1>2, BoundIsBounded DEF Bound

-----------------------------------------------------------------------------
(* Every step keeps the invariant                                          *)

(* A piece that is written fits, and so does the memory reserved for it.   *)
LEMMA PieceFits ==
  ASSUME AnswerTypes, request # NoRequest, WritePiece
  PROVE  /\ len' \in Nat /\ capacity' \in Nat
         /\ len' <= Cap /\ len' <= capacity' 
         /\ capacity' = capacity \/ capacity' <= Cap
<1>1. line \in Nat /\ piece \in 1..Len(Pieces(line))
  <2>1. line \in Nat /\ piece \in Nat \ {0} /\ piece <= Len(Pieces(line))
    BY DEF AnswerTypes, WritePiece
  <2> QED
    BY <2>1, RowsOfWidths
<1>2. Pieces(line)[piece] \in Nat
  <2>1. Pieces(line) \in Seq(Nat)
    BY <1>1, RowsOfWidths
  <2> QED
    BY <1>1, <2>1
<1>3. Cap \in Nat
  BY BoundIsNumber DEF Cap, AnswerTypes
<1>4. len \in Nat /\ capacity \in Nat
  BY DEF AnswerTypes
<1> DEFINE needed == len + Pieces(line)[piece]
<1>5. needed \in Nat
  BY <1>2, <1>4
<1>6. needed <= Cap /\ len' = needed /\ capacity' = Grown(needed)
  BY DEF WritePiece
<1> HIDE DEF needed
<1>7. CASE needed <= capacity
  BY <1>4, <1>5, <1>6, <1>7 DEF Grown
<1>8. CASE ~(needed <= capacity)
  <2>1. Larger(2 * capacity, needed) \in Nat /\ Larger(2 * capacity, needed) >= needed
    BY <1>4, <1>5, SmallerAndLarger
  <2>2. capacity' = Smaller(Larger(2 * capacity, needed), Cap)
    BY <1>6, <1>8 DEF Grown
  <2>3. capacity' \in Nat /\ needed <= capacity' /\ capacity' <= Cap
    BY <1>3, <1>5, <1>6, <2>1, <2>2 DEF Smaller
  <2> QED
    BY <1>5, <1>6, <2>3
<1> QED
  BY <1>7, <1>8

LEMMA AnswerTypesKept ==
  ASSUME AnswerTypes, Idle, [AnswerNext]_answer_vars PROVE AnswerTypes'
<1> USE DEF AnswerTypes, writer, Ended, Empty
<1>1. ASSUME NEW r \in Requests, Request(r) PROVE AnswerTypes'
  BY <1>1 DEF Request
<1>2. CASE Snapshot
  BY <1>2 DEF Snapshot
<1>3. CASE Poll
  BY <1>3 DEF Poll, Stop
<1>4. CASE EndOfRows
  BY <1>4 DEF EndOfRows, Stop
<1>5. CASE NextRow
  BY <1>5 DEF NextRow, Stop
<1>6. CASE WritePiece
  <2>1. len' \in Nat /\ capacity' \in Nat
    BY <1>6, PieceFits DEF Idle, WritePiece
  <2> QED
    BY <1>6, <2>1 DEF WritePiece
<1>7. CASE RefusePiece
  BY <1>7 DEF RefusePiece
<1>8. CASE EndLine
  BY <1>8 DEF EndLine
<1>9. CASE Settle
  BY <1>9 DEF Settle
<1>10. CASE HandOut
  <2>1. over' \in BOOLEAN
    BY <1>10 DEF HandOut
  <2> QED
    BY <1>10, <2>1 DEF HandOut
<1>11. CASE Expire
  BY <1>11 DEF Expire
<1>12. CASE GiveUp
  BY <1>12 DEF GiveUp
<1>13. CASE Close
  <2>1. over' \in BOOLEAN /\ late' \in BOOLEAN
    BY <1>13 DEF Close
  <2> QED
    BY <1>13, <2>1 DEF Close
<1>14. ASSUME NEW rows \in Stores, Write(rows) PROVE AnswerTypes'
  BY <1>14 DEF Write
<1>15. CASE UNCHANGED answer_vars
  BY <1>15 DEF answer_vars
<1> QED
  BY <1>1, <1>2, <1>3, <1>4, <1>5, <1>6, <1>7, <1>8, <1>9, <1>10, <1>11, <1>12, <1>13,
     <1>14, <1>15 DEF AnswerNext

LEMMA IdleKept ==
  ASSUME AnswerTypes, Idle, [AnswerNext]_answer_vars PROVE Idle'
<1> SUFFICES ASSUME request' = NoRequest PROVE (phase = "ended" /\ Fresh)'
  BY DEF Idle
<1>1. ASSUME NEW r \in Requests, Request(r) PROVE FALSE
  BY <1>1, RequestsAreSome DEF Request
<1>2. CASE Close
  BY <1>2 DEF Close, Empty, Fresh
<1>3. CASE UNCHANGED answer_vars
  BY <1>3 DEF Idle, Fresh, answer_vars
<1>4. CASE request' = request /\ phase # "ended"
  BY <1>4 DEF Idle
<1> QED
  BY <1>1, <1>2, <1>3, <1>4 DEF AnswerNext, Snapshot, Poll, EndOfRows, NextRow, WritePiece,
     RefusePiece, EndLine, Settle, HandOut, Expire, GiveUp, Write

LEMMA BoundKept == request' = request => Bound' = Bound
BY DEF Bound

LEMMA BoundIsNumberNext ==
  ASSUME AnswerTypes', request' # NoRequest
  PROVE  Bound["rows"]' \in Nat /\ Bound["bytes"]' \in Nat
<1>1. request' \in Requests
  BY DEF AnswerTypes
<1>2. "rows" \in Size /\ "bytes" \in Size
  BY DEF Size
<1> QED
  BY <1>1, <1>2, BoundIsBounded DEF Bound

LEMMA ReservedKept ==
  ASSUME AnswerInv, AnswerTypes', [AnswerNext]_answer_vars, request' # NoRequest
  PROVE  Reserved'
<1> USE DEF AnswerTypes
<1>1. Bound["bytes"]' \in Nat
  BY BoundIsNumberNext
<1>2. request' = request => Bound["bytes"]' = Bound["bytes"]
  BY BoundKept
<1>3. request # NoRequest => Reserved
  BY DEF AnswerInv
<1>4. AnswerTypes
  BY DEF AnswerInv
<1>5. ASSUME NEW r \in Requests, Request(r) PROVE Reserved'
  <2>1. len = 0 /\ capacity = 0 /\ spent = 0
    BY <1>5 DEF AnswerInv, Idle, Fresh, Request
  <2> QED
    BY <1>1, <1>5, <2>1 DEF Request, writer, Reserved
<1>6. CASE WritePiece
  <2>1. request # NoRequest
    BY <1>6 DEF WritePiece
  <2>2. /\ len' \in Nat /\ capacity' \in Nat
        /\ len' <= Cap /\ len' <= capacity'
        /\ capacity' = capacity \/ capacity' <= Cap
    BY <1>4, <1>6, <2>1, PieceFits
  <2>3. spent' = spent /\ request' = request
    BY <1>6 DEF WritePiece
  <2>4. Bound["bytes"] \in Nat
    BY <1>1, <1>2, <2>3
  <2> QED
    BY <1>2, <1>3, <1>4, <2>1, <2>2, <2>3, <2>4 DEF Cap, Reserved
<1>7. CASE Settle
  BY <1>1, <1>2, <1>3, <1>4, <1>7 DEF Settle, Reserved, writer
<1>8. CASE HandOut
  BY <1>1, <1>2, <1>3, <1>4, <1>8 DEF HandOut, Reserved, writer, Empty
<1>9. CASE UNCHANGED <<request, len, capacity, spent>>
  BY <1>2, <1>3, <1>9 DEF Reserved
<1>10. CASE Close
  BY <1>10 DEF Close
<1> QED
  BY <1>5, <1>6, <1>7, <1>8, <1>9, <1>10 DEF AnswerNext, Snapshot, Poll, EndOfRows, NextRow,
     RefusePiece, EndLine, Expire, GiveUp, Write, writer, answer_vars

LEMMA CountedKept ==
  ASSUME AnswerInv, AnswerTypes', [AnswerNext]_answer_vars, request' # NoRequest
  PROVE  Counted'
<1>1. Bound["rows"]' \in Nat
  BY BoundIsNumberNext
<1>2. request' = request => Bound["rows"]' = Bound["rows"]
  BY BoundKept
<1>3. request # NoRequest => Counted /\ Writing
  BY DEF AnswerInv
<1>4. line \in Nat /\ line' \in Nat /\ Len(source) \in Nat /\ Len(source') \in Nat
  <2>1. source \in Seq(Seq(Nat)) /\ source' \in Seq(Seq(Nat))
    BY SourcesAreRows DEF AnswerTypes, AnswerInv
  <2> QED
    BY <2>1 DEF AnswerTypes, AnswerInv
<1>5. ASSUME NEW r \in Requests, Request(r) PROVE Counted'
  <2>1. phase = "ended" /\ line = 0 /\ fault = "none" /\ reply = "none"
    BY <1>5 DEF AnswerInv, Idle, Fresh, Request
  <2> QED
    BY <1>1, <1>5, <2>1 DEF Request, Counted, Ended
<1>6. CASE Snapshot
  <2>1. fault = "none" /\ reply = "none" /\ request # NoRequest
    BY <1>6 DEF AnswerInv, Idle, Fresh, Snapshot, Writing
  <2> QED
    BY <1>1, <1>2, <1>4, <1>6, <2>1 DEF Snapshot, Counted
<1>7. CASE EndOfRows
  BY <1>2, <1>3, <1>4, <1>7 DEF EndOfRows, Counted, Stop, Ended
<1>8. CASE NextRow
  BY <1>1, <1>2, <1>3, <1>4, <1>8 DEF NextRow, Counted, Stop, Ended
<1>9. CASE RefusePiece
  BY <1>2, <1>3, <1>9 DEF RefusePiece, Counted
<1>10. CASE EndLine
  BY <1>1, <1>2, <1>3, <1>4, <1>10 DEF EndLine, Counted, Writing
<1>11. CASE Settle
  BY <1>2, <1>3, <1>11 DEF Settle, Counted, Ended
<1>12. CASE HandOut
  BY <1>1, <1>2, <1>3, <1>4, <1>12 DEF HandOut, Counted, Ended, Writing
<1>13. CASE GiveUp
  BY <1>2, <1>3, <1>13 DEF GiveUp, Counted, Ended
<1>14. CASE Poll
  BY <1>2, <1>3, <1>14 DEF Poll, Counted, Ended, Stop
<1>15. CASE UNCHANGED <<request, source, phase, line, fault, reply>>
  BY <1>2, <1>3, <1>15 DEF Counted
<1>16. CASE Close
  BY <1>16 DEF Close
<1> QED
  BY <1>5, <1>6, <1>7, <1>8, <1>9, <1>10, <1>11, <1>12, <1>13, <1>14, <1>15, <1>16
     DEF AnswerNext, WritePiece, Expire, Write, answer_vars

(* What the writer holds, as each action leaves it.                        *)
LEMMA WritingKept ==
  ASSUME AnswerInv, AnswerTypes', [AnswerNext]_answer_vars, request' # NoRequest
  PROVE  Writing'
<1>1. request # NoRequest => Writing
  BY DEF AnswerInv
<1>2. AnswerTypes /\ line \in Nat /\ piece \in Nat \ {0} /\ Len(source) \in Nat
  BY SourcesAreRows DEF AnswerInv, AnswerTypes
<1>3. Len(Pieces(line)) = Count(source, line) /\ Count(source, line) \in Nat
  BY <1>2, RowsOfWidths
<1>4. phase \in {"accepted", "waiting", "next", "writing", "written", "failed"} =>
        request # NoRequest
  BY DEF AnswerInv, Idle
<1>5. ASSUME NEW r \in Requests, Request(r) PROVE Writing'
  BY <1>5 DEF AnswerInv, Idle, Fresh, Request, Writing, Ended, writer
<1>6. CASE Snapshot
  <2>1. Fresh
    BY <1>1, <1>4, <1>6 DEF Snapshot, Writing
  <2>2. /\ request' = request /\ held' = {} /\ over' = over /\ piece' = 1 /\ source' = store
        /\ phase' = (IF request.streamed THEN "waiting" ELSE "writing")
        /\ line' = (IF request.streamed THEN 1 ELSE 0)
    BY <1>6, <2>1 DEF Snapshot, Fresh, writer
  <2>3. Len(source') \in Nat /\ Count(source', line') \in Nat
    <3>1. source' \in Seq(Seq(Nat))
      BY SourcesAreRows DEF AnswerTypes
    <3> QED
      BY <3>1, RowsAreWidths DEF Row, Count
  <2>4. LinesBefore(line)' = {}
    BY <2>2 DEF LinesBefore
  <2>5. PlacesIn(source, LinesBefore(line))' = {}
    BY <2>4, NoPlaces
  <2>6. Cells(line, piece - 1)' = {}
    BY <2>2, NoCells
  <2> QED
    BY <2>2, <2>3, <2>5, <2>6 DEF Writing, HeldIs
<1>7. CASE Poll
  BY <1>1, <1>4, <1>7 DEF Poll, Writing, Stop, Ended, HeldIs, LinesBefore, writer
<1>8. CASE EndOfRows
  <2>1. Writing
    BY <1>1, <1>4, <1>8 DEF EndOfRows
  <2>2. CASE phase' = "writing"
    <3>1. /\ ~request.streamed /\ piece' = 1 /\ phase = "next"
          /\ UNCHANGED <<request, source, line, held, over>>
      BY <1>8, <2>2 DEF EndOfRows, Stop, Ended, writer
    <3>2. Cells(line, piece - 1)' = {}
      BY <3>1, NoCells
    <3>3. HeldIs(PlacesIn(source, LinesBefore(line))) /\ line \in 1..Len(source) + 1
      BY <2>1, <3>1 DEF Writing
    <3>4. HeldIs(PlacesIn(source, LinesBefore(line)) \cup Cells(line, piece - 1))'
      BY <3>1, <3>2, <3>3 DEF HeldIs, LinesBefore
    <3> QED
      BY <1>2, <1>3, <2>2, <3>1, <3>3, <3>4 DEF Writing
  <2>3. CASE phase' # "writing"
    BY <1>8, <2>3 DEF EndOfRows, Stop, Ended, Writing
  <2> QED
    BY <2>2, <2>3
<1>9. CASE NextRow
  <2>1. Writing
    BY <1>1, <1>4, <1>9 DEF NextRow
  <2>2. CASE phase' = "writing"
    <3>1. /\ piece' = 1 /\ phase = "next" /\ line <= Len(source)
          /\ UNCHANGED <<request, source, line, held, over>>
      BY <1>9, <2>2 DEF NextRow, Stop, Ended, writer
    <3>2. Cells(line, piece - 1)' = {}
      BY <3>1, NoCells
    <3>3. HeldIs(PlacesIn(source, LinesBefore(line))) /\ line \in 1..Len(source) + 1
      BY <2>1, <3>1 DEF Writing
    <3>4. HeldIs(PlacesIn(source, LinesBefore(line)) \cup Cells(line, piece - 1))'
      BY <3>1, <3>2, <3>3 DEF HeldIs, LinesBefore
    <3>5. line \in 1..Len(source)
      BY <1>2, <3>1, <3>3
    <3> QED
      BY <1>2, <1>3, <2>2, <3>1, <3>4, <3>5 DEF Writing
  <2>3. CASE phase' # "writing"
    BY <1>9, <2>3 DEF NextRow, Stop, Ended, Writing
  <2> QED
    BY <2>2, <2>3
<1>10. CASE WritePiece
  <2>1. Writing
    BY <1>1, <1>4, <1>10 DEF WritePiece
  <2>2. /\ phase = "writing" /\ piece <= Count(source, line)
        /\ held' = held \cup {<<line, piece>>} /\ piece' = piece + 1
        /\ UNCHANGED <<request, source, phase, line, over>>
    BY <1>3, <1>10 DEF WritePiece
  <2>3. Cells(line, piece) = Cells(line, piece - 1) \cup {<<line, piece>>}
    BY <1>2, OneMoreCell
  <2>4. Cells(line, piece - 1)' = Cells(line, piece)
    BY <1>2, <2>2
  <2>5. HeldIs(PlacesIn(source, LinesBefore(line)) \cup Cells(line, piece - 1))
    BY <2>1, <2>2 DEF Writing
  <2>6. HeldIs(PlacesIn(source, LinesBefore(line)) \cup Cells(line, piece - 1))'
    BY <2>2, <2>3, <2>4, <2>5 DEF HeldIs, LinesBefore
  <2> QED
    BY <1>2, <1>3, <2>1, <2>2, <2>6 DEF Writing
<1>11. CASE RefusePiece
  <2>1. Writing /\ over' /\ phase = "writing"
    BY <1>1, <1>4, <1>11 DEF RefusePiece
  <2>3. CASE phase' = "writing"
    <3>1. /\ piece' = piece + 1 /\ piece <= Count(source, line) /\ held' = held
          /\ UNCHANGED <<request, source, line>>
      BY <1>3, <1>11, <2>3 DEF RefusePiece
    <3>2. Cells(line, piece - 1)' = Cells(line, piece - 1) \cup {<<line, piece>>}
      <4>1. Cells(line, piece - 1)' = Cells(line, piece)
        BY <1>2, <3>1
      <4> QED
        BY <1>2, <4>1, OneMoreCell
    <3>3. HeldIs(PlacesIn(source, LinesBefore(line)) \cup Cells(line, piece - 1))
      BY <2>1 DEF Writing
    <3>4. HeldIs(PlacesIn(source, LinesBefore(line)) \cup Cells(line, piece - 1))'
      BY <2>1, <3>1, <3>2, <3>3 DEF HeldIs, LinesBefore
    <3> QED
      BY <1>2, <1>3, <2>1, <2>3, <3>1, <3>4 DEF Writing
  <2>4. CASE phase' # "writing"
    BY <1>11, <2>1, <2>4 DEF RefusePiece, Writing
  <2> QED
    BY <2>3, <2>4
<1>12. CASE EndLine
  <2>1. Writing
    BY <1>1, <1>4, <1>12 DEF EndLine
  <2>2. /\ phase = "writing" /\ UNCHANGED <<request, source, held, over>>
        /\ request.streamed \/ line > Len(source) => phase' = "written" /\ line' = line
        /\ ~(request.streamed \/ line > Len(source)) => phase' = "next" /\ line' = line + 1
    BY <1>12 DEF EndLine, writer
  <2>3. HeldIs(PlacesIn(source, LinesBefore(line)) \cup Cells(line, Count(source, line)))
    <3>1. piece > Count(source, line) /\ piece <= Count(source, line) + 1
      BY <1>3, <1>12, <2>1 DEF EndLine, Writing
    <3>2. piece - 1 = Count(source, line)
      BY <1>2, <1>3, <3>1
    <3> QED
      BY <2>1, <2>2, <3>2 DEF Writing
  <2>4. HeldIs(PlacesIn(source, LinesBefore(line) \cup {line}))
    BY <2>3, OneMoreLine
  <2>5. CASE request.streamed \/ line > Len(source)
    <3>1. /\ line <= Len(source) + 1
          /\ request.streamed => line \in 1..Len(source)
      BY <2>1, <2>2 DEF Writing
    <3>2. phase' = "written" /\ line' = line
      BY <2>2, <2>5
    <3>3. HeldIs(PlacesIn(source, LinesBefore(line) \cup {line}))'
      BY <2>2, <2>4, <3>2 DEF HeldIs, LinesBefore
    <3>4. ~request.streamed => line = Len(source) + 1
      BY <1>2, <2>5, <3>1
    <3> QED
      BY <2>2, <3>1, <3>2, <3>3, <3>4 DEF Writing
  <2>6. CASE ~(request.streamed \/ line > Len(source))
    <3>1. LinesBefore(line)' = LinesBefore(line) \cup {line}
      <4>1. 0..line + 1 - 1 = (0..line - 1) \cup {line}
        BY <1>2
      <4>2. line' = line + 1 /\ request' = request /\ ~request.streamed
        BY <2>2, <2>6
      <4>3. LinesBefore(line) = 0..line - 1
        BY <4>2 DEF LinesBefore
      <4>4. LinesBefore(line)' = 0..line' - 1
        BY <4>2 DEF LinesBefore
      <4> QED
        BY <4>1, <4>2, <4>3, <4>4
    <3>2. HeldIs(PlacesIn(source, LinesBefore(line)))'
      BY <2>2, <2>4, <3>1 DEF HeldIs
    <3> QED
      BY <1>2, <2>2, <2>6, <3>2 DEF Writing
  <2> QED
    BY <2>5, <2>6
<1>13. CASE phase' = "ended"
  BY <1>13 DEF Writing
<1>14. CASE HandOut
  <2>1. CASE phase' # "ended"
    <3>1. Writing
      BY <1>1, <1>4, <1>14 DEF HandOut
    <3>2. /\ phase = "written" /\ request.streamed /\ phase' = "waiting" /\ line' = line + 1
          /\ held' = {} /\ UNCHANGED <<request, source>>
      BY <1>14, <2>1 DEF HandOut, Ended, Empty
    <3>3. LinesBefore(line)' = {}
      BY <3>2 DEF LinesBefore
    <3>4. PlacesIn(source, LinesBefore(line))' = {}
      BY <3>3, NoPlaces
    <3> QED
      BY <1>2, <3>1, <3>2, <3>4 DEF Writing, HeldIs
  <2> QED
    BY <1>13, <2>1
<1>15. CASE UNCHANGED <<request, source, phase, line, piece, held, len, capacity, over, fault,
                        sent, spent, reply>>
  BY <1>1, <1>4, <1>13, <1>15 DEF Writing, Fresh, HeldIs, LinesBefore, AnswerTypes
<1>16. CASE Close
  BY <1>16 DEF Close
<1> QED
  BY <1>5, <1>6, <1>7, <1>8, <1>9, <1>10, <1>11, <1>12, <1>13, <1>14, <1>15, <1>16
     DEF AnswerNext, Expire, GiveUp, Write, Settle, Ended, writer, answer_vars

(* What the caller has been given.                                         *)
LEMMA ToldKept ==
  ASSUME AnswerInv, AnswerTypes', [AnswerNext]_answer_vars, request' # NoRequest
  PROVE  Told'
<1>1. /\ request # NoRequest => Told /\ Writing
      /\ phase # "ended" => request # NoRequest
  BY DEF AnswerInv, Idle
<1>2. line \in Nat /\ Len(source) \in Nat
  BY SourcesAreRows DEF AnswerInv, AnswerTypes
<1>3. 1..0 = {} /\ 1..0 - 1 = {} /\ 1..1 - 1 = {}
  OBVIOUS
<1>4. PlacesIn(source', {}) = {}
  BY NoPlaces
<1>5. ASSUME NEW r \in Requests, Request(r) PROVE Told'
  <2>1. sent = {} /\ line = 0 /\ reply = "none"
    BY <1>5 DEF AnswerInv, Idle, Fresh, Request
  <2>2. sent' = {} /\ line' = 0 /\ reply' \in {"none", "argument"}
    BY <1>5, <2>1 DEF Request, Ended
  <2>3. phase' # "ended" => reply' = "none"
    BY <1>5, <2>1 DEF Request, Ended
  <2> QED
    BY <1>3, <1>4, <2>2, <2>3 DEF Told
<1>6. CASE Snapshot
  <2>1. Fresh
    BY <1>1, <1>6 DEF Snapshot, Writing
  <2>2. sent' = {} /\ reply' = "none" /\ request' = request /\ (request.streamed => line' = 1)
    BY <1>6, <2>1 DEF Snapshot, Fresh
  <2> QED
    BY <1>3, <1>4, <2>2 DEF Told
<1>7. CASE Poll
  BY <1>1, <1>7 DEF Poll, Told, Stop, Ended
<1>8. CASE EndOfRows
  <2>1. Told /\ phase = "next" /\ line > Len(source) /\ line \in 1..Len(source) + 1
    BY <1>1, <1>8 DEF EndOfRows, Writing
  <2>2. line = Len(source) + 1 /\ line - 1 = Len(source)
    BY <1>2, <2>1
  <2>3. request.streamed => sent = PlacesIn(source, AllLines)
    BY <2>1, <2>2 DEF Told, AllLines
  <2>4. UNCHANGED <<request, source, line, sent>> /\ AllLines' = AllLines
    BY <1>8 DEF EndOfRows, AllLines
  <2>5. \/ reply' = reply /\ ~request.streamed
        \/ reply' \in {"timeout", "whole"} /\ request.streamed /\ phase' = "ended"
    BY <1>8 DEF EndOfRows, Stop, Ended
  <2> QED
    BY <2>1, <2>2, <2>3, <2>4, <2>5 DEF Told
<1>9. CASE NextRow
  BY <1>1, <1>9 DEF NextRow, Told, Stop, Ended
<1>10. CASE EndLine
  <2>1. Told /\ UNCHANGED <<request, source, sent, reply>> /\ phase # "ended"
    BY <1>1, <1>10 DEF EndLine
  <2>2. request.streamed => line' = line
    BY <1>10 DEF EndLine
  <2> QED
    BY <2>1, <2>2 DEF Told
<1>11. CASE Settle
  <2>1. /\ Told /\ Writing /\ ~request.streamed /\ reply = "none" /\ sent = {}
        /\ UNCHANGED <<request, source, line>> /\ phase' = "ended"
    BY <1>1, <1>11 DEF Settle, Ended, Told
  <2>2. CASE phase = "written" /\ ~over
    <3>1. line = Len(source) + 1 /\ HeldIs(PlacesIn(source, LinesBefore(line) \cup {line}))
      BY <2>1, <2>2 DEF Writing
    <3>2. LinesBefore(line) = 0..line - 1
      BY <2>1 DEF LinesBefore
    <3>3. (0..line - 1) \cup {line} = 0..Len(source) + 1
      BY <1>2, <3>1
    <3>4. held = PlacesIn(source, 0..Len(source) + 1)
      BY <2>2, <3>1, <3>2, <3>3 DEF HeldIs
    <3>5. AllLines' = 0..Len(source) + 1
      BY <2>1 DEF AllLines
    <3>6. sent' = held /\ reply' = "whole"
      BY <1>11, <2>2 DEF Settle, Ended
    <3> QED
      BY <2>1, <3>1, <3>4, <3>5, <3>6 DEF Told
  <2>3. CASE ~(phase = "written" /\ ~over)
    <3>1. sent' = {}
      BY <1>11, <2>1, <2>3 DEF Settle
    <3>2. phase = "failed" \/ over
      BY <1>11, <2>3 DEF Settle
    <3>3. reply' # "whole"
      BY <1>11, <3>2 DEF Settle, Ended, AnswerInv, AnswerTypes
    <3> QED
      BY <2>1, <3>1, <3>3 DEF Told
  <2> QED
    BY <2>2, <2>3
<1>12. CASE HandOut
  <2>1. Told /\ Writing /\ request.streamed /\ reply = "none" /\ UNCHANGED <<request, source>>
    BY <1>1, <1>12 DEF HandOut, Told
  <2>2. CASE over \/ phase = "failed" \/ late
    <3>1. sent' = sent /\ line' = line /\ phase' = "ended"
      BY <1>12, <2>2 DEF HandOut, Ended
    <3>2. reply' # "whole"
      BY <1>12, <2>2 DEF HandOut, Ended, AnswerInv, AnswerTypes
    <3> QED
      BY <2>1, <3>1, <3>2 DEF Told
  <2>3. CASE ~(over \/ phase = "failed" \/ late)
    <3>1. /\ sent' = sent \cup held /\ line' = line + 1 /\ phase' = "waiting"
          /\ reply' = "none" /\ phase = "written" /\ ~over
      BY <1>12, <2>1, <2>3 DEF HandOut
    <3>2. line \in 1..Len(source) /\ held = PlacesIn(source, LinesBefore(line) \cup {line})
      BY <2>1, <3>1 DEF Writing, HeldIs
    <3>3. LinesBefore(line) = {}
      BY <2>1 DEF LinesBefore
    <3>4. held = Cells(line, Count(source, line))
      <4>1. held = PlacesIn(source, LinesBefore(line)) \cup Cells(line, Count(source, line))
        BY <3>2, OneMoreLine
      <4>2. PlacesIn(source, LinesBefore(line)) = {}
        BY <3>3, NoPlaces
      <4> QED
        BY <4>1, <4>2
    <3>5. sent = PlacesIn(source, 1..line - 1)
      BY <2>1 DEF Told
    <3>6. sent' = PlacesIn(source, (1..line - 1) \cup {line})
      BY <3>1, <3>4, <3>5, OneMoreLine
    <3>7. (1..line - 1) \cup {line} = 1..line' - 1
      BY <1>2, <3>1, <3>2
    <3>8. sent' = PlacesIn(source', 1..line' - 1)
      BY <2>1, <3>6, <3>7
    <3> QED
      BY <2>1, <3>1, <3>8 DEF Told
  <2> QED
    BY <2>2, <2>3
<1>13. CASE GiveUp
  BY <1>1, <1>13 DEF GiveUp, Told, Ended
<1>14. CASE RefusePiece
  BY <1>1, <1>14 DEF RefusePiece, Told, AllLines
<1>15. CASE UNCHANGED <<request, source, phase, line, sent, reply>>
  BY <1>1, <1>15 DEF Told, AllLines
<1>16. CASE Close
  BY <1>16 DEF Close
<1> QED
  BY <1>5, <1>6, <1>7, <1>8, <1>9, <1>10, <1>11, <1>12, <1>13, <1>14, <1>15, <1>16
     DEF AnswerNext, WritePiece, Expire, Write, answer_vars

-----------------------------------------------------------------------------
(* Bytes: how many so many places of a text have.                          *)

\* Places of the rows of an answer.
IsRows(rows) == rows \in Seq(Seq(Nat))
IsPlaces(rows, places) ==
    IsFiniteSet(places) /\ \A p \in places : WidthIn(rows, p) \in Nat

LEMMA ImageIsFinite ==
  ASSUME NEW S, IsFiniteSet(S), NEW f, f = [x \in S |-> f[x]]
  PROVE  IsFiniteSet({f[x] : x \in S})
<1>1. f \in Surjection(S, {f[x] : x \in S})
  BY DEF Surjection
<1> QED
  BY <1>1, FS_Surjection

LEMMA NothingHasNoBytes == \A rows : Volume(rows, {}) = 0
<1>1. \A rows : BytesIn(rows, {}) = {}
  BY DEF BytesIn
<1> QED
  BY <1>1, FS_EmptySet DEF Volume

LEMMA BytesOfOne ==
  ASSUME NEW rows, NEW p, WidthIn(rows, p) \in Nat
  PROVE  LET bytes == {p} \X (1..WidthIn(rows, p))
         IN  IsFiniteSet(bytes) /\ Cardinality(bytes) = WidthIn(rows, p)
<1> DEFINE width == WidthIn(rows, p)
<1>1. IsFiniteSet({p}) /\ Cardinality({p}) = 1
  BY FS_Singleton
<1>2. width \in Nat
  OBVIOUS
<1> HIDE DEF width
<1>3. IsFiniteSet(1..width) /\ Cardinality(1..width) = width
  BY <1>2, FS_Interval, SMTT(30)
<1>4. /\ IsFiniteSet({p} \X (1..width))
      /\ Cardinality({p} \X (1..width)) = Cardinality({p}) * Cardinality(1..width)
  BY <1>1, <1>3, FS_Product
<1>5. Cardinality({p} \X (1..width)) = width
  BY <1>1, <1>2, <1>3, <1>4
<1> QED
  BY <1>4, <1>5 DEF width

LEMMA BytesAreFinite ==
  ASSUME NEW rows, NEW places, IsPlaces(rows, places)
  PROVE  IsFiniteSet(BytesIn(rows, places)) /\ Volume(rows, places) \in Nat
<1> DEFINE Of(p) == {p} \X (1..WidthIn(rows, p))
           all == {Of(p) : p \in places}
<1>1. IsFiniteSet(all)
  <2> DEFINE f == [p \in places |-> Of(p)]
  <2>1. all = {f[p] : p \in places}
    OBVIOUS
  <2>2. f = [p \in places |-> f[p]] /\ IsFiniteSet(places)
    BY DEF IsPlaces
  <2> HIDE DEF f, all
  <2> QED
    BY <2>1, <2>2, ImageIsFinite
<1>2. \A bytes \in all : IsFiniteSet(bytes)
  BY BytesOfOne DEF IsPlaces
<1>3. IsFiniteSet(UNION all)
  BY <1>1, <1>2, FS_UNION
<1> QED
  BY <1>3, FS_CardinalityType DEF BytesIn, Volume

LEMMA BytesAddUp ==
  ASSUME NEW rows, NEW S, NEW T, IsPlaces(rows, S), IsPlaces(rows, T), S \cap T = {}
  PROVE  IsPlaces(rows, S \cup T) /\ Volume(rows, S \cup T) = Volume(rows, S) + Volume(rows, T)
<1>1. BytesIn(rows, S \cup T) = BytesIn(rows, S) \cup BytesIn(rows, T)
  BY DEF BytesIn
<1>2. BytesIn(rows, S) \cap BytesIn(rows, T) = {}
  <2> SUFFICES ASSUME NEW b, b \in BytesIn(rows, S), b \in BytesIn(rows, T) PROVE FALSE
    OBVIOUS
  <2>1. b[1] \in S /\ b[1] \in T
    BY DEF BytesIn
  <2> QED
    BY <2>1
<1>3. IsPlaces(rows, S \cup T)
  BY FS_Union DEF IsPlaces
<1>4. IsFiniteSet(BytesIn(rows, S)) /\ IsFiniteSet(BytesIn(rows, T))
  BY BytesAreFinite
<1>5. Volume(rows, S) \in Nat /\ Volume(rows, T) \in Nat
  BY BytesAreFinite
<1>6. Volume(rows, S \cup T) =
        Volume(rows, S) + Volume(rows, T) - Cardinality(BytesIn(rows, S) \cap BytesIn(rows, T))
  BY <1>1, <1>4, FS_Union DEF Volume
<1>7. Cardinality(BytesIn(rows, S) \cap BytesIn(rows, T)) = 0
  BY <1>2, FS_EmptySet
<1> QED
  BY <1>3, <1>5, <1>6, <1>7

LEMMA OneMorePiece ==
  ASSUME NEW rows, NEW S, NEW p, IsPlaces(rows, S), WidthIn(rows, p) \in Nat, p \notin S
  PROVE  /\ IsPlaces(rows, S \cup {p})
         /\ Volume(rows, S \cup {p}) = Volume(rows, S) + WidthIn(rows, p)
<1>1. IsPlaces(rows, {p})
  BY FS_Singleton DEF IsPlaces
<1>2. BytesIn(rows, {p}) = {p} \X (1..WidthIn(rows, p))
  BY DEF BytesIn
<1>3. Volume(rows, {p}) = WidthIn(rows, p)
  BY <1>2, BytesOfOne DEF Volume
<1>4. S \cap {p} = {}
  OBVIOUS
<1> QED
  BY <1>1, <1>3, <1>4, BytesAddUp

LEMMA FewerHaveFewer ==
  ASSUME NEW rows, NEW T, NEW S \in SUBSET T, IsPlaces(rows, T)
  PROVE  IsPlaces(rows, S) /\ Volume(rows, S) <= Volume(rows, T)
<1>1. IsPlaces(rows, S)
  BY FS_Subset DEF IsPlaces
<1>2. BytesIn(rows, S) \subseteq BytesIn(rows, T)
  BY DEF BytesIn
<1> QED
  BY <1>1, <1>2, BytesAreFinite, FS_Subset DEF Volume

(* The places of so many lines are finitely many, and each has a width.    *)
LEMMA LinesHavePlaces ==
  ASSUME NEW rows, IsRows(rows), NEW lines, IsFiniteSet(lines), lines \subseteq Nat
  PROVE  IsPlaces(rows, PlacesIn(rows, lines))
<1> DEFINE Of(n) == Cells(n, Count(rows, n))
           all == {Of(n) : n \in lines}
<1>1. ASSUME NEW n \in Nat PROVE Row(rows, n) \in Seq(Nat) /\ Count(rows, n) \in Nat
  BY RowsAreWidths DEF Row, Count, IsRows
<1>2. ASSUME NEW n \in Nat PROVE IsFiniteSet(Of(n))
  <2> DEFINE count == Count(rows, n)
  <2>1. count \in Nat
    BY <1>1
  <2> HIDE DEF count
  <2>2. IsFiniteSet({n})
    BY FS_Singleton
  <2>3. IsFiniteSet({n} \X (1..count))
    <3>1. IsFiniteSet(1..count)
      BY <2>1, FS_Interval
    <3> QED
      BY <2>2, <3>1, FS_Product
  <2>4. Cells(n, count) = {n} \X (1..count)
    BY DEF Cells
  <2> QED
    BY <2>3, <2>4 DEF count
<1>3. IsFiniteSet(all)
  <2> DEFINE f == [n \in lines |-> Of(n)]
  <2>1. all = {f[n] : n \in lines}
    OBVIOUS
  <2>2. f = [n \in lines |-> f[n]]
    OBVIOUS
  <2> HIDE DEF f, all
  <2> QED
    BY <2>1, <2>2, ImageIsFinite
<1>4. \A cells \in all : IsFiniteSet(cells)
  <2> HIDE DEF Of
  <2> QED
    BY <1>2
<1>5. IsFiniteSet(UNION all)
  BY <1>3, <1>4, FS_UNION
<1>6. ASSUME NEW p \in PlacesIn(rows, lines) PROVE WidthIn(rows, p) \in Nat
  <2>1. PICK n \in lines : p \in Cells(n, Count(rows, n))
    BY DEF PlacesIn
  <2>2. PICK i \in 1..Count(rows, n) : p = <<n, i>>
    BY <2>1 DEF Cells
  <2>3. WidthIn(rows, p) = Row(rows, n)[i] /\ n \in Nat
    BY <2>2 DEF WidthIn
  <2> DEFINE row == Row(rows, n)
  <2>4. row \in Seq(Nat) /\ i \in 1..Len(row)
    BY <1>1, <2>2 DEF Count
  <2> HIDE DEF row
  <2>5. row[i] \in Nat
    BY <2>4
  <2> QED
    BY <2>3, <2>5 DEF row
<1> QED
  BY <1>5, <1>6 DEF IsPlaces, PlacesIn

(* The pieces handed out, those in the writer and the one that is next are *)
(* all of the text, and no piece is two of them.                           *)
LEMMA PiecesAreOfTheText ==
  ASSUME AnswerTypes, request # NoRequest, Writing, Told,
         phase = "writing", piece <= Count(source, line)
  PROVE  LET next == <<line, piece>>
         IN  /\ sent \cup held \cup {next} \subseteq PlacesIn(source, AllLines)
             /\ sent \cap held = {} /\ next \notin sent \cup held
             /\ IsPlaces(source, PlacesIn(source, AllLines))
             /\ WidthIn(source, next) = Pieces(line)[piece]
<1> DEFINE next == <<line, piece>>
           before == PlacesIn(source, LinesBefore(line))
<1>1. /\ line \in Nat /\ piece \in Nat \ {0} /\ Len(source) \in Nat
      /\ line <= Len(source) + 1 /\ IsRows(source) /\ Count(source, line) \in Nat
  BY RowsOfWidths, SourcesAreRows DEF AnswerTypes, Writing, IsRows
<1>2. held \subseteq before \cup Cells(line, piece - 1)
  BY DEF Writing, HeldIs
<1>3. line \in AllLines /\ AllLines \subseteq Nat
  BY <1>1 DEF Writing, AllLines
<1>4. next \in PlacesIn(source, AllLines) /\ Cells(line, piece - 1) \subseteq PlacesIn(source, AllLines)
  <2>1. next \in Cells(line, Count(source, line))
    BY <1>1 DEF Cells
  <2>2. Cells(line, piece - 1) \subseteq Cells(line, Count(source, line))
    BY <1>1 DEF Cells
  <2> QED
    BY <1>3, <2>1, <2>2 DEF PlacesIn
<1>5. \A lines : \A p \in PlacesIn(source, lines) : p[1] \in lines
  BY DEF PlacesIn, Cells
<1>6. \A p \in Cells(line, piece - 1) : p[1] = line /\ p[2] # piece
  BY <1>1 DEF Cells
<1>7. next[1] = line /\ next[2] = piece
  OBVIOUS
<1>8. sent \cup before \subseteq PlacesIn(source, AllLines)
  <2>1. \A lines : lines \subseteq AllLines => PlacesIn(source, lines) \subseteq PlacesIn(source, AllLines)
    BY DEF PlacesIn
  <2>2. CASE request.streamed
    <3>1. 1..line - 1 \subseteq AllLines /\ LinesBefore(line) \subseteq AllLines
      BY <1>1, <2>2 DEF AllLines, LinesBefore
    <3> QED
      BY <2>1, <2>2, <3>1 DEF Told
  <2>3. CASE ~request.streamed
    <3>1. sent = {} /\ LinesBefore(line) \subseteq AllLines
      BY <1>1, <2>3 DEF AllLines, LinesBefore, Told
    <3> QED
      BY <2>1, <3>1
  <2> QED
    BY <2>2, <2>3
<1>9. sent \cap held = {} /\ next \notin sent \cup held
  <2>1. CASE request.streamed
    <3>1. sent = PlacesIn(source, 1..line - 1) /\ line \notin 1..line - 1
      BY <1>1, <2>1 DEF Told
    <3>2. held \subseteq Cells(line, piece - 1)
      BY <1>2, <2>1, NoPlaces DEF LinesBefore
    <3> HIDE DEF next
    <3> QED
      BY <1>5, <1>6, <1>7, <3>1, <3>2
  <2>2. CASE ~request.streamed
    <3>1. sent = {} /\ line \notin LinesBefore(line)
      BY <1>1, <2>2 DEF Told, LinesBefore
    <3> HIDE DEF next
    <3> QED
      BY <1>2, <1>5, <1>6, <1>7, <3>1
  <2> QED
    BY <2>1, <2>2
<1>10. IsFiniteSet(AllLines)
  <2> DEFINE last == Len(source)
  <2>1. last \in Nat
    BY <1>1
  <2> HIDE DEF last
  <2>2. IsFiniteSet(1..last) /\ IsFiniteSet(0..last + 1)
    BY <2>1, FS_Interval
  <2> QED
    BY <2>2 DEF AllLines, last
<1>11. IsPlaces(source, PlacesIn(source, AllLines))
  BY <1>1, <1>3, <1>10, LinesHavePlaces
<1>12. WidthIn(source, next) = Pieces(line)[piece]
  BY <1>1, RowsOfWidths DEF WidthIn
<1> QED
  BY <1>2, <1>4, <1>8, <1>9, <1>11, <1>12

(* The writer's length is the bytes of what it holds, and what it refuses  *)
(* is past the bound with all that goes before it.                         *)
LEMMA WeighedKept ==
  ASSUME AnswerInv, AnswerTypes', [AnswerNext]_answer_vars, request' # NoRequest
  PROVE  Weighed'
<1>1. /\ request # NoRequest => Told /\ Writing /\ Weighed /\ Reserved
      /\ phase # "ended" => request # NoRequest
  BY DEF AnswerInv, Idle
<1>2. AnswerTypes
  BY DEF AnswerInv
<1>3. \A rows : Volume(rows, {}) = 0
  BY NothingHasNoBytes
<1>4. CASE UNCHANGED <<request, source, held, len, sent, spent, over, reply>>
  BY <1>1, <1>4 DEF Weighed, AllLines, Bound
<1>5. ASSUME NEW r \in Requests, Request(r) PROVE Weighed'
  <2>1. held = {} /\ len = 0 /\ over = FALSE /\ sent = {} /\ spent = 0 /\ reply = "none"
    BY <1>5 DEF AnswerInv, Idle, Fresh, Request
  <2>2. /\ held' = {} /\ len' = 0 /\ over' = FALSE /\ sent' = {} /\ spent' = 0
        /\ reply' \in {"none", "argument"}
    BY <1>5, <2>1 DEF Request, writer, Ended
  <2> QED
    BY <1>3, <2>2 DEF Weighed
<1>6. CASE Snapshot
  <2>1. Fresh
    BY <1>1, <1>6 DEF Snapshot, Writing
  <2>2. /\ held' = {} /\ len' = 0 /\ over' = FALSE /\ sent' = {} /\ spent' = 0
        /\ reply' = "none"
    BY <1>6, <2>1 DEF Snapshot, Fresh, writer
  <2> QED
    BY <1>3, <2>2 DEF Weighed
<1>7. ASSUME UNCHANGED <<request, source, held, len, sent, spent, over>>, request # NoRequest,
             reply' # "bytes" \/ over
      PROVE  Weighed'
  BY <1>1, <1>7 DEF Weighed, AllLines, Bound
<1>8. CASE WritePiece
  <2> DEFINE next == <<line, piece>>
  <2>1. /\ Told /\ Writing /\ Weighed /\ request # NoRequest /\ phase = "writing"
        /\ piece <= Count(source, line)
    BY <1>1, <1>2, <1>8, RowsOfWidths DEF WritePiece, AnswerTypes
  <2>2. /\ held \cup {next} \subseteq PlacesIn(source, AllLines) /\ next \notin held
        /\ IsPlaces(source, PlacesIn(source, AllLines))
        /\ WidthIn(source, next) = Pieces(line)[piece]
    BY <1>2, <2>1, PiecesAreOfTheText
  <2>3. /\ held' = held \cup {next} /\ len' = len + WidthIn(source, next)
        /\ UNCHANGED <<request, source, sent, spent, over, reply>>
    BY <1>8, <2>2 DEF WritePiece
  <2> HIDE DEF next
  <2>4. IsPlaces(source, held) /\ WidthIn(source, next) \in Nat
    BY <2>2, FewerHaveFewer DEF IsPlaces
  <2>5. Volume(source, held') = Volume(source, held) + WidthIn(source, next)
    BY <2>2, <2>3, <2>4, OneMorePiece
  <2>6. len' = Volume(source', held')
    BY <2>1, <2>3, <2>5 DEF Weighed
  <2> QED
    BY <2>1, <2>3, <2>6 DEF Weighed, AllLines, Bound
<1>9. CASE RefusePiece
  <2> DEFINE next == <<line, piece>>
             text == PlacesIn(source, AllLines)
  <2>1. /\ Told /\ Writing /\ Weighed /\ Reserved /\ request # NoRequest /\ phase = "writing"
        /\ piece <= Count(source, line)
    BY <1>1, <1>2, <1>9, RowsOfWidths DEF RefusePiece, AnswerTypes
  <2>2. /\ sent \cup held \cup {next} \subseteq text
        /\ sent \cap held = {} /\ next \notin sent \cup held
        /\ IsPlaces(source, text) /\ WidthIn(source, next) = Pieces(line)[piece]
    BY <1>2, <2>1, PiecesAreOfTheText
  <2>3. len + WidthIn(source, next) > Cap
    BY <1>9, <2>2 DEF RefusePiece
  <2> HIDE DEF next, text
  <2>4. IsPlaces(source, sent) /\ IsPlaces(source, held) /\ WidthIn(source, next) \in Nat
    <3>1. sent \in SUBSET text /\ held \in SUBSET text /\ next \in text
      BY <2>2
    <3> QED
      BY <2>2, <3>1, FewerHaveFewer DEF IsPlaces
  <2>5. /\ IsPlaces(source, sent \cup held)
        /\ Volume(source, sent \cup held) = spent + len
    BY <2>1, <2>2, <2>4, BytesAddUp DEF Weighed
  <2>6. Volume(source, sent \cup held \cup {next}) = spent + len + WidthIn(source, next)
    BY <2>2, <2>4, <2>5, OneMorePiece
  <2>7. Volume(source, sent \cup held \cup {next}) <= Volume(source, text)
    BY <2>2, FewerHaveFewer
  <2>8. Volume(source, text) \in Nat
    BY <2>2, BytesAreFinite
  <2>9. Bound["bytes"] \in Nat /\ spent \in Nat /\ len \in Nat /\ spent <= Bound["bytes"]
    BY <1>2, <2>1, BoundIsNumber DEF AnswerTypes, Reserved
  <2>10. Volume(source, text) > Bound["bytes"]
    BY <2>3, <2>4, <2>6, <2>7, <2>8, <2>9 DEF Cap
  <2>11. UNCHANGED <<request, source, held, len, sent, spent, reply>>
    BY <1>9 DEF RefusePiece
  <2> QED
    BY <2>1, <2>10, <2>11 DEF Weighed, AllLines, Bound, text
<1>10. CASE Settle
  <2>1. /\ Told /\ Weighed /\ request # NoRequest /\ reply = "none"
        /\ ~request.streamed /\ sent = {} /\ phase # "ended"
        /\ UNCHANGED <<request, source, held, len, over>>
    BY <1>1, <1>10 DEF Settle, Told, writer
  <2>2. \/ sent' = held /\ spent' = len
        \/ UNCHANGED <<sent, spent>>
    BY <1>10 DEF Settle
  <2>3. reply' = "bytes" => over
    BY <1>2, <1>10 DEF Settle, Ended, AnswerTypes
  <2> QED
    BY <2>1, <2>2, <2>3 DEF Weighed, AllLines, Bound
<1>11. CASE HandOut
  <2>1. /\ Told /\ Writing /\ Weighed /\ request # NoRequest /\ reply = "none"
        /\ request.streamed /\ phase \in {"written", "failed"}
        /\ UNCHANGED <<request, source>>
    BY <1>1, <1>11 DEF HandOut, Told
  <2>2. CASE over \/ phase = "failed" \/ late
    <3>1. UNCHANGED <<held, len, over, sent, spent>>
      BY <1>11, <2>2 DEF HandOut, writer
    <3>2. reply' # "bytes" \/ over
      BY <1>2, <1>11, <2>2 DEF HandOut, Ended, AnswerTypes
    <3> QED
      BY <1>7, <2>1, <3>1, <3>2
  <2>3. CASE ~(over \/ phase = "failed" \/ late)
    <3>1. /\ sent' = sent \cup held /\ spent' = spent + len
          /\ held' = {} /\ len' = 0 /\ over' = FALSE /\ reply' = "none"
          /\ phase = "written"
      BY <1>11, <2>1, <2>3 DEF HandOut, Empty
    <3>2. /\ line \in 1..Len(source) /\ held = PlacesIn(source, {line})
          /\ sent = PlacesIn(source, 1..line - 1)
      <4>1. {} \cup {line} = {line}
        OBVIOUS
      <4> QED
        BY <2>1, <2>3, <3>1, <4>1 DEF Writing, HeldIs, LinesBefore, Told
    <3>3. IsRows(source) /\ line \in Nat /\ 1..line - 1 \subseteq Nat
      BY <1>2, SourcesAreRows DEF AnswerTypes, IsRows
    <3>4. IsPlaces(source, held)
      BY <3>2, <3>3, FS_Singleton, LinesHavePlaces
    <3>5. IsPlaces(source, sent)
      <4>1. IsFiniteSet(1..line - 1)
        BY <3>3, FS_Interval
      <4> QED
        BY <3>2, <3>3, <4>1, LinesHavePlaces
    <3>6. sent \cap held = {}
      <4>1. \A lines : \A p \in PlacesIn(source, lines) : p[1] \in lines
        BY DEF PlacesIn, Cells
      <4>2. line \notin 1..line - 1
        BY <3>3
      <4> QED
        BY <3>2, <4>1, <4>2
    <3>7. Volume(source, sent') = spent'
      BY <2>1, <3>1, <3>4, <3>5, <3>6, BytesAddUp DEF Weighed
    <3> QED
      BY <1>3, <2>1, <3>1, <3>7 DEF Weighed
  <2> QED
    BY <2>2, <2>3
<1>12. CASE Poll \/ EndOfRows \/ NextRow \/ GiveUp
  <2>1. request # NoRequest
    BY <1>1, <1>12 DEF Poll, EndOfRows, NextRow, GiveUp
  <2>2. UNCHANGED <<request, source, held, len, sent, spent, over>>
    BY <1>12 DEF Poll, EndOfRows, NextRow, GiveUp, writer
  <2>3. reply' = reply \/ reply' \in {"timeout", "rows", "store", "whole"}
    BY <1>12 DEF Poll, EndOfRows, NextRow, GiveUp, Stop, Ended
  <2>4. CASE reply' = reply
    BY <1>4, <2>2, <2>4
  <2>5. CASE reply' \in {"timeout", "rows", "store", "whole"}
    BY <1>7, <2>1, <2>2, <2>5
  <2> QED
    BY <2>3, <2>4, <2>5
<1>13. CASE Close
  BY <1>13 DEF Close
<1> QED
  BY <1>4, <1>5, <1>6, <1>8, <1>9, <1>10, <1>11, <1>12, <1>13
     DEF AnswerNext, EndLine, Expire, Write, writer, answer_vars

(* Whose snapshot it is: only Snapshot chooses it, while the request waits *)
(* for one.                                                                *)
LEMMA OfItsTimeKept ==
  ASSUME AnswerInv, [AnswerNext]_answer_vars, request' # NoRequest
  PROVE  OfItsTime'
<1>1. request # NoRequest => OfItsTime
  BY DEF AnswerInv
<1>2. ASSUME NEW r \in Requests, Request(r) PROVE OfItsTime'
  <2>1. sent = {} /\ reply = "none"
    BY <1>2 DEF AnswerInv, Idle, Fresh, Request
  <2> QED
    BY <1>2, <2>1 DEF Request, OfItsTime, Ended
<1>3. CASE Snapshot
  <2>1. request # NoRequest /\ phase = "accepted"
    BY <1>3 DEF AnswerInv, Idle, Snapshot
  <2> QED
    BY <1>1, <1>3, <2>1 DEF Snapshot, OfItsTime
<1>4. ASSUME NEW rows \in Stores, Write(rows) PROVE OfItsTime'
  <2>1. request # NoRequest
    BY <1>4 DEF AnswerInv, Idle, Write
  <2> QED
    BY <1>1, <1>4, <2>1 DEF Write, OfItsTime
<1>5. CASE Poll \/ EndOfRows \/ NextRow \/ WritePiece \/ RefusePiece \/ EndLine \/ Settle \/ HandOut
  <2>1. UNCHANGED <<store, stood, request, source>>
    BY <1>5 DEF Poll, EndOfRows, NextRow, WritePiece, RefusePiece, EndLine, Settle, HandOut
  <2>2. phase \notin {"accepted", "ended"} /\ phase' # "accepted"
    BY <1>5 DEF Poll, EndOfRows, NextRow, WritePiece, RefusePiece, EndLine, Settle, HandOut,
       Stop, Ended
  <2> QED
    BY <1>1, <2>1, <2>2 DEF OfItsTime
<1>6. CASE GiveUp
  BY <1>1, <1>6 DEF GiveUp, OfItsTime, Ended
<1>7. CASE UNCHANGED <<store, stood, request, source, phase, sent, reply>>
  BY <1>1, <1>7 DEF OfItsTime
<1>8. CASE Close
  BY <1>8 DEF Close
<1> QED
  BY <1>2, <1>3, <1>4, <1>5, <1>6, <1>7, <1>8 DEF AnswerNext, Expire, answer_vars

-----------------------------------------------------------------------------
(* The theorems                                                            *)

LEMMA AnswerInvAlways == AnswerSpec => []AnswerInv
<1>1. AnswerInit => AnswerInv
  <2> SUFFICES ASSUME AnswerInit PROVE AnswerInv
    OBVIOUS
  <2>1. over \in BOOLEAN /\ late \in BOOLEAN
    BY DEF AnswerInit
  <2>2. AnswerTypes
    BY <2>1 DEF AnswerInit, AnswerTypes
  <2>3. Idle /\ request = NoRequest
    BY DEF AnswerInit, Idle, Fresh
  <2> QED
    BY <2>2, <2>3 DEF AnswerInv
<1>2. AnswerInv /\ [AnswerNext]_answer_vars => AnswerInv'
  <2> SUFFICES ASSUME AnswerInv, [AnswerNext]_answer_vars PROVE AnswerInv'
    OBVIOUS
  <2>1. AnswerTypes' /\ Idle'
    BY AnswerTypesKept, IdleKept DEF AnswerInv
  <2>2. request' # NoRequest =>
          Writing' /\ Told' /\ Counted' /\ Reserved' /\ Weighed' /\ OfItsTime'
    BY <2>1, WritingKept, ToldKept, CountedKept, ReservedKept, WeighedKept, OfItsTimeKept
  <2> QED
    BY <2>1, <2>2 DEF AnswerInv
<1> QED
  BY <1>1, <1>2, PTL DEF AnswerSpec

(* Whatever the serializer makes of an error, and whatever is written      *)
(* meanwhile, an answer is refused and not truncated: all of its snapshot  *)
(* or nothing, and of a stream whole quads from the first on; and the      *)
(* snapshot is of the time between its request and its handing-out.        *)
THEOREM AnswersAreWhole == AnswerSpec => []AnswerIsWhole
<1>1. AnswerInv => AnswerIsWhole
  <2> SUFFICES ASSUME AnswerInv, request # NoRequest
               PROVE  /\ reply = "whole" => sent = Text
                      /\ ~request.streamed /\ reply # "whole" => sent = {}
                      /\ request.streamed => sent = Places(1..line - 1)
                      /\ reply = "whole" \/ sent # {} => source \in stood
    BY DEF AnswerIsWhole
  <2>1. \A lines : Places(lines) = PlacesIn(source, lines)
    BY DEF Places, PlacesIn, Cells, Count, Pieces, Row
  <2>2. Text = PlacesIn(source, AllLines)
    BY <2>1 DEF Text, AllLines
  <2> QED
    BY <2>1, <2>2 DEF AnswerInv, Told, OfItsTime
<1> QED
  BY <1>1, AnswerInvAlways, PTL

(* No store, bound, grant or argument makes an answer of more rows than    *)
(* its bound whole, and none of fewer is refused for its rows.             *)
THEOREM RowsAreCounted == AnswerSpec => []RowRefusalsAreExact
<1>1. AnswerInv => RowRefusalsAreExact
  <2> SUFFICES ASSUME AnswerInv, request # NoRequest
               PROVE  /\ reply = "rows" => Len(source) > Bound["rows"]
                      /\ reply = "whole" => Len(source) <= Bound["rows"]
    BY DEF RowRefusalsAreExact
  <2>1. Told /\ Counted /\ Bound["rows"] \in Nat /\ Len(source) \in Nat
    BY BoundIsNumber, SourcesAreRows DEF AnswerInv, AnswerTypes
  <2> QED
    BY <2>1 DEF Told, Counted
<1> QED
  BY <1>1, AnswerInvAlways, PTL

(* Nor is an answer refused for its bytes, of which the writer knows only  *)
(* those it was given before it refused one, unless all of them are more   *)
(* than its bound; and no answer of more is whole.                         *)
THEOREM BytesAreCounted == AnswerSpec => []ByteRefusalsAreExact
<1>1. AnswerInv => ByteRefusalsAreExact
  <2> SUFFICES ASSUME AnswerInv, request # NoRequest
               PROVE  LET bytes == Cardinality(Bytes(Text))
                      IN  /\ reply = "bytes" => bytes > Bound["bytes"]
                          /\ reply = "whole" => bytes <= Bound["bytes"]
    BY DEF ByteRefusalsAreExact
  <2>1. \A place : Width(place) = WidthIn(source, place)
    BY DEF Width, WidthIn, Pieces, Row
  <2>2. Cardinality(Bytes(Text)) = Volume(source, Text)
    BY <2>1 DEF Bytes, Volume, BytesIn
  <2>3. \A lines : Places(lines) = PlacesIn(source, lines)
    BY DEF Places, PlacesIn, Cells, Count, Pieces, Row
  <2>4. Text = PlacesIn(source, AllLines)
    BY <2>3 DEF Text, AllLines
  <2>5. Weighed /\ Told /\ Reserved
    BY DEF AnswerInv
  <2>6. reply = "whole" => spent = Volume(source, Text) /\ spent <= Bound["bytes"]
    BY <2>4, <2>5 DEF Weighed, Told, Reserved
  <2> QED
    BY <2>2, <2>4, <2>5, <2>6 DEF Weighed
<1> QED
  BY <1>1, AnswerInvAlways, PTL

(* The writer that doubles its memory never reserves more than its bound,  *)
(* nor all the writers of a stream together, and the bound is never past   *)
(* what any host may allow.                                                *)
THEOREM MemoryStaysBounded == AnswerSpec => []MemoryIsBounded
<1>1. AnswerInv => MemoryIsBounded
  <2> SUFFICES ASSUME AnswerInv, request # NoRequest
               PROVE  /\ spent + (IF request.streamed THEN capacity ELSE 0) <= Bound["bytes"]
                      /\ capacity <= Bound["bytes"]
                      /\ Bound["bytes"] <= Limit["bytes"]
    BY DEF MemoryIsBounded
  <2>1. Reserved /\ AnswerTypes /\ Bound["bytes"] <= Limit["bytes"]
    BY BoundIsNumber DEF AnswerInv
  <2> QED
    BY <2>1, BoundIsNumber DEF Reserved, AnswerTypes
<1> QED
  BY <1>1, AnswerInvAlways, PTL

(* Together: the size of an answer is held to its bound exactly.           *)
THEOREM SizesAreExact == AnswerSpec => []SizeRefusalsAreExact
<1>1. RowRefusalsAreExact /\ ByteRefusalsAreExact /\ MemoryIsBounded => SizeRefusalsAreExact
  BY DEF SizeRefusalsAreExact
<1> QED
  BY <1>1, RowsAreCounted, BytesAreCounted, MemoryStaysBounded, PTL

=============================================================================
