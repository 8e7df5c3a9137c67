--------------------------- MODULE EvaluationsProofs ---------------------------
(***************************************************************************)
(* What is proved of Evaluations for any requests, callers, cap, reserve   *)
(* and share: the counters are true, the slots are bounded, a write lands  *)
(* exactly when its caller is told so, and the whole machinery implements  *)
(* the pool of slots.                                                      *)
(***************************************************************************)
EXTENDS Evaluations, FiniteSetTheorems, TLAPS

-----------------------------------------------------------------------------
(* Types.                                                                  *)

Counters == [running : Nat, overdue : Nat, overdueReads : Nat,
             shared : Tally, callers : [Keys -> Tally]]

LEMMA SaturatingIsNat ==
  ASSUME NEW a \in Nat, NEW b \in Nat PROVE SaturatingSub(a, b) \in Nat
BY DEF SaturatingSub

LEMMA PlusTally ==
  ASSUME NEW t \in Tally, NEW m \in Nat, NEW n \in Nat
  PROVE  /\ Plus(t, m, n) \in Tally
         /\ Plus(t, m, n).running = t.running + m
         /\ Plus(t, m, n).overdue = t.overdue + n
BY DEF Plus, Tally

LEMMA MinusTally ==
  ASSUME NEW t \in Tally, NEW m \in Nat, NEW n \in Nat
  PROVE  /\ Minus(t, m, n) \in Tally
         /\ Minus(t, m, n).running = SaturatingSub(t.running, m)
         /\ Minus(t, m, n).overdue = SaturatingSub(t.overdue, n)
<1>1. t.running \in Nat /\ t.overdue \in Nat
  BY DEF Tally
<1>2. SaturatingSub(t.running, m) \in Nat /\ SaturatingSub(t.overdue, n) \in Nat
  BY <1>1, SaturatingIsNat
<1> QED
  BY <1>2 DEF Minus, Tally

(* What `adjust` does to the shared tally and to the callers' own. *)
LEMMA AdjustPlusEffect ==
  ASSUME counts \in Counters, NEW r \in Requests, NEW m \in Nat, NEW n \in Nat
  PROVE  /\ AdjustPlus(r, m, n).shared = IF CallerOf[r] = Host THEN counts.shared
                       ELSE Plus(counts.shared, m, n)
         /\ AdjustPlus(r, m, n).shared \in Tally
         /\ AdjustPlus(r, m, n).callers \in [Keys -> Tally]
         /\ \A k \in Keys : AdjustPlus(r, m, n).callers[k] =
              IF CallerOf[r] = k THEN Plus(counts.callers[k], m, n)
              ELSE counts.callers[k]
<1>1. CallerOf[r] \in Keys \cup {Host} /\ Host \notin Keys
  BY EvaluationsAssumption
<1>2. counts.callers \in [Keys -> Tally]
  BY DEF Counters
<1>3. \A k \in Keys : Plus(counts.callers[k], m, n) \in Tally
  BY <1>2, PlusTally
<1>4. counts.shared \in Tally /\ Plus(counts.shared, m, n) \in Tally
  BY PlusTally DEF Counters
<1> QED
  BY <1>1, <1>2, <1>3, <1>4 DEF AdjustPlus

LEMMA AdjustMinusEffect ==
  ASSUME counts \in Counters, NEW r \in Requests, NEW m \in Nat, NEW n \in Nat
  PROVE  /\ AdjustMinus(r, m, n).shared = IF CallerOf[r] = Host THEN counts.shared
                       ELSE Minus(counts.shared, m, n)
         /\ AdjustMinus(r, m, n).shared \in Tally
         /\ AdjustMinus(r, m, n).callers \in [Keys -> Tally]
         /\ \A k \in Keys : AdjustMinus(r, m, n).callers[k] =
              IF CallerOf[r] = k THEN Minus(counts.callers[k], m, n)
              ELSE counts.callers[k]
<1>1. CallerOf[r] \in Keys \cup {Host} /\ Host \notin Keys
  BY EvaluationsAssumption
<1>2. counts.callers \in [Keys -> Tally]
  BY DEF Counters
<1>3. \A k \in Keys : Minus(counts.callers[k], m, n) \in Tally
  BY <1>2, MinusTally
<1>4. counts.shared \in Tally /\ Minus(counts.shared, m, n) \in Tally
  BY MinusTally DEF Counters
<1> QED
  BY <1>1, <1>2, <1>3, <1>4 DEF AdjustMinus

LEMMA CountSlotType ==
  ASSUME counts \in Counters, NEW r \in Requests, CountSlot(r)
  PROVE  counts' \in Counters
<1> DEFINE a == AdjustPlus(r, 1, 0)
<1>1. a.shared \in Tally /\ a.callers \in [Keys -> Tally]
  BY AdjustPlusEffect
<1>2. counts' = [running |-> counts.running + 1, overdue |-> counts.overdue,
                 overdueReads |-> counts.overdueReads,
                 shared |-> a.shared, callers |-> a.callers]
  BY DEF CountSlot, Counters
<1> HIDE DEF a
<1> QED
  BY <1>1, <1>2 DEF Counters

LEMMA CountOverdueType ==
  ASSUME counts \in Counters, NEW r \in Requests, CountOverdue(r)
  PROVE  counts' \in Counters
<1> DEFINE a == AdjustPlus(r, 0, 1)
           read == IF r \in Reads THEN 1 ELSE 0
<1>1. a.shared \in Tally /\ a.callers \in [Keys -> Tally]
  BY AdjustPlusEffect
<1>2. counts' = [running |-> counts.running, overdue |-> counts.overdue + 1,
                 overdueReads |-> counts.overdueReads + read,
                 shared |-> a.shared, callers |-> a.callers]
  BY DEF CountOverdue, Counters
<1>3. read \in Nat
  OBVIOUS
<1> HIDE DEF a, read
<1> QED
  BY <1>1, <1>2, <1>3 DEF Counters

LEMMA UncountType ==
  ASSUME counts \in Counters, NEW r \in Requests, Uncount(r)
  PROVE  counts' \in Counters
<1> DEFINE slot     == IF r \in Reads THEN 1 ELSE 0
           over     == IF seen[r] THEN 1 ELSE 0
           overRead == IF seen[r] /\ r \in Reads THEN 1 ELSE 0
           a        == AdjustMinus(r, slot, over)
<1>1. slot \in Nat /\ over \in Nat /\ overRead \in Nat
  OBVIOUS
<1>2. counts' = [running      |-> SaturatingSub(counts.running, slot),
                 overdue      |-> SaturatingSub(counts.overdue, over),
                 overdueReads |-> SaturatingSub(counts.overdueReads, overRead),
                 shared       |-> a.shared,
                 callers      |-> a.callers]
  BY DEF Uncount
<1> HIDE DEF slot, over, overRead
<1>3. a.shared \in Tally /\ a.callers \in [Keys -> Tally]
  BY <1>1, AdjustMinusEffect
<1>4. /\ SaturatingSub(counts.running, slot) \in Nat
      /\ SaturatingSub(counts.overdue, over) \in Nat
      /\ SaturatingSub(counts.overdueReads, overRead) \in Nat
  BY <1>1, SaturatingIsNat DEF Counters
<1> HIDE DEF a
<1> QED
  BY <1>2, <1>3, <1>4 DEF Counters

(* The steps that leave the counts alone. *)
Quiet(r) ==
  \/ Ask(r) \/ BudgetRunsOut(r) \/ RefuseAtTheCap(r) \/ AdmitUpdate(r)
  \/ NoSlot(r) \/ Sleep(r) \/ WakeUp(r) \/ Start(r) \/ StartFails(r)
  \/ HearStartFailed(r) \/ GiveUp(r) \/ ReplyTimeout(r)
  \/ WaitForSettled(r) \/ HearOutcome(r) \/ AskAgain(r)
  \/ Begin(r) \/ FinishWork(r) \/ Settle(r) \/ SettleRefused(r) \/ Commit(r)
  \/ CommitFails(r) \/ FinishUpdate(r) \/ EndWork(r) \/ LookAtState(r)
  \/ NotifyReleased(r) \/ Send(r)

LEMMA NextCases ==
  Next <=> \E r \in Requests :
             TakeSlot(r) \/ CountAbandoned(r) \/ ReleaseHold(r) \/ Quiet(r)
BY Zenon DEF Next, CallerStep, WorkerStep, Quiet

Controls ==
  /\ caller \in [Requests -> CallerStates]
  /\ worker \in [Requests -> WorkerStates]
  /\ state \in [Requests -> {"Running", "Settled", "Abandoned"}]
  /\ late \in [Requests -> BOOLEAN]
  /\ seen \in [Requests -> BOOLEAN]
  /\ outcome \in [Requests -> {"none", "ok", "err"}]
  /\ committed \in [Requests -> BOOLEAN]
  /\ told \in [Requests -> {"none", "ok", "err", "timeout", "refused", "noSlot"}]

LEMMA QuietCounts ==
  ASSUME NEW r \in Requests, Quiet(r) PROVE UNCHANGED counts
BY DEF Quiet, Ask, BudgetRunsOut, RefuseAtTheCap, AdmitUpdate, NoSlot, Sleep,
       WakeUp, Start, StartFails, HearStartFailed, GiveUp, ReplyTimeout,
       WaitForSettled, HearOutcome, AskAgain, Begin, FinishWork, Settle,
       SettleRefused, Commit, CommitFails, FinishUpdate, EndWork, LookAtState,
       NotifyReleased, Send

LEMMA CallerControls ==
  ASSUME Controls, NEW r \in Requests,
         \/ Ask(r) \/ BudgetRunsOut(r) \/ RefuseAtTheCap(r)
         \/ AdmitUpdate(r) \/ NoSlot(r) \/ Sleep(r) \/ WakeUp(r) \/ Start(r)
         \/ StartFails(r) \/ HearStartFailed(r) \/ GiveUp(r)
         \/ WaitForSettled(r) \/ HearOutcome(r) \/ AskAgain(r)
  PROVE  Controls'
<1>1. CASE Ask(r)
  BY <1>1 DEF Ask, Controls, CallerStates
<1>2. CASE BudgetRunsOut(r)
  BY <1>2 DEF BudgetRunsOut, Controls
<1>3. CASE RefuseAtTheCap(r)
  BY <1>3 DEF RefuseAtTheCap, Controls, CallerStates, Answer
<1>4. CASE AdmitUpdate(r)
  BY <1>4 DEF AdmitUpdate, Controls, CallerStates
<1>5. CASE NoSlot(r)
  BY <1>5 DEF NoSlot, Controls, CallerStates, Answer
<1>6. CASE Sleep(r)
  BY <1>6 DEF Sleep, Controls, CallerStates
<1>7. CASE WakeUp(r)
  BY <1>7 DEF WakeUp, Controls, CallerStates
<1>8. CASE Start(r)
  BY <1>8 DEF Start, Controls, CallerStates, WorkerStates
<1>9. CASE StartFails(r)
  BY <1>9 DEF StartFails, Controls, CallerStates, WorkerStates
<1>10. CASE HearStartFailed(r)
  BY <1>10 DEF HearStartFailed, Controls, CallerStates, Answer
<1>11. CASE GiveUp(r)
  BY <1>11 DEF GiveUp, Controls, CallerStates
<1>12. CASE WaitForSettled(r)
  BY <1>12 DEF WaitForSettled, Controls, CallerStates
<1>13. CASE HearOutcome(r)
  BY <1>13 DEF HearOutcome, Controls, CallerStates, Answer
<1>14. CASE AskAgain(r)
  BY <1>14 DEF AskAgain, Controls, CallerStates, WorkerStates
<1> QED
  BY <1>1, <1>2, <1>3, <1>4, <1>5, <1>6, <1>7, <1>8, <1>9, <1>10, <1>11, <1>12,
     <1>13, <1>14

LEMMA WorkerControls ==
  ASSUME Controls, NEW r \in Requests,
         \/ Begin(r) \/ FinishWork(r) \/ Settle(r) \/ SettleRefused(r)
         \/ Commit(r) \/ CommitFails(r) \/ FinishUpdate(r) \/ EndWork(r)
         \/ LookAtState(r) \/ Send(r)
  PROVE  Controls'
<1>1. CASE Begin(r)
  BY <1>1 DEF Begin, Controls, WorkerStates
<1>2. CASE FinishWork(r)
  BY <1>2 DEF FinishWork, Controls, WorkerStates
<1>3. CASE Settle(r)
  BY <1>3 DEF Settle, Controls, WorkerStates
<1>4. CASE SettleRefused(r)
  BY <1>4 DEF SettleRefused, Controls, WorkerStates
<1>5. CASE Commit(r)
  BY <1>5 DEF Commit, Controls, WorkerStates
<1>6. CASE CommitFails(r)
  BY <1>6 DEF CommitFails, Controls, WorkerStates
<1>7. CASE FinishUpdate(r)
  BY <1>7 DEF FinishUpdate, Controls, WorkerStates
<1>8. CASE EndWork(r)
  BY <1>8 DEF EndWork, Controls, WorkerStates
<1>9. CASE LookAtState(r)
  BY <1>9 DEF LookAtState, Controls, WorkerStates
<1>10. CASE Send(r)
  BY <1>10 DEF Send, Controls, WorkerStates
<1> QED
  BY <1>1, <1>2, <1>3, <1>4, <1>5, <1>6, <1>7, <1>8, <1>9, <1>10

LEMMA NotifyControls ==
  ASSUME Controls, NEW r \in Requests, ReplyTimeout(r) \/ NotifyReleased(r)
  PROVE  Controls'
<1>1. caller' \in [Requests -> CallerStates]
  BY DEF ReplyTimeout, NotifyReleased, NotifyAll, Controls, CallerStates
<1> QED
  BY <1>1 DEF ReplyTimeout, NotifyReleased, Controls, WorkerStates

LEMMA CountingControls ==
  ASSUME Controls, NEW r \in Requests,
         TakeSlot(r) \/ CountAbandoned(r) \/ ReleaseHold(r)
  PROVE  Controls'
BY DEF Controls, CallerStates, WorkerStates, TakeSlot, CountAbandoned, ReleaseHold

(* The types are right: what each call returns, and every counter is a     *)
(* natural number.                                                         *)
THEOREM TypesAreCorrect == Spec => []TypeOK
<1>1. Init => TypeOK
  BY DEF Init, TypeOK, Tally, NoTally, CallerStates, WorkerStates
<1>2. TypeOK /\ [Next]_vars => TypeOK'
  <2> SUFFICES ASSUME counts \in Counters, Controls, [Next]_vars
               PROVE  counts' \in Counters /\ Controls'
    BY DEF TypeOK, Counters, Controls
  <2>1. CASE UNCHANGED vars
    BY <2>1 DEF vars, Controls
  <2>2. CASE Next
    <3> PICK r \in Requests :
          TakeSlot(r) \/ CountAbandoned(r) \/ ReleaseHold(r) \/ Quiet(r)
      BY <2>2, NextCases
    <3>1. counts' \in Counters
      BY CountSlotType, CountOverdueType, UncountType, QuietCounts
         DEF TakeSlot, CountAbandoned, ReleaseHold
    <3>2. Controls'
      BY CallerControls, WorkerControls, NotifyControls, CountingControls DEF Quiet
    <3> QED
      BY <3>1, <3>2
  <2> QED
    BY <2>1, <2>2
<1> QED
  BY <1>1, <1>2, PTL DEF Spec

-----------------------------------------------------------------------------
(* How a caller and its worker stand to each other.                        *)

Early == {"idle", "admission", "asleep", "admitted"}
Late == {"releasing", "uncounting", "notifying", "sending", "gone"}

(* Where the two may be at once. *)
Together(r) ==
  /\ worker[r] = "none" => /\ caller[r] \in Early \cup {"answered"}
                           /\ state[r] = "Running"
                           /\ outcome[r] = "none"
  /\ worker[r] # "none" => caller[r] \notin Early
  /\ caller[r] \in Early => told[r] = "none"
  /\ worker[r] \in {"queued", "working"} => state[r] \in {"Running", "Abandoned"}
  /\ worker[r] \in {"committing", "committed"} => state[r] = "Settled" /\ r \in Updates
  /\ caller[r] = "failed" => /\ worker[r] \in Late
                             /\ state[r] = "Running"
                             /\ outcome[r] = "none"
  /\ caller[r] = "waiting" /\ worker[r] \in Late => state[r] = "Settled"
  /\ caller[r] = "settled" => state[r] = "Settled"

(* Abandoned: by the caller, for good, and before the worker let go. *)
GivenUp(r) ==
  /\ state[r] = "Abandoned" => caller[r] \in {"givingUp", "counted", "answered"}
  /\ caller[r] \in {"givingUp", "counted"} =>
       state[r] = "Abandoned" /\ worker[r] \in {"queued", "working", "ended"}
  /\ caller[r] = "answered" =>
       worker[r] \in {"none", "gone"} \/ state[r] = "Abandoned"
  /\ worker[r] \in {"uncounting"} => (seen[r] <=> state[r] = "Abandoned")

(* The transaction, the outcome and the answer. *)
Settled(r) ==
  /\ worker[r] \in {"none", "queued", "working", "committing", "committed"} =>
       outcome[r] = "none"
  /\ worker[r] \in {"none", "queued", "working", "committing"} => ~committed[r]
  /\ worker[r] \in {"committed"} => committed[r]
  /\ worker[r] \in {"ended", "sending"} => outcome[r] # "none"
  /\ committed[r] => state[r] = "Settled"
  /\ committed[r] /\ worker[r] # "committed" => outcome[r] # "none"
  /\ r \in Updates /\ outcome[r] = "ok" => committed[r]
  /\ ~CountFails /\ committed[r] => outcome[r] # "err"
  /\ caller[r] = "answered" =>
       \/ told[r] = "timeout" /\ state[r] = "Abandoned"
       \/ told[r] \in {"refused", "noSlot"} /\ worker[r] = "none"
       \/ /\ told[r] \in {"ok", "err"}
          /\ worker[r] = "gone"
          /\ outcome[r] = "none" => told[r] = "err"
          /\ outcome[r] # "none" => told[r] = outcome[r]
  /\ caller[r] \notin {"answered"} => told[r] = "none"

Phase(r) == Together(r) /\ GivenUp(r) /\ Settled(r)

Phases == \A r \in Requests : Phase(r)

(* A step of one request leaves every other where it stands, but for a     *)
(* reader it wakes.                                                        *)
Left(q) ==
  /\ \/ caller'[q] = caller[q]
     \/ caller[q] = "asleep" /\ caller'[q] = "admission"
  /\ worker'[q] = worker[q]
  /\ state'[q] = state[q]
  /\ seen'[q] = seen[q]
  /\ outcome'[q] = outcome[q]
  /\ committed'[q] = committed[q]
  /\ told'[q] = told[q]

LEMMA CallerLeavesOthers ==
  ASSUME Controls, NEW r \in Requests, CallerStep(r), NEW q \in Requests, q # r
  PROVE  Left(q)
<1>1. CASE Ask(r)
  BY <1>1 DEF Ask, Left, Controls
<1>2. CASE BudgetRunsOut(r)
  BY <1>2 DEF BudgetRunsOut, Left, Controls
<1>3. CASE RefuseAtTheCap(r)
  BY <1>3 DEF RefuseAtTheCap, Left, Controls, Answer
<1>4. CASE AdmitUpdate(r)
  BY <1>4 DEF AdmitUpdate, Left, Controls
<1>5. CASE TakeSlot(r)
  BY <1>5 DEF TakeSlot, Left, Controls
<1>6. CASE NoSlot(r)
  BY <1>6 DEF NoSlot, Left, Controls, Answer
<1>7. CASE Sleep(r)
  BY <1>7 DEF Sleep, Left, Controls
<1>8. CASE WakeUp(r)
  BY <1>8 DEF WakeUp, Left, Controls
<1>9. CASE Start(r)
  BY <1>9 DEF Start, Left, Controls
<1>10. CASE StartFails(r)
  BY <1>10 DEF StartFails, Left, Controls
<1>11. CASE HearStartFailed(r)
  BY <1>11 DEF HearStartFailed, Left, Controls, Answer
<1>12. CASE GiveUp(r)
  BY <1>12 DEF GiveUp, Left, Controls
<1>13. CASE CountAbandoned(r)
  BY <1>13 DEF CountAbandoned, Left, Controls
<1>14. CASE ReplyTimeout(r)
  BY <1>14 DEF ReplyTimeout, Left, Controls, NotifyAll
<1>15. CASE WaitForSettled(r)
  BY <1>15 DEF WaitForSettled, Left, Controls
<1>16. CASE HearOutcome(r)
  BY <1>16 DEF HearOutcome, Left, Controls, Answer
<1>17. CASE AskAgain(r)
  BY <1>17 DEF AskAgain, Left, Controls
<1> QED
  BY <1>1, <1>2, <1>3, <1>4, <1>5, <1>6, <1>7, <1>8, <1>9, <1>10, <1>11, <1>12,
     <1>13, <1>14, <1>15, <1>16, <1>17
     DEF CallerStep

LEMMA WorkerLeavesOthers ==
  ASSUME Controls, NEW r \in Requests, WorkerStep(r), NEW q \in Requests, q # r
  PROVE  Left(q)
<1>1. CASE Begin(r)
  BY <1>1 DEF Begin, Left, Controls
<1>2. CASE FinishWork(r)
  BY <1>2 DEF FinishWork, Left, Controls
<1>3. CASE Settle(r)
  BY <1>3 DEF Settle, Left, Controls
<1>4. CASE SettleRefused(r)
  BY <1>4 DEF SettleRefused, Left, Controls
<1>5. CASE Commit(r)
  BY <1>5 DEF Commit, Left, Controls
<1>6. CASE CommitFails(r)
  BY <1>6 DEF CommitFails, Left, Controls
<1>7. CASE FinishUpdate(r)
  BY <1>7 DEF FinishUpdate, Left, Controls
<1>8. CASE EndWork(r)
  BY <1>8 DEF EndWork, Left, Controls
<1>9. CASE LookAtState(r)
  BY <1>9 DEF LookAtState, Left, Controls
<1>10. CASE ReleaseHold(r)
  BY <1>10 DEF ReleaseHold, Left, Controls
<1>11. CASE NotifyReleased(r)
  BY <1>11 DEF NotifyReleased, Left, Controls, NotifyAll
<1>12. CASE Send(r)
  BY <1>12 DEF Send, Left, Controls
<1> QED
  BY <1>1, <1>2, <1>3, <1>4, <1>5, <1>6, <1>7, <1>8, <1>9, <1>10, <1>11, <1>12
     DEF WorkerStep

LEMMA LeftInPhase ==
  ASSUME NEW q \in Requests, Phase(q), Left(q) PROVE Phase(q)'
<1>1. Together(q)'
  BY DEF Phase, Together, Left, Early
<1>2. GivenUp(q)'
  BY DEF Phase, GivenUp, Left
<1>3. Settled(q)'
  BY DEF Phase, Settled, Left
<1> QED
  BY <1>1, <1>2, <1>3 DEF Phase

LEMMA CallerKeepsPhase ==
  ASSUME Controls, NEW r \in Requests, Phase(r), CallerStep(r)
  PROVE  Phase(r)'
<1>1. CASE Ask(r)
  BY <1>1 DEF Ask, Controls, Phase, Together, GivenUp, Settled, Early, Late,
     StateFree
<1>2. CASE BudgetRunsOut(r)
  BY <1>2 DEF BudgetRunsOut, Controls, Phase, Together, GivenUp, Settled, Early, Late,
     StateFree
<1>3. CASE RefuseAtTheCap(r)
  BY <1>3 DEF RefuseAtTheCap, Controls, Phase, Together, GivenUp, Settled, Early, Late,
     StateFree, Answer
<1>4. CASE AdmitUpdate(r)
  BY <1>4 DEF AdmitUpdate, Controls, Phase, Together, GivenUp, Settled, Early, Late,
     StateFree
<1>5. CASE TakeSlot(r)
  BY <1>5 DEF TakeSlot, Controls, Phase, Together, GivenUp, Settled, Early, Late,
     StateFree
<1>6. CASE NoSlot(r)
  BY <1>6 DEF NoSlot, Controls, Phase, Together, GivenUp, Settled, Early, Late,
     StateFree, Answer
<1>7. CASE Sleep(r)
  BY <1>7 DEF Sleep, Controls, Phase, Together, GivenUp, Settled, Early, Late,
     StateFree
<1>8. CASE WakeUp(r)
  BY <1>8 DEF WakeUp, Controls, Phase, Together, GivenUp, Settled, Early, Late,
     StateFree
<1>9. CASE Start(r)
  BY <1>9 DEF Start, Controls, Phase, Together, GivenUp, Settled, Early, Late,
     StateFree
<1>10. CASE StartFails(r)
  BY <1>10 DEF StartFails, Controls, Phase, Together, GivenUp, Settled, Early, Late,
     StateFree
<1>11. CASE HearStartFailed(r)
  BY <1>11
     DEF HearStartFailed, Controls, Phase, Together, GivenUp, Settled, Early, Late,
     StateFree, Answer
<1>12. CASE GiveUp(r)
  BY <1>12 DEF GiveUp, Controls, Phase, Together, GivenUp, Settled, Early, Late,
     StateFree, WorkerStates
<1>13. CASE CountAbandoned(r)
  BY <1>13 DEF CountAbandoned, Controls, Phase, Together, GivenUp, Settled, Early, Late,
     StateFree
<1>14. CASE ReplyTimeout(r)
  BY <1>14 DEF ReplyTimeout, Controls, Phase, Together, GivenUp, Settled, Early, Late,
     StateFree, NotifyAll
<1>15. CASE WaitForSettled(r)
  BY <1>15 DEF WaitForSettled, Controls, Phase, Together, GivenUp, Settled, Early, Late,
     StateFree
<1>16. CASE HearOutcome(r)
  BY <1>16 DEF HearOutcome, Controls, Phase, Together, GivenUp, Settled, Early, Late,
     StateFree, Answer
<1>17. CASE AskAgain(r)
  BY <1>17 DEF AskAgain, Controls, Phase, Together, GivenUp, Settled, Early, Late,
     StateFree
<1> QED
  BY <1>1, <1>2, <1>3, <1>4, <1>5, <1>6, <1>7, <1>8, <1>9, <1>10, <1>11, <1>12,
     <1>13, <1>14, <1>15, <1>16, <1>17
     DEF CallerStep

LEMMA WorkerKeepsPhase ==
  ASSUME Controls, NEW r \in Requests, Phase(r), WorkerStep(r)
  PROVE  Phase(r)'
<1>1. CASE Begin(r)
  BY <1>1 DEF Begin, Controls, Phase, Together, GivenUp, Settled, Early, Late,
     StateFree
<1>2. CASE FinishWork(r)
  BY <1>2 DEF FinishWork, Controls, Phase, Together, GivenUp, Settled, Early, Late,
     StateFree
<1>3. CASE Settle(r)
  BY <1>3 DEF Settle, Controls, Phase, Together, GivenUp, Settled, Early, Late,
     StateFree
<1>4. CASE SettleRefused(r)
  BY <1>4 DEF SettleRefused, Controls, Phase, Together, GivenUp, Settled, Early, Late,
     StateFree
<1>5. CASE Commit(r)
  BY <1>5 DEF Commit, Controls, Phase, Together, GivenUp, Settled, Early, Late,
     StateFree
<1>6. CASE CommitFails(r)
  BY <1>6 DEF CommitFails, Controls, Phase, Together, GivenUp, Settled, Early, Late,
     StateFree
<1>7. CASE FinishUpdate(r)
  BY <1>7 DEF FinishUpdate, Controls, Phase, Together, GivenUp, Settled, Early, Late,
     StateFree
<1>8. CASE EndWork(r)
  BY <1>8 DEF EndWork, Controls, Phase, Together, GivenUp, Settled, Early, Late,
     StateFree
<1>9. CASE LookAtState(r)
  BY <1>9 DEF LookAtState, Controls, Phase, Together, GivenUp, Settled, Early, Late,
     StateFree
<1>10. CASE ReleaseHold(r)
  BY <1>10 DEF ReleaseHold, Controls, Phase, Together, GivenUp, Settled, Early, Late,
     StateFree
<1>11. CASE NotifyReleased(r)
  BY <1>11 DEF NotifyReleased, Controls, Phase, Together, GivenUp, Settled, Early, Late,
     StateFree, NotifyAll
<1>12. CASE Send(r)
  BY <1>12 DEF Send, Controls, Phase, Together, GivenUp, Settled, Early, Late,
     StateFree
<1> QED
  BY <1>1, <1>2, <1>3, <1>4, <1>5, <1>6, <1>7, <1>8, <1>9, <1>10, <1>11, <1>12
     DEF WorkerStep

THEOREM PhasesHold == Spec => []Phases
<1>1. Init => Phases
  BY DEF Init, Phases, Phase, Together, GivenUp, Settled, Early, Late
<1>2. TypeOK /\ Phases /\ [Next]_vars => Phases'
  <2> SUFFICES ASSUME TypeOK, Phases, [Next]_vars, NEW q \in Requests
               PROVE  Phase(q)'
    BY DEF Phases
  <2>1. Controls /\ Phase(q)
    BY DEF TypeOK, Controls, Phases
  <2>2. CASE UNCHANGED vars
    <3>1. Left(q)
      BY <2>2 DEF vars, Left
    <3> QED
      BY <2>1, <3>1, LeftInPhase
  <2>3. CASE Next
    <3> PICK r \in Requests : CallerStep(r) \/ WorkerStep(r)
      BY <2>3 DEF Next
    <3>1. CASE q = r
      BY <2>1, <3>1, CallerKeepsPhase, WorkerKeepsPhase
    <3>2. CASE q # r
      BY <2>1, <3>2, CallerLeavesOthers, WorkerLeavesOthers, LeftInPhase
    <3> QED
      BY <3>1, <3>2
  <2> QED
    BY <2>2, <2>3
<1> QED
  BY <1>1, <1>2, TypesAreCorrect, PTL DEF Spec

(* A timeout promises that nothing was written: an update whose caller     *)
(* heard it is not in the store, now or later, also where counting after   *)
(* the commit may fail.                                                    *)
THEOREM TimeoutsWroteNothing == Spec => []TimeoutWroteNothing
<1>1. Phases => TimeoutWroteNothing
  BY DEF Phases, Phase, Settled, TimeoutWroteNothing
<1> QED
  BY <1>1, PhasesHold, PTL

(* A write lands exactly when its caller is told it did, as long as        *)
(* counting the quads for the reply does not fail.                         *)
THEOREM WritesAreTold ==
  ASSUME ~CountFails PROVE Spec => []WrittenExactlyWhenTold
<1>1. Phases => WrittenExactlyWhenTold
  <2> SUFFICES ASSUME Phases, NEW r \in Updates, caller[r] = "answered"
               PROVE  told[r] = "ok" <=> committed[r]
    BY DEF WrittenExactlyWhenTold
  <2>1. Settled(r)
    BY EvaluationsAssumption DEF Phases, Phase
  <2>2. committed[r] => outcome[r] # "err"
    BY <2>1 DEF Settled
  <2> QED
    BY <2>1, <2>2 DEF Settled
<1> QED
  BY <1>1, PhasesHold, PTL

-----------------------------------------------------------------------------
(* What a step does to the holders of slots and to the overdue.            *)

LEMMA LeftKeepsItsPlace ==
  ASSUME NEW q \in Requests, Left(q)
  PROVE  (HoldsSlot(q)' <=> HoldsSlot(q)) /\ (IsOverdue(q)' <=> IsOverdue(q))
BY DEF Left, HoldsSlot, IsOverdue

LEMMA OthersKeepTheirPlace ==
  ASSUME Controls, NEW r \in Requests, CallerStep(r) \/ WorkerStep(r)
  PROVE  \A q \in Requests \ {r} :
           (HoldsSlot(q)' <=> HoldsSlot(q)) /\ (IsOverdue(q)' <=> IsOverdue(q))
BY CallerLeavesOthers, WorkerLeavesOthers, LeftKeepsItsPlace

LEMMA QuietKeepsItsPlace ==
  ASSUME Controls, NEW r \in Requests, Phase(r), Quiet(r)
  PROVE  (HoldsSlot(r)' <=> HoldsSlot(r)) /\ (IsOverdue(r)' <=> IsOverdue(r))
<1>1. CASE Ask(r)
  BY <1>1 DEF Ask, Controls, Phase, Together, GivenUp, HoldsSlot, IsOverdue,
     Reads, Early, Late, StateFree
<1>2. CASE BudgetRunsOut(r)
  BY <1>2 DEF BudgetRunsOut, Controls, Phase, Together, GivenUp, HoldsSlot, IsOverdue,
     Reads, Early, Late, StateFree
<1>3. CASE RefuseAtTheCap(r)
  BY <1>3 DEF RefuseAtTheCap, Controls, Phase, Together, GivenUp, HoldsSlot, IsOverdue,
     Reads, Early, Late, StateFree, Answer
<1>4. CASE AdmitUpdate(r)
  BY <1>4 DEF AdmitUpdate, Controls, Phase, Together, GivenUp, HoldsSlot, IsOverdue,
     Reads, Early, Late, StateFree
<1>5. CASE NoSlot(r)
  BY <1>5 DEF NoSlot, Controls, Phase, Together, GivenUp, HoldsSlot, IsOverdue,
     Reads, Early, Late, StateFree, Answer
<1>6. CASE Sleep(r)
  BY <1>6 DEF Sleep, Controls, Phase, Together, GivenUp, HoldsSlot, IsOverdue,
     Reads, Early, Late, StateFree
<1>7. CASE WakeUp(r)
  BY <1>7 DEF WakeUp, Controls, Phase, Together, GivenUp, HoldsSlot, IsOverdue,
     Reads, Early, Late, StateFree
<1>8. CASE Start(r)
  BY <1>8 DEF Start, Controls, Phase, Together, GivenUp, HoldsSlot, IsOverdue,
     Reads, Early, Late, StateFree
<1>9. CASE StartFails(r)
  BY <1>9 DEF StartFails, Controls, Phase, Together, GivenUp, HoldsSlot, IsOverdue,
     Reads, Early, Late, StateFree
<1>10. CASE HearStartFailed(r)
  BY <1>10
     DEF HearStartFailed, Controls, Phase, Together, GivenUp, HoldsSlot, IsOverdue,
     Reads, Early, Late, StateFree, Answer
<1>11. CASE GiveUp(r)
  BY <1>11 DEF GiveUp, Controls, Phase, Together, GivenUp, HoldsSlot, IsOverdue,
     Reads, Early, Late, StateFree
<1>12. CASE ReplyTimeout(r)
  BY <1>12 DEF ReplyTimeout, Controls, Phase, Together, GivenUp, HoldsSlot, IsOverdue,
     Reads, Early, Late, StateFree, NotifyAll
<1>13. CASE WaitForSettled(r)
  BY <1>13 DEF WaitForSettled, Controls, Phase, Together, GivenUp, HoldsSlot, IsOverdue,
     Reads, Early, Late, StateFree
<1>14. CASE HearOutcome(r)
  BY <1>14 DEF HearOutcome, Controls, Phase, Together, GivenUp, HoldsSlot, IsOverdue,
     Reads, Early, Late, StateFree, Answer
<1>15. CASE AskAgain(r)
  BY <1>15 DEF AskAgain, Controls, Phase, Together, GivenUp, HoldsSlot, IsOverdue,
     Reads, Early, Late, StateFree
<1>16. CASE Begin(r)
  BY <1>16 DEF Begin, Controls, Phase, Together, GivenUp, HoldsSlot, IsOverdue,
     Reads, Early, Late, StateFree
<1>17. CASE FinishWork(r)
  BY <1>17 DEF FinishWork, Controls, Phase, Together, GivenUp, HoldsSlot, IsOverdue,
     Reads, Early, Late, StateFree
<1>18. CASE Settle(r)
  BY <1>18 DEF Settle, Controls, Phase, Together, GivenUp, HoldsSlot, IsOverdue,
     Reads, Early, Late, StateFree
<1>19. CASE SettleRefused(r)
  BY <1>19 DEF SettleRefused, Controls, Phase, Together, GivenUp, HoldsSlot, IsOverdue,
     Reads, Early, Late, StateFree
<1>20. CASE Commit(r)
  BY <1>20 DEF Commit, Controls, Phase, Together, GivenUp, HoldsSlot, IsOverdue,
     Reads, Early, Late, StateFree
<1>21. CASE CommitFails(r)
  BY <1>21 DEF CommitFails, Controls, Phase, Together, GivenUp, HoldsSlot, IsOverdue,
     Reads, Early, Late, StateFree
<1>22. CASE FinishUpdate(r)
  BY <1>22 DEF FinishUpdate, Controls, Phase, Together, GivenUp, HoldsSlot, IsOverdue,
     Reads, Early, Late, StateFree
<1>23. CASE EndWork(r)
  BY <1>23 DEF EndWork, Controls, Phase, Together, GivenUp, HoldsSlot, IsOverdue,
     Reads, Early, Late, StateFree
<1>24. CASE LookAtState(r)
  BY <1>24 DEF LookAtState, Controls, Phase, Together, GivenUp, HoldsSlot, IsOverdue,
     Reads, Early, Late, StateFree
<1>25. CASE NotifyReleased(r)
  BY <1>25 DEF NotifyReleased, Controls, Phase, Together, GivenUp, HoldsSlot, IsOverdue,
     Reads, Early, Late, StateFree, NotifyAll
<1>26. CASE Send(r)
  BY <1>26 DEF Send, Controls, Phase, Together, GivenUp, HoldsSlot, IsOverdue,
     Reads, Early, Late, StateFree
<1> QED
  BY <1>1, <1>2, <1>3, <1>4, <1>5, <1>6, <1>7, <1>8, <1>9, <1>10, <1>11, <1>12,
     <1>13, <1>14, <1>15, <1>16, <1>17, <1>18, <1>19, <1>20, <1>21, <1>22,
     <1>23, <1>24, <1>25, <1>26
     DEF Quiet

LEMMA QuietSets ==
  ASSUME Controls, NEW r \in Requests, Phase(r), Quiet(r)
  PROVE  Holders' = Holders /\ Overdue' = Overdue
<1>1. CallerStep(r) \/ WorkerStep(r)
  BY DEF Quiet, CallerStep, WorkerStep
<1> QED
  BY <1>1, OthersKeepTheirPlace, QuietKeepsItsPlace DEF Holders, Overdue

LEMMA TakeSlotSets ==
  ASSUME Controls, NEW r \in Requests, Phase(r), TakeSlot(r)
  PROVE  /\ r \notin Holders /\ Holders' = Holders \cup {r}
         /\ Overdue' = Overdue
<1>1. CallerStep(r)
  BY DEF CallerStep
<1>2. ~HoldsSlot(r) /\ HoldsSlot(r)'
  BY DEF TakeSlot, Controls, Phase, Together, HoldsSlot, Early
<1>3. ~IsOverdue(r) /\ ~IsOverdue(r)'
  BY DEF TakeSlot, Controls, Phase, GivenUp, IsOverdue
<1> QED
  BY <1>1, <1>2, <1>3, OthersKeepTheirPlace DEF Holders, Overdue

LEMMA CountAbandonedSets ==
  ASSUME Controls, NEW r \in Requests, Phase(r), CountAbandoned(r)
  PROVE  /\ r \in Reads => r \in Holders
         /\ Holders' = Holders
         /\ r \notin Overdue /\ Overdue' = Overdue \cup {r}
<1>1. CallerStep(r)
  BY DEF CallerStep
<1>2. /\ r \in Reads => HoldsSlot(r)
      /\ HoldsSlot(r)' <=> HoldsSlot(r)
  BY DEF CountAbandoned, Controls, Phase, GivenUp, HoldsSlot, Reads
<1>3. ~IsOverdue(r) /\ IsOverdue(r)'
  BY DEF CountAbandoned, Controls, Phase, GivenUp, IsOverdue
<1> QED
  BY <1>1, <1>2, <1>3, OthersKeepTheirPlace DEF Holders, Overdue

LEMMA ReleaseHoldSets ==
  ASSUME Controls, NEW r \in Requests, Phase(r), ReleaseHold(r)
  PROVE  /\ r \in Holders <=> r \in Reads
         /\ Holders' = Holders \ {r}
         /\ r \in Overdue <=> seen[r]
         /\ Overdue' = Overdue \ {r}
<1>1. WorkerStep(r)
  BY DEF WorkerStep
<1>2. (HoldsSlot(r) <=> r \in Reads) /\ ~HoldsSlot(r)'
  BY DEF ReleaseHold, Controls, Phase, Together, HoldsSlot, Reads, Early
<1>3. (IsOverdue(r) <=> seen[r]) /\ ~IsOverdue(r)'
  BY DEF ReleaseHold, Controls, Phase, GivenUp, IsOverdue
<1> QED
  BY <1>1, <1>2, <1>3, OthersKeepTheirPlace DEF Holders, Overdue

-----------------------------------------------------------------------------
(* Counting.                                                               *)

LEMMA SetsAreFinite ==
  /\ Holders \subseteq Reads /\ Overdue \subseteq Requests
  /\ \A S \in SUBSET Requests : IsFiniteSet(S) /\ Cardinality(S) \in Nat
BY EvaluationsAssumption, FS_Subset, FS_CardinalityType
   DEF Holders, Overdue, HoldsSlot, Reads

(* One more, or one less, of those that count. *)
LEMMA OneMore ==
  ASSUME NEW S \in SUBSET Requests, NEW r \in Requests, r \notin S
  PROVE  /\ Cardinality(S \cup {r}) = Cardinality(S) + 1
         /\ Cardinality(Shared(S \cup {r})) =
              IF CallerOf[r] = Host THEN Cardinality(Shared(S))
                                    ELSE Cardinality(Shared(S)) + 1
         /\ \A k \in Keys : Cardinality(Of(S \cup {r}, k)) =
              IF CallerOf[r] = k THEN Cardinality(Of(S, k)) + 1
                                 ELSE Cardinality(Of(S, k))
<1>1. \A T \in SUBSET Requests : r \notin T =>
        Cardinality(T \cup {r}) = Cardinality(T) + 1
  BY SetsAreFinite, FS_AddElement
<1>2. Shared(S) \in SUBSET Requests /\ r \notin Shared(S)
  BY DEF Shared
<1>3. Shared(S \cup {r}) = IF CallerOf[r] = Host THEN Shared(S)
                                                 ELSE Shared(S) \cup {r}
  BY DEF Shared
<1>4. ASSUME NEW k \in Keys
      PROVE  /\ Of(S, k) \in SUBSET Requests /\ r \notin Of(S, k)
             /\ Of(S \cup {r}, k) = IF CallerOf[r] = k THEN Of(S, k) \cup {r}
                                                       ELSE Of(S, k)
  BY DEF Of
<1> QED
  BY <1>1, <1>2, <1>3, <1>4

LEMMA OneLess ==
  ASSUME NEW S \in SUBSET Requests, NEW r \in S
  PROVE  /\ Cardinality(S) > 0
         /\ Cardinality(S \ {r}) = Cardinality(S) - 1
         /\ CallerOf[r] # Host => Cardinality(Shared(S)) > 0
         /\ Cardinality(Shared(S \ {r})) =
              IF CallerOf[r] = Host THEN Cardinality(Shared(S))
                                    ELSE Cardinality(Shared(S)) - 1
         /\ \A k \in Keys :
              /\ CallerOf[r] = k => Cardinality(Of(S, k)) > 0
              /\ Cardinality(Of(S \ {r}, k)) =
                   IF CallerOf[r] = k THEN Cardinality(Of(S, k)) - 1
                                      ELSE Cardinality(Of(S, k))
<1> DEFINE T == S \ {r}
<1>1. T \in SUBSET Requests /\ r \in Requests /\ r \notin T /\ S = T \cup {r}
  OBVIOUS
<1>2. /\ Cardinality(S) = Cardinality(T) + 1
      /\ Cardinality(Shared(S)) =
              IF CallerOf[r] = Host THEN Cardinality(Shared(T))
                                    ELSE Cardinality(Shared(T)) + 1
      /\ \A k \in Keys : Cardinality(Of(S, k)) =
              IF CallerOf[r] = k THEN Cardinality(Of(T, k)) + 1
                                 ELSE Cardinality(Of(T, k))
  <2> HIDE DEF T
  <2> QED
    BY <1>1, OneMore
<1>3. /\ Cardinality(T) \in Nat /\ Cardinality(Shared(T)) \in Nat
      /\ \A k \in Keys : Cardinality(Of(T, k)) \in Nat
  BY SetsAreFinite DEF Shared, Of
<1> QED
  BY <1>2, <1>3

CountsOf(c, H, O) ==
  /\ c.running = Cardinality(H)
  /\ c.overdue = Cardinality(O)
  /\ c.overdueReads = Cardinality(O \cap Reads)
  /\ c.shared.running = Cardinality(Shared(H))
  /\ c.shared.overdue = Cardinality(Shared(O))
  /\ \A k \in Keys :
       /\ c.callers[k].running = Cardinality(Of(H, k))
       /\ c.callers[k].overdue = Cardinality(Of(O, k))

LEMMA TalliesPlus ==
  ASSUME counts \in Counters, NEW r \in Requests, NEW m \in Nat, NEW n \in Nat
  PROVE  /\ AdjustPlus(r, m, n).shared.running =
              IF CallerOf[r] = Host THEN counts.shared.running
              ELSE counts.shared.running + m
         /\ AdjustPlus(r, m, n).shared.overdue =
              IF CallerOf[r] = Host THEN counts.shared.overdue
              ELSE counts.shared.overdue + n
         /\ \A k \in Keys :
              /\ AdjustPlus(r, m, n).callers[k].running =
                   IF CallerOf[r] = k THEN counts.callers[k].running + m
                   ELSE counts.callers[k].running
              /\ AdjustPlus(r, m, n).callers[k].overdue =
                   IF CallerOf[r] = k THEN counts.callers[k].overdue + n
                   ELSE counts.callers[k].overdue
<1> DEFINE a == AdjustPlus(r, m, n)
<1>1. /\ a.shared = IF CallerOf[r] = Host THEN counts.shared
                    ELSE Plus(counts.shared, m, n)
      /\ \A k \in Keys : a.callers[k] =
           IF CallerOf[r] = k THEN Plus(counts.callers[k], m, n)
           ELSE counts.callers[k]
  BY AdjustPlusEffect
<1>2. counts.shared \in Tally /\ \A k \in Keys : counts.callers[k] \in Tally
  BY DEF Counters
<1> HIDE DEF a
<1>3. /\ a.shared.running = IF CallerOf[r] = Host THEN counts.shared.running
                            ELSE counts.shared.running + m
      /\ a.shared.overdue = IF CallerOf[r] = Host THEN counts.shared.overdue
                            ELSE counts.shared.overdue + n
  BY <1>1, <1>2, PlusTally
<1>4. ASSUME NEW k \in Keys
      PROVE  /\ a.callers[k].running =
                  IF CallerOf[r] = k THEN counts.callers[k].running + m
                  ELSE counts.callers[k].running
             /\ a.callers[k].overdue =
                  IF CallerOf[r] = k THEN counts.callers[k].overdue + n
                  ELSE counts.callers[k].overdue
  BY <1>1, <1>2, PlusTally
<1> QED
  BY <1>3, <1>4 DEF a

LEMMA TalliesMinus ==
  ASSUME counts \in Counters, NEW r \in Requests, NEW m \in Nat, NEW n \in Nat
  PROVE  /\ AdjustMinus(r, m, n).shared.running =
              IF CallerOf[r] = Host THEN counts.shared.running
              ELSE SaturatingSub(counts.shared.running, m)
         /\ AdjustMinus(r, m, n).shared.overdue =
              IF CallerOf[r] = Host THEN counts.shared.overdue
              ELSE SaturatingSub(counts.shared.overdue, n)
         /\ \A k \in Keys :
              /\ AdjustMinus(r, m, n).callers[k].running =
                   IF CallerOf[r] = k THEN SaturatingSub(counts.callers[k].running, m)
                   ELSE counts.callers[k].running
              /\ AdjustMinus(r, m, n).callers[k].overdue =
                   IF CallerOf[r] = k THEN SaturatingSub(counts.callers[k].overdue, n)
                   ELSE counts.callers[k].overdue
<1> DEFINE a == AdjustMinus(r, m, n)
<1>1. /\ a.shared = IF CallerOf[r] = Host THEN counts.shared
                    ELSE Minus(counts.shared, m, n)
      /\ \A k \in Keys : a.callers[k] =
           IF CallerOf[r] = k THEN Minus(counts.callers[k], m, n)
           ELSE counts.callers[k]
  BY AdjustMinusEffect
<1>2. counts.shared \in Tally /\ \A k \in Keys : counts.callers[k] \in Tally
  BY DEF Counters
<1> HIDE DEF a
<1>3. /\ a.shared.running = IF CallerOf[r] = Host THEN counts.shared.running
                            ELSE SaturatingSub(counts.shared.running, m)
      /\ a.shared.overdue = IF CallerOf[r] = Host THEN counts.shared.overdue
                            ELSE SaturatingSub(counts.shared.overdue, n)
  BY <1>1, <1>2, MinusTally
<1>4. ASSUME NEW k \in Keys
      PROVE  /\ a.callers[k].running =
                  IF CallerOf[r] = k THEN SaturatingSub(counts.callers[k].running, m)
                  ELSE counts.callers[k].running
             /\ a.callers[k].overdue =
                  IF CallerOf[r] = k THEN SaturatingSub(counts.callers[k].overdue, n)
                  ELSE counts.callers[k].overdue
  BY <1>1, <1>2, MinusTally
<1> QED
  BY <1>3, <1>4 DEF a

(* What taking a slot does to each counter. *)
LEMMA SlotEffect ==
  ASSUME counts \in Counters, NEW r \in Requests, CountSlot(r)
  PROVE  /\ counts'.running = counts.running + 1
         /\ counts'.overdue = counts.overdue
         /\ counts'.overdueReads = counts.overdueReads
         /\ counts'.shared.running = IF CallerOf[r] = Host THEN counts.shared.running
                                                           ELSE counts.shared.running + 1
         /\ counts'.shared.overdue = counts.shared.overdue
         /\ \A k \in Keys :
              /\ counts'.callers[k].running = IF CallerOf[r] = k
                                              THEN counts.callers[k].running + 1
                                              ELSE counts.callers[k].running
              /\ counts'.callers[k].overdue = counts.callers[k].overdue
<1> DEFINE a == AdjustPlus(r, 1, 0)
<1>1. /\ counts'.running = counts.running + 1
      /\ counts'.overdue = counts.overdue
      /\ counts'.overdueReads = counts.overdueReads
      /\ counts'.shared = a.shared
      /\ counts'.callers = a.callers
  BY DEF CountSlot, Counters
<1>2. /\ a.shared.running = IF CallerOf[r] = Host THEN counts.shared.running
                                                  ELSE counts.shared.running + 1
      /\ a.shared.overdue = counts.shared.overdue
  <2>1. counts.shared.running \in Nat /\ counts.shared.overdue \in Nat
    BY DEF Counters, Tally
  <2>2. 1 \in Nat /\ 0 \in Nat
    OBVIOUS
  <2>3. /\ a.shared.running = IF CallerOf[r] = Host THEN counts.shared.running
                              ELSE counts.shared.running + 1
        /\ a.shared.overdue = IF CallerOf[r] = Host THEN counts.shared.overdue
                              ELSE counts.shared.overdue + 0
    BY <2>2, TalliesPlus
  <2> HIDE DEF a
  <2> QED
    BY <2>1, <2>3
<1>3. ASSUME NEW k \in Keys
      PROVE  /\ a.callers[k].running = IF CallerOf[r] = k
                                       THEN counts.callers[k].running + 1
                                       ELSE counts.callers[k].running
             /\ a.callers[k].overdue = counts.callers[k].overdue
  <2>1. counts.callers[k].running \in Nat /\ counts.callers[k].overdue \in Nat
    BY DEF Counters, Tally
  <2>2. 1 \in Nat /\ 0 \in Nat
    OBVIOUS
  <2>3. /\ a.callers[k].running = IF CallerOf[r] = k
                                  THEN counts.callers[k].running + 1
                                  ELSE counts.callers[k].running
        /\ a.callers[k].overdue = IF CallerOf[r] = k
                                  THEN counts.callers[k].overdue + 0
                                  ELSE counts.callers[k].overdue
    BY <2>2, TalliesPlus
  <2> HIDE DEF a
  <2> QED
    BY <2>1, <2>3
<1> HIDE DEF a
<1> QED
  BY <1>1, <1>2, <1>3

LEMMA SlotIsCounted ==
  ASSUME counts \in Counters, NEW r \in Requests, CountSlot(r),
         NEW H \in SUBSET Requests, NEW O \in SUBSET Requests,
         CountsOf(counts, H, O), r \notin H
  PROVE  CountsOf(counts', H \cup {r}, O)
<1>1. /\ counts'.running = Cardinality(H \cup {r})
      /\ counts'.overdue = Cardinality(O)
      /\ counts'.overdueReads = Cardinality(O \cap Reads)
  <2>1. Cardinality(H \cup {r}) = Cardinality(H) + 1
    BY OneMore
  <2>2. /\ counts'.running = counts.running + 1
        /\ counts'.overdue = counts.overdue
        /\ counts'.overdueReads = counts.overdueReads
    BY SlotEffect
  <2> QED
    BY <2>1, <2>2 DEF CountsOf
<1>2. /\ counts'.shared.running = Cardinality(Shared(H \cup {r}))
      /\ counts'.shared.overdue = Cardinality(Shared(O))
  BY SlotEffect, OneMore DEF CountsOf
<1>3. ASSUME NEW k \in Keys
      PROVE  /\ counts'.callers[k].running = Cardinality(Of(H \cup {r}, k))
             /\ counts'.callers[k].overdue = Cardinality(Of(O, k))
  <2>1. Cardinality(Of(H \cup {r}, k)) = IF CallerOf[r] = k
                                         THEN Cardinality(Of(H, k)) + 1
                                         ELSE Cardinality(Of(H, k))
    BY OneMore
  <2>2. /\ counts'.callers[k].running = IF CallerOf[r] = k
                                        THEN counts.callers[k].running + 1
                                        ELSE counts.callers[k].running
        /\ counts'.callers[k].overdue = counts.callers[k].overdue
    BY SlotEffect
  <2>3. /\ counts.callers[k].running = Cardinality(Of(H, k))
        /\ counts.callers[k].overdue = Cardinality(Of(O, k))
    BY DEF CountsOf
  <2> QED
    BY <2>1, <2>2, <2>3
<1> QED
  BY <1>1, <1>2, <1>3 DEF CountsOf

LEMMA OverdueIsCounted ==
  ASSUME counts \in Counters, NEW r \in Requests, CountOverdue(r),
         NEW H \in SUBSET Requests, NEW O \in SUBSET Requests,
         CountsOf(counts, H, O), r \notin O
  PROVE  CountsOf(counts', H, O \cup {r})
<1> DEFINE a == AdjustPlus(r, 0, 1)
           read == IF r \in Reads THEN 1 ELSE 0
<1>1. /\ counts'.running = counts.running
      /\ counts'.overdue = counts.overdue + 1
      /\ counts'.overdueReads = counts.overdueReads + read
      /\ counts'.shared = a.shared
      /\ counts'.callers = a.callers
  BY DEF CountOverdue, Counters
<1>2. /\ a.shared.overdue = IF CallerOf[r] = Host THEN counts.shared.overdue
                                                  ELSE counts.shared.overdue + 1
      /\ a.shared.running = counts.shared.running
  <2>1. counts.shared.running \in Nat /\ counts.shared.overdue \in Nat
    BY DEF Counters, Tally
  <2>2. 1 \in Nat /\ 0 \in Nat
    OBVIOUS
  <2>3. /\ a.shared.running = IF CallerOf[r] = Host THEN counts.shared.running
                              ELSE counts.shared.running + 0
        /\ a.shared.overdue = IF CallerOf[r] = Host THEN counts.shared.overdue
                              ELSE counts.shared.overdue + 1
    BY <2>2, TalliesPlus
  <2> HIDE DEF a
  <2> QED
    BY <2>1, <2>3
<1>3. ASSUME NEW k \in Keys
      PROVE  /\ a.callers[k].overdue = IF CallerOf[r] = k
                                       THEN counts.callers[k].overdue + 1
                                       ELSE counts.callers[k].overdue
             /\ a.callers[k].running = counts.callers[k].running
  <2>1. counts.callers[k].running \in Nat /\ counts.callers[k].overdue \in Nat
    BY DEF Counters, Tally
  <2>2. 1 \in Nat /\ 0 \in Nat
    OBVIOUS
  <2>3. /\ a.callers[k].running = IF CallerOf[r] = k
                                  THEN counts.callers[k].running + 0
                                  ELSE counts.callers[k].running
        /\ a.callers[k].overdue = IF CallerOf[r] = k
                                  THEN counts.callers[k].overdue + 1
                                  ELSE counts.callers[k].overdue
    BY <2>2, TalliesPlus
  <2> HIDE DEF a
  <2> QED
    BY <2>1, <2>3
<1>4. Cardinality((O \cup {r}) \cap Reads) = Cardinality(O \cap Reads) + read
  <2>1. CASE r \in Reads
    <3>1. (O \cup {r}) \cap Reads = (O \cap Reads) \cup {r}
      BY <2>1
    <3>2. Cardinality((O \cap Reads) \cup {r}) = Cardinality(O \cap Reads) + 1
      BY SetsAreFinite, OneMore
    <3> QED
      BY <2>1, <3>1, <3>2
  <2>2. CASE r \notin Reads
    <3>1. (O \cup {r}) \cap Reads = O \cap Reads
      BY <2>2
    <3>2. Cardinality(O \cap Reads) \in Nat
      BY SetsAreFinite
    <3> QED
      BY <2>2, <3>1, <3>2
  <2> QED
    BY <2>1, <2>2
<1> HIDE DEF a, read
<1> QED
  BY <1>1, <1>2, <1>3, <1>4, OneMore DEF CountsOf

LEMMA SaturatingIsExact ==
  \A a \in Nat : SaturatingSub(a, 0) = a /\ (a > 0 => SaturatingSub(a, 1) = a - 1)
BY DEF SaturatingSub

(* Taking r out of S, if it is there. *)
One(r, S) == IF r \in S THEN 1 ELSE 0

LEMMA OneLessIfThere ==
  ASSUME NEW S \in SUBSET Requests, NEW r \in Requests
  PROVE  /\ Cardinality(S \ {r}) = SaturatingSub(Cardinality(S), One(r, S))
         /\ Cardinality(Shared(S \ {r})) =
              IF CallerOf[r] = Host THEN Cardinality(Shared(S))
              ELSE SaturatingSub(Cardinality(Shared(S)), One(r, S))
         /\ \A k \in Keys : Cardinality(Of(S \ {r}, k)) =
              IF CallerOf[r] = k
              THEN SaturatingSub(Cardinality(Of(S, k)), One(r, S))
              ELSE Cardinality(Of(S, k))
<1>1. /\ Cardinality(S) \in Nat /\ Cardinality(Shared(S)) \in Nat
      /\ \A k \in Keys : Cardinality(Of(S, k)) \in Nat
  BY SetsAreFinite DEF Shared, Of
<1>2. CASE r \in S
  <2>1. One(r, S) = 1
    BY <1>2 DEF One
  <2>2. Cardinality(S \ {r}) = SaturatingSub(Cardinality(S), 1)
    <3>1. Cardinality(S) > 0 /\ Cardinality(S \ {r}) = Cardinality(S) - 1
      BY <1>2, OneLess
    <3> QED
      BY <1>1, <3>1, SaturatingIsExact
  <2>3. CASE CallerOf[r] = Host
    <3>1. Cardinality(Shared(S \ {r})) = Cardinality(Shared(S))
      BY <1>2, <2>3, OneLess
    <3>2. \A k \in Keys : Cardinality(Of(S \ {r}, k)) = Cardinality(Of(S, k))
      BY <1>2, <2>3, OneLess, EvaluationsAssumption
    <3> QED
      BY <2>1, <2>2, <2>3, <3>1, <3>2, EvaluationsAssumption
  <2>4. CASE CallerOf[r] # Host
    <3>1. Cardinality(Shared(S \ {r})) = SaturatingSub(Cardinality(Shared(S)), 1)
      <4>1. /\ Cardinality(Shared(S)) > 0
            /\ Cardinality(Shared(S \ {r})) = Cardinality(Shared(S)) - 1
        BY <1>2, <2>4, OneLess
      <4> QED
        BY <1>1, <4>1, SaturatingIsExact
    <3>2. ASSUME NEW k \in Keys
          PROVE  Cardinality(Of(S \ {r}, k)) =
                   IF CallerOf[r] = k THEN SaturatingSub(Cardinality(Of(S, k)), 1)
                                      ELSE Cardinality(Of(S, k))
      <4>1. CASE CallerOf[r] = k
        <5>1. /\ Cardinality(Of(S, k)) > 0
              /\ Cardinality(Of(S \ {r}, k)) = Cardinality(Of(S, k)) - 1
          BY <1>2, <4>1, OneLess
        <5> QED
          BY <1>1, <4>1, <5>1, SaturatingIsExact
      <4>2. CASE CallerOf[r] # k
        BY <1>2, <4>2, OneLess
      <4> QED
        BY <4>1, <4>2
    <3> QED
      BY <2>1, <2>2, <2>4, <3>1, <3>2
  <2> QED
    BY <2>3, <2>4
<1>3. CASE r \notin S
  <2>1. S \ {r} = S /\ One(r, S) = 0
    BY <1>3 DEF One
  <2> QED
    BY <1>1, <2>1, SaturatingIsExact
<1> QED
  BY <1>2, <1>3

LEMMA HoldIsUncounted ==
  ASSUME counts \in Counters, NEW r \in Requests, Uncount(r),
         NEW H \in SUBSET Requests, NEW O \in SUBSET Requests,
         CountsOf(counts, H, O), r \in H <=> r \in Reads, r \in O <=> seen[r]
  PROVE  CountsOf(counts', H \ {r}, O \ {r})
<1> DEFINE slot     == IF r \in Reads THEN 1 ELSE 0
           over     == IF seen[r] THEN 1 ELSE 0
           overRead == IF seen[r] /\ r \in Reads THEN 1 ELSE 0
           a        == AdjustMinus(r, slot, over)
<1>1. slot \in Nat /\ over \in Nat /\ overRead \in Nat
  OBVIOUS
<1>2. /\ counts'.running = SaturatingSub(counts.running, slot)
      /\ counts'.overdue = SaturatingSub(counts.overdue, over)
      /\ counts'.overdueReads = SaturatingSub(counts.overdueReads, overRead)
      /\ counts'.shared = a.shared
      /\ counts'.callers = a.callers
  BY DEF Uncount
<1>3. slot = One(r, H) /\ over = One(r, O) /\ overRead = One(r, O \cap Reads)
  BY DEF One
<1> HIDE DEF slot, over, overRead
<1>4. /\ a.shared.running = IF CallerOf[r] = Host THEN counts.shared.running
                            ELSE SaturatingSub(counts.shared.running, slot)
      /\ a.shared.overdue = IF CallerOf[r] = Host THEN counts.shared.overdue
                            ELSE SaturatingSub(counts.shared.overdue, over)
  BY <1>1, TalliesMinus
<1>5. ASSUME NEW k \in Keys
      PROVE  /\ a.callers[k].running =
                  IF CallerOf[r] = k THEN SaturatingSub(counts.callers[k].running, slot)
                                     ELSE counts.callers[k].running
             /\ a.callers[k].overdue =
                  IF CallerOf[r] = k THEN SaturatingSub(counts.callers[k].overdue, over)
                                     ELSE counts.callers[k].overdue
  BY <1>1, TalliesMinus
<1> HIDE DEF a
<1>6. Cardinality((O \ {r}) \cap Reads) =
        SaturatingSub(Cardinality(O \cap Reads), overRead)
  <2>1. (O \ {r}) \cap Reads = (O \cap Reads) \ {r}
    OBVIOUS
  <2>2. O \cap Reads \in SUBSET Requests
    OBVIOUS
  <2> QED
    BY <1>3, <2>1, <2>2, OneLessIfThere
<1>7. /\ Cardinality(H \ {r}) = SaturatingSub(Cardinality(H), slot)
      /\ Cardinality(O \ {r}) = SaturatingSub(Cardinality(O), over)
      /\ Cardinality(Shared(H \ {r})) =
           IF CallerOf[r] = Host THEN Cardinality(Shared(H))
           ELSE SaturatingSub(Cardinality(Shared(H)), slot)
      /\ Cardinality(Shared(O \ {r})) =
           IF CallerOf[r] = Host THEN Cardinality(Shared(O))
           ELSE SaturatingSub(Cardinality(Shared(O)), over)
  BY <1>3, OneLessIfThere
<1>8. ASSUME NEW k \in Keys
      PROVE  /\ Cardinality(Of(H \ {r}, k)) =
                  IF CallerOf[r] = k THEN SaturatingSub(Cardinality(Of(H, k)), slot)
                                     ELSE Cardinality(Of(H, k))
             /\ Cardinality(Of(O \ {r}, k)) =
                  IF CallerOf[r] = k THEN SaturatingSub(Cardinality(Of(O, k)), over)
                                     ELSE Cardinality(Of(O, k))
  BY <1>3, OneLessIfThere, ZenonT(30)
<1>9. /\ counts'.running = Cardinality(H \ {r})
      /\ counts'.overdue = Cardinality(O \ {r})
      /\ counts'.overdueReads = Cardinality((O \ {r}) \cap Reads)
  BY <1>2, <1>6, <1>7 DEF CountsOf
<1>10. /\ counts'.shared.running = Cardinality(Shared(H \ {r}))
       /\ counts'.shared.overdue = Cardinality(Shared(O \ {r}))
  BY <1>2, <1>4, <1>7 DEF CountsOf
<1>11. ASSUME NEW k \in Keys
       PROVE  /\ counts'.callers[k].running = Cardinality(Of(H \ {r}, k))
              /\ counts'.callers[k].overdue = Cardinality(Of(O \ {r}, k))
  <2>1. /\ counts.callers[k].running = Cardinality(Of(H, k))
        /\ counts.callers[k].overdue = Cardinality(Of(O, k))
    BY DEF CountsOf
  <2>2. counts'.callers[k] = a.callers[k]
    BY <1>2
  <2>3. /\ a.callers[k].running =
             IF CallerOf[r] = k THEN SaturatingSub(Cardinality(Of(H, k)), slot)
                                ELSE Cardinality(Of(H, k))
        /\ a.callers[k].overdue =
             IF CallerOf[r] = k THEN SaturatingSub(Cardinality(Of(O, k)), over)
                                ELSE Cardinality(Of(O, k))
    BY <2>1, <1>5
  <2>4. /\ Cardinality(Of(H \ {r}, k)) =
             IF CallerOf[r] = k THEN SaturatingSub(Cardinality(Of(H, k)), slot)
                                ELSE Cardinality(Of(H, k))
        /\ Cardinality(Of(O \ {r}, k)) =
             IF CallerOf[r] = k THEN SaturatingSub(Cardinality(Of(O, k)), over)
                                ELSE Cardinality(Of(O, k))
    BY <1>8
  <2>5. /\ a.callers[k].running = Cardinality(Of(H \ {r}, k))
        /\ a.callers[k].overdue = Cardinality(Of(O \ {r}, k))
    BY Zenon, <2>3, <2>4
  <2> QED
    BY Zenon, <2>2, <2>5
<1> QED
  BY <1>9, <1>10, <1>11 DEF CountsOf

(* Every counter is the number of evaluations it stands for, so the        *)
(* saturating subtractions of Hold::drop hide no miscount.                 *)
THEOREM CountersAreTrue == Spec => []CountsAreTrue
<1>1. Init => CountsAreTrue
  <2> SUFFICES ASSUME Init PROVE CountsAreTrue
    OBVIOUS
  <2>1. Holders = {} /\ Overdue = {}
    BY DEF Init, Holders, HoldsSlot, Overdue, IsOverdue
  <2>2. /\ Shared(Holders) = {} /\ Shared(Overdue) = {} /\ Overdue \cap Reads = {}
        /\ \A k \in Keys : Of(Holders, k) = {} /\ Of(Overdue, k) = {}
    BY <2>1 DEF Shared, Of
  <2> QED
    BY <2>1, <2>2, FS_EmptySet DEF Init, CountsAreTrue, NoTally
<1>2. TypeOK /\ Phases /\ CountsAreTrue /\ [Next]_vars => CountsAreTrue'
  <2> SUFFICES ASSUME TypeOK, Phases, CountsAreTrue, [Next]_vars
               PROVE  CountsAreTrue'
    OBVIOUS
  <2>1. counts \in Counters /\ Controls
    BY DEF TypeOK, Counters, Controls
  <2>2. CountsOf(counts, Holders, Overdue)
    BY DEF CountsOf, CountsAreTrue
  <2>3. Holders \in SUBSET Requests /\ Overdue \in SUBSET Requests
    BY DEF Holders, Overdue
  <2>4. SUFFICES CountsOf(counts', Holders', Overdue')
    BY DEF CountsOf, CountsAreTrue, Shared, Of
  <2>5. CASE UNCHANGED vars
    BY <2>2, <2>5 DEF vars, Holders, HoldsSlot, Overdue, IsOverdue
  <2>6. CASE Next
    <3> PICK r \in Requests :
          TakeSlot(r) \/ CountAbandoned(r) \/ ReleaseHold(r) \/ Quiet(r)
      BY <2>6, NextCases
    <3>1. Phase(r)
      BY DEF Phases
    <3>2. CASE TakeSlot(r)
      <4>1. CountSlot(r)
        BY <3>2 DEF TakeSlot
      <4>2. r \notin Holders /\ Holders' = Holders \cup {r} /\ Overdue' = Overdue
        BY <2>1, <3>1, <3>2, TakeSlotSets
      <4>3. CountsOf(counts', Holders \cup {r}, Overdue)
        BY <2>1, <2>2, <2>3, <4>1, <4>2, SlotIsCounted
      <4> QED
        BY <4>2, <4>3
    <3>3. CASE CountAbandoned(r)
      <4>1. CountOverdue(r)
        BY <3>3 DEF CountAbandoned
      <4>2. Holders' = Holders /\ r \notin Overdue /\ Overdue' = Overdue \cup {r}
        BY <2>1, <3>1, <3>3, CountAbandonedSets
      <4>3. CountsOf(counts', Holders, Overdue \cup {r})
        BY <2>1, <2>2, <2>3, <4>1, <4>2, OverdueIsCounted
      <4> QED
        BY <4>2, <4>3
    <3>4. CASE ReleaseHold(r)
      <4>1. Uncount(r)
        BY <3>4 DEF ReleaseHold
      <4>2. /\ r \in Holders <=> r \in Reads
            /\ Holders' = Holders \ {r}
            /\ r \in Overdue <=> seen[r]
            /\ Overdue' = Overdue \ {r}
        BY <2>1, <3>1, <3>4, ReleaseHoldSets
      <4>3. CountsOf(counts', Holders \ {r}, Overdue \ {r})
        BY <2>1, <2>2, <2>3, <4>1, <4>2, HoldIsUncounted
      <4> QED
        BY <4>2, <4>3
    <3>5. CASE Quiet(r)
      BY <2>1, <2>2, <3>1, <3>5, QuietSets, QuietCounts
    <3> QED
      BY <3>2, <3>3, <3>4, <3>5
  <2> QED
    BY <2>5, <2>6
<1> QED
  BY <1>1, <1>2, TypesAreCorrect, PhasesHold, PTL DEF Spec

-----------------------------------------------------------------------------
(* The bounds.                                                             *)

LEMMA PoolIsPositive == /\ Cap \in Nat /\ Reserve \in Nat /\ Pool = Cap - Reserve
                        /\ Pool \in Nat /\ Pool > 0 /\ Pool <= Cap
                        /\ Share \in Nat /\ Share > 0
<1>1. Reserve \in Nat /\ Reserve < Cap
  BY EvaluationsAssumption DEF Reserve, DefaultReserve
<1>2. Pool \in Nat /\ Pool > 0 /\ Pool <= Cap
  BY <1>1, EvaluationsAssumption DEF Pool
<1>3. Share \in Nat /\ Share > 0
  BY <1>2, EvaluationsAssumption DEF Share
<1> QED
  BY <1>1, <1>2, <1>3, EvaluationsAssumption DEF Pool

(* Room for one more, as a read that is given a slot found it: by the      *)
(* counts, and so by the evaluations themselves.                           *)
LEMMA RoomForOneMore ==
  ASSUME TypeOK, CountsAreTrue, NEW r \in Requests, ~RunningFull(r)
  PROVE  /\ Cardinality(Holders) < Cap
         /\ CallerOf[r] # Host => /\ Cardinality(Shared(Holders)) < Pool
                                  /\ Cardinality(Of(Holders, CallerOf[r])) < Share
<1>1. CallerOf[r] # Host => CallerOf[r] \in Keys
  BY EvaluationsAssumption
<1>2. Holders \in SUBSET Requests
  BY SetsAreFinite DEF Reads
<1>3. /\ Cardinality(Holders) \in Nat /\ Cardinality(Shared(Holders)) \in Nat
      /\ Cardinality(Of(Holders, CallerOf[r])) \in Nat
  BY <1>2, SetsAreFinite DEF Shared, Of
<1>4. ~(Cardinality(Holders) >= Cap)
  BY DEF CountsAreTrue, RunningFull
<1>5. ASSUME CallerOf[r] # Host
      PROVE  /\ ~(Cardinality(Shared(Holders)) >= Pool)
             /\ ~(Cardinality(Of(Holders, CallerOf[r])) >= Share)
  BY <1>1, <1>5 DEF CountsAreTrue, RunningFull
<1> QED
  BY <1>3, <1>4, <1>5, PoolIsPositive, EvaluationsAssumption

LEMMA NotTooManyOverdue ==
  ASSUME TypeOK, CountsAreTrue, NEW r \in Requests, ~OverdueFull(r)
  PROVE  /\ Cardinality(Overdue \cap Reads) < Cap
         /\ CallerOf[r] # Host => /\ Cardinality(Shared(Overdue)) < Pool
                                  /\ Cardinality(Of(Overdue, CallerOf[r])) < Share
<1>1. CallerOf[r] # Host => CallerOf[r] \in Keys
  BY EvaluationsAssumption
<1>2. Overdue \in SUBSET Requests
  BY SetsAreFinite
<1>3. /\ Cardinality(Overdue \cap Reads) \in Nat
      /\ Cardinality(Shared(Overdue)) \in Nat
      /\ Cardinality(Of(Overdue, CallerOf[r])) \in Nat
  BY <1>2, SetsAreFinite DEF Shared, Of
<1>4. ~(Cardinality(Overdue \cap Reads) >= Cap)
  BY DEF CountsAreTrue, OverdueFull
<1>5. ASSUME CallerOf[r] # Host
      PROVE  /\ ~(Cardinality(Shared(Overdue)) >= Pool)
             /\ ~(Cardinality(Of(Overdue, CallerOf[r])) >= Share)
  BY <1>1, <1>5 DEF CountsAreTrue, OverdueFull
<1> QED
  BY <1>3, <1>4, <1>5, PoolIsPositive, EvaluationsAssumption

(* What a step does to the two sets, one disjunct a step of the pool. *)
Takes(r) == /\ r \notin Holders /\ r \in Reads
            /\ ~OverdueFull(r) /\ ~RunningFull(r)
            /\ Holders' = Holders \cup {r} /\ Overdue' = Overdue
Overruns(r) == /\ r \in Holders \cup Updates /\ r \notin Overdue
               /\ Holders' = Holders /\ Overdue' = Overdue \cup {r}
Stops(r) == Holders' = Holders \ {r} /\ Overdue' = Overdue \ {r}
Stays == Holders' = Holders /\ Overdue' = Overdue

LEMMA StepsOfThePool ==
  ASSUME TypeOK, Phases, [Next]_vars
  PROVE  Stays \/ \E r \in Requests : Takes(r) \/ Overruns(r) \/ Stops(r)
<1>1. Controls
  BY DEF TypeOK, Controls
<1>2. CASE UNCHANGED vars
  BY <1>2 DEF vars, Stays, Holders, HoldsSlot, Overdue, IsOverdue
<1>3. CASE Next
  <2> PICK r \in Requests :
        TakeSlot(r) \/ CountAbandoned(r) \/ ReleaseHold(r) \/ Quiet(r)
    BY <1>3, NextCases
  <2>1. Phase(r)
    BY DEF Phases
  <2>2. CASE TakeSlot(r)
    BY <1>1, <2>1, <2>2, TakeSlotSets DEF TakeSlot, Takes
  <2>3. CASE CountAbandoned(r)
    BY <1>1, <2>1, <2>3, CountAbandonedSets DEF Overruns, Reads
  <2>4. CASE ReleaseHold(r)
    BY <1>1, <2>1, <2>4, ReleaseHoldSets DEF Stops
  <2>5. CASE Quiet(r)
    BY <1>1, <2>1, <2>5, QuietSets DEF Stays
  <2> QED
    BY <2>2, <2>3, <2>4, <2>5
<1> QED
  BY <1>2, <1>3

LEMMA NothingHeldAtFirst ==
  ASSUME Init
  PROVE  /\ Holders = {} /\ Overdue = {} /\ Shared(Holders) = {}
         /\ \A k \in Keys : Of(Holders, k) = {}
<1>1. Holders = {} /\ Overdue = {}
  BY DEF Init, Holders, HoldsSlot, Overdue, IsOverdue
<1> QED
  BY <1>1 DEF Shared, Of

(* The cap, the pool and the share hold of the evaluations themselves,     *)
(* overdue ones included.                                                  *)
THEOREM SlotsStayBounded == Spec => []SlotsAreBounded
<1>1. Init => SlotsAreBounded
  <2> SUFFICES ASSUME Init PROVE SlotsAreBounded
    OBVIOUS
  <2>1. Cardinality({}) = 0
    BY FS_EmptySet
  <2> QED
    BY <2>1, NothingHeldAtFirst, PoolIsPositive DEF SlotsAreBounded
<1>2. TypeOK /\ Phases /\ CountsAreTrue /\ SlotsAreBounded /\ [Next]_vars
        => SlotsAreBounded'
  <2> SUFFICES ASSUME TypeOK, Phases, CountsAreTrue, SlotsAreBounded, [Next]_vars
               PROVE  SlotsAreBounded'
    OBVIOUS
  <2>1. Holders \in SUBSET Requests /\ IsFiniteSet(Holders)
    BY SetsAreFinite DEF Reads
  <2>2. /\ Cardinality(Holders) \in Nat /\ Cardinality(Shared(Holders)) \in Nat
        /\ \A k \in Keys : Cardinality(Of(Holders, k)) \in Nat
    BY <2>1, SetsAreFinite DEF Shared, Of
  <2>3. CASE Holders' = Holders
    BY <2>3 DEF SlotsAreBounded, Shared, Of
  <2>4. ASSUME NEW r \in Requests, Takes(r)
        PROVE  SlotsAreBounded'
    <3>1. r \notin Holders /\ Holders' = Holders \cup {r}
      BY <2>4 DEF Takes
    <3>2. /\ Cardinality(Holders) < Cap
          /\ CallerOf[r] # Host => /\ Cardinality(Shared(Holders)) < Pool
                                   /\ Cardinality(Of(Holders, CallerOf[r])) < Share
      BY <2>4, RoomForOneMore DEF Takes
    <3>3. Cardinality(Holders') <= Cap
      <4>1. Cardinality(Holders') = Cardinality(Holders) + 1
        BY <2>1, <3>1, OneMore
      <4> QED
        BY <2>2, <3>2, <4>1, PoolIsPositive
    <3>4. Cardinality(Shared(Holders')) <= Cap - Reserve
      BY <2>1, <2>2, <3>1, <3>2, OneMore, PoolIsPositive, EvaluationsAssumption
         DEF SlotsAreBounded, Pool
    <3>5. ASSUME NEW k \in Keys PROVE Cardinality(Of(Holders', k)) <= Share
      BY <2>1, <2>2, <3>1, <3>2, OneMore, PoolIsPositive, EvaluationsAssumption
         DEF SlotsAreBounded
    <3> QED
      BY <3>3, <3>4, <3>5 DEF SlotsAreBounded, Shared, Of
  <2>5. ASSUME NEW r \in Requests, Stops(r)
        PROVE  SlotsAreBounded'
    <3>1. Holders' = Holders \ {r}
      BY <2>5 DEF Stops
    <3>2. CASE r \notin Holders
      BY <2>3, <3>1, <3>2
    <3>3. CASE r \in Holders
      <4>1. Cardinality(Holders') <= Cap
        BY <2>1, <2>2, <3>1, <3>3, OneLess, EvaluationsAssumption DEF SlotsAreBounded
      <4>2. Cardinality(Shared(Holders')) <= Cap - Reserve
        <5>1. \/ Cardinality(Shared(Holders')) = Cardinality(Shared(Holders))
              \/ Cardinality(Shared(Holders')) = Cardinality(Shared(Holders)) - 1
          BY <2>1, <3>1, <3>3, OneLess
        <5> QED
          BY <2>2, <5>1, PoolIsPositive DEF SlotsAreBounded
      <4>3. ASSUME NEW k \in Keys PROVE Cardinality(Of(Holders', k)) <= Share
        BY <2>1, <2>2, <3>1, <3>3, OneLess, PoolIsPositive DEF SlotsAreBounded
      <4> QED
        BY <4>1, <4>2, <4>3 DEF SlotsAreBounded, Shared, Of
    <3> QED
      BY <3>2, <3>3
  <2> QED
    BY <2>3, <2>4, <2>5, StepsOfThePool DEF Stays, Overruns
<1> QED
  BY <1>1, <1>2, TypesAreCorrect, PhasesHold, CountersAreTrue, PTL DEF Spec

(* The pool's module counts with the same operator. *)
LEMMA SameCardinality ==
  ASSUME NEW S PROVE Slots!Cardinality(S) = Cardinality(S)
BY Zenon DEF Slots!Cardinality, Cardinality

(* The counters, mutexes and threads implement the pool of slots.          *)
THEOREM PoolIsImplemented == Spec => ImplementsSlotPool
<1>1. Init => Slots!PoolInit
  BY NothingHeldAtFirst DEF Slots!PoolInit
<1>2. TypeOK /\ Phases /\ CountsAreTrue /\ [Next]_vars
        => [Slots!PoolNext]_(Slots!poolVars)
  <2> SUFFICES ASSUME TypeOK, Phases, CountsAreTrue, [Next]_vars
               PROVE  Slots!PoolNext \/ UNCHANGED Slots!poolVars
    OBVIOUS
  <2>1. CASE Stays
    BY <2>1 DEF Stays, Slots!poolVars
  <2>2. ASSUME NEW r \in Requests, Takes(r)
        PROVE  Slots!Take(r)
    <3>1. /\ Holders \ Updates = Holders /\ Overdue \ Updates = Overdue \cap Reads
      BY SetsAreFinite DEF Reads
    <3>2. /\ \A S : Slots!NotHosts(S) = Shared(S)
          /\ \A S : Slots!OwnedBy(S, CallerOf[r]) = Of(S, CallerOf[r])
      BY DEF Slots!NotHosts, Slots!OwnedBy, Shared, Of
    <3>3. Slots!Fits(Holders, CallerOf[r])
      <4>1. /\ Slots!Cardinality(Holders \ Updates) < Cap
            /\ CallerOf[r] # Host =>
                 /\ Slots!Cardinality(Slots!NotHosts(Holders)) < Pool
                 /\ Slots!Cardinality(Slots!OwnedBy(Holders, CallerOf[r])) < Share
        BY Zenon, <2>2, <3>1, <3>2, SameCardinality, RoomForOneMore DEF Takes
      <4> QED
        BY Zenon, <4>1 DEF Slots!Fits
    <3>4. Slots!Fits(Overdue, CallerOf[r])
      <4>1. /\ Slots!Cardinality(Overdue \ Updates) < Cap
            /\ CallerOf[r] # Host =>
                 /\ Slots!Cardinality(Slots!NotHosts(Overdue)) < Pool
                 /\ Slots!Cardinality(Slots!OwnedBy(Overdue, CallerOf[r])) < Share
        BY Zenon, <2>2, <3>1, <3>2, SameCardinality, NotTooManyOverdue DEF Takes
      <4> QED
        BY Zenon, <4>1 DEF Slots!Fits
    <3> QED
      BY <2>2, <3>3, <3>4 DEF Takes, Slots!Take, Reads
  <2>3. ASSUME NEW r \in Requests, Overruns(r)
        PROVE  Slots!Overrun(r)
    BY <2>3 DEF Overruns, Slots!Overrun
  <2>4. ASSUME NEW r \in Requests, Stops(r)
        PROVE  Slots!Stop(r) \/ Stays
    BY <2>4 DEF Stops, Stays, Slots!Stop
  <2> QED
    BY <2>1, <2>2, <2>3, <2>4, StepsOfThePool DEF Slots!PoolNext
<1> QED
  BY <1>1, <1>2, TypesAreCorrect, PhasesHold, CountersAreTrue, PTL
     DEF Spec, ImplementsSlotPool, Slots!PoolSpec

-----------------------------------------------------------------------------
(* The reserve and the wakeups.                                            *)

(* An overdue read has not ended, so it still holds its slot. *)
LEMMA OverdueReadsHold ==
  ASSUME Controls, Phases PROVE Overdue \cap Reads \subseteq Holders
BY DEF Controls, WorkerStates, Phases, Phase, Together, GivenUp, Overdue, IsOverdue,
       Holders, HoldsSlot, Reads, Early

LEMMA HoldersAreSharedOrTheHosts ==
  Cardinality(Holders) =
    Cardinality(Shared(Holders)) + Cardinality(Of(Holders, Host))
<1>1. IsFiniteSet(Shared(Holders)) /\ IsFiniteSet(Of(Holders, Host))
  BY SetsAreFinite DEF Shared, Of, Reads
<1>2. /\ Shared(Holders) \cup Of(Holders, Host) = Holders
      /\ Shared(Holders) \cap Of(Holders, Host) = {}
  BY DEF Shared, Of
<1>3. Cardinality(Shared(Holders)) \in Nat /\ Cardinality(Of(Holders, Host)) \in Nat
  BY <1>1, FS_CardinalityType
<1> QED
  BY <1>1, <1>2, <1>3, FS_Union, FS_EmptySet

(* Reads that fill the cap include the host's own, as many as its reserve. *)
LEMMA FullOfTheHosts ==
  ASSUME SlotsAreBounded, NEW S \in SUBSET Holders, Cardinality(S) >= Cap
  PROVE  Cardinality(Of(Holders, Host)) >= Reserve
<1>1. Cardinality(S) <= Cardinality(Holders) /\ Cardinality(S) \in Nat
  BY SetsAreFinite, FS_Subset DEF Reads
<1>2. /\ Cardinality(Holders) \in Nat /\ Cardinality(Shared(Holders)) \in Nat
      /\ Cardinality(Of(Holders, Host)) \in Nat
  BY SetsAreFinite DEF Shared, Of, Reads
<1>3. Cardinality(Shared(Holders)) <= Cap - Reserve
  BY DEF SlotsAreBounded
<1> QED
  BY <1>1, <1>2, <1>3, HoldersAreSharedOrTheHosts, PoolIsPositive

LEMMA TurnedAway ==
  ASSUME TypeOK, Phases, [Next]_vars, NEW r \in Requests,
         told[r] = "none", told'[r] \in {"refused", "noSlot"}
  PROVE  OverdueFull(r) \/ RunningFull(r)
<1>1. Controls
  BY DEF TypeOK, Controls
<1>2. CASE UNCHANGED vars
  BY <1>2 DEF vars
<1>3. CASE Next
  <2> PICK q \in Requests : CallerStep(q) \/ WorkerStep(q)
    BY <1>3 DEF Next
  <2>1. q = r
    BY <1>1, CallerLeavesOthers, WorkerLeavesOthers DEF Left
  <2>2. ~WorkerStep(q)
    BY <2>1 DEF WorkerStep, Begin, FinishWork, Settle, SettleRefused, Commit, CommitFails,
                FinishUpdate, EndWork, LookAtState, ReleaseHold, NotifyReleased, Send
  <2>3. CallerStep(r)
    BY <2>1, <2>2
  <2>4. CASE RefuseAtTheCap(r) \/ NoSlot(r)
    BY <2>4 DEF RefuseAtTheCap, NoSlot
  <2>5. CASE HearOutcome(r)
    BY <1>1, <2>5 DEF HearOutcome, Answer, Controls
  <2>6. CASE ~(RefuseAtTheCap(r) \/ NoSlot(r) \/ HearOutcome(r))
    BY <1>1, <2>3, <2>6
       DEF CallerStep, Ask, BudgetRunsOut, AdmitUpdate, TakeSlot, Sleep, WakeUp, Start,
           StartFails, HearStartFailed, GiveUp, CountAbandoned, ReplyTimeout,
           WaitForSettled, AskAgain, Answer, Controls
  <2> QED
    BY <2>4, <2>5, <2>6
<1> QED
  BY <1>2, <1>3

(* The host is turned away only when its own reads fill its reserve,       *)
(* however many evaluations the other callers leave running.               *)
THEOREM HostKeepsItsReserve == Spec => HostFindsItsReserve
<1>1. TypeOK /\ Phases /\ CountsAreTrue /\ SlotsAreBounded /\ [Next]_vars
        => [\A r \in Requests :
              /\ CallerOf[r] = Host
              /\ told[r] = "none"
              /\ told'[r] \in {"refused", "noSlot"}
              => Cardinality(Of(Holders, Host)) >= Reserve]_vars
  <2> SUFFICES ASSUME TypeOK, Phases, CountsAreTrue, SlotsAreBounded, [Next]_vars,
                      NEW r \in Requests, CallerOf[r] = Host,
                      told[r] = "none", told'[r] \in {"refused", "noSlot"}
               PROVE  Cardinality(Of(Holders, Host)) >= Reserve
    OBVIOUS
  <2>1. CASE OverdueFull(r)
    <3>1. Cardinality(Overdue \cap Reads) >= Cap
      BY <2>1 DEF OverdueFull, CountsAreTrue
    <3> QED
      BY <3>1, OverdueReadsHold, FullOfTheHosts DEF TypeOK, Controls
  <2>2. CASE RunningFull(r)
    <3>1. Cardinality(Holders) >= Cap
      BY <2>2 DEF RunningFull, CountsAreTrue
    <3> QED
      BY <3>1, FullOfTheHosts
  <2> QED
    BY <2>1, <2>2, TurnedAway
<1> QED
  BY <1>1, TypesAreCorrect, PhasesHold, CountersAreTrue, SlotsStayBounded, PTL
     DEF Spec, HostFindsItsReserve

(* One more slot taken leaves full what was full. *)
LEMMA StillFull ==
  ASSUME counts \in Counters, NEW r \in Requests, CountSlot(r), NEW q \in Requests
  PROVE  /\ RunningFull(q) => RunningFull(q)'
         /\ OverdueFull(q)' <=> OverdueFull(q)
<1>1. /\ counts.running \in Nat /\ counts.shared.running \in Nat
      /\ \A k \in Keys : counts.callers[k].running \in Nat
  BY DEF Counters, Tally
<1>2. CallerOf[q] = Host \/ CallerOf[q] \in Keys
  BY EvaluationsAssumption
<1>3. RunningFull(q) => RunningFull(q)'
  BY <1>1, <1>2, SlotEffect, PoolIsPositive DEF RunningFull
<1>4. OverdueFull(q)' <=> OverdueFull(q)
  BY <1>2, SlotEffect DEF OverdueFull
<1> QED
  BY <1>3, <1>4

(* A step that notifies nobody and counts nothing out. *)
LEMMA QuietlyOn ==
  ASSUME Controls, NEW r \in Requests, Phase(r), CallerStep(r) \/ WorkerStep(r),
         ~ReplyTimeout(r), ~NotifyReleased(r)
  PROVE  /\ caller[r] = "counted" => caller'[r] = "counted"
         /\ worker[r] = "notifying" => worker'[r] = "notifying"
         /\ caller'[r] = "asleep" => caller[r] = "asleep" \/ Sleep(r)
<1>1. CASE WorkerStep(r)
  BY <1>1 DEF WorkerStep, Begin, FinishWork, Settle, SettleRefused, Commit, CommitFails,
     FinishUpdate, EndWork, LookAtState, ReleaseHold, Send, Controls
<1>2. CASE RefuseAtTheCap(r) \/ NoSlot(r) \/ HearStartFailed(r) \/ HearOutcome(r)
  BY <1>2 DEF RefuseAtTheCap, NoSlot, HearStartFailed, HearOutcome, Answer, Controls
<1>3. CASE Ask(r) \/ BudgetRunsOut(r) \/ AdmitUpdate(r) \/ TakeSlot(r) \/ WakeUp(r)
  BY <1>3 DEF Ask, BudgetRunsOut, AdmitUpdate, TakeSlot, WakeUp, Controls
<1>4. CASE Start(r) \/ StartFails(r)
  BY <1>4 DEF Start, StartFails, Controls, Phase, Together, Early
<1>5. CASE GiveUp(r)
  BY <1>5 DEF GiveUp, Controls
<1>6. CASE Sleep(r) \/ CountAbandoned(r) \/ WaitForSettled(r)
  BY <1>6 DEF Sleep, CountAbandoned, WaitForSettled, Controls
<1>7. CASE AskAgain(r)
  BY <1>7 DEF AskAgain, Controls
<1> QED
  BY <1>1, <1>2, <1>3, <1>4, <1>5, <1>6, <1>7 DEF CallerStep

Waker == \E q \in Requests : caller[q] = "counted" \/ worker[q] = "notifying"

(* No reader sleeps through a change of the counts that matters to it:     *)
(* whoever made it has yet to notify.                                      *)
THEOREM WakeupsAreNotLost == Spec => []NoLostWakeup
<1>1. Init => NoLostWakeup
  BY DEF Init, NoLostWakeup
<1>2. TypeOK /\ Phases /\ NoLostWakeup /\ [Next]_vars => NoLostWakeup'
  <2> SUFFICES ASSUME TypeOK, Phases, NoLostWakeup, [Next]_vars
               PROVE  NoLostWakeup'
    OBVIOUS
  <2>1. counts \in Counters /\ Controls
    BY DEF TypeOK, Counters, Controls
  <2>2. CASE UNCHANGED vars
    BY <2>2 DEF vars, NoLostWakeup, OverdueFull, RunningFull
  <2>3. CASE Next
    <3> PICK r \in Requests : CallerStep(r) \/ WorkerStep(r)
      BY <2>3 DEF Next
    <3>1. TakeSlot(r) \/ CountAbandoned(r) \/ ReleaseHold(r) \/ Quiet(r)
      BY DEF CallerStep, WorkerStep, Quiet
    <3>2. \A q \in Requests \ {r} : Left(q)
      BY <2>1, CallerLeavesOthers, WorkerLeavesOthers
    <3>3. CASE ReplyTimeout(r) \/ NotifyReleased(r)
      <4>1. \A q \in Requests : caller'[q] # "asleep"
        BY <2>1, <3>3 DEF ReplyTimeout, NotifyReleased, NotifyAll, Controls, Phases,
                          Phase, Together, Early
      <4> QED
        BY <4>1 DEF NoLostWakeup
    <3>4. CASE CountAbandoned(r)
      BY <2>1, <3>4 DEF CountAbandoned, NoLostWakeup, Controls
    <3>5. CASE ReleaseHold(r)
      BY <2>1, <3>5 DEF ReleaseHold, NoLostWakeup, Controls
    <3>6. CASE /\ ~ReplyTimeout(r) /\ ~NotifyReleased(r)
               /\ TakeSlot(r) \/ Quiet(r)
      <4>1. Waker => Waker'
        <5>1. /\ caller[r] = "counted" => caller'[r] = "counted"
              /\ worker[r] = "notifying" => worker'[r] = "notifying"
          BY <2>1, <3>6, QuietlyOn DEF Phases
        <5> QED
          BY <3>2, <5>1 DEF Waker, Left
      <4>2. ASSUME NEW q \in Requests, caller'[q] = "asleep",
                   OverdueFull(q)' \/ ~RunningFull(q)'
            PROVE  Waker'
        <5>1. OverdueFull(q)' <=> OverdueFull(q)
          BY <2>1, <3>6, StillFull, QuietCounts DEF TakeSlot, OverdueFull
        <5>2. ~RunningFull(q)' => ~RunningFull(q)
          BY <2>1, <3>6, StillFull, QuietCounts DEF TakeSlot, RunningFull
        <5>3. CASE caller[q] = "asleep"
          BY <4>1, <4>2, <5>1, <5>2, <5>3 DEF NoLostWakeup, Waker
        <5>4. CASE q = r /\ Sleep(r)
          BY <4>2, <5>1, <5>2, <5>4 DEF Sleep
        <5> QED
          BY <2>1, <3>2, <3>6, <4>2, <5>3, <5>4, QuietlyOn DEF Left, Phases
      <4> QED
        BY <4>2 DEF NoLostWakeup, Waker
    <3> QED
      BY <3>1, <3>3, <3>4, <3>5, <3>6
  <2> QED
    BY <2>2, <2>3
<1> QED
  BY <1>1, <1>2, TypesAreCorrect, PhasesHold, PTL DEF Spec

-----------------------------------------------------------------------------
(* The refusals.                                                           *)

(* The sizes of what a refusal may speak of are numbers. *)
LEMMA SizesAreNumbers ==
  ASSUME NEW S \in SUBSET Requests
  PROVE  /\ Cardinality(S) \in Nat /\ Cardinality(S \cap Reads) \in Nat
         /\ Cardinality(S \cap Reads) <= Cardinality(S)
         /\ Cardinality(Shared(S)) \in Nat
<1>1. IsFiniteSet(S) /\ S \cap Reads \subseteq S
  BY SetsAreFinite
<1>2. Cardinality(S) \in Nat /\ Cardinality(S \cap Reads) \in Nat
      /\ Cardinality(Shared(S)) \in Nat
  BY SetsAreFinite DEF Shared, Reads
<1> QED
  BY <1>1, <1>2, FS_Subset

LEMMA CapRefusalIsTrue ==
  ASSUME TypeOK, CountsAreTrue, NEW r \in Requests, OverdueFull(r)
  PROVE  SaysTrue(at_the_cap(r), r, Overdue)
<1> DEFINE store == counts.overdueReads >= Cap
           pool == counts.shared.overdue >= Pool
<1>1. Overdue \in SUBSET Requests
  BY SetsAreFinite
<1>2. /\ Cardinality(Overdue) \in Nat /\ Cardinality(Overdue \cap Reads) \in Nat
      /\ Cardinality(Overdue \cap Reads) <= Cardinality(Overdue)
      /\ Cardinality(Shared(Overdue)) \in Nat
  BY <1>1, SizesAreNumbers
<1>3. /\ counts.overdue = Cardinality(Overdue)
      /\ counts.overdueReads = Cardinality(Overdue \cap Reads)
      /\ counts.shared.overdue = Cardinality(Shared(Overdue))
  BY DEF CountsAreTrue
<1>4. CASE store
  <2>0. FirstFull(store, pool) = "Store"
    BY <1>4 DEF FirstFull
  <2>1. at_the_cap(r) = [full |-> "Store", said |-> counts.overdue, most |-> Cap]
    BY <2>0 DEF at_the_cap, TallyQuoted, MostAllowed
  <2> QED
    BY <1>2, <1>3, <1>4, <2>1, PoolIsPositive DEF SaysTrue
<1>5. CASE ~store /\ pool
  <2>0. FirstFull(store, pool) = "Pool"
    BY <1>5 DEF FirstFull
  <2>1. at_the_cap(r) = [full |-> "Pool", said |-> counts.shared.overdue, most |-> Pool]
    BY <2>0 DEF at_the_cap, TallyQuoted, MostAllowed
  <2>2. CallerOf[r] # Host
    BY <1>5 DEF OverdueFull
  <2> QED
    BY <1>2, <1>3, <1>5, <2>1, <2>2, PoolIsPositive DEF SaysTrue
<1>6. CASE ~store /\ ~pool
  <2>0. FirstFull(store, pool) = "Share"
    BY <1>6 DEF FirstFull
  <2>1. at_the_cap(r) = [full |-> "Share", said |-> counts.callers[CallerOf[r]].overdue,
                         most |-> Share]
    BY <2>0 DEF at_the_cap, TallyQuoted, MostAllowed
  <2>2. CallerOf[r] \in Keys /\ CallerOf[r] # Host
    BY <1>6, EvaluationsAssumption DEF OverdueFull
  <2>3. counts.callers[CallerOf[r]].overdue = Cardinality(Of(Overdue, CallerOf[r]))
    BY <2>2 DEF CountsAreTrue
  <2>4. counts.callers[CallerOf[r]].overdue >= Share
    BY <1>6, <2>2 DEF OverdueFull
  <2> QED
    BY <1>2, <1>3, <1>6, <2>1, <2>2, <2>3, <2>4, PoolIsPositive DEF SaysTrue
<1> QED
  BY <1>4, <1>5, <1>6

LEMMA SlotRefusalIsTrue ==
  ASSUME TypeOK, CountsAreTrue, NEW r \in Requests, RunningFull(r)
  PROVE  SaysTrue(no_slot(r), r, Holders)
<1> DEFINE store == counts.running >= Cap
           pool == counts.shared.running >= Pool
<1>1. Holders \in SUBSET Requests
  BY SetsAreFinite DEF Reads
<1>2. /\ Cardinality(Holders) \in Nat /\ Cardinality(Holders \cap Reads) \in Nat
      /\ Cardinality(Holders \cap Reads) <= Cardinality(Holders)
      /\ Cardinality(Shared(Holders)) \in Nat
  BY <1>1, SizesAreNumbers
<1>3. /\ counts.running = Cardinality(Holders)
      /\ counts.shared.running = Cardinality(Shared(Holders))
  BY DEF CountsAreTrue
<1>4. CASE store
  <2>0. FirstFull(store, pool) = "Store"
    BY <1>4 DEF FirstFull
  <2>1. no_slot(r) = [full |-> "Store", said |-> counts.running, most |-> Cap]
    BY <2>0 DEF no_slot, TallyQuoted, MostAllowed
  <2> QED
    BY <1>2, <1>3, <1>4, <2>1, PoolIsPositive DEF SaysTrue
<1>5. CASE ~store /\ pool
  <2>0. FirstFull(store, pool) = "Pool"
    BY <1>5 DEF FirstFull
  <2>1. no_slot(r) = [full |-> "Pool", said |-> counts.shared.running, most |-> Pool]
    BY <2>0 DEF no_slot, TallyQuoted, MostAllowed
  <2>2. CallerOf[r] # Host
    BY <1>5 DEF RunningFull
  <2> QED
    BY <1>2, <1>3, <1>5, <2>1, <2>2, PoolIsPositive DEF SaysTrue
<1>6. CASE ~store /\ ~pool
  <2>0. FirstFull(store, pool) = "Share"
    BY <1>6 DEF FirstFull
  <2>1. no_slot(r) = [full |-> "Share", said |-> counts.callers[CallerOf[r]].running,
                      most |-> Share]
    BY <2>0 DEF no_slot, TallyQuoted, MostAllowed
  <2>2. CallerOf[r] \in Keys /\ CallerOf[r] # Host
    BY <1>6, EvaluationsAssumption DEF RunningFull
  <2>3. counts.callers[CallerOf[r]].running = Cardinality(Of(Holders, CallerOf[r]))
    BY <2>2 DEF CountsAreTrue
  <2>4. counts.callers[CallerOf[r]].running >= Share
    BY <1>6, <2>2 DEF RunningFull
  <2> QED
    BY <1>2, <1>3, <1>6, <2>1, <2>2, <2>3, <2>4, PoolIsPositive DEF SaysTrue
<1> QED
  BY <1>4, <1>5, <1>6

(* Whatever a refusal says of the slots and who takes them is so. *)
THEOREM RefusalsSayTrue == Spec => []RefusalsAreTrue
<1>1. TypeOK /\ CountsAreTrue => RefusalsAreTrue
  BY CapRefusalIsTrue, SlotRefusalIsTrue DEF RefusalsAreTrue
<1> QED
  BY <1>1, TypesAreCorrect, CountersAreTrue, PTL
=============================================================================
