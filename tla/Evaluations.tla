----------------------------- MODULE Evaluations -----------------------------
(***************************************************************************)
(* How one store admits, times out and settles its SPARQL evaluations      *)
(* (budget.rs).  A READ takes a slot before its thread starts and keeps it *)
(* until that thread ends, also when its caller gave up long before; an    *)
(* UPDATE takes none, because it runs on the store's one writer thread     *)
(* (WriterThread.tla), so here its job starts at any moment after it was   *)
(* queued.  A caller and its worker agree on one outcome through a small   *)
(* mutex-guarded state: the caller may abandon the evaluation only while   *)
(* it is Running, and the worker commits only after it has Settled it.     *)
(*                                                                         *)
(* Steps are the critical sections of the two mutexes (the per-evaluation  *)
(* `state` and the store's `counts`) and the calls between them.  A caller *)
(* in "givingUp" or "counted", and a worker in "committing", HOLDS the     *)
(* state mutex.  Elapsed time is the flag `late`; the words of a refusal   *)
(* are left out.                                                           *)
(***************************************************************************)
EXTENDS Integers, FiniteSets

CONSTANTS
  Requests,     \* the evaluations asked for
  Updates,      \* those of them that are updates; the rest are reads
  Keys,         \* principals, and the one share of capabilities without one
  Host,         \* root, or a capability holding CAP_RESERVE: it has no share
  CallerOf,     \* who each request is counted against
  Cap,          \* TimeBudget::max_overdue
  HostReserve,  \* what with_reserve was given, or Unset
  HostShare,    \* what with_caller_share was given, or Unset
  Unset,
  CountFails    \* may counting the quads after a commit fail (a storage error)?

(* with_max_overdue keeps the cap at 1 or more. *)
ASSUME EvaluationsAssumption ==
  /\ IsFiniteSet(Requests)
  /\ Updates \subseteq Requests
  /\ Host \notin Keys
  /\ CallerOf \in [Requests -> Keys \cup {Host}]
  /\ Cap \in Nat \ {0}
  /\ HostReserve \in Nat \cup {Unset}
  /\ HostShare \in Nat \cup {Unset}
  /\ Unset \notin Nat
  /\ CountFails \in BOOLEAN

Reads == Requests \ Updates

(* Caller::of: who a capability is counted against.  One that allows       *)
(* CAP_RESERVE, as root does, is the host, whatever principal it names;    *)
(* all that name no principal are one.                                     *)
CallerFor(capability) == IF capability.reserve THEN Host ELSE capability.principal

-----------------------------------------------------------------------------
(* TimeBudget::limits: the reserve, the pool and the share, each clamped.  *)

DefaultReserve == 1

Reserve ==
  LET asked == IF HostReserve = Unset THEN DefaultReserve ELSE HostReserve
  IN  IF asked < Cap THEN asked ELSE Cap - 1

(* Mistaken: the reserve is not kept from the pool. *)
PoolOfAll == Cap

Pool == Cap - Reserve

Share ==
  IF HostShare = Unset
  THEN IF Pool \div 2 >= 1 THEN Pool \div 2 ELSE 1
  ELSE CASE HostShare < 1    -> 1
         [] HostShare > Pool -> Pool
         [] OTHER            -> HostShare

-----------------------------------------------------------------------------
VARIABLES
  counts,    \* Counts: running, overdue, overdueReads, shared, callers
  caller,    \* where each caller stands
  worker,    \* where each worker stands
  state,     \* State, shared by the two
  late,      \* the caller's budget has run out
  seen,      \* Hold::drop has read that the state is Abandoned
  outcome,   \* what the worker's closure returned ("err" is a caught panic too)
  committed, \* the update's transaction is in the store
  told       \* what the caller was answered

vars == <<counts, caller, worker, state, late, seen, outcome, committed, told>>

CallerStates == {"idle", "admission", "asleep", "admitted", "waiting",
                 "givingUp", "counted", "settled", "failed", "answered"}
WorkerStates == {"none", "queued", "working", "committing", "committed", "ended",
                 "releasing", "uncounting", "notifying", "sending", "gone"}

Tally == [running : Nat, overdue : Nat]
NoTally == [running |-> 0, overdue |-> 0]

TypeOK ==
  /\ counts \in [running : Nat, overdue : Nat, overdueReads : Nat,
                 shared : Tally, callers : [Keys -> Tally]]
  /\ caller \in [Requests -> CallerStates]
  /\ worker \in [Requests -> WorkerStates]
  /\ state \in [Requests -> {"Running", "Settled", "Abandoned"}]
  /\ late \in [Requests -> BOOLEAN]
  /\ seen \in [Requests -> BOOLEAN]
  /\ outcome \in [Requests -> {"none", "ok", "err"}]
  /\ committed \in [Requests -> BOOLEAN]
  /\ told \in [Requests -> {"none", "ok", "err", "timeout", "refused", "noSlot"}]

Init ==
  /\ counts = [running |-> 0, overdue |-> 0, overdueReads |-> 0,
               shared |-> NoTally, callers |-> [k \in Keys |-> NoTally]]
  /\ caller = [r \in Requests |-> "idle"]
  /\ worker = [r \in Requests |-> "none"]
  /\ state = [r \in Requests |-> "Running"]
  /\ late = [r \in Requests |-> FALSE]
  /\ seen = [r \in Requests |-> FALSE]
  /\ outcome = [r \in Requests |-> "none"]
  /\ committed = [r \in Requests |-> FALSE]
  /\ told = [r \in Requests |-> "none"]

-----------------------------------------------------------------------------
(* Counts.                                                                 *)

(* Mistaken: an overdue update is nobody's, having no slot. *)
OverdueFullForAll(r) == counts.overdueReads >= Cap

(* A map entry that is absent reads as the empty tally (Counts::tally).    *)
OverdueFull(r) ==
  \/ counts.overdueReads >= Cap
  \/ /\ CallerOf[r] # Host
     /\ \/ counts.shared.overdue >= Pool
        \/ counts.callers[CallerOf[r]].overdue >= Share

(* Mistaken: the share is asked of overdue evaluations only. *)
RunningFullUnshared(r) ==
  \/ counts.running >= Cap
  \/ CallerOf[r] # Host /\ counts.shared.running >= Pool

RunningFull(r) ==
  \/ counts.running >= Cap
  \/ /\ CallerOf[r] # Host
     /\ \/ counts.shared.running >= Pool
        \/ counts.callers[CallerOf[r]].running >= Share

(* A refusal says whose slots are taken, how many evaluations take them    *)
(* and how many it allows.  The store comes before the pool, and the pool  *)
(* before the caller's own share.                                          *)
FirstFull(store, pool) ==
  CASE store -> "Store" [] ~store /\ pool -> "Pool" [] OTHER -> "Share"

(* Mistaken: a full pool is described by what this caller has of it. *)
TallyOfItsOwn(r, full) ==
  IF full = "Store" THEN [running |-> counts.running, overdue |-> counts.overdue]
  ELSE counts.callers[CallerOf[r]]

TallyQuoted(r, full) ==
  CASE full = "Store" -> [running |-> counts.running, overdue |-> counts.overdue]
    [] full = "Pool"  -> counts.shared
    [] full = "Share" -> counts.callers[CallerOf[r]]

MostAllowed(full) == CASE full = "Store" -> Cap [] full = "Pool" -> Pool [] full = "Share" -> Share

at_the_cap(r) ==
  LET full == FirstFull(counts.overdueReads >= Cap, counts.shared.overdue >= Pool)
  IN  [full |-> full, said |-> TallyQuoted(r, full).overdue, most |-> MostAllowed(full)]

no_slot(r) ==
  LET full == FirstFull(counts.running >= Cap, counts.shared.running >= Pool)
  IN  [full |-> full, said |-> TallyQuoted(r, full).running, most |-> MostAllowed(full)]

SaturatingSub(a, b) == IF a > b THEN a - b ELSE 0

Plus(t, run, over) == [running |-> t.running + run, overdue |-> t.overdue + over]
Minus(t, run, over) == [running |-> SaturatingSub(t.running, run),
                        overdue |-> SaturatingSub(t.overdue, over)]

(* Counts::adjust: the caller's tally and the shared one, nothing for the host. *)
AdjustPlus(r, run, over) ==
  IF CallerOf[r] = Host
  THEN [shared |-> counts.shared, callers |-> counts.callers]
  ELSE [shared  |-> Plus(counts.shared, run, over),
        callers |-> [counts.callers EXCEPT ![CallerOf[r]] = Plus(@, run, over)]]

AdjustMinus(r, run, over) ==
  IF CallerOf[r] = Host
  THEN [shared |-> counts.shared, callers |-> counts.callers]
  ELSE [shared  |-> Minus(counts.shared, run, over),
        callers |-> [counts.callers EXCEPT ![CallerOf[r]] = Minus(@, run, over)]]

(* Evaluations::reserve, its success: one more read holds a slot. *)
CountSlot(r) ==
  LET adjusted == AdjustPlus(r, 1, 0)
  IN  counts' = [counts EXCEPT !.running = @ + 1,
                               !.shared = adjusted.shared,
                               !.callers = adjusted.callers]

(* Evaluations::abandoned: one more evaluation is overdue. *)
CountOverdue(r) ==
  LET read     == IF r \in Reads THEN 1 ELSE 0
      adjusted == AdjustPlus(r, 0, 1)
  IN  counts' = [counts EXCEPT !.overdue = @ + 1,
                               !.overdueReads = @ + read,
                               !.shared = adjusted.shared,
                               !.callers = adjusted.callers]

(* Hold::drop, under the counts lock: the slot of a read, and the place in *)
(* the overdue count of an evaluation seen Abandoned.                      *)
Uncount(r) ==
  LET slot     == IF r \in Reads THEN 1 ELSE 0
      over     == IF seen[r] THEN 1 ELSE 0
      overRead == IF seen[r] /\ r \in Reads THEN 1 ELSE 0
      adjusted == AdjustMinus(r, slot, over)
  IN  counts' = [running      |-> SaturatingSub(counts.running, slot),
                 overdue      |-> SaturatingSub(counts.overdue, over),
                 overdueReads |-> SaturatingSub(counts.overdueReads, overRead),
                 shared       |-> adjusted.shared,
                 callers      |-> adjusted.callers]

(* changed.notify_all(), beside the caller's own move to `to`. *)
NotifyAll(r, to) ==
  caller' = [q \in Requests |-> IF q = r THEN to
                                ELSE IF caller[q] = "asleep" THEN "admission"
                                ELSE caller[q]]

(* Mistaken: the caller lets go of the state before it has counted. *)
StateFreeTooSoon(r) == worker[r] # "committing"

(* Nobody is inside the evaluation's state mutex. *)
StateFree(r) == caller[r] \notin {"givingUp", "counted"} /\ worker[r] # "committing"

Answer(r, reply) ==
  /\ caller' = [caller EXCEPT ![r] = "answered"]
  /\ told' = [told EXCEPT ![r] = reply]

-----------------------------------------------------------------------------
(* The caller.                                                             *)

Ask(r) ==
  /\ caller[r] = "idle"
  /\ caller' = [caller EXCEPT ![r] = "admission"]
  /\ UNCHANGED <<counts, worker, state, late, seen, outcome, committed, told>>

(* The clock: the budget includes the wait for a slot. *)
BudgetRunsOut(r) ==
  /\ caller[r] \in {"admission", "asleep", "admitted", "waiting"}
  /\ ~late[r]
  /\ late' = [late EXCEPT ![r] = TRUE]
  /\ UNCHANGED <<counts, caller, worker, state, seen, outcome, committed, told>>

(* at_the_cap, of a read and of an update alike. *)
RefuseAtTheCap(r) ==
  /\ caller[r] = "admission"
  /\ OverdueFull(r)
  /\ Answer(r, "refused")
  /\ UNCHANGED <<counts, worker, state, late, seen, outcome, committed>>

(* refuse_at_the_cap found room: an update takes no slot. *)
AdmitUpdate(r) ==
  /\ caller[r] = "admission"
  /\ r \in Updates
  /\ ~OverdueFull(r)
  /\ caller' = [caller EXCEPT ![r] = "admitted"]
  /\ UNCHANGED <<counts, worker, state, late, seen, outcome, committed, told>>

(* One turn of the loop in `reserve`: take a slot, ... *)
TakeSlot(r) ==
  /\ caller[r] = "admission"
  /\ r \in Reads
  /\ ~OverdueFull(r) /\ ~RunningFull(r)
  /\ CountSlot(r)
  /\ caller' = [caller EXCEPT ![r] = "admitted"]
  /\ UNCHANGED <<worker, state, late, seen, outcome, committed, told>>

(* ... or find the budget over, ... *)
NoSlot(r) ==
  /\ caller[r] = "admission"
  /\ r \in Reads
  /\ ~OverdueFull(r) /\ RunningFull(r)
  /\ late[r]
  /\ Answer(r, "noSlot")
  /\ UNCHANGED <<counts, worker, state, late, seen, outcome, committed>>

(* ... or sleep on `changed`, which gives up the counts lock atomically. *)
Sleep(r) ==
  /\ caller[r] = "admission"
  /\ r \in Reads
  /\ ~OverdueFull(r) /\ RunningFull(r)
  /\ ~late[r]
  /\ caller' = [caller EXCEPT ![r] = "asleep"]
  /\ UNCHANGED <<counts, worker, state, late, seen, outcome, committed, told>>

(* wait_timeout returns without a notification: the budget is over, or the *)
(* wakeup is spurious.                                                     *)
WakeUp(r) ==
  /\ caller[r] = "asleep"
  /\ caller' = [caller EXCEPT ![r] = "admission"]
  /\ UNCHANGED <<counts, worker, state, late, seen, outcome, committed, told>>

(* A thread is spawned for a read, an update's job is sent to the writer. *)
Start(r) ==
  /\ caller[r] = "admitted"
  /\ caller' = [caller EXCEPT ![r] = "waiting"]
  /\ worker' = [worker EXCEPT ![r] = "queued"]
  /\ UNCHANGED <<counts, state, late, seen, outcome, committed, told>>

(* No thread could be started, or the writer refused the job: the closure  *)
(* is dropped, and its Hold with it, on the caller's own thread.           *)
StartFails(r) ==
  /\ caller[r] = "admitted"
  /\ caller' = [caller EXCEPT ![r] = "failed"]
  /\ worker' = [worker EXCEPT ![r] = "releasing"]
  /\ UNCHANGED <<counts, state, late, seen, outcome, committed, told>>

HearStartFailed(r) ==
  /\ caller[r] = "failed"
  /\ worker[r] = "gone"
  /\ Answer(r, "err")
  /\ UNCHANGED <<counts, worker, state, late, seen, outcome, committed>>

(* Mistaken: the budget runs from when the evaluation is begun. *)
GiveUpOnceBegun(r) ==
  /\ caller[r] = "waiting"
  /\ late[r]
  /\ worker[r] # "queued"
  /\ StateFree(r)
  /\ state[r] = "Running"
  /\ state' = [state EXCEPT ![r] = "Abandoned"]
  /\ caller' = [caller EXCEPT ![r] = "givingUp"]
  /\ UNCHANGED <<counts, worker, late, seen, outcome, committed, told>>

(* recv_timeout ran out and the evaluation is still Running: abandon it,   *)
(* keeping the state mutex until it has been counted.                      *)
GiveUp(r) ==
  /\ caller[r] = "waiting"
  /\ late[r]
  /\ StateFree(r)
  /\ state[r] = "Running"
  /\ state' = [state EXCEPT ![r] = "Abandoned"]
  /\ caller' = [caller EXCEPT ![r] = "givingUp"]
  /\ UNCHANGED <<counts, worker, late, seen, outcome, committed, told>>

CountAbandoned(r) ==
  /\ caller[r] = "givingUp"
  /\ CountOverdue(r)
  /\ caller' = [caller EXCEPT ![r] = "counted"]
  /\ UNCHANGED <<worker, state, late, seen, outcome, committed, told>>

(* Mistaken: only a slot given back is worth a notification. *)
ReplyTimeoutQuietly(r) ==
  /\ caller[r] = "counted"
  /\ Answer(r, "timeout")
  /\ UNCHANGED <<counts, worker, state, late, seen, outcome, committed>>

(* notify_all, cancel the token, release the state mutex, answer. *)
ReplyTimeout(r) ==
  /\ caller[r] = "counted"
  /\ NotifyAll(r, "answered")
  /\ told' = [told EXCEPT ![r] = "timeout"]
  /\ UNCHANGED <<counts, worker, state, late, seen, outcome, committed>>

(* recv_timeout ran out but the evaluation is Settled: wait for its answer. *)
WaitForSettled(r) ==
  /\ caller[r] = "waiting"
  /\ late[r]
  /\ StateFree(r)
  /\ state[r] = "Settled"
  /\ caller' = [caller EXCEPT ![r] = "settled"]
  /\ UNCHANGED <<counts, worker, state, late, seen, outcome, committed, told>>

HearOutcome(r) ==
  /\ caller[r] \in {"waiting", "settled"}
  /\ worker[r] = "gone"
  /\ outcome[r] # "none"
  /\ Answer(r, outcome[r])
  /\ UNCHANGED <<counts, worker, state, late, seen, outcome, committed>>

(* The same request is made again, once nothing of it is left. *)
AskAgain(r) ==
  /\ caller[r] = "answered"
  /\ worker[r] \in {"none", "gone"}
  /\ caller' = [caller EXCEPT ![r] = "idle"]
  /\ worker' = [worker EXCEPT ![r] = "none"]
  /\ state' = [state EXCEPT ![r] = "Running"]
  /\ late' = [late EXCEPT ![r] = FALSE]
  /\ seen' = [seen EXCEPT ![r] = FALSE]
  /\ outcome' = [outcome EXCEPT ![r] = "none"]
  /\ committed' = [committed EXCEPT ![r] = FALSE]
  /\ told' = [told EXCEPT ![r] = "none"]
  /\ UNCHANGED counts

-----------------------------------------------------------------------------
(* The worker.                                                             *)

(* The body's first act: an evaluation abandoned while it was queued is    *)
(* not run.  (The mutex is held only for the look.)                        *)
Begin(r) ==
  /\ worker[r] = "queued"
  /\ StateFree(r)
  /\ worker' = [worker EXCEPT
                  ![r] = IF state[r] = "Abandoned" THEN "releasing" ELSE "working"]
  /\ UNCHANGED <<counts, caller, state, late, seen, outcome, committed, told>>

(* The closure returns without a commit: a read's answer, or any error.    *)
(* Nothing makes it return: oxigraph cannot always be stopped.             *)
FinishWork(r) ==
  /\ worker[r] = "working"
  /\ \E o \in (IF r \in Updates THEN {"err"} ELSE {"ok", "err"}) :
       outcome' = [outcome EXCEPT ![r] = o]
  /\ worker' = [worker EXCEPT ![r] = "ended"]
  /\ UNCHANGED <<counts, caller, state, late, seen, committed, told>>

(* Mistaken: the state is settled by the body, once the commit is over. *)
SettleAfterwards(r) ==
  /\ worker[r] = "working"
  /\ r \in Updates
  /\ StateFree(r)
  /\ state[r] # "Abandoned"
  /\ worker' = [worker EXCEPT ![r] = "committing"]
  /\ UNCHANGED <<counts, caller, state, late, seen, outcome, committed, told>>

(* Deadline::settle, when the caller is still waiting: Settled first, then *)
(* the commit, all under the state mutex.                                  *)
Settle(r) ==
  /\ worker[r] = "working"
  /\ r \in Updates
  /\ StateFree(r)
  /\ state[r] # "Abandoned"
  /\ state' = [state EXCEPT ![r] = "Settled"]
  /\ worker' = [worker EXCEPT ![r] = "committing"]
  /\ UNCHANGED <<counts, caller, late, seen, outcome, committed, told>>

(* Deadline::settle, refused: the transaction is dropped uncommitted. *)
SettleRefused(r) ==
  /\ worker[r] = "working"
  /\ r \in Updates
  /\ StateFree(r)
  /\ state[r] = "Abandoned"
  /\ outcome' = [outcome EXCEPT ![r] = "err"]
  /\ worker' = [worker EXCEPT ![r] = "ended"]
  /\ UNCHANGED <<counts, caller, state, late, seen, committed, told>>

Commit(r) ==
  /\ worker[r] = "committing"
  /\ committed' = [committed EXCEPT ![r] = TRUE]
  /\ worker' = [worker EXCEPT ![r] = "committed"]
  /\ UNCHANGED <<counts, caller, state, late, seen, outcome, told>>

CommitFails(r) ==
  /\ worker[r] = "committing"
  /\ outcome' = [outcome EXCEPT ![r] = "err"]
  /\ worker' = [worker EXCEPT ![r] = "ended"]
  /\ UNCHANGED <<counts, caller, state, late, seen, committed, told>>

(* After the commit: the broad door counts the quads for its reply. *)
FinishUpdate(r) ==
  /\ worker[r] = "committed"
  /\ \E o \in (IF CountFails THEN {"ok", "err"} ELSE {"ok"}) :
       outcome' = [outcome EXCEPT ![r] = o]
  /\ worker' = [worker EXCEPT ![r] = "ended"]
  /\ UNCHANGED <<counts, caller, state, late, seen, committed, told>>

(* The body, after the closure: Settled unless the caller gave up. *)
EndWork(r) ==
  /\ worker[r] = "ended"
  /\ StateFree(r)
  /\ state' = [state EXCEPT ![r] = IF @ = "Abandoned" THEN @ ELSE "Settled"]
  /\ worker' = [worker EXCEPT ![r] = "releasing"]
  /\ UNCHANGED <<counts, caller, late, seen, outcome, committed, told>>

(* Hold::drop: look at the state, then lock the counts, then notify. *)
LookAtState(r) ==
  /\ worker[r] = "releasing"
  /\ StateFree(r)
  /\ seen' = [seen EXCEPT ![r] = state[r] = "Abandoned"]
  /\ worker' = [worker EXCEPT ![r] = "uncounting"]
  /\ UNCHANGED <<counts, caller, state, late, outcome, committed, told>>

ReleaseHold(r) ==
  /\ worker[r] = "uncounting"
  /\ Uncount(r)
  /\ worker' = [worker EXCEPT ![r] = "notifying"]
  /\ UNCHANGED <<caller, state, late, seen, outcome, committed, told>>

NotifyReleased(r) ==
  /\ worker[r] = "notifying"
  /\ NotifyAll(r, caller[r])
  /\ worker' = [worker EXCEPT ![r] = IF outcome[r] = "none" THEN "gone" ELSE "sending"]
  /\ UNCHANGED <<counts, state, late, seen, outcome, committed, told>>

Send(r) ==
  /\ worker[r] = "sending"
  /\ worker' = [worker EXCEPT ![r] = "gone"]
  /\ UNCHANGED <<counts, caller, state, late, seen, outcome, committed, told>>

-----------------------------------------------------------------------------
CallerStep(r) ==
  \/ Ask(r) \/ BudgetRunsOut(r) \/ RefuseAtTheCap(r) \/ AdmitUpdate(r)
  \/ TakeSlot(r) \/ NoSlot(r) \/ Sleep(r) \/ WakeUp(r) \/ Start(r) \/ StartFails(r)
  \/ HearStartFailed(r) \/ GiveUp(r) \/ CountAbandoned(r) \/ ReplyTimeout(r)
  \/ WaitForSettled(r) \/ HearOutcome(r) \/ AskAgain(r)

WorkerStep(r) ==
  \/ Begin(r) \/ FinishWork(r) \/ Settle(r) \/ SettleRefused(r) \/ Commit(r)
  \/ CommitFails(r) \/ FinishUpdate(r) \/ EndWork(r) \/ LookAtState(r)
  \/ ReleaseHold(r) \/ NotifyReleased(r) \/ Send(r)

Next == \E r \in Requests : CallerStep(r) \/ WorkerStep(r)

Spec == Init /\ [][Next]_vars

(* Fairness: threads run and clocks advance.  Nothing is assumed of a      *)
(* spurious wakeup, of a new request, of when a queued job is begun, or of *)
(* the evaluation itself, which may never return.                          *)
Fairness ==
  \A r \in Requests :
    /\ WF_vars(BudgetRunsOut(r))
    /\ WF_vars(RefuseAtTheCap(r) \/ AdmitUpdate(r) \/ TakeSlot(r) \/ NoSlot(r) \/ Sleep(r))
    /\ WF_vars(late[r] /\ WakeUp(r))
    /\ WF_vars(Start(r) \/ StartFails(r) \/ HearStartFailed(r))
    /\ WF_vars(GiveUp(r) \/ WaitForSettled(r) \/ HearOutcome(r))
    /\ WF_vars(CountAbandoned(r) \/ ReplyTimeout(r))
    /\ WF_vars(Commit(r) \/ CommitFails(r) \/ FinishUpdate(r) \/ EndWork(r)
               \/ LookAtState(r) \/ ReleaseHold(r) \/ NotifyReleased(r) \/ Send(r))

FairSpec == Spec /\ Fairness

-----------------------------------------------------------------------------
(* What the counters stand for.                                            *)

(* A read holds its slot from `reserve` until its Hold has been uncounted. *)
HoldsSlot(r) ==
  /\ r \in Reads
  /\ \/ caller[r] = "admitted"
     \/ worker[r] \in {"queued", "working", "ended", "releasing", "uncounting"}

(* Overdue: abandoned and counted so, its Hold not yet uncounted. *)
IsOverdue(r) ==
  /\ state[r] = "Abandoned"
  /\ caller[r] # "givingUp"
  /\ worker[r] \notin {"notifying", "sending", "gone"}

Holders == {r \in Requests : HoldsSlot(r)}
Overdue == {r \in Requests : IsOverdue(r)}
Of(S, k) == {r \in S : CallerOf[r] = k}
Shared(S) == {r \in S : CallerOf[r] # Host}

(* Every counter is the number of evaluations it stands for, however       *)
(* timeouts, skipped jobs, failed starts and releases interleave: the      *)
(* saturating subtractions of Hold::drop never hide a miscount.            *)
CountsAreTrue ==
  /\ counts.running = Cardinality(Holders)
  /\ counts.overdue = Cardinality(Overdue)
  /\ counts.overdueReads = Cardinality(Overdue \cap Reads)
  /\ counts.shared.running = Cardinality(Shared(Holders))
  /\ counts.shared.overdue = Cardinality(Shared(Overdue))
  /\ \A k \in Keys :
       /\ counts.callers[k].running = Cardinality(Of(Holders, k))
       /\ counts.callers[k].overdue = Cardinality(Of(Overdue, k))

(* The promise of the cap, the reserve and the share (the doc comment of   *)
(* Evaluations): reads whose threads may pin a core are never more than    *)
(* the cap, those of all callers but the host never eat into the reserve,  *)
(* and one caller's never pass its share, overdue ones included.           *)
SlotsAreBounded ==
  /\ Cardinality(Holders) <= Cap
  /\ Cardinality(Shared(Holders)) <= Cap - Reserve
  /\ \A k \in Keys : Cardinality(Of(Holders, k)) <= Share

(* A caller asleep in `reserve` although it could now be admitted, or must *)
(* now be refused, has a notification on its way: every change of the      *)
(* counts that matters to it is followed by a notify_all.                  *)
NoLostWakeup ==
  \A r \in Requests :
    caller[r] = "asleep" /\ (OverdueFull(r) \/ ~RunningFull(r))
      => \E q \in Requests : caller[q] = "counted" \/ worker[q] = "notifying"

(* A refusal is true of the threads themselves, overdue ones and those of  *)
(* abandoned callers included: as many evaluations as it says take what it *)
(* says is full, they are as many as it allows or more, and it blames no   *)
(* pool while the store is full and no caller while the pool is.  The host *)
(* is held up by the store's slots alone ("The host's own are not").       *)
SaysTrue(refusal, r, S) ==
  /\ refusal.said = Cardinality(CASE refusal.full = "Store" -> S
                                  [] refusal.full = "Pool"  -> Shared(S)
                                  [] refusal.full = "Share" -> Of(S, CallerOf[r]))
  /\ refusal.said >= refusal.most
  /\ CallerOf[r] = Host => refusal.full = "Store"
  /\ refusal.full # "Store" => Cardinality(S \cap Reads) < Cap
  /\ refusal.full = "Share" => Cardinality(Shared(S)) < Pool

RefusalsAreTrue ==
  \A r \in Requests : caller[r] = "admission" =>
    /\ OverdueFull(r) => SaysTrue(at_the_cap(r), r, Overdue)
    /\ RunningFull(r) => SaysTrue(no_slot(r), r, Holders)

(* "Nothing was written" is true of every timeout (budget.rs, `timeout`):  *)
(* an update whose caller heard that is not in the store, now or later.    *)
TimeoutWroteNothing ==
  \A r \in Requests : told[r] = "timeout" => ~committed[r]

(* "A write lands exactly when its caller is told it did" (settle).        *)
WrittenExactlyWhenTold ==
  \A r \in Updates : caller[r] = "answered" => (told[r] = "ok" <=> committed[r])

(* The host is turned away, at once or for want of a slot, only when the   *)
(* host's own reads fill the reserve: however many evaluations the other   *)
(* callers leave running, "the host's own reads and its backup find room"  *)
(* (with_reserve).                                                         *)
HostFindsItsReserve ==
  [][\A r \in Requests :
       /\ CallerOf[r] = Host
       /\ told[r] = "none"
       /\ told'[r] \in {"refused", "noSlot"}
       => Cardinality(Of(Holders, Host)) >= Reserve]_vars

(* The counters, mutexes and threads implement the pool of slots: each     *)
(* step takes one slot, makes one evaluation overdue, ends one, or changes *)
(* nothing the pool knows of.                                              *)
Slots == INSTANCE SlotPool WITH
           Tasks <- Requests, Slotless <- Updates, OwnerOf <- CallerOf,
           held <- Holders, overdue <- Overdue

ImplementsSlotPool == Slots!PoolSpec

(* Every caller is answered, though evaluations may never return: within   *)
(* its budget, or once the commit it was too late to stop has ended.       *)
EveryCallerIsAnswered ==
  \A r \in Requests : caller[r] \in CallerStates \ {"idle", "answered"} ~> caller[r] = "answered"
=============================================================================
