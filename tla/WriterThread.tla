----------------------------- MODULE WriterThread -----------------------------
(***************************************************************************)
(* The long-lived thread one store commits its writes on (budget.rs,       *)
(* `Writer`), and the write lock every write takes there (store.rs).       *)
(*                                                                         *)
(* A write is an UPDATE, whose caller waits no longer than its budget, or  *)
(* a CALL (SharedWriter, the `load` door), whose caller waits for ever.    *)
(* Updates are evaluated on a stack sized for their text; when the         *)
(* thread's stack is too small a larger thread takes its place, and the    *)
(* old one finishes its queue.  Then two threads run jobs at once, and     *)
(* only the lock orders them.  The closure of a CALL is the host's, which  *)
(* may ask for another write from inside it.                               *)
(*                                                                         *)
(* How a timed-out caller and its worker settle on one outcome is in       *)
(* Evaluations.tla; here it is told[w] = "timeout".                        *)
(***************************************************************************)
EXTENDS Integers, FiniteSets, Sequences

CONSTANTS
  Writes,     \* every write asked for, once each
  Calls,      \* those without a deadline; the rest are updates
  Outside,    \* a caller that is on no writer thread
  AskedBy,    \* Outside, or the call whose closure asks for this write
  StackOf,    \* the stack each write needs
  MaxStack    \* the stack of a text of MAX_SPARQL_BYTES

ASSUME WriterThreadAssumption ==
  /\ Calls \subseteq Writes
  /\ Outside \notin Writes
  /\ AskedBy \in [Writes -> Calls \cup {Outside}]
  /\ StackOf \in [Writes -> Nat \ {0}]
  /\ MaxStack \in Nat

Powers(stack) == {2^i : i \in 0..stack}
IsLeastPower(p, stack) == p >= stack /\ \A q \in Powers(stack) : q >= stack => p <= q

\* What next_power_of_two returns exists, and fits in the type.
ASSUME PowersReach ==
  \A w \in Writes :
    /\ Powers(StackOf[w]) \subseteq Nat
    /\ \E p \in Powers(StackOf[w]) : IsLeastPower(p, StackOf[w])

VARIABLES
  threads,   \* every thread there was, the last one the Writer's slot
  at,        \* where each write stands
  told,      \* what its caller was answered
  lock,      \* the write that holds the write lock
  before,    \* the data each write read under the lock, which it writes over
  data       \* the dataset: the writes that are in it

vars == <<threads, at, told, lock, before, data>>

NoWrite == Outside

(* With the types: the lock is held by a job under way, never by one that  *)
(* has ended, in whatever way it did (the lock of a job that panicked is   *)
(* not left poisoned).                                                     *)
TypeOK ==
  /\ threads \in Seq([stack : Nat, queue : Seq(Writes)])
  /\ at \in [Writes -> {"idle", "queued", "evaluating", "writing", "settled", "done"}]
  /\ told \in [Writes -> {"none", "ok", "uncounted", "err", "refused", "timeout"}]
  /\ lock \in Writes \cup {NoWrite}
  /\ lock # NoWrite => at[lock] \in {"writing", "settled"}
  /\ before \in [Writes -> SUBSET Writes]
  /\ data \in SUBSET Writes

Init ==
  /\ threads = <<>>
  /\ at = [w \in Writes |-> "idle"]
  /\ told = [w \in Writes |-> "none"]
  /\ lock = NoWrite
  /\ before = [w \in Writes |-> {}]
  /\ data = {}

-----------------------------------------------------------------------------
(* A closure waits while what it asked for is unanswered. *)
Waiting(w) == \E n \in Writes : AskedBy[n] = w /\ at[n] # "idle" /\ told[n] = "none"

MayAsk(w) ==
  /\ at[w] = "idle"
  /\ AskedBy[w] # Outside => at[AskedBy[w]] = "writing" /\ ~Waiting(AskedBy[w])

(* The smallest power of two that holds the stack, but no more than the    *)
(* largest text needs, and never less than this one needs.                 *)
SizeFor(stack) ==
  LET power   == CHOOSE p \in Powers(stack) : IsLeastPower(p, stack)
      clamped == IF power < MaxStack THEN power ELSE MaxStack
  IN  IF clamped > stack THEN clamped ELSE stack

Current == threads[Len(threads)]

(* Mistaken: any thread will do. *)
FitsAnyStack(w) == threads # <<>>

Fits(w) == threads # <<>> /\ Current.stack >= StackOf[w]

RunsOn(w, thread) == thread.queue # <<>> /\ Head(thread.queue) = w /\ at[w] # "queued"

Enter(w, ts) ==
  /\ threads' = ts
  /\ at' = [at EXCEPT ![w] = "queued"]
  /\ UNCHANGED <<told, lock, before, data>>

TurnAway(w, reply) ==
  /\ at' = [at EXCEPT ![w] = "done"]
  /\ told' = [told EXCEPT ![w] = reply]
  /\ UNCHANGED <<threads, lock, before, data>>

(* submit: asked for on the very thread it would be queued on. *)
RefuseNested(w) ==
  /\ MayAsk(w) /\ Fits(w)
  /\ AskedBy[w] # Outside /\ RunsOn(AskedBy[w], Current)
  /\ TurnAway(w, "refused")

(* submit: one more job for the current thread. *)
Enqueue(w) ==
  /\ MayAsk(w) /\ Fits(w)
  /\ AskedBy[w] # Outside => ~RunsOn(AskedBy[w], Current)
  /\ Enter(w, [threads EXCEPT ![Len(threads)].queue = Append(@, w)])

(* submit: the first thread, or a larger one in the place of the current.  *)
Grow(w) ==
  /\ MayAsk(w) /\ ~Fits(w)
  /\ Enter(w, Append(threads, [stack |-> SizeFor(StackOf[w]), queue |-> <<w>>]))

(* submit: no thread of that size could be started. *)
SpawnFails(w) ==
  /\ MayAsk(w) /\ ~Fits(w)
  /\ TurnAway(w, "err")

-----------------------------------------------------------------------------
(* A thread's job.                                                         *)

(* The next job, once the one at the head of the queue has left it. *)
Pop(w) == [t \in DOMAIN threads |->
             IF threads[t].queue # <<>> /\ Head(threads[t].queue) = w
             THEN [threads[t] EXCEPT !.queue = Tail(@)]
             ELSE threads[t]]

AtHead(w) == \E t \in DOMAIN threads : threads[t].queue # <<>> /\ Head(threads[t].queue) = w

(* An update abandoned in the queue is skipped (on_its_own_thread). *)
Begin(w) ==
  /\ at[w] = "queued" /\ AtHead(w)
  /\ told[w] = "none"
  /\ at' = [at EXCEPT ![w] = "evaluating"]
  /\ UNCHANGED <<threads, told, lock, before, data>>

Skip(w) ==
  /\ at[w] = "queued" /\ AtHead(w)
  /\ told[w] = "timeout"
  /\ at' = [at EXCEPT ![w] = "done"]
  /\ threads' = Pop(w)
  /\ UNCHANGED <<told, lock, before, data>>

(* Mistaken: one writer thread is taken to be order enough. *)
TakeLockUnlocked(w) ==
  /\ at[w] = "evaluating"
  /\ lock' = w
  /\ before' = [before EXCEPT ![w] = data]
  /\ at' = [at EXCEPT ![w] = "writing"]
  /\ UNCHANGED <<threads, told, data>>

(* write_lock(), on the writer thread and not on the caller's; what the    *)
(* write reads of the dataset it reads after that.                         *)
TakeLock(w) ==
  /\ at[w] = "evaluating"
  /\ lock = NoWrite
  /\ lock' = w
  /\ before' = [before EXCEPT ![w] = data]
  /\ at' = [at EXCEPT ![w] = "writing"]
  /\ UNCHANGED <<threads, told, data>>

(* Mistaken: a job that failed leaves the lock poisoned. *)
EndPoisoned(w, reply) ==
  /\ at' = [at EXCEPT ![w] = "done"]
  /\ told' = [told EXCEPT ![w] = IF @ = "none" THEN reply ELSE @]
  /\ lock' = IF lock = w /\ reply = "ok" THEN NoWrite ELSE lock
  /\ threads' = Pop(w)
  /\ UNCHANGED before

(* The job ends: the lock is free, the caller hears (if it is still there) *)
(* and the thread takes up its next job.                                   *)
End(w, reply) ==
  /\ at' = [at EXCEPT ![w] = "done"]
  /\ told' = [told EXCEPT ![w] = IF @ = "none" THEN reply ELSE @]
  /\ lock' = IF lock = w THEN NoWrite ELSE lock
  /\ threads' = Pop(w)
  /\ UNCHANGED before

(* An update that does not parse, or that the door refuses. *)
Reject(w) ==
  /\ at[w] = "evaluating" /\ w \notin Calls
  /\ End(w, "err")
  /\ UNCHANGED data

(* An error of the closure or a caught panic; or the caller had gone and   *)
(* `settle` refused the commit.                                            *)
Fail(w) ==
  /\ \/ at[w] = "writing" /\ ~Waiting(w)
     \/ at[w] = "settled"
  /\ End(w, "err")
  /\ UNCHANGED data

(* An update commits only while its caller still waits (Deadline::settle). *)
Settle(w) ==
  /\ at[w] = "writing" /\ w \notin Calls
  /\ told[w] = "none"
  /\ at' = [at EXCEPT ![w] = "settled"]
  /\ UNCHANGED <<threads, told, lock, before, data>>

(* The write is in, and then the dataset is counted for the answer: if     *)
(* that fails the caller hears its error, and the write is in.             *)
Commit(w) ==
  /\ \/ at[w] = "writing" /\ w \in Calls /\ ~Waiting(w)
     \/ at[w] = "settled"
  /\ data' = before[w] \cup {w}
  /\ \E reply \in {"ok", "uncounted"} : End(w, reply)

(* Mistaken: the budget is the wait in the queue and no more. *)
TimeOutInQueue(w) ==
  /\ w \notin Calls
  /\ at[w] = "queued"
  /\ told[w] = "none"
  /\ told' = [told EXCEPT ![w] = "timeout"]
  /\ UNCHANGED <<threads, at, lock, before, data>>

(* The budget of an update's caller is over before it settled. *)
TimeOut(w) ==
  /\ w \notin Calls
  /\ at[w] \in {"queued", "evaluating", "writing"}
  /\ told[w] = "none"
  /\ told' = [told EXCEPT ![w] = "timeout"]
  /\ UNCHANGED <<threads, at, lock, before, data>>

Submit(w) == RefuseNested(w) \/ Enqueue(w) \/ Grow(w) \/ SpawnFails(w)

Job(w) ==
  \/ Begin(w) \/ Skip(w) \/ Reject(w) \/ TakeLock(w)
  \/ Fail(w) \/ Settle(w) \/ Commit(w)

Next == \E w \in Writes : Submit(w) \/ Job(w) \/ TimeOut(w)

Spec == Init /\ [][Next]_vars

(* Threads run, a job that was begun goes on to the lock and, once it has  *)
(* it, returns, and a budget runs out.  Nothing is assumed of requests or  *)
(* of rejections.  The lock is not assumed to be fair: the writes are      *)
(* finitely many.                                                          *)
Fairness ==
  \A w \in Writes :
    /\ WF_vars(Begin(w) \/ Skip(w))
    /\ WF_vars(TakeLock(w))
    /\ WF_vars(Fail(w) \/ Settle(w) \/ Commit(w))
    /\ WF_vars(TimeOut(w))

FairSpec == Spec /\ Fairness

-----------------------------------------------------------------------------
(* The dataset holds the writes whose callers were told so, or that only   *)
(* the count after them failed, and no others, however callers give up and *)
(* threads overlap: no write is lost to one that read the data before it   *)
(* ("two concurrent scoped writes to the same graph could otherwise lose   *)
(* one of them", write_lock), and none of those refused, failed or timed   *)
(* out is in it.                                                           *)
NoLostUpdate == data = {w \in Writes : told[w] \in {"ok", "uncounted"}}

(* Every job runs on a stack that holds it, and a thread is only ever      *)
(* replaced by a larger one, so they are at most logarithmically many.     *)
StacksFit ==
  \A t \in DOMAIN threads :
    /\ \A i \in DOMAIN threads[t].queue : StackOf[threads[t].queue[i]] <= threads[t].stack
    /\ \A u \in DOMAIN threads : t < u => threads[t].stack < threads[u].stack

(* "A closure that asks for another write through this type is refused     *)
(* rather than left waiting for itself forever, and so is one through the  *)
(* `load` door" (SharedWriter).                                            *)
NestedCallIsRefused ==
  \A w \in Calls : AskedBy[w] # Outside => at[w] \in {"idle", "done"}

(* Every write that is queued is answered, nested ones and those queued    *)
(* behind an update that timed out included.                               *)
EveryWriteIsAnswered == \A w \in Writes : at[w] # "idle" ~> told[w] # "none"
=============================================================================
