-------------------------- MODULE WriterThreadProofs --------------------------
(***************************************************************************)
(* No write is lost, for every set of writes, closure and stack: that      *)
(* argument never looks at the threads, since however many there are the   *)
(* lock alone orders what reads the dataset and writes over it.  And every *)
(* job fits the stack of its thread: that one looks at nothing else.       *)
(***************************************************************************)
EXTENDS WriterThread, SequenceTheorems, TLAPS

Locals == [Writes -> {"idle", "queued", "evaluating", "writing", "settled", "done"}]

(* The types of everything but the threads. *)
Types ==
  /\ at \in Locals
  /\ told \in [Writes -> {"none", "ok", "uncounted", "err", "refused", "timeout"}]
  /\ lock \in Writes \cup {NoWrite}
  /\ before \in [Writes -> SUBSET Writes]
  /\ data \in SUBSET Writes

(* What a write under way read is still what the dataset holds. *)
LockGuards ==
  /\ \A w \in Writes :
       at[w] \in {"writing", "settled"} => lock = w /\ before[w] = data
  /\ lock # NoWrite => at[lock] \in {"writing", "settled"}

(* Who may have been answered already: nobody who has not asked, no call   *)
(* and no settled update before its job ended; and the answer of a write   *)
(* says whether it is in.                                                  *)
Answers ==
  \A w \in Writes :
    /\ at[w] \in {"idle", "settled"} => told[w] = "none"
    /\ w \in Calls /\ at[w] # "done" => told[w] = "none"
    /\ told[w] \in {"ok", "uncounted"} => at[w] = "done"
    /\ w \in data <=> told[w] \in {"ok", "uncounted"}

IInv == Types /\ LockGuards /\ Answers

LEMMA InitIInv == Init => IInv
BY DEF Init, IInv, Types, Locals, LockGuards, Answers, NoWrite

LEMMA NextIInv == ASSUME IInv, [Next]_vars PROVE IInv'
<1> USE DEF IInv, Types, Locals, LockGuards, Answers, NoWrite
<1>1. CASE UNCHANGED vars
  BY <1>1 DEF vars
<1>2. ASSUME NEW w \in Writes, RefuseNested(w) PROVE IInv'
  BY <1>2 DEF RefuseNested, MayAsk, TurnAway
<1>3. ASSUME NEW w \in Writes, Enqueue(w) PROVE IInv'
  BY <1>3 DEF Enqueue, MayAsk, Enter
<1>4. ASSUME NEW w \in Writes, Grow(w) PROVE IInv'
  BY <1>4 DEF Grow, MayAsk, Enter
<1>5. ASSUME NEW w \in Writes, SpawnFails(w) PROVE IInv'
  BY <1>5 DEF SpawnFails, MayAsk, TurnAway
<1>6. ASSUME NEW w \in Writes, Begin(w) PROVE IInv'
  BY <1>6 DEF Begin
<1>7. ASSUME NEW w \in Writes, Skip(w) PROVE IInv'
  BY <1>7 DEF Skip
<1>8. ASSUME NEW w \in Writes, Reject(w) PROVE IInv'
  BY <1>8 DEF Reject, End
<1>9. ASSUME NEW w \in Writes, TakeLock(w) PROVE IInv'
  BY <1>9, WriterThreadAssumption DEF TakeLock, WriterThreadAssumption
<1>10. ASSUME NEW w \in Writes, Fail(w) PROVE IInv'
  BY <1>10 DEF Fail, End
<1>11. ASSUME NEW w \in Writes, Settle(w) PROVE IInv'
  BY <1>11 DEF Settle
<1>12. ASSUME NEW w \in Writes, Commit(w) PROVE IInv'
  BY <1>12 DEF Commit, End
<1>13. ASSUME NEW w \in Writes, TimeOut(w) PROVE IInv'
  BY <1>13 DEF TimeOut
<1> QED
  BY <1>1, <1>2, <1>3, <1>4, <1>5, <1>6, <1>7, <1>8, <1>9, <1>10, <1>11, <1>12, <1>13
  DEF Next, Submit, Job

(* The dataset holds the writes whose callers were told so and no others:  *)
(* every commit through the doors and SharedWriter (write_lock, settle).   *)
THEOREM WritesAreNotLost == Spec => []NoLostUpdate
<1>1. IInv => NoLostUpdate
  BY DEF IInv, Types, Answers, NoLostUpdate
<1> QED
  BY <1>1, InitIInv, NextIInv, PTL DEF Spec

-----------------------------------------------------------------------------
(* The threads, whose stacks nothing above looks at.                       *)

Thread == [stack : Nat, queue : Seq(Writes)]

(* StacksFit of any sequence of threads. *)
AllFit(ts) ==
  \A t \in DOMAIN ts :
    /\ \A i \in DOMAIN ts[t].queue : StackOf[ts[t].queue[i]] <= ts[t].stack
    /\ \A u \in DOMAIN ts : t < u => ts[t].stack < ts[u].stack

LEMMA SizeHoldsTheStack ==
  ASSUME NEW w \in Writes
  PROVE  SizeFor(StackOf[w]) \in Nat /\ SizeFor(StackOf[w]) >= StackOf[w]
<1> DEFINE stack == StackOf[w]
           power == CHOOSE p \in Powers(stack) : IsLeastPower(p, stack)
           clamped == IF power < MaxStack THEN power ELSE MaxStack
<1>1. stack \in Nat /\ MaxStack \in Nat
  BY WriterThreadAssumption
<1>2. power \in Nat
  <2>1. \E p \in Powers(stack) : IsLeastPower(p, stack)
    BY PowersReach
  <2>2. power \in Powers(stack)
    BY <2>1
  <2> QED
    BY <2>2, PowersReach
<1>3. SizeFor(stack) = IF clamped > stack THEN clamped ELSE stack
  BY DEF SizeFor
<1> HIDE DEF power
<1> QED
  BY <1>1, <1>2, <1>3

LEMMA LargerThreadFits ==
  ASSUME NEW ts \in Seq(Thread), AllFit(ts), NEW w \in Writes,
         NEW size \in Nat, size >= StackOf[w],
         ts # <<>> => ts[Len(ts)].stack < size
  PROVE  LET new == Append(ts, [stack |-> size, queue |-> <<w>>])
         IN  new \in Seq(Thread) /\ AllFit(new)
<1> DEFINE thread == [stack |-> size, queue |-> <<w>>]
           new == Append(ts, thread)
<1>1. thread \in Thread
  BY DEF Thread
<1>2. thread.stack = size /\ DOMAIN thread.queue = {1} /\ thread.queue[1] = w
  OBVIOUS
<1> HIDE DEF thread
<1>3. /\ new \in Seq(Thread) /\ DOMAIN new = 1..Len(ts) + 1 /\ DOMAIN ts = 1..Len(ts)
      /\ Len(ts) \in Nat /\ new[Len(ts) + 1] = thread
      /\ \A t \in 1..Len(ts) : new[t] = ts[t]
  BY <1>1
<1>4. ASSUME NEW t \in 1..Len(ts) PROVE ts[t].stack < size
  <2>1. ts # <<>> /\ Len(ts) \in 1..Len(ts)
    OBVIOUS
  <2>2. CASE t = Len(ts)
    BY <2>1, <2>2
  <2>3. CASE t # Len(ts)
    <3>1. t < Len(ts) /\ t \in DOMAIN ts /\ Len(ts) \in DOMAIN ts
      BY <2>1, <2>3
    <3>2. ts[t] \in Thread /\ ts[Len(ts)] \in Thread
      BY <3>1
    <3>3. ts[t].stack \in Nat /\ ts[Len(ts)].stack \in Nat
      BY <3>2 DEF Thread
    <3>4. ts[t].stack < ts[Len(ts)].stack
      BY <3>1 DEF AllFit
    <3> QED
      BY <2>1, <3>3, <3>4
  <2> QED
    BY <2>2, <2>3
<1> HIDE DEF new
<1>5. ASSUME NEW t \in DOMAIN new
      PROVE  /\ \A i \in DOMAIN new[t].queue : StackOf[new[t].queue[i]] <= new[t].stack
             /\ \A u \in DOMAIN new : t < u => new[t].stack < new[u].stack
  <2>1. CASE t = Len(ts) + 1
    BY <1>2, <1>3, <2>1, WriterThreadAssumption
  <2>2. CASE t # Len(ts) + 1
    <3>1. t \in 1..Len(ts) /\ new[t] = ts[t]
      BY <1>3, <2>2
    <3>2. \A i \in DOMAIN new[t].queue : StackOf[new[t].queue[i]] <= new[t].stack
      BY <1>3, <3>1 DEF AllFit
    <3>3. ASSUME NEW u \in DOMAIN new, t < u PROVE new[t].stack < new[u].stack
      <4>1. CASE u = Len(ts) + 1
        BY <1>2, <1>3, <1>4, <3>1, <4>1
      <4>2. CASE u # Len(ts) + 1
        <5>1. u \in 1..Len(ts) /\ new[u] = ts[u]
          BY <1>3, <4>2
        <5> QED
          BY <1>3, <3>1, <3>3, <5>1 DEF AllFit
      <4> QED
        BY <4>1, <4>2
    <3> QED
      BY <3>2, <3>3
  <2> QED
    BY <2>1, <2>2
<1> QED
  BY <1>3, <1>5 DEF AllFit, new, thread

LEMMA OneMoreJobFits ==
  ASSUME NEW ts \in Seq(Thread), AllFit(ts), NEW w \in Writes, ts # <<>>,
         ts[Len(ts)].stack >= StackOf[w]
  PROVE  LET new == [ts EXCEPT ![Len(ts)].queue = Append(@, w)]
         IN  new \in Seq(Thread) /\ AllFit(new)
<1> DEFINE last == Len(ts)
           queue == Append(ts[last].queue, w)
           new == [ts EXCEPT ![last].queue = Append(@, w)]
<1>1. last \in DOMAIN ts /\ DOMAIN ts = 1..last /\ last \in Nat
  OBVIOUS
<1>2. \A t \in DOMAIN ts : ts[t] \in Thread
  OBVIOUS
<1>3. ts[last].queue \in Seq(Writes) /\ ts[last].stack \in Nat
  BY <1>1, <1>2 DEF Thread
<1>4. /\ queue \in Seq(Writes)
      /\ \A i \in DOMAIN queue :
            \/ i \in DOMAIN ts[last].queue /\ queue[i] = ts[last].queue[i]
            \/ queue[i] = w
  BY <1>3
<1>5. /\ DOMAIN new = DOMAIN ts
      /\ \A t \in DOMAIN ts : t # last => new[t] = ts[t]
      /\ new[last] = [ts[last] EXCEPT !.queue = queue]
  BY <1>1
<1>6. new[last].queue = queue /\ new[last].stack = ts[last].stack /\ new[last] \in Thread
  BY <1>1, <1>2, <1>3, <1>4, <1>5 DEF Thread
<1>7. \A t \in DOMAIN ts : new[t].stack = ts[t].stack /\ new[t] \in Thread
  BY <1>2, <1>5, <1>6
<1>8. new \in Seq(Thread)
  BY <1>1, <1>5, <1>7, IsASeq, SMTT(30)
<1> HIDE DEF new, queue, last
<1>9. ASSUME NEW t \in DOMAIN ts, NEW i \in DOMAIN new[t].queue
      PROVE  StackOf[new[t].queue[i]] <= new[t].stack
  <2>1. CASE t # last
    BY <1>5, <1>9, <2>1 DEF AllFit
  <2>2. CASE t = last
    <3>1. i \in DOMAIN queue /\ new[t].queue[i] = queue[i] /\ new[t].stack = ts[last].stack
      BY <1>6, <1>9, <2>2
    <3>2. CASE queue[i] = w
      <4>1. StackOf[w] \in Nat
        BY WriterThreadAssumption
      <4> QED
        BY <1>3, <3>1, <3>2, <4>1 DEF last
    <3>3. CASE i \in DOMAIN ts[last].queue /\ queue[i] = ts[last].queue[i]
      BY <1>1, <3>1, <3>3 DEF AllFit
    <3> QED
      BY <1>4, <3>1, <3>2, <3>3
  <2> QED
    BY <2>1, <2>2
<1>10. AllFit(new)
  BY <1>5, <1>7, <1>9 DEF AllFit
<1> QED
  BY <1>8, <1>10 DEF new, last

LEMMA OneJobLessFits ==
  ASSUME NEW ts \in Seq(Thread), AllFit(ts), NEW w \in Writes
  PROVE  LET new == [t \in DOMAIN ts |->
                       IF ts[t].queue # <<>> /\ Head(ts[t].queue) = w
                       THEN [ts[t] EXCEPT !.queue = Tail(@)]
                       ELSE ts[t]]
         IN  new \in Seq(Thread) /\ AllFit(new)
<1> DEFINE new == [t \in DOMAIN ts |->
                     IF ts[t].queue # <<>> /\ Head(ts[t].queue) = w
                     THEN [ts[t] EXCEPT !.queue = Tail(@)]
                     ELSE ts[t]]
<1>1. ASSUME NEW t \in DOMAIN ts
      PROVE  /\ new[t] \in Thread /\ new[t].stack = ts[t].stack
             /\ \A i \in DOMAIN new[t].queue :
                  \E j \in DOMAIN ts[t].queue : new[t].queue[i] = ts[t].queue[j]
  <2>1. ts[t] \in Thread
    OBVIOUS
  <2>2. ts[t].queue \in Seq(Writes) /\ ts[t].stack \in Nat
    BY <2>1 DEF Thread
  <2>3. CASE ts[t].queue # <<>> /\ Head(ts[t].queue) = w
    <3>1. new[t] = [ts[t] EXCEPT !.queue = Tail(ts[t].queue)]
      BY <2>3
    <3>2. /\ Tail(ts[t].queue) \in Seq(Writes)
          /\ \A i \in DOMAIN Tail(ts[t].queue) :
               i + 1 \in DOMAIN ts[t].queue /\ Tail(ts[t].queue)[i] = ts[t].queue[i + 1]
      BY <2>2, <2>3
    <3>3. new[t] \in Thread /\ new[t].stack = ts[t].stack /\ new[t].queue = Tail(ts[t].queue)
      BY <2>1, <3>1, <3>2 DEF Thread
    <3> HIDE DEF new
    <3> QED
      BY <3>2, <3>3
  <2>4. CASE ~(ts[t].queue # <<>> /\ Head(ts[t].queue) = w)
    <3>1. new[t] = ts[t]
      BY <2>4
    <3> HIDE DEF new
    <3> QED
      BY <2>1, <3>1
  <2> QED
    BY <2>3, <2>4
<1>2. DOMAIN new = DOMAIN ts
  OBVIOUS
<1>3. new \in Seq(Thread)
  BY <1>1, IsASeq
<1> HIDE DEF new
<1>4. ASSUME NEW t \in DOMAIN ts, NEW i \in DOMAIN new[t].queue
      PROVE  StackOf[new[t].queue[i]] <= new[t].stack
  <2>1. PICK j \in DOMAIN ts[t].queue : new[t].queue[i] = ts[t].queue[j]
    BY <1>1, <1>4
  <2>2. StackOf[ts[t].queue[j]] <= ts[t].stack
    BY DEF AllFit
  <2> QED
    BY <1>1, <2>1, <2>2
<1>5. AllFit(new)
  BY <1>1, <1>2, <1>4 DEF AllFit
<1> QED
  BY <1>3, <1>5 DEF new

-----------------------------------------------------------------------------
(* Jobs fit                                                                *)

Threads == threads \in Seq(Thread) /\ AllFit(threads)

LEMMA NextThreads == ASSUME Threads, [Next]_vars PROVE Threads'
<1>1. ASSUME NEW w \in Writes, Enqueue(w) PROVE Threads'
  <2>1. threads # <<>> /\ threads[Len(threads)].stack >= StackOf[w]
    BY <1>1 DEF Enqueue, Fits, Current
  <2>2. threads' = [threads EXCEPT ![Len(threads)].queue = Append(@, w)]
    BY <1>1 DEF Enqueue, Enter
  <2> QED
    BY <2>1, <2>2, OneMoreJobFits DEF Threads
<1>2. ASSUME NEW w \in Writes, Grow(w) PROVE Threads'
  <2> DEFINE size == SizeFor(StackOf[w])
  <2>1. size \in Nat /\ size >= StackOf[w] /\ StackOf[w] \in Nat
    BY SizeHoldsTheStack, WriterThreadAssumption
  <2>2. threads' = Append(threads, [stack |-> size, queue |-> <<w>>])
    BY <1>2 DEF Grow, Enter
  <2> HIDE DEF size
  <2>3. ASSUME threads # <<>> PROVE threads[Len(threads)].stack < size
    <3>1. ~(threads[Len(threads)].stack >= StackOf[w])
      BY <1>2, <2>3 DEF Grow, Fits, Current
    <3>2. threads[Len(threads)] \in Thread
      BY <2>3 DEF Threads
    <3>3. threads[Len(threads)].stack \in Nat
      BY <3>2 DEF Thread
    <3> QED
      BY <2>1, <3>1, <3>3
  <2> QED
    BY <2>1, <2>2, <2>3, LargerThreadFits DEF Threads
<1>3. ASSUME NEW w \in Writes, threads' = Pop(w) PROVE Threads'
  BY <1>3, OneJobLessFits DEF Threads, Pop
<1>4. CASE UNCHANGED threads
  BY <1>4 DEF Threads
<1> QED
  BY <1>1, <1>2, <1>3, <1>4 DEF Next, Submit, Job, RefuseNested, SpawnFails, TurnAway, Begin,
     Skip, Reject, TakeLock, Fail, Settle, Commit, End, TimeOut, vars

(* Types, and the lock is held by a job under way (write_lock).            *)
THEOREM TypesAreCorrect == Spec => []TypeOK
<1>1. Init => IInv /\ Threads
  BY InitIInv DEF Init, Threads, AllFit
<1>2. IInv /\ Threads /\ [Next]_vars => (IInv /\ Threads)'
  BY NextIInv, NextThreads
<1>3. IInv /\ Threads => TypeOK
  BY DEF IInv, Types, Locals, LockGuards, Threads, Thread, TypeOK
<1> QED
  BY <1>1, <1>2, <1>3, PTL DEF Spec

(* Whatever texts are asked for, in whatever order, and however far an old *)
(* thread is behind, a job runs on a stack that holds it (Writer::submit). *)
THEOREM JobsFitTheirStacks == Spec => []StacksFit
<1>1. Init => Threads
  BY DEF Init, Threads, AllFit
<1>2. Threads /\ [Next]_vars => Threads'
  BY NextThreads
<1>3. Threads => StacksFit
  BY DEF Threads, AllFit, StacksFit
<1> QED
  BY <1>1, <1>2, <1>3, PTL DEF Spec
=============================================================================
