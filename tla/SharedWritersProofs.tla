-------------------------- MODULE SharedWritersProofs --------------------------
(***************************************************************************)
(* The writers of one handle stay on one line and within its declaration,  *)
(* for any number of handles, writers and graphs.  The invariant that      *)
(* carries the argument is the registry's: while anybody holds a line, its *)
(* entry is still there, there is no second one for that handle, and no    *)
(* other handle's entry has that line.                                     *)
(***************************************************************************)
EXTENDS SharedWriters, TLAPS

(* The registry's mutex is held by the writer that is between the two      *)
(* steps of `over`, and by nobody else.                                    *)
OneJoins == \A w \in Writers : writer[w].at = "joining" <=> registry = w

(* Writers that are there have a handle and, once made, a line. *)
WritersArePlaced ==
  \A w \in Writers :
    /\ writer[w].at # "none" => writer[w].handle \in Handles
    /\ writer[w].at \in {"live", "dropping"} => writer[w].line \in Lines

(* A store that was opened has a line; one that was not has no job, and    *)
(* its handle nobody has: no writer, no entry, nothing written.            *)
StoresArePlaced ==
  \A h \in Handles :
    /\ store[h] # "unopened" => storeLine[h] \in Lines
    /\ store[h] = "unopened" => door[h] = "idle"
    /\ store[h] = "unopened" /\ Coverage[h] # "HostOpened" =>
         /\ wrote[h] = {}
         /\ \A e \in given : e.handle # h
         /\ \A w \in Writers : writer[w].at # "none" => writer[w].handle # h
    /\ door[h] = "writing" => lock[storeLine[h]] = h

LinesAreDistinct == \A e, f \in given : e.line = f.line => e = f

(* A transaction stages only what its writer may write. *)
StagedIsPermitted ==
  \A w \in Writers :
    /\ Holds(w) => txn[w].staged \subseteq writer[w].declared \cup {Default}
    /\ ~Holds(w) => txn[w] = NoTxn
    /\ ~txn[w].refused => txn[w].asked = txn[w].staged

IInv ==
  /\ TypeOK /\ RegistryKnowsEveryLine
  /\ OneJoins /\ WritersArePlaced /\ StoresArePlaced /\ LinesAreDistinct
  /\ StagedIsPermitted /\ PromiseKept

LEMMA InitIInv == ASSUME Init PROVE IInv
<1> USE SharedWritersAssumption DEF SharedWritersAssumption, Init
<1>1. TypeOK
  BY DEF TypeOK, NoWriter, NoTxn, Entries, Named
<1>2. RegistryKnowsEveryLine
  BY DEF RegistryKnowsEveryLine, NoWriter, StoreAlive
<1>3. OneJoins /\ WritersArePlaced /\ LinesAreDistinct
  BY DEF OneJoins, WritersArePlaced, LinesAreDistinct, NoWriter
<1>4. StoresArePlaced /\ PromiseKept
  BY DEF StoresArePlaced, PromiseKept, StoreAlive, NoWriter
<1>5. StagedIsPermitted
  BY DEF StagedIsPermitted, Holds, NoWriter, NoTxn
<1> QED
  BY <1>1, <1>2, <1>3, <1>4, <1>5 DEF IInv

-----------------------------------------------------------------------------
(* What a writer or a store that lives keeps alive. *)
LEMMA LiveKeepsLine ==
  /\ \A w \in Writers : writer[w].at = "live" => LockAlive(writer[w].line)
  /\ \A h \in Handles : StoreAlive(h) => LockAlive(storeLine[h])
  /\ \A l : LockAlive(l) => ThreadAlive(l)
BY DEF LockAlive, ThreadAlive

(* Pruning takes no entry away that anybody needs. *)
LEMMA PruneKeepsRegistry ==
  ASSUME IInv, NEW kept, kept = {e \in given : Alive(e)}
  PROVE  /\ \A w \in Writers : writer[w].at = "live" =>
              \E e \in kept : /\ e.handle = writer[w].handle /\ e.line = writer[w].line
                             /\ writer[w].declared \subseteq e.declared
         /\ \A h \in Handles : StoreAlive(h) =>
              [handle |-> h, line |-> storeLine[h], declared |-> Declared(h)] \in kept
         /\ \A e, f \in kept : e.handle = f.handle => e = f
<1>1. ASSUME NEW w \in Writers, writer[w].at = "live"
      PROVE  \E e \in kept : /\ e.handle = writer[w].handle /\ e.line = writer[w].line
                            /\ writer[w].declared \subseteq e.declared
  <2>1. PICK e \in given : /\ e.handle = writer[w].handle /\ e.line = writer[w].line
                           /\ writer[w].declared \subseteq e.declared
    BY <1>1 DEF IInv, RegistryKnowsEveryLine
  <2>2. Alive(e)
    BY <1>1, <2>1, LiveKeepsLine DEF Alive
  <2> QED
    BY <2>1, <2>2
<1>2. ASSUME NEW h \in Handles, StoreAlive(h)
      PROVE  [handle |-> h, line |-> storeLine[h], declared |-> Declared(h)] \in kept
  <2>1. [handle |-> h, line |-> storeLine[h], declared |-> Declared(h)] \in given
    BY <1>2 DEF IInv, RegistryKnowsEveryLine
  <2>2. Alive([handle |-> h, line |-> storeLine[h], declared |-> Declared(h)])
    BY <1>2, LiveKeepsLine DEF Alive
  <2> QED
    BY <2>1, <2>2
<1>3. \A e, f \in kept : e.handle = f.handle => e = f
  BY DEF IInv, RegistryKnowsEveryLine
<1> QED
  BY <1>1, <1>2, <1>3

LEMMA OpenSharedKeepsRegistry ==
  ASSUME IInv, NEW h \in Handles, OpenShared(h)
  PROVE  RegistryKnowsEveryLine' /\ LinesAreDistinct'
<1> DEFINE kept == {e \in given : Alive(e)}
           Known(w) == \E e \in kept : /\ e.handle = writer[w].handle
                                       /\ e.line = writer[w].line
                                       /\ writer[w].declared \subseteq e.declared
<1>1. PICK l \in Lines :
        /\ Fresh(l)
        /\ storeLine' = [storeLine EXCEPT ![h] = l]
        /\ given' = kept \cup {[handle |-> h, line |-> l, declared |-> Declared(h)]}
  BY DEF OpenShared
<1>2. /\ store[h] = "unopened" /\ Coverage[h] # "HostOpened"
      /\ store' = [store EXCEPT ![h] = "held"]
      /\ UNCHANGED <<writer, door>>
  BY DEF OpenShared
<1>3. /\ \A w \in Writers : writer[w].at = "live" => Known(w)
      /\ \A g \in Handles : StoreAlive(g) =>
           [handle |-> g, line |-> storeLine[g], declared |-> Declared(g)] \in kept
      /\ \A e, f \in kept : e.handle = f.handle => e = f
  BY PruneKeepsRegistry, ZenonT(30)
<1>4. \A e \in given : e.handle # h /\ e.line # l
  BY <1>1, <1>2 DEF IInv, StoresArePlaced, Fresh
<1>5. \A w \in Writers : writer[w].at = "live" =>
        \E e \in given' : /\ e.handle = writer[w].handle /\ e.line = writer[w].line
                          /\ writer[w].declared \subseteq e.declared
  BY <1>1, <1>3
<1>6. \A g \in Handles : StoreAlive(g)' =>
        [handle |-> g, line |-> storeLine'[g], declared |-> Declared(g)] \in given'
  BY <1>1, <1>2, <1>3 DEF StoreAlive, IInv, TypeOK
<1>7. \A e, f \in given' : e.handle = f.handle => e = f
  BY <1>1, <1>3, <1>4
<1>8. LinesAreDistinct'
  BY <1>1, <1>4 DEF IInv, LinesAreDistinct
<1> QED
  BY <1>2, <1>5, <1>6, <1>7, <1>8 DEF RegistryKnowsEveryLine, Declared, Named

LEMMA OverPrunesKeepsRegistry ==
  ASSUME IInv, NEW w \in Writers, NEW h \in Handles, OverPrunes(w, h)
  PROVE  RegistryKnowsEveryLine'
<1>1. /\ given' = {e \in given : Alive(e)}
      /\ UNCHANGED <<store, storeLine, door>>
      /\ \A v \in Writers : writer'[v].at = "live" => writer[v].at = "live" /\ v # w
      /\ \A v \in Writers : v # w => writer'[v] = writer[v]
  BY DEF OverPrunes, IInv, TypeOK, NoWriter
<1>2. \A v \in Writers : writer'[v].at = "live" =>
        \E e \in given' : /\ e.handle = writer'[v].handle /\ e.line = writer'[v].line
                          /\ writer'[v].declared \subseteq e.declared
  <2>1. \A v \in Writers : writer[v].at = "live" =>
          \E e \in given' : /\ e.handle = writer[v].handle /\ e.line = writer[v].line
                            /\ writer[v].declared \subseteq e.declared
    BY <1>1, PruneKeepsRegistry, ZenonT(30)
  <2> QED
    BY <1>1, <2>1
<1>3. \A g \in Handles : StoreAlive(g)' =>
        [handle |-> g, line |-> storeLine'[g], declared |-> Declared(g)] \in given'
  BY <1>1, PruneKeepsRegistry DEF StoreAlive
<1>4. \A e, f \in given' : e.handle = f.handle => e = f
  BY <1>1, PruneKeepsRegistry
<1> QED
  BY <1>2, <1>3, <1>4 DEF RegistryKnowsEveryLine, Declared, Named

LEMMA OverPrunesKeepsTypes ==
  ASSUME IInv, NEW w \in Writers, NEW h \in Handles, OverPrunes(w, h)
  PROVE  TypeOK'
<1>1. /\ given' \subseteq given /\ registry' = w
      /\ UNCHANGED <<store, storeLine, door, lock, txn, wrote>>
      /\ writer' = [writer EXCEPT ![w] = [at |-> "joining", handle |-> h, line |-> None,
                                          declared |-> {}]]
      /\ writer[w].at = "none"
  BY DEF OverPrunes, NoWriter
<1>2. \A l \in Lines :
        lock[l] \in Writers => writer'[lock[l]].at = "live" /\ writer'[lock[l]].line = l
  BY <1>1 DEF IInv, TypeOK
<1> QED
  BY <1>1, <1>2 DEF IInv, TypeOK

LEMMA OverStartsKeepsRegistry ==
  ASSUME IInv, NEW w \in Writers, OverStarts(w)
  PROVE  RegistryKnowsEveryLine'
<1> DEFINE h == writer[w].handle
<1>1. PICK l \in Lines :
        /\ writer' = [writer EXCEPT ![w] = [at |-> "live", handle |-> h, line |-> l,
                                            declared |-> Asks[w]]]
        /\ given' = (given \ Recorded(h))
                      \cup {[handle |-> h, line |-> l, declared |-> Asks[w]]}
  BY DEF OverStarts, Make
<1>2. /\ \A e \in Recorded(h) : ~LockAlive(e.line)
      /\ UNCHANGED <<store, storeLine, door>>
  BY DEF OverStarts
<1>3. \A v \in Writers : writer[v].at = "live" =>
        \E e \in given : /\ e.handle = writer[v].handle /\ e.line = writer[v].line
                         /\ writer[v].declared \subseteq e.declared
                         /\ e \notin Recorded(h)
  <2> SUFFICES ASSUME NEW v \in Writers, writer[v].at = "live"
               PROVE  \E e \in given : /\ e.handle = writer[v].handle
                                       /\ e.line = writer[v].line
                                       /\ writer[v].declared \subseteq e.declared
                                       /\ e \notin Recorded(h)
    OBVIOUS
  <2>1. PICK e \in given : /\ e.handle = writer[v].handle /\ e.line = writer[v].line
                           /\ writer[v].declared \subseteq e.declared
    BY DEF IInv, RegistryKnowsEveryLine
  <2>2. LockAlive(e.line)
    BY <2>1, LiveKeepsLine
  <2> QED
    BY <1>2, <2>1, <2>2
<1>4. \A g \in Handles : StoreAlive(g) =>
        /\ [handle |-> g, line |-> storeLine[g], declared |-> Declared(g)] \in given
        /\ [handle |-> g, line |-> storeLine[g], declared |-> Declared(g)] \notin Recorded(h)
  BY <1>2, LiveKeepsLine DEF IInv, RegistryKnowsEveryLine
<1>5. \A v \in Writers : writer'[v].at = "live" =>
        \E e \in given' : /\ e.handle = writer'[v].handle /\ e.line = writer'[v].line
                          /\ writer'[v].declared \subseteq e.declared
  <2>1. writer'[w] = [at |-> "live", handle |-> h, line |-> l, declared |-> Asks[w]]
    BY <1>1 DEF IInv, TypeOK
  <2>2. \A v \in Writers : v # w => writer'[v] = writer[v]
    BY <1>1 DEF IInv, TypeOK
  <2> QED
    <3>1. ASSUME NEW v \in Writers, writer'[v].at = "live", v # w
          PROVE  \E e \in given' : /\ e.handle = writer'[v].handle
                                   /\ e.line = writer'[v].line
                                   /\ writer'[v].declared \subseteq e.declared
      BY <1>1, <1>3, <2>2, <3>1
    <3>2. \E e \in given' : /\ e.handle = writer'[w].handle /\ e.line = writer'[w].line
                            /\ writer'[w].declared \subseteq e.declared
      <4>1. [handle |-> h, line |-> l, declared |-> Asks[w]] \in given'
        BY <1>1
      <4> QED
        BY <2>1, <4>1
    <3> QED
      BY <3>1, <3>2
<1>6. \A e, f \in given' : e.handle = f.handle => e = f
  BY <1>1 DEF Recorded, IInv, RegistryKnowsEveryLine
<1> QED
  BY <1>1, <1>2, <1>4, <1>5, <1>6 DEF RegistryKnowsEveryLine, StoreAlive, Declared, Named

LEMMA SharedWriterKeepsRegistry ==
  ASSUME IInv, NEW w \in Writers, NEW h \in Handles, SharedWriter(w, h)
  PROVE  RegistryKnowsEveryLine'
<1>1. /\ writer' = [writer EXCEPT ![w] = [at |-> "live", handle |-> h, line |-> storeLine[h],
                                          declared |-> Declared(h)]]
      /\ UNCHANGED <<store, storeLine, door, given>>
  BY DEF SharedWriter, Make
<1>2. [handle |-> h, line |-> storeLine[h], declared |-> Declared(h)] \in given
  BY DEF SharedWriter, IInv, RegistryKnowsEveryLine, StoreAlive
<1>3. \A v \in Writers : writer'[v].at = "live" =>
        \E e \in given : /\ e.handle = writer'[v].handle /\ e.line = writer'[v].line
                         /\ writer'[v].declared \subseteq e.declared
  BY <1>1, <1>2 DEF IInv, RegistryKnowsEveryLine, TypeOK
<1> QED
  BY <1>1, <1>3 DEF IInv, RegistryKnowsEveryLine, StoreAlive, Declared, Named

LEMMA TouchKeepsStaged ==
  ASSUME IInv, NEW w \in Writers, NEW g \in Named \cup {Default},
         Touch(w, g) \/ Refuse(w, g)
  PROVE  TypeOK' /\ StagedIsPermitted'
<1>1. /\ UNCHANGED <<store, storeLine, door, given, registry, writer, lock, wrote>>
      /\ \A v \in Writers : v # w => txn'[v] = txn[v]
      /\ Holds(w)
  BY DEF Touch, Refuse, IInv, TypeOK
<1>2. \A v \in Writers : Holds(v)' <=> Holds(v)
  BY <1>1 DEF Holds
<1>3. /\ txn'[w].staged \subseteq writer[w].declared \cup {Default}
      /\ ~txn'[w].refused => txn'[w].asked = txn'[w].staged
  <2>1. CASE Touch(w, g)
    BY <1>1, <2>1 DEF Touch, IInv, StagedIsPermitted, Permits, TypeOK
  <2>2. CASE Refuse(w, g)
    BY <1>1, <2>2 DEF Refuse, IInv, StagedIsPermitted, TypeOK
  <2> QED
    BY <2>1, <2>2
<1>4. txn' \in [Writers -> [asked : SUBSET (Named \cup {Default}),
                           staged : SUBSET (Named \cup {Default}), refused : BOOLEAN]]
  <2>1. CASE Touch(w, g)
    BY <2>1 DEF Touch, IInv, TypeOK
  <2>2. CASE Refuse(w, g)
    BY <2>2 DEF Refuse, IInv, TypeOK
  <2> QED
    BY <2>1, <2>2
<1> QED
  BY <1>1, <1>2, <1>3, <1>4 DEF IInv, StagedIsPermitted, TypeOK

LEMMA EndWriteKeepsStaged ==
  ASSUME IInv, NEW w \in Writers, Holds(w), EndWrite(w)
  PROVE  StagedIsPermitted'
<1>1. /\ UNCHANGED writer
      /\ \A v \in Writers : v # w => txn'[v] = txn[v]
      /\ txn'[w] = NoTxn
      /\ writer[w].line \in Lines
      /\ lock' = [lock EXCEPT ![writer[w].line] = None]
      /\ lock \in [Lines -> Writers \cup Handles \cup {None}]
  BY DEF EndWrite, IInv, TypeOK, WritersArePlaced, Holds
<1>2. \A v \in Writers : v # w => (Holds(v)' <=> Holds(v))
  BY <1>1, SharedWritersAssumption
  DEF Holds, IInv, WritersArePlaced, SharedWritersAssumption
<1>3. ~Holds(w)'
  BY <1>1, SharedWritersAssumption DEF Holds, SharedWritersAssumption
<1>4. NoTxn.asked = NoTxn.staged
  BY DEF NoTxn
<1>5. ASSUME NEW v \in Writers
      PROVE  /\ Holds(v)' => txn'[v].staged \subseteq writer'[v].declared \cup {Default}
             /\ ~Holds(v)' => txn'[v] = NoTxn
             /\ ~txn'[v].refused => txn'[v].asked = txn'[v].staged
  <2>1. CASE v = w
    BY <1>1, <1>3, <1>4, <2>1
  <2>2. CASE v # w
    BY <1>1, <1>2, <2>2 DEF IInv, StagedIsPermitted
  <2> QED
    BY <2>1, <2>2
<1> QED
  BY <1>5 DEF StagedIsPermitted, NoTxn

(* What a writer of a store that promised something commits, it promised. *)
LEMMA CommitKeepsPromise ==
  ASSUME IInv, NEW w \in Writers, Commit(w)
  PROVE  PromiseKept'
<1> DEFINE h == writer[w].handle
<1>1. /\ Holds(w) /\ h \in Handles
      /\ wrote' = [wrote EXCEPT ![h] = @ \cup txn[w].staged]
      /\ UNCHANGED <<store, door>>
  BY DEF Commit, EndWrite, Holds, IInv, WritersArePlaced
<1>2. ASSUME Coverage[h] = "SharedDeclaring", StoreAlive(h)
      PROVE  txn[w].staged \subseteq Promise[h] \cup {Default}
  <2>1. PICK e \in given : e.handle = h /\ writer[w].declared \subseteq e.declared
    BY <1>1 DEF IInv, RegistryKnowsEveryLine, Holds
  <2>2. e = [handle |-> h, line |-> storeLine[h], declared |-> Declared(h)]
    BY <1>1, <1>2, <2>1 DEF IInv, RegistryKnowsEveryLine
  <2>3. e.declared = Promise[h]
    BY <1>2, <2>2 DEF Declared
  <2> QED
    BY <1>1, <2>1, <2>3 DEF IInv, StagedIsPermitted
<1> QED
  BY <1>1, <1>2 DEF IInv, PromiseKept, StoreAlive, TypeOK

LEMMA NextIInv == ASSUME IInv, [Next]_vars PROVE IInv'
<1> USE SharedWritersAssumption
    DEF SharedWritersAssumption, IInv, TypeOK, RegistryKnowsEveryLine, OneJoins,
    WritersArePlaced, StoresArePlaced, LinesAreDistinct, StagedIsPermitted, PromiseKept,
    Entries, NoWriter, NoTxn, Holds, StoreAlive, Named, Declared
<1>1. CASE UNCHANGED vars
  BY <1>1 DEF vars
<1>2. ASSUME NEW h \in Handles, OpenShared(h) PROVE IInv'
  <2>1. TypeOK'
    BY <1>2 DEF OpenShared, Fresh, Alive, ThreadAlive, LockAlive
  <2>2. RegistryKnowsEveryLine'
    BY <1>2, OpenSharedKeepsRegistry
  <2>3. OneJoins'
    BY <1>2 DEF OpenShared, Fresh, Alive, ThreadAlive, LockAlive
  <2>4. WritersArePlaced'
    BY <1>2 DEF OpenShared, Fresh, Alive, ThreadAlive, LockAlive
  <2>5. StoresArePlaced'
    BY <1>2 DEF OpenShared, Fresh, Alive, ThreadAlive, LockAlive
  <2>6. LinesAreDistinct'
    BY <1>2, OpenSharedKeepsRegistry
  <2>7. StagedIsPermitted'
    BY <1>2 DEF OpenShared, Fresh, Alive, ThreadAlive, LockAlive
  <2>8. PromiseKept'
    BY <1>2 DEF OpenShared, Fresh, Alive, ThreadAlive, LockAlive
  <2> QED
    BY <2>1, <2>2, <2>3, <2>4, <2>5, <2>6, <2>7, <2>8
<1>3. ASSUME NEW h \in Handles, DropStore(h) PROVE IInv'
  BY <1>3 DEF DropStore
<1>4. ASSUME NEW h \in Handles, DoorAsks(h) PROVE IInv'
  BY <1>4 DEF DoorAsks
<1>5. ASSUME NEW h \in Handles, DoorWrites(h) PROVE IInv'
  BY <1>5 DEF DoorWrites
<1>6. ASSUME NEW h \in Handles, DoorEnds(h) PROVE IInv'
  BY <1>6 DEF DoorEnds
<1>7. ASSUME NEW w \in Writers, NEW h \in Handles, SharedWriter(w, h) PROVE IInv'
  <2>1. TypeOK'
    BY <1>7 DEF SharedWriter, Make
  <2>2. RegistryKnowsEveryLine'
    BY <1>7, SharedWriterKeepsRegistry
  <2>3. OneJoins'
    BY <1>7 DEF SharedWriter, Make
  <2>4. WritersArePlaced'
    BY <1>7 DEF SharedWriter, Make
  <2>5. StoresArePlaced'
    BY <1>7 DEF SharedWriter, Make
  <2>6. LinesAreDistinct'
    BY <1>7 DEF SharedWriter, Make
  <2>7. StagedIsPermitted'
    BY <1>7 DEF SharedWriter, Make
  <2>8. PromiseKept'
    BY <1>7 DEF SharedWriter, Make
  <2> QED
    BY <2>1, <2>2, <2>3, <2>4, <2>5, <2>6, <2>7, <2>8
<1>8. ASSUME NEW w \in Writers, NEW h \in Handles, OverPrunes(w, h) PROVE IInv'
  <2>1. TypeOK'
    BY <1>8, OverPrunesKeepsTypes
  <2>2. RegistryKnowsEveryLine'
    BY <1>8, OverPrunesKeepsRegistry
  <2>3. OneJoins'
    BY <1>8 DEF OverPrunes, Alive, ThreadAlive, LockAlive
  <2>4. WritersArePlaced'
    BY <1>8 DEF OverPrunes, Alive, ThreadAlive, LockAlive
  <2>5. StoresArePlaced'
    BY <1>8 DEF OverPrunes, Alive, ThreadAlive, LockAlive
  <2>6. LinesAreDistinct'
    BY <1>8 DEF OverPrunes, Alive, ThreadAlive, LockAlive
  <2>7. StagedIsPermitted'
    BY <1>8 DEF OverPrunes, Alive, ThreadAlive, LockAlive
  <2>8. PromiseKept'
    BY <1>8 DEF OverPrunes, Alive, ThreadAlive, LockAlive
  <2> QED
    BY <2>1, <2>2, <2>3, <2>4, <2>5, <2>6, <2>7, <2>8
<1>9. ASSUME NEW w \in Writers, OverJoins(w) PROVE IInv'
  BY <1>9 DEF OverJoins, Make, Recorded, LockAlive
<1>10. ASSUME NEW w \in Writers, OverStarts(w) PROVE IInv'
  <2>1. TypeOK'
    BY <1>10 DEF OverStarts, Make, Recorded, LockAlive, Fresh, ThreadAlive
  <2>2. RegistryKnowsEveryLine'
    BY <1>10, OverStartsKeepsRegistry
  <2>3. OneJoins'
    BY <1>10 DEF OverStarts, Make, Recorded, LockAlive, Fresh, ThreadAlive
  <2>4. WritersArePlaced'
    BY <1>10 DEF OverStarts, Make, Recorded, LockAlive, Fresh, ThreadAlive
  <2>5. StoresArePlaced'
    BY <1>10 DEF OverStarts, Make, Recorded, LockAlive, Fresh, ThreadAlive
  <2>6. LinesAreDistinct'
    BY <1>10 DEF OverStarts, Make, Recorded, LockAlive, Fresh, ThreadAlive
  <2>7. StagedIsPermitted'
    BY <1>10 DEF OverStarts, Make, Recorded, LockAlive, Fresh, ThreadAlive
  <2>8. PromiseKept'
    BY <1>10 DEF OverStarts, Make, Recorded, LockAlive, Fresh, ThreadAlive
  <2> QED
    BY <2>1, <2>2, <2>3, <2>4, <2>5, <2>6, <2>7, <2>8
<1>11. ASSUME NEW w \in Writers, DropWriter(w) PROVE IInv'
  BY <1>11 DEF DropWriter
<1>12. ASSUME NEW w \in Writers, DropThread(w) PROVE IInv'
  BY <1>12 DEF DropThread
<1>13. ASSUME NEW w \in Writers, Begin(w) PROVE IInv'
  BY <1>13 DEF Begin
<1>14. ASSUME NEW w \in Writers, NEW g \in Named \cup {Default}, Touch(w, g) \/ Refuse(w, g)
       PROVE  IInv'
  <2>1. TypeOK' /\ StagedIsPermitted'
    BY <1>14, TouchKeepsStaged
  <2>2. UNCHANGED <<store, storeLine, door, given, registry, writer, lock, wrote>>
    BY <1>14 DEF Touch, Refuse
  <2> QED
    BY <2>1, <2>2
<1>15. ASSUME NEW w \in Writers, Commit(w) PROVE IInv'
  <2>1. TypeOK'
    BY <1>15 DEF Commit, EndWrite
  <2>2. RegistryKnowsEveryLine'
    BY <1>15 DEF Commit, EndWrite
  <2>3. OneJoins'
    BY <1>15 DEF Commit, EndWrite
  <2>4. WritersArePlaced'
    BY <1>15 DEF Commit, EndWrite
  <2>5. StoresArePlaced'
    BY <1>15 DEF Commit, EndWrite
  <2>6. LinesAreDistinct'
    BY <1>15 DEF Commit, EndWrite
  <2>7. StagedIsPermitted'
    BY <1>15, EndWriteKeepsStaged DEF Commit
  <2>8. PromiseKept'
    BY <1>15, CommitKeepsPromise
  <2> QED
    BY <2>1, <2>2, <2>3, <2>4, <2>5, <2>6, <2>7, <2>8
<1>16. ASSUME NEW w \in Writers, Abort(w) PROVE IInv'
  <2>1. TypeOK'
    BY <1>16 DEF Abort, EndWrite
  <2>2. RegistryKnowsEveryLine'
    BY <1>16 DEF Abort, EndWrite
  <2>3. OneJoins'
    BY <1>16 DEF Abort, EndWrite
  <2>4. WritersArePlaced'
    BY <1>16 DEF Abort, EndWrite
  <2>5. StoresArePlaced'
    BY <1>16 DEF Abort, EndWrite
  <2>6. LinesAreDistinct'
    BY <1>16 DEF Abort, EndWrite
  <2>7. StagedIsPermitted'
    BY <1>16, EndWriteKeepsStaged DEF Abort
  <2>8. PromiseKept'
    BY <1>16 DEF Abort, EndWrite
  <2> QED
    BY <2>1, <2>2, <2>3, <2>4, <2>5, <2>6, <2>7, <2>8
<1> QED
  BY <1>1, <1>2, <1>3, <1>4, <1>5, <1>6, <1>7, <1>8, <1>9, <1>10, <1>11, <1>12, <1>13,
     <1>14, <1>15, <1>16
  DEF Next, StoreStep, WriterStep

(* Type correctness, and that whoever holds a lock is writing on it. *)
THEOREM TypesAreCorrect == Spec => []TypeOK
<1>1. IInv => TypeOK
  BY DEF IInv
<1> QED
  BY <1>1, InitIInv, NextIInv, PTL DEF Spec

(* The registry, by which every `over` finds the line to join, knows the   *)
(* line and the declaration of whoever lives on a handle.                  *)
THEOREM RegistryIsComplete == Spec => []RegistryKnowsEveryLine
<1>1. IInv => RegistryKnowsEveryLine
  BY DEF IInv
<1> QED
  BY <1>1, InitIInv, NextIInv, PTL DEF Spec

LEMMA SerialWriters ==
  ASSUME IInv, NEW v \in Writers, NEW w \in Writers,
         Holds(v), Holds(w), writer[v].handle = writer[w].handle
  PROVE  v = w
<1>1. PICK e \in given : e.handle = writer[v].handle /\ e.line = writer[v].line
  BY DEF IInv, RegistryKnowsEveryLine, Holds
<1>2. PICK f \in given : f.handle = writer[w].handle /\ f.line = writer[w].line
  BY DEF IInv, RegistryKnowsEveryLine, Holds
<1>3. e = f
  BY <1>1, <1>2 DEF IInv, RegistryKnowsEveryLine
<1> QED
  BY <1>1, <1>2, <1>3 DEF Holds

(* Transactions through one handle never overlap, nor with a door's. *)
THEOREM WritersAreSerial == Spec => []TransactionsAreSerial
<1>1. ASSUME IInv, NEW w \in Writers, NEW h \in Handles, Holds(w), writer[w].handle = h
      PROVE  door[h] # "writing"
  <2> SUFFICES ASSUME door[h] = "writing" PROVE FALSE
    OBVIOUS
  <2>1. PICK e \in given : e.handle = h /\ e.line = writer[w].line
    BY <1>1 DEF IInv, RegistryKnowsEveryLine, Holds
  <2>2. e = [handle |-> h, line |-> storeLine[h], declared |-> Declared(h)]
    BY <1>1, <2>1 DEF IInv, RegistryKnowsEveryLine, StoreAlive
  <2>3. lock[writer[w].line] = h
    BY <1>1, <2>1, <2>2 DEF IInv, StoresArePlaced
  <2> QED
    BY <1>1, <2>3, SharedWritersAssumption DEF Holds, SharedWritersAssumption
<1>2. IInv => TransactionsAreSerial
  BY <1>1, SerialWriters DEF TransactionsAreSerial
<1> QED
  BY <1>2, InitIInv, NextIInv, PTL DEF Spec

(* A declaration is kept by every write through this type. *)
THEOREM DeclarationsAreKept == Spec => []PromiseKept
<1>1. IInv => PromiseKept
  BY DEF IInv
<1> QED
  BY <1>1, InitIInv, NextIInv, PTL DEF Spec

(* What is committed is all that the closure asked for. *)
THEOREM RefusalsAreFinal == Spec => AllOrNothing
<1> DEFINE A == \A w \in Writers, h \in Handles :
                  Holds(w) /\ wrote'[h] # wrote[h] /\ writer[w].handle = h
                    => wrote'[h] = wrote[h] \cup txn[w].asked
<1>1. ASSUME IInv, [Next]_vars PROVE [A]_vars
  <2> SUFFICES ASSUME NEW v \in Writers, Commit(v) PROVE A
    <3>1. ASSUME UNCHANGED wrote PROVE A
      BY <3>1
    <3> QED
      BY <1>1, <3>1
      DEF Next, StoreStep, WriterStep, vars, OpenShared, DropStore, DoorAsks, DoorWrites,
          DoorEnds, SharedWriter, OverPrunes, OverJoins, OverStarts, DropWriter, DropThread,
          Begin, Touch, Refuse, Abort
  <2> SUFFICES ASSUME NEW w \in Writers, NEW h \in Handles, Holds(w),
                      wrote'[h] # wrote[h], writer[w].handle = h
               PROVE  wrote'[h] = wrote[h] \cup txn[w].asked
    OBVIOUS
  <2>1. /\ Holds(v) /\ ~txn[v].refused
        /\ wrote' = [wrote EXCEPT ![writer[v].handle] = @ \cup txn[v].staged]
    BY DEF Commit
  <2>2. writer[v].handle = h
    BY <2>1 DEF IInv, TypeOK
  <2>3. v = w
    BY <1>1, <2>1, <2>2, SerialWriters
  <2>4. txn[w].asked = txn[w].staged
    BY <1>1, <2>1, <2>3 DEF IInv, StagedIsPermitted
  <2> QED
    BY <1>1, <2>1, <2>2, <2>3, <2>4 DEF IInv, TypeOK
<1> QED
  BY <1>1, InitIInv, NextIInv, PTL DEF Spec, AllOrNothing
=============================================================================
