---------------------------- MODULE SharedWriters ----------------------------
(***************************************************************************)
(* The writers a host makes over one raw handle (store.rs: SharedWriter,   *)
(* DeclaredTransaction, `given_out`).                                      *)
(*                                                                         *)
(* Whoever writes a handle must queue on the same writer thread and take   *)
(* the same lock, and write no graph outside what the store promised its   *)
(* readers.  But an Arc<Store> says nothing of where it came from, so a    *)
(* registry of weak references remembers it: a store records the handle it *)
(* gives out, the first `over` records a handle nobody did, and every      *)
(* later `over` joins and is narrowed.                                     *)
(*                                                                         *)
(* A LINE is a write lock and the writer thread that goes with it, two     *)
(* Arcs that share owners (their jobs are in WriterThread.tla).  The host  *)
(* keeps the handle itself for good; a store's clones are one owner.       *)
(***************************************************************************)
EXTENDS Integers, FiniteSets

CONSTANTS
  Handles,   \* raw handles
  Writers,   \* SharedWriter values, each made, dropped and made again
  Lines,     \* locks with their threads
  Graphs,    \* named graphs
  Blank,     \* a blank-node graph, which no declaration can name
  Default,   \* the default graph, which every declaration permits
  Coverage,  \* how each handle came to be: "HostOpened", "Shared", "SharedDeclaring"
  Promise,   \* what the store of a "SharedDeclaring" handle declared
  Asks,      \* the declaration each writer passes to `over`
  None

Named == Graphs \cup {Blank}

ASSUME SharedWritersAssumption ==
  /\ None \notin Writers \cup Lines \cup Handles
  /\ Writers \cap Handles = {}
  /\ Blank \notin Graphs /\ Default \notin Named
  /\ Coverage \in [Handles -> {"HostOpened", "Shared", "SharedDeclaring"}]
  /\ Promise \in [Handles -> SUBSET Graphs]
  /\ Asks \in [Writers -> SUBSET Graphs]

(* What a store's own writers may write: no declaration refuses nothing. *)
Declared(h) == IF Coverage[h] = "SharedDeclaring" THEN Promise[h] ELSE Named

VARIABLES
  store,     \* the DurableStore of each handle: held by the host, or not
  storeLine, \* its lock and thread
  door,      \* what a write door of the store does
  given,     \* GIVEN_OUT: the recorded handles
  registry,  \* the writer whose `over` holds GIVEN_OUT's mutex
  writer,    \* each SharedWriter
  lock,      \* who holds each line's lock: a writer, a handle's door, or None
  txn,       \* the transaction of each writer
  wrote      \* the graphs committed through SharedWriters, of each handle

vars == <<store, storeLine, door, given, registry, writer, lock, txn, wrote>>

NoWriter == [at |-> "none", handle |-> None, line |-> None, declared |-> {}]
NoTxn == [asked |-> {}, staged |-> {}, refused |-> FALSE]

Entries == [handle : Handles, line : Lines, declared : SUBSET Named]

(* With the types: whoever holds a lock is writing on that line. *)
TypeOK ==
  /\ store \in [Handles -> {"unopened", "held", "dropped"}]
  /\ storeLine \in [Handles -> Lines \cup {None}]
  /\ door \in [Handles -> {"idle", "queued", "writing"}]
  /\ given \in SUBSET Entries
  /\ registry \in Writers \cup {None}
  /\ writer \in [Writers -> [at : {"none", "joining", "live", "dropping"},
                             handle : Handles \cup {None}, line : Lines \cup {None},
                             declared : SUBSET Named]]
  /\ lock \in [Lines -> Writers \cup Handles \cup {None}]
  /\ \A l \in Lines :
       /\ lock[l] \in Writers => writer[lock[l]].at = "live" /\ writer[lock[l]].line = l
       /\ lock[l] \in Handles => door[lock[l]] = "writing" /\ storeLine[lock[l]] = l
  /\ txn \in [Writers -> [asked : SUBSET (Named \cup {Default}),
                          staged : SUBSET (Named \cup {Default}), refused : BOOLEAN]]
  /\ wrote \in [Handles -> SUBSET (Named \cup {Default})]

Init ==
  /\ store = [h \in Handles |-> "unopened"]
  /\ storeLine = [h \in Handles |-> None]
  /\ door = [h \in Handles |-> "idle"]
  /\ given = {}
  /\ registry = None
  /\ writer = [w \in Writers |-> NoWriter]
  /\ lock = [l \in Lines |-> None]
  /\ txn = [w \in Writers |-> NoTxn]
  /\ wrote = [h \in Handles |-> {}]

-----------------------------------------------------------------------------
(* Who keeps a line.                                                       *)

(* A job of a write door holds a clone of its store, also after the host   *)
(* dropped its own, which it may once the job's caller timed out.          *)
StoreAlive(h) == store[h] = "held" \/ door[h] # "idle"

(* The Arc of the lock, and the Arc of the thread: a SharedWriter that is  *)
(* being dropped gives them up one after the other.                        *)
LockAlive(l) ==
  \/ \E h \in Handles : StoreAlive(h) /\ storeLine[h] = l
  \/ \E w \in Writers : writer[w].at = "live" /\ writer[w].line = l

ThreadAlive(l) ==
  \/ LockAlive(l)
  \/ \E w \in Writers : writer[w].at = "dropping" /\ writer[w].line = l

(* Mistaken: a store is gone once the host has dropped it. *)
AliveWithoutJobs(entry) ==
  \/ \E h \in Handles : store[h] = "held" /\ storeLine[h] = entry.line
  \/ \E w \in Writers : writer[w].at = "live" /\ writer[w].line = entry.line

(* given_out's `alive`, the handle being there for good. *)
Alive(entry) == ThreadAlive(entry.line)

(* An allocation no owner and no weak reference keeps. *)
Fresh(l) == ~ThreadAlive(l) /\ \A e \in given : e.line # l

-----------------------------------------------------------------------------
(* Stores.                                                                 *)

(* Mistaken: the constructor does not record the handle it gives out. *)
OpenSharedUnrecorded(h) ==
  /\ Coverage[h] # "HostOpened"
  /\ store[h] = "unopened"
  /\ registry = None
  /\ \E l \in Lines : Fresh(l) /\ storeLine' = [storeLine EXCEPT ![h] = l]
  /\ store' = [store EXCEPT ![h] = "held"]
  /\ UNCHANGED <<door, given, registry, writer, lock, txn, wrote>>

(* A shared constructor, with give_out_the_handle. *)
OpenShared(h) ==
  /\ Coverage[h] # "HostOpened"
  /\ store[h] = "unopened"
  /\ registry = None
  /\ \E l \in Lines :
       /\ Fresh(l)
       /\ storeLine' = [storeLine EXCEPT ![h] = l]
       /\ given' = {e \in given : Alive(e)}
                     \cup {[handle |-> h, line |-> l, declared |-> Declared(h)]}
  /\ store' = [store EXCEPT ![h] = "held"]
  /\ UNCHANGED <<door, registry, writer, lock, txn, wrote>>

(* The host drops its last clone. *)
DropStore(h) ==
  /\ store[h] = "held"
  /\ store' = [store EXCEPT ![h] = "dropped"]
  /\ UNCHANGED <<storeLine, door, given, registry, writer, lock, txn, wrote>>

(* A write door queues its job on the store's thread ... *)
DoorAsks(h) ==
  /\ store[h] = "held"
  /\ door[h] = "idle"
  /\ door' = [door EXCEPT ![h] = "queued"]
  /\ UNCHANGED <<store, storeLine, given, registry, writer, lock, txn, wrote>>

(* ... which takes the lock there ... *)
DoorWrites(h) ==
  /\ door[h] = "queued"
  /\ lock[storeLine[h]] = None
  /\ lock' = [lock EXCEPT ![storeLine[h]] = h]
  /\ door' = [door EXCEPT ![h] = "writing"]
  /\ UNCHANGED <<store, storeLine, given, registry, writer, txn, wrote>>

(* Mistaken: a door that fails keeps the lock. *)
DoorEndsLocked(h) ==
  /\ door[h] = "writing"
  /\ door' = [door EXCEPT ![h] = "idle"]
  /\ UNCHANGED <<store, storeLine, given, registry, writer, lock, txn, wrote>>

(* ... and commits or not, releases it and drops its clone of the store. *)
DoorEnds(h) ==
  /\ door[h] = "writing"
  /\ lock' = [lock EXCEPT ![storeLine[h]] = None]
  /\ door' = [door EXCEPT ![h] = "idle"]
  /\ UNCHANGED <<store, storeLine, given, registry, writer, txn, wrote>>

-----------------------------------------------------------------------------
(* Making and dropping writers.                                            *)

Make(w, h, l, declared) ==
  writer' = [writer EXCEPT ![w] = [at |-> "live", handle |-> h, line |-> l,
                                   declared |-> declared]]

(* DurableStore::shared_writer *)
SharedWriter(w, h) ==
  /\ store[h] = "held"
  /\ writer[w].at = "none"
  /\ Make(w, h, storeLine[h], Declared(h))
  /\ UNCHANGED <<store, storeLine, door, given, registry, lock, txn, wrote>>

(* SharedWriter::over, join_or_start: lock the registry and prune it. *)
OverPrunes(w, h) ==
  /\ writer[w].at = "none"
  /\ Coverage[h] = "HostOpened" \/ store[h] # "unopened"
  /\ registry = None
  /\ registry' = w
  /\ given' = {e \in given : Alive(e)}
  /\ writer' = [writer EXCEPT ![w] = [at |-> "joining", handle |-> h, line |-> None,
                                   declared |-> {}]]
  /\ UNCHANGED <<store, storeLine, door, lock, txn, wrote>>

Recorded(h) == {e \in given : e.handle = h}

(* Mistaken: a writer that joins keeps the declaration it came with. *)
OverJoinsUnnarrowed(w) ==
  /\ registry = w
  /\ \E e \in Recorded(writer[w].handle) :
       /\ LockAlive(e.line)
       /\ Make(w, writer[w].handle, e.line, Asks[w])
  /\ registry' = None
  /\ UNCHANGED <<store, storeLine, door, given, lock, txn, wrote>>

(* Both weak references upgrade: join, within what the entry declares. *)
OverJoins(w) ==
  /\ registry = w
  /\ \E e \in Recorded(writer[w].handle) :
       /\ LockAlive(e.line)
       /\ Make(w, writer[w].handle, e.line, Asks[w] \cap e.declared)
  /\ registry' = None
  /\ UNCHANGED <<store, storeLine, door, given, lock, txn, wrote>>

(* Nothing recorded, or nothing left to join: start a line and record it.  *)
OverStarts(w) ==
  /\ registry = w
  /\ \A e \in Recorded(writer[w].handle) : ~LockAlive(e.line)
  /\ \E l \in Lines :
       /\ Fresh(l)
       /\ Make(w, writer[w].handle, l, Asks[w])
       /\ given' = (given \ Recorded(writer[w].handle))
                     \cup {[handle |-> writer[w].handle, line |-> l, declared |-> Asks[w]]}
  /\ registry' = None
  /\ UNCHANGED <<store, storeLine, door, lock, txn, wrote>>

(* The fields are dropped in order: the lock, then the thread. *)
DropWriter(w) ==
  /\ writer[w].at = "live"
  /\ \A l \in Lines : lock[l] # w
  /\ writer' = [writer EXCEPT ![w].at = "dropping"]
  /\ UNCHANGED <<store, storeLine, door, given, registry, lock, txn, wrote>>

DropThread(w) ==
  /\ writer[w].at = "dropping"
  /\ writer' = [writer EXCEPT ![w] = NoWriter]
  /\ UNCHANGED <<store, storeLine, door, given, registry, lock, txn, wrote>>

-----------------------------------------------------------------------------
(* Writing through one: write_declared, and `write` on a writer that       *)
(* declares nothing (on any other it is refused before it starts).         *)

Begin(w) ==
  /\ writer[w].at = "live"
  /\ lock[writer[w].line] = None
  /\ lock' = [lock EXCEPT ![writer[w].line] = w]
  /\ UNCHANGED <<store, storeLine, door, given, registry, writer, txn, wrote>>

Holds(w) == writer[w].at = "live" /\ lock[writer[w].line] = w

(* DeclaredTransaction::permit *)
Permits(w, g) == g = Default \/ g \in writer[w].declared

(* insert or remove, of a quad in a graph that is permitted ... *)
Touch(w, g) ==
  /\ Holds(w)
  /\ Permits(w, g)
  /\ txn' = [txn EXCEPT ![w] = [asked |-> @.asked \cup {g}, staged |-> @.staged \cup {g},
                                refused |-> @.refused]]
  /\ UNCHANGED <<store, storeLine, door, given, registry, writer, lock, wrote>>

(* ... or not; the closure may well go on after that. *)
Refuse(w, g) ==
  /\ Holds(w)
  /\ ~Permits(w, g)
  /\ txn' = [txn EXCEPT ![w] = [asked |-> @.asked \cup {g}, staged |-> @.staged,
                                refused |-> TRUE]]
  /\ UNCHANGED <<store, storeLine, door, given, registry, writer, lock, wrote>>

EndWrite(w) ==
  /\ lock' = [lock EXCEPT ![writer[w].line] = None]
  /\ txn' = [txn EXCEPT ![w] = NoTxn]
  /\ UNCHANGED <<store, storeLine, door, given, registry, writer>>

(* Mistaken: what was refused is left out, and the rest committed. *)
CommitTheRest(w) ==
  /\ Holds(w)
  /\ wrote' = [wrote EXCEPT ![writer[w].handle] = @ \cup txn[w].staged]
  /\ EndWrite(w)

(* The closure returned Ok and nothing was refused. *)
Commit(w) ==
  /\ Holds(w)
  /\ ~txn[w].refused
  /\ wrote' = [wrote EXCEPT ![writer[w].handle] = @ \cup txn[w].staged]
  /\ EndWrite(w)

(* It returned an error, panicked, or had been refused something. *)
Abort(w) ==
  /\ Holds(w)
  /\ EndWrite(w)
  /\ UNCHANGED wrote

StoreStep(h) ==
  OpenShared(h) \/ DropStore(h) \/ DoorAsks(h) \/ DoorWrites(h) \/ DoorEnds(h)

WriterStep(w) ==
  \/ \E h \in Handles : SharedWriter(w, h) \/ OverPrunes(w, h)
  \/ OverJoins(w) \/ OverStarts(w) \/ DropWriter(w) \/ DropThread(w)
  \/ Begin(w) \/ Commit(w) \/ Abort(w)
  \/ \E g \in Named \cup {Default} : Touch(w, g) \/ Refuse(w, g)

Next == (\E h \in Handles : StoreStep(h)) \/ (\E w \in Writers : WriterStep(w))

Spec == Init /\ [][Next]_vars

-----------------------------------------------------------------------------
(* Transactions on one dataset never overlap, whoever made the writers and *)
(* in whatever order they, the store and its last job come and go ("one    *)
(* per handle however many `over` writers it has").                        *)
TransactionsAreSerial ==
  \A h \in Handles :
    /\ \A v, w \in Writers :
         v # w /\ writer[v].handle = h /\ writer[w].handle = h => ~(Holds(v) /\ Holds(w))
    /\ \A w \in Writers : Holds(w) /\ writer[w].handle = h => door[h] # "writing"

(* Two writers that live on one handle, and its store, share one line, and *)
(* the registry still knows it and what it may write: so whoever joins     *)
(* next is ordered with them, and held to the same declaration.            *)
RegistryKnowsEveryLine ==
  /\ \A w \in Writers : writer[w].at = "live" =>
       \E e \in given : /\ e.handle = writer[w].handle /\ e.line = writer[w].line
                        /\ writer[w].declared \subseteq e.declared
  /\ \A h \in Handles : StoreAlive(h) =>
       [handle |-> h, line |-> storeLine[h], declared |-> Declared(h)] \in given
  /\ \A e, f \in given : e.handle = f.handle => e = f

(* While a store that declared what its sharers write is there to read,    *)
(* nothing else has been written through this type ("honest as its         *)
(* declaration, which writes through this type can no longer break").      *)
PromiseKept ==
  \A h \in Handles :
    Coverage[h] = "SharedDeclaring" /\ StoreAlive(h) => wrote[h] \subseteq Promise[h] \cup {Default}

(* A transaction that was refused a graph is not committed, whatever the   *)
(* closure does next: what is committed is all that it asked for.          *)
AllOrNothing ==
  [][\A w \in Writers, h \in Handles :
       Holds(w) /\ wrote'[h] # wrote[h] /\ writer[w].handle = h
         => wrote'[h] = wrote[h] \cup txn[w].asked]_vars
=============================================================================
