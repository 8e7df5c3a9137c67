------------------------------- MODULE SlotPool -------------------------------
(***************************************************************************)
(* What Evaluations promises, with no counters, threads, locks or clocks:  *)
(* a set of tasks that hold a slot and a set of tasks that are overdue,    *)
(* with three nested bounds on who may take a slot.  A task that is told   *)
(* to stop keeps its slot until it really has.                             *)
(***************************************************************************)
EXTENDS Integers, FiniteSets

CONSTANTS
  Tasks,      \* whatever may be run
  Slotless,   \* those of them that take no slot
  OwnerOf,    \* who each task is counted against
  Host,       \* the owner that is bounded by Cap alone
  Cap, Pool, Share

VARIABLES
  held,       \* tasks holding a slot
  overdue     \* tasks told to stop and not yet stopped

poolVars == <<held, overdue>>

OwnedBy(S, k) == {t \in S : OwnerOf[t] = k}
NotHosts(S) == {t \in S : OwnerOf[t] # Host}

PoolInit == held = {} /\ overdue = {}

(* One more of `owner` fits beside the tasks of S. *)
Fits(S, owner) ==
  /\ Cardinality(S \ Slotless) < Cap
  /\ owner # Host => /\ Cardinality(NotHosts(S)) < Pool
                     /\ Cardinality(OwnedBy(S, owner)) < Share

Take(t) ==
  /\ t \notin held
  /\ t \notin Slotless
  /\ Fits(overdue, OwnerOf[t])
  /\ Fits(held, OwnerOf[t])
  /\ held' = held \cup {t}
  /\ UNCHANGED overdue

Overrun(t) ==
  /\ t \in held \cup Slotless
  /\ t \notin overdue
  /\ overdue' = overdue \cup {t}
  /\ UNCHANGED held

Stop(t) ==
  /\ t \in held \cup overdue
  /\ held' = held \ {t}
  /\ overdue' = overdue \ {t}

PoolNext == \E t \in Tasks : Take(t) \/ Overrun(t) \/ Stop(t)

PoolSpec == PoolInit /\ [][PoolNext]_poolVars
=============================================================================
