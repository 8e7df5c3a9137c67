-------------------------------- MODULE Spaces --------------------------------
(***************************************************************************)
(* Which reads of one dataset may be cached (store.rs, endpoints.rs).      *)
(*                                                                         *)
(* Every space bound over the dataset is the door of one kernel; a kernel  *)
(* caches reads and cuts its own cache when a write IT served succeeds,    *)
(* and sees nobody else's writes.  So a bind and a cacheable read shake    *)
(* hands through two atomics: the number of live spaces and the flag       *)
(* `cached`.  Every atomic operation is a step of its own here.            *)
(*                                                                         *)
(* The data itself is left out: a cached answer, or a read under way, is   *)
(* current until somebody writes a graph it reads.  Each space stands for  *)
(* its kernel too, has at most one read and one write under way, and once  *)
(* dropped may be bound again by a new kernel.                             *)
(***************************************************************************)
EXTENDS Integers, FiniteSets

CONSTANTS
  SpaceIds,           \* the spaces a host may bind over the dataset
  Graphs,             \* named graphs
  Default,            \* the default graph
  Whole,              \* the universe of a read that is not scoped to graphs
  Mode,               \* Coverage: "Owned", "Shared" or "SharedDeclaring"
  Declared,           \* SharerWrites: the named graphs promised to the sharer
  BindsOverlapDrops,  \* may the host bind one space while it drops another?
  ReadsOverlapDrops   \* may it drop one space while another is evaluating a read?

ASSUME SpacesAssumption ==
  /\ IsFiniteSet(SpaceIds)
  /\ Default \notin Graphs
  /\ \A u \in SUBSET Graphs : Whole # u
  /\ Mode \in {"Owned", "Shared", "SharedDeclaring"}
  /\ Declared \subseteq Graphs
  /\ BindsOverlapDrops \in BOOLEAN
  /\ ReadsOverlapDrops \in BOOLEAN

(* A read sees the whole dataset, or exactly the named graphs of `graph=`. *)
Universes == {Whole} \cup ((SUBSET Graphs) \ {{}})

Sees(universe, graph) == universe = Whole \/ graph \in universe

VARIABLES
  spaces,   \* DurableStore::spaces
  cached,   \* DurableStore::cached
  space,    \* where the bind or the drop of each space stands
  read,     \* the read under way at each space
  entry,    \* each kernel's cache
  writing   \* a write each space has committed and its kernel has not yet cut for

vars == <<spaces, cached, space, read, entry, writing>>

NoRead == [at |-> "idle", of |-> Whole, current |-> TRUE, cut |-> FALSE]

(* The read r, come to `point`. *)
Moved(r, point) == [at |-> point, of |-> r.of, current |-> r.current, cut |-> r.cut]

TypeOK ==
  /\ spaces \in Nat
  /\ cached \in BOOLEAN
  /\ space \in [SpaceIds -> {"unbound", "counted", "backingOut", "bound", "refused",
                             "clearing"}]
  /\ read \in [SpaceIds -> [at : {"idle", "evaluated", "covered", "flagged", "cacheable"},
                            of : Universes, current : BOOLEAN, cut : BOOLEAN]]
  /\ entry \in [SpaceIds -> [Universes -> {"absent", "current", "stale"}]]
  /\ writing \in [SpaceIds -> BOOLEAN]

Init ==
  /\ spaces = 0
  /\ cached = FALSE
  /\ space = [s \in SpaceIds |-> "unbound"]
  /\ read = [s \in SpaceIds |-> NoRead]
  /\ entry = [s \in SpaceIds |-> [u \in Universes |-> "absent"]]
  /\ writing = [s \in SpaceIds |-> FALSE]

-----------------------------------------------------------------------------
(* Binding and dropping a space.                                           *)

Binding(s) == space[s] \in {"counted", "backingOut"}

(* bound_into_a_space: spaces.fetch_add(1), and what it read before. *)
BindCount(s) ==
  /\ space[s] = "unbound"
  /\ BindsOverlapDrops \/ \A o \in SpaceIds : space[o] # "clearing"
  /\ spaces' = spaces + 1
  /\ space' = [space EXCEPT ![s] = IF spaces >= 1 THEN "counted" ELSE "bound"]
  /\ UNCHANGED <<cached, read, entry, writing>>

(* bound_into_a_space: cached.load(), asked only beside another space. *)
BindLook(s) ==
  /\ space[s] = "counted"
  /\ space' = [space EXCEPT ![s] = IF cached THEN "backingOut" ELSE "bound"]
  /\ UNCHANGED <<spaces, cached, read, entry, writing>>

(* Mistaken: a refused bind leaves its count behind. *)
BindLeavesItsCount(s) ==
  /\ space[s] = "backingOut"
  /\ space' = [space EXCEPT ![s] = "refused"]
  /\ UNCHANGED <<spaces, cached, read, entry, writing>>

(* bound_into_a_space: too late, so spaces.fetch_sub(1) and refuse. *)
BindBackOut(s) ==
  /\ space[s] = "backingOut"
  /\ spaces' = spaces - 1
  /\ space' = [space EXCEPT ![s] = "refused"]
  /\ UNCHANGED <<cached, read, entry, writing>>

(* A refused space holds no SpaceBinding: dropping it changes nothing. *)
DropRefused(s) ==
  /\ space[s] = "refused"
  /\ space' = [space EXCEPT ![s] = "unbound"]
  /\ UNCHANGED <<spaces, cached, read, entry, writing>>

(* Mistaken: the last drop forgets the flag. *)
DropAndKeepTheFlag(s) ==
  /\ space[s] = "bound"
  /\ read[s].at = "idle" /\ ~writing[s]
  /\ BindsOverlapDrops \/ \A o \in SpaceIds : ~Binding(o)
  /\ ReadsOverlapDrops \/ \A o \in SpaceIds : read[o].at = "idle"
  /\ spaces' = spaces - 1
  /\ space' = [space EXCEPT ![s] = "unbound"]
  /\ entry' = [entry EXCEPT ![s] = [u \in Universes |-> "absent"]]
  /\ UNCHANGED <<cached, read, writing>>

(* SpaceBinding::drop, spaces.fetch_sub(1): the kernel, its cache and its  *)
(* requests are gone with the space.                                       *)
Drop(s) ==
  /\ space[s] = "bound"
  /\ read[s].at = "idle" /\ ~writing[s]
  /\ BindsOverlapDrops \/ \A o \in SpaceIds : ~Binding(o)
  /\ ReadsOverlapDrops \/ \A o \in SpaceIds : read[o].at = "idle"
  /\ spaces' = spaces - 1
  /\ space' = [space EXCEPT ![s] = IF spaces = 1 THEN "clearing" ELSE "unbound"]
  /\ entry' = [entry EXCEPT ![s] = [u \in Universes |-> "absent"]]
  /\ UNCHANGED <<cached, read, writing>>

(* SpaceBinding::drop, cached.store(false). *)
Clear(s) ==
  /\ space[s] = "clearing"
  /\ cached' = FALSE
  /\ space' = [space EXCEPT ![s] = "unbound"]
  /\ UNCHANGED <<spaces, read, entry, writing>>

-----------------------------------------------------------------------------
(* Reading.                                                                *)

(* An endpoint evaluates a read over one consistent view of the dataset.   *)
(* A refused space serves nothing (`serving`).                             *)
Evaluate(s, u) ==
  /\ space[s] = "bound"
  /\ read[s].at = "idle"
  /\ read' = [read EXCEPT ![s] = [at |-> "evaluated", of |-> u,
                                  current |-> TRUE, cut |-> FALSE]]
  /\ UNCHANGED <<spaces, cached, space, entry, writing>>

(* Mistaken: the sharer is taken to write the default graph only. *)
CoveredWhateverDeclared(u) ==
  /\ spaces <= 1
  /\ Mode = "Owned" \/ (Mode = "SharedDeclaring" /\ u # Whole)

(* read_is_covered of every graph of the universe; with_freshness. *)
Covered(u) ==
  /\ spaces <= 1
  /\ \/ Mode = "Owned"
     \/ Mode = "SharedDeclaring" /\ u # Whole /\ u \cap Declared = {}

AskCovered(s) ==
  /\ read[s].at = "evaluated"
  /\ read' = [read EXCEPT ![s] = IF Covered(read[s].of)
                                 THEN Moved(@, "covered")
                                 ELSE NoRead]
  /\ UNCHANGED <<spaces, cached, space, entry, writing>>

(* commit_to_caching: announce the read ... *)
RecordCached(s) ==
  /\ read[s].at = "covered"
  /\ cached' = TRUE
  /\ read' = [read EXCEPT ![s] = Moved(@, "flagged")]
  /\ UNCHANGED <<spaces, space, entry, writing>>

(* Mistaken: the count is not looked at again after the announcement. *)
LookNoFurther(s) ==
  /\ read[s].at = "flagged"
  /\ read' = [read EXCEPT ![s] = Moved(@, "cacheable")]
  /\ UNCHANGED <<spaces, cached, space, entry, writing>>

(* ... and then look for a second space. *)
LookForSpaces(s) ==
  /\ read[s].at = "flagged"
  /\ read' = [read EXCEPT ![s] = IF spaces <= 1 THEN Moved(@, "cacheable")
                                                ELSE NoRead]
  /\ UNCHANGED <<spaces, cached, space, entry, writing>>

(* The kernel keeps a cacheable answer, unless it cut one of its threads   *)
(* while the answer was on its way.                                        *)
KernelCaches(s) ==
  /\ read[s].at = "cacheable"
  /\ entry' = IF read[s].cut THEN entry
              ELSE [entry EXCEPT ![s][read[s].of] =
                      IF read[s].current THEN "current" ELSE "stale"]
  /\ read' = [read EXCEPT ![s] = NoRead]
  /\ UNCHANGED <<spaces, cached, space, writing>>

-----------------------------------------------------------------------------
(* Writing.                                                                *)

(* A write to graph g makes out of date what was read of g, everywhere. *)
Changes(g) ==
  /\ read' = [s \in SpaceIds |->
                IF read[s].at # "idle" /\ Sees(read[s].of, g)
                THEN [at |-> read[s].at, of |-> read[s].of, current |-> FALSE,
                      cut |-> read[s].cut]
                ELSE read[s]]
  /\ entry' = [s \in SpaceIds |-> [u \in Universes |->
                 IF entry[s][u] = "current" /\ Sees(u, g) THEN "stale"
                                                          ELSE entry[s][u]]]

(* A write door of space s commits. *)
Write(s, g) ==
  /\ space[s] = "bound"
  /\ ~writing[s]
  /\ Changes(g)
  /\ writing' = [writing EXCEPT ![s] = TRUE]
  /\ UNCHANGED <<spaces, cached, space>>

(* The write's success reaches its kernel, which cuts the threads every    *)
(* cacheable read depends on.                                              *)
KernelCuts(s) ==
  /\ writing[s]
  /\ entry' = [entry EXCEPT ![s] = [u \in Universes |-> "absent"]]
  /\ read' = [read EXCEPT ![s] = IF @.at = "idle" THEN @
                                 ELSE [at |-> @.at, of |-> @.of, current |-> @.current,
                                       cut |-> TRUE]]
  /\ writing' = [writing EXCEPT ![s] = FALSE]
  /\ UNCHANGED <<spaces, cached, space>>

(* The holder of the handle a shared constructor gave out writes, keeping  *)
(* its promise if it made one.                                             *)
MaySharerWrite(g) ==
  \/ Mode = "Shared"
  \/ Mode = "SharedDeclaring" /\ (g = Default \/ g \in Declared)

SharerWrites(g) ==
  /\ MaySharerWrite(g)
  /\ Changes(g)
  /\ UNCHANGED <<spaces, cached, space, writing>>

-----------------------------------------------------------------------------
SpaceStep(s) ==
  \/ BindCount(s) \/ BindLook(s) \/ BindBackOut(s) \/ DropRefused(s)
  \/ Drop(s) \/ Clear(s)
  \/ \E u \in Universes : Evaluate(s, u)
  \/ AskCovered(s) \/ RecordCached(s) \/ LookForSpaces(s) \/ KernelCaches(s)
  \/ \E g \in Graphs \cup {Default} : Write(s, g)
  \/ KernelCuts(s)

Next ==
  \/ \E s \in SpaceIds : SpaceStep(s)
  \/ \E g \in Graphs \cup {Default} : SharerWrites(g)

Spec == Init /\ [][Next]_vars

-----------------------------------------------------------------------------
(* The count is of live spaces: those announced, minus those backed out or *)
(* dropped (spaces_bound).                                                 *)
CountIsOfLiveSpaces ==
  spaces = Cardinality({s \in SpaceIds : Binding(s) \/ space[s] = "bound"})

(* "Never a cached read beside a writer it cannot see" (bound_into_a_space): *)
(* while a kernel's cache holds an answer, no other space serves requests.   *)
NeverCachedBesideAnotherSpace ==
  \A s, o \in SpaceIds :
    s # o /\ space[o] = "bound" => \A u \in Universes : entry[s][u] = "absent"

(* No cached answer is out of date, except until the kernel that serves it *)
(* hears of the success of a write of its own (with_freshness).            *)
NoUnboundedStaleness ==
  \A s \in SpaceIds, u \in Universes : entry[s][u] = "stale" => writing[s]

(* "Once every space is dropped the slate is clean again" (spaces_bound):  *)
(* a host that starts over may bind as many spaces as it likes.            *)
SlateIsClean ==
  (\A s \in SpaceIds : space[s] \in {"unbound", "refused"}) => ~cached
=============================================================================
