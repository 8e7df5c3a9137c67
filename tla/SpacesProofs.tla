----------------------------- MODULE SpacesProofs -----------------------------
(***************************************************************************)
(* Why the handshake of binds and cached reads is enough, for any number   *)
(* of spaces and graphs.                                                   *)
(*                                                                         *)
(* Three invariants, each with the help of the one before: the count is of *)
(* live spaces, in every run; no answer is cached beside another space, if *)
(* no bind overlaps a drop; and none is stale for longer than it takes the *)
(* kernel to hear of a write, if no drop overlaps a read either.           *)
(***************************************************************************)
EXTENDS Spaces, TLAPS, FiniteSetTheorems

Live == {s \in SpaceIds : Binding(s) \/ space[s] = "bound"}

(* What a space that is not bound does not have. *)
OnlyBoundSpacesServe ==
  \A s \in SpaceIds :
    space[s] # "bound" =>
      /\ read[s].at = "idle"
      /\ ~writing[s]
      /\ \A u \in Universes : entry[s][u] = "absent"

CountInv == TypeOK /\ CountIsOfLiveSpaces /\ OnlyBoundSpacesServe

-----------------------------------------------------------------------------
(* The count.                                                              *)

LEMMA LiveIsFinite == IsFiniteSet(Live)
BY SpacesAssumption, FS_Subset DEF SpacesAssumption, Live

(* What a space learns from the count. *)
LEMMA CountTells ==
  ASSUME CountInv
  PROVE  /\ spaces = 0 => Live = {}
         /\ \A s \in Live : spaces >= 1
         /\ \A s, o \in Live : spaces <= 1 => s = o
         /\ \A s \in Live : spaces = 1 => Live = {s}
         /\ \A s \in Live : spaces # 1 => \E o \in Live : o # s
<1>1. spaces = Cardinality(Live) /\ spaces \in Nat
  BY DEF CountInv, CountIsOfLiveSpaces, Live, TypeOK
<1>2. spaces = 0 <=> Live = {}
  BY <1>1, LiveIsFinite, FS_EmptySet
<1>3. spaces = 1 <=> \E s : Live = {s}
  BY <1>1, LiveIsFinite, FS_Singleton
<1> QED
  BY <1>1, <1>2, <1>3

LEMMA InitCountInv == ASSUME Init PROVE CountInv
<1>1. TypeOK
  BY DEF Init, TypeOK, NoRead, Universes
<1>2. {s \in SpaceIds : Binding(s) \/ space[s] = "bound"} = {}
  BY DEF Init, Binding
<1>3. CountIsOfLiveSpaces
  BY <1>2, FS_EmptySet DEF Init, CountIsOfLiveSpaces
<1> QED
  BY <1>1, <1>3 DEF CountInv, OnlyBoundSpacesServe, Init, NoRead

(* The steps that add a live space, that take one away, and the others. *)
LEMMA OneMore ==
  ASSUME CountInv, NEW s \in SpaceIds, s \notin Live, Live' = Live \cup {s}, spaces' = spaces + 1
  PROVE  CountIsOfLiveSpaces'
BY LiveIsFinite, FS_AddElement DEF CountInv, CountIsOfLiveSpaces, Live

LEMMA OneLess ==
  ASSUME CountInv, NEW s \in SpaceIds, s \in Live, Live' = Live \ {s}, spaces' = spaces - 1
  PROVE  CountIsOfLiveSpaces' /\ spaces' \in Nat
<1>1. Cardinality(Live \ {s}) = Cardinality(Live) - 1
  BY LiveIsFinite, FS_RemoveElement
<1>2. Cardinality(Live \ {s}) \in Nat
  BY LiveIsFinite, FS_RemoveElement, FS_CardinalityType
<1> QED
  BY <1>1, <1>2 DEF CountInv, CountIsOfLiveSpaces, Live

LEMMA NextCountInv == ASSUME CountInv, [Next]_vars PROVE CountInv'
<1>1. CASE UNCHANGED vars
  BY <1>1 DEF vars, CountInv, TypeOK, CountIsOfLiveSpaces, OnlyBoundSpacesServe, Binding
<1>2. ASSUME NEW s \in SpaceIds, BindCount(s) PROVE CountInv'
  <2>1. TypeOK' /\ OnlyBoundSpacesServe'
    BY <1>2 DEF BindCount, CountInv, TypeOK, OnlyBoundSpacesServe
  <2>2. s \notin Live /\ Live' = Live \cup {s} /\ spaces' = spaces + 1
    BY <1>2 DEF BindCount, CountInv, TypeOK, Live, Binding
  <2> QED
    BY <2>1, <2>2, OneMore DEF CountInv
<1>3. ASSUME NEW s \in SpaceIds, BindBackOut(s) PROVE CountInv'
  <2>1. s \in Live /\ Live' = Live \ {s} /\ spaces' = spaces - 1
    BY <1>3 DEF BindBackOut, CountInv, TypeOK, Live, Binding
  <2>2. CountIsOfLiveSpaces' /\ spaces' \in Nat
    BY <2>1, OneLess
  <2>3. TypeOK' /\ OnlyBoundSpacesServe'
    BY <1>3, <2>2 DEF BindBackOut, CountInv, TypeOK, OnlyBoundSpacesServe
  <2> QED
    BY <2>2, <2>3 DEF CountInv
<1>4. ASSUME NEW s \in SpaceIds, Drop(s) PROVE CountInv'
  <2>1. s \in Live /\ Live' = Live \ {s} /\ spaces' = spaces - 1
    BY <1>4 DEF Drop, CountInv, TypeOK, Live, Binding
  <2>2. CountIsOfLiveSpaces' /\ spaces' \in Nat
    BY <2>1, OneLess
  <2>3. TypeOK'
    BY <1>4, <2>2 DEF Drop, CountInv, TypeOK
  <2>4. OnlyBoundSpacesServe'
    BY <1>4 DEF Drop, CountInv, TypeOK, OnlyBoundSpacesServe
  <2> QED
    BY <2>2, <2>3, <2>4 DEF CountInv
<1>5. ASSUME NEW s \in SpaceIds, BindLook(s) \/ DropRefused(s) \/ Clear(s) PROVE CountInv'
  <2>1. Live' = Live /\ spaces' = spaces
    BY <1>5 DEF BindLook, DropRefused, Clear, CountInv, TypeOK, Live, Binding
  <2>2. TypeOK'
    BY <1>5 DEF BindLook, DropRefused, Clear, CountInv, TypeOK
  <2>3. OnlyBoundSpacesServe'
    BY <1>5 DEF BindLook, DropRefused, Clear, CountInv, TypeOK, OnlyBoundSpacesServe
  <2> QED
    BY <2>1, <2>2, <2>3 DEF CountInv, CountIsOfLiveSpaces, Live
<1>6. ASSUME UNCHANGED <<spaces, space>>, TypeOK', OnlyBoundSpacesServe' PROVE CountInv'
  BY <1>6 DEF CountInv, CountIsOfLiveSpaces, Binding
<1>7. ASSUME NEW s \in SpaceIds, NEW u \in Universes, Evaluate(s, u) PROVE CountInv'
  <2>1. TypeOK' /\ OnlyBoundSpacesServe'
    BY <1>7 DEF Evaluate, CountInv, TypeOK, OnlyBoundSpacesServe
  <2> QED
    BY <1>6, <1>7, <2>1 DEF Evaluate
<1>8. ASSUME NEW s \in SpaceIds,
             AskCovered(s) \/ RecordCached(s) \/ LookForSpaces(s)
      PROVE  CountInv'
  <2>1. PICK r \in [at : {"idle", "evaluated", "covered", "flagged", "cacheable"},
                    of : Universes, current : BOOLEAN, cut : BOOLEAN] :
          read' = [read EXCEPT ![s] = r]
    <3>1. /\ NoRead \in [at : {"idle", "evaluated", "covered", "flagged", "cacheable"},
                          of : Universes, current : BOOLEAN, cut : BOOLEAN]
          /\ \A p \in {"covered", "flagged", "cacheable"} :
               Moved(read[s], p) \in
                 [at : {"idle", "evaluated", "covered", "flagged", "cacheable"},
                  of : Universes, current : BOOLEAN, cut : BOOLEAN]
      BY DEF NoRead, Moved, Universes, CountInv, TypeOK
    <3>2. \/ read' = [read EXCEPT ![s] = NoRead]
          \/ \E p \in {"covered", "flagged", "cacheable"} :
               read' = [read EXCEPT ![s] = Moved(read[s], p)]
      BY <1>8 DEF AskCovered, RecordCached, LookForSpaces
    <3> QED
      BY <3>1, <3>2
  <2>2. /\ UNCHANGED <<spaces, space, entry, writing>>
        /\ cached' \in BOOLEAN
        /\ read[s].at # "idle"
    BY <1>8 DEF AskCovered, RecordCached, LookForSpaces, CountInv, TypeOK
  <2>3. TypeOK'
    BY <2>1, <2>2 DEF CountInv, TypeOK
  <2>4. OnlyBoundSpacesServe'
    BY <2>1, <2>2 DEF CountInv, TypeOK, OnlyBoundSpacesServe
  <2> QED
    BY <1>6, <2>2, <2>3, <2>4
<1>9. ASSUME NEW s \in SpaceIds, KernelCaches(s) PROVE CountInv'
  <2>0. Whole \in Universes
    BY DEF Universes
  <2>1. TypeOK' /\ OnlyBoundSpacesServe'
    BY <1>9, <2>0 DEF KernelCaches, NoRead, CountInv, TypeOK, OnlyBoundSpacesServe
  <2> QED
    BY <1>6, <1>9, <2>1 DEF KernelCaches
<1>10. ASSUME NEW g, Changes(g), UNCHANGED <<spaces, cached, space>>,
              \A s \in SpaceIds : writing'[s] \in BOOLEAN,
              writing' \in [SpaceIds -> BOOLEAN],
              \A s \in SpaceIds : space[s] # "bound" => ~writing'[s]
       PROVE  CountInv'
  <2>1. TypeOK'
    BY <1>10 DEF Changes, CountInv, TypeOK
  <2>2. OnlyBoundSpacesServe'
    BY <1>10 DEF Changes, CountInv, TypeOK, OnlyBoundSpacesServe
  <2> QED
    BY <1>6, <1>10, <2>1, <2>2
<1>11. ASSUME NEW s \in SpaceIds, NEW g, Write(s, g) PROVE CountInv'
  BY <1>10, <1>11 DEF Write, CountInv, TypeOK, OnlyBoundSpacesServe
<1>12. ASSUME NEW g, SharerWrites(g) PROVE CountInv'
  BY <1>10, <1>12 DEF SharerWrites, CountInv, TypeOK, OnlyBoundSpacesServe
<1>13. ASSUME NEW s \in SpaceIds, KernelCuts(s) PROVE CountInv'
  <2>1. TypeOK'
    BY <1>13 DEF KernelCuts, CountInv, TypeOK
  <2>2. OnlyBoundSpacesServe'
    BY <1>13 DEF KernelCuts, CountInv, TypeOK, OnlyBoundSpacesServe
  <2> QED
    BY <1>6, <1>13, <2>1, <2>2 DEF KernelCuts
<1> QED
  BY <1>1, <1>2, <1>3, <1>4, <1>5, <1>7, <1>8, <1>9, <1>11, <1>12, <1>13 DEF Next, SpaceStep

(* The count is of live spaces, in every run (spaces_bound). *)
THEOREM SpacesAreCounted == Spec => [](TypeOK /\ CountIsOfLiveSpaces)
<1>1. CountInv => TypeOK /\ CountIsOfLiveSpaces
  BY DEF CountInv
<1> QED
  BY <1>1, InitCountInv, NextCountInv, PTL DEF Spec

-----------------------------------------------------------------------------
(* The handshake.                                                          *)

(* A read that its kernel may cache, or one that it has. *)
Committed(s) ==
  read[s].at = "cacheable" \/ \E u \in Universes : entry[s][u] # "absent"

(* A read is announced before the count is looked at, and a bind counted   *)
(* before the flag is; the flag is lowered only while there is no space.   *)
Handshake ==
  /\ \A s \in SpaceIds : read[s].at \in {"flagged", "cacheable"} => cached
  /\ \A s \in SpaceIds : Committed(s) =>
       cached /\ \A o \in SpaceIds : o # s => space[o] # "bound"
  /\ \A o \in SpaceIds : space[o] = "clearing" => Live = {}
  /\ cached => \E s \in SpaceIds : space[s] \in {"bound", "clearing"}

LEMMA InitHandshake == ASSUME Init PROVE Handshake
BY DEF Init, Handshake, Committed, NoRead

(* Steps that change no space and no flag: only what becomes committed is  *)
(* to be looked at.                                                        *)
LEMMA QuietStep ==
  ASSUME Handshake, UNCHANGED <<cached, space>>,
         \A s \in SpaceIds : read'[s].at \in {"flagged", "cacheable"} => cached,
         \A s \in SpaceIds : Committed(s)' =>
           Committed(s) \/ (cached /\ \A o \in SpaceIds : o # s => space[o] # "bound")
  PROVE  Handshake'
BY DEF Handshake, Live, Binding

LEMMA NextHandshake ==
  ASSUME ~BindsOverlapDrops, CountInv, Handshake, [Next]_vars
  PROVE  Handshake'
<1>1. CASE UNCHANGED vars
  BY <1>1 DEF vars, Handshake, Committed, Live, Binding
<1>2. ASSUME NEW s \in SpaceIds, BindCount(s) PROVE Handshake'
  <2>1. /\ UNCHANGED <<cached, read, entry>>
        /\ space' = [space EXCEPT ![s] = IF spaces >= 1 THEN "counted" ELSE "bound"]
        /\ \A o \in SpaceIds : space[o] # "clearing"
        /\ space[s] = "unbound"
    BY <1>2 DEF BindCount
  <2>2. ASSUME NEW o \in SpaceIds, Committed(o) PROVE spaces >= 1
    <3>1. o \in Live
      BY <2>2 DEF Committed, CountInv, OnlyBoundSpacesServe, Live
    <3> QED
      BY <3>1, CountTells
  <2>3. \A o \in SpaceIds : Committed(o)' <=> Committed(o)
    BY <2>1 DEF Committed
  <2>4. \A o \in SpaceIds : o # s => space'[o] = space[o]
    BY <2>1 DEF CountInv, TypeOK
  <2>5. \A o \in SpaceIds : space'[o] # "clearing"
    BY <2>1, <2>4 DEF CountInv, TypeOK
  <2>6. spaces >= 1 => space'[s] = "counted"
    BY <2>1 DEF CountInv, TypeOK
  <2>7. \A o \in SpaceIds : Committed(o)' =>
          cached' /\ \A q \in SpaceIds : q # o => space'[q] # "bound"
    BY <2>1, <2>2, <2>3, <2>4, <2>6 DEF Handshake
  <2>8. cached' => \E o \in SpaceIds : space'[o] \in {"bound", "clearing"}
    BY <2>1, <2>4 DEF Handshake
  <2>9. \A o \in SpaceIds : read'[o].at \in {"flagged", "cacheable"} => cached'
    BY <2>1 DEF Handshake
  <2> QED
    BY <2>5, <2>7, <2>8, <2>9 DEF Handshake
<1>3. ASSUME NEW s \in SpaceIds, BindLook(s) PROVE Handshake'
  <2>1. /\ UNCHANGED <<cached, read, entry>>
        /\ space[s] = "counted"
        /\ space'[s] = IF cached THEN "backingOut" ELSE "bound"
        /\ \A o \in SpaceIds : o # s => space'[o] = space[o]
    BY <1>3 DEF BindLook, CountInv, TypeOK
  <2>2. s \in Live
    BY <2>1 DEF Live, Binding
  <2>3. \A o \in SpaceIds : space'[o] # "clearing"
    BY <2>1, <2>2 DEF Handshake
  <2>4. \A o \in SpaceIds : Committed(o)' => Committed(o)
    BY <2>1 DEF Committed
  <2>5. \A o \in SpaceIds : Committed(o)' =>
          cached' /\ \A q \in SpaceIds : q # o => space'[q] # "bound"
    BY <2>1, <2>4 DEF Handshake
  <2>6. cached' => \E o \in SpaceIds : space'[o] \in {"bound", "clearing"}
    BY <2>1 DEF Handshake
  <2>7. \A o \in SpaceIds : read'[o].at \in {"flagged", "cacheable"} => cached'
    BY <2>1 DEF Handshake
  <2> QED
    BY <2>3, <2>5, <2>6, <2>7 DEF Handshake
<1>4. ASSUME NEW s \in SpaceIds, BindBackOut(s) \/ DropRefused(s) PROVE Handshake'
  <2>1. /\ UNCHANGED <<cached, read, entry>>
        /\ space[s] \in {"backingOut", "refused"}
        /\ space'[s] \in {"refused", "unbound"}
        /\ \A o \in SpaceIds : o # s => space'[o] = space[o]
    BY <1>4 DEF BindBackOut, DropRefused, CountInv, TypeOK
  <2>2. \A o \in SpaceIds : Committed(o)' => Committed(o)
    BY <2>1 DEF Committed
  <2>3. Live' \subseteq Live
    BY <2>1 DEF Live, Binding
  <2>4. \A o \in SpaceIds : space'[o] = "clearing" => Live' = {}
    BY <2>1, <2>3 DEF Handshake
  <2>5. \A o \in SpaceIds : Committed(o)' =>
          cached' /\ \A q \in SpaceIds : q # o => space'[q] # "bound"
    BY <2>1, <2>2 DEF Handshake
  <2>6. cached' => \E o \in SpaceIds : space'[o] \in {"bound", "clearing"}
    BY <2>1 DEF Handshake
  <2>7. \A o \in SpaceIds : read'[o].at \in {"flagged", "cacheable"} => cached'
    BY <2>1 DEF Handshake
  <2> QED
    BY <2>4, <2>5, <2>6, <2>7 DEF Handshake
<1>5. ASSUME NEW s \in SpaceIds, Drop(s) PROVE Handshake'
  <2>1. /\ UNCHANGED <<cached, read>>
        /\ space[s] = "bound"
        /\ \A o \in SpaceIds : ~Binding(o)
        /\ space'[s] = IF spaces = 1 THEN "clearing" ELSE "unbound"
        /\ \A o \in SpaceIds : o # s => space'[o] = space[o]
        /\ \A o \in SpaceIds, u \in Universes : entry'[o][u] # "absent" => entry[o][u] # "absent"
    BY <1>5 DEF Drop, CountInv, TypeOK
  <2>2. s \in Live /\ Live' = Live \ {s}
    BY <2>1 DEF Live, Binding
  <2>3. \A o \in SpaceIds : Committed(o)' => Committed(o)
    BY <2>1 DEF Committed
  <2>4. \A o \in SpaceIds : space'[o] = "clearing" => Live' = {}
    <3>1. spaces = 1 => Live' = {}
      BY <2>2, CountTells
    <3>2. \A o \in SpaceIds : space[o] # "clearing"
      BY <2>2 DEF Handshake
    <3> QED
      BY <2>1, <3>1, <3>2
  <2>5. \A o \in SpaceIds : Committed(o)' =>
          cached' /\ \A q \in SpaceIds : q # o => space'[q] # "bound"
    BY <2>1, <2>3 DEF Handshake
  <2>6. \E o \in SpaceIds : space'[o] \in {"bound", "clearing"}
    <3>1. CASE spaces = 1
      BY <2>1, <3>1
    <3>2. CASE spaces # 1
      <4>1. PICK o \in Live : o # s
        BY <2>2, <3>2, CountTells
      <4> QED
        BY <2>1, <4>1 DEF Live
    <3> QED
      BY <3>1, <3>2
  <2>7. \A o \in SpaceIds : read'[o].at \in {"flagged", "cacheable"} => cached'
    BY <2>1 DEF Handshake
  <2> QED
    BY <2>4, <2>5, <2>6, <2>7 DEF Handshake
<1>6. ASSUME NEW s \in SpaceIds, Clear(s) PROVE Handshake'
  <2>1. /\ UNCHANGED <<read, entry>> /\ ~cached'
        /\ space[s] = "clearing"
        /\ space'[s] = "unbound"
        /\ \A o \in SpaceIds : o # s => space'[o] = space[o]
    BY <1>6 DEF Clear, CountInv, TypeOK
  <2>2. Live = {} /\ Live' = {}
    BY <2>1 DEF Handshake, Live, Binding
  <2>3. \A o \in SpaceIds : space[o] # "bound"
    BY <2>2 DEF Live
  <2>4. \A o \in SpaceIds : read'[o].at = "idle" /\ ~Committed(o)'
    BY <2>1, <2>3 DEF CountInv, OnlyBoundSpacesServe, Committed
  <2> QED
    BY <2>1, <2>2, <2>4 DEF Handshake
<1>7. ASSUME NEW s \in SpaceIds, NEW u \in Universes, Evaluate(s, u) PROVE Handshake'
  <2>1. \A o \in SpaceIds : /\ read'[o].at \in {"flagged", "cacheable"} => read'[o] = read[o]
                            /\ Committed(o)' => Committed(o)
    BY <1>7 DEF Evaluate, CountInv, TypeOK, Committed
  <2> QED
    BY <1>7, <2>1, QuietStep DEF Evaluate, Handshake
<1>8. ASSUME NEW s \in SpaceIds, AskCovered(s) PROVE Handshake'
  <2>1. \A o \in SpaceIds : /\ read'[o].at \in {"flagged", "cacheable"} => read'[o] = read[o]
                            /\ Committed(o)' => Committed(o)
    BY <1>8 DEF AskCovered, Moved, NoRead, CountInv, TypeOK, Committed
  <2> QED
    BY <1>8, <2>1, QuietStep DEF AskCovered, Handshake
<1>9. ASSUME NEW s \in SpaceIds, RecordCached(s) PROVE Handshake'
  <2>1. /\ cached' /\ UNCHANGED <<space, entry>>
        /\ read[s].at = "covered"
        /\ read'[s].at = "flagged"
        /\ \A o \in SpaceIds : o # s => read'[o] = read[o]
    BY <1>9 DEF RecordCached, Moved, CountInv, TypeOK
  <2>2. \A o \in SpaceIds : Committed(o)' => Committed(o)
    BY <2>1 DEF Committed
  <2>3. space[s] = "bound"
    BY <2>1 DEF CountInv, OnlyBoundSpacesServe
  <2>4. Live' = Live
    BY <2>1 DEF Live, Binding
  <2> QED
    BY <2>1, <2>2, <2>3, <2>4 DEF Handshake
<1>10. ASSUME NEW s \in SpaceIds, LookForSpaces(s) PROVE Handshake'
  <2>1. /\ UNCHANGED <<cached, space, entry>>
        /\ read[s].at = "flagged"
        /\ read'[s].at = IF spaces <= 1 THEN "cacheable" ELSE "idle"
        /\ \A o \in SpaceIds : o # s => read'[o] = read[o]
    BY <1>10 DEF LookForSpaces, Moved, NoRead, CountInv, TypeOK
  <2>2. s \in Live
    BY <2>1 DEF CountInv, OnlyBoundSpacesServe, Live
  <2>3. spaces <= 1 => \A o \in SpaceIds : o # s => space[o] # "bound"
    BY <2>2, CountTells DEF Live
  <2>4. \A o \in SpaceIds : Committed(o)' => Committed(o) \/ (o = s /\ spaces <= 1)
    BY <2>1 DEF Committed
  <2> QED
    BY <2>1, <2>3, <2>4, QuietStep DEF Handshake
<1>11. ASSUME NEW s \in SpaceIds, KernelCaches(s) PROVE Handshake'
  <2>1. /\ UNCHANGED <<cached, space>>
        /\ read[s].at = "cacheable"
        /\ read'[s].at = "idle"
        /\ \A o \in SpaceIds : o # s => read'[o] = read[o] /\ entry'[o] = entry[o]
    BY <1>11 DEF KernelCaches, NoRead, CountInv, TypeOK
  <2>2. Committed(s)
    BY <2>1 DEF Committed
  <2>3. \A o \in SpaceIds : Committed(o)' => Committed(o)
    BY <2>1, <2>2 DEF Committed
  <2> QED
    BY <2>1, <2>3, QuietStep DEF Handshake
<1>12. ASSUME UNCHANGED <<cached, space>>,
              \A o \in SpaceIds : read'[o].at = read[o].at,
              \A o \in SpaceIds, u \in Universes :
                entry'[o][u] # "absent" => entry[o][u] # "absent"
       PROVE  Handshake'
  BY <1>12, QuietStep DEF Handshake, Committed
<1>13. ASSUME NEW g, Changes(g), UNCHANGED <<cached, space>> PROVE Handshake'
  BY <1>12, <1>13 DEF Changes, CountInv, TypeOK
<1>14. ASSUME NEW s \in SpaceIds, KernelCuts(s) PROVE Handshake'
  BY <1>12, <1>14 DEF KernelCuts, CountInv, TypeOK
<1> QED
  BY <1>1, <1>2, <1>3, <1>4, <1>5, <1>6, <1>7, <1>8, <1>9, <1>10, <1>11, <1>13, <1>14
  DEF Next, SpaceStep, Write, SharerWrites

(* "Never a cached read beside a writer it cannot see": true of every host *)
(* that does not bind one space while it drops another.                    *)
THEOREM CachedReadsAreAlone ==
  ASSUME ~BindsOverlapDrops PROVE Spec => []NeverCachedBesideAnotherSpace
<1>1. CountInv /\ Handshake => NeverCachedBesideAnotherSpace
  BY DEF Handshake, Committed, NeverCachedBesideAnotherSpace
<1> QED
  BY <1>1, InitCountInv, NextCountInv, InitHandshake, NextHandshake, PTL DEF Spec

(* "Once every space is dropped the slate is clean again", for such a host. *)
THEOREM SlatesAreClean ==
  ASSUME ~BindsOverlapDrops PROVE Spec => []SlateIsClean
<1>1. CountInv /\ Handshake => SlateIsClean
  BY DEF Handshake, SlateIsClean
<1> QED
  BY <1>1, InitCountInv, NextCountInv, InitHandshake, NextHandshake, PTL DEF Spec
-----------------------------------------------------------------------------
(* Freshness.                                                              *)

(* No sharer that keeps its promise writes what a read of u sees. *)
ModeCovers(u) ==
  \/ Mode = "Owned"
  \/ Mode = "SharedDeclaring" /\ u # Whole /\ u \cap Declared = {}

(* A read that is out of date has its kernel still to hear of a write of   *)
(* its own, another space beside it, or a universe that is not covered:    *)
(* and each of the three keeps it from being cached for good.              *)
Freshness ==
  /\ \A s \in SpaceIds : read[s].at \in {"covered", "flagged", "cacheable"} =>
       ModeCovers(read[s].of)
  /\ \A s \in SpaceIds : read[s].at # "idle" /\ ~read[s].current /\ ~read[s].cut =>
       \/ writing[s]
       \/ \E o \in SpaceIds : o # s /\ space[o] = "bound"
       \/ ~ModeCovers(read[s].of)
  /\ \A s \in SpaceIds, u \in Universes : entry[s][u] # "absent" => ModeCovers(u)
  /\ NoUnboundedStaleness

LEMMA SharersStayAway ==
  ASSUME NEW u \in Universes, NEW g, ModeCovers(u), MaySharerWrite(g) PROVE ~Sees(u, g)
BY SpacesAssumption DEF SpacesAssumption, Universes, ModeCovers, MaySharerWrite, Sees

LEMMA InitFreshness == ASSUME Init PROVE Freshness
BY DEF Init, Freshness, NoUnboundedStaleness, NoRead

(* Steps of binding that bind no fewer spaces than before. *)
LEMMA BindingStep ==
  ASSUME Freshness, UNCHANGED <<read, entry, writing>>,
         \A o \in SpaceIds : space[o] = "bound" => space'[o] = "bound"
  PROVE  Freshness'
BY DEF Freshness, NoUnboundedStaleness, ModeCovers

(* Steps of one read that leave what it has seen as it is. *)
LEMMA ReadingStep ==
  ASSUME CountInv, Freshness, UNCHANGED <<space, entry, writing>>, NEW s \in SpaceIds,
         \A o \in SpaceIds : o # s => read'[o] = read[o],
         \/ read'[s].at = "idle"
         \/ /\ read'[s].of = read[s].of /\ read[s].at # "idle"
            /\ read'[s].current = read[s].current /\ read'[s].cut = read[s].cut
            /\ read'[s].at \in {"covered", "flagged", "cacheable"} => ModeCovers(read[s].of)
  PROVE  Freshness'
<1>1. \A o \in SpaceIds : read'[o].at \in {"covered", "flagged", "cacheable"} =>
         ModeCovers(read'[o].of)
  BY DEF Freshness
<1>2. \A o \in SpaceIds : read'[o].at # "idle" /\ ~read'[o].current /\ ~read'[o].cut =>
         \/ writing[o]
         \/ \E p \in SpaceIds : p # o /\ space[p] = "bound"
         \/ ~ModeCovers(read'[o].of)
  BY DEF Freshness
<1> QED
  BY <1>1, <1>2 DEF Freshness, NoUnboundedStaleness, ModeCovers

(* Writes: of a space, or of a sharer that keeps its promise. *)
LEMMA WritingStep ==
  ASSUME CountInv, Handshake, Freshness, NEW g, Changes(g), UNCHANGED space,
         \A s \in SpaceIds : writing[s] => writing'[s],
         \/ MaySharerWrite(g)
         \/ \E w \in SpaceIds : space[w] = "bound" /\ writing'[w]
  PROVE  Freshness'
<1>1. \A s \in SpaceIds : /\ read'[s].at = read[s].at
                           /\ read'[s].of = read[s].of
                           /\ read'[s].cut = read[s].cut
                           /\ \/ read'[s].current = read[s].current
                              \/ read[s].at # "idle" /\ Sees(read[s].of, g)
  BY DEF Changes, CountInv, TypeOK
<1>2. \A s \in SpaceIds, u \in Universes :
        \/ entry'[s][u] = entry[s][u]
        \/ entry[s][u] = "current" /\ Sees(u, g)
  BY DEF Changes
<1>3. \A s \in SpaceIds : read[s].of \in Universes
  BY DEF CountInv, TypeOK
<1>4. \A s \in SpaceIds : read'[s].at \in {"covered", "flagged", "cacheable"} =>
        ModeCovers(read'[s].of)
  BY <1>1 DEF Freshness
<1>5. \A s \in SpaceIds : read'[s].at # "idle" /\ ~read'[s].current /\ ~read'[s].cut =>
        \/ writing'[s]
        \/ \E o \in SpaceIds : o # s /\ space[o] = "bound"
        \/ ~ModeCovers(read'[s].of)
  <2> SUFFICES ASSUME NEW s \in SpaceIds,
                      read'[s].at # "idle", ~read'[s].current, ~read'[s].cut,
                      ModeCovers(read'[s].of)
               PROVE  writing'[s] \/ \E o \in SpaceIds : o # s /\ space[o] = "bound"
    OBVIOUS
  <2>1. CASE read'[s].current = read[s].current
    BY <1>1, <2>1 DEF Freshness
  <2>2. CASE Sees(read[s].of, g)
    BY <1>1, <1>3, <2>2, SharersStayAway
  <2> QED
    BY <1>1, <2>1, <2>2
<1>6. \A s \in SpaceIds, u \in Universes : entry'[s][u] # "absent" => ModeCovers(u)
  BY <1>2 DEF Freshness
<1>7. \A s \in SpaceIds, u \in Universes : entry'[s][u] = "stale" => writing'[s]
  <2> SUFFICES ASSUME NEW s \in SpaceIds, NEW u \in Universes, entry'[s][u] = "stale"
               PROVE  writing'[s]
    OBVIOUS
  <2>1. CASE entry'[s][u] = entry[s][u]
    BY <2>1 DEF Freshness, NoUnboundedStaleness
  <2>2. CASE entry[s][u] = "current" /\ Sees(u, g)
    <3>1. ModeCovers(u) /\ Committed(s)
      BY <2>2 DEF Freshness, Committed
    <3>2. \A o \in SpaceIds : o # s => space[o] # "bound"
      BY <3>1 DEF Handshake
    <3> QED
      BY <2>2, <3>1, <3>2, SharersStayAway
  <2> QED
    BY <1>2, <2>1, <2>2
<1> QED
  BY <1>4, <1>5, <1>6, <1>7 DEF Freshness, NoUnboundedStaleness, ModeCovers

LEMMA NextFreshness ==
  ASSUME ~ReadsOverlapDrops, CountInv, Handshake, Freshness, [Next]_vars
  PROVE  Freshness'
<1>1. CASE UNCHANGED vars
  BY <1>1, BindingStep DEF vars
<1>2. ASSUME NEW s \in SpaceIds,
             \/ BindCount(s) \/ BindLook(s) \/ BindBackOut(s) \/ DropRefused(s) \/ Clear(s)
      PROVE  Freshness'
  <2>1. /\ UNCHANGED <<read, entry, writing>>
        /\ space[s] # "bound"
        /\ \A o \in SpaceIds : o # s => space'[o] = space[o]
    BY <1>2 DEF BindCount, BindLook, BindBackOut, DropRefused, Clear, CountInv, TypeOK
  <2> QED
    BY <2>1, BindingStep
<1>3. ASSUME NEW s \in SpaceIds, Drop(s) PROVE Freshness'
  <2>1. /\ UNCHANGED <<read, writing>>
        /\ \A o \in SpaceIds : read[o].at = "idle"
        /\ \A o \in SpaceIds, u \in Universes :
             entry'[o][u] # "absent" => entry'[o][u] = entry[o][u]
    <3>1. read[s].at = "idle"
      BY <1>3 DEF Drop
    <3> QED
      BY <1>3, <3>1 DEF Drop, CountInv, TypeOK
  <2> QED
    BY <2>1 DEF Freshness, NoUnboundedStaleness, ModeCovers
<1>4. ASSUME NEW s \in SpaceIds, NEW u \in Universes, Evaluate(s, u) PROVE Freshness'
  <2>1. /\ UNCHANGED <<space, entry, writing>>
        /\ read'[s].at = "evaluated" /\ read'[s].current
        /\ \A o \in SpaceIds : o # s => read'[o] = read[o]
    BY <1>4 DEF Evaluate, CountInv, TypeOK
  <2>2. \A o \in SpaceIds : /\ read'[o].at \in {"covered", "flagged", "cacheable"} => o # s
                            /\ ~read'[o].current => o # s
    BY <2>1
  <2> QED
    BY <2>1, <2>2 DEF Freshness, NoUnboundedStaleness, ModeCovers
<1>5. ASSUME NEW s \in SpaceIds, AskCovered(s) PROVE Freshness'
  <2>1. /\ UNCHANGED <<space, entry, writing>>
        /\ read[s].at = "evaluated"
        /\ \A o \in SpaceIds : o # s => read'[o] = read[o]
        /\ \/ read'[s] = NoRead
           \/ read'[s] = Moved(read[s], "covered") /\ Covered(read[s].of)
    BY <1>5 DEF AskCovered, CountInv, TypeOK
  <2>2. Covered(read[s].of) => ModeCovers(read[s].of)
    BY DEF Covered, ModeCovers
  <2> QED
    BY <2>1, <2>2, ReadingStep DEF NoRead, Moved
<1>6. ASSUME NEW s \in SpaceIds, RecordCached(s) \/ LookForSpaces(s) PROVE Freshness'
  <2>1. /\ UNCHANGED <<space, entry, writing>>
        /\ read[s].at \in {"covered", "flagged"}
        /\ \A o \in SpaceIds : o # s => read'[o] = read[o]
        /\ \/ read'[s] = NoRead
           \/ \E p \in {"flagged", "cacheable"} : read'[s] = Moved(read[s], p)
    BY <1>6 DEF RecordCached, LookForSpaces, CountInv, TypeOK
  <2>2. ModeCovers(read[s].of)
    BY <2>1 DEF Freshness
  <2> QED
    BY <2>1, <2>2, ReadingStep DEF NoRead, Moved
<1>7. ASSUME NEW s \in SpaceIds, KernelCaches(s) PROVE Freshness'
  <2>1. /\ UNCHANGED <<space, writing>>
        /\ read[s].at = "cacheable"
        /\ read'[s].at = "idle"
        /\ \A o \in SpaceIds : o # s => read'[o] = read[o] /\ entry'[o] = entry[o]
        /\ \A u \in Universes :
             \/ entry'[s][u] = entry[s][u]
             \/ /\ u = read[s].of /\ ~read[s].cut
                /\ entry'[s][u] = "stale" => ~read[s].current
    BY <1>7 DEF KernelCaches, NoRead, CountInv, TypeOK
  <2>2. ModeCovers(read[s].of)
    BY <2>1 DEF Freshness
  <2>3. \A o \in SpaceIds : o # s => space[o] # "bound"
    BY <2>1 DEF Handshake, Committed
  <2>4. ~read[s].current /\ ~read[s].cut => writing[s]
    BY <2>1, <2>2, <2>3 DEF Freshness
  <2>5. \A o \in SpaceIds, u \in Universes : entry'[o][u] # "absent" => ModeCovers(u)
    BY <2>1, <2>2 DEF Freshness
  <2>6. \A o \in SpaceIds, u \in Universes : entry'[o][u] = "stale" => writing[o]
    BY <2>1, <2>4 DEF Freshness, NoUnboundedStaleness
  <2>7. \A o \in SpaceIds : read'[o].at # "idle" => o # s
    BY <2>1
  <2> QED
    BY <2>1, <2>5, <2>6, <2>7 DEF Freshness, NoUnboundedStaleness, ModeCovers
<1>8. ASSUME NEW s \in SpaceIds, NEW g, Write(s, g) PROVE Freshness'
  <2>1. Changes(g) /\ UNCHANGED space /\ space[s] = "bound"
    BY <1>8 DEF Write
  <2>2. writing'[s] /\ \A o \in SpaceIds : writing[o] => writing'[o]
    BY <1>8 DEF Write, CountInv, TypeOK
  <2> QED
    BY <2>1, <2>2, WritingStep
<1>9. ASSUME NEW g, SharerWrites(g) PROVE Freshness'
  BY <1>9, WritingStep DEF SharerWrites
<1>10. ASSUME NEW s \in SpaceIds, KernelCuts(s) PROVE Freshness'
  <2>1. /\ UNCHANGED space
        /\ read'[s].at # "idle" => read'[s].cut
        /\ read'[s].at = read[s].at /\ read'[s].of = read[s].of
        /\ \A o \in SpaceIds : o # s => /\ read'[o] = read[o]
                                         /\ entry'[o] = entry[o]
                                         /\ writing'[o] = writing[o]
        /\ \A u \in Universes : entry'[s][u] = "absent"
    BY <1>10 DEF KernelCuts, CountInv, TypeOK
  <2>2. \A o \in SpaceIds : read'[o].at \in {"covered", "flagged", "cacheable"} =>
          ModeCovers(read'[o].of)
    BY <2>1 DEF Freshness
  <2>3. \A o \in SpaceIds : read'[o].at # "idle" /\ ~read'[o].cut => o # s
    BY <2>1
  <2>4. \A o \in SpaceIds, u \in Universes : entry'[o][u] # "absent" => o # s
    BY <2>1
  <2> QED
    BY <2>1, <2>2, <2>3, <2>4 DEF Freshness, NoUnboundedStaleness, ModeCovers
<1> QED
  BY <1>1, <1>2, <1>3, <1>4, <1>5, <1>6, <1>7, <1>8, <1>9, <1>10 DEF Next, SpaceStep

(* No cached answer is out of date for longer than its kernel takes to     *)
(* hear of a write of its own: true of every host that binds and drops its *)
(* spaces one at a time, and drops none while another evaluates a read.    *)
THEOREM CachedReadsAreFresh ==
  ASSUME ~BindsOverlapDrops, ~ReadsOverlapDrops PROVE Spec => []NoUnboundedStaleness
<1>1. Freshness => NoUnboundedStaleness
  BY DEF Freshness
<1> QED
  BY <1>1, InitCountInv, NextCountInv, InitHandshake, NextHandshake,
     InitFreshness, NextFreshness, PTL DEF Spec
=============================================================================
