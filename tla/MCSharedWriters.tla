---------------------------- MODULE MCSharedWriters ----------------------------
(***************************************************************************)
(* Small instances of SharedWriters.  Of the handles, ho is the host's own *)
(* and hs and hd are given out by a store, hd with a declaration that      *)
(* promises g1; a asks for g1 alone, b for g2 alone and c for both.        *)
(***************************************************************************)
EXTENDS SharedWriters, TLC

CONSTANTS ho, hs, hd, a, b, c, g1, g2, l1, l2, l3

MCCoverage == [h \in Handles |-> CASE h = ho -> "HostOpened"
                                   [] h = hs -> "Shared"
                                   [] OTHER  -> "SharedDeclaring"]

MCPromise == [h \in Handles |-> IF h = hd THEN {g1} ELSE {}]

MCAsks == [w \in Writers |-> CASE w = a  -> {g1} \cap Graphs
                               [] w = b  -> {g2} \cap Graphs
                               [] OTHER  -> Graphs]

Symmetry == Permutations(Lines)
=============================================================================
