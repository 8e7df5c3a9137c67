------------------------------- MODULE MCSpaces -------------------------------
(***************************************************************************)
(* Small instances of Spaces, with the spaces interchangeable.             *)
(***************************************************************************)
EXTENDS Spaces, TLC

CONSTANTS s1, s2, s3, g1, g2

Symmetry == Permutations(SpaceIds)
=============================================================================
