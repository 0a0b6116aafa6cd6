----------------------------- MODULE MCRegistry -----------------------------
(***************************************************************************)
(* Instances of Registry for TLC: two sessions of a nick, two rooms.       *)
(***************************************************************************)
EXTENDS Registry, TLC

CONSTANTS s1, s2, c1, c2

Symmetry == Permutations(Sessions)

=============================================================================
