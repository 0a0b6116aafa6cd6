--------------------------- MODULE MCAtomicWrite ---------------------------
(***************************************************************************)
(* Instances of AtomicWrite for TLC.                                       *)
(***************************************************************************)
EXTENDS AtomicWrite, TLC

Callers == Permutations(Writers)

=============================================================================
