----------------------------- MODULE MCPresence -----------------------------
(***************************************************************************)
(* Instances of Presence for TLC.                                          *)
(***************************************************************************)
EXTENDS Presence, TLC

Contenders == Permutations(Starters) \cup Permutations(Others) \cup Permutations(Probers)

=============================================================================
