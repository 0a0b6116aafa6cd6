------------------------------ MODULE MCRelay ------------------------------
(***************************************************************************)
(* Instances of Relay for TLC.                                             *)
(***************************************************************************)
EXTENDS Relay, TLC

CONSTANTS a1, a2, r1, A, B

NickOfPair == (a1 :> A @@ a2 :> A)
NickOfWithRemote == (a1 :> A @@ a2 :> A @@ r1 :> A)

Heirs == Permutations({a1, a2})

=============================================================================
