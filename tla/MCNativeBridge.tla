--------------------------- MODULE MCNativeBridge ---------------------------
(***************************************************************************)
(* Instances of NativeBridge for TLC: one bridged nick, a direct message   *)
(* in its inbox, one file for its listener to write.                       *)
(***************************************************************************)
EXTENDS NativeBridge, TLC

CONSTANTS x, m1, e1, p1, d1, d2, r1

BoxOfX == [i \in Ids |-> x]
NamedX == [p \in Peers |-> x]

=============================================================================
