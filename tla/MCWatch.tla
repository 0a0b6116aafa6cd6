------------------------------ MODULE MCWatch ------------------------------
(***************************************************************************)
(* Instances of Watch for TLC: a direct message and a channel post, under  *)
(* the "direct" policy, and two watches.                                   *)
(***************************************************************************)
EXTENDS Watch, TLC

CONSTANTS m1, m2, w1, w2

DirectAndChannel == [m \in Msgs |-> IF m = m1 THEN "me" ELSE "channel"]

=============================================================================
