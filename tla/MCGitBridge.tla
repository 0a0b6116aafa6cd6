---------------------------- MODULE MCGitBridge ----------------------------
(***************************************************************************)
(* Instances of GitBridge for TLC.                                         *)
(***************************************************************************)
EXTENDS GitBridge

CONSTANTS h1, h2, d1, d2, e1, m1, m2

\* On h1 a second process takes over, starts again or makes one pass beside the
\* first (d2, with --once); h2 has one daemon.
Places == [d \in Daemons |-> IF d = e1 THEN h2 ELSE h1]

\* One message from each host.
Senders == [m \in Msgs |-> IF m = m1 THEN h1 ELSE h2]

=============================================================================
