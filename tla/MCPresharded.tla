---------------------------- MODULE MCPresharded ----------------------------
(* Instances of Presharded for TLC.                                         *)
EXTENDS Presharded, TLC

\* Two ranks: a tensor both hold, one of each rank's own, and under the other
\* config two names for one content.
MCWeights ==
  "c1" :> (0 :> [a |-> "k1", b |-> "k2"] @@ 1 :> [a |-> "k1", b |-> "k3"]) @@
  "c2" :> (0 :> [a |-> "k1", b |-> "k1"] @@ 1 :> [a |-> "k4", b |-> "k1"])
=============================================================================
