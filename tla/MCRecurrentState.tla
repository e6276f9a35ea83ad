-------------------------- MODULE MCRecurrentState --------------------------
(* RecurrentState with the constants its cfg gives.                         *)
EXTENDS RecurrentState
=============================================================================
