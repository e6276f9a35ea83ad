---------------------------- MODULE MCMambaSlots ----------------------------
(* Instances of MambaSlots for TLC.                                         *)
EXTENDS MambaSlots
=============================================================================
