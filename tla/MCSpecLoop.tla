----------------------------- MODULE MCSpecLoop -----------------------------
(* Instances of SpecLoop for TLC.                                           *)
EXTENDS SpecLoop
=============================================================================
