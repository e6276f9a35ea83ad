---------------------------- MODULE MCLensRelay -----------------------------
(* Instances of LensRelay for TLC.                                          *)
EXTENDS LensRelay
=============================================================================
