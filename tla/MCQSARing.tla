----------------------------- MODULE MCQSARing -----------------------------
(* Instances of QSARing for TLC.  The slots are interchangeable except in   *)
(* PadSlot's choice under HostLayout, so no symmetry is declared.         *)
EXTENDS QSARing
=============================================================================
