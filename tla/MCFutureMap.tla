---------------------------- MODULE MCFutureMap ----------------------------
(* Instances of FutureMap for TLC.                                          *)
EXTENDS FutureMap

\* Requests are interchangeable: a row is only compared with others.
RowSymmetry == Permutations(Rows)
=============================================================================
