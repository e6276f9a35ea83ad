--------------------------- MODULE MCDraftGraphs ---------------------------
(* Six servers: three of one width, of which the first captured every batch  *)
(* size, the second pads and the third has no rejection sampling and leaves  *)
(* batches of two to the eager path; two adaptive ones, where a captured     *)
(* window of one width has as many rows as one of another; and one without   *)
(* graphs. All but one ask for index sharing.                                *)
EXTENDS DraftGraphs, TLC

Server(buckets, share, adaptive, rejection) ==
  [buckets |-> buckets, share |-> share, adaptive |-> adaptive, rejection |-> rejection]

MCServers ==
  {Server(2 :> {1, 2}, TRUE, FALSE, TRUE),
   Server(2 :> {2}, TRUE, FALSE, TRUE),
   Server(2 :> {1}, TRUE, FALSE, FALSE),
   Server(0 :> {2} @@ 2 :> {1, 2}, TRUE, TRUE, TRUE),
   Server(0 :> {2} @@ 1 :> {1}, FALSE, TRUE, TRUE),
   Server(2 :> {}, TRUE, FALSE, TRUE)}
=============================================================================
