---------------------------- MODULE MCMlpSync ----------------------------
(* Six servers: without speculation, with and without captured prefills and  *)
(* with ranks that may join; with speculation of chains and of two branches, *)
(* one of them coordinated; three draft steps, so that a batch serves two    *)
(* forwards.                                                                 *)
EXTENDS MlpSync

Plain(hybrid, elastic, graphMax, tolerates) ==
  [spec |-> FALSE, topk |-> 1, steps |-> 1, width |-> 1, coordinate |-> FALSE,
   hybrid |-> hybrid, elastic |-> elastic, graphMax |-> graphMax, tolerates |-> tolerates]
Drafting(topk, steps, width, coordinate, hybrid, elastic, graphMax) ==
  [spec |-> TRUE, topk |-> topk, steps |-> steps, width |-> width, coordinate |-> coordinate,
   hybrid |-> hybrid, elastic |-> elastic, graphMax |-> graphMax, tolerates |-> FALSE]

MCServers ==
  {Plain(TRUE, FALSE, 2, FALSE), Plain(TRUE, TRUE, 2, TRUE), Plain(FALSE, TRUE, 0, FALSE),
   Drafting(1, 3, 3, TRUE, TRUE, FALSE, 4), Drafting(1, 3, 3, FALSE, TRUE, TRUE, 2),
   Drafting(2, 3, 3, TRUE, FALSE, TRUE, 4)}
=============================================================================
