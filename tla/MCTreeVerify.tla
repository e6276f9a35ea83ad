---------------------------- MODULE MCTreeVerify ----------------------------
(* Six servers: a tree of two steps and three nodes over a batch of two,     *)
(* with the mask in a buffer; a tree of one step, with more nodes than       *)
(* levels; a deeper tree with the mask over the window alone; an adaptive    *)
(* chain; and two that sample, with the draft's proposals truncated and not. *)
EXTENDS TreeVerify

P(steps, nd) == [steps |-> steps, nd |-> nd]

MCServers ==
  {[topk |-> 2, plans |-> {P(2, 3)}, bs |-> 2, mask |-> "full", held |-> 2,
    sampling |-> FALSE, truncated |-> FALSE, starts |-> {1, 2}, room |-> 6],
   [topk |-> 2, plans |-> {P(1, 3)}, bs |-> 2, mask |-> "full", held |-> 0,
    sampling |-> FALSE, truncated |-> FALSE, starts |-> {1, 2}, room |-> 5],
   [topk |-> 2, plans |-> {P(3, 4)}, bs |-> 1, mask |-> "qlen", held |-> 0,
    sampling |-> FALSE, truncated |-> FALSE, starts |-> {1, 2}, room |-> 7],
   [topk |-> 1, plans |-> {P(0, 1), P(1, 2), P(2, 3)}, bs |-> 2, mask |-> "full", held |-> 1,
    sampling |-> FALSE, truncated |-> FALSE, starts |-> {1, 2}, room |-> 6],
   [topk |-> 1, plans |-> {P(1, 2), P(2, 3)}, bs |-> 1, mask |-> "unread", held |-> 1,
    sampling |-> TRUE, truncated |-> TRUE, starts |-> {1}, room |-> 4],
   [topk |-> 1, plans |-> {P(1, 2)}, bs |-> 1, mask |-> "unread", held |-> 1,
    sampling |-> TRUE, truncated |-> FALSE, starts |-> {1}, room |-> 3]}

\* The weights of tokens 0, 5, 2 and 6; the others have none.
Row(a, b, c, d) ==
  [t \in TokenId |-> CASE t = 0 -> a [] t = 5 -> b [] t = 2 -> c [] t = 6 -> d [] OTHER -> 0]
MCDraftRows == {Row(2, 1, 3, 6), Row(6, 0, 3, 3)}
MCTargetRows == {Row(3, 2, 3, 3), Row(4, 0, 4, 4)}
MCParams == {[k |-> 1, tp |-> 10], [k |-> 2, tp |-> 10], [k |-> 2, tp |-> 6]}

ASSUME TiesFit /\ CoinsFit
=============================================================================
