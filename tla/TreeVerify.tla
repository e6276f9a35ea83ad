----------------------------- MODULE TreeVerify -----------------------------
(* One round of tree speculation after another: the draft's beam search, the *)
(* choice of the tree, the flat arrays handed to the target (tokens, mask,   *)
(* positions, links), greedy or sampling acceptance, and what the accepted   *)
(* path leaves at the front of every request's block of rows.                *)
(*                                                                           *)
(* A committed token of request b at position c is named <<b, c>>: attention *)
(* is about which cells a row sees, so committed text is not spelled out.    *)
(* Scores are abstracted to the rankings they may give.  The target is a     *)
(* function from the set of cells a row sees to a word.                      *)
EXTENDS SparseSampler, Functions, SequencesExt

CONSTANTS
  Servers,      \* configurations of a server, see ServerType
  Words,        \* the tokens of a greedy server
  DraftRows,    \* rows of logits of the draft, for a sampling server
  TargetRows,   \* and of the target
  Params,       \* sampling parameters of a request: [k, tp]
  Hashes        \* hashes of a seeded server, 0 .. Grid

\* plans: the step counts it switches between and the draft tokens of each;
\* mask: the layout of the attention mask its target reads, or "unread";
\* held: the batch sizes whose mask fits the buffer its backend owns; starts
\* and room: lengths of the prompts, and the longest context.
ServerType ==
  [topk : Nat \ {0}, plans : SUBSET [steps : Nat, nd : Nat \ {0}], bs : Nat \ {0},
   mask : {"full", "qlen", "unread"}, held : Nat, sampling : BOOLEAN, truncated : BOOLEAN,
   starts : SUBSET Nat, room : Nat]

TreeAssumption ==
  /\ Servers \subseteq ServerType
  /\ Words \subseteq TokenId
  /\ Hashes \subseteq 0..Grid
  /\ \A s \in Servers : s.sampling => s.topk = 1 /\ \A p \in s.plans : p.steps > 0
  /\ \A s \in Servers : \A p \in s.plans :
       /\ s.topk = 1 => p.nd = p.steps + 1
       /\ p.steps = 0 => p.nd = 1
  \* A backend that does not read the mask attends causally, which is for chains.
  /\ \A s \in Servers : s.mask = "unread" => s.topk = 1
ASSUME TreeAssumption

\* Some token of a target's row has weight.  topk_rows runs on rows whose
\* segments have as many tokens as it returns.
RowAssumption ==
  /\ TargetRows \cup DraftRows \subseteq [TokenId -> Nat]
  /\ \A row \in TargetRows : \E t \in TokenId : row[t] > 0
  /\ \A param \in Params : /\ param.k \in Nat \ {0}
                           /\ Candidates({param.k}) <= Vocab \div Segments
ASSUME RowAssumption

\* The candidates taken past the largest top_k are enough for the ties.
TiesFit ==
  \A row \in TargetRows, param \in Params :
    Cardinality(Kept(TokenId, row, param.k)) <= Candidates({param.k})

\* The grid of coins is fine enough: the odds of accepting a token and of
\* drawing one from the residual are multiples of 1 / Grid.
EvenOdds(p, q) ==
  LET r == Residual(p, q)
  IN /\ \A x \in TokenId : p[x] * Total(q) < q[x] * Total(p)
           => (p[x] * Total(q) * Grid) % (q[x] * Total(p)) = 0
     /\ \A y \in TokenId : Total(r) > 0 => (r[y] * Grid) % Total(r) = 0
CoinsFit ==
  \A s \in Servers, row \in TargetRows, draft \in DraftRows, param \in Params :
    s.sampling /\ (s.truncated \/ param.k > 1) =>
      \A d \in DraftProposals(draft, param.k, param.tp, s.truncated) :
        EvenOdds(Target(row, TokenId, param.k, param.tp), d.q)

VARIABLES
  server,   \* the configuration
  lens,     \* seq_lens: the positions of each request that have KV entries
  buffer,   \* the TRUE cells of the mask buffer of each plan's backend
  phase,    \* draft, verify or extend
  tree,     \* the verify input, with the beams it came from
  result    \* what verify returns

treeVars == <<server, lens, buffer, phase, tree, result>>

Nothing == [none |-> TRUE]
Seqs(S, n) == [1..n -> S]

-----------------------------------------------------------------------------
(* Drafting                                                                  *)
(* The expansions of all steps are numbered in the order of token_list:      *)
(* topk of the first step, then topk * topk of every later one.              *)

Step(k, x) == IF x < k THEN 0 ELSE (x - k) \div (k * k) + 1
Slot(k, x) == ((x - k) % (k * k)) \div k
Expansions(k, i) == {x \in 0..(k + i * k * k - 1) : Step(k, x) = i}
AllExpansions(k, steps) == UNION {Expansions(k, i) : i \in 0..(steps - 1)}

\* The expansion a later one hangs from: the beam's entry in its slot.
ParentOf(k, beams, x) == IF x < k THEN -1 ELSE beams[Step(k, x)][Slot(k, x) + 1]

\* Expansions of one slot are sorted, so a beam takes them in order.
Ordered(k, beam) ==
  \A m \in 1..k : \A y \in Expansions(k, Step(k, beam[m])) :
    (y < beam[m] /\ Step(k, y) > 0 /\ Slot(k, y) = Slot(k, beam[m])) =>
      \E l \in 1..(m - 1) : beam[l] = y
BeamsOf(k, i) ==
  IF i = 0 THEN {[m \in 1..k |-> m - 1]}
  ELSE {b \in Seqs(Expansions(k, i), k) : IsInjective(b) /\ Ordered(k, b)}

\* beams[i + 1] are the expansions selected at step i; siblings differ in
\* their tokens.
Searches(k, steps) ==
  {[beams |-> b, tokens |-> t] :
     b \in {f \in [1..steps -> UNION {BeamsOf(k, i) : i \in 0..(steps - 1)}] :
              \A i \in 1..steps : f[i] \in BeamsOf(k, i - 1)},
     t \in {f \in [AllExpansions(k, steps) -> Words] :
              \A x, y \in AllExpansions(k, steps) :
                (x # y /\ Step(k, x) = Step(k, y) /\ (x < k \/ Slot(k, x) = Slot(k, y)))
                  => f[x] # f[y]}}

\* What scores better: the parent, an earlier sibling, an earlier entry of
\* the beam, and all of the beam before the rest of its step.
Better(k, beams, x, y) ==
  \/ x = ParentOf(k, beams, y)
  \/ /\ Step(k, x) = Step(k, y)
     /\ \/ x < y /\ (y < k \/ Slot(k, x) = Slot(k, y))
        \/ LET b == beams[Step(k, x) + 1]
           IN \E m \in DOMAIN b : b[m] = x /\ \A l \in 1..m : b[l] # y

\* organize_draft_results: the best nd - 1, in the order of their numbers.
Selections(k, steps, nd, beams) ==
  {s \in Seqs(AllExpansions(k, steps), nd - 1) :
     /\ \A i, j \in 1..(nd - 1) : i < j => s[i] < s[j]
     /\ \A y \in Range(s), x \in AllExpansions(k, steps) :
          Better(k, beams, x, y) => x \in Range(s)}

\* The list of parents of one request: -1, then the beams of all steps but
\* the last, one after the other; nothing at all if there is one step.
ParentEntry(k, beams, x) ==
  IF x = 0 THEN -1 ELSE beams[((x - 1) \div k) + 1][((x - 1) % k) + 1]
Stride(k, steps) == k * (steps - 1) + 1
Parents(k, steps, searches) ==
  LET w == IF steps = 1 THEN 0 ELSE Stride(k, steps)
  IN [x \in 0..(Len(searches) * w - 1) |->
        ParentEntry(k, searches[(x \div w) + 1].beams, x % w)]

-----------------------------------------------------------------------------
(* build_tree_kernel_efficient                                               *)

\* The node, 0 for the root, that node n of request b hangs from: the kernel
\* looks the parent's number up in the flat list and then in the selection.
NodeParent(k, steps, parents, selected, b, n) ==
  LET tb == selected[b + 1][n] \div k
      number == parents[b * Stride(k, steps) + tb]
  IN IF tb = 0 THEN 0 ELSE CHOOSE j \in 1..Len(selected[b + 1]) : selected[b + 1][j] = number

\* The links of one request's nodes, from their parents.
Depth(up) == LET d[n \in {0} \cup DOMAIN up] == IF n = 0 THEN 0 ELSE 1 + d[up[n]] IN d
Ancestors(up) ==
  LET a[n \in {0} \cup DOMAIN up] == IF n = 0 THEN {0} ELSE {n} \cup a[up[n]] IN a
LeastOr(S, x) == IF S = {} THEN x ELSE Min(S)
NextToken(up) == [n \in {0} \cup DOMAIN up |-> LeastOr({c \in DOMAIN up : up[c] = n}, -1)]
NextSibling(up) ==
  [n \in {0} \cup DOMAIN up |->
     IF n = 0 THEN -1 ELSE LeastOr({c \in DOMAIN up : up[c] = up[n] /\ c > n}, -1)]

\* Where row i of request b begins in the flat mask, and its tree columns.
FullStart(nd) ==
  LET start[b \in 0..server.bs] ==
        IF b = 0 THEN 0 ELSE start[b - 1] + (lens[b - 1] + nd) * nd
  IN start
MaskRow(layout, nd, b, i) ==
  IF layout = "qlen" THEN nd * nd * b + nd * i ELSE FullStart(nd)[b] + i * (lens[b] + nd)
FirstColumn(layout, b) == IF layout = "qlen" THEN 0 ELSE lens[b]

TreeCells(layout, nd, n) ==
  {MaskRow(layout, nd, b, i) + FirstColumn(layout, b) + j :
     b \in 0..(n - 1), i \in 0..(nd - 1), j \in 0..(nd - 1)}
SeenCells(layout, nd, seen) ==
  UNION {{MaskRow(layout, nd, b - 1, i) + FirstColumn(layout, b - 1) + j : j \in seen[b][i]} :
           b \in DOMAIN seen, i \in 0..(nd - 1)}

AllCells(nd) == 0..(server.bs * (server.room + nd) * nd - 1)
Layout == IF server.mask = "qlen" THEN "qlen" ELSE "full"

\* The mask starts from the buffer the backend owns, if the batch fits it,
\* or from a new one; both are filled, unless nobody reads the mask.
FaultyFilled(plan, n) == IF n <= server.held THEN buffer[plan] ELSE AllCells(plan.nd)
Filled(plan, n) ==
  IF server.mask = "unread" THEN (IF n <= server.held THEN buffer[plan] ELSE {})
  ELSE AllCells(plan.nd)

Mask(plan, n, seen) ==
  (Filled(plan, n) \ TreeCells(Layout, plan.nd, n)) \cup SeenCells(Layout, plan.nd, seen)

Keep(plan, n, mask) ==
  buffer' = IF n <= server.held THEN [buffer EXCEPT ![plan] = mask] ELSE buffer

-----------------------------------------------------------------------------
(* A round                                                                   *)

Request(n) == 0..(n - 1)
Node(plan) == 0..(plan.nd - 1)
Bonus(b) == <<b, lens[b]>>

\* The verify input of n requests: nodes[b + 1] has the parent and the token
\* of every node but the root.  paths is a ghost: what was drafted.
VerifyInput(plan, n, nodes, paths, rows) ==
  LET nd == plan.nd
      up(f) == nodes[(f \div nd) + 1].up
      at(f) == f % nd
      flat == 0..(n * nd - 1)
      seen == [b \in 1..n |-> [i \in Node(plan) |-> Ancestors(nodes[b].up)[i]]]
  IN [plan |-> plan, n |-> n, paths |-> paths, rows |-> rows,
      tokens |-> [f \in flat |-> IF at(f) = 0 THEN Bonus(f \div nd)
                                  ELSE <<nodes[(f \div nd) + 1].token[at(f)]>>],
      positions |-> [f \in flat |-> lens[f \div nd] + Depth(up(f))[at(f)]],
      next |-> [f \in flat |-> NextToken(up(f))[at(f)]],
      sibling |-> [f \in flat |-> NextSibling(up(f))[at(f)]],
      mask |-> Mask(plan, n, seen)]

\* The tokens on the way to every selected expansion.
Way(k, search, selected) ==
  LET way[x \in Range(selected)] ==
        IF x < k THEN <<search.tokens[x]>>
        ELSE Append(way[ParentOf(k, search.beams, x)], search.tokens[x])
  IN way
Paths(k, search, selected) == Range(Way(k, search, selected))

Room(plan, n) ==
  /\ phase = "draft"
  /\ plan \in server.plans
  /\ n \in 1..server.bs
  /\ \A b \in Request(n) : lens[b] + plan.nd <= server.room

\* draft_forward, organize_draft_results and build_eagle_verify_input.  A
\* chain takes its parents and selection from constant tables, which hold
\* what the general case computes for topk = 1.
DraftTree(plan, n) ==
  /\ Room(plan, n) /\ plan.steps > 0 /\ ~server.sampling
  /\ LET k == server.topk
         choices == UNION {{[search |-> s, selected |-> sel] :
                              sel \in Selections(k, plan.steps, plan.nd, s.beams)} :
                           s \in Searches(k, plan.steps)}
     IN \E drafts \in Seqs(choices, n) :
          LET selected == [b \in 1..n |-> drafts[b].selected]
              parents == Parents(k, plan.steps, [b \in 1..n |-> drafts[b].search])
              nodes == [b \in 1..n |->
                [up |-> [i \in 1..(plan.nd - 1) |->
                           NodeParent(k, plan.steps, parents, selected, b - 1, i)],
                 token |-> [i \in 1..(plan.nd - 1) |->
                              drafts[b].search.tokens[selected[b][i]]]]]
          IN tree' = VerifyInput(plan, n, nodes,
                       [b \in 1..n |-> Paths(k, drafts[b].search, selected[b])], Nothing)
  /\ Keep(plan, n, tree'.mask)
  /\ phase' = "verify"
  /\ UNCHANGED <<server, lens, result>>

\* The same for a chain whose tokens are drawn from a proposal, step by step.
DraftSampled(plan, param) ==
  /\ Room(plan, 1) /\ plan.steps > 0 /\ server.sampling
  /\ \E rows \in Seqs(DraftRows, plan.steps) :
     \E qs \in Seqs(UNION {DraftProposals(rows[i], param.k, param.tp, server.truncated) :
                             i \in 1..plan.steps}, plan.steps) :
     \E xs \in Seqs(TokenId, plan.steps) :
       /\ \A i \in 1..plan.steps :
            /\ qs[i] \in DraftProposals(rows[i], param.k, param.tp, server.truncated)
            /\ qs[i].drawn[xs[i]] > 0
       /\ tree' = VerifyInput(plan, 1,
                    <<[up |-> [i \in 1..plan.steps |-> i - 1], token |-> xs]>>,
                    <<{SubSeq(xs, 1, i) : i \in 1..plan.steps}>>,
                    [param |-> param, qs |-> qs])
  /\ Keep(plan, 1, tree'.mask)
  /\ phase' = "verify"
  /\ UNCHANGED <<server, lens, result>>

\* _build_trivial_verify_input: no step, a tree of the bonus token alone.
TrivialTree(plan, n) ==
  /\ Room(plan, n) /\ plan.steps = 0
  /\ tree' = [VerifyInput(plan, n, [b \in 1..n |-> [up |-> <<>>, token |-> <<>>]],
                          [b \in 1..n |-> {}], Nothing) EXCEPT !.mask = AllCells(1)]
  /\ Keep(plan, n, AllCells(1))
  /\ phase' = "verify"
  /\ UNCHANGED <<server, lens, result>>

\* What row i of request b sees: cells with their position and their token.
Sees(b, i) ==
  LET nd == tree.plan.nd
      shows(c) == MaskRow(Layout, nd, b, i) + c \in tree.mask
      prefix == {c \in 0..(lens[b] - 1) : server.mask = "full" => shows(c)}
      nodes == {j \in Node(tree.plan) :
                  IF server.mask = "unread" THEN j <= i ELSE shows(FirstColumn(Layout, b) + j)}
  IN {<<c, <<b, c>>>> : c \in prefix}
       \cup {<<tree.positions[b * nd + j], tree.tokens[b * nd + j]>> : j \in nodes}

\* The context that the text of request b, followed by path, really gives.
Context(b, path) ==
  {<<c, <<b, c>>>> : c \in 0..lens[b]} \cup {<<lens[b] + i, <<path[i]>>>> : i \in DOMAIN path}

\* verify_tree_greedy: from the root, the first child in sibling order whose
\* token the target predicted, as long as there is one.
Match(b, word) ==
  LET m[c \in Node(tree.plan) \cup {-1}] ==
        IF c = -1 THEN -1 ELSE IF tree.tokens[b * tree.plan.nd + c] = <<word>> THEN c
        ELSE m[tree.sibling[b * tree.plan.nd + c]]
  IN m
Walk(b, predicted) ==
  LET nd == tree.plan.nd
      walk[i \in 0..tree.plan.steps] ==
        IF i = 0 THEN <<0>>
        ELSE LET w == walk[i - 1]
                 c == Match(b, predicted[b * nd + Last(w)])[tree.next[b * nd + Last(w)]]
             IN IF Len(w) < i \/ c = -1 THEN w ELSE Append(w, c)
  IN walk[tree.plan.steps]

Width == tree.plan.steps + 1
FlatIndex(b, path) ==
  [i \in 1..Width |-> IF i <= Len(path) THEN b * tree.plan.nd + path[i] ELSE -1]

\* _compact_accept_to_front: rows of the accepted path to the front.
FaultyCompact(x, accept, n, nd) ==
  [f \in DOMAIN x |-> IF f < n * Width THEN x[Max({accept[f + 1], 0})] ELSE x[f]]
Compact(x, accept, n, nd) ==
  [f \in DOMAIN x |->
     IF f % nd < Width THEN x[Max({accept[(f \div nd) * Width + (f % nd) + 1], 0})] ELSE x[f]]

\* post_verify: the bonus token is the prediction of the last accepted node.
FaultyBonusOf(predict, accept, b, acc) == predict[b * tree.plan.nd + acc - 1]
BonusOf(predict, accept, b, acc) == predict[accept[b * Width + acc]]

\* The result for the accepted paths and the predictions of their nodes.
Result(paths, predicted, asked) ==
  LET n == tree.n
      nd == tree.plan.nd
      flat == DOMAIN tree.tokens
      accept == [x \in 1..(n * Width) |->
                   FlatIndex((x - 1) \div Width, paths[((x - 1) \div Width) + 1])[((x - 1) % Width) + 1]]
      acc == [b \in Request(n) |-> Len(paths[b + 1])]
      predict == [f \in flat |-> IF f \in Range(accept) THEN predicted[f] ELSE 0]
      hidden == [f \in flat |-> Sees(f \div nd, f % nd)]
      front(x) == IF server.topk > 1 THEN Compact(x, accept, n, nd) ELSE x
  IN [acc |-> acc, asked |-> asked,
      predict |-> front(predict), hidden |-> front(hidden),
      bonus |-> [b \in Request(n) |-> BonusOf(predict, accept, b, acc[b])],
      lens |-> [b \in Request(server.bs) |-> IF b < n THEN lens[b] + acc[b] ELSE lens[b]]]

\* run_eagle_verify with greedy acceptance, for any target.
VerifyTree ==
  /\ phase = "verify" /\ ~server.sampling
  /\ LET nd == tree.plan.nd
         contexts == {Sees(f \div nd, f % nd) : f \in DOMAIN tree.tokens}
     IN \E target \in [contexts -> Words] :
          LET predicted == [f \in DOMAIN tree.tokens |-> target[Sees(f \div nd, f % nd)]]
          IN result' = Result([b \in 1..tree.n |-> Walk(b - 1, predicted)], predicted, target)
  /\ phase' = "extend"
  /\ UNCHANGED <<server, lens, buffer, tree>>

\* The same with sampling, for any rows of the target and any coins; another
\* request of the batch may ask for more candidates.
VerifySampled ==
  /\ phase = "verify" /\ server.sampling /\ tree.plan.steps > 0
  /\ LET d == tree.plan.nd
         k == tree.rows.param.k
         tp == tree.rows.param.tp
         xs == [i \in 1..(d - 1) |-> tree.tokens[i][1]]
         qs == [i \in 1..(d - 1) |-> tree.rows.qs[i].q]
     IN \E rows \in Seqs(TargetRows, d), hashes \in Seqs(Hashes, d), other \in Params :
        LET sparse == [i \in 1..d |-> SparseTargets(rows[i], {k, other.k}, k, tp)]
            coins == [i \in 1..d |-> Coin(hashes[i])]
        IN \E ps \in Seqs(UNION Range(sparse), d) :
             /\ \A i \in 1..d : ps[i] \in sparse[i]
             /\ LET emitted == ChainSample(ps, qs, xs, coins)
                IN result' = Result(<<[i \in 1..Len(emitted) |-> i - 1]>>,
                                 [f \in 0..(d - 1) |-> IF f < Len(emitted) THEN emitted[f + 1] ELSE 0],
                                 [rows |-> rows, hashes |-> hashes])
  /\ phase' = "extend"
  /\ UNCHANGED <<server, lens, buffer, tree>>

\* draft_extend_prep: the row the next proposal is taken from.
FaultyTreeSelectIndex(b) == b * Width + result.acc[b] - 1
TreeSelectIndex(b) == b * tree.plan.nd + result.acc[b] - 1

\* The draft extend ends the round: the next one starts from the new lengths.
ExtendTree ==
  /\ phase = "extend"
  /\ lens' = result.lens
  /\ tree' = Nothing /\ result' = Nothing
  /\ phase' = "draft"
  /\ UNCHANGED <<server, buffer>>

TreeInit ==
  /\ server \in Servers
  /\ lens \in [Request(server.bs) -> server.starts]
  /\ buffer = [p \in server.plans |-> {}]
  /\ phase = "draft" /\ tree = Nothing /\ result = Nothing

TreeNext ==
  \/ \E plan \in server.plans, n \in 1..server.bs : DraftTree(plan, n) \/ TrivialTree(plan, n)
  \/ \E plan \in server.plans, param \in Params : DraftSampled(plan, param)
  \/ VerifyTree \/ VerifySampled \/ ExtendTree

TreeSpec == TreeInit /\ [][TreeNext]_treeVars

-----------------------------------------------------------------------------
(* Properties                                                                *)

\* What a request is handed: the front of its block of predictions.
Emission(b) == [i \in 1..result.acc[b] |-> result.predict[b * tree.plan.nd + i - 1]]

\* What greedy verification emits for a request is the target's own
\* continuation of the text, taken as far as it stays on drafted paths and
\* one token further, whatever tree was drafted and whatever an earlier
\* round, of another batch, left in the mask.
GreedyExact ==
  phase = "extend" /\ ~server.sampling =>
    \A b \in Request(tree.n) :
      LET e == Emission(b)
          target == result.asked
      IN /\ \A i \in DOMAIN e :
              LET c == Context(b, SubSeq(e, 1, i - 1))
              IN c \in DOMAIN target /\ target[c] = e[i]
         /\ \A i \in 1..(Len(e) - 1) : SubSeq(e, 1, i) \in tree.paths[b + 1]
         /\ e \notin tree.paths[b + 1]

\* The rows the next round builds on belong to the accepted path: the hidden
\* states at the front are those of its nodes, the row selected for the next
\* proposal is its last, and the bonus token and the new length are those of
\* what was emitted.
FrontExact ==
  phase = "extend" =>
    \A b \in Request(tree.n) :
      LET e == Emission(b)
      IN /\ \A i \in DOMAIN e :
              result.hidden[b * tree.plan.nd + i - 1] = Context(b, SubSeq(e, 1, i - 1))
         /\ result.hidden[TreeSelectIndex(b)] = Context(b, Front(e))
         /\ result.bonus[b] = Last(e)
         /\ result.lens[b] = lens[b] + Len(e)

\* Sampling on the top candidates emits, coin for coin, what the dense form
\* over the whole vocabulary emits, and never a token that the request's
\* top-k and top-p exclude.
SampleExact ==
  phase = "extend" /\ server.sampling =>
    LET d == tree.plan.nd
        ps == [i \in 1..d |-> Target(result.asked.rows[i], TokenId, tree.rows.param.k, tree.rows.param.tp)]
        qs == [i \in 1..(d - 1) |-> tree.rows.qs[i].q]
        coins == [i \in 1..d |-> IF result.asked.hashes[i] = Grid THEN Grid - 1 ELSE result.asked.hashes[i]]
        e == Emission(0)
    IN /\ e = ChainSample(ps, qs, [i \in 1..(d - 1) |-> tree.tokens[i][1]], coins)
       /\ \A i \in DOMAIN e : ps[i][e[i]] > 0

\* Speculation does not change what is sampled: over the draws of the draft
\* and the coins, the token a position emits has the target's distribution.
\* A greedy row of an untruncated draft is left out: its token is not drawn
\* from the q that is handed over.
LawExact ==
  phase = "verify" /\ server.sampling /\ tree.rows # Nothing =>
    \A i \in DOMAIN tree.rows.qs, row \in TargetRows :
      LET param == tree.rows.param
          p == Target(row, TokenId, param.k, param.tp)
          q == tree.rows.qs[i]
      IN server.truncated \/ param.k > 1 =>
           \A y \in TokenId :
             Emitted(q.drawn, q.q, p, y) * Total(p) = p[y] * Total(q.drawn) * Grid * Grid
=============================================================================
