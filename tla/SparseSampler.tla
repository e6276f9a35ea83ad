--------------------------- MODULE SparseSampler ---------------------------
(* Sampling on the fast path: a two-stage top-k over rows of the vocabulary, *)
(* the draft's truncated proposal, and rejection sampling of a chain on the  *)
(* top candidates alone.                                                     *)
(*                                                                           *)
(* A row of logits gives every token a natural number, its softmax weight:   *)
(* order is kept, and 0 stands for a probability that rounds to 0.  A        *)
(* distribution is a function from tokens to weights, never normalised.  A   *)
(* coin c stands for c / Grid, a top-p of tp for tp / Tenths.                *)
EXTENDS Integers, Sequences, FiniteSets, FiniteSetsExt

CONSTANTS
  Vocab,      \* the vocabulary has tokens 0 .. Vocab - 1
  Segments,   \* segments of a row in the first stage of the top-k
  Extra,      \* candidates taken past the largest top_k, for ties
  DraftK,     \* candidates of a truncated draft proposal
  Grid,       \* coins are multiples of 1 / Grid
  Tenths      \* a top-p is a multiple of 1 / Tenths

SamplerAssumption ==
  /\ {Vocab, Segments, Extra, DraftK, Grid, Tenths} \subseteq Nat \ {0}
  /\ Vocab % Segments = 0
ASSUME SamplerAssumption

TokenId == 0..(Vocab - 1)
Mass(w, S) ==
  LET sum[n \in 0..Vocab] ==
        IF n = 0 THEN 0 ELSE sum[n - 1] + (IF n - 1 \in S THEN w[n - 1] ELSE 0)
  IN sum[Vocab]
Total(w) == Mass(w, TokenId)
Only(w, S) == [t \in TokenId |-> IF t \in S THEN w[t] ELSE 0]

-----------------------------------------------------------------------------
(* topk_rows                                                                 *)

\* radix_select: the k-th largest key.
Threshold(S, row, k) ==
  CHOOSE v \in {row[t] : t \in S} :
    /\ Cardinality({t \in S : row[t] > v}) < k
    /\ k <= Cardinality({t \in S : row[t] >= v})

\* What one block keeps: all that is above the threshold and, of the tokens
\* at it, whichever raise the counter first.
Chosen(S, row, k) ==
  LET v == Threshold(S, row, k)
      above == {t \in S : row[t] > v}
  IN {above \cup equal : equal \in kSubset(k - Cardinality(above), {t \in S : row[t] = v})}

Segment(b) == {t \in TokenId : t \div (Vocab \div Segments) = b}

\* The candidates the first stage may leave: k of every segment.
StageOne(row, k) ==
  LET kept(b) == Chosen(Segment(b), row, k)
      segments == 0..(Segments - 1)
  IN {UNION {f[b] : b \in segments} :
        f \in {g \in [segments -> UNION {kept(b) : b \in segments}] :
                \A b \in segments : g[b] \in kept(b)}}

TopKRows(row, k) == UNION {Chosen(found, row, k) : found \in StageOne(row, k)}

-----------------------------------------------------------------------------
(* The distribution the target is sampled from                               *)

\* top-k: everything that ties with the k-th largest is kept.
FaultyKept(S, row, k) == {t \in S : row[t] > Threshold(S, row, k)}
Kept(S, row, k) == {t \in S : row[t] >= Threshold(S, row, k)}

\* top-p: the running sum in descending order picks a pivot, and everything
\* that ties with the pivot is kept.
Nucleus(w, tp) ==
  LET reach == {v \in {w[t] : t \in TokenId} :
                  v > 0 /\ Mass(w, {t \in TokenId : w[t] >= v}) * Tenths >= tp * Total(w)}
  IN IF reach = {} THEN w ELSE Only(w, {t \in TokenId : w[t] >= Max(reach)})

\* Over the candidates of a row; over all of TokenId it is the dense form.
Target(row, candidates, k, tp) == Nucleus(Only(row, Kept(candidates, row, k)), tp)

\* sparse_verify_topk: how many candidates every row of the batch gets.
Candidates(top_ks) == Max(top_ks) + Extra
SparseTargets(row, top_ks, k, tp) ==
  {Target(row, S, k, tp) : S \in TopKRows(row, Candidates(top_ks))}

-----------------------------------------------------------------------------
(* The draft's proposal                                                      *)

Before(row, s, t) == row[s] > row[t] \/ (row[s] = row[t] /\ s < t)

\* trunc_sample: the first k of the sorted candidates, then the prefix up to
\* and with the token that crosses the top-p.
TruncSample(row, candidates, k, tp) ==
  LET kk == Min({Max({k, 1}), DraftK})
      first == {t \in candidates :
                  Cardinality({s \in candidates : Before(row, s, t)}) < kk}
      sumBefore(t) == Mass(row, {s \in first : Before(row, s, t)})
  IN Only(row, {t \in first : sumBefore(t) * Tenths < tp * Mass(row, first)})

\* _fast_draft_proposal: what is drawn from, and the q handed to verify.
\* Without truncation a greedy row takes the first maximum whatever q says.
Greedy(row) == {t \in TokenId : \A s \in TokenId \ {t} : Before(row, t, s)}
FaultyDraftProposals(row, k, tp, truncated) ==
  {[drawn |-> TruncSample(row, S, k, tp), q |-> row] : S \in TopKRows(row, DraftK)}
DraftProposals(row, k, tp, truncated) ==
  IF truncated
  THEN {[drawn |-> w, q |-> w] : w \in {TruncSample(row, S, k, tp) : S \in TopKRows(row, DraftK)}}
  ELSE {[drawn |-> IF k <= 1 THEN Only(row, Greedy(row)) ELSE row, q |-> row]}

-----------------------------------------------------------------------------
(* Rejection sampling of a chain                                             *)

\* _seeded_verify_coins: a hash may round to 1, which the clamp takes back.
FaultyCoin(h) == h
Coin(h) == Min({h, Grid - 1})

\* accept if coin * q < p
FaultyAccepts(coin, p, q, x) == coin * q[x] * Total(p) <= p[x] * Total(q) * Grid
Accepts(coin, p, q, x) == coin * q[x] * Total(p) < p[x] * Total(q) * Grid

FaultyResidual(p, q) == [t \in TokenId |-> IF p[t] > q[t] THEN p[t] - q[t] ELSE 0]
Residual(p, q) ==
  [t \in TokenId |-> Max({p[t] * Total(q) - q[t] * Total(p), 0})]

\* The first token, in the order of token ids, at which the sum passes the
\* coin; the last id of the vocabulary if none does.
Final(w, coin) ==
  LET passed == {t \in TokenId : w[t] > 0 /\ Mass(w, 0..t) * Grid > coin * Total(w)}
  IN IF passed = {} THEN Vocab - 1 ELSE Min(passed)

\* spec_topk_chain: ps and qs are the rows of the nodes, xs[i] the token that
\* node i - 1 proposes; coins[i] judges xs[i], and the last of them draws the
\* final token.  The tokens emitted.
ChainSample(ps, qs, xs, coins) ==
  LET d == Len(ps)
      num == Max({n \in 0..(d - 1) : \A i \in 1..n : Accepts(coins[i], ps[i], qs[i], xs[i])})
      last == IF num < d - 1 THEN Residual(ps[num + 1], qs[num + 1]) ELSE ps[d]
  IN SubSeq(xs, 1, num) \o <<Final(last, coins[d])>>

-----------------------------------------------------------------------------
\* What one position emits as its first token, times Total(drawn) * Grid^2.
Emitted(drawn, q, p, y) ==
  LET coins == 0..(Grid - 1)
      accepted(x) == Cardinality({c \in coins : Accepts(c, p, q, x)})
      final == Cardinality({c \in coins : Final(Residual(p, q), c) = y})
  IN Total([x \in TokenId |->
             drawn[x] * ((IF x = y THEN accepted(x) * Grid ELSE 0)
                           + (Grid - accepted(x)) * final)])
=============================================================================
