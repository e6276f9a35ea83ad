------------------------------ MODULE SpecLoop ------------------------------
(***************************************************************************)
(* The EAGLE worker: one forward of a batch is draft, verify and draft     *)
(* extend, or a prefill followed by the draft model's prefill.             *)
(*                                                                         *)
(* Two models share a request's positions.  The target's KV at position p  *)
(* is made from the token at p.  The draft model's KV at p is made from    *)
(* the token at p + 1 and the target's hidden state at p, so it always     *)
(* runs one token ahead of the target.  Draft steps extend it with guesses;*)
(* the draft extend after each verify rewrites it from the verified window.*)
(*                                                                         *)
(* Tokens are named by what produced them, so that a wrong token, hidden   *)
(* state or proposal distribution is visible.  The worker is one thread on *)
(* one stream; verification is by rejection sampling of a chain (topk 1),  *)
(* and the draft extend is never skipped (its flag is off by default).     *)
(***************************************************************************)
EXTENDS Integers, Sequences, FiniteSets

CONSTANTS
  Rows,       \* request pool rows, numbered
  StepChoices,\* speculative_num_steps the adaptive controller switches between
  StackSteps, \* the steps _draft_probs_out was last allocated for; 0: none is
  MaxPrompt,  \* bound: prompt length
  MaxLen,     \* bound: committed length
  MaxClock    \* bound: admissions and forwards

ASSUME SpecLoopAssumption ==
  /\ Rows \subseteq Nat /\ IsFiniteSet(Rows)
  /\ StepChoices \subseteq Nat /\ \E k \in StepChoices : \A j \in StepChoices : j <= k
  /\ StackSteps \in Nat
  /\ MaxPrompt \in Nat \ {0} /\ MaxLen \in Nat /\ MaxClock \in Nat \ {0}

VARIABLES
  out,     \* out[r]: r's tokens: its prompt, then its output up to the bonus token
  len,     \* len[r]: batch.seq_lens, the tokens whose KV is committed
  target,  \* target[r]: target KV by position
  draft,   \* draft[r]: draft KV by position
  seed,    \* seed[r]: r's row of EagleDraftInput
  pc,      \* "schedule", "verify" or "extend"
  steps,   \* speculative_num_steps of this forward
  cand,    \* cand[r]: the tokens to verify: bonus token, drafts
  predict, \* predict[r]: what the target answers to each of them
  accept,  \* accept[r]: accept_lens, bonus included
  probs,   \* verify_input.draft_probs: in a buffer, or tensors of its own
  handed,  \* handed[r]: the proposals eagle_sample read
  stack,   \* _draft_probs_out
  pool,    \* the draft graph's output block in the shared graph memory pool
  clock    \* admissions and forwards so far

vars == <<out, len, target, draft, seed, pc, steps, cand, predict, accept, probs,
          handed, stack, pool, clock>>

MaxSteps  == CHOOSE k \in StepChoices : \A j \in StepChoices : j <= k
Positions == 0..MaxLen + MaxSteps + 1

\* A token, by what chose it, when and for whom.  A proposal distribution is
\* named by the token drawn from it.
Token(kind, r, i) == <<kind, clock, r, i>>
NoToken == <<"none", 0, 0, 0>>

\* The token at a position of r.
At(r, p) == out[r][p + 1]

\* Draft KV: the token after the position, and the token whose hidden state the
\* target computed there (none for a hidden state of the draft model).
Entry(next, hid) == [next |-> next, hid |-> hid]
NoEntry == Entry(NoToken, NoToken)

\* A draft input: the draft row it was computed in, the first drafted token and
\* the proposal it was drawn from.
Seed(row, tok) == [row |-> row, tok |-> tok, q |-> tok]
NoSeed == [row |-> NoEntry, tok |-> NoToken, q |-> NoToken]

None  == [r \in Rows |-> <<>>]
Own(val) == [in |-> "own", val |-> val]
Ready == {r \in Rows : seed[r] # NoSeed}
Batch == {r \in Rows : cand[r] # <<>>}

-----------------------------------------------------------------------------
(* Pieces of the code.  Faulty... is a plausible mistake in the definition  *)
(* below it; nothing else refers to it.                                    *)

\* _eagle_prefill_tail_tokens: what follows the last token of a chunk of n, the
\* next prompt token when the prompt goes on.
FaultyTailToken(r, n, sampled) == sampled
TailToken(r, n, sampled) ==
  IF len[r] + n < Len(out[r]) THEN At(r, len[r] + n) ELSE sampled

\* Whether a prefill of n tokens finishes r's prompt: only then is its sampled
\* token kept and its draft input used.
Done(r, n) == len[r] + n = Len(out[r])

\* assign_extend_cache_locs_uniform: where verify row j goes.
FaultyVerifyLoc(r, j) == len[r] + j - 1
VerifyLoc(r, j) == len[r] + j

\* Where draft extend row j goes: batch.seq_lens is the length before this
\* forward's tokens until the forward ends.
FaultyExtendLoc(r, j) == len[r] + j
ExtendLoc(r, j) == len[r] - accept[r] + j

\* select_index within the rows of r: the last accepted one.
FaultySelectIndex(r) == accept[r]
SelectIndex(r) == accept[r] - 1

\* The draft graph's output survives the target forward: it is cloned, unless
\* the graph stacked it into the current _draft_probs_out, outside the pool.
FaultyBoundary(k, val) == [in |-> IF k = StackSteps THEN "stack" ELSE "pool", val |-> None]
Boundary(k, val) == IF k = StackSteps THEN [in |-> "stack", val |-> None] ELSE Own(val)

-----------------------------------------------------------------------------
(* Prefill.                                                                *)

\* A request with a prompt of n tokens takes a row; its KV slots keep what they
\* held.
Admit(r, n) ==
  /\ pc = "schedule" /\ out[r] = <<>> /\ clock < MaxClock
  /\ out' = [out EXCEPT ![r] = [i \in 1..n |-> Token("prompt", r, i)]]
  /\ clock' = clock + 1
  /\ UNCHANGED <<len, target, draft, seed, pc, steps, cand, predict, accept, probs,
                 handed, stack, pool>>

\* A prefill of n[r] tokens of each row r: prompts, or chunks of them (at most
\* one batch row may be left unfinished), and in a mixed batch the running rows
\* with their bonus token.  The draft model prefills the same rows, rotated by
\* one.
Prefill(n) ==
  LET R == DOMAIN n
      Given(r) == Token("target", r, 0)
      Chunk(r) == len[r]..len[r] + n[r] - 1
      Rotated(r, p) == IF p = len[r] + n[r] - 1 THEN TailToken(r, n[r], Given(r)) ELSE At(r, p + 1)
      Row(r, p) == Entry(Rotated(r, p), At(r, p))
  IN
  /\ pc = "schedule" /\ clock < MaxClock
  /\ R # {} /\ \E r \in R : r \notin Ready
  /\ R \cap Ready \in {{}, Ready}
  /\ \A r \in R : len[r] + n[r] <= Len(out[r]) /\ len[r] + n[r] <= MaxLen
  /\ \A r, s \in R : ~Done(r, n[r]) /\ ~Done(s, n[s]) => r = s
  /\ target' = [r \in Rows |-> IF r \notin R THEN target[r] ELSE
                  [p \in Positions |-> IF p \in Chunk(r) THEN At(r, p) ELSE target[r][p]]]
  /\ draft' = [r \in Rows |-> IF r \notin R THEN draft[r] ELSE
                 [p \in Positions |-> IF p \in Chunk(r) THEN Row(r, p) ELSE draft[r][p]]]
  /\ len' = [r \in Rows |-> IF r \in R THEN len[r] + n[r] ELSE len[r]]
  /\ out' = [r \in Rows |-> IF r \in R /\ Done(r, n[r]) THEN Append(out[r], Given(r)) ELSE out[r]]
  /\ seed' = [r \in Rows |-> IF r \in R /\ Done(r, n[r])
                THEN Seed(Row(r, len[r] + n[r] - 1), Token("draft", r, 0)) ELSE seed[r]]
  /\ pool' = None
  /\ clock' = clock + 1
  /\ UNCHANGED <<pc, steps, cand, predict, accept, probs, handed, stack>>

-----------------------------------------------------------------------------
(* Decode: forward_batch_generation of the running rows.                   *)

\* The chain a draft of k steps proposes for r.
Chain(r, k) == [i \in 1..k |-> IF i = 1 THEN seed[r].tok ELSE Token("draft", r, i - 1)]

\* The adaptive controller picks k steps.  None: verify the bonus token alone.
Trivial(k) ==
  /\ pc = "schedule" /\ Ready # {} /\ clock < MaxClock
  /\ k = 0 /\ \A r \in Ready : len[r] + 1 <= MaxLen
  /\ steps' = 0
  /\ cand' = [r \in Rows |-> IF r \in Ready THEN <<At(r, len[r])>> ELSE <<>>]
  /\ probs' = Own(None)
  /\ pc' = "verify"
  /\ UNCHANGED <<out, len, target, draft, seed, predict, accept, handed, stack, pool, clock>>

\* draft: k - 1 decode forwards of the draft model past the committed tokens,
\* replayed from the graph (captured for more than one step) or eager.
Draft(k, graph) ==
  LET val == [r \in Rows |-> IF r \in Ready THEN [Chain(r, k) EXCEPT ![1] = seed[r].q] ELSE <<>>]
      Guess(r, i) == Entry(Chain(r, k)[i + 1], IF i = 0 THEN seed[r].row.hid ELSE NoToken)
  IN
  /\ pc = "schedule" /\ Ready # {} /\ clock < MaxClock
  /\ k > 0 /\ \A r \in Ready : len[r] + k + 1 <= MaxLen
  /\ graph => k > 1
  /\ steps' = k
  /\ draft' = [r \in Rows |-> IF r \notin Ready THEN draft[r] ELSE
                 [p \in Positions |-> IF p - len[r] \in 0..k - 2
                                      THEN Guess(r, p - len[r]) ELSE draft[r][p]]]
  /\ cand' = [r \in Rows |-> IF r \in Ready THEN <<At(r, len[r])>> \o Chain(r, k) ELSE <<>>]
  /\ stack' = IF graph /\ k = StackSteps THEN val ELSE stack
  /\ pool' = IF graph /\ k # StackSteps THEN val ELSE pool
  /\ probs' = IF graph THEN Boundary(k, val) ELSE Own(val)
  /\ pc' = "verify"
  /\ UNCHANGED <<out, len, target, seed, predict, accept, handed, clock>>

\* The target runs the window; its graph recycles the pool before eagle_sample
\* reads the proposals.  a[r] drafts of r are accepted and the target's own token
\* follows them; what predict holds after it only reaches uncommitted positions.
Verify(a) ==
  LET answer(r) == [j \in 1..steps + 1 |->
                      IF j <= a[r] THEN cand[r][j + 1] ELSE Token("target", r, j)]
  IN
  /\ pc = "verify"
  /\ \A r \in Rows \ Batch : a[r] = 0
  /\ target' = [r \in Rows |-> IF r \notin Batch THEN target[r] ELSE
                  [p \in Positions |->
                     IF \E j \in 0..steps : p = VerifyLoc(r, j)
                     THEN cand[r][(CHOOSE j \in 0..steps : p = VerifyLoc(r, j)) + 1]
                     ELSE target[r][p]]]
  /\ pool' = None
  /\ handed' = CASE probs.in = "stack" -> stack
                 [] probs.in = "pool"  -> pool'
                 [] OTHER              -> probs.val
  /\ predict' = [r \in Rows |-> IF r \in Batch THEN answer(r) ELSE <<>>]
  /\ accept' = [r \in Rows |-> IF r \in Batch THEN a[r] + 1 ELSE 0]
  /\ len' = [r \in Rows |-> IF r \in Batch THEN len[r] + a[r] + 1 ELSE len[r]]
  /\ out' = [r \in Rows |-> IF r \in Batch THEN out[r] \o SubSeq(answer(r), 1, a[r] + 1)
                                           ELSE out[r]]
  /\ pc' = "extend"
  /\ UNCHANGED <<draft, seed, steps, cand, probs, stack, clock>>

\* _draft_extend_for_decode: the draft model over the whole window, with the
\* target's tokens and hidden states; the last accepted row seeds the next draft.
Extend ==
  LET Row(r, j) == Entry(predict[r][j + 1], cand[r][j + 1]) IN
  /\ pc = "extend"
  /\ draft' = [r \in Rows |-> IF r \notin Batch THEN draft[r] ELSE
                 [p \in Positions |->
                    IF \E j \in 0..steps : p = ExtendLoc(r, j)
                    THEN Row(r, CHOOSE j \in 0..steps : p = ExtendLoc(r, j))
                    ELSE draft[r][p]]]
  /\ seed' = [r \in Rows |-> IF r \notin Batch THEN seed[r] ELSE
                Seed(IF SelectIndex(r) <= steps THEN Row(r, SelectIndex(r)) ELSE NoEntry,
                     Token("draft", r, 0))]
  /\ cand' = None /\ predict' = None /\ accept' = [r \in Rows |-> 0]
  /\ handed' = None /\ probs' = Own(None)
  /\ pool' = None
  /\ clock' = clock + 1
  /\ pc' = "schedule"
  /\ UNCHANGED <<out, len, target, steps, stack>>

\* A request ends or is retracted; nothing is cleared.
Release(r) ==
  /\ pc = "schedule" /\ out[r] # <<>>
  /\ out' = [out EXCEPT ![r] = <<>>]
  /\ len' = [len EXCEPT ![r] = 0]
  /\ seed' = [seed EXCEPT ![r] = NoSeed]
  /\ UNCHANGED <<target, draft, pc, steps, cand, predict, accept, probs, handed,
                 stack, pool, clock>>

-----------------------------------------------------------------------------
Init ==
  /\ out = None /\ len = [r \in Rows |-> 0]
  /\ target = [r \in Rows |-> [p \in Positions |-> NoToken]]
  /\ draft = [r \in Rows |-> [p \in Positions |-> NoEntry]]
  /\ seed = [r \in Rows |-> NoSeed]
  /\ pc = "schedule" /\ steps = 0
  /\ cand = None /\ predict = None /\ accept = [r \in Rows |-> 0]
  /\ probs = Own(None) /\ handed = None
  /\ stack = None /\ pool = None
  /\ clock = 1

Chunks == UNION {[R -> 1..MaxPrompt] : R \in SUBSET Rows}

Next ==
  \/ \E r \in Rows : Release(r) \/ \E n \in 1..MaxPrompt : Admit(r, n)
  \/ \E n \in Chunks : Prefill(n)
  \/ \E k \in StepChoices : Trivial(k) \/ \E graph \in BOOLEAN : Draft(k, graph)
  \/ \E a \in [Rows -> 0..steps] : Verify(a)
  \/ Extend

Spec == Init /\ [][Next]_vars

-----------------------------------------------------------------------------
(* Correctness.                                                            *)

\* Types.  A row is ready exactly when all but its last token is committed.
Tokens == {"none", "prompt", "target", "draft"} \X (0..MaxClock) \X (Rows \cup {0})
            \X (0..MaxPrompt + MaxSteps + 1)
Entries == [next : Tokens, hid : Tokens]
TypeOK ==
  /\ \A r \in Rows : /\ \A i \in DOMAIN out[r] : out[r][i] \in Tokens
                     /\ \A p \in Positions : target[r][p] \in Tokens /\ draft[r][p] \in Entries
                     /\ len[r] \in Nat /\ (out[r] # <<>> => len[r] < Len(out[r]))
                     /\ r \in Ready => len[r] + 1 = Len(out[r])
                     /\ accept[r] \in 0..steps + 1
  /\ seed \in [Rows -> [row : Entries, tok : Tokens, q : Tokens]]
  /\ pc \in {"schedule", "verify", "extend"} /\ steps \in StepChoices \cup {0}
  /\ clock \in 1..MaxClock

\* The target's KV holds the committed tokens, whatever was speculated and
\* rejected at their positions, and whoever had the row before.
TargetExact ==
  \A r \in Rows : \A p \in 0..len[r] - 1 : target[r][p] = At(r, p)

\* Between forwards, the draft model's KV of the committed tokens is the one made
\* from the target's hidden states and the tokens that do follow: no guess of a
\* draft step, no rejected token and no chunk boundary is left in it.
DraftExact ==
  pc # "extend" => \A r \in Rows : \A p \in 0..len[r] - 1 :
    draft[r][p] = Entry(At(r, p + 1), At(r, p))

\* The next chain starts from the row of the last committed token.
SeedExact ==
  pc = "schedule" => \A r \in Ready :
    seed[r].row = Entry(At(r, len[r]), At(r, len[r] - 1))

\* Rejection sampling is given, for every draft token, the distribution that
\* token was drawn from.
ProposalExact ==
  pc = "extend" => \A r \in Batch : \A i \in 1..steps : handed[r] # <<>> /\ handed[r][i] = cand[r][i + 1]
=============================================================================
