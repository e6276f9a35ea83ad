------------------------------ MODULE MlpSync ------------------------------
(* Forwards of data-parallel ranks. The ranks keep requests of their own but *)
(* run the experts together, so every forward is a collective: each rank     *)
(* pads its batch to a size they reckon alike from the gathered token        *)
(* counts, all of them compute, and each cuts its results back.              *)
(*                                                                           *)
(* A token is <<row, k>>: number k of those that a row of the rank's batch   *)
(* feeds to the forward.                                                     *)
EXTENDS Integers, Sequences, FiniteSets, FiniteSetsExt

CONSTANTS
  DpSize,     \* attention-DP ranks
  AttnTp,     \* attn_tp_size: ranks that share the attention of one of them
  Servers,    \* configurations of a server
  MaxRows,    \* bound: requests of a rank
  MaxExtend,  \* bound: prompt tokens of a request in a prefill
  MaxPrefix   \* bound: cached tokens before them

Ranks == 1..DpSize

\* spec: speculation, of topk branches, steps and width tokens to verify;
\* hybrid: the target has state-space layers; elastic: --enable-elastic-ep with
\* a gather over the world; graphMax: the largest captured prefill, 0 for none;
\* tolerates: prefill_graph_tolerates_sum_len; coordinate: ranks may verify
\* while others prefill.
MlpSyncAssumption ==
  /\ DpSize \in Nat \ {0} /\ AttnTp \in Nat \ {0}
  /\ {MaxRows, MaxExtend, MaxPrefix} \subseteq Nat
  /\ \A sv \in Servers :
       /\ {sv.spec, sv.hybrid, sv.elastic, sv.tolerates, sv.coordinate} \subseteq BOOLEAN
       /\ {sv.topk, sv.steps, sv.width} \subseteq Nat \ {0}
       /\ sv.graphMax \in Nat
       /\ sv.coordinate => sv.spec
ASSUME MlpSyncAssumption

VARIABLES
  server,  \* the configuration
  round,   \* what the scheduler says of this round to every rank
  work,    \* the batch of each rank
  todo,    \* the forwards each rank has yet to run in this round
  pc,      \* "ready", "inside" a forward, "computed", "raised"
  fb,      \* the ForwardBatch of each rank
  out,     \* logits and hidden states of each rank's last forward
  chosen   \* what get_dp_padding_mode answered in this round

vars == <<server, round, work, todo, pc, fb, out, chosen>>

-----------------------------------------------------------------------------
(* Sequences of tokens and rows                                              *)

PadToken == <<0, 0>>
PadRow == 0
Take(s, n) == SubSeq(s, 1, Min({n, Len(s)}))
\* The sum of lengths counts what they count.
Total(lens) == Cardinality(UNION {{i} \X (1..lens[i]) : i \in DOMAIN lens})
Pad(s, size, v) == s \o [i \in 1..(size - Len(s)) |-> v]
FaultyCeilAlign(n, k) == n - (k - (n % k))
CeilAlign(n, k) == ((n + k - 1) \div k) * k
\* The tokens of rows with these many tokens each, row after row.
Start(lens, i) == Total(Take(lens, i - 1))
RowAt(lens, j) == CHOOSE i \in DOMAIN lens : Start(lens, i) < j /\ j <= Start(lens, i + 1)
TokensOf(lens) ==
  [j \in 1..Total(lens) |-> <<RowAt(lens, j), j - Start(lens, RowAt(lens, j))>>]

-----------------------------------------------------------------------------
(* The forwards of a round                                                   *)

NoSpec == [type |-> "NONE", width |-> 0]
\* The draft input, verify input or draft extend input of a forward.
SpecOf(k) ==
  CASE k = "target" -> NoSpec
    [] k = "draft"  -> [type |-> "DRAFT", width |-> server.topk]
    [] k = "verify" -> [type |-> "VERIFY", width |-> server.width]
    [] k = "extend" -> [type |-> "DRAFT_EXTEND", width |-> server.width]
    [] k = "prefill" -> [type |-> "DRAFT_EXTEND", width |-> 1]
IsDraftInput(sp) == sp.type \in {"DRAFT", "DRAFT_EXTEND"}
OnTarget(k) == k \in {"target", "verify"}

Times(k, n) == [i \in 1..n |-> k]
\* The first proposal of a chain needs no forward.
DraftForward == Times("draft", Cardinality({i \in 0..(server.steps - 1) : i # server.steps - 1}))
FaultyDraftForwardIdle == Times("draft", server.steps)
DraftForwardIdle == Times("draft", server.steps - 1)

PrefillBatch == <<"target", "prefill">>
Coordinated(mode) ==
  IF mode = "EXTEND" THEN DraftForwardIdle \o PrefillBatch
  ELSE (IF mode = "IDLE" THEN DraftForwardIdle ELSE DraftForward) \o <<"verify", "extend">>
ForwardsOf(mode, rd) ==
  CASE ~server.spec -> <<"target">>
    [] server.spec /\ rd.extend /\ ~rd.mixed -> PrefillBatch
    [] server.spec /\ (rd.mixed \/ ~rd.extend) -> Coordinated(mode)

\* A rank without requests, and in a coordinated round the idle draft batch of
\* a rank that prefills.
Idles(r, k) == work[r].mode = "IDLE" \/ (k = "draft" /\ work[r].mode = "EXTEND")
\* How many tokens each row of the rank feeds to this forward.
RowLens(r, k) ==
  IF Idles(r, k) THEN <<>>
  ELSE [i \in DOMAIN work[r].len |-> IF k \in {"target", "prefill"} THEN work[r].len[i]
                                     ELSE SpecOf(k).width]
OwnTokens(r, k) == TokensOf(RowLens(r, k))
OwnRows(r, k) == [i \in DOMAIN RowLens(r, k) |-> i]

FaultySyncCount(q) == Len(work[q].len)
\* What the scheduler gathers of a rank: tokens when some rank prefills, and
\* otherwise requests.
SyncCount(q) == IF round.extend THEN Total(work[q].len) ELSE Len(work[q].len)
\* What the coordination plan writes for a forward.
PlanCount(q, k) ==
  CASE work[q].mode = "DECODE" -> Len(work[q].len) * (IF k = "draft" THEN server.topk ELSE server.width)
    [] work[q].mode # "DECODE" -> IF k = "draft" THEN 0 ELSE Total(work[q].len)
Scale(sp) == IF sp = NoSpec THEN 1 ELSE sp.width
FaultyGlobalNumTokens(r, k) ==
  [q \in Ranks |-> IF round.mixed THEN PlanCount(q, k)
                   ELSE SyncCount(q) * (IF Idles(r, k) THEN 1 ELSE Scale(SpecOf(k)))]
\* init_mlp_sync_metadata: every rank scales the counts by the width of its own
\* spec input; a plan has scaled them.
GlobalNumTokens(r, k) ==
  [q \in Ranks |-> IF round.mixed THEN PlanCount(q, k) ELSE SyncCount(q) * Scale(SpecOf(k))]

ModeOf(r, k) ==
  IF Idles(r, k) THEN "IDLE"
  ELSE CASE k = "target" -> work[r].mode
         [] k = "draft" -> "DECODE"
         [] k = "verify" -> "TARGET_VERIFY"
         [] k = "extend" -> "DRAFT_EXTEND_V2"
         [] k = "prefill" -> "EXTEND"

\* ForwardBatch.init_new. The input ids of a draft batch come with each step,
\* so the batch counts none; hid: the hidden states that come with the spec
\* input; top: its top-k rows; real: global_num_token_non_padded; sum:
\* seq_lens_sum.
InitNew(r, k) ==
  LET own == OwnTokens(r, k) rows == OwnRows(r, k) mode == ModeOf(r, k) IN
  [mode |-> mode, orig |-> "NONE", spec |-> SpecOf(k), bs |-> Len(rows), origBs |-> 0, origTokens |-> 0,
   ids |-> IF k = "draft" THEN <<>> ELSE own, pos |-> own, loc |-> own,
   hid |-> CASE k = "draft" -> own
             [] k \in {"prefill", "extend"} -> out[r].hidden
             [] OnTarget(k) -> <<>>,
   hidBackup |-> <<>>, locBackup |-> <<>>,
   rows |-> rows, pool |-> rows, top |-> IF k = "draft" THEN rows ELSE <<>>,
   ext |-> IF mode \in {"EXTEND", "DRAFT_EXTEND_V2"} THEN RowLens(r, k) ELSE <<>>,
   sum |-> Total(RowLens(r, k)) + Len(rows) * work[r].prefix,
   real |-> IF k = "draft" THEN 0 ELSE Len(own),
   counts |-> GlobalNumTokens(r, k), padding |-> "NONE", buffer |-> 0]

\* draft_forward and _draft_forward_idle: the same batch serves every step.
Continues(r) == Head(todo[r]) = "draft" /\ out[r].kind = "draft"
DraftStep(r) ==
  LET b == IF Continues(r) THEN fb[r] ELSE InitNew(r, "draft")
      own == OwnTokens(r, "draft")
  IN IF b.mode = "IDLE" THEN [b EXCEPT !.ids = <<>>, !.loc = <<>>, !.hid = <<>>]
     ELSE [b EXCEPT !.ids = IF Continues(r) THEN out[r].logits ELSE own,
                    !.loc = own,
                    !.hid = IF Continues(r) THEN out[r].hidden ELSE own]
NextBatch(r) == IF Head(todo[r]) = "draft" THEN DraftStep(r) ELSE InitNew(r, Head(todo[r]))

-----------------------------------------------------------------------------
(* prepare_mlp_sync_batch                                                    *)

Aligned(b) == [q \in Ranks |-> CeilAlign(b.counts[q], AttnTp)]
Widest(counts) == Max({counts[q] : q \in Ranks})

\* Uneven counts must be kept where a rank may have joined.
ElasticKeepsCounts(mode, counts) ==
  /\ server.elastic /\ mode = "MAX_LEN"
  /\ Cardinality({counts[q] : q \in Ranks}) > 1
\* Every rank must replay the same captured prefill.
PrefillGraph(counts) ==
  /\ round.graph /\ round.extend
  /\ server.graphMax > 0 /\ Widest(counts) <= server.graphMax
  /\ ~server.tolerates
FaultyPaddingMode(answer, counts) ==
  IF PrefillGraph(counts) THEN "MAX_LEN"
  ELSE IF ElasticKeepsCounts(answer, counts) THEN "SUM_LEN" ELSE answer
PaddingMode(answer, counts) ==
  CASE round.mixed -> "SUM_LEN"
    [] ~round.mixed /\ PrefillGraph(counts) -> "MAX_LEN"
    [] ~round.mixed /\ ~PrefillGraph(counts) ->
         IF ElasticKeepsCounts(answer, counts) THEN "SUM_LEN" ELSE answer

\* The counts of all ranks after padding, and the length of their buffer.
PaddedCounts(mode, counts) == IF mode = "MAX_LEN" THEN [q \in Ranks |-> Widest(counts)] ELSE counts
BufferLen(mode, counts) == IF mode = "MAX_LEN" THEN Widest(counts) * DpSize ELSE Total(counts)

FaultyDummyExtend(b, n) ==
  LET x == [b EXCEPT !.orig = b.mode, !.mode = "EXTEND"] IN
  IF b.rows = <<>>
  THEN [x EXCEPT !.ext = <<n>>, !.rows = <<PadRow>>, !.sum = n, !.bs = 1, !.real = n]
  ELSE [x EXCEPT !.ext = [i \in DOMAIN b.rows |-> 1]]
\* A decode or idle batch becomes an extend batch: one made-up request that
\* fills the rank, masked where it was idle, or one token for every row.
DummyExtend(b, n) ==
  LET x == [b EXCEPT !.orig = b.mode, !.mode = "EXTEND"] IN
  IF b.rows = <<>>
  THEN [x EXCEPT !.ext = <<n>>, !.rows = <<PadRow>>, !.sum = n, !.bs = 1,
                 !.real = IF x.orig = "IDLE" THEN 0 ELSE n]
  ELSE [x EXCEPT !.ext = [i \in DOMAIN b.rows |-> 1]]

FaultyUnscale(n, sp) == n
\* How many rows n tokens are.
Unscale(n, sp) == IF sp = NoSpec THEN n ELSE n \div sp.width
\* The shape of a batch whose rank runs n tokens.
Reshape(b, n, maxLen) ==
  CASE b.mode = "EXTEND" -> b
    [] b.mode # "EXTEND" /\ server.hybrid /\ b.spec.type = "VERIFY" ->
         [b EXCEPT !.orig = IF b.mode = "IDLE" THEN "IDLE" ELSE b.orig,
                   !.mode = IF b.mode = "IDLE" THEN "TARGET_VERIFY" ELSE b.mode,
                   !.bs = Unscale(n, b.spec)]
    [] b.mode # "EXTEND" /\ ~(server.hybrid /\ b.spec.type = "VERIFY") ->
         IF round.extend /\ maxLen THEN DummyExtend(b, n)
         ELSE [b EXCEPT !.bs = Unscale(n, b.spec)]

\* A tensor longer than what it is padded to cannot be padded.
Overflows(b, n) ==
  \/ Max({Len(b.ids), Len(b.pos), Len(b.loc)}) > n
  \/ Max({Len(b.rows), Len(b.pool), Len(b.ext)}) > b.bs
  \/ IsDraftInput(b.spec) /\ (Len(b.top) > b.bs \/ Len(b.hid) > n)

\* _pad_inputs_to_size
PadInputsToSize(b, n) ==
  LET dummyLen == IF b.mode = "DRAFT_EXTEND_V2" THEN b.spec.width ELSE 0
      x == [b EXCEPT !.origTokens = Len(b.pos),
                     !.ids = Pad(@, n, PadToken), !.pos = Pad(@, n, PadToken), !.loc = Pad(@, n, PadToken),
                     !.sum = @ + (b.bs - Len(b.rows)),
                     !.rows = Pad(@, b.bs, PadRow), !.pool = Pad(@, b.bs, PadRow),
                     !.ext = IF @ = <<>> THEN @ ELSE Pad(@, b.bs, dummyLen)]
  IN IF IsDraftInput(b.spec)
     THEN [x EXCEPT !.locBackup = x.loc, !.hidBackup = b.hid,
                    !.top = IF @ = <<>> THEN @ ELSE Pad(@, b.bs, PadRow),
                    !.hid = Pad(@, n, PadToken)]
     ELSE x

Prepare(r) ==
  /\ pc[r] = "ready" /\ todo[r] # <<>>
  /\ LET b == NextBatch(r) aligned == Aligned(b) IN
     \E answer \in {"MAX_LEN", "SUM_LEN"} :
       LET mode == PaddingMode(answer, aligned)
           counts == PaddedCounts(mode, aligned)
           shaped == Reshape([b EXCEPT !.origBs = b.bs], counts[r], mode = "MAX_LEN")
       IN /\ \A c \in chosen : c.counts = aligned => c.answer = answer
          /\ chosen' = chosen \union {[counts |-> aligned, answer |-> answer]}
          /\ IF Overflows(shaped, counts[r])
             THEN pc' = [pc EXCEPT ![r] = "raised"] /\ UNCHANGED fb
             ELSE /\ pc' = [pc EXCEPT ![r] = "inside"]
                  /\ fb' = [fb EXCEPT ![r] = [PadInputsToSize(shaped, counts[r]) EXCEPT
                                                !.counts = counts, !.padding = mode,
                                                !.buffer = BufferLen(mode, aligned)]]
  /\ UNCHANGED <<server, round, work, todo, out>>

\* The share of an attention-TP rank t of the real tokens, by
\* compute_local_num_token_non_padded.
ShardBounds(n, sharded, t) ==
  IF sharded THEN [len |-> n \div AttnTp, offset |-> (n \div AttnTp) * t] ELSE [len |-> n, offset |-> 0]
LocalNonPadded(b, n, sharded, t) ==
  LET s == ShardBounds(n, sharded, t) IN Min({Max({b.real - s.offset, 0}), s.len})

-----------------------------------------------------------------------------
(* The forward itself, and post_forward_mlp_sync_batch                       *)

\* An extend keeps the last token of every request, other forwards every
\* token; the target's hidden states are captured for every token.
LastTokens(b) ==
  [i \in DOMAIN b.pool |-> IF b.ext[i] = 0 THEN PadToken ELSE b.pos[Total(Take(b.ext, i))]]
Results(r) ==
  LET k == Head(todo[r])
      logits == IF fb[r].mode = "EXTEND" THEN LastTokens(fb[r]) ELSE fb[r].pos
  IN [kind |-> k, logits |-> logits, hidden |-> IF OnTarget(k) /\ server.spec THEN fb[r].pos ELSE logits]

Forward ==
  /\ \A r \in Ranks : pc[r] = "inside"
  /\ pc' = [r \in Ranks |-> "computed"]
  /\ out' = [r \in Ranks |-> Results(r)]
  /\ UNCHANGED <<server, round, work, todo, fb, chosen>>

Unpad(b, tokens) == [b EXCEPT !.pos = Take(@, tokens), !.rows = Take(@, b.bs), !.pool = Take(@, b.bs)]
FaultyRestored(b) == [b EXCEPT !.mode = IF b.orig # "NONE" THEN b.orig ELSE @]
\* The mode and batch size from before the padding.
Restored(b) == [b EXCEPT !.mode = IF b.orig # "NONE" THEN b.orig ELSE @, !.bs = b.origBs]
\* The inputs that consumers after the forward use.
SliceInputs(b) ==
  CASE b.spec = NoSpec -> Unpad(b, b.origTokens)
    [] b.spec.type = "DRAFT" /\ b.mode = "DECODE" -> Unpad(b, Len(b.hidBackup))
    [] b.spec.type = "DRAFT_EXTEND" -> IF b.mode = "DRAFT_EXTEND_V2" THEN b
                                       ELSE [b EXCEPT !.ext = Take(@, b.bs)]
    [] b.spec.type \in {"DRAFT", "VERIFY"} /\ b.mode = "IDLE" -> Unpad(b, b.bs)
    [] b.mode = "TARGET_VERIFY" -> b
\* How many rows of logits and hidden states are kept.
KeptResults(b) ==
  CASE b.spec = NoSpec -> IF b.mode = "EXTEND" THEN b.sum ELSE b.bs
    [] b.spec.type = "DRAFT" /\ b.mode = "DECODE" -> Len(b.hidBackup)
    [] b.mode \in {"TARGET_VERIFY", "DRAFT_EXTEND_V2"} -> b.bs * b.spec.width
    [] b.spec # NoSpec /\ b.mode \in {"EXTEND", "IDLE"} -> b.bs
RestoreSpec(b) ==
  IF IsDraftInput(b.spec) THEN [b EXCEPT !.hid = b.hidBackup, !.loc = b.locBackup] ELSE b

PostForward(r) ==
  /\ pc[r] = "computed"
  /\ LET b == Restored(fb[r]) kept == KeptResults(b) IN
     /\ fb' = [fb EXCEPT ![r] = RestoreSpec(SliceInputs(b))]
     /\ out' = [out EXCEPT ![r].logits = Take(@, kept), ![r].hidden = Take(@, kept)]
  /\ pc' = [pc EXCEPT ![r] = "ready"]
  /\ todo' = [todo EXCEPT ![r] = Tail(@)]
  /\ UNCHANGED <<server, round, work, chosen>>

-----------------------------------------------------------------------------
(* The scheduler                                                             *)

Batch(mode, len, prefix) == [mode |-> mode, len |-> len, prefix |-> prefix]
IdleBatch == Batch("IDLE", <<>>, 0)
Batches ==
  {IdleBatch}
  \union {Batch("DECODE", [i \in 1..n |-> 1], 0) : n \in 1..MaxRows}
  \union {Batch("EXTEND", l, p) : l \in UNION {[1..n -> 1..MaxExtend] : n \in 1..MaxRows}, p \in 0..MaxPrefix}
Modes(w) == {w[r].mode : r \in Ranks}

NoBatch == [mode |-> "NONE"]
NoResult == [kind |-> "NONE", logits |-> <<>>, hidden |-> <<>>]
NoRound == [extend |-> FALSE, mixed |-> FALSE, graph |-> FALSE]

\* With speculation a round mixes decoding and prefilling ranks only when it
\* can be coordinated. The ranks meet here: the counts are gathered.
StartRound ==
  /\ \A r \in Ranks : pc[r] = "ready" /\ todo[r] = <<>>
  /\ \E w \in [Ranks -> Batches], graph \in BOOLEAN :
       LET extend == "EXTEND" \in Modes(w)
           heterogeneous == extend /\ "DECODE" \in Modes(w)
           rd == [extend |-> extend, mixed |-> server.spec /\ heterogeneous, graph |-> graph]
       IN /\ Modes(w) # {"IDLE"}
          /\ server.spec /\ heterogeneous => server.coordinate
          /\ graph => extend
          /\ work' = w /\ round' = rd
          /\ todo' = [r \in Ranks |-> ForwardsOf(w[r].mode, rd)]
  /\ fb' = [r \in Ranks |-> NoBatch] /\ out' = [r \in Ranks |-> NoResult] /\ chosen' = {}
  /\ UNCHANGED <<server, pc>>

Init ==
  /\ server \in Servers
  /\ round = NoRound /\ chosen = {}
  /\ work = [r \in Ranks |-> IdleBatch] /\ todo = [r \in Ranks |-> <<>>]
  /\ pc = [r \in Ranks |-> "ready"]
  /\ fb = [r \in Ranks |-> NoBatch] /\ out = [r \in Ranks |-> NoResult]

Next == StartRound \/ Forward \/ \E r \in Ranks : Prepare(r) \/ PostForward(r)
Spec == Init /\ [][Next]_vars

-----------------------------------------------------------------------------
(* Properties                                                                *)

Inside(r) == pc[r] = "inside"
Forwarding(r) == Head(todo[r])

\* Lockstep: the ranks enter the same forwards. Whoever waits inside one is
\* met there by every other rank, on the same model and with as many forwards
\* left, be it idle, decoding or, in a coordinated round, prefilling
\* (_draft_forward_idle, _forward_dp_spec_prefill_coordination).
Lockstep ==
  \A r, q \in Ranks : Inside(r) =>
    /\ todo[q] # <<>>
    /\ Inside(q) => /\ Len(todo[r]) = Len(todo[q])
                    /\ OnTarget(Forwarding(r)) <=> OnTarget(Forwarding(q))

\* SameGeometry: ranks that pad on their own, each by its own view of the
\* counts, agree on the padding mode, on everybody's length and on the buffer;
\* the tensors of each have the length that the others reckon with, which
\* attention-TP ranks can split evenly; a prefill that may replay a captured
\* graph is an extend of one shape everywhere (prepare_mlp_sync_batch).
SameGeometry ==
  \A r \in Ranks : Inside(r) =>
    /\ \A q \in Ranks : Inside(q) =>
         /\ fb[r].counts = fb[q].counts
         /\ fb[r].padding = fb[q].padding /\ fb[r].buffer = fb[q].buffer
         /\ Len(fb[r].ids) = fb[q].counts[r]
    /\ {Len(fb[r].pos), Len(fb[r].loc)} = {Len(fb[r].ids)}
    /\ Len(fb[r].ids) % AttnTp = 0
    /\ fb[r].buffer = Total(fb[r].counts)
    /\ round.extend /\ fb[r].padding = "MAX_LEN" =>
         fb[r].mode = "EXTEND" /\ \A q \in Ranks : fb[r].counts[q] = fb[r].counts[r]
    /\ PrefillGraph(fb[r].counts) /\ ~round.mixed => fb[r].padding = "MAX_LEN"

\* RowsMatchTokens: in a padded batch, token, position, cache slot and hidden
\* state at one place belong together; each row owns as many tokens as its
\* kind of forward has, in order, and what no row owns is padding, so a rank
\* neither loses a request nor computes one for somebody else, and a verify
\* batch keeps its fan-out. No tensor outgrows what it is padded to, over the
\* steps that share one batch and for hidden states that one forward hands to
\* the next, where padding would raise (_pad_inputs_to_size).
RowsMatchTokens ==
  \A r \in Ranks :
    /\ pc[r] # "raised"
    /\ Inside(r) =>
         LET b == fb[r] k == Forwarding(r)
             width == [i \in DOMAIN b.pool |->
                         IF b.ext # <<>> THEN b.ext[i] ELSE IF b.spec = NoSpec THEN 1 ELSE b.spec.width]
         IN /\ b.ids = Pad(OwnTokens(r, k), Len(b.ids), PadToken)
            /\ b.pos = b.ids /\ b.loc = b.ids
            /\ IsDraftInput(b.spec) => b.hid = b.ids
            /\ b.rows = b.pool /\ Len(b.pool) = b.bs
            /\ Total(width) <= Len(b.ids)
            /\ \A i \in DOMAIN b.pool, j \in DOMAIN b.ids :
                 Start(width, i) < j /\ j <= Start(width, i + 1) => b.ids[j][1] = b.pool[i]
            /\ \A j \in DOMAIN b.ids : j > Total(width) => b.ids[j] = PadToken

\* MaskExact: the count that masks padding out of the experts covers, on every
\* attention-TP rank, the real tokens of its slice and no made-up one, whether
\* the sequence is sharded or not. Draft steps are left out: see CountReal.
MaskExact ==
  \A r \in Ranks : Inside(r) /\ Forwarding(r) # "draft" =>
    \A sharded \in BOOLEAN, t \in 0..(AttnTp - 1) :
      LET s == ShardBounds(Len(fb[r].ids), sharded, t)
          real == LocalNonPadded(fb[r], Len(fb[r].ids), sharded, t)
      IN \A j \in 1..s.len : j <= real <=> fb[r].ids[s.offset + j] # PadToken

\* OwnResults: what is left after a forward is the rank's own, in order and
\* without padding: its logits, the hidden states of draft, verify and extend
\* forwards, and the inputs that the next draft step or the sampler uses
\* again. Hidden states of a target prefill may keep padding behind.
OwnResults ==
  \A r \in Ranks : pc[r] = "ready" /\ out[r].kind # "NONE" =>
    LET k == out[r].kind
        own == OwnTokens(r, k)
        lens == RowLens(r, k)
        last == [i \in DOMAIN lens |-> <<i, lens[i]>>]
        rowwise == k = "prefill" \/ (k = "target" /\ work[r].mode = "EXTEND")
    IN /\ out[r].logits = IF rowwise THEN last ELSE own
       /\ k # "target" => out[r].hidden = out[r].logits
       /\ k = "target" /\ server.spec =>
            out[r].hidden = Pad(own, Len(out[r].hidden), PadToken)
       /\ k \in {"target", "draft"} =>
            fb[r].pos = own /\ fb[r].rows = OwnRows(r, k) /\ fb[r].pool = OwnRows(r, k)
       /\ fb[r].mode = ModeOf(r, k) /\ fb[r].bs = Len(lens)

\* CountReal: the global count of a batch is that of its real tokens, as its
\* declaration says ("the real-token count across the attn-TP group").
CountReal ==
  \A r \in Ranks : Inside(r) =>
    fb[r].real = Cardinality({j \in DOMAIN fb[r].ids : fb[r].ids[j] # PadToken})
=============================================================================
