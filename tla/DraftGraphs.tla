---------------------------- MODULE DraftGraphs ----------------------------
(* The draft worker's forwards as the CUDA graph runners replay them: static *)
(* inputs that all runners share, batches padded to a captured size, and     *)
(* what one forward leaves behind for a later one outside the draft input:   *)
(* the sparse selection of the draft extend, the draft head's candidates     *)
(* and the hidden states of the screened target head.                        *)
(*                                                                           *)
(* An entry [id, len] stands for a value computed for request id from its    *)
(* first len tokens: a seed, a selection, a row of logits or a candidate.    *)
EXTENDS Integers, Sequences, FiniteSets, FiniteSetsExt, Functions

CONSTANTS
  Servers,    \* configurations of a server
  Rows,       \* rows of the request pool; row 0 is the reserved one
  HeadRows,   \* 8: rows up to which both heads screen
  MaxPrompt,  \* bound: tokens of a prompt
  MaxLen,     \* bound: tokens of a request
  MaxId       \* bound: requests

\* buckets: the batch sizes captured for each of its step counts;
\* share: the model asks for index sharing; adaptive: the step count varies;
\* rejection: rejection sampling, with truncated proposals.
GraphsAssumption ==
  /\ Rows \subseteq Nat \ {0} /\ IsFiniteSet(Rows)
  /\ {HeadRows, MaxPrompt, MaxLen, MaxId} \subseteq Nat
  /\ \A sv \in Servers :
       /\ {sv.share, sv.adaptive, sv.rejection} \subseteq BOOLEAN
       /\ DOMAIN sv.buckets \in SUBSET (0..MaxLen) \ {{}}
       /\ \A s \in DOMAIN sv.buckets : sv.buckets[s] \subseteq 1..Cardinality(Rows)
       /\ sv.adaptive \/ Cardinality(DOMAIN sv.buckets) = 1
ASSUME GraphsAssumption

VARIABLES
  server,   \* the configuration
  ids,      \* requests so far
  id, len,  \* the request of a pool row, and its tokens with KV entries
  seed,     \* the draft input its last forward left
  static,   \* the runners' input buffers
  table,    \* QSAMTPSharedSparseIndices: the frozen selection of each row
  cand,     \* _draft_cand: a candidate per row of logits, or nothing
  head,     \* _HEAD: the screening flags, and the rows of the last eager call
  view,     \* history: what the last forwards read
  up        \* the worker has not raised

vars == <<server, ids, id, len, seed, static, table, cand, head, view, up>>

Nobody == [id |-> 0, len |-> 0]
MaxBs == Cardinality(Rows)
StepCounts(sv) == DOMAIN sv.buckets
Width(s) == s + 1
Batches(S) == {b \in UNION {[1..n -> S] : n \in 1..Cardinality(S)} : IsInjective(b)}

\* Row number i of a buffer becomes new[i] as far as new goes.
Put(buffer, new) == [i \in DOMAIN buffer |-> IF i \in DOMAIN new THEN new[i] ELSE buffer[i]]
\* The rows that b lists become what g has for them.
Scatter(f, b, g) ==
  [r \in DOMAIN f |-> IF \E i \in DOMAIN b : b[i] = r
                      THEN g[CHOOSE i \in DOMAIN b : b[i] = r] ELSE f[r]]

-----------------------------------------------------------------------------
(* Runners                                                                   *)

Fits(s, n) == \E k \in server.buckets[s] : n <= k
PadToBucket(s, n) == Min({k \in server.buckets[s] : n <= k})
\* The draft graph runs the forwards after the first proposal, so there is
\* none for fewer than two steps.
DraftGraph(s, n) == s > 1 /\ Fits(s, n)
ExtendGraph(s, n) == Fits(s, n)

Blank == [i \in 1..MaxBs |-> 0]
\* slots: req_pool_indices and seq_lens; seeds: top-k, hidden states, draft
\* probabilities; accepts: accept counts. Buffers are shared between runners
\* by name and shape: those below that differ in shape or are excluded from
\* sharing are kept per step count.
DraftInit(sv) ==
  [slots |-> Blank,
   seeds |-> [i \in 1..MaxBs |-> Nobody],
   locs |-> [s \in StepCounts(sv) |-> [k \in 1..(MaxBs * s) |-> <<0, 0>>]]]
ExtendInit(sv) ==
  [slots |-> Blank,
   windows |-> [s \in StepCounts(sv) |-> Blank],
   accepts |-> [i \in 1..MaxBs |-> Width(Max(StepCounts(sv)))],
   select |-> [s \in StepCounts(sv) |-> [i \in 1..MaxBs |-> i * Width(s) - 1]]]
StaticInit(sv) ==
  LET d == DraftInit(sv)
      e == ExtendInit(sv)
  IN [slots |-> d.slots, seeds |-> d.seeds, locs |-> d.locs,
      windows |-> e.windows, accepts |-> e.accepts, select |-> e.select]

\* The cache slots of a draft, flat: row after row, its steps in order.
DraftLocs(s, b) == [k \in 1..(Len(b) * s) |-> <<b[(k - 1) \div s + 1], ((k - 1) % s) + 1>>]
FaultyStepLocs(locs, n, s, i) == [j \in 1..s |-> locs[(j - 1) * n + i]]
\* Those of row i of n, by step.
StepLocs(locs, n, s, i) == [j \in 1..s |-> locs[(i - 1) * s + j]]

FaultyDraftReset(st, s) ==
  [st EXCEPT !.locs[s] = DraftInit(server).locs[s], !.seeds = DraftInit(server).seeds]
DraftReset(st, s) ==
  [st EXCEPT !.slots = Blank, !.locs[s] = DraftInit(server).locs[s],
             !.seeds = DraftInit(server).seeds]
DraftExecute(st, s, b) ==
  LET clean == IF PadToBucket(s, Len(b)) = Len(b) THEN st ELSE DraftReset(st, s)
  IN [clean EXCEPT !.slots = Put(@, b), !.locs[s] = Put(@, DraftLocs(s, b)),
                   !.seeds = Put(@, [i \in DOMAIN b |-> seed[b[i]]])]

FaultyExtendReset(st, s) ==
  [st EXCEPT !.windows[s] = Blank, !.accepts = [i \in 1..MaxBs |-> Width(s)]]
ExtendReset(st, s) ==
  [st EXCEPT !.slots = Blank, !.windows[s] = Blank, !.accepts = [i \in 1..MaxBs |-> Width(s)]]
SelectIndex(s, acc) == [i \in DOMAIN acc |-> (i - 1) * Width(s) + acc[i] - 1]
FaultyCopySelect(select, s, picks) == [t \in DOMAIN select |-> Put(select[t], picks)]
\* Copies the rows to gather into this runner's own buffer.
CopySelect(select, s, picks) == [select EXCEPT ![s] = Put(@, picks)]
ExtendExecute(st, s, b, acc) ==
  LET clean == IF PadToBucket(s, Len(b)) = Len(b) THEN st ELSE ExtendReset(st, s)
  IN [clean EXCEPT !.slots = Put(@, b), !.windows[s] = Put(@, b), !.accepts = Put(@, acc),
                   !.select = CopySelect(@, s, SelectIndex(s, acc))]

\* What the captured graphs read, and what an eager forward does.
DraftInputs(st, s, b) ==
  IF DraftGraph(s, Len(b))
  THEN LET n == PadToBucket(s, Len(b))
       IN [i \in 1..n |-> [row |-> st.slots[i], locs |-> StepLocs(st.locs[s], n, s, i),
                           seed |-> st.seeds[i]]]
  ELSE [i \in DOMAIN b |-> [row |-> b[i], locs |-> StepLocs(DraftLocs(s, b), Len(b), s, i),
                            seed |-> seed[b[i]]]]
ExtendInputs(st, s, b, acc) ==
  IF ExtendGraph(s, Len(b))
  THEN [i \in 1..PadToBucket(s, Len(b)) |->
          [row |-> st.slots[i], loc |-> st.windows[s][i], accept |-> st.accepts[i],
           pick |-> st.select[s][i]]]
  ELSE [i \in DOMAIN b |-> [row |-> b[i], loc |-> b[i], accept |-> acc[i],
                            pick |-> SelectIndex(s, acc)[i]]]

\* The token row number x of a draft extend computes from: row i of the
\* batch has the rows from (i - 1) * Width on; what follows is stale.
WindowRow(s, b, x) ==
  LET i == x \div Width(s) + 1
  IN IF i \in DOMAIN b THEN [id |-> id[b[i]], len |-> len[b[i]] + (x % Width(s)) + 1] ELSE Nobody

-----------------------------------------------------------------------------
(* Shared sparse indices                                                     *)

Shares == server.share /\ ~server.adaptive /\ \A s \in StepCounts(server) : s > 1

TableInit == [r \in Rows \cup {0} |-> [id |-> 0, len |-> 1]]
\* Captures with pool row 0 go to the trash row, which nobody reads.
Capture(tab, rows, entries) == [Scatter(tab, rows, entries) EXCEPT ![0] = tab[0]]

FaultyAnchorRow(s, i, accept) == i * Width(s) - 1
AnchorRow(s, i, accept) == i * Width(s) - 1 - (Width(s) - accept)
CaptureExtend(tab, s, b, inputs) ==
  IF ~Shares THEN tab
  ELSE Capture(tab, [i \in DOMAIN inputs |-> inputs[i].row],
               [i \in DOMAIN inputs |-> WindowRow(s, b, AnchorRow(s, i, inputs[i].accept))])

FaultyCapturePrefill(tab, b, entries) == tab
\* The plain extend after a prefill is the other one that captures.
CapturePrefill(tab, b, entries) == IF Shares THEN Capture(tab, b, entries) ELSE tab

TailWidth(s) == s + 1
ReuseTail(s, captured, position) ==
  {p \in captured..(captured + TailWidth(s) - 1) : p <= position}
\* The selection, and its tail at each draft forward; seqLen is the row's.
Lookup(tab, s, row, seqLen) ==
  [frozen |-> tab[row], tails |-> [j \in 1..(s - 1) |-> ReuseTail(s, tab[row].len, seqLen + j - 1)]]

-----------------------------------------------------------------------------
(* Candidates of the draft head                                              *)

\* A call of the draft head on logits for the entries: it fills the slot
\* when it screens and clears it when not.
RunDraftHead(entries) == IF Len(entries) <= HeadRows THEN entries ELSE <<>>
Restore(inputs, n, entries) == IF Len(inputs) = n /\ n <= HeadRows THEN entries ELSE <<>>
FaultyTake(slot, logits) == SubSeq(slot, 1, Len(logits))
\* The candidates a proposal from these logits uses; <<>> when it searches
\* the logits itself.
Take(slot, logits) == IF Len(slot) = Len(logits) THEN slot ELSE <<>>

-----------------------------------------------------------------------------
(* The screened target head                                                  *)

HeadInit == [rows |-> 0, dense |-> TRUE, active |-> FALSE]
\* narrow: every request of the batch is sampled from 56 tokens or fewer.
BeginScreen(h, narrow) == IF narrow THEN [h EXCEPT !.dense = FALSE, !.active = TRUE] ELSE h
FaultyEndScreen(h) == [h EXCEPT !.active = FALSE]
EndScreen(h) == IF h.active THEN [h EXCEPT !.dense = TRUE, !.active = FALSE] ELSE h
\* An eager call is remembered; in a graph, the capture was.
RunHead(h, m, graph) == IF ~graph /\ m <= HeadRows THEN [h EXCEPT !.rows = m] ELSE h
Screened(h, m) == ~h.dense /\ m <= HeadRows

HeadGraphs ==
  {g \in [step : StepCounts(server), bs : 1..MaxBs] :
     g.bs \in server.buckets[g.step] /\ g.bs * Width(g.step) <= HeadRows}
FaultyFixupSource(h, s, n, graph) ==
  IF graph THEN "other" ELSE IF h.rows = n * Width(s) THEN "own" ELSE "raise"
\* Whose hidden states the dense logits of a batch of n are computed from.
FixupSource(h, s, n, graph) ==
  LET m == n * Width(s)
      captured == {g \in HeadGraphs : g.bs * Width(g.step) = m}
  IN IF captured # {}
     THEN IF graph /\ PadToBucket(s, n) = n /\ captured = {[step |-> s, bs |-> n]}
          THEN "own" ELSE "other"
     ELSE IF h.rows # m THEN "raise" ELSE IF graph THEN "other" ELSE "own"

\* sparse_verify_topk: the sampler that needs the best candidates only.
Sparse(s, narrow) == server.rejection /\ narrow /\ Width(s) \in 2..8
\* Head and sampler of one verify: the head afterwards, and what the sampler
\* read: candidates, dense logits of its "own" batch or an "other" one, or
\* logits of which only "part" was computed.
VerifyHead(h, s, n, narrow) ==
  LET graph == Fits(s, n)
      m == (IF graph THEN PadToBucket(s, n) ELSE n) * Width(s)
      run == RunHead(BeginScreen(h, narrow), m, graph)
  IN [head |-> EndScreen(run),
      read |-> IF Sparse(s, narrow) THEN "candidates"
               ELSE IF run.active THEN FixupSource(run, s, n, graph)
               ELSE IF Screened(run, m) THEN "part" ELSE "own"]

-----------------------------------------------------------------------------
(* The worker                                                                *)

Idle == [kind |-> "none"]
Init ==
  /\ server \in Servers
  /\ ids = 0
  /\ id = [r \in Rows |-> 0] /\ len = [r \in Rows |-> 0]
  /\ seed = [r \in Rows |-> Nobody]
  /\ static = StaticInit(server)
  /\ table = TableInit
  /\ cand = <<>>
  /\ head = HeadInit
  /\ view = Idle
  /\ up = TRUE

\* A prefill batch: whole prompts of new requests and the next token of
\* running ones. Neither model replays a decode graph for it.
PrefillBatch(b, n) ==
  LET new == {i \in DOMAIN b : id[b[i]] = 0}
      owner == [i \in DOMAIN b |-> IF i \in new THEN ids + Cardinality({j \in new : j <= i})
                                   ELSE id[b[i]]]
      entries == [i \in DOMAIN b |-> [id |-> owner[i], len |-> len[b[i]] + n[i]]]
  IN /\ up /\ new # {}
     /\ ids + Cardinality(new) <= MaxId
     /\ \A i \in DOMAIN b : entries[i].len <= MaxLen /\ (i \in new \/ n[i] = 1)
     /\ ids' = ids + Cardinality(new)
     /\ id' = Scatter(id, b, owner)
     /\ len' = Scatter(len, b, [i \in DOMAIN b |-> entries[i].len])
     /\ seed' = Scatter(seed, b, entries)
     /\ table' = CapturePrefill(table, b, entries)
     /\ cand' = IF server.rejection THEN <<>> ELSE RunDraftHead(entries)
     /\ head' = RunHead(head, Len(b), FALSE)
     /\ view' = [kind |-> "prefill", logits |-> entries,
                 taken |-> IF server.rejection THEN Take(RunDraftHead(entries), entries) ELSE <<>>,
                 read |-> IF Screened(head, Len(b)) THEN "part" ELSE "own"]
     /\ UNCHANGED <<server, static, up>>
Prefill ==
  \E b \in Batches(Rows) : \E n \in [DOMAIN b -> 1..MaxPrompt] : PrefillBatch(b, n)

\* The rows of the draft's last forward, if it ran eagerly.
DraftCand(s, b) ==
  IF s <= 1 \/ DraftGraph(s, Len(b)) THEN cand
  ELSE IF server.rejection THEN <<>>
  ELSE RunDraftHead([i \in DOMAIN b |-> [id |-> id[b[i]], len |-> len[b[i]] + s - 1]])

\* A decode batch at s steps: draft, verify, draft extend; acc are the
\* tokens each row accepts. A verify whose fix-up raises ends the worker.
DecodeBatch(b, s, narrow, acc) ==
  LET n == Len(b)
      drafted == IF DraftGraph(s, n) THEN DraftExecute(static, s, b) ELSE static
      extended == IF ExtendGraph(s, n) THEN ExtendExecute(drafted, s, b, acc) ELSE drafted
      draftIn == IF s > 1 THEN DraftInputs(drafted, s, b) ELSE <<>>
      extendIn == ExtendInputs(extended, s, b, acc)
      logits == [i \in DOMAIN b |-> WindowRow(s, b, extendIn[i].pick)]
      all == [x \in 1..(n * Width(s)) |-> WindowRow(s, b, x - 1)]
      slot == IF ExtendGraph(s, n) THEN Restore(extendIn, n, logits) ELSE RunDraftHead(all)
      verified == VerifyHead(head, s, n, narrow)
  IN /\ up
     /\ \A i \in DOMAIN b : len[b[i]] + Width(s) <= MaxLen
     /\ head' = verified.head
     /\ up' = (verified.read # "raise")
     /\ len' = Scatter(len, b, [i \in DOMAIN b |-> len[b[i]] + acc[i]])
     /\ seed' = Scatter(seed, b, logits)
     /\ static' = extended
     /\ table' = CaptureExtend(table, s, b, extendIn)
     /\ cand' = IF server.rejection THEN <<>> ELSE slot
     /\ view' = [kind |-> "decode", steps |-> s, acc |-> acc,
                 batch |-> [i \in DOMAIN b |-> [row |-> b[i], id |-> id[b[i]], len |-> len[b[i]]]],
                 draft |-> draftIn, extend |-> extendIn,
                 shared |-> IF Shares
                            THEN [i \in DOMAIN b |-> Lookup(table, s, draftIn[i].row, len[b[i]])]
                            ELSE <<>>,
                 logits |-> logits,
                 taken |-> IF server.rejection THEN Take(slot, logits) ELSE <<>>,
                 read |-> verified.read]
     /\ UNCHANGED <<server, ids, id>>
Decode ==
  \E b \in Batches({r \in Rows : id[r] > 0}), s \in StepCounts(server), narrow \in BOOLEAN :
  \E acc \in [DOMAIN b -> 1..Width(s)] : DecodeBatch(b, s, narrow, acc)

\* A request ends, finished or retracted; nothing of its row is cleared.
Release ==
  \E r \in Rows :
    /\ up /\ id[r] > 0
    /\ id' = [id EXCEPT ![r] = 0]
    /\ len' = [len EXCEPT ![r] = 0]
    /\ seed' = [seed EXCEPT ![r] = Nobody]
    /\ view' = Idle
    /\ UNCHANGED <<server, ids, static, table, cand, head, up>>

Next == Prefill \/ Decode \/ Release
Spec == Init /\ [][Next]_vars

-----------------------------------------------------------------------------
(* Properties                                                                *)

\* Whatever ran before in the shared buffers, by whichever runner: the rows
\* of a batch read and write what an eager forward of it would, each with
\* the seed its own last forward left, and the padding rows of a replay
\* have pool row and cache slots 0 and gather a row that exists.
ReplayExact ==
  view.kind = "decode" =>
    LET n == Len(view.batch) IN
    /\ \A i \in DOMAIN view.draft :
         LET d == view.draft[i] IN
         IF i <= n THEN /\ d.row = view.batch[i].row
                        /\ \A j \in DOMAIN d.locs : d.locs[j] = <<view.batch[i].row, j>>
                        /\ d.seed = [id |-> view.batch[i].id, len |-> view.batch[i].len]
         ELSE d.row = 0 /\ \A j \in DOMAIN d.locs : d.locs[j] = <<0, 0>>
    /\ \A i \in DOMAIN view.extend :
         LET e == view.extend[i] IN
         IF i <= n THEN /\ e.row = view.batch[i].row /\ e.loc = view.batch[i].row
                        /\ e.accept = view.acc[i]
                        /\ view.logits[i] = [id |-> view.batch[i].id,
                                             len |-> view.batch[i].len + view.acc[i]]
         ELSE e.row = 0 /\ e.loc = 0 /\ e.pick \in 0..(Len(view.extend) * Width(view.steps) - 1)

\* Draft forwards that reuse a selection use the one of their own request
\* at its committed length, and attend besides it exactly the tokens drafted
\* since: none is missing, none lies in the future.
SharedExact ==
  view.kind = "decode" =>
    \A i \in DOMAIN view.shared :
      LET own == view.batch[i] IN
      /\ view.shared[i].frozen = [id |-> own.id, len |-> own.len]
      /\ \A j \in DOMAIN view.shared[i].tails :
           view.shared[i].tails[j] = own.len..(own.len + j - 1)

Single ==
  /\ Cardinality(StepCounts(server)) = 1
  /\ \A s \in StepCounts(server), n \in 1..MaxBs : Fits(s, n) => n \in server.buckets[s]
\* What calls leave each other in the globals of qwenfast.py belongs to the
\* same forward: candidates are those of the logits the proposal is drawn
\* from, and a sampler that reads every logit reads logits that were all
\* computed, from the hidden states of its own batch. The last holds for
\* servers with one window width that capture every batch size they replay.
HandoffExact ==
  view.kind # "none" =>
    /\ view.taken \in {<<>>, view.logits}
    /\ view.read # "part"
    /\ Single => view.read # "other"
=============================================================================
