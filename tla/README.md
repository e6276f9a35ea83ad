# TLA+ models of the Qwen speculative serving overlays

This directory holds a formal model of the stateful core of the serving overlays under `src/serve/overlays/sglang`:
the caches, pools and relays that let a server speculate (draft, verify, reject), overlap the scheduler with the GPU and replay
CUDA graphs, without ever letting a rejected token, a padding row or a previous request leak into a result; and the loader with which
its ranks share a processed checkpoint on disk. Numerics (attention, MoE, quantisation) are not modelled: the models follow
*who wrote what where, and who reads it*.

Paths below are relative to `src/serve/overlays/sglang/srt/` unless they start with `src/`.

## Inventory

| Part | State it keeps | Operations | Hard behaviour |
|---|---|---|---|
| QSA compressed-key cache (`layers/attention/qsa/*`, `mem_cache/qsa_kv_pool.py`, `layers/attention/qwen_sparse_attn_backend.py`) | per-request ring of raw index keys; compressed entries, one per group of `ratio` tokens | store keys, compress completed groups, lay out rows for eager and graph forwards | rejected tokens were stored and compressed already; ring wraps; slot reuse without clearing; padding rows |
| FutureMap relay (`managers/overlap_utils.py`) | pool-indexed buffers, recorded stashes, published lengths, events, confidence ring | stash, resolve, flush, publish, resolve lengths / confidences | elision by object identity, buffers overwritten by graph replays, filter and merge between two forwards, three streams |
| GDN/Mamba slots (`mem_cache/memory_pool.py`) | main slot and ping-pong track slots per request, device mapping, prefix-cache slots | alloc, donate, free, clear, copy | donation while forwards are in flight, retraction, slot leaks and double frees |
| What recurrent state holds (`kernels/ops/mamba/mamba_state_scatter_triton.py`, `src/serve/qwenfast/gdn_replay.cu`, `layers/attention/linear/gdn_backend.py`, `models/qwen4_exp.py`) | GDN state, conv window, n-gram context and short conv state per slot; per-step snapshots or a replay log per batch row | prefill with tracked chunks, decode, verify of chains and trees, commit, copy on a cached prefix | index arithmetic at interval crossings; replay against snapshots; scratch sized for another draft width; graph padding |
| KV token pools (`mem_cache/memory_pool.py`) | per slot several buffers (values, scales, indices, compressed keys), per request row others | write, compact an accepted path, copy to the host at retraction, load into other slots | a class that inherits an operation and forgets a buffer; kernels with a bounded slot list |
| EAGLE worker (`speculative/eagle_worker_v2.py`, `eagle_worker_common.py`, `eagle_utils.py`) | draft inputs, KV reservations, adaptive step count | draft, verify, publish, draft extend, skip, adapt | publish before draft extend; stubs of skipped extends; buffers shared by graphs |
| Trees and samplers (`speculative/eagle_utils.py`, `spec_utils.py`, `spec_fused.py`, `qwenfast.py`, `src/serve/qwenfast/qf_topk.cu`, `qf_verify.cu`) | verify input, mask buffer of each backend | beam search, selection, tree building, greedy and sampling verify, compaction | index arithmetic between flat arrays; masks left from another batch; ties and truncation in sampling |
| Draft graph runners (`speculative/eagle_draft*_cuda_graph_runner.py`) | static inputs and outputs of captured graphs, shared between runners | capture, replay with padding | stale static inputs, padded rows, buffers that runners of other widths also fill |
| Shared MTP sparse indices (`QSAMTPSharedSparseIndices`) | frozen top-k per layer and pool row | capture at prefill and draft extend, lookup at draft steps | stale rows after reuse |
| Screened heads (`qwenfast.py`) | candidates of the last draft head call, flags and hidden states of the last target head call | screen, hand over, fix up | a global read by another forward than the one that wrote it |
| Presharded loader (`model_loader/loader.py`) | directory of tensor files, manifests, plan, `READY` | first load and dump by all ranks, load and verification | launches killed at any step, ranks lost, barriers that return although a peer is gone |
| Data-parallel batch padding (`model_executor/forward_batch_info.py`, the coordinated rounds of `speculative/eagle_worker_v2.py`) | the forward batch of each rank, the gathered token counts, the padding mode | count, pad, reshape idle and decoding ranks, mask, forward together, cut back | ranks that must reach the same shapes and the same forwards without talking again; one batch padded and restored over several draft steps |
| Confidence relay (`managers/overlap_utils.py`) | ring of confidences | publish, resolve | its only consumer, the DSpark worker, is not in this repository: not modelled |
| Layers, quantisation, other loaders and CUDA kernels, scripts, benches, results | – | – | numerics or I/O: not modelled |

How they interact: the scheduler resolves a batch's draft inputs from the FutureMap, the worker drafts (draft decode
steps write the draft model's QSA pool), the target verifies a window of `draft_tokens` rows per request (writing the target's
pool and the GDN intermediates), commits the accepted prefix (GDN commit), publishes the new lengths, runs the draft extend
over the same window and stashes the next draft inputs. The scheduler launches the next forward before it has seen
the result of this one.

What makes each part correct: the rows of every forward attend exactly their own history (QSA); every row is given
the inputs its own last forward left for it (FutureMap); every state slot has one owner and holds the state
of exactly the tokens it is said to hold (GDN); all buffers of a KV slot hold the same token (pools); a request's draft and target caches agree on the
committed prefix (EAGLE loop); what verification emits is what the target alone would, or has the target's distribution (trees and samplers); a replayed graph
reads what the eager forward would (runners); data-parallel ranks enter the same forwards with the same shapes and get back their own rows (padding); and a launch serves its own weights or says that it cannot (loader).

`PROJECT.json` lists the hazards in the code line by line with the properties that cover them.

## Modules

| Module | Models | Kind |
|---|---|---|
| `QSARing` | the pending ring and the compressed entries of one QSA pool, under admission, prefill chunks, draft steps, windows with rejection, padding rows, release | specification |
| `MambaSlots` | the slots of recurrent state: ping-pong tracking, the commit after verify, donation, finish, retraction, eviction, flush, under results processed late | specification |
| `MambaSlotsProofs` | types and conservation of slots; the invariant of what results in flight will teach the scheduler, and the proofs that main, tracked and cached states are exact | TLAPS |
| `RecurrentState` | what those slots hold, and their sibling side states, under chunks, decodes, verifies of four kinds of server, prefix reuse and retraction | specification |
| `RecurrentStateProofs` | the inductive invariant of `RecurrentState` and the proofs of its three properties | TLAPS |
| `KVPools` | the buffers of every pool class under prefill, tree drafts, compaction, retraction with host copies | specification |
| `PoolProofs` | the inductive invariants of `QSARing` and of `KVPools` and the proofs of their four and three properties | TLAPS |
| `SpecLoop` | one forward of the EAGLE worker after another: prefill, draft, verify, draft extend, and what they leave in the KV of both models | specification |
| `SparseSampler` | two-stage top-k, truncated proposals, chain rejection sampling on the top candidates, as operators | operators |
| `TreeVerify` | rounds of tree speculation: beams, selection, flat arrays and mask, greedy and sampling acceptance, compaction; uses `SparseSampler` | specification |
| `DraftGraphs` | the draft forwards as graph runners replay them: shared static inputs, padding, the shared sparse selection, the handoffs of the screened heads | specification |
| `DraftGraphsProofs` | the inductive invariant of `DraftGraphs` and the proofs of its three properties | TLAPS |
| `SpecRelay` | what the relay of draft inputs promises: a row is given once, unchanged, what its last forward left | abstract specification |
| `FutureMap` | the relay with stash elision, flush rules, graph outputs, filter, merge, mixed prefill; refines `SpecRelay` | specification |
| `LensRelay` | the relay of sequence lengths: the published buffer, its pinned host copy, and the three CUDA streams and one event between them | specification |
| `RelayProofs` | the inductive invariants of `FutureMap` and `LensRelay`, the proof that `FutureMap` implements `SpecRelay`, and the proofs of both modules' properties | TLAPS |
| `SpeculationProofs` | the inductive invariants of `SpecLoop` and of `TreeVerify`, the facts about `SparseSampler` they rest on, and the proofs of their five and four properties | TLAPS |
| `Presharded` | the ranks of successive launches that dump and load a checkpoint in one directory, with crashes, lost ranks and damage, under fairness | specification |
| `PreshardedProofs` | the inductive invariant of `Presharded` and the proofs of its three safety properties | TLAPS |
| `MlpSync` | the forwards of a round on several data-parallel ranks, and the padding with which they meet in each | specification |
| `MlpSyncProofs` | the inductive invariant of `MlpSync` and the proofs of its five properties | TLAPS |
| `MC<module>` + `.cfg` | an instance of each specification for TLC (two for `QSARing`, `Presharded` and `MlpSync`) | model checking |

The specifications are joined by what they hand over. `SpecLoop` is the worker's round over positions; `QSARing`, `KVPools`, `RecurrentState` and `DraftGraphs` each
look at one kind of memory under the same rounds; `TreeVerify` opens the verification that `SpecLoop` leaves to a free choice of accepted tokens; `FutureMap` and
`LensRelay` are the relay between two rounds, and `MambaSlots` what the scheduler learns of them, late. `FutureMap` is shown to implement
`SpecRelay`, and that contract is what `SpecLoop` takes for granted when a batch starts from the seeds of its rows.

### QSARing

A key is identified by *(request slot, forward, position)*, and a compressed entry by the keys pooled into it, as the
unbounded history oracle of `src/bench/test_qsa_ring.py` does; a stale or foreign key is therefore always visible.
`ring` is `qsa_key_state_buffer`, `comp` the compressed buffer addressed by (request, group), `len`/`tok` the committed tokens,
`spec` the tokens drafted past them, and `view` is history: what the rows of the last forward are entitled to see.

* `Admit` takes a free slot with a prefix of whole pages out of the prefix cache; the ring is not cleared.
* `Extend` is one prefill chunk. The write plan compresses the groups it completes from the chunk itself; the ring gets only the tail.
* `DraftStep` is one draft decode forward, one row per request past what was drafted before. The deployment shares indices between
  draft steps and skips most of this work; the model keeps the general path.
* `Window` is target verify, draft extend (both `Width` rows) or decode (one row) for a batch, with a nondeterministic number of
  accepted rows per request and padding rows whose store lands before, after or instead of the real ones in the same ring row.
* `Release` frees a slot in any phase (finish and retraction); nothing is cleared.

All stores of a layer precede its reads of the ring (the compress kernel is launched after the store on the same stream),
so a forward is one action.

### FutureMap and SpecRelay

A value is *(version, row)*: the forward that computed it and the row it is for. Tensor identity, which the elision tests
with `is`, is an id. A forward of kind `graph` leaves extras in a static output that the next replay overwrites; `eager` ones own their
tensors; `skipped` ones (a payload without everything the buffers hold) cannot be deferred. Top-k, hidden state and
proposal distribution travel together as `extra`. The scheduler's `filter_batch` and `merge_batch` are not in this repository;
they are modelled from how `src/serve/qwenfast/test_spec_relay.py` drives the relay and marked external.
`given` is what the current forward was handed. The refinement maps `relay[r]` to what waits for row `r`: the last recorded stash that holds
it, else the buffers, and nothing while the row is free or in a forward.

### TreeVerify and SparseSampler

A committed token of request `b` at position `c` is `<<b, c>>`; a drafted one is a word. Scores are abstracted to the rankings they may give: every order of the
expansions in which a parent beats its children and siblings come sorted. The target is *any* function from the set of (position, token) cells a row sees to a word, so a wrong mask, position
or link shows as a prediction for a context that is nobody's.

* `DraftTree` is `draft_forward`, `organize_draft_results` and `build_eagle_verify_input` with the kernel that turns parent numbers into mask, positions and links; the constant tables of a chain are the
  case `topk = 1` of it. `TrivialTree` is the zero-step input, `DraftSampled` a chain drawn from a proposal.
* `VerifyTree` is greedy acceptance, `VerifySampled` the fast chain sampler; both end in the compaction to the front and `post_verify`. `ExtendTree` starts the next round.
* `buffer` is the mask buffer that attention backends own: a batch that fits it starts from what an earlier one left.

`SparseSampler` holds the arithmetic: a row of logits gives every token a natural weight (order is kept), coins are multiples of `1 / Grid`, and the rows of the instance are chosen so that
every probability that is compared is a multiple of the grid (`CoinsFit`). That ties past the k-th candidate are at most `Extra` (`TiesFit`) is the assumption of the code's own comment (`eagle_utils.py`, above `sparse_verify_topk`).
The instance asserts both. `RowAssumption` is what the code enforces: a softmax row has a positive weight, `top_k` is at least 1, and `topk_rows` runs only on rows whose segments hold as many tokens as it returns. A backend that ignores the mask attends
causally, so `TreeAssumption` allows it chains only. Penalties, grammars, the broadcast between
tensor-parallel ranks and simulated acceptance are not modelled, and servers that sample have at least one step.

### DraftGraphs

An entry *(request, length)* stands for what was computed for a request from its first tokens: a seed, a sparse selection, a row of logits, a candidate. `static` are the input buffers that the
draft and the draft-extend runners of all step counts share by name and shape, `table` the frozen selections by pool row, `cand` and `head` the module globals of `qwenfast.py`; `view` is history: what
the last forwards read.

* `Decode` is one round at a step count: draft (graph or eager, padded to a captured size, with the resets that padding brings), verify with the screened head and its sampler, draft extend, and the
  captures they make. `Prefill` and `Release` change who owns a row; nothing of the row is cleared.
* A verify whose dense fix-up raises ends the worker (`up`), as the code's exception does.

Sampling parameters and the ids and hidden states of padding rows are stale after a replay and harmless; they, data-parallel gathering, the seeds of another sparse attention, the canary and the
pipeline-parallel tail are left out. `HeadRows` stands for the 8 rows up to which heads screen.

### Presharded

The disk is `ready`, `plan` (`checksum.json`), `file` and `manifest`; what survives a launch is exactly that. A tensor is named by its content, for which its checksum stands; a file by the
ranks that hold its tensors and the one that writes it. `at[r]` is where rank `r` is, `phase` and `arrived` its place among the six barriers of the dump.

* `Launch`, `Check`, `Load`: all ranks look for `READY` and a plan of their config, load their tensors and verify them, if asked.
* `LoadCheckpoint`, `WriteManifest`, `OpenPlan`/`WritePlan`, `OpenFile`/`WriteFile`, `FilesWritten`, `Publish` are the dump; opening a file truncates it, so a crash may fall between.
* `PassBarrier` returns when every rank has arrived, *or is gone*: `_world_barrier` swallows the error.
* `Crash` (the launch is killed), `Reap`, `Fail` (one rank ends alone), `Rot` (a tensor is damaged between launches).

Two servers started on one directory at once are not modelled, and neither is a checkpoint exchanged for another under the same cache key, which does not look at weights.

### LensRelay

The other half of `FutureMap`: `publish`, `resolve_seq_lens_cpu` and `resolve_mixed_spec_tails`. The scheduler thread only *enqueues*; `queue[s]` holds
what stream `s` has been given and not executed, and `Run(s)` executes its head. A length is named by the forward that published it; `want[k]` is what
forward `k` should see.

* `Resolve` gathers the lengths of the running batch on the schedule stream behind `publish_ready` and, if some backend needs them on the host (`NeedsCpu`),
  copies the buffer to pinned memory on a private stream; `Synchronized` is the return of that stream's `synchronize()` and the read of the pinned rows. With `Debug` the
  consumed rows are poisoned, at the gather or after the copy.
* `ResolveMixed` is the same for the decode tails of a prefill batch, on the forward stream and always with a host copy.
* `Launch` enqueues the forward behind all that the schedule stream was given, its publish, and the record of `publish_ready` right behind that.
* `Prefill` and `Release` are the scheduler's: a forward whose lengths come from the request, and the end of a request whose forward may still be running.

Outside this repository, and modelled from how this code is called: the order of a CUDA stream, that an event wait refers to the last record
made before it, and the overlap loop, which prepares forward `k` only when it has the result of forward `k - 2`.

### MambaSlots

The content of a slot is *(request, number of tokens)*: the request that computed it and the prefix it is the state of. `kv[r]` is `req.kv` (main
slot, `mamba_ping_pong_track_buffer`, `mamba_next_track_idx`, `mamba_last_track_idx`, `mamba_last_track_seqlen`, `mamba_cow_src_index`), `mapping`
the device copy of the buffers that the kernels index, `cached` what the prefix cache says of the slots it holds.

* `Admit` is `alloc` for one request, from nothing or from a cached prefix; clearing or copying the main slot is deferred to the first `Prefill`, as in the code.
* `Verify` is a target verify with its commit: `fused_commit_track_indices` (`CommitStep`, `TrackStep`) and the scatter of the two chosen states into
  the main and the track slot. The GPU runs forwards in launch order, so a forward's effects on slots are those of its launch; what comes late is the
  scheduler's *knowledge*: the result waits in `flight` (up to two of them with overlap) until `Process`, which alone moves `len`, `tracked`, `last` and `next`.
* `Donate`, `Finish`, `Clear` are `donate_mamba_ping_pong_slot`, `free_mamba_cache` (with and without an index to keep) and `clear`. They may happen
  with forwards in flight, for the very request that those forwards still write.
* `Turned`, `Process`, `Evict` and `Pick` stand for the scheduler, the radix cache and the slot allocator, which are outside this repository; they are modelled
  from the fields of `req.kv` this code reads, and marked external. Which of the free slots the allocator gives does not matter to the properties, so `Pick` is some fixed one.

`IntervalAssumption` (`2 * Width <= Interval`) says that two consecutive windows do not both cross a multiple of the interval. With a scheduler that lags one result
behind, a second crossing would be snapshot into the slot of the first, before the scheduler has turned the buffer. The served configuration has interval 64 and windows of 4
(`src/serve/run-server.sh`).

### MlpSync

With data parallelism each rank keeps requests of its own, but all ranks run the experts together: every forward is a collective. The scheduler gathers one count per rank once a round; from
there each rank works out on its own which forwards it runs, how it and the others are padded, and which of the results are its own. A token is *(row, number)*, so a row that is lost, doubled, padded over or computed
for somebody else is visible. `todo[r]` are the forwards that rank `r` has yet to run, `fb[r]` is its `ForwardBatch`.

* `StartRound` is where the ranks meet; it fixes everybody's batch and the sequence of forwards, idle draft steps included. A round in which some ranks prefill while others verify is `mixed`, and only servers that
  coordinate have one.
* `Prepare` is `ForwardBatch.init_new` with `prepare_mlp_sync_batch`: counts scaled by the width of the spec input, aligned to the attention-TP size, the padding mode, idle and decoding batches turned into made-up extends, the tensors
  padded. The batch of a draft step is the one the step before left.
* `Forward` happens when all ranks are inside; `PostForward` is `post_forward_mlp_sync_batch`.

`get_dp_padding_mode` is outside this repository: a free choice that is the same for the same counts. So are the scaling of the counts and the coordination plan, which are modelled from what the code here
does with them. Left out: draft batches with counts of their own (`draft_global_num_tokens`), two-batch overlap, the idle rows materialised on HIP, a gathered group with a single count, and rounds whose metadata was planned ahead.
One step count is assumed: with adaptive counts each rank would pick by its own batch size (`eagle_worker_v2.py:1433`), and whether that is allowed under data parallelism is decided outside this repository. The hidden states of a
target prefill are cut at `seq_lens_sum`, cached prefix included (`forward_batch_info.py:2038`), so padding may stay behind them; `OwnResults` allows it, since both forwards of a prefill pad alike.

### RecurrentState

A GDN state is named by the sequence of tokens folded into it, a conv window and a side state (n-gram context, short conv) by their last tokens, so a state
with a rejected, missing, repeated or foreign token is visible. `slot[b][s]` are the buffers of the pool, `index` the device mapping from pool row to slot, `scratch`
the memory into which a verify computes one state per draft, sized by the largest window and addressed by batch row.

* `Admit`, `Extend`: a request takes a main and a track slot, from nothing or from a cached prefix that is copied; a batch of chunks, padded to the longest, folds its tokens in, and a chunk that
  crosses a multiple of the interval leaves the state there in the track slot.
* `Decode` is a decode under a graph, with padding rows: it advances by one token and tracks on a multiple.
* `Verify` fills scratch, in the four kinds of server: `decode` (no speculation), `chain` with deduplicated conv windows, `tree` with parents, and `replay`, which
  logs inputs and re-runs the recurrence at commit. `Commit` scatters the accepted state to the main slot, the one at an interval crossing to the track slot, and the side states with them.
* `Finish` (its snapshot may stay in the prefix cache), `Retract` and `Resume` (with a host copy), `Evict` move and free slots; a slot is cleared where the code clears it, when it is taken.

The lengths of tracking interval and cache chunk are taken to be the same, scratch left by an earlier verify is named `Junk`, what the dummy slot holds is not kept, and the rounding
of `bf16` states is ignored: equality is of the tokens folded in.

### KVPools

`cells[m][b][s]` names the token whose data buffer `b` of model `m`'s pool holds in slot `s`; a slot is good when all of its buffers name one token. A pool class is
the buffers it keeps per slot and per request row and those its `move_kv_cache`, `get_cpu_copy` and `load_cpu_copy` carry, read from each class and from what it inherits.

* `Prefill`, `Reserve`, `Finish`: rows and the pages the next round needs; nothing is cleared. A request's row of `req_to_token` is given by its pages (`Loc`), and a batch lies in any order (`OverBatch`).
* `DraftTree` and `Verify` are a round: branches on pages of their own, each with a copy of the partial last page (`duplicate_prefix_tail_to_draft_branches`), the tree in the first slots after
  the committed tokens, the accepted path moved to the front by the native index copy or by the tiled kernel, whose slot list is bounded by `Cap`.
* `Retract` and `Resume` copy to the host in chunks and load into whatever slots are free.
* The FP8 workspace of the quantised pools is rebuilt before every attention and keeps nothing: it is a function of the slots (`ExtendRows` with page-aligned starts, `Decoded` in place), and `WorkspaceExact` says
  its rows are the tokens of the requests they stand for.

The page allocator, the radix cache and the choice of the request to retract are outside this repository; they are modelled from the calls made here and marked external. All layers are alike and one
stands for them. The page-major variant cannot be constructed by this code and is left out.

### SpecLoop

Two models run over a request. The target's KV at position `p` comes from the token at `p`; the draft model's from the token at `p + 1` and the
target's hidden state at `p`. A token is named by what chose it (prompt, target or draft, in which forward, for which row), a hidden state by the token it was computed for and a
proposal distribution by the token drawn from it, so whatever is stale, foreign, shifted or guessed is visible. `seed[r]` is `r`'s row of `EagleDraftInput`.

* `Admit`, `Release`: pool rows. Nothing is cleared; the next request finds the KV of the last.
* `Prefill` is `_forward_prefill_batch` with `_draft_extend_for_prefill`: whole prompts, chunks, and in a mixed batch the running rows with their bonus token. The tail token
  of a chunk (`TailToken`) is what keeps the draft KV right across chunk boundaries. Which rows are unfinished (`Done`) is the scheduler's.
* `Trivial` and `Draft` are the two ways to build a verify input, for the step count the adaptive controller picked. Draft steps write guesses into the draft
  KV. `probs` says where the proposals are: in tensors of their own, in `_draft_probs_out`, or in the graph pool.
* `Verify` is `run_eagle_verify`. It recycles the graph pool, then samples; each row may accept any number of its drafts. KV of rejected drafts stays.
* `Extend` is `_draft_extend_for_decode`: the whole window again through the draft model, with the target's tokens and hidden states.

The worker is one thread and all of its forwards run on one stream, so a forward is one action. The step controller is a free choice. With adaptive steps
every step count has graphs of its own and `_draft_probs_out` is the one allocated last (`StackSteps`): graphs of that step count stack into it, the others are cloned.
Not modelled: trees (`topk` above 1), the pipeline-parallel tail draft, grammars, the flag
`SGLANG_SPEC_SKIP_ZERO_STEP_DRAFT_EXTEND` (off by default), and KV reservations, whose lengths are computed outside this repository. Positions stand for KV slots: that two requests never
share a writable slot is the allocator's, also outside.

## Runs

| Run | Shows | Instance |
|---|---|---|
| `qsa_pair` | history, rollback, ownership, finality with two requests, padding and slot reuse | ratio 2, ring 4, window 3: the tightest ring the code admits; 7 tokens and 4 forwards per slot, so the ring wraps and slots are reused. 257 049 states |
| `mamba_slots` | conservation, and exactness of main, tracked and cached states, with results up to two forwards late and without overlap | two requests, 7 slots (two requests and one donation; without overlap five would do), interval 4, windows of 2, 9 tokens: each request crosses two multiples. 486 990 states |
| `recurrent_commit` | main and track slots, cached prefixes and n-gram contexts hold exactly the tokens they stand for | four kinds of server, two requests of a prompt of 4 and up to 6 tokens, windows of 2 and 4 in scratch for 4, interval 3, chunks of 1, 3 and 4, end-of-sequence tokens in the prompt, one retraction. 269 256 states |
| `kvpools_rounds` | no slot, no branch and no workspace row mixes buffers of different tokens | nine pool classes (five also offloaded), two requests, 7 pages of 2 tokens, trees of two branches, two steps and four nodes, a kernel bound of 2 slots, host chunks of 2, one retraction: a round of both requests needs a page more than there is. 696 785 states |
| `loop_adaptive` | both KV caches, the next draft input and the verified proposals are those of the accepted tokens | 2 rows, 0 to 3 steps, eager and graph, prompts and chunks of up to 3 tokens, 8 tokens, `MaxClock` 6. 326 420 states |
| `tree_rounds` | greedy verification emits the target's own continuation, the front of each block is the accepted path's, sparse sampling is dense sampling, and sampling keeps the target's law | six servers: a tree of two steps and three nodes over a batch of two with its mask in a buffer; one step with more nodes than levels; a deeper tree; an adaptive chain of 0 to 2 steps whose buffer holds a batch of one; two sampling chains, truncated and not. 8 tokens, 2 segments, 2 extra candidates, 4 draft candidates, coins on a grid of 6. 84 326 states |
| `draft_replays` | replays read what the eager forward would; drafts reuse their own row's selection; handoffs stay within one forward | six servers: every size captured, padded, eager for batches of two without rejection sampling; two adaptive ones whose windows of different widths have the same row count; one without graphs. 2 rows, 3 requests, 5 tokens, heads that screen up to 3 rows. 324 074 states |
| `futuremap_elide` | elided resolves are exact, graph outputs are not clobbered, `FutureMap` implements `SpecRelay` | 3 rows, 3 forwards or bonus stashes: a batch of two, a prefill behind it, a merge, a filter. 140 303 states |
| `lens_mirror` | the lengths gathered on the device and those read on the host are both the ones published last, and no two streams race on the buffer | with host copies and, as served (`needs_cpu_seq_lens = False` in the QSA and GDN backends), without; 2 rows, 5 forwards, poisoning. 119 550 states |
| `presharded_crash` | `READY` stands for a whole dump, ranks serve their own weights and take one path, and a launch serves in the end | two ranks, two configs in one directory, two launches killed at any step, one rank lost while it loads or serves, one tensor damaged. 901 710 states |
| `presharded_lone` | violation: see Findings | two ranks, one of which fails alone in the dump |
| `dp_padding` | ranks run the same forwards with the same shapes, and padding neither enters a rank's results nor takes any away | two ranks, attention split over two; six servers: three without speculation (captured prefills; captured prefills that tolerate uneven counts, with ranks that may join; a target without state-space layers), three with (a chain, coordinated; a chain with ranks that may join; two branches, coordinated), of three steps. Up to two requests per rank, prompts of up to 2 tokens behind a cached one. 75 930 states |

The type invariants of `QSARing`, `MambaSlots`, `SpecLoop`, `FutureMap` and `LensRelay` are proved for every instance (see Proofs), so no run repeats them. Two more configurations,
`MCQSARing_hostpad.cfg` and `MCMlpSync_count.cfg`, reproduce disagreements described under Findings: each stops at a violation.

### Bounds

`MaxLen` and `MaxTurn` cap lengths and forwards in `QSARing`; `MaxLen` and `MaxId` lengths and requests served in `MambaSlots` and `DraftGraphs`; `MaxClock` versions in `FutureMap` and admissions and
forwards in `SpecLoop`; `MaxForward` the forwards launched in `LensRelay`; `MaxRetract` retractions; `MaxCrash`, `MaxFail` and `MaxRot` faults; `Prompt`, `MaxPrompt` and `Chunks` prompts;
`MaxRows`, `MaxExtend` and `MaxPrefix` a rank's requests and their prompts in `MlpSync`.

* In `MambaSlots` and `RecurrentState` two requests are enough for every slot to change owner, between requests and through the cache, and the lengths for two crossings of the interval.
* For the relay three versions are enough to have one recorded, one overwriting the static output and one decode that reads; the buffers hold one version per row, so a fourth repeats the situation.
* In `SpecLoop` the clock is enough for a chunked prompt, a rejection, a narrower or wider window over the rejected positions, and a row that changes owner.
* The pipeline of `LensRelay` is two deep, so five forwards fill it, drain it and refill it with the rows reused; two rows are enough to tell a batch from its tail.
* In `TreeVerify` three nodes are a fork or a chain, two requests tell one block of the flat arrays from the next, and a second round finds the mask of the first.
* In `DraftGraphs` three requests over two rows, with five tokens, let a row be reused after rounds of either width and a small batch be padded after a full one.
* In `Presharded` two killed launches are enough to leave a dump half done *and* the dump that replaces it, two ranks to make every barrier matter.
* `MlpSync` has no bound on rounds: its states are finite. Two ranks agree or disagree, two rows tell a row from its neighbour, and prompts of one or two tokens make counts uneven and odd, so that the alignment
  adds padding. Three steps make a draft batch serve two forwards.

The proofs remove all the bounds of `QSARing`, `KVPools`, `MambaSlots`, `RecurrentState`, `SpecLoop`, `TreeVerify`, `DraftGraphs`, `FutureMap`, `LensRelay`, `MlpSync` and `Presharded`.

### Deadlock, fairness and liveness

`presharded_crash` checks deadlock: no launch can hang, whatever is left on disk and whichever rank is gone. `dp_padding` checks it too: no rank waits in a collective that the others will not enter, which `Lockstep` says step by step. The other runs switch it off, because their bounds stop the system; the code's own loops
never stop. The only other waits are those of `LensRelay`, and each refers to work enqueued before it, so none can be circular whatever the code does between them.

`EventuallyServes` is the liveness property: however launches are killed, one serves in the end and stays up, unless the dump was damaged (then a launch that verifies refuses it, as it must). `Fairness` is weak and says only what
the launcher and the operating system do: a server that is down is started again, a rank that does not wait at a barrier goes on, what a dead rank leaves is reaped. No fault is
assumed to happen, and the faults that may happen are finitely many. The other specifications serve requests from outside for as long as these come, and outside collectives the code has no step that waits for
another of its own, so nothing is claimed to happen eventually there.

## Proofs

The first part of `PoolProofs`, about `QSARing`, proves, for every number of requests, group size, ring, window, page, batch, length and number of
forwards that the named assumptions admit, and provided padding rows are laid out by the kernels (`~HostLayout`):
`TypeCorrect`, `HistorySeen`, `RollbackSafe` and `EntriesFinal`, the theorems of `TypeOK`, `RowsSeeHistory`,
`PendingGroupKept` and `CommittedGroupsFinal`.

The assumptions are those the code enforces: `Ratio >= 2`; the page a multiple of the ratio (`mem_cache/qsa_kv_pool.py`, constructor); and
`Width + Ratio - 1 <= RingSize` (`_require_chain_speculation`).

Neither `RowsSeeHistory` nor `PendingGroupKept` is inductive: a window may overwrite up to `Width` ring rows past the committed
length. The inductive invariant `IInv` adds, per slot (`SlotInv`): how far the ring was last overwritten (drafted tokens included) is at most a window past the
committed length; each ring row from the start of the incomplete group up to there holds the key of its position; and each
compressed entry of a complete group is pooled from the keys of the committed history, or of the drafted one while drafts
are outstanding. That a store cannot hit a pending row is one arithmetic lemma: two positions less than `RingSize`
apart fall into different rows. `Invariance` has one step per action; `EntriesFinal` follows from `IInv` before a step.

The second part proves `TokensWhole`, `TreesWhole` and `WorkspacesExact`, the theorems of `Whole`, `BranchesWhole` and `WorkspaceExact` of `KVPools`, for any finite set of requests and their prompts, any number and size (of two or more) of pages, any width and depth of tree
with fewer steps than nodes, any bound of the copy kernel and size of host chunks, and every order of a batch. The hypothesis besides `KVAssumption` is `Complete`: of the classes a server runs with, those that serve trees move every buffer a slot has,
and those it offloads copy every buffer of a slot and of a row. It is what the findings and remarks below say of single classes (`MLATokenToKVPoolFP4` does not have the first, `QSATokenToKVPool` and the FP4 and quantised pools not the second); the constants of
`kvpools_rounds` satisfy it, and its mutant `FaultyMXFP8` shows that it cannot be dropped.

`PoolInv` adds to `Whole` and `BranchesWhole` that running requests have rows of their own and none of the free list, which lists no row twice (`Homed`), that no page is in two places (`PagesApart`), that tokens, and while a tree is drafted its branches and window, fit a request's pages (`Roomy`), and that the host copy of a
retracted request is its tokens, chunk by chunk (`Copied`). The proof is about lists of slots. Two places share a slot only if they are one place (`LocApart`): slots are pages times their size plus an offset, and pages are apart. A write to distinct slots lands, each value at its slot and nothing elsewhere
(`Lands`, `PutIs`), for a whole batch as well, whatever its order (`OverBatchIs`, `StoreBatchIs`). A move by the kernel, chunk after chunk, is the move at once if no slot is written before it is read, which holds when each target that is also a source is written no earlier than it is read (`MoveIs`,
`InOrder`). For the accepted path it is so because the `i`-th accepted node is at or behind place `i` (`PathIs`); for the tails because a hole is never a tail: branches come apart by their pages (`TreePlaces`), and a round's pages hold them all (`RoundRoom`). Loading from the host is the same
argument with the chunks saved (`LoadIs`). There is one lemma per action. `WorkspacesExact` needs in addition that the loop over requests, which rounds where each begins up to a page, computes what the page table counts from 1 (`StartsAre`), and that the ranges do not overlap (`SpansApart`).

`MambaSlotsProofs` proves `SlotTypes` and `Conserved`, the theorems of `TypeOK` and `SlotsConserved`, for every pool size, number of requests, window,
interval and chunk length, with and without overlap (`overlap` is a variable that never changes, `Fixed`); they need only the types in `MambaAssumption`. `SlotsConserved` is not inductive: `free_mamba_cache`
frees what the *device mapping* names, so the invariant `SlotInv` adds `RowInv`: for a live request the mapping equals its own buffer and names only real slots, and
a row without a request holds nothing. There is one lemma per action; those that move no slot share `NothingMoved`.

Its second part proves `MainStates`, `TrackedStates` and `CachedStates`, the theorems of `MainExact`, `TrackedExact` and `CachedExact`, just as generally; here `IntervalAssumption` is needed as well, that the interval is at least two windows
long. None of the three is inductive, because they speak of what the scheduler knows while up to two forwards have moved the states on. `ExactInv` adds to `SlotInv` what the results in flight will teach it: `Pending(i, r)` tokens from result `i`
(`Lengths`), only for a request that decodes, by identities that are given once (`Idents`), and at most two of them (`Bounded`). `Snap` says where the snapshots it does not know of yet lie: in the slot it will turn to. One slot is enough for
them because two windows in a row never both cross a multiple (`OneCrossing`), and a snapshot it does know of is in the other slot, or no forward is out (`Turning`). There is one lemma per action; `Written` is what a verify writes.

`RecurrentStateProofs` proves `StatesExact`, `TracksExact` and `GramsAreExact`, the theorems of `StateExact`, `TrackExact` and `GramsExact`, for any finite set of requests, any rows and slots, all four kinds of server, every set of window
widths and trees, any chunk and prompt lengths and end-of-sequence positions, and every order of a batch. Besides types, the one assumption is `ChunkAssumption`, that the conv window is shorter than the interval, which the GDN backend asserts. The three
speak of a state between forwards, so none is inductive: while a verify waits for its commit, the states it will commit lie only in scratch. `IInv` has two halves. `Core` says what the slots hold: each active request has a row and two slots to itself, and
none that the prefix cache holds (`Apart`, `Unshared`); its main slot is the state after its tokens, its track slot the state at `tracked` (`Mains`, `Tracks`); cached slots and host copies are the states of the tokens they stand for (`Keeps`, `Parked`); a chunk begins on a
multiple of the interval (`Chunked`), without which a padded chunk would be snapshot off the boundary. `Pending` says what scratch holds from verify to commit: for every batch row and every node of its tree, the state after the committed tokens and the path to that
node, or, in a replay server, the log entry from which the commit recomputes it (`NodeOK`). That a node's cell is its own is division by the pitch (`SnapshotsAre`); that overlapping windows of a chain agree where they overlap is `WindowsAre`; that the replay stops at the accepted node with that
node's state is an induction along the path (`ReplayIs`). `Landing` is the lemma all batches share: writes to the main slots and then to the track slots each land, whatever the order of the rows, because the slots are apart. Masked rows write nowhere, padding rows to
the dummy slot. `CommitHolds` joins the two halves; there is one lemma per action.

`PreshardedProofs` proves `WholeDump`, `SamePath` and `OwnWeights`, the theorems of `ReadyMeansWhole`, `OnePath` and `ServesItsWeights`, for any number of ranks, configs, tensors and faults, under `Together`: no
rank fails *alone* before its dump is done (`FailAt` has neither `check` nor `dump`). The assumption is needed: `presharded_lone` refutes the first of them without it. `ReadyMeansWhole` is not inductive, because
it does not say why a dump under way will be whole. `IInv` adds that the ranks are in step with the barriers (`InStep`, `Elsewhere`), that a directory's state sends all of them the same way (`Path`), that `READY`
is gone from rank 0's unlink to its publication (`Hidden`), and what each barrier stands for: the manifests, the plan and the files on disk are those of this launch (`ManifestsOfThis`, `PlanOfThis`, `FilesOfThis`).

The first part of `SpeculationProofs` proves `Types`, `TargetKept`, `DraftKept`, `SeedsOwn` and `ProposalsOwn`, the theorems of `TypeOK`, `TargetExact`, `DraftExact`, `SeedExact` and `ProposalExact`, for any number of rows,
any set of step counts with a largest one, any size of the shared stack, and any prompts, chunks and lengths; the assumptions are types. None of the five is inductive. `DraftExact` and `SeedExact` say nothing of the state between verify and
draft extend, where the draft model's KV lags behind by exactly the tokens just accepted; `IInv` says what is true there: `Committed` counts the lag with `accept[r]`, and `WindowAccepted` says that the window up to the last accepted row
is the tail of the row's tokens, shifted by one for `predict`, which is why `_draft_extend_for_decode` may rebuild the KV from it. `Standing` keeps a row's length, its batch and the phase of the forward together, and `Underway`
follows the proposals from the draft to the sampler. What rejected rows leave lies past the committed length at every step. There is one lemma per action; rows outside the batch share `RowUntouched`.

The second part of `SpeculationProofs` proves `TreesHold`, `GreedyIsExact`, `FrontIsExact`, `SampleIsExact` and `LawHolds`, the last four being the theorems of `GreedyExact`, `FrontExact`, `SampleExact` and `LawExact` of `TreeVerify`, for any set of servers with any
tree widths, depths, sizes, batches and mask layouts, any vocabulary, rows and parameters that `TreeAssumption`, `RowAssumption` and `SamplerAssumption` admit. `TreeInv` is the inductive invariant: a verify input is that of some nodes (`Handed`), each with a
parent before it and the tokens of its way drafted, or of one sampled chain (`ChainOf`, `SampledBy`), and after the verify the two properties hold of the result. Its parts follow the code:

* *Drafting.* Every ranking selects expansions whose parents are selected and before them, so the number looked up in the flat list of parents is the parent's, although the list has a stride, an entry for the root and one request after the other; ways are
  distinct because siblings' tokens are.
* *The mask.* Rows of the flat mask do not overlap, in either layout and for requests of any lengths; so whatever `buffer` held, a row sees its prefix and its ancestors, and these with their depths are the context its path gives.
* *Acceptance.* The walk over first child and next sibling finds the child with the predicted token if there is one, and it is the only one; the walk ends because every step goes down a level, of which there are no more than steps. Compaction
  gathers the rows of that path to the front of their own block; a chain's are there already.
* *Sampling.* `SampleIsExact` is for `TiesFit`, which is exactly when the candidates hold everything that ties with the k-th. A two-stage top-k keeps every token above the last weight it keeps any of; so what is kept of the candidates is what is kept of all, the
  nucleus has the same pivot, and the sparse and the dense distribution are the same function. That no excluded token is emitted needs a strict comparison at acceptance and weight in the residual after a rejection. Where ties overflow the candidates, the theorem says nothing.
* *The law.* `LawHolds` is for `CoinsFit`: coins stand for real numbers, so the grid must have the odds as multiples, which some grid has for any finite set of rows. Then accepting coins are counted exactly (`AcceptedCount`), as are the coins that draw a token from the residual
  (`FinalCount`, by the running sum), and the sum over the draws is linear: the residual has the weight that is rejected. The draft must draw from the q it hands over (`DrawnIs`), which the greedy rows of an untruncated draft do not; `LawExact` leaves these out.

The first part of `RelayProofs` proves `RelayImplemented`, `ElisionSound`, `OutputsKept` and `RelayTypes`, the theorems of `KeepsPromise`, `ElisionExact`, `NoClobber` and `TypeOK`, for any finite set of rows, with and without elision, and
any number of forwards; the one assumption besides types is that `NoRow` is no row. `IInv` says why identity is enough to elide: two holders of one indices tensor have the same rows, and of one payload id the same payload
(`Identity`, `Recorded`); at most one stash is recorded, no forward starts while one is (`Phases`), and its payload is what one forward left for its own rows and *still is*, the static output included (`Fresh`). Then what waits for a row is what a flush would
write there (`WaitingFlushed`), and each action maps to a step of `SpecRelay`: a resolve to `Take`, a stash to `Leave`, a bonus stash to `LeaveBonus`, a filter to `Forget`; the other actions stutter.

The second part, about `LensRelay` (whose names that `FutureMap` has too are qualified, so that one module can extend both), proves `Gathered`, `Mirrored`, `RaceFree` and `LensTypeCorrect`, the theorems of `GatherExact`, `MirrorExact`, `NoRace` and `LensTypes`, for any number of rows and forwards and every interleaving of the
streams, with and without host copies and poisoning; the assumptions are types. Places on a stream are counted as events count them (`todo`), and `Barred(t, p, s, q)` says that a wait still stands on `t` before `p` for the place `q` of `s`.
The only order between streams is such a wait, so `LensInv` has one for every two operations that may not be swapped: the schedule stream's gather or poison of forward `k` is after all publishes before `k` and
before the others (`Scheduled`), a mixed forward's gather likewise, by its place (`Mixed`), and the copy to the host after `publish_ready` (`Copying`). `Published` bounds what may be outstanding: at most two publishes, the event at the
second. `Latest` and `Gathering` say what the buffer holds for a row, and will hold when a gather comes up. `BarredNotNext` and `BarredStays` turn a wait into the absence of a race; there is one lemma per action.

`DraftGraphsProofs` proves `ReplaysExact`, `SelectionsShared` and `HandoffsExact`, the theorems of `ReplayExact`, `SharedExact` and `HandoffExact`, for any finite pool, screening limit, and servers with any step counts and captured sizes; besides
types, the assumptions are that a captured size is at most the pool and that a server which does not adapt has one step count. The three speak of the forwards just run, so `IInv` says what a forward may rely on before it runs: every live row's seed and, where
indices are shared, its frozen selection are of its own request at its committed length (`SeedsOwn`, `TableOwn`); between verifies the target head is dense and inactive (`HeadClosed`); and whatever is left in the buffers, a gather row lies in its own window (`Buffers`),
which is all that holds of `select`, the one buffer a reset leaves alone. Of everything else a replay reads, the lemmas show that it was written or blanked just before: `DraftCopied` and `ExtendCopied` for the copies, `DraftRead` and `ExtendRead` for what the graph sees
of them. A padded size is the least that fits (`Smallest`, by the least element of a set of numbers); row and column of a window or a flat cache-slot buffer come apart by division (`Divided`, `OwnPlace`, `OwnLocs`).

`MlpSyncProofs` proves `ForwardsMatch`, `GeometryShared`, `RowsKept`, `MasksExact` and `ResultsOwn`, the theorems of `Lockstep`, `SameGeometry`, `RowsMatchTokens`, `MaskExact` and `OwnResults`, for any number of ranks, attention-TP
size, servers, step counts and batches; the assumptions are types. `Lockstep` is not inductive, since a rank that has left a forward is one ahead of a rank that has not. `StepInv` counts so that it is not: `Left` takes a computed
forward as done (`InStep`), and `Shaped` says where the target model runs in what is left of a round, last but one, or always without a draft model. Two lemmas do the rest: every rank's round is as long, because
`_draft_forward_idle` drafts as often as `draft_forward` (`DraftCount`, `CoordinatedShape`), and it has that shape (`RoundShape`).

The other four follow from `IInv`, which says of each rank what its padding rests on (`RankOK`). *Before*: what a rank has yet to run is the end of its round (`Suffix`), so the forward before is known; a draft step comes with the batch and the
results of the step before it, an extend with the verify's hidden states and a prefill with the target's (`Kept`, `NextBatchIs`). *Inside*: counts, padding mode and buffer come from one answer among those given in this round (`Geometry`,
`AnswersAgree`), and the batch is one of three shapes, the rank's own rows, one made-up row that fills the rank, or as many rows of one width as the size holds (`Rowed`, `Fills`). Counts agree because ranks that meet gather alike even
when one verifies and the other prefills (`SameCounts`), and because a draft step that pads again what the step before padded changes nothing (`Settles`): aligning twice is aligning once (`Ceiled`), and the widest of equal counts is each of them.
*After*: the results are cut to the rank's own (`LogitsAre`, `SlicedIs`). `OwnResults` lets the hidden states of a target keep padding, so the invariant must say how much: no more than what that round's target forwards padded to, which is what the prefill
that takes them pads to as well; hence `_pad_inputs_to_size` does not raise (`NoOverflow`). The arithmetic of ragged batches, where each row starts and which row a place belongs to, rests on counting cells (`Starts`, `RowFound`, `Tokens`).

Only model-checked: `EventuallyServes`, since liveness under fairness is beyond the prover. What the library states only for an operator parameter, such as a sum over a set or a fold over a sequence, is not used in the modules proved
about: they sum and number with recursive functions, and induction is by least elements (`WFMin`) over these.

## Findings

`MCQSARing_hostpad.cfg` (one live request and one padding row; violates `RowsSeeHistory`): when a window is laid out on the host (graph kernels unavailable, or eager padding of token rows), padding rows are given
the *first live request's* pool index at length 1 and so store their key into row 0 of its ring, while the comment there calls the
tail inert. TLC finds a short behaviour in which that row belongs to the incomplete group, and the next window
compresses the padding row's key. The device layout kernels use pool slot 0, which is never allocated, and `qsa_pair` shows
that to be enough. The docstring of `build_pending_ring_slots` also still describes a ring of `ratio` rows per request.

`presharded_lone`: `_world_barrier` swallows the error of a barrier whose peer is gone. When one rank fails alone during the dump (no space, no memory), the others pass their barriers, and rank 0 publishes
`READY` over a dump that misses that rank's files. Later launches trust it, fail on the missing files, and never dump again.

`MCMlpSync_count.cfg` (the instance of `dp_padding`; violates `CountReal`): `init_new` (`model_executor/forward_batch_info.py:1064`) counts the real tokens of a batch by its input ids, and none without them. A draft batch has none when it is built (`speculative/eagle_worker_v2.py:1514`); `draft_forward` gives it ids
at every step but leaves the count at 0, against the declaration of the field as the real-token count (`forward_batch_info.py:650-652`). It matters only where the draft model has experts whose dispatch masks by this count and draft
steps run without a graph: real rows are then masked. Proposals may be worse; verified tokens are not affected.

Remarks made while reading, without a configuration of their own:

* `QSATokenToKVPool` inherits `HybridLinearKVPool`'s host copies (`memory_pool.py:4262`), so a retraction with a host copy drops compressed keys and ring, against `qsa_kv_pool.py:32-34` and the comment at
  `memory_pool.py:5221`. `MLATokenToKVPoolFP4` inherits moves and host copies without its scale buffer (compare `memory_pool.py:2288-2290`); the host copies of the FP4 and quantised pools omit
  scales (compare `memory_pool.py:3801-3802`). `KVPools` runs these classes without host copies (`Offloaded`); `src/serve/run-server.sh` does not ask for them.
* The non-interleaved MXFP8 pool's `move_kv_cache` (`memory_pool.py:3785-3789`) would move scales twice; it is not reachable.
* `gdn_replay.cu:64` returns before the track write when the main destination is invalid; callers never pass such a row.
* `models/qwen4_exp.py:246` says slot 0 "may belong to a real request"; pool row 0 is never allocated (`memory_pool.py:292-303`).
* In `qf_topk.cu` a last segment with fewer than `k` elements would leave its bucket unwritten although the comment there promises padding; the vocabulary divides evenly, so it is not reached.
* `eagle_worker_v2.py:2097-2118` says the `q` returned is exactly the distribution the token was drawn from. For a greedy row of an untruncated draft the token is the argmax while `q` stays the softmax; the emitted
  token differs from the target's law only if the target's maximum is tied. `LawExact` leaves these rows out.
* `head_dense_fixup` raises when a screened verify has more than 8 rows and the sampler declines, although the logits were dense already (`qwenfast.py:1503-1513`). In adaptive servers graphs of different
  widths with the same row count overwrite each other in `_HEAD["h_graph"]` (`qwenfast.py:369`), and a padded or eager verify finds another graph's or call's hidden states there, against "recompute them exactly"
  (`qwenfast.py:1504`). `HandoffExact` therefore claims the fix-up for servers with one width that capture every size they replay (`Single`).
* With a zero-step draft extend skipped (a flag that is off by default) a row's previous proposal stays in the buffers (`overlap_utils.py:749`), a documented cost.

## Not modelled

`ConfidenceRelay` (its consumer is not in this repository); multi-item scoring, the ReplaySSM rings and the int8 checkpoint pool of the GDN backend; the page-major, HND and 5-D layouts, the unified pool's virtual ids and
transfer buffers for disaggregation; draft counts of their own and two-batch overlap under data parallelism; the pipeline-parallel tail draft; grammars; short eager verify rows. None of them is used by the served configuration
(`src/serve/run-server.sh`). Layer arithmetic, quantisation and the numeric kernels are tested against references in `src/bench` and `src/serve/qwenfast`, and have no protocol state.

## Plan

1. `QSAPages`: physical compressed slots and page sharing by the prefix cache, joined with `QSARing`.
2. The pipeline-parallel tail draft of the EAGLE worker.
3. The scheduler side of the skipped zero-step draft extend.
