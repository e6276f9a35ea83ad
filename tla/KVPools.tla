------------------------------ MODULE KVPools ------------------------------
(***************************************************************************)
(* The token pools of memory_pool.py under the EAGLE worker: what a slot   *)
(* holds when tokens are written, moved inside the pool, copied to the     *)
(* host when their request is retracted and loaded into other slots.       *)
(*                                                                         *)
(* A pool class is named by the buffers it keeps per token and per request *)
(* row, and by those its move_kv_cache and its get_cpu_copy and            *)
(* load_cpu_copy carry.  A slot is good when all of its buffers hold the   *)
(* same token, the one its request has there.  Layers are alike and one    *)
(* stands for all.                                                         *)
(*                                                                         *)
(* The target model and the draft model have a pool each and share the     *)
(* slots.  With topk > 1 a round drafts a tree on branches, each on pages  *)
(* of its own, verifies it in the first slots after the committed tokens   *)
(* and moves the accepted path to the front.                               *)
(***************************************************************************)
EXTENDS Integers, Sequences, FiniteSets, SequencesExt

CONSTANTS
  Kinds,        \* classes of pool the server may run with
  Offloaded,    \* those it runs with host copies on retraction
  Reqs,         \* requests, numbered
  NumPages,     \* pages of the pool; page 0 is the padding page
  PageSlots,    \* page_size
  TreeTopk,     \* speculative_eagle_topk of pools that support trees
  Steps,        \* speculative_num_steps
  DraftTokens,  \* speculative_num_draft_tokens
  Cap,          \* num_locs_upper of the slot copy kernel
  ChunkSize,    \* cpu_offloading_chunk_size
  Prompt,       \* bound: Prompt[r], r's prompt length
  MaxTokens,    \* bound: committed length
  MaxRetract    \* bound: retractions

ASSUME KVAssumption ==
  /\ Reqs \subseteq Nat /\ IsFiniteSet(Reqs) /\ Offloaded \subseteq Kinds
  /\ \A n \in {NumPages, TreeTopk, Steps, DraftTokens, Cap, ChunkSize} :
       n \in Nat \ {0}
  /\ PageSlots \in Nat \ {0, 1} /\ Steps < DraftTokens
  /\ Prompt \in [Reqs -> Nat \ {0}] /\ MaxTokens \in Nat /\ MaxRetract \in Nat

VARIABLES
  kind,    \* the class of both pools
  native,  \* use_native_move_kv_cache
  cells,   \* cells[m][b][s]: what buffer b of model m's pool holds in slot s
  rowbuf,  \* rowbuf[b][w]: what per-request buffer b holds in row w
  rowfree, \* ReqToTokenPool.free_slots
  row,     \* row[r]: req_pool_idx
  pages,   \* pages[r]: the pages whose slots req_to_token lists for r, in order
  toks,    \* toks[r]: the committed tokens
  status,  \* status[r]
  host,    \* host[r]: kv_cache_cpu
  drafted, \* a tree is drafted and not verified
  lost,    \* lost[r]: tokens whose draft KV a retraction dropped
  retracts \* retractions so far

pool_vars == <<kind, native, cells, rowbuf, rowfree, row, pages, toks, status, host, drafted,
               lost, retracts>>

Locs   == 0..(NumPages + 1) * PageSlots - 1
Rows   == 1..Cardinality(Reqs)
Models == {"target", "draft"}
NoRow  == 0

\* A token, by its request, the length it was computed at, and its node in the
\* tree of that round; drafts are negative.
Token(r, at, node) == <<r, at, node>>
Empty == Token(-1, 0, 0)

-----------------------------------------------------------------------------
(* The pool classes: buffers per token, those moved and those copied to the *)
(* host; buffers per request row, those copied; whether move_kv_cache may   *)
(* be the copy kernel, whether the class serves trees, and whether it has a *)
(* prefix-valid commit.                                                     *)

MHA ==
  [slot |-> {"k", "v"}, moved |-> {"k", "v"}, saved |-> {"k", "v"}, row |-> {}, kept |-> {},
   kernel |-> TRUE, tree |-> TRUE, prefix |-> TRUE]
Quantized ==
  [MHA EXCEPT !.slot = {"k", "v", "k_scale", "v_scale", "native_scale"},
              !.moved = {"k", "v", "k_scale", "v_scale", "native_scale"}, !.prefix = FALSE]
FP4 ==
  [MHA EXCEPT !.slot = {"k", "v", "k_scale", "v_scale"},
              !.moved = {"k", "v", "k_scale", "v_scale"}, !.kernel = FALSE, !.prefix = FALSE]
FaultyMXFP8 == FP4
MXFP8 == [FP4 EXCEPT !.saved = FP4.slot]
MLA ==
  [slot |-> {"kv"}, moved |-> {"kv"}, saved |-> {"kv"}, row |-> {}, kept |-> {},
   kernel |-> FALSE, tree |-> TRUE, prefix |-> FALSE]
MLAFP4 == [MLA EXCEPT !.slot = {"kv", "scale"}]
DSA ==
  [MLA EXCEPT !.slot = {"kv", "index"}, !.moved = {"kv", "index"}, !.saved = {"kv", "index"},
              !.row = {"tail"}, !.kept = {"tail"}]
Hybrid == [MHA EXCEPT !.row = {"mamba"}, !.kept = {"mamba"}, !.prefix = FALSE]
QSA ==
  [Hybrid EXCEPT !.slot = {"k", "v", "compressed"}, !.row = {"mamba", "ring"}, !.tree = FALSE]
MiniMax == [MHA EXCEPT !.slot = {"k", "v", "index"}, !.tree = FALSE, !.prefix = FALSE]

Class == [mha |-> MHA, quantized |-> Quantized, fp4 |-> FP4, mxfp8 |-> MXFP8, mla |-> MLA,
          mla_fp4 |-> MLAFP4, dsa |-> DSA, hybrid |-> Hybrid, qsa |-> QSA,
          minimax |-> MiniMax]
pool == Class[kind]
Topk == IF pool.tree THEN TreeTopk ELSE 1

\* Of the classes it runs with, a server moves accepted trees in every buffer and
\* copies every buffer to the host, if at all.
Complete ==
  /\ Kinds \subseteq DOMAIN Class
  /\ \A k \in Kinds : Class[k].tree /\ TreeTopk > 1 => Class[k].moved = Class[k].slot
  /\ \A k \in Offloaded : Class[k].saved = Class[k].slot /\ Class[k].kept = Class[k].row

-----------------------------------------------------------------------------
(* Slots and chunks.  Faulty... is a plausible mistake in the definition    *)
(* below it; nothing else refers to it.                                    *)

SeqLen(r) == Len(toks[r])
Running == {r \in Reqs : status[r] = "running"}

\* The slot of place i, from 0, in a list of pages; and n of r's from place lo.
SlotOf(list, i) == list[i \div PageSlots + 1] * PageSlots + (i % PageSlots)
Loc(r, i) == SlotOf(pages[r], i)
LocsAt(r, lo, n) == [i \in 1..n |-> Loc(r, lo + i - 1)]
Pick(s, positions) == [i \in 1..Len(positions) |-> s[positions[i] + 1]]

\* What f gives for each request of a batch, end to end.
Sums(w) == LET s[i \in 0..Len(w)] == IF i = 0 THEN 0 ELSE s[i - 1] + w[i] IN s
OverBatch(batch, f) ==
  LET n    == Len(batch)
      ends == Sums([i \in 1..n |-> Len(f[batch[i]])])
  IN  [k \in 1..ends[n] |->
         LET i == CHOOSE i \in 1..n : k \in ends[i - 1] + 1..ends[i]
         IN  f[batch[i]][k - ends[i - 1]]]

\* Piece k of s, cut into pieces of n.
Piece(s, k, n) == SubSeq(s, k * n - n + 1, IF k * n < Len(s) THEN k * n ELSE Len(s))
Pieces(s, n) == (Len(s) + n - 1) \div n

\* One buffer with the slots in `to' set to what `new' lists.
Put(buf, to, new) ==
  [s \in Locs |-> IF \E i \in 1..Len(to) : to[i] = s
                  THEN new[CHOOSE i \in 1..Len(to) : to[i] = s] ELSE buf[s]]
Get(buf, from) == [i \in 1..Len(from) |-> buf[from[i]]]

Store(bufs, to, new) == [b \in DOMAIN bufs |-> Put(bufs[b], to, new)]

\* set_kv_buffer_prefix_valid: of each row of the batch the first n.
FaultyStorePrefix(bufs, batch, to, new, n) ==
  Store(bufs, OverBatch(batch, [r \in Running |-> SubSeq(to[r], 1, n[r] - 1)]),
              OverBatch(batch, [r \in Running |-> SubSeq(new[r], 1, n[r] - 1)]))
StorePrefix(bufs, batch, to, new, n) ==
  Store(bufs, OverBatch(batch, [r \in Running |-> SubSeq(to[r], 1, n[r])]),
              OverBatch(batch, [r \in Running |-> SubSeq(new[r], 1, n[r])]))

\* move_kv_cache: at once, or with the copy kernel, chunk by chunk.
FaultyMoveBuffer(buf, tgt, src) ==
  LET n == Pieces(tgt, Cap)
      moved[k \in 0..n] ==
        IF k = 0 THEN buf
        ELSE Put(moved[k - 1], Piece(tgt, n - k + 1, Cap),
                               Get(moved[k - 1], Piece(src, n - k + 1, Cap)))
  IN  IF native THEN Put(buf, tgt, Get(buf, src)) ELSE moved[n]
MoveBuffer(buf, tgt, src) ==
  LET moved[k \in 0..Pieces(tgt, Cap)] ==
        IF k = 0 THEN buf
        ELSE Put(moved[k - 1], Piece(tgt, k, Cap), Get(moved[k - 1], Piece(src, k, Cap)))
  IN  IF native THEN Put(buf, tgt, Get(buf, src)) ELSE moved[Pieces(tgt, Cap)]
Move(bufs, tgt, src) ==
  [b \in DOMAIN bufs |-> IF b \in pool.moved THEN MoveBuffer(bufs[b], tgt, src) ELSE bufs[b]]

\* get_cpu_copy and load_cpu_copy, in chunks.
Copy(bufs, from) ==
  [b \in pool.saved |->
     [k \in 1..Pieces(from, ChunkSize) |-> Get(bufs[b], Piece(from, k, ChunkSize))]]
LoadBuffer(buf, copy, to) ==
  LET loaded[k \in 0..Pieces(to, ChunkSize)] ==
        IF k = 0 THEN buf ELSE Put(loaded[k - 1], Piece(to, k, ChunkSize), copy[k])
  IN  loaded[Pieces(to, ChunkSize)]
Load(bufs, copy, to) ==
  [b \in DOMAIN bufs |-> IF b \in pool.saved THEN LoadBuffer(bufs[b], copy[b], to) ELSE bufs[b]]

\* The part of them that belongs to the request's row.
FaultyRowLoad(copy, w) == rowbuf
RowCopy(w) == [b \in pool.kept |-> rowbuf[b][w]]
RowLoad(copy, w) ==
  [b \in DOMAIN rowbuf |->
     IF b \in pool.kept THEN [rowbuf[b] EXCEPT ![w] = copy[b]] ELSE rowbuf[b]]

-----------------------------------------------------------------------------
(* Pages and rows.                                                         *)

PagesFor(n) == (n + PageSlots - 1) \div PageSlots
FreePages == (1..NumPages) \ UNION {ToSet(pages[r]) : r \in Reqs}
Least(S) == CHOOSE x \in S : \A y \in S : x <= y
NextPages(n) ==
  LET taken[i \in 0..n] ==
        IF i = 0 THEN {} ELSE taken[i - 1] \cup {Least(FreePages \ taken[i - 1])}
  IN  [i \in 1..n |-> Least(FreePages \ taken[i - 1])]

\* ReqToTokenPool.alloc_rows and free_rows.
LastRow == rowfree[Len(rowfree)]
RowTaken == SubSeq(rowfree, 1, Len(rowfree) - 1)

\* prepare_for_draft: where the branches of r's tree begin.
LastPage(r) == SeqLen(r) % PageSlots
PrefixBase(r) == SeqLen(r) - LastPage(r)
FaultyNewPages(r) == (LastPage(r) + Steps) \div PageSlots
NewPages(r) == (LastPage(r) + Steps + PageSlots - 1) \div PageSlots
BranchBase(r, t) == PrefixBase(r) + t * NewPages(r) * PageSlots
BranchSlots(r, t) ==
  IF Topk = 1 THEN LocsAt(r, SeqLen(r), Steps)
  ELSE LocsAt(r, BranchBase(r, t) + LastPage(r), Steps)
Draft(r, t, s) == Token(r, SeqLen(r), -(t * Steps + s))

\* A round needs the branches' pages and the verify window.
NeededPages(r) ==
  Max({PagesFor(IF Topk = 1 THEN SeqLen(r) + Steps ELSE BranchBase(r, Topk)),
       PagesFor(SeqLen(r) + DraftTokens)})

\* duplicate_prefix_tail_to_draft_branches: the tail of the prefix to the head
\* of every branch but the first, one branch after another.
FaultyHoles(r) == LocsAt(r, PrefixBase(r), (Topk - 1) * LastPage(r))
Holes(r) ==
  [i \in 1..(Topk - 1) * LastPage(r) |->
     Loc(r, BranchBase(r, (i - 1) \div LastPage(r) + 1) + ((i - 1) % LastPage(r)))]
Tails(r) ==
  [i \in 1..(Topk - 1) * LastPage(r) |-> Loc(r, PrefixBase(r) + ((i - 1) % LastPage(r)))]

-----------------------------------------------------------------------------
(* The FP8 workspace a quantized pool rebuilds before every attention.  Its *)
(* rows are dequantized from a payload and a scale: they are a token only   *)
(* if both are of that token.                                              *)

Dequantized(s) ==
  IF cells["target"]["k"][s] = cells["target"]["k_scale"][s]
  THEN cells["target"]["k"][s] ELSE Empty

\* _prepare_dequant_extend_workspace: where each request of the batch begins,
\* and the rows written.  A ragged prefill does not put its chunk there.
FaultyAlign(n) == n
Align(n) == PagesFor(n) * PageSlots
Starts(width) ==
  LET start[i \in 1..Len(width) + 1] ==
        IF i = 1 THEN PageSlots ELSE Align(start[i - 1] + width[i - 1])
  IN  start
Widths(batch, chunk, ragged) ==
  [i \in 1..Len(batch) |-> SeqLen(batch[i]) + (IF ragged THEN 0 ELSE chunk[i])]
ExtendRows(batch, chunk, ragged) ==
  LET width == Widths(batch, chunk, ragged)
      content(r, j) == IF j <= SeqLen(r) THEN Dequantized(Loc(r, j - 1)) ELSE Token(r, j - 1, 0)
  IN  UNION {{<<Starts(width)[i] + j - 1, content(batch[i], j)>> : j \in 1..width[i]} :
               i \in 1..Len(batch)}

\* _prepare_dequant_decode_workspace: in place, at the slots of the batch.
Held == UNION {{Loc(r, i) : i \in 0..Len(pages[r]) * PageSlots - 1} : r \in Reqs}
Decoded == [s \in Held |-> Dequantized(s)]

-----------------------------------------------------------------------------
Prefill(r) ==
  LET new == [i \in 1..Prompt[r] |-> Token(r, i - 1, 0)]
      n   == PagesFor(Prompt[r])
      to  == NextPages(n)
  IN /\ status[r] = "waiting" /\ ~drafted
     /\ rowfree # <<>> /\ n <= Cardinality(FreePages)
     /\ pages' = [pages EXCEPT ![r] = to]
     /\ row' = [row EXCEPT ![r] = LastRow]
     /\ rowfree' = RowTaken
     /\ cells' = [m \in Models |->
          Store(cells[m], [i \in 1..Prompt[r] |-> SlotOf(to, i - 1)], new)]
     /\ rowbuf' = [b \in DOMAIN rowbuf |-> [rowbuf[b] EXCEPT ![LastRow] = Last(new)]]
     /\ toks' = [toks EXCEPT ![r] = new]
     /\ status' = [status EXCEPT ![r] = "running"]
     /\ UNCHANGED <<kind, native, host, drafted, lost, retracts>>

\* The scheduler gives every running request, in the order of the batch, the
\* pages its next round needs.
Missing(r) == Max({NeededPages(r) - Len(pages[r]), 0})
Given(batch) == Sums([i \in 1..Len(batch) |-> Missing(batch[i])])
Reserve(batch) ==
  LET total == Given(batch)[Len(batch)]
      next  == NextPages(total)
  IN /\ ~drafted /\ 0 < total /\ total <= Cardinality(FreePages)
     /\ pages' = [r \in Reqs |->
          IF r \in Running
          THEN LET i == CHOOSE i \in 1..Len(batch) : batch[i] = r
               IN  pages[r] \o SubSeq(next, Given(batch)[i - 1] + 1, Given(batch)[i])
          ELSE pages[r]]
     /\ UNCHANGED <<kind, native, cells, rowbuf, rowfree, row, toks, status, host, drafted,
                    lost, retracts>>

\* draft: the tails are duplicated, then every branch writes its steps.
DraftTree(batch) ==
  /\ ~drafted /\ Running # {}
  /\ \A r \in Running : Len(pages[r]) >= NeededPages(r) /\ SeqLen(r) <= MaxTokens
  /\ LET tails == Move(cells["draft"], OverBatch(batch, [r \in Running |-> Holes(r)]),
                                       OverBatch(batch, [r \in Running |-> Tails(r)]))
         slots(r) == [i \in 1..Topk * Steps |->
                        BranchSlots(r, (i - 1) \div Steps)[((i - 1) % Steps) + 1]]
         new(r) == [i \in 1..Topk * Steps |-> Draft(r, (i - 1) \div Steps, ((i - 1) % Steps) + 1)]
     IN cells' = [cells EXCEPT !["draft"] =
                    Store(IF Topk = 1 THEN cells["draft"] ELSE tails,
                          OverBatch(batch, [r \in Running |-> slots(r)]),
                          OverBatch(batch, [r \in Running |-> new(r)]))]
  /\ drafted' = TRUE
  /\ UNCHANGED <<kind, native, rowbuf, rowfree, row, pages, toks, status, host, lost, retracts>>

\* The nodes a verify may accept: the root, then a path down the tree.
Increasing(s) == \A i \in 1..Len(s) - 1 : s[i] < s[i + 1]
Paths ==
  {p \in UNION {[1..n -> 0..DraftTokens - 1] : n \in 1..Steps + 1} :
     /\ p[1] = 0 /\ Increasing(p)
     /\ (Len(p) > 1 => p[2] <= Topk) /\ (Topk = 1 => p[Len(p)] = Len(p) - 1)}

\* The target computes the whole tree; then move_accept_tokens_to_target_kvcache
\* and the draft extend, which writes the window or, with a prefix-valid commit,
\* its accepted part.
FaultyFrontOf(r, path) == LocsAt(r, SeqLen(r), Len(path) - 1)
FrontOf(r, path) == LocsAt(r, SeqLen(r), Len(path))
Accepted(r, path) == Pick(LocsAt(r, SeqLen(r), DraftTokens), path)
Verify(batch, path, whole) ==
  LET window(r) == LocsAt(r, SeqLen(r), DraftTokens)
      tree(r) == [i \in 1..DraftTokens |-> Token(r, SeqLen(r), i - 1)]
      accept(r) == [i \in 1..Len(path[r]) |-> Token(r, SeqLen(r), path[r][i])]
      extend(r) == [i \in 1..DraftTokens |-> IF i <= Len(path[r]) THEN accept(r)[i] ELSE Empty]
      windows == [r \in Running |-> window(r)]
      extends == [r \in Running |-> extend(r)]
      verified == Store(cells["target"], OverBatch(batch, windows),
                                         OverBatch(batch, [r \in Running |-> tree(r)]))
  IN /\ drafted
     /\ whole \/ pool.prefix
     /\ cells' =
          [target |->
             IF Topk = 1 THEN verified
             ELSE Move(verified, OverBatch(batch, [r \in Running |-> FrontOf(r, path[r])]),
                                 OverBatch(batch, [r \in Running |-> Accepted(r, path[r])])),
           draft |->
             IF whole
             THEN Store(cells["draft"], OverBatch(batch, windows), OverBatch(batch, extends))
             ELSE StorePrefix(cells["draft"], batch, windows, extends,
                              [r \in Running |-> Len(path[r])])]
     /\ toks' = [r \in Reqs |-> IF r \in Running THEN toks[r] \o accept(r) ELSE toks[r]]
     /\ rowbuf' = [b \in DOMAIN rowbuf |-> [w \in Rows |->
          IF \E r \in Running : row[r] = w
          THEN Last(accept(CHOOSE r \in Running : row[r] = w)) ELSE rowbuf[b][w]]]
     /\ drafted' = FALSE
     /\ UNCHANGED <<kind, native, rowfree, row, pages, status, host, lost, retracts>>

\* r is retracted: its tokens are copied to the host, its row and slots freed.
Retract(r) ==
  /\ r \in Running /\ ~drafted /\ kind \in Offloaded /\ retracts < MaxRetract
  /\ host' = [host EXCEPT ![r] =
                [kv |-> Copy(cells["target"], LocsAt(r, 0, SeqLen(r))), row |-> RowCopy(row[r])]]
  /\ rowfree' = Append(rowfree, row[r])
  /\ row' = [row EXCEPT ![r] = NoRow]
  /\ pages' = [pages EXCEPT ![r] = <<>>]
  /\ status' = [status EXCEPT ![r] = "retracted"]
  /\ retracts' = retracts + 1
  /\ UNCHANGED <<kind, native, cells, rowbuf, toks, drafted, lost>>

\* It resumes in another row and other slots, from the host copy.
Resume(r) ==
  LET n  == PagesFor(SeqLen(r))
      to == NextPages(n)
  IN /\ status[r] = "retracted" /\ ~drafted
     /\ rowfree # <<>> /\ n <= Cardinality(FreePages)
     /\ pages' = [pages EXCEPT ![r] = to]
     /\ row' = [row EXCEPT ![r] = LastRow]
     /\ rowfree' = RowTaken
     /\ cells' = [cells EXCEPT !["target"] =
                    Load(@, host[r].kv, [i \in 1..SeqLen(r) |-> SlotOf(to, i - 1)])]
     /\ rowbuf' = RowLoad(host[r].row, LastRow)
     /\ host' = [host EXCEPT ![r] = <<>>]
     /\ status' = [status EXCEPT ![r] = "running"]
     /\ lost' = [lost EXCEPT ![r] = SeqLen(r)]
     /\ UNCHANGED <<kind, native, toks, drafted, retracts>>

Finish(r) ==
  /\ r \in Running /\ ~drafted
  /\ status' = [status EXCEPT ![r] = "finished"]
  /\ rowfree' = Append(rowfree, row[r])
  /\ row' = [row EXCEPT ![r] = NoRow]
  /\ pages' = [pages EXCEPT ![r] = <<>>]
  /\ UNCHANGED <<kind, native, cells, rowbuf, toks, host, drafted, lost, retracts>>

-----------------------------------------------------------------------------
PoolInit ==
  /\ kind \in Kinds /\ native \in (IF pool.kernel THEN BOOLEAN ELSE {TRUE})
  /\ cells = [m \in Models |-> [b \in pool.slot |-> [s \in Locs |-> Empty]]]
  /\ rowbuf = [b \in pool.row |-> [w \in Rows |-> Empty]]
  /\ rowfree = [i \in Rows |-> i]
  /\ row = [r \in Reqs |-> NoRow]
  /\ pages = [r \in Reqs |-> <<>>]
  /\ toks = [r \in Reqs |-> <<>>]
  /\ status = [r \in Reqs |-> "waiting"]
  /\ host = [r \in Reqs |-> <<>>]
  /\ drafted = FALSE
  /\ lost = [r \in Reqs |-> 0]
  /\ retracts = 0

PoolNext ==
  \/ \E r \in Reqs : Prefill(r) \/ Retract(r) \/ Resume(r) \/ Finish(r)
  \/ \E batch \in SetToSeqs(Running) :
       \/ Reserve(batch)
       \/ DraftTree(batch)
       \/ \E path \in [Running -> Paths], whole \in BOOLEAN : Verify(batch, path, whole)

PoolSpec == PoolInit /\ [][PoolNext]_pool_vars

-----------------------------------------------------------------------------
(* Correctness.                                                            *)

\* Every buffer of the target pool holds, in each slot of a running request, the
\* token the request has there, and every per-request buffer the state after
\* its last one: through tree compaction, retraction and reuse of slots and rows.
Whole ==
  \A r \in Running :
    /\ \A b \in pool.slot : \A i \in 1..SeqLen(r) :
         cells["target"][b][Loc(r, i - 1)] = toks[r][i]
    /\ \A b \in pool.row : rowbuf[b][row[r]] = Last(toks[r])

\* The draft pool holds the committed tokens too, but for those a retraction
\* dropped; and while drafts are outstanding every branch of the tree reads, on
\* its own pages, the tail of the prefix and then its own drafts.
BranchesWhole ==
  \A r \in Running : \A b \in pool.slot :
    LET buf == cells["draft"][b] IN
    /\ \A i \in lost[r] + 1..SeqLen(r) : buf[Loc(r, i - 1)] = toks[r][i]
    /\ drafted => \A t \in 0..Topk - 1 :
         /\ Get(buf, BranchSlots(r, t)) = [s \in 1..Steps |-> Draft(r, t, s)]
         /\ Topk > 1 => Get(buf, LocsAt(r, BranchBase(r, t), LastPage(r)))
                         = Get(buf, LocsAt(r, PrefixBase(r), LastPage(r)))

\* The workspace of a batch is read through a page table that counts pages from
\* 1, request after request, each rounded up: every request finds its cached
\* prefix and then its chunk; and a decode finds its tokens at its own slots.
WorkspaceExact ==
  "k_scale" \in pool.slot =>
    /\ \A r \in Running : \A i \in 1..SeqLen(r) : Decoded[Loc(r, i - 1)] = toks[r][i]
    /\ \A batch \in SetToSeqs(Running), ragged \in BOOLEAN :
       \A chunk \in [1..Len(batch) -> 1..PageSlots + 1] :
         LET width == Widths(batch, chunk, ragged)
             rows == ExtendRows(batch, chunk, ragged)
             before == Sums([i \in 1..Len(batch) |-> PagesFor(width[i])])
         IN \A i \in 1..Len(batch) : \A j \in 1..width[i] :
              {x[2] : x \in {x \in rows : x[1] = (1 + before[i - 1]) * PageSlots + j - 1}}
              = {IF j <= SeqLen(batch[i]) THEN toks[batch[i]][j] ELSE Token(batch[i], j - 1, 0)}
=============================================================================
