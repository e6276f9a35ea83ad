--------------------------- MODULE RecurrentState ---------------------------
(***************************************************************************)
(* What the slots of recurrent state hold: the GDN state itself, the conv  *)
(* window, and the side states of the n-gram embedding, as prefill chunks, *)
(* decodes and speculative verifies advance them.                          *)
(*                                                                         *)
(* A verify leaves the slots alone.  It computes the state after every     *)
(* draft of the window into scratch memory, by batch row, as snapshots or  *)
(* as a log to replay; the commit moves the accepted one to the request's  *)
(* main slot, and the one on a multiple of the interval to its track slot. *)
(*                                                                         *)
(* A GDN state is named by the tokens folded into it; a window and a side  *)
(* state are the last tokens.  Layers are alike and one stands for all.    *)
(* "side" stands for the n-gram context and the short conv state, which    *)
(* are laid out, gathered and committed alike.                             *)
(*                                                                         *)
(* Slot allocation and results that arrive late are in MambaSlots.         *)
(***************************************************************************)
EXTENDS Integers, Sequences, FiniteSets, SequencesExt

CONSTANTS
  Modes,      \* kinds of server: "decode", "chain", "tree", and "replay", the
              \* chain with QWENFAST_GDN_REPLAY
  Reqs,       \* requests, admitted in numerical order
  NumRows,    \* request pool rows besides the padding row, row 0; scratch rows,
              \* and rows of a graph
  NumSlots,   \* slots besides the dummy, slot 0
  MaxDraft,   \* --speculative-num-draft-tokens: what scratch is sized by
  Drafts,     \* the draft token counts an adaptive server switches between
  Win,        \* conv kernel - 1, and n-gram size - 1
  Interval,   \* mamba_track_interval and mamba_cache_chunk_size, here alike
  EosAt,      \* positions of a prompt that hold EOS
  Chunks,     \* bound: prefill chunk lengths
  Prompt,     \* bound: prompt length
  MaxLen,     \* bound: committed length
  MaxRetract  \* bound: retractions

ASSUME RecurrentAssumption ==
  /\ Modes \subseteq {"decode", "chain", "tree", "replay"}
  /\ Reqs \subseteq Nat \ {0} /\ IsFiniteSet(Reqs) /\ NumRows \in Nat \ {0} /\ NumSlots \in Nat
  /\ MaxDraft \in Nat \ {0} /\ Drafts \subseteq 1..MaxDraft
  /\ Win \in Nat \ {0} /\ Chunks \subseteq Nat \ {0}
  /\ EosAt \subseteq Nat /\ Prompt \in Nat \ {0} /\ MaxLen \in Nat /\ MaxRetract \in Nat
\* GDNAttnBackend asserts it: a tracked window never reaches into the last chunk.
ASSUME ChunkAssumption == Interval \in Nat /\ Win < Interval

VARIABLES
  mode,     \* the kind of server
  slot,     \* slot[b][s]: what buffer b holds in slot s
  index,    \* req_index_to_mamba_index_mapping
  row,      \* row[r]: req_pool_idx
  track,    \* track[r]: the track slot
  tracked,  \* tracked[r]: the length it is a snapshot of, or 0
  toks,     \* toks[r]: the tokens prefilled and accepted
  status,   \* status[r]
  cached,   \* cached[s]: the tokens the prefix cache holds slot s to be, or <<>>
  scratch,  \* what the last verify computed
  round,    \* the verify not yet committed: the requests by batch row
  host,     \* host[r]: the copy a retracted request left
  retracts  \* retractions so far

vars == <<mode, slot, index, row, track, tracked, toks, status, cached, scratch, round, host,
          retracts>>

Slots == 1..NumSlots
Dummy == 0
Rows  == 0..NumRows - 1   \* of a batch
PoolRows == 1..NumRows    \* row 0 is the padding row
NoRow == 0

\* A token, by its request, the length it was computed at and its node in the
\* window of that round.
Token(r, at, node) == <<r, at, node>>
Pad  == Token(0, 0, 0)   \* zero, and the EOS that fills an n-gram context
Junk == Token(0, 0, 1)   \* of no request
IsEos(t) == t = Pad \/ (t[3] = 0 /\ t[2] \in EosAt)

Sides == IF mode = "tree" THEN {} ELSE {"side"}  \* PLE refuses topk > 1
Buffers == {"gdn", "conv"} \cup Sides

LastOf(s) == SubSeq(s, Len(s) - Win + 1, Len(s))
Zeros == [i \in 1..Win |-> Pad]

\* What buffer b holds after the tokens s.
After(b, s) == IF b = "gdn" THEN s ELSE LastOf(Zeros \o s)
Cleared == [b \in Buffers |-> After(b, <<>>)]

main(r) == index[row[r]]
len(r)  == Len(toks[r])
Idle    == round = <<>>
Of(st)  == {r \in Reqs : status[r] = st}
Active  == Of("prefill") \cup Of("running")

-----------------------------------------------------------------------------
(* Index arithmetic.  Faulty... is a plausible mistake in the definition    *)
(* below it; nothing else refers to it.                                    *)

Boundary(n) == (n \div Interval) * Interval
Crosses(pre, post) == pre \div Interval # post \div Interval

\* mamba_track_aligned_lens: of a chunk after pre, the tokens the snapshot
\* covers.  The scheduler adds 1 to a length it forces.
TrackSeqlen(post) == Boundary(post) + 1
FaultyAligned(pre, post) == TrackSeqlen(post) - pre
Aligned(pre, post) == Boundary(TrackSeqlen(post) - pre)

\* _ple_track_targets: where a side state is tracked; masked rows go nowhere.
FaultyTrackTarget(r, mask) == track[r]
TrackTarget(r, mask) == IF mask THEN track[r] ELSE Dummy

\* _prepare_ple_batch: the slot of row i of a graph; order is the batch.  The
\* padding rows write no KV, and go nowhere whatever pool row an earlier batch
\* left them.
FaultySideSlot(order, i) == IF i < Len(order) THEN main(order[i + 1]) ELSE index[i + 1]
SideSlot(order, i) == IF i < Len(order) THEN main(order[i + 1]) ELSE Dummy

\* fused_commit_track_indices: the node whose state is committed, and the one on
\* a multiple of the interval, or -1; path lists the accepted nodes.
CommitStep(path) == path[Len(path)]
FaultyTrackStep(pre, path) ==
  IF Crosses(pre, pre + Len(path)) THEN Boundary(pre + Len(path)) - pre - 1 ELSE -1
TrackStep(pre, path) ==
  IF Crosses(pre, pre + Len(path)) THEN path[Boundary(pre + Len(path)) - pre] ELSE -1

-----------------------------------------------------------------------------
(* Scratch memory.                                                         *)

\* The snapshots are one buffer: row i's begin where the pitch puts them, in
\* the kernel that writes them and in the scatter that reads them.
FaultyPitch(d) == d
Pitch(d) == MaxDraft
Cell(i, j, pitch) == i * pitch + j
Cells == 0..NumRows * MaxDraft - 1

\* A conv window's elements, by node: deduplicated, consecutive windows of a
\* chain share all but one.
FaultyDedup == TRUE
Dedup == mode # "tree"
Element(j, w) == IF Dedup THEN j + w ELSE j * Win + w
ConvCells == 0..MaxDraft * Win + MaxDraft

\* Nodes of a window of d and their parents; a chain, or any tree.
Trees(d) ==
  IF mode = "tree" THEN {p \in [1..d - 1 -> 0..d - 2] : \A j \in 1..d - 1 : p[j] < j}
  ELSE {[j \in 1..d - 1 |-> j - 1]}
Draft(r, j) == Token(r, len(r), j)

\* The drafts of r from the root to node j.
PathTo(r, p, j) ==
  LET path[n \in 0..j] ==
        IF n = 0 THEN <<Draft(r, 0)>> ELSE Append(path[p[n]], Draft(r, n))
  IN  path[j]

\* fused_sigmoid_gating_delta_rule_update: each node starts from its parent's
\* state.  It is stored, or its operands are logged; d was computed against the
\* state before the node.
Before(r, p, j) ==
  IF j = 0 THEN slot.gdn[main(r)]
  ELSE slot.gdn[main(r)] \o PathTo(r, p, p[j])
Snapshots(order, d, p) ==
  [c \in Cells |->
     LET nodes == {n \in (0..Len(order) - 1) \X (0..d - 1) : Cell(n[1], n[2], Pitch(d)) = c}
         n == CHOOSE n \in nodes : TRUE
         r == order[n[1] + 1]
     IN  IF nodes = {} THEN scratch.snap[c] ELSE Append(Before(r, p, n[2]), Draft(r, n[2]))]
Logged(order, d, p) ==
  [i \in Rows |-> IF i < Len(order)
     THEN [j \in 0..MaxDraft - 1 |->
             IF j < d THEN [at |-> Before(order[i + 1], p, j), tok |-> Draft(order[i + 1], j)]
             ELSE scratch.log[i][j]]
     ELSE scratch.log[i]]

\* causal_conv1d_update stores the window after each node, node after node: a
\* cell keeps the last element stored there.
Windows(order, d, p) ==
  [i \in Rows |-> IF i < Len(order)
     THEN LET r == order[i + 1]
              win(j) == LastOf(slot.conv[main(r)] \o PathTo(r, p, j))
              within(j, c) == {w \in 0..Win - 1 : Element(j, w) = c}
              by(c) == {j \in 0..d - 1 : within(j, c) # {}}
          IN  [c \in ConvCells |->
                 IF by(c) = {} THEN scratch.conv[i][c]
                 ELSE LET j == Max(by(c)) IN win(j)[1 + Max(within(j, c))]]
     ELSE scratch.conv[i]]

\* The side state followed by the row's tokens, padded to the row width, and the
\* state off tokens into them.
Context(state, new, width) == state \o new \o [i \in 1..width - Len(new) |-> Pad]
Gather(context, off) == SubSeq(context, off + 1, off + Win)

\* _shift_right_ignore_eos: the token k before the last of a window, unless an
\* EOS comes between; the last token's own is not one.
FaultyEosIn(window) == {i \in 1..Win + 1 : IsEos(window[i])}
EosIn(window) == {i \in 1..Win : IsEos(window[i])}
Shifted(window, k) ==
  IF \A i \in EosIn(window) : i <= Win - k THEN window[Win + 1 - k] ELSE Pad

\* _commit_ple_batch and _short_conv in a verify: every step's state.
SideSteps(order, d) ==
  [i \in Rows |-> IF i < Len(order)
     THEN LET r == order[i + 1]
              context == Context(slot.side[main(r)], [j \in 1..d |-> Draft(r, j - 1)], d)
          IN  [j \in 0..MaxDraft - 1 |->
                 IF j < d THEN Gather(context, j + 1) ELSE scratch.side[i][j]]
     ELSE scratch.side[i]]

\* wpgdn_replay_commit_kernel: replays the log of row i from the state in the
\* main slot; a step applied to another state than its own yields none.
FaultyStop(step) == step - 1
Stop(step) == step
Replay(i, from, step) ==
  LET h[n \in 0..Stop(step) + 1] ==
        IF n = 0 THEN from
        ELSE IF scratch.log[i][n - 1].at = h[n - 1]
             THEN Append(h[n - 1], scratch.log[i][n - 1].tok) ELSE <<Junk>>
  IN  h[Stop(step) + 1]

\* What the commit stores for row i at node j of buffer b.
Committed(b, i, r, j) ==
  CASE b = "gdn"  -> IF scratch.active[i] THEN Replay(i, slot.gdn[main(r)], j)
                     ELSE scratch.snap[Cell(i, j, MaxDraft)]
    [] b = "conv" -> [w \in 1..Win |-> scratch.conv[i][Element(j, w - 1)]]
    [] b = "side" -> scratch.side[i][j]

\* The scratch of no verify.  What an earlier one left is not told apart: it is no
\* state of a request either.
Blank ==
  [active |-> [i \in Rows |-> FALSE],
   snap |-> [c \in Cells |-> <<Junk>>],
   log  |-> [i \in Rows |-> [j \in 0..MaxDraft - 1 |-> [at |-> <<Junk>>, tok |-> Junk]]],
   conv |-> [i \in Rows |-> [c \in ConvCells |-> Junk]],
   side |-> [i \in Rows |-> [j \in 0..MaxDraft - 1 |-> [w \in 1..Win |-> Junk]]]]

-----------------------------------------------------------------------------
(* Slots and rows.                                                         *)

Owned == {track[r] : r \in Active} \cup {main(r) : r \in Active}
Free == {s \in Slots : s \notin Owned /\ cached[s] = <<>>}
FreeRows == {w \in PoolRows : \A r \in Active : row[r] # w}
Least(S) == CHOOSE x \in S : \A y \in S : x <= y

\* clear_slots and copy_from: the buffers of a slot, siblings included.
FaultySetSlot(s, state) == [b \in Buffers |->
  IF b = "side" THEN slot[b] ELSE [slot[b] EXCEPT ![s] = state[b]]]
SetSlot(s, state) == [b \in Buffers |-> [slot[b] EXCEPT ![s] = state[b]]]
Read(s) == [b \in Buffers |-> slot[b][s]]

\* get_cpu_copy and load_cpu_copy: they carry the siblings too.
FaultyHostCopy(s) == [b \in Buffers |-> IF b = "side" THEN Zeros ELSE slot[b][s]]
HostCopy(s) == Read(s)

\* One write for every row of a batch, to one buffer: a slot keeps the last.
\* Nowhere is a write that a mask leaves out.
Write(buf, writes) ==
  [s \in DOMAIN buf |->
     LET to == {i \in DOMAIN writes : writes[i][1] = s}
     IN  IF to = {} THEN buf[s] ELSE writes[Max(to)][2]]
Nowhere == <<-1, <<>>>>
\* Two stores of a batch; what rows without a request store lands in the dummy
\* slot, and is nobody's state.
WriteLive(buf, first, second) ==
  [Write(Write(buf, first), second) EXCEPT ![Dummy] = buf[Dummy]]

\* r takes pool row w, a main and a track slot, and starts from state.
Take(r, w, state) ==
  LET m == Least(Free)
      t == Least(Free \ {m})
  IN /\ Cardinality(Free) > 1
     /\ row' = [row EXCEPT ![r] = w]
     /\ index' = [index EXCEPT ![w] = m]
     /\ track' = [track EXCEPT ![r] = t]
     /\ tracked' = [tracked EXCEPT ![r] = 0]
     /\ slot' = SetSlot(m, state)

-----------------------------------------------------------------------------
\* A request arrives, with nothing or with a prefix whose state is cached.
Admit(r, w, src) ==
  /\ Idle /\ status[r] = "new" /\ \A q \in Reqs : q < r => status[q] # "new"
  /\ w \in FreeRows
  /\ src # Dummy => Len(cached[src]) \in 1..Prompt - 1
  /\ Take(r, w, IF src = Dummy THEN Cleared ELSE Read(src))
  /\ toks' = [toks EXCEPT ![r] = IF src = Dummy THEN <<>> ELSE cached[src]]
  /\ status' = [status EXCEPT ![r] = "prefill"]
  /\ UNCHANGED <<mode, cached, scratch, round, host, retracts>>

\* A prefill batch, in any order: n[r] tokens of each request of it, in rows
\* padded to the longest.  A chunk that crosses the interval is snapshot there.
Extend(B, n) ==
  LET new(r) == [i \in 1..n[r] |-> Token(r, len(r) + i - 1, 0)]
      post(r) == len(r) + n[r]
      mask(r) == Crosses(len(r), post(r))
      upto(r) == SubSeq(new(r), 1, Boundary(post(r)) - len(r))
      width == Max({n[r] : r \in DOMAIN n})
      context(r) == Context(slot.side[main(r)], new(r), width)
      clamped(r) == LET a == Aligned(len(r), post(r)) IN
                    IF a > n[r] THEN n[r] ELSE IF a < 0 THEN 0 ELSE a
      \* has_initial_states
      initial(r) == IF len(r) > 0 THEN slot.conv[main(r)] ELSE Zeros
      state(b, r) ==
        CASE b = "gdn"  -> slot.gdn[main(r)] \o new(r)
          [] b = "conv" -> LastOf(initial(r) \o new(r))
          [] b = "side" -> Gather(context(r), n[r])
      mains(b) == [i \in DOMAIN B |-> <<main(B[i]), state(b, B[i])>>]
      tracks(b) == [i \in DOMAIN B |->
        CASE b = "side" -> <<TrackTarget(B[i], mask(B[i])), Gather(context(B[i]), clamped(B[i]))>>
          [] b # "side" /\ ~mask(B[i]) -> Nowhere
          [] b = "gdn" /\ mask(B[i]) -> <<track[B[i]], slot.gdn[main(B[i])] \o upto(B[i])>>
          [] b = "conv" /\ mask(B[i]) -> <<track[B[i]], LastOf(upto(B[i]))>>]
  IN
  /\ Idle /\ B # <<>>
  /\ \A r \in DOMAIN n : /\ status[r] = "prefill" /\ post(r) <= Prompt
                         /\ post(r) = Prompt \/ post(r) % Interval = 0
  /\ slot' = [b \in Buffers |->
       IF b = "conv" THEN WriteLive(slot[b], tracks(b), mains(b))
       ELSE WriteLive(slot[b], mains(b), tracks(b))]
  /\ toks' = [r \in Reqs |-> IF r \in DOMAIN n THEN toks[r] \o new(r) ELSE toks[r]]
  /\ tracked' = [r \in Reqs |->
       IF r \in DOMAIN n THEN IF mask(r) THEN Boundary(post(r)) ELSE tracked[r] ELSE tracked[r]]
  /\ status' = [r \in Reqs |->
       IF r \in DOMAIN n THEN IF post(r) = Prompt THEN "running" ELSE status[r] ELSE status[r]]
  /\ UNCHANGED <<mode, index, row, track, cached, scratch, round, host, retracts>>

\* A decode under a graph: the batch's rows, then padding rows.  Then the states
\* on the interval are copied to the track slots.
Decode(B) ==
  LET t(r) == Token(r, len(r), 0)
      mask(r) == Crosses(len(r), len(r) + 1)
      next(b, r) == IF b = "gdn" THEN Append(slot.gdn[main(r)], t(r))
                    ELSE LastOf(Append(slot[b][main(r)], t(r)))
      mains(b) ==
        IF b # "side" THEN [i \in DOMAIN B |-> <<main(B[i]), next(b, B[i])>>]
        ELSE [i \in 1..NumRows |->
                <<SideSlot(B, i - 1),
                  IF i <= Len(B) THEN next(b, B[i])
                  ELSE LastOf(Append(slot.side[SideSlot(B, i - 1)], Junk))>>]
      tracks(b) == [i \in DOMAIN B |->
        IF b # "side" /\ ~mask(B[i]) THEN Nowhere
        ELSE <<TrackTarget(B[i], mask(B[i])), next(b, B[i])>>]
  IN
  /\ mode = "decode" /\ B # <<>> /\ \A r \in Of("running") : len(r) < MaxLen
  /\ slot' = [b \in Buffers |-> WriteLive(slot[b], mains(b), tracks(b))]
  /\ toks' = [r \in Reqs |-> IF r \in Of("running") THEN Append(toks[r], t(r)) ELSE toks[r]]
  /\ tracked' = [r \in Reqs |->
       IF r \in Of("running") THEN IF mask(r) THEN len(r) + 1 ELSE tracked[r] ELSE tracked[r]]
  /\ UNCHANGED <<mode, index, row, track, status, cached, scratch, round, host, retracts>>

\* The target verify of a window of d for every running request, in any order.
Verify(order, d, p) ==
  /\ mode # "decode" /\ Idle /\ order # <<>>
  /\ \A r \in Of("running") : len(r) < MaxLen
  /\ scratch' =
       [active |-> [i \in Rows |-> IF i < Len(order) THEN mode = "replay" ELSE scratch.active[i]],
        snap |-> IF mode = "replay" THEN scratch.snap ELSE Snapshots(order, d, p),
        log  |-> IF mode = "replay" THEN Logged(order, d, p) ELSE scratch.log,
        conv |-> Windows(order, d, p),
        side |-> IF mode = "tree" THEN scratch.side ELSE SideSteps(order, d)]
  /\ round' = [order |-> order, width |-> d, parent |-> p]
  /\ UNCHANGED <<mode, slot, index, row, track, tracked, toks, status, cached, host, retracts>>

\* The acceptance: a path down each tree from its root.
Paths(d, p) ==
  {q \in UNION {[1..k -> 0..d - 1] : k \in 1..d} :
     q[1] = 0 /\ \A k \in 2..Len(q) : q[k] > 0 /\ p[q[k]] = q[k - 1]}

\* scatter_mamba_states_after_mtp_verify: every row's main slot, then every
\* row's track slot.
Commit(path) ==
  LET order == round.order
      step(r) == TrackStep(len(r), path[r])
      mains(b) == [i \in DOMAIN order |->
        <<main(order[i]), Committed(b, i - 1, order[i], CommitStep(path[order[i]]))>>]
      tracks(b) == [i \in DOMAIN order |->
        IF step(order[i]) < 0 THEN Nowhere
        ELSE <<track[order[i]], Committed(b, i - 1, order[i], step(order[i]))>>]
      accepted(q) == [k \in 1..Len(path[q]) |-> Draft(q, path[q][k])]
  IN
  /\ slot' = [b \in Buffers |-> Write(Write(slot[b], mains(b)), tracks(b))]
  /\ toks' = [q \in Reqs |-> IF q \in DOMAIN path THEN toks[q] \o accepted(q) ELSE toks[q]]
  /\ tracked' = [q \in Reqs |->
       IF q \in DOMAIN path
       THEN IF Crosses(len(q), len(q) + Len(path[q])) THEN Boundary(len(q) + Len(path[q]))
            ELSE tracked[q]
       ELSE tracked[q]]
  /\ round' = <<>>
  /\ scratch' = Blank
  /\ UNCHANGED <<mode, index, row, track, status, cached, host, retracts>>

\* The request ends; its snapshot, if it has one, may stay in the prefix cache.
Finish(r, keep) ==
  /\ Idle /\ status[r] = "running"
  /\ keep => tracked[r] > 0
  /\ status' = [status EXCEPT ![r] = "done"]
  /\ cached' = IF keep THEN [cached EXCEPT ![track[r]] = SubSeq(toks[r], 1, tracked[r])]
               ELSE cached
  /\ UNCHANGED <<mode, slot, index, row, track, tracked, toks, scratch, round, host, retracts>>

\* A retracted request leaves its state on the host, and resumes in other slots.
Retract(r) ==
  /\ Idle /\ status[r] = "running" /\ retracts < MaxRetract
  /\ host' = [host EXCEPT ![r] = HostCopy(main(r))]
  /\ status' = [status EXCEPT ![r] = "retracted"]
  /\ retracts' = retracts + 1
  /\ UNCHANGED <<mode, slot, index, row, track, tracked, toks, cached, scratch, round>>

Resume(r, w) ==
  /\ Idle /\ status[r] = "retracted"
  /\ w \in FreeRows
  /\ Take(r, w, host[r])
  /\ host' = [host EXCEPT ![r] = <<>>]
  /\ status' = [status EXCEPT ![r] = "running"]
  /\ UNCHANGED <<mode, toks, cached, scratch, round, retracts>>

\* The prefix cache gives a slot back.
Evict(s) ==
  /\ Idle /\ cached[s] # <<>>
  /\ cached' = [cached EXCEPT ![s] = <<>>]
  /\ UNCHANGED <<mode, slot, index, row, track, tracked, toks, status, scratch, round, host,
                 retracts>>

-----------------------------------------------------------------------------
Init ==
  /\ mode \in Modes
  /\ slot = [b \in Buffers |-> [s \in Slots \cup {Dummy} |-> Cleared[b]]]
  /\ index = [w \in PoolRows |-> Dummy]
  /\ row = [r \in Reqs |-> NoRow]
  /\ track = [r \in Reqs |-> Dummy]
  /\ tracked = [r \in Reqs |-> 0]
  /\ toks = [r \in Reqs |-> <<>>]
  /\ status = [r \in Reqs |-> "new"]
  /\ cached = [s \in Slots |-> <<>>]
  /\ scratch = Blank
  /\ round = <<>>
  /\ host = [r \in Reqs |-> <<>>]
  /\ retracts = 0

Next ==
  \/ \E r \in Reqs, w \in PoolRows, src \in Slots \cup {Dummy} : Admit(r, w, src)
  \/ \E S \in SUBSET Of("prefill") : \E B \in SetToSeqs(S), n \in [S -> Chunks] : Extend(B, n)
  \/ \E B \in SetToSeqs(Of("running")) : Decode(B)
  \/ \E order \in SetToSeqs(Of("running")), d \in Drafts : \E p \in Trees(d) :
       Verify(order, d, p)
  \/ /\ ~Idle
     /\ \E path \in [Of("running") -> Paths(round.width, round.parent)] : Commit(path)
  \/ \E r \in Reqs, keep \in BOOLEAN : Finish(r, keep)
  \/ \E r \in Reqs : Retract(r)
  \/ \E r \in Reqs, w \in PoolRows : Resume(r, w)
  \/ \E s \in Slots : Evict(s)

Spec == Init /\ [][Next]_vars

-----------------------------------------------------------------------------
(* Correctness.                                                            *)

\* Every buffer of a request's main slot is that of exactly its tokens, the
\* rejected drafts left out, whatever the batch order, the window, the padding,
\* the slots it had before and the requests that had them.
StateExact ==
  Idle => \A r \in Active, b \in Buffers :
            slot[b][main(r)] = After(b, toks[r])

\* A snapshot, and the prefix cache that keeps it, is of exactly the tokens up to
\* the multiple of the interval it stands for, in every buffer.
TrackExact ==
  /\ \A r \in Active, b \in Buffers :
       tracked[r] > 0 => slot[b][track[r]] = After(b, SubSeq(toks[r], 1, tracked[r]))
  /\ \A s \in Slots, b \in Buffers :
       cached[s] # <<>> => slot[b][s] = After(b, cached[s])

\* The n-grams of the next tokens, decoded or drafted, are those of the request's
\* whole text, no further back than the last EOS, though each is computed from a
\* window over the side state.
Reference(s, k) ==
  IF Len(s) > k /\ \A i \in Len(s) - k..Len(s) - 1 : ~IsEos(s[i]) THEN s[Len(s) - k] ELSE Pad
GramsExact ==
  \A r \in Active :
    LET next == [j \in 1..MaxDraft |-> Draft(r, j - 1)] IN
    mode # "tree" => \A j \in 1..MaxDraft, k \in 1..Win :
      Shifted(SubSeq(Context(slot.side[main(r)], next, MaxDraft), j, j + Win), k)
        = Reference(toks[r] \o SubSeq(next, 1, j), k)
=============================================================================
