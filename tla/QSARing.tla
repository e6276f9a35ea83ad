------------------------------ MODULE QSARing ------------------------------
(***************************************************************************)
(* The compressed key cache of the Qwen sparse attention (QSA) indexer.    *)
(*                                                                         *)
(* Ratio consecutive tokens form a group.  A group's compressed key is     *)
(* pooled from the raw index keys of its members when the last member is   *)
(* computed; until then the raw keys wait in a per-request pending ring of *)
(* RingSize rows.  Speculative forwards store the keys of tokens that may  *)
(* be rejected, so a forward can overwrite rows, and compress groups, that *)
(* a later forward has to be able to repair.                               *)
(*                                                                         *)
(* A key is identified by who computed it, in which of its forwards and at *)
(* which position; every forward computes new keys, so a stale read is     *)
(* always visible.  This is the oracle of bench/test_qsa_ring.py.          *)
(*                                                                         *)
(* One instance of the module is one pool: the target model's or the MTP   *)
(* draft model's.  The target never takes DraftStep.  Compressed entries   *)
(* are addressed by (request, group), the address req_to_token and the     *)
(* page-aligned allocator resolve to one physical slot.                    *)
(***************************************************************************)
EXTENDS Integers, FiniteSets

CONSTANTS
  NumReqs,      \* request slots 1..NumReqs; slot 0 is never allocated
  Ratio,        \* qsa_compress_ratio
  RingSize,     \* qsa_ring_size
  Width,        \* speculative_num_draft_tokens: rows per request of a window
  PageSize,     \* tokens of a full-KV page
  CaptureBs,    \* batch size of the captured CUDA graph
  HostLayout,   \* TRUE: padded windows laid out on the host, not by the kernels
  MaxLen,       \* bound: context length
  MaxTurn       \* bound: forwards per request slot

ASSUME RatioAssumption == Ratio \in Nat /\ Ratio >= 2
ASSUME SizeAssumption  == /\ NumReqs \in Nat \ {0}
                          /\ RingSize \in Nat \ {0}
                          /\ Width \in Nat \ {0}
                          /\ MaxLen \in Nat \ {0}
                          /\ MaxTurn \in Nat
                          /\ CaptureBs \in Nat
                          /\ HostLayout \in BOOLEAN
ASSUME PageAssumption  == /\ PageSize \in Nat \ {0}
                          /\ PageSize % Ratio = 0
\* What _require_chain_speculation demands before a target verify.
ASSUME RingAssumption  == Width + Ratio - 1 <= RingSize

VARIABLES
  phase,  \* phase[r]: "free", "prefill" (chunks left) or "decode"
  len,    \* len[r]: committed tokens of the request in slot r
  tok,    \* tok[r][p]: the key of the committed token at position p
  spec,   \* spec[r]: tokens drafted past len[r] by DraftStep
  turn,   \* turn[r]: forwards slot r took part in, over all its requests
  ring,   \* ring[r][i]: qsa_key_state_buffer row r * RingSize + i
  comp,   \* comp[r][g][k]: member k of the compressed entry of group g
  view    \* view[r]: what the rows of r's last forward should have attended

vars == <<phase, len, tok, spec, turn, ring, comp, view>>

Slots     == 1..NumReqs
Positions == 0..(MaxLen - 1)
Groups    == 0..((MaxLen \div Ratio) - 1)
Members   == 0..(Ratio - 1)
RingRows  == 0..(RingSize - 1)

Key       == [req : Nat, turn : Nat, pos : Nat]
NoKey     == [req |-> 0, turn |-> 0, pos |-> 0]
\* The key a padding row computes: position 0, owned by no request.
PadKey    == [req |-> 0, turn |-> 1, pos |-> 0]
NewKey(r, p) == [req |-> r, turn |-> turn[r], pos |-> p]

Context   == [len : Nat, key : [Positions -> Key]]

-----------------------------------------------------------------------------
(* Addressing.  A definition named Faulty... is a plausible mistake in the  *)
(* one below it; nothing else refers to it.                                *)

\* The context fits the request's req_to_token row.
Fits(n) == n <= MaxLen

\* Row of position p in its request's ring.
FaultyRingRow(p) == p % Ratio
RingRow(p) == p % RingSize

\* Position of member k of group g, and first position of n's group.
At(g, k) == g * Ratio + k
GroupStart(n) == (n \div Ratio) * Ratio

\* Ring row of member k of group g: (group_end - (Ratio-1-k)) % RingSize.
FaultyGroupRow(g, k) == At(g, k) % Ratio
GroupRow(g, k) == RingRow(At(g, k))

\* Positions of an extend whose group the chunk does not complete.
FaultyPendingTail(n) == {p \in Positions : p > GroupStart(n) /\ p < n}
PendingTail(n) == {p \in Positions : p >= GroupStart(n) /\ p < n}

\* Groups whose last member is among the positions from..to-1.
FaultyCompletedIn(from, to) ==
  {g \in Groups : from <= At(g, Ratio) /\ At(g, Ratio) <= to}
CompletedIn(from, to) ==
  {g \in Groups : from < At(g, Ratio) /\ At(g, Ratio) <= to}

\* r's ring after the keys of the positions in ps are stored.
Stored(r, ps) ==
  [i \in RingRows |->
     IF \E p \in ps : RingRow(p) = i
     THEN NewKey(r, CHOOSE p \in ps : RingRow(p) = i)
     ELSE ring[r][i]]

\* Keys of r's first `to` positions when those from `from` on are new.
Extended(r, base, from, to) ==
  [p \in Positions |-> IF from <= p /\ p < to THEN NewKey(r, p)
                       ELSE IF p < from THEN base[p] ELSE NoKey]

-----------------------------------------------------------------------------
(* Admission and prefill.                                                  *)

\* A request takes slot r with a radix prefix of n tokens: whole pages,
\* already compressed by whoever computed them.  The ring keeps the rows of
\* the slot's previous owner.
Admit(r, n) ==
  LET prefix == Extended(r, tok[r], 0, n) IN
  /\ phase[r] = "free"
  /\ turn[r] < MaxTurn
  /\ n % PageSize = 0 /\ Fits(n + 1)
  /\ phase' = [phase EXCEPT ![r] = "prefill"]
  /\ len'   = [len EXCEPT ![r] = n]
  /\ tok'   = [tok EXCEPT ![r] = prefix]
  /\ turn'  = [turn EXCEPT ![r] = @ + 1]
  /\ comp'  = [comp EXCEPT ![r] =
                 [g \in Groups |-> IF At(g, Ratio) <= n
                                   THEN [k \in Members |-> prefix[At(g, k)]]
                                   ELSE comp[r][g]]]
  /\ view'  = [view EXCEPT ![r] = [len |-> n, key |-> prefix]]
  /\ UNCHANGED <<spec, ring>>

\* One prefill chunk of m tokens.  The write plan compresses every group the
\* chunk completes straight from the chunk's keys; only the tail of the last,
\* incomplete group goes to the request's ring, everything else to the dump
\* rows of slot 0.
Extend(r, m, final) ==
  LET n    == len[r]
      keys == Extended(r, tok[r], n, n + m)
  IN
  /\ phase[r] = "prefill"
  /\ turn[r] < MaxTurn
  /\ m > 0 /\ Fits(n + m)
  /\ n % Ratio = 0                              \* asserted by the write plan
  /\ final \/ (n + m) % PageSize = 0            \* the scheduler cuts at pages
  /\ phase' = [phase EXCEPT ![r] = IF final THEN "decode" ELSE "prefill"]
  /\ len'   = [len EXCEPT ![r] = n + m]
  /\ tok'   = [tok EXCEPT ![r] = keys]
  /\ turn'  = [turn EXCEPT ![r] = @ + 1]
  /\ ring'  = [ring EXCEPT ![r] = Stored(r, PendingTail(n + m))]
  /\ comp'  = [comp EXCEPT ![r] =
                 [g \in Groups |-> IF g \in CompletedIn(n, n + m)
                                   THEN [k \in Members |-> keys[At(g, k)]]
                                   ELSE comp[r][g]]]
  /\ view'  = [view EXCEPT ![r] = [len |-> n + m, key |-> keys]]
  /\ UNCHANGED spec

-----------------------------------------------------------------------------
(* Paged forwards: decode, target verify, draft extend.                    *)

\* How the stores of a replay's padding rows land among those of its real
\* rows: there are none, or the scatter applies them first, or last.
Padding == {"none", "first", "last"}

\* Whose ring the padding rows store to.  The layout kernels, and the runners
\* of one-row forwards, give them slot 0; the host layouts of a speculative
\* window of batch B (graph fallback, eager DP padding) give them the batch's
\* first request.
FaultyPadSlot(B, w) == CHOOSE r \in B : TRUE
PadSlot(B, w) == IF HostLayout /\ w > 1 THEN CHOOSE r \in B : TRUE ELSE 0

\* r's ring after the forward stored the keys of its positions ps, and its
\* padding rows, of length 1, ring row 0 of slot q.
PagedRing(r, ps, pad, q) ==
  LET hit == \/ pad = "last"
             \/ pad = "first" /\ \A p \in ps : RingRow(p) # RingRow(0)
  IN  IF q = r /\ hit THEN [Stored(r, ps) EXCEPT ![RingRow(0)] = PadKey]
      ELSE Stored(r, ps)

\* The compressed entries of r after it: each row that ends a group pools the
\* ring rows of its members.  All stores of a layer precede all reads.
PagedComp(r, ringAfter, from, to) ==
  [g \in Groups |-> IF g \in CompletedIn(from, to)
                    THEN [k \in Members |-> ringAfter[GroupRow(g, k)]]
                    ELSE comp[r][g]]

\* One decode row per request past the tokens drafted so far (draft decode
\* steps without index sharing); commits nothing.
DraftStep(B, pad) ==
  LET at(r)   == len[r] + spec[r]
      base(r) == IF spec[r] = 0 THEN tok[r] ELSE view[r].key
  IN
  /\ B # {}
  /\ pad # "none" => Cardinality(B) < CaptureBs
  /\ \A r \in B : /\ phase[r] = "decode"
                  /\ turn[r] < MaxTurn
                  /\ spec[r] + 2 < Width
                  /\ Fits(at(r) + 1)
  /\ \A r, q \in B : spec[r] = spec[q]
  /\ spec' = [r \in Slots |-> IF r \in B THEN spec[r] + 1 ELSE spec[r]]
  /\ turn' = [r \in Slots |-> IF r \in B THEN turn[r] + 1 ELSE turn[r]]
  /\ ring' = [r \in Slots |-> IF r \in B THEN PagedRing(r, {at(r)}, pad, PadSlot(B, 1))
                              ELSE ring[r]]
  /\ comp' = [r \in Slots |->
                IF r \in B THEN PagedComp(r, ring'[r], at(r), at(r) + 1)
                ELSE comp[r]]
  /\ view' = [r \in Slots |->
                IF r \in B
                THEN [len |-> at(r) + 1,
                      key |-> Extended(r, base(r), at(r), at(r) + 1)]
                ELSE view[r]]
  /\ UNCHANGED <<phase, len, tok>>

\* A window of w rows per request from the committed length on, of which
\* accept[r] are committed: target verify and draft extend (w = Width), plain
\* decode (w = 1).
Window(B, w, accept, pad) ==
  LET last(r) == len[r] + w
      keys(r) == Extended(r, tok[r], len[r], last(r))
  IN
  /\ B # {}
  /\ pad # "none" => Cardinality(B) < CaptureBs
  /\ \A r \in B : /\ phase[r] = "decode"
                  /\ turn[r] < MaxTurn
                  /\ accept[r] \in 1..w
                  /\ Fits(last(r))
  /\ len'  = [r \in Slots |-> IF r \in B THEN len[r] + accept[r] ELSE len[r]]
  /\ tok'  = [r \in Slots |->
                IF r \in B
                THEN Extended(r, tok[r], len[r], len[r] + accept[r])
                ELSE tok[r]]
  /\ spec' = [r \in Slots |-> IF r \in B THEN 0 ELSE spec[r]]
  /\ turn' = [r \in Slots |-> IF r \in B THEN turn[r] + 1 ELSE turn[r]]
  /\ ring' = [r \in Slots |->
                IF r \in B THEN PagedRing(r, len[r]..(last(r) - 1), pad, PadSlot(B, w))
                ELSE ring[r]]
  /\ comp' = [r \in Slots |->
                IF r \in B THEN PagedComp(r, ring'[r], len[r], last(r))
                ELSE comp[r]]
  /\ view' = [r \in Slots |->
                IF r \in B THEN [len |-> last(r), key |-> keys(r)] ELSE view[r]]
  /\ UNCHANGED phase

\* The request finishes or is retracted: its slot is free for another one.
\* Neither ring nor compressed entries are cleared.
Release(r) ==
  /\ phase[r] # "free"
  /\ phase' = [phase EXCEPT ![r] = "free"]
  /\ len'   = [len EXCEPT ![r] = 0]
  /\ tok'   = [tok EXCEPT ![r] = [p \in Positions |-> NoKey]]
  /\ spec'  = [spec EXCEPT ![r] = 0]
  /\ view'  = [view EXCEPT ![r] = [len |-> 0, key |-> [p \in Positions |-> NoKey]]]
  /\ UNCHANGED <<turn, ring, comp>>

-----------------------------------------------------------------------------
Init ==
  /\ phase = [r \in Slots |-> "free"]
  /\ len   = [r \in Slots |-> 0]
  /\ tok   = [r \in Slots |-> [p \in Positions |-> NoKey]]
  /\ spec  = [r \in Slots |-> 0]
  /\ turn  = [r \in Slots |-> 0]
  /\ ring  = [r \in Slots |-> [i \in RingRows |-> NoKey]]
  /\ comp  = [r \in Slots |-> [g \in Groups |-> [k \in Members |-> NoKey]]]
  /\ view  = [r \in Slots |-> [len |-> 0, key |-> [p \in Positions |-> NoKey]]]

Next ==
  \/ \E r \in Slots, n \in 0..MaxLen : Admit(r, n)
  \/ \E r \in Slots, m \in 1..MaxLen, final \in BOOLEAN : Extend(r, m, final)
  \/ \E B \in SUBSET Slots, pad \in Padding : DraftStep(B, pad)
  \/ \E B \in SUBSET Slots, w \in {1, Width}, pad \in Padding :
       \E accept \in [B -> 1..w] : Window(B, w, accept, pad)
  \/ \E r \in Slots : Release(r)

Spec == Init /\ [][Next]_vars

-----------------------------------------------------------------------------
(* Correctness.                                                            *)

\* Types of the pool's state and of the oracle.
TypeOK ==
  /\ phase \in [Slots -> {"free", "prefill", "decode"}]
  /\ len   \in [Slots -> 0..MaxLen]
  /\ tok   \in [Slots -> [Positions -> Key]]
  /\ spec  \in [Slots -> 0..Width]
  /\ turn  \in [Slots -> Nat]
  /\ ring  \in [Slots -> [RingRows -> Key]]
  /\ comp  \in [Slots -> [Groups -> [Members -> Key]]]
  /\ view  \in [Slots -> Context]

\* The rows of a forward attend true history: every group complete in the
\* context of a row, drafted tokens included, is pooled from exactly the keys
\* of that context, whatever earlier windows stored and had rejected and
\* whoever used the request slot before.
RowsSeeHistory ==
  \A r \in Slots : \A g \in Groups : \A k \in Members :
    At(g, Ratio) <= view[r].len
      => comp[r][g][k] = view[r].key[At(g, k)]

\* Rollback loses nothing: when drafts are rejected the raw keys of the
\* committed tokens of the incomplete group are still in the ring, for the
\* window that will complete the group.
PendingGroupKept ==
  \A r \in Slots : phase[r] = "decode" =>
    \A p \in Positions :
      (p >= GroupStart(len[r]) /\ p < len[r])
        => ring[r][RingRow(p)] = tok[r][p]

\* Once all tokens of a group are committed its compressed entry is final:
\* no later window, accepted or rejected, rewrites it.
CommittedGroupsFinal ==
  [][\A r \in Slots : \A g \in Groups :
       (phase[r] # "free" /\ phase'[r] # "free" /\ At(g, Ratio) <= len[r])
         => comp'[r][g] = comp[r][g]]_vars
=============================================================================
