----------------------------- MODULE MambaSlots -----------------------------
(***************************************************************************)
(* The slots of recurrent (GDN) state behind HybridReqToTokenPool.         *)
(*                                                                         *)
(* A running request owns a main slot, the state of its committed tokens,  *)
(* and a ping-pong buffer of track slots, into one of which every forward  *)
(* that carries the request over a multiple of Interval snapshots the      *)
(* state there.  The last snapshot is donated to the prefix cache, which   *)
(* later requests start from.                                              *)
(*                                                                         *)
(* The scheduler learns how many drafts a verify accepted only after it    *)
(* launched the next forward (overlap).  The GPU runs forwards in launch   *)
(* order, so a forward's effects on the slots are those of its launch; its *)
(* result waits in flight.                                                 *)
(*                                                                         *)
(* The content of a slot is named by the request that computed it and the  *)
(* number of tokens it is the state of.                                    *)
(***************************************************************************)
EXTENDS Integers, Sequences, FiniteSets

CONSTANTS
  NumSlots,  \* --max-mamba-cache-size
  Reqs,      \* request pool rows
  Overlaps,  \* kinds of server: the values of enable_overlap_schedule
  Interval,  \* mamba_track_interval
  Width,     \* speculative_num_draft_tokens
  Chunks,    \* bound: prefill chunk lengths
  MaxLen,    \* bound: context length
  MaxId      \* bound: requests served

ASSUME MambaAssumption ==
  /\ NumSlots \in Nat /\ Overlaps \subseteq BOOLEAN
  /\ Interval \in Nat \ {0} /\ Width \in Nat \ {0}
  /\ Chunks \subseteq Nat \ {0} /\ MaxLen \in Nat /\ MaxId \in Nat
\* No two consecutive windows cross a multiple of Interval.
ASSUME IntervalAssumption == 2 * Width <= Interval

VARIABLES
  overlap,  \* enable_overlap_schedule
  free,     \* mamba_allocator's free slots
  kv,       \* kv[r]: req.kv of the request in row r
  mapping,  \* req_index_to_mamba_ping_pong_track_buffer_mapping
  cached,   \* cached[s]: what the prefix cache holds slot s to be
  gpu,      \* gpu[s]: the state in slot s
  now,      \* now[r]: the state of r's tokens, drafts rejected so far excluded
  flight,   \* results of forwards launched and not processed, oldest first
  ids       \* requests served

vars == <<overlap, free, kv, mapping, cached, gpu, now, flight, ids>>

Slots == 1..NumSlots
NoSlot == 0
Idx   == IF overlap THEN {0, 1} ELSE {0}  \* mamba_ping_pong_track_buffer_size

State(id, n) == [id |-> id, len |-> n]
Zero    == State(0, 0)   \* a cleared slot
NoLabel == State(0, -1)  \* not cached

NoBuffer == [i \in Idx |-> NoSlot]
NoKv == [phase |-> "free", id |-> 0, main |-> NoSlot, pp |-> NoBuffer, next |-> 0,
         last |-> 0, tracked |-> 0, len |-> 0, cow |-> NoSlot]

\* The scheduler has no forward outstanding, or does not wait for one.
Settled == overlap \/ flight = <<>>

-----------------------------------------------------------------------------
(* Index arithmetic.  Faulty... is a plausible mistake in the definition    *)
(* below it; nothing else refers to it.                                    *)

\* get_mamba_ping_pong_other_idx
FaultyOther(i) == i
Other(i) == IF overlap THEN 1 - i ELSE i

\* fused_commit_track_indices: the window row after which the state is the
\* request's, and the one to snapshot, or -1.
Crosses(pre, post) == pre \div Interval # post \div Interval
Boundary(post) == (post \div Interval) * Interval
FaultyCommitStep(al) == al
CommitStep(al) == al - 1
FaultyTrackStep(pre, al) ==
  IF Crosses(pre, pre + al) THEN Boundary(pre + al) - pre ELSE -1
TrackStep(pre, al) ==
  IF Crosses(pre, pre + al) THEN Boundary(pre + al) - pre - 1 ELSE -1

\* The record of a request that the scheduler learns has reached post tokens:
\* the buffer turns if a snapshot was taken on the way.
Turned(q, post) ==
  LET cross == Crosses(q.len, post) IN
  [q EXCEPT !.len = post,
     !.tracked = IF cross THEN Boundary(post) ELSE @,
     !.last = IF cross THEN q.next ELSE @,
     !.next = IF cross THEN Other(q.next) ELSE @]

\* The track slots free_mamba_cache frees when index keep stays behind (-1:
\* none does).
FaultyFreed(m, keep) == {m[i] : i \in Idx}
Freed(m, keep) == {m[i] : i \in Idx \ {keep}}

\* set_mamba_ping_pong_slot: the device mapping after the buffer is pp.
FaultySynced(m, r, pp) == m
Synced(m, r, pp) == [m EXCEPT ![r] = pp]

\* A slot the allocator hands out.
Pick(S) == CHOOSE s \in S : TRUE

-----------------------------------------------------------------------------
(* A request's life.                                                       *)

\* alloc: a request takes row r with nothing, or with the prefix whose state
\* is cached in slot src.  What its slots hold is left to the first forward.
Admit(r, src) ==
  LET main == Pick(free)
      pp0  == Pick(free \ {main})
      pp1  == Pick(free \ {main, pp0})
      pp   == [i \in Idx |-> IF i = 0 THEN pp0 ELSE pp1]
  IN
  /\ Settled
  /\ kv[r].phase = "free"
  /\ ids < MaxId
  /\ Cardinality(free) > Cardinality(Idx)  \* else alloc's assertions fail
  /\ src # NoSlot => cached[src] # NoLabel
  /\ ids' = ids + 1
  /\ free' = free \ ({main} \cup {pp[i] : i \in Idx})
  /\ kv' = [kv EXCEPT ![r] =
              [phase |-> "prefill", id |-> ids + 1, main |-> main, pp |-> pp,
               next |-> 0, last |-> Other(0), tracked |-> 0,
               len |-> IF src = NoSlot THEN 0 ELSE cached[src].len, cow |-> src]]
  /\ mapping' = [mapping EXCEPT ![r] = pp]
  /\ now' = [now EXCEPT ![r] = IF src = NoSlot THEN Zero ELSE cached[src]]
  /\ UNCHANGED <<overlap, cached, gpu, flight>>

\* A prefill chunk of n tokens: the deferred clear or copy of the main slot,
\* the chunk, and the snapshot at the last multiple of Interval it reaches.
\* The scheduler turns the ping-pong buffer as it prepares the forward.
Prefill(r, n, final) ==
  LET q     == kv[r]
      pre   == q.len
      start == IF q.cow # NoSlot THEN gpu[q.cow] ELSE IF pre = 0 THEN Zero ELSE gpu[q.main]
      cross == Crosses(pre, pre + n)
      held  == [gpu EXCEPT ![q.main] = State(q.id, start.len + n)]
  IN
  /\ Settled
  /\ q.phase = "prefill"
  /\ pre + n <= MaxLen
  /\ final \/ (pre + n) % Interval = 0  \* chunks end at pages
  /\ gpu' = IF cross
            THEN [held EXCEPT ![mapping[r][q.next]] =
                    State(q.id, start.len + (Boundary(pre + n) - pre))]
            ELSE held
  /\ now' = [now EXCEPT ![r] = State(q.id, pre + n)]
  /\ kv' = [kv EXCEPT ![r] =
              [Turned(q, pre + n) EXCEPT
                 !.phase = IF final THEN "decode" ELSE "prefill", !.cow = NoSlot]]
  /\ UNCHANGED <<overlap, free, mapping, cached, flight, ids>>

\* A target verify of every decoding request, of which al[r] rows of r are
\* accepted, and the commit of the states after it.
Verify(al) ==
  LET B == DOMAIN al
      pre(r)  == now[r].len
      step(r) == TrackStep(pre(r), al[r])
      after(r, t) == State(kv[r].id, gpu[kv[r].main].len + t + 1)
  IN
  /\ B # {} /\ B = {r \in Reqs : kv[r].phase = "decode"}
  /\ Len(flight) < (IF overlap THEN 2 ELSE 1)
  /\ \A r \in B : al[r] \in 1..Width /\ pre(r) + Width <= MaxLen
  /\ gpu' = [s \in Slots |->
               IF \E r \in B : step(r) >= 0 /\ mapping[r][kv[r].next] = s
               THEN LET r == CHOOSE r \in B : mapping[r][kv[r].next] = s
                    IN  after(r, step(r))
               ELSE IF \E r \in B : kv[r].main = s
               THEN LET r == CHOOSE r \in B : kv[r].main = s
                    IN  after(r, CommitStep(al[r]))
               ELSE gpu[s]]
  /\ now' = [r \in Reqs |-> IF r \in B THEN State(kv[r].id, pre(r) + al[r]) ELSE now[r]]
  /\ flight' = Append(flight, [r \in B |-> [id |-> kv[r].id, al |-> al[r]]])
  /\ UNCHANGED <<overlap, free, kv, mapping, cached, ids>>

\* The scheduler processes the oldest result: for each request still running
\* it learns the length, and turns the ping-pong buffer if it was snapshot.
Process ==
  LET res   == Head(flight)
      mine(r) == r \in DOMAIN res /\ kv[r].id = res[r].id
  IN
  /\ flight # <<>>
  /\ flight' = Tail(flight)
  /\ kv' = [r \in Reqs |->
              IF mine(r) THEN Turned(kv[r], kv[r].len + res[r].al) ELSE kv[r]]
  /\ UNCHANGED <<overlap, free, mapping, cached, gpu, now, ids>>

\* donate_mamba_ping_pong_slot: the last snapshot goes to the prefix cache and
\* a new slot takes its place.  A prefix the cache has already is freed.
Donate(r, exists) ==
  LET q   == kv[r]
      new == Pick(free)
      pp  == [q.pp EXCEPT ![q.last] = new]
      old == q.pp[q.last]
  IN
  /\ Settled
  /\ q.phase # "free" /\ q.tracked > 0
  /\ free # {}
  /\ free' = IF exists THEN (free \ {new}) \cup {old} ELSE free \ {new}
  /\ cached' = IF exists THEN cached ELSE [cached EXCEPT ![old] = State(q.id, q.tracked)]
  /\ kv' = [kv EXCEPT ![r] = [q EXCEPT !.pp = pp, !.tracked = 0]]
  /\ mapping' = Synced(mapping, r, pp)
  /\ UNCHANGED <<overlap, gpu, now, flight, ids>>

\* free_mamba_cache: the request ends.  If keep, its last snapshot stays with
\* the prefix cache (finish); if not, nothing does (retract, or cached already).
Finish(r, keep) ==
  LET q == kv[r] IN
  /\ Settled
  /\ q.phase # "free"
  /\ keep => q.tracked > 0
  /\ free' = free \cup {q.main}
                  \cup Freed(mapping[r], IF keep THEN q.last ELSE -1)
  /\ cached' = IF keep THEN [cached EXCEPT ![q.pp[q.last]] = State(q.id, q.tracked)]
               ELSE cached
  /\ kv' = [kv EXCEPT ![r] = NoKv]
  /\ now' = [now EXCEPT ![r] = Zero]
  /\ UNCHANGED <<overlap, mapping, gpu, flight, ids>>

\* The prefix cache drops an entry that no admitted request still has to copy.
Evict(s) ==
  /\ cached[s] # NoLabel
  /\ \A r \in Reqs : kv[r].cow # s
  /\ cached' = [cached EXCEPT ![s] = NoLabel]
  /\ free' = free \cup {s}
  /\ UNCHANGED <<overlap, kv, mapping, gpu, now, flight, ids>>

\* clear: the idle server drops the whole cache.
Clear ==
  /\ flight = <<>> /\ \A r \in Reqs : kv[r].phase = "free"
  /\ free' = Slots
  /\ cached' = [s \in Slots |-> NoLabel]
  /\ mapping' = [r \in Reqs |-> NoBuffer]
  /\ UNCHANGED <<overlap, kv, gpu, now, flight, ids>>

-----------------------------------------------------------------------------
Init ==
  /\ overlap \in Overlaps
  /\ free = Slots
  /\ kv = [r \in Reqs |-> NoKv]
  /\ mapping = [r \in Reqs |-> NoBuffer]
  /\ cached = [s \in Slots |-> NoLabel]
  /\ gpu = [s \in Slots |-> Zero]
  /\ now = [r \in Reqs |-> Zero]
  /\ flight = <<>>
  /\ ids = 0

Next ==
  \/ \E r \in Reqs, src \in Slots \cup {NoSlot} : Admit(r, src)
  \/ \E r \in Reqs, n \in Chunks, final \in BOOLEAN : Prefill(r, n, final)
  \/ \E B \in SUBSET Reqs : \E al \in [B -> 1..Width] : Verify(al)
  \/ Process
  \/ \E r \in Reqs, b \in BOOLEAN : Donate(r, b) \/ Finish(r, b)
  \/ \E s \in Slots : Evict(s)
  \/ Clear

Spec == Init /\ [][Next]_vars

-----------------------------------------------------------------------------
(* Correctness.                                                            *)

\* Types of the pool's and the scheduler's state.
Content == [id : 0..MaxId, len : Int]
Label   == [id : 0..MaxId, len : Nat] \cup {NoLabel}
Result  == UNION {[B -> [id : 1..MaxId, al : 1..Width]] : B \in SUBSET Reqs}
Kv == [phase : {"free", "prefill", "decode"}, id : 0..MaxId,
       main : Slots \cup {NoSlot}, pp : [Idx -> Slots \cup {NoSlot}],
       next : Idx, last : Idx, tracked : Nat, len : Nat, cow : Slots \cup {NoSlot}]
TypeOK ==
  /\ overlap \in BOOLEAN
  /\ free \subseteq Slots
  /\ kv \in [Reqs -> Kv]
  /\ mapping \in [Reqs -> [Idx -> Slots \cup {NoSlot}]]
  /\ cached \in [Slots -> Label]
  /\ gpu \in [Slots -> Content]
  /\ now \in [Reqs -> Content]
  /\ flight \in Seq(Result)
  /\ ids \in 0..MaxId

\* The slots of request r.
Own(r) == {kv[r].main} \cup {kv[r].pp[i] : i \in Idx}

\* No slot leaks and none is owned twice, through admission, donation, finish,
\* retraction, eviction and flush: it is free, or cached, or one request's, and
\* a request's slots are all different.
SlotsConserved ==
  /\ \A s \in Slots :
       /\ s \in free \/ cached[s] # NoLabel \/ \E r \in Reqs : s \in Own(r)
       /\ s \in free => cached[s] = NoLabel
       /\ \A r \in Reqs : s \in Own(r) =>
            /\ s \notin free /\ cached[s] = NoLabel
            /\ \A q \in Reqs : s \in Own(q) => q = r
  /\ \A r \in Reqs : kv[r].phase # "free" =>
       \A i, j \in Idx : /\ kv[r].pp[i] # kv[r].main
                         /\ i # j => kv[r].pp[i] # kv[r].pp[j]

\* The main slot of a request past its first forward holds the state of exactly
\* its committed tokens, rejected drafts excluded.
MainExact ==
  \A r \in Reqs :
    /\ kv[r].phase # "free" /\ kv[r].id = now[r].id => gpu[kv[r].main] = now[r]
    /\ kv[r].cow # NoSlot => gpu[kv[r].cow] = now[r]

\* The snapshot the scheduler would give the prefix cache is of exactly the
\* tokens it believes, whatever forwards it has launched since.
TrackedExact ==
  \A r \in Reqs :
    Settled /\ kv[r].tracked > 0 => gpu[kv[r].pp[kv[r].last]] = State(kv[r].id, kv[r].tracked)

\* A cached state stays that of its prefix: no forward in flight when the slot
\* was donated, and none later, writes it.
CachedExact ==
  \A s \in Slots : cached[s] # NoLabel => gpu[s] = cached[s]
=============================================================================
