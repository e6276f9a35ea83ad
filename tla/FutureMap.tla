------------------------------ MODULE FutureMap -----------------------------
(***************************************************************************)
(* The FutureMap relay of the overlap scheduler with stash elision.        *)
(*                                                                         *)
(* A stash is recorded instead of scattered into the pool-indexed buffers; *)
(* if the very next resolve is of the same draft input, it keeps the       *)
(* tensors it holds and the buffers are never touched.  Everything else    *)
(* must first write the recorded stash.  A stashed tensor may live in a    *)
(* CUDA graph's static output, which the next forward overwrites.          *)
(*                                                                         *)
(* One scheduler thread drives it: resolve, forward, stash, and between    *)
(* them filter, merge and finish.  The GPU runs the calls in this order.   *)
(* Tensor identity (Python's `is`) is an id; a value is the forward that   *)
(* computed it and the row it is for.                                      *)
(***************************************************************************)
EXTENDS Naturals, Sequences, SequencesExt

CONSTANTS
  Rows,      \* request pool rows the scheduler uses
  NoRow,     \* no request's row
  Elide,     \* QWEN relay elision on
  MaxClock   \* bound: forwards and bonus stashes

ASSUME FutureMapAssumption ==
  /\ Rows # {} /\ IsFiniteSet(Rows) /\ NoRow \notin Rows
  /\ Elide \in BOOLEAN
  /\ MaxClock \in Nat

VARIABLES
  buf,       \* buf[r]: output_tokens_buf and the spec extras' buffers
  deferred,  \* _deferred: recorded stashes
  graphOut,  \* the static output: what its i-th row holds
  running,   \* draft input of the running batch
  prefilled, \* draft input of a prefill batch not merged yet
  cur,       \* the forward in progress: its future indices and rows
  pc,        \* "schedule", "forward" or "stash"
  clock,     \* version of the last forward or bonus stash
  given      \* what the forward in progress was given, by row

vars == <<buf, deferred, graphOut, running, prefilled, cur, pc, clock, given>>

Val(v, r) == [ver |-> v, row |-> r]
None      == [ver |-> 0, row |-> NoRow]
Value     == [ver : Nat, row : Rows] \cup {None}
Cell      == [bonus : Value, extra : Value]
Idle      == [bonus |-> None, extra |-> None]

\* A payload's tensors and how its forward ran: the extras of a "graph" one live
\* in the static output.
NoPay   == [id |-> 0, kind |-> "none", bonus |-> <<>>, extra |-> <<>>]
NoInput == [idx |-> 0, rows |-> <<>>, pay |-> NoPay]

RowSet(in) == Range(in.rows)
Live       == RowSet(running) \cup RowSet(prefilled) \cup RowSet(cur)
Free       == Rows \ Live

\* The identity of an indices tensor made now: none that is still held.
Held   == {running.idx, prefilled.idx, cur.idx} \cup {d.idx : d \in Range(deferred)}
NewIdx == CHOOSE n \in 1..5 : n \notin Held

-----------------------------------------------------------------------------
(* The relay.  Faulty... is a plausible mistake in the definition below it. *)

\* The extras a payload's tensor holds now.
Extra(pay) == IF pay.kind = "graph" THEN SubSeq(graphOut, 1, Len(pay.bonus)) ELSE pay.extra

\* The inputs of row i of a payload.
Inputs(pay, i) == [bonus |-> pay.bonus[i], extra |-> Extra(pay)[i]]

\* _stash_now: scatter the payload over its rows.
FaultyStashNow(b, d) ==
  [r \in Rows |-> IF r \in Range(d.rows)
                  THEN LET i == CHOOSE i \in DOMAIN d.rows : d.rows[i] = r
                       IN  [b[r] EXCEPT !.bonus = d.pay.bonus[i]]
                  ELSE b[r]]
StashNow(b, d) ==
  [r \in Rows |-> IF r \in Range(d.rows)
                  THEN Inputs(d.pay, CHOOSE i \in DOMAIN d.rows : d.rows[i] = r)
                  ELSE b[r]]

\* _flush_deferred: the buffers after every recorded stash, in order.
Flushed ==
  LET after[i \in 0..Len(deferred)] == IF i = 0 THEN buf ELSE StashNow(after[i - 1], deferred[i])
  IN  after[Len(deferred)]

\* resolve_forward_inputs writes the recorded stashes first, unless only
\* _resolve_spec_extras reads the buffers.
FaultyFlushOnEntry(kind) == kind = "mixed"
FlushOnEntry(kind) == kind # "decode"

\* _try_elided_resolve: the one recorded stash is of this draft input's very
\* indices and tensors.
FaultyCanElide(in) ==
  /\ Len(deferred) = 1
  /\ deferred[1].pay.id = in.pay.id
CanElide(in) ==
  /\ Len(deferred) = 1
  /\ deferred[1].idx = in.idx
  /\ deferred[1].pay.id = in.pay.id
  /\ Len(in.rows) = Len(in.pay.bonus)

-----------------------------------------------------------------------------
(* Forward entry.                                                          *)

\* A decode forward of the running batch.
ResolveDecode ==
  /\ pc = "schedule" /\ prefilled = NoInput /\ running # NoInput
  /\ clock < MaxClock
  /\ IF CanElide(running)
     THEN /\ given' = [r \in RowSet(running) |->
                         Inputs(running.pay,
                                CHOOSE i \in DOMAIN running.rows : running.rows[i] = r)]
          /\ UNCHANGED buf
     ELSE /\ given' = [r \in RowSet(running) |-> Flushed[r]]
          /\ buf' = Flushed
  /\ deferred' = <<>>
  /\ cur' = [running EXCEPT !.pay = NoPay]
  /\ running' = NoInput
  /\ pc' = "forward"
  /\ UNCHANGED <<graphOut, prefilled, clock>>

\* A prefill forward of new rows; mixed takes the running rows along,
\* gathering their bonus tokens only.
ResolvePrefill(new, mixed) ==
  LET kind == IF mixed THEN "mixed" ELSE "prefill"
      b    == IF FlushOnEntry(kind) THEN Flushed ELSE buf
  IN
  /\ pc = "schedule" /\ prefilled = NoInput
  /\ new # <<>>
  /\ clock < MaxClock
  /\ mixed => running # NoInput
  /\ buf' = b
  /\ deferred' = IF FlushOnEntry(kind) THEN <<>> ELSE deferred
  /\ given' = [r \in IF mixed THEN RowSet(running) ELSE {} |->
                 [b[r] EXCEPT !.extra = None]]
  /\ cur' = [idx |-> NewIdx, pay |-> NoPay,
             rows |-> IF mixed THEN new \o running.rows ELSE new]
  /\ running' = IF mixed THEN NoInput ELSE running
  /\ pc' = "forward"
  /\ UNCHANGED <<graphOut, prefilled, clock>>

\* The forward leaves a payload.  A replayed graph overwrites the static output
\* and the payload's extras point into it; otherwise they are tensors of their
\* own, and a draft-extend that was skipped leaves one the buffers hold more of.
Forward(kind) ==
  LET v    == clock + 1
      vals == [i \in DOMAIN cur.rows |-> Val(v, cur.rows[i])]
  IN
  /\ pc = "forward"
  /\ clock' = v
  /\ graphOut' = [i \in DOMAIN graphOut |->
                    IF kind # "graph" THEN graphOut[i]
                    ELSE IF i \in DOMAIN vals THEN vals[i] ELSE Val(v, NoRow)]
  /\ cur' = [cur EXCEPT !.pay = [id |-> v, kind |-> kind, bonus |-> vals,
                                 extra |-> IF kind = "graph" THEN <<>> ELSE vals]]
  /\ pc' = "stash"
  /\ UNCHANGED <<buf, deferred, running, prefilled, given>>

\* stash: flush what is recorded, then record this payload, if it has all the
\* buffers hold (_can_defer), or write it.  The draft input goes to the running
\* batch, or waits for its merge.
Stash ==
  LET d == [idx |-> cur.idx, rows |-> cur.rows, pay |-> cur.pay] IN
  /\ pc = "stash"
  /\ IF Elide /\ cur.pay.kind # "skipped"
     THEN buf' = Flushed /\ deferred' = <<d>>
     ELSE buf' = StashNow(Flushed, d) /\ deferred' = <<>>
  /\ IF running = NoInput
     THEN running' = cur /\ UNCHANGED prefilled
     ELSE prefilled' = cur /\ UNCHANGED running
  /\ cur' = NoInput
  /\ given' = [r \in {} |-> Idle]
  /\ pc' = "schedule"
  /\ UNCHANGED <<graphOut, clock>>

-----------------------------------------------------------------------------
(* Between forwards.                                                       *)

\* stash_bonus_tokens: flush, then write output_tokens_buf rows only.
StashBonus(S) ==
  /\ pc = "schedule" /\ clock < MaxClock
  /\ S # {} /\ S \subseteq Live  \* no forward is under way
  /\ clock' = clock + 1
  /\ buf' = [r \in Rows |-> IF r \in S
                            THEN [Flushed[r] EXCEPT !.bonus = Val(clock + 1, r)]
                            ELSE Flushed[r]]
  /\ deferred' = <<>>
  /\ UNCHANGED <<graphOut, running, prefilled, cur, pc, given>>

\* Requests of the running batch finish: its indices are re-indexed by the
\* places kept, into a new tensor; its other tensors are left alone.
Keeps(in) == UNION {{keep \in [1..n -> DOMAIN in.rows] : \A i, j \in 1..n : i < j => keep[i] < keep[j]} :
                    n \in 0..Len(in.rows) - 1}
Filter(keep) ==
  /\ pc = "schedule"
  /\ running' = IF keep = <<>> THEN NoInput
                ELSE [running EXCEPT !.idx = NewIdx,
                                     !.rows = [i \in DOMAIN keep |-> running.rows[keep[i]]]]
  /\ UNCHANGED <<buf, deferred, graphOut, prefilled, cur, pc, clock, given>>

\* The prefilled batch joins the running one: the indices are concatenated.
\* An empty running batch is replaced.
Merge ==
  /\ pc = "schedule" /\ prefilled # NoInput
  /\ running' = IF running = NoInput THEN prefilled
                ELSE [running EXCEPT !.idx = NewIdx,
                                     !.rows = @ \o prefilled.rows]
  /\ prefilled' = NoInput
  /\ UNCHANGED <<buf, deferred, graphOut, cur, pc, clock, given>>

-----------------------------------------------------------------------------
Init ==
  /\ buf = [r \in Rows |-> Idle]
  /\ deferred = <<>>
  /\ graphOut = [i \in 1..Cardinality(Rows) |-> None]
  /\ running = NoInput /\ prefilled = NoInput /\ cur = NoInput
  /\ pc = "schedule" /\ clock = 0
  /\ given = [r \in {} |-> Idle]

Next ==
  \/ ResolveDecode
  \/ \E S \in SUBSET Free : \E new \in SetToSeqs(S), mixed \in BOOLEAN :
       ResolvePrefill(new, mixed)
  \/ \E kind \in {"graph", "eager", "skipped"} : Forward(kind)
  \/ Stash
  \/ \E S \in SUBSET Rows : StashBonus(S)
  \/ \E keep \in Keeps(running) : Filter(keep)
  \/ Merge

Spec == Init /\ [][Next]_vars

-----------------------------------------------------------------------------
(* Correctness.                                                            *)

\* Types of the relay's state.
TypeOK ==
  /\ buf \in [Rows -> Cell]
  /\ \A i \in DOMAIN deferred : RowSet(deferred[i]) \subseteq Rows
  /\ Live \subseteq Rows
  /\ pc \in {"schedule", "forward", "stash"}
  /\ clock \in Nat
  /\ \A r \in DOMAIN given : given[r] \in Cell

\* What an elided resolve keeps is what the scatter and gather round trip would
\* have returned.
ElisionExact ==
  pc = "schedule" /\ running # NoInput /\ CanElide(running) =>
    \A i \in DOMAIN running.rows :
      Inputs(running.pay, i) = Flushed[running.rows[i]]

\* A forward never overwrites a static output that a recorded stash still
\* points into.
NoClobber ==
  [][graphOut' # graphOut =>
       \A i \in DOMAIN deferred : deferred[i].pay.kind # "graph"]_vars

\* What waits for row r: nothing for rows that are free or in a forward.
Waiting(r) ==
  LET held == {i \in DOMAIN deferred : r \in RowSet(deferred[i])} IN
  IF r \notin RowSet(running) \cup RowSet(prefilled) THEN Idle
  ELSE IF held = {} THEN buf[r]
  ELSE LET d == deferred[CHOOSE i \in held : \A j \in held : j <= i]
       IN  Inputs(d.pay, CHOOSE i \in DOMAIN d.rows : d.rows[i] = r)

\* The relay keeps its promise: every row is given, once and unchanged, what
\* its last forward left for it.
Relay == INSTANCE SpecRelay WITH relay <- [r \in Rows |-> Waiting(r)]
KeepsPromise == Relay!RelaySpec
=============================================================================
