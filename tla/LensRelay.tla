------------------------------ MODULE LensRelay ------------------------------
(***************************************************************************)
(* The relay of sequence lengths behind FutureMap.publish: new_seq_lens_buf *)
(* on the device, its pinned host copy, and the three CUDA streams that    *)
(* touch them.                                                             *)
(*                                                                         *)
(* The scheduler thread only enqueues work: it prepares a forward on the   *)
(* schedule stream while the previous one runs on the forward stream.  A   *)
(* forward publishes its rows' new lengths as soon as the target is done,  *)
(* and the next forward of these rows must take its lengths from there.    *)
(* A third, private stream copies the buffer to the host.                  *)
(*                                                                         *)
(* A length is named by the forward that published it, so a length that is *)
(* too old, too new or of the row's previous owner shows.                  *)
(* The names FutureMap has too are qualified: both are proved about in one  *)
(* module.                                                                 *)
(***************************************************************************)
EXTENDS Integers, Sequences

CONSTANTS
  PoolRows,   \* request pool rows
  NeedsCpu,   \* the values needs_cpu_seq_lens may have
  Debug,      \* _DEBUG_ASSERT: poison what was consumed
  MaxForward  \* bound: forwards launched

ASSUME LensAssumption ==
  NeedsCpu \in (SUBSET BOOLEAN) \ {{}} /\ Debug \in BOOLEAN /\ MaxForward \in Nat \ {0}

VARIABLES
  needs_cpu, \* needs_cpu_seq_lens
  queue,     \* queue[s]: operations enqueued on stream s and not executed
  ran,       \* ran[s]: operations s has executed
  lens_buf,  \* new_seq_lens_buf
  pinned,    \* new_seq_lens_cpu_pinned
  lens,      \* lens[k]: batch.seq_lens of forward k
  lens_cpu,  \* lens_cpu[k]: batch.seq_lens_cpu of forward k
  event,     \* publish_ready: the place of its last record on the forward stream
  step,      \* what the scheduler thread does next
  batch,     \* rows of the forward being prepared, or empty
  launched,  \* forwards launched
  live,      \* rows of the running requests
  last,      \* last[r]: the last forward launched with row r
  want       \* want[k]: `last' when forward k's lengths were resolved

lens_vars ==
  <<needs_cpu, queue, ran, lens_buf, pinned, lens, lens_cpu, event, step, batch, launched, live,
    last, want>>

Streams  == {"schedule", "forward", "fwd_prepare_d2h"}
Forwards == 1..MaxForward
Poison   == -1
NoLengths == [r \in PoolRows |-> 0]
Only(f, R) == [r \in PoolRows |-> IF r \in R THEN f[r] ELSE 0]

Op(do, k, R) == [do |-> do, k |-> k, rows |-> R]
WaitFor(s, place) == [do |-> "wait", on |-> s, at |-> place]

\* How many operations s has been given: what wait_stream(s) waits for.
Given(s) == ran[s] + Len(queue[s])

-----------------------------------------------------------------------------
(* Pieces of the code.  Faulty... is a plausible mistake in the definition  *)
(* below it; nothing else refers to it.                                    *)

\* publish_ready.wait() and wait_event(publish_ready): up to its last record.
FaultyGatherFence == <<>>
GatherFence == <<WaitFor("forward", event)>>
FaultyCopyFence == <<>>
CopyFence == <<WaitFor("forward", event)>>

\* Where the poison of the consumed rows goes: with the gather, when no copy to
\* the host follows it, or once that copy is done.
FaultyPoisonEarly == Debug
PoisonEarly == Debug /\ ~needs_cpu
PoisonLate == Debug /\ needs_cpu

\* The record of publish_ready follows the publish, and precedes the draft
\* extend.
FaultyPublishPlace == Given("forward") + 1
PublishPlace == Given("forward") + 2

-----------------------------------------------------------------------------
(* The scheduler thread.                                                   *)

\* It prepares forward k only when it has the result of forward k - 2.
CanPrepare ==
  /\ step = "idle" /\ launched < MaxForward
  /\ \A i \in 1..Len(queue["forward"]) :
       queue["forward"][i].do = "publish" => queue["forward"][i].k >= launched

\* resolve_seq_lens_cpu: the lengths of the running batch, from the buffer.
Resolve ==
  LET k == launched + 1 IN
  /\ CanPrepare /\ live # {}
  /\ queue' = [queue EXCEPT
       !["schedule"] = @ \o GatherFence \o <<Op("gather", k, live)>>
                         \o (IF PoisonEarly THEN <<Op("poison", k, live)>> ELSE <<>>),
       !["fwd_prepare_d2h"] = IF needs_cpu THEN @ \o CopyFence \o <<Op("copy", k, PoolRows)>> ELSE @]
  /\ batch' = live
  /\ want' = [want EXCEPT ![k] = Only(last, live)]
  /\ step' = IF needs_cpu THEN "synchronize" ELSE "launch"
  /\ UNCHANGED <<needs_cpu, ran, lens_buf, pinned, lens, lens_cpu, event, launched, live, last>>

\* resolve_mixed_spec_tails, at the entry of a forward that prefills row r: the
\* lengths of the decode tails, and always a host copy of them.
ResolveMixed(r) ==
  LET k == launched + 1 IN
  /\ CanPrepare /\ live # {} /\ r \in PoolRows \ live
  /\ queue' = [queue EXCEPT
       !["forward"] = @ \o <<WaitFor("schedule", Given("schedule"))>> \o GatherFence
                        \o <<Op("gather", k, live)>>,
       !["fwd_prepare_d2h"] = @ \o CopyFence \o <<Op("copy", k, PoolRows)>>]
  /\ batch' = live \cup {r}
  /\ want' = [want EXCEPT ![k] = Only(last, live)]
  /\ step' = "synchronize tails"
  /\ UNCHANGED <<needs_cpu, ran, lens_buf, pinned, lens, lens_cpu, event, launched, live, last>>

\* fwd_prepare_d2h_stream.synchronize() returns and the rows are read.
Synchronized ==
  /\ step \in {"synchronize", "synchronize tails"}
  /\ queue["fwd_prepare_d2h"] = <<>>
  /\ lens_cpu' = [lens_cpu EXCEPT ![launched + 1] = Only(pinned, live)]
  /\ queue' = IF step = "synchronize" /\ PoisonLate
              THEN [queue EXCEPT !["schedule"] = Append(@, Op("poison", launched + 1, live))]
              ELSE queue
  /\ step' = "launch"
  /\ UNCHANGED <<needs_cpu, ran, lens_buf, pinned, lens, event, batch, launched, live, last, want>>

\* A prefill of row r takes its lengths from the request.
Prefill(r) ==
  /\ CanPrepare /\ r \in PoolRows \ live
  /\ batch' = {r}
  /\ step' = "launch"
  /\ UNCHANGED <<needs_cpu, queue, ran, lens_buf, pinned, lens, lens_cpu, event, launched, live,
                 last, want>>

\* The forward, behind all that the schedule stream was given, with its publish
\* and the record of publish_ready.
Launch ==
  LET k == launched + 1 IN
  /\ step = "launch"
  /\ queue' = [queue EXCEPT !["forward"] =
                 @ \o <<WaitFor("schedule", Given("schedule")), Op("publish", k, batch)>>]
  /\ event' = PublishPlace
  /\ launched' = k
  /\ live' = live \cup batch
  /\ last' = [r \in PoolRows |-> IF r \in batch THEN k ELSE last[r]]
  /\ batch' = {}
  /\ step' = "idle"
  /\ UNCHANGED <<needs_cpu, ran, lens_buf, pinned, lens, lens_cpu, want>>

\* A request ends, maybe with a forward of its row still to run.
Release(r) ==
  /\ step = "idle" /\ r \in live
  /\ live' = live \ {r}
  /\ UNCHANGED <<needs_cpu, queue, ran, lens_buf, pinned, lens, lens_cpu, event, step, batch,
                 launched, last, want>>

-----------------------------------------------------------------------------
(* A stream executes its next operation.                                   *)

Execute(op) ==
  /\ op.do = "wait" => ran[op.on] >= op.at
  /\ lens_buf' =
       CASE op.do = "publish" -> [r \in PoolRows |-> IF r \in op.rows THEN op.k ELSE lens_buf[r]]
         [] op.do = "poison"  -> [r \in PoolRows |-> IF r \in op.rows THEN Poison ELSE lens_buf[r]]
         [] OTHER -> lens_buf
  /\ pinned' = IF op.do = "copy" THEN lens_buf ELSE pinned
  /\ lens' = IF op.do = "gather" THEN [lens EXCEPT ![op.k] = Only(lens_buf, op.rows)] ELSE lens

Run(s) ==
  /\ queue[s] # <<>>
  /\ Execute(Head(queue[s]))
  /\ queue' = [queue EXCEPT ![s] = Tail(@)]
  /\ ran' = [ran EXCEPT ![s] = @ + 1]
  /\ UNCHANGED <<needs_cpu, lens_cpu, event, step, batch, launched, live, last, want>>

-----------------------------------------------------------------------------
LensInit ==
  /\ needs_cpu \in NeedsCpu
  /\ queue = [s \in Streams |-> <<>>]
  /\ ran = [s \in Streams |-> 0]
  /\ lens_buf = NoLengths /\ pinned = NoLengths
  /\ lens = [k \in Forwards |-> NoLengths]
  /\ lens_cpu = [k \in Forwards |-> NoLengths]
  /\ event = 0
  /\ step = "idle" /\ batch = {} /\ launched = 0
  /\ live = {} /\ last = NoLengths
  /\ want = [k \in Forwards |-> NoLengths]

LensNext ==
  \/ Resolve
  \/ Synchronized
  \/ Launch
  \/ \E r \in PoolRows : ResolveMixed(r) \/ Prefill(r) \/ Release(r)
  \/ \E s \in Streams : Run(s)

LensSpec == LensInit /\ [][LensNext]_lens_vars

-----------------------------------------------------------------------------
(* Correctness.                                                            *)

\* Types of the streams, the buffers and the scheduler's state.
Lengths == [PoolRows -> Forwards \cup {0, Poison}]
LensTypes ==
  /\ needs_cpu \in NeedsCpu
  /\ \A s \in Streams : \A i \in 1..Len(queue[s]) :
       LET op == queue[s][i] IN
       IF op.do = "wait" THEN op.on \in Streams /\ op.at \in 1..Given(op.on) \cup {0}
       ELSE /\ op.do \in {"gather", "poison", "copy", "publish"}
            /\ op.k \in Forwards /\ op.rows \subseteq PoolRows
  /\ ran \in [Streams -> Nat]
  /\ lens_buf \in Lengths /\ pinned \in Lengths
  /\ lens \in [Forwards -> Lengths] /\ lens_cpu \in [Forwards -> Lengths]
  /\ event \in 0..Given("forward")
  /\ step \in {"idle", "synchronize", "synchronize tails", "launch"}
  /\ batch \subseteq PoolRows /\ live \subseteq PoolRows
  /\ launched \in 0..MaxForward
  /\ last \in [PoolRows -> 0..MaxForward] /\ want \in [Forwards -> [PoolRows -> 0..MaxForward]]

\* The lengths a forward runs with on the device are those its rows' previous
\* forward published, by the time it publishes its own.
GatherExact ==
  \A s \in Streams, k \in Forwards :
    /\ queue[s] # <<>> /\ Head(queue[s]).do = "publish" /\ Head(queue[s]).k = k
    => lens[k] = want[k]

\* The lengths the scheduler reads on the host, to plan the same forward, are
\* the same ones: neither older than the publish nor poisoned.
MirrorExact ==
  \A k \in Forwards : lens_cpu[k] # NoLengths => lens_cpu[k] = want[k]

\* No two streams are ever free to touch the same row of the buffer, one of
\* them writing.
Writes(op) == IF op.do \in {"publish", "poison"} THEN op.rows ELSE {}
Reads(op)  == IF op.do \in {"gather", "copy"} THEN op.rows ELSE {}
NoRace ==
  \A s, t \in Streams : s # t /\ queue[s] # <<>> /\ queue[t] # <<>> =>
    LET a == Head(queue[s])
        b == Head(queue[t])
    IN  Writes(a) \cap (Reads(b) \cup Writes(b)) = {}
=============================================================================
