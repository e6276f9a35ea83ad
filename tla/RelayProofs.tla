----------------------------- MODULE RelayProofs -----------------------------
(***************************************************************************)
(* Proofs about the two relays between a forward and the next one, for any *)
(* number of rows and forwards: FutureMap, the relay of draft inputs, and   *)
(* LensRelay, the relay of sequence lengths.                               *)
(***************************************************************************)
EXTENDS FutureMap, LensRelay, SequenceTheorems, FiniteSetTheorems, TLAPS

-----------------------------------------------------------------------------
(* FutureMap: elision is exact, recorded stashes are not overwritten, and   *)
(* the relay implements SpecRelay.                                         *)

\* A draft input, or a recorded stash: indices, rows and payload.
Payloads == [id : Nat, kind : {"none", "graph", "eager", "skipped"},
             bonus : Seq(Value), extra : Seq(Value)]
Inputting == [idx : Nat, rows : Seq(Rows), pay : Payloads]

\* A row is in it once.
Distinct(d) == \A i, j \in DOMAIN d.rows : d.rows[i] = d.rows[j] => i = j

\* What the forward of version v leaves for row r.
Left(v, r) == [bonus |-> Val(v, r), extra |-> Val(v, r)]

\* Its payload is what one forward left for its own rows, and still is.
Fresh(d) ==
  /\ d.pay.id \in 1..clock /\ Len(d.pay.bonus) = Len(d.rows)
  /\ \A i \in DOMAIN d.rows : Inputs(d.pay, i) = Left(d.pay.id, d.rows[i])

\* The same indices tensor holds the same rows, the same payload is one payload.
SameRows(a, b) == a.idx = b.idx => a.rows = b.rows
SamePay(a, b)  == a.pay.id = b.pay.id => a.pay = b.pay

Apart(a, b) == RowSet(a) \cap RowSet(b) = {}

Shape ==
  /\ buf \in [Rows -> Cell]
  /\ running \in Inputting /\ prefilled \in Inputting /\ cur \in Inputting
  /\ deferred \in Seq(Inputting) /\ Len(deferred) <= 1
  /\ graphOut \in [1..Cardinality(Rows) -> [ver : Nat, row : Rows \cup {NoRow}]]
  /\ pc \in {"schedule", "forward", "stash"}
  /\ clock \in 0..MaxClock

\* Where a forward stands: it starts from written buffers and leaves a payload
\* newer than any other.
Phases ==
  /\ pc = "schedule" => cur = NoInput /\ given = [r \in {} |-> Idle]
  /\ pc # "schedule" => deferred = <<>> /\ prefilled = NoInput
  /\ pc = "forward"  => clock < MaxClock /\ cur.pay = NoPay
  /\ pc = "stash"    => Fresh(cur) /\ cur.pay.id = clock /\ running.pay.id < clock
  /\ running.pay.id <= clock /\ prefilled.pay.id <= clock
  /\ \A r \in DOMAIN given : given[r] \in Cell

Inputs3 == {running, prefilled, cur}
Identity ==
  /\ \A a \in Inputs3 : Distinct(a) /\ (a.idx = 0 => a.rows = <<>>)
  /\ SameRows(running, cur) /\ SameRows(running, prefilled)
  /\ Apart(running, prefilled) /\ Apart(running, cur) /\ Apart(prefilled, cur)

\* The stash recorded last.
Recorded ==
  Len(deferred) = 1 =>
    /\ Fresh(deferred[1]) /\ Distinct(deferred[1])
    /\ deferred[1].idx = 0 => deferred[1].rows = <<>>
    /\ \A a \in {running, prefilled} : SameRows(deferred[1], a) /\ SamePay(deferred[1], a)

\* Whatever row waits for its next forward has something to be given.
Stocked ==
  \A r \in RowSet(running) \cup RowSet(prefilled) : Flushed[r].bonus.ver > 0

IInv == Shape /\ Phases /\ Identity /\ Recorded /\ Stocked

-----------------------------------------------------------------------------
(* Lemmas.                                                                 *)

LEMMA Constants ==
  /\ Rows # {} /\ IsFiniteSet(Rows) /\ NoRow \notin Rows /\ MaxClock \in Nat
  /\ Cardinality(Rows) \in Nat
BY FutureMapAssumption, FS_CardinalityType

\* Values and cells.
LEMMA Values ==
  /\ None \in Value /\ Idle \in Cell /\ NoPay \in Payloads /\ NoInput \in Inputting
  /\ Idle.bonus.ver = 0 /\ NoPay.id = 0 /\ NoInput.idx = 0 /\ NoInput.rows = <<>> /\ NoInput.pay = NoPay
  /\ \A v \in Nat, r \in Rows : Val(v, r) \in Value /\ Left(v, r) \in Cell /\ Left(v, r).bonus.ver = v
<1>1. None \in Value /\ Idle \in Cell BY DEF None, Value, Idle, Cell
<1>2. NoPay \in Payloads /\ NoInput \in Inputting
  BY EmptySeq DEF NoPay, Payloads, NoInput, Inputting
<1>3. ASSUME NEW v \in Nat, NEW r \in Rows
      PROVE  Val(v, r) \in Value /\ Left(v, r) \in Cell /\ Left(v, r).bonus.ver = v
  BY DEF Val, Value, Left, Cell
<1> QED BY <1>1, <1>2, <1>3 DEF Idle, None, NoPay, NoInput

\* The rows of a draft input.
LEMMA RowsOf ==
  ASSUME NEW d \in Inputting
  PROVE  /\ d.rows \in Seq(Rows) /\ Len(d.rows) \in Nat /\ DOMAIN d.rows = 1..Len(d.rows)
         /\ d.rows \in [DOMAIN d.rows -> Rows]
         /\ RowSet(d) \subseteq Rows /\ RowSet(d) = {d.rows[i] : i \in DOMAIN d.rows}
         /\ (d.rows = <<>> => RowSet(d) = {})
         /\ d.pay.bonus \in Seq(Value) /\ Len(d.pay.bonus) \in Nat /\ d.pay.id \in Nat /\ d.idx \in Nat
<1>1. d.rows \in Seq(Rows) /\ d.pay.bonus \in Seq(Value) /\ d.pay.id \in Nat /\ d.idx \in Nat
  BY DEF Inputting, Payloads
<1>2. Len(d.rows) \in Nat /\ DOMAIN d.rows = 1..Len(d.rows) /\ d.rows \in [DOMAIN d.rows -> Rows]
  BY <1>1, LenProperties
<1>3. RowSet(d) = {d.rows[i] : i \in DOMAIN d.rows} BY DEF RowSet, Range
<1>4. d.rows = <<>> => DOMAIN d.rows = {} OBVIOUS
<1> QED BY <1>1, <1>2, <1>3, <1>4, LenProperties

\* A draft input that names each row once has at most as many as there are.
LEMMA FewRows ==
  ASSUME NEW d \in Inputting, Distinct(d)
  PROVE  Len(d.rows) <= Cardinality(Rows)
<1>1. d.rows \in Injection(1..Len(d.rows), Rows)
  BY RowsOf DEF Distinct, Injection, IsInjective
<1>2. Cardinality(1..Len(d.rows)) <= Cardinality(Rows)
  BY <1>1, FS_Injection, Constants
<1>3. Cardinality(1..Len(d.rows)) = Len(d.rows)
  <2>1. Len(d.rows) \in Nat BY RowsOf
  <2> DEFINE n == Len(d.rows)
  <2>2. n \in Nat BY <2>1
  <2> HIDE DEF n
  <2>3. Cardinality(1..n) = IF 1 > n THEN 0 ELSE n - 1 + 1 BY <2>2, FS_Interval
  <2>4. Cardinality(1..n) = n BY <2>2, <2>3
  <2> QED BY <2>4 DEF n
<1> QED BY <1>2, <1>3

\* What a scatter writes.
LEMMA Scatter ==
  ASSUME NEW b, NEW d \in Inputting, Distinct(d), NEW r \in Rows
  PROVE  /\ r \notin RowSet(d) => StashNow(b, d)[r] = b[r]
         /\ \A i \in DOMAIN d.rows : d.rows[i] = r => StashNow(b, d)[r] = Inputs(d.pay, i)
         /\ Fresh(d) /\ r \in RowSet(d) => StashNow(b, d)[r] = Left(d.pay.id, r)
<1>1. r \notin RowSet(d) => StashNow(b, d)[r] = b[r] BY DEF StashNow, RowSet
<1>2. ASSUME NEW i \in DOMAIN d.rows, d.rows[i] = r
      PROVE  StashNow(b, d)[r] = Inputs(d.pay, i)
  <2>1. r \in Range(d.rows) BY <1>2 DEF Range
  <2>2. (CHOOSE j \in DOMAIN d.rows : d.rows[j] = r) = i BY <1>2 DEF Distinct
  <2> QED BY <2>1, <2>2 DEF StashNow
<1>3. ASSUME Fresh(d), r \in RowSet(d) PROVE StashNow(b, d)[r] = Left(d.pay.id, r)
  <2>1. PICK i \in DOMAIN d.rows : d.rows[i] = r BY <1>3, RowsOf
  <2> QED BY <1>2, <1>3, <2>1 DEF Fresh
<1> QED BY <1>1, <1>2, <1>3

\* At most one stash is recorded, so a flush is at most one scatter.
LEMMA Flush ==
  Shape => /\ deferred = <<>> => Flushed = buf
           /\ Len(deferred) = 1 => Flushed = StashNow(buf, deferred[1]) /\ deferred[1] \in Inputting
           /\ deferred = <<>> \/ Len(deferred) = 1
<1> SUFFICES ASSUME Shape
             PROVE  /\ deferred = <<>> => Flushed = buf
                    /\ Len(deferred) = 1 => Flushed = StashNow(buf, deferred[1]) /\ deferred[1] \in Inputting
                    /\ deferred = <<>> \/ Len(deferred) = 1
  OBVIOUS
<1>1. Len(deferred) \in Nat /\ Len(deferred) <= 1 /\ deferred \in Seq(Inputting)
  BY LenProperties DEF Shape
<1>2. deferred = <<>> <=> Len(deferred) = 0 BY <1>1, EmptySeq
<1>3. Len(deferred) = 1 => deferred[1] \in Inputting BY <1>1, ElementOfSeq
<1> DEFINE Step(f) == [i \in 0..Len(deferred) |-> IF i = 0 THEN buf ELSE StashNow(f[i - 1], deferred[i])]
           after == CHOOSE f : f = Step(f)
<1>4. Flushed = after[Len(deferred)] BY DEF Flushed
<1> HIDE DEF after
<1>5. CASE Len(deferred) = 0
  <2> DEFINE g == [i \in 0..Len(deferred) |-> buf]
  <2>1. g = Step(g) BY <1>5
  <2> HIDE DEF g
  <2>2. after = Step(after) BY <2>1 DEF after
  <2>3. after[0] = buf BY <2>2, <1>5
  <2> QED BY <1>2, <1>4, <1>5, <2>3
<1>6. CASE Len(deferred) = 1
  <2> DEFINE g == [i \in 0..Len(deferred) |-> IF i = 0 THEN buf ELSE StashNow(buf, deferred[1])]
  <2>1. g = Step(g)
    <3>1. \A i \in 0..Len(deferred) : i = 0 \/ i = 1 BY <1>6
    <3>2. g[0] = buf BY <1>6
    <3>3. \A i \in 0..Len(deferred) : i # 0 => i - 1 = 0 /\ i = 1 BY <1>6
    <3> QED BY <3>2, <3>3
  <2> HIDE DEF g
  <2>2. after = Step(after) BY <2>1 DEF after
  <2>3. 0 \in 0..Len(deferred) /\ 1 \in 0..Len(deferred) /\ 1 # 0 /\ 1 - 1 = 0 BY <1>6
  <2>4. after[0] = buf BY <2>2, <2>3
  <2>5. after[1] = StashNow(after[1 - 1], deferred[1])
    <3> HIDE DEF after
    <3> QED BY <2>2, <2>3
  <2>6. after[1] = StashNow(buf, deferred[1]) BY <2>3, <2>4, <2>5
  <2> QED BY <1>2, <1>3, <1>4, <1>6, <2>6
<1> QED BY <1>1, <1>2, <1>5, <1>6

\* What a flush writes, row by row.
Held1(r) == Len(deferred) = 1 /\ r \in RowSet(deferred[1])
FlushedRow(r) == Flushed[r] = IF Held1(r) THEN Left(deferred[1].pay.id, r) ELSE buf[r]
AllFlushed == Flushed \in [Rows -> Cell] /\ \A r \in Rows : FlushedRow(r)

LEMMA FlushedRows ==
  Shape /\ Recorded => Flushed \in [Rows -> Cell] /\ \A r \in Rows : FlushedRow(r)
<1> SUFFICES ASSUME Shape, Recorded
             PROVE  Flushed \in [Rows -> Cell] /\ \A r \in Rows : FlushedRow(r)
  OBVIOUS
<1>1. CASE deferred = <<>>
  <2>1. Len(deferred) = 0 BY <1>1
  <2> QED BY <1>1, <2>1, Flush DEF Shape, FlushedRow, Held1
<1>2. CASE Len(deferred) = 1
  <2>1. Flushed = StashNow(buf, deferred[1]) /\ deferred[1] \in Inputting BY <1>2, Flush
  <2>2. Fresh(deferred[1]) /\ Distinct(deferred[1]) BY <1>2 DEF Recorded
  <2>3. ASSUME NEW r \in Rows
        PROVE  Flushed[r] = (IF r \in RowSet(deferred[1]) THEN Left(deferred[1].pay.id, r) ELSE buf[r])
    BY <2>1, <2>2, Scatter
  <2>4. ASSUME NEW r \in Rows PROVE Flushed[r] \in Cell
    <3>1. deferred[1].pay.id \in Nat BY <2>1, RowsOf
    <3> QED BY <2>3, <3>1, Values DEF Shape
  <2>5. Flushed = [r \in Rows |-> Flushed[r]] BY <2>1 DEF StashNow
  <2>6. Flushed \in [Rows -> Cell] BY <2>4, <2>5
  <2> QED BY <1>2, <2>3, <2>6 DEF FlushedRow, Held1
<1> QED BY <1>1, <1>2, Flush

LEMMA FlushedRowsNext == Shape' /\ Recorded' => AllFlushed'
<1>1. Shape /\ Recorded => AllFlushed BY FlushedRows DEF AllFlushed
<1> QED BY <1>1, PTL

\* A flush before a step that records nothing.
LEMMA FlushedNext == Shape' /\ deferred' = <<>> => Flushed' = buf'
<1>1. Shape /\ deferred = <<>> => Flushed = buf BY Flush
<1>2. (Shape /\ deferred = <<>> => Flushed = buf)' BY <1>1, PTL
<1> QED BY <1>2

\* What waits for a row is what a flush would write for it.
Waits == \A r \in Rows : Waiting(r) = IF r \in RowSet(running) \cup RowSet(prefilled) THEN Flushed[r] ELSE Idle

LEMMA WaitingFlushed == Shape /\ Recorded => Waits
<1> SUFFICES ASSUME Shape, Recorded, NEW r \in Rows,
                    r \in RowSet(running) \cup RowSet(prefilled)
             PROVE  Waiting(r) = Flushed[r]
  BY DEF Waits, Waiting
<1> DEFINE held == {i \in DOMAIN deferred : r \in RowSet(deferred[i])}
<1>1. DOMAIN deferred = 1..Len(deferred) /\ Len(deferred) \in Nat BY LenProperties DEF Shape
<1>2. CASE deferred = <<>>
  <2>1. held = {} BY <1>2
  <2> QED BY <1>2, <2>1, Flush DEF Waiting
<1>3. CASE Len(deferred) = 1
  <2>1. DOMAIN deferred = {1} BY <1>1, <1>3
  <2>2. Flushed = StashNow(buf, deferred[1]) /\ deferred[1] \in Inputting /\ Distinct(deferred[1])
    BY <1>3, Flush DEF Recorded
  <2>3. CASE r \notin RowSet(deferred[1])
    <3>1. held = {} BY <2>1, <2>3
    <3> QED BY <2>2, <2>3, <3>1, Scatter DEF Waiting
  <2>4. CASE r \in RowSet(deferred[1])
    <3>1. held = {1} BY <2>1, <2>4
    <3>2. (CHOOSE i \in held : \A j \in held : j <= i) = 1 BY <3>1
    <3> DEFINE d == deferred[1]
               n == CHOOSE i \in DOMAIN d.rows : d.rows[i] = r
    <3>3. Waiting(r) = Inputs(d.pay, n) BY <3>1, <3>2 DEF Waiting
    <3>4. \E i \in DOMAIN d.rows : d.rows[i] = r BY <2>2, <2>4, RowsOf
    <3>5. n \in DOMAIN d.rows /\ d.rows[n] = r BY <3>4
    <3> HIDE DEF n
    <3> QED BY <2>2, <3>3, <3>5, Scatter
  <2> QED BY <2>3, <2>4
<1> QED BY <1>2, <1>3, Flush

\* A new indices tensor is none of those still held.
LEMMA NewTensor ==
  ASSUME Shape
  PROVE  /\ NewIdx \in 1..5
         /\ NewIdx # running.idx /\ NewIdx # prefilled.idx /\ NewIdx # cur.idx /\ NewIdx # 0
         /\ Len(deferred) = 1 => NewIdx # deferred[1].idx
<1> DEFINE a == running.idx
           b == prefilled.idx
           c == cur.idx
           e == IF Len(deferred) = 1 THEN deferred[1].idx ELSE running.idx
<1>1. Held = {a, b, c, e}
  <2>1. CASE deferred = <<>>
    <3>1. Range(deferred) = {} /\ Len(deferred) = 0 BY <2>1 DEF Range
    <3> QED BY <3>1 DEF Held
  <2>2. CASE Len(deferred) = 1
    <3>1. DOMAIN deferred = {1} BY <2>2, LenProperties DEF Shape
    <3>2. Range(deferred) = {deferred[1]} BY <3>1 DEF Range
    <3> QED BY <2>2, <3>2 DEF Held
  <2> QED BY <2>1, <2>2, Flush
<1> HIDE DEF a, b, c, e
<1>2. \E n \in 1..5 : n \notin Held
  <2>1. 1 \in 1..5 /\ 2 \in 1..5 /\ 3 \in 1..5 /\ 4 \in 1..5 /\ 5 \in 1..5 OBVIOUS
  <2>2. \/ 1 \notin {a, b, c, e} \/ 2 \notin {a, b, c, e} \/ 3 \notin {a, b, c, e}
        \/ 4 \notin {a, b, c, e} \/ 5 \notin {a, b, c, e}
    OBVIOUS
  <2> QED BY <1>1, <2>1, <2>2
<1>3. NewIdx \in 1..5 /\ NewIdx \notin Held BY <1>2 DEF NewIdx
<1> QED BY <1>1, <1>3 DEF a, b, c, e

\* An elided resolve gives what a flush and a gather would.
LEMMA Elision ==
  ASSUME IInv, CanElide(running), NEW i \in DOMAIN running.rows
  PROVE  Inputs(running.pay, i) = Flushed[running.rows[i]]
<1>1. Len(deferred) = 1 /\ deferred[1].idx = running.idx /\ deferred[1].pay.id = running.pay.id
  BY DEF CanElide
<1>2. deferred[1].rows = running.rows /\ deferred[1].pay = running.pay /\ Distinct(deferred[1])
  BY <1>1 DEF IInv, Recorded, SameRows, SamePay
<1>3. Flushed = StashNow(buf, deferred[1]) /\ deferred[1] \in Inputting BY <1>1, Flush DEF IInv
<1>4. running.rows[i] \in Rows BY RowsOf DEF IInv, Shape
<1> QED BY <1>2, <1>3, <1>4, Scatter

\* Two lists of different rows, one after the other.
LEMMA Joined ==
  ASSUME NEW s \in Seq(Rows), NEW t \in Seq(Rows), Range(s) \cap Range(t) = {},
         \A i, j \in DOMAIN s : s[i] = s[j] => i = j,
         \A i, j \in DOMAIN t : t[i] = t[j] => i = j
  PROVE  /\ s \o t \in Seq(Rows) /\ Range(s \o t) = Range(s) \cup Range(t)
         /\ \A i, j \in DOMAIN (s \o t) : (s \o t)[i] = (s \o t)[j] => i = j
<1> DEFINE u == s \o t
           m == Len(s)
           n == Len(t)
<1>1. /\ u \in Seq(Rows) /\ Len(u) = m + n
      /\ \A i \in 1..m + n : u[i] = IF i <= m THEN s[i] ELSE t[i - m]
  BY ConcatProperties
<1>2. /\ m \in Nat /\ n \in Nat /\ DOMAIN s = 1..m /\ DOMAIN t = 1..n /\ DOMAIN u = 1..m + n
  BY <1>1, LenProperties
<1> HIDE DEF u, m, n
<1>3. ASSUME NEW i \in 1..m + n
      PROVE  \/ i \in 1..m /\ u[i] = s[i] /\ u[i] \in Range(s)
             \/ i - m \in 1..n /\ i > m /\ u[i] = t[i - m] /\ u[i] \in Range(t)
  <2>0. i \in Int /\ 1 <= i /\ i <= m + n /\ m \in Int /\ n \in Int BY <1>2
  <2>1. i \in 1..m \/ (i - m \in 1..n /\ i > m) BY <2>0
  <2>2. i \in 1..m => u[i] = s[i] /\ s[i] \in Range(s) BY <1>1, <1>2 DEF Range
  <2>3. i - m \in 1..n /\ i > m => u[i] = t[i - m] /\ t[i - m] \in Range(t)
    <3>1. i > m => ~(i <= m) BY <2>0
    <3>2. i > m => u[i] = t[i - m] BY <1>1, <3>1
    <3>3. \A k \in 1..n : t[k] \in Range(t) BY <1>2 DEF Range
    <3> QED BY <3>2, <3>3
  <2> QED BY <2>1, <2>2, <2>3
<1>4. Range(u) = Range(s) \cup Range(t)
  <2>1. ASSUME NEW x \in Range(u) PROVE x \in Range(s) \cup Range(t)
    <3>1. PICK i \in DOMAIN u : u[i] = x BY DEF Range
    <3> QED BY <1>2, <1>3, <3>1
  <2>2. ASSUME NEW x \in Range(s) PROVE x \in Range(u)
    <3>1. PICK i \in 1..m : s[i] = x BY <1>2 DEF Range
    <3>2. i \in 1..m + n /\ i <= m BY <1>2
    <3> QED BY <1>1, <1>2, <3>1, <3>2 DEF Range
  <2>3. ASSUME NEW x \in Range(t) PROVE x \in Range(u)
    <3>1. PICK i \in 1..n : t[i] = x BY <1>2 DEF Range
    <3>2. i + m \in 1..m + n /\ ~(i + m <= m) /\ (i + m) - m = i BY <1>2
    <3>3. u[i + m] = t[(i + m) - m] BY <1>1, <3>2
    <3> QED BY <1>2, <3>1, <3>2, <3>3 DEF Range
  <2> QED BY <2>1, <2>2, <2>3
<1>5. ASSUME NEW i \in DOMAIN u, NEW j \in DOMAIN u, u[i] = u[j] PROVE i = j
  <2>1. \/ i \in 1..m /\ j \in 1..m /\ s[i] = s[j]
        \/ i - m \in 1..n /\ j - m \in 1..n /\ t[i - m] = t[j - m]
    BY <1>2, <1>3, <1>5
  <2>2. i \in Int /\ j \in Int /\ (i - m = j - m => i = j) BY <1>2
  <2> QED BY <1>2, <2>1, <2>2
<1> QED BY <1>1, <1>4, <1>5 DEF u

LEMMA InitInv == Init => IInv
<1> SUFFICES ASSUME Init PROVE IInv OBVIOUS
<1>0. Len(deferred) = 0 /\ RowSet(NoInput) = {}
  BY Values, RowsOf DEF Init
<1>1. Shape
  <2>1. None \in [ver : Nat, row : Rows \cup {NoRow}] BY DEF None
  <2> QED BY <1>0, <2>1, Values, Constants, EmptySeq DEF Init, Shape
<1>2. Phases BY Values DEF Init, Phases
<1>3. Identity
  <2>1. Distinct(NoInput) BY Values DEF Distinct
  <2> QED BY <1>0, <2>1, Values DEF Init, Identity, Inputs3, SameRows, Apart
<1>4. Recorded /\ Stocked BY <1>0 DEF Init, Recorded, Stocked
<1> QED BY <1>1, <1>2, <1>3, <1>4 DEF IInv

-----------------------------------------------------------------------------
(* Forward entry.                                                          *)

LEMMA ResolveDecodeStep ==
  ASSUME IInv, ResolveDecode
  PROVE  IInv' /\ given' = [r \in RowSet(running) |-> Flushed[r]]
<1>1. /\ pc = "schedule" /\ prefilled = NoInput /\ clock < MaxClock
      /\ deferred' = <<>> /\ cur' = [running EXCEPT !.pay = NoPay] /\ running' = NoInput
      /\ pc' = "forward" /\ UNCHANGED <<graphOut, prefilled, clock>>
      /\ (buf' = buf \/ buf' = Flushed)
  BY DEF ResolveDecode
<1>2. running \in Inputting /\ Distinct(running) /\ RowSet(running) \subseteq Rows
  BY RowsOf DEF IInv, Shape, Identity, Inputs3
<1>3. Flushed \in [Rows -> Cell] BY FlushedRows DEF IInv
<1>4. given' = [r \in RowSet(running) |-> Flushed[r]]
  <2>1. CASE CanElide(running)
    <3>1. ASSUME NEW r \in RowSet(running)
          PROVE  Inputs(running.pay, CHOOSE i \in DOMAIN running.rows : running.rows[i] = r) = Flushed[r]
      <4> DEFINE n == CHOOSE i \in DOMAIN running.rows : running.rows[i] = r
      <4>1. \E i \in DOMAIN running.rows : running.rows[i] = r BY <1>2, <3>1, RowsOf
      <4>2. n \in DOMAIN running.rows /\ running.rows[n] = r BY <4>1
      <4> HIDE DEF n
      <4>3. Inputs(running.pay, n) = Flushed[running.rows[n]] BY <2>1, <4>2, Elision
      <4> QED BY <4>2, <4>3 DEF n
    <3>2. given' = [r \in RowSet(running) |->
                      Inputs(running.pay, CHOOSE i \in DOMAIN running.rows : running.rows[i] = r)]
      BY <2>1 DEF ResolveDecode
    <3> QED BY <3>1, <3>2
  <2>2. CASE ~CanElide(running) BY <2>2 DEF ResolveDecode
  <2> QED BY <2>1, <2>2
<1>5. /\ cur' \in Inputting /\ cur'.rows = running.rows /\ cur'.idx = running.idx /\ cur'.pay = NoPay
  BY <1>1, <1>2, Values DEF Inputting
<1>6. Len(deferred') = 0 /\ RowSet(NoInput) = {} /\ Distinct(NoInput)
  BY <1>1, Values, RowsOf DEF Distinct
<1>7. Shape'
  BY <1>1, <1>2, <1>3, <1>5, <1>6, Values, EmptySeq DEF IInv, Shape
<1>8. Phases'
  <2>1. \A r \in DOMAIN given' : given'[r] \in Cell BY <1>2, <1>3, <1>4
  <2>2. clock \in Nat BY Constants DEF IInv, Shape
  <2> QED BY <1>1, <1>5, <2>1, <2>2, Values DEF Phases
<1>9. Identity'
  <2>1. Distinct(cur') BY <1>2, <1>5 DEF Distinct
  <2>2. running.idx = 0 => running.rows = <<>> BY DEF IInv, Identity, Inputs3
  <2> QED BY <1>1, <1>5, <1>6, <2>1, <2>2, Values DEF Identity, Inputs3, SameRows, Apart
<1>10. Recorded' /\ Stocked' BY <1>1, <1>6 DEF Recorded, Stocked
<1> QED BY <1>4, <1>7, <1>8, <1>9, <1>10 DEF IInv

LEMMA ResolvePrefillStep ==
  ASSUME IInv, NEW S \in SUBSET Free, NEW new \in SetToSeqs(S), NEW mixed \in BOOLEAN,
         ResolvePrefill(new, mixed)
  PROVE  /\ IInv' /\ \A r \in Rows : Flushed'[r] = Flushed[r]
         /\ given' = [r \in IF mixed THEN RowSet(running) ELSE {} |-> [Flushed[r] EXCEPT !.extra = None]]
<1>1. /\ pc = "schedule" /\ prefilled = NoInput /\ clock < MaxClock
      /\ buf' = Flushed /\ deferred' = <<>>
      /\ given' = [r \in IF mixed THEN RowSet(running) ELSE {} |-> [Flushed[r] EXCEPT !.extra = None]]
      /\ cur' = [idx |-> NewIdx, pay |-> NoPay, rows |-> IF mixed THEN new \o running.rows ELSE new]
      /\ running' = IF mixed THEN NoInput ELSE running
      /\ pc' = "forward" /\ UNCHANGED <<graphOut, prefilled, clock>>
  BY DEF ResolvePrefill, FlushOnEntry
<1>2. running \in Inputting /\ Distinct(running) /\ RowSet(running) \subseteq Rows
      /\ cur = NoInput
  BY <1>1, RowsOf DEF IInv, Shape, Identity, Inputs3, Phases
<1>3. Flushed \in [Rows -> Cell] BY FlushedRows DEF IInv
<1>4. /\ new \in Seq(Rows) /\ Range(new) \subseteq S
      /\ \A i, j \in DOMAIN new : new[i] = new[j] => i = j
  <2>1. new \in [1..Cardinality(S) -> S] /\ \A i, j \in 1..Cardinality(S) : i # j => new[i] # new[j]
    BY DEF SetToSeqs
  <2>2. S \subseteq Rows BY DEF Free
  <2>3. Cardinality(S) \in Nat BY <2>2, Constants, FS_Subset, FS_CardinalityType
  <2>4. new \in [1..Cardinality(S) -> Rows] BY <2>1, <2>2
  <2>5. new \in Seq(Rows) BY <2>3, <2>4, SeqDef
  <2> QED BY <2>1, <2>5 DEF Range
<1>5. Range(new) \cap RowSet(running) = {} BY <1>4 DEF Free, Live
<1>6. /\ cur' \in Inputting /\ cur'.idx = NewIdx /\ cur'.pay = NoPay /\ Distinct(cur')
      /\ ~mixed => RowSet(cur') = Range(new)
  <2>1. CASE mixed
    <3>1. cur'.rows = new \o running.rows BY <1>1, <2>1
    <3>2. Range(new) \cap Range(running.rows) = {} BY <1>5 DEF RowSet
    <3>3. running.rows \in Seq(Rows) /\ \A i, j \in DOMAIN running.rows : running.rows[i] = running.rows[j] => i = j
      BY <1>2, RowsOf DEF Distinct
    <3>4. /\ new \o running.rows \in Seq(Rows)
          /\ \A i, j \in DOMAIN (new \o running.rows) :
               (new \o running.rows)[i] = (new \o running.rows)[j] => i = j
      BY <1>4, <3>2, <3>3, Joined
    <3>5. NewIdx \in Nat BY NewTensor DEF IInv
    <3> QED BY <1>1, <2>1, <3>1, <3>4, <3>5, Values DEF Inputting, Distinct
  <2>2. CASE ~mixed
    <3>1. NewIdx \in Nat BY NewTensor DEF IInv
    <3> QED BY <1>1, <1>4, <2>2, <3>1, Values DEF Inputting, Distinct, RowSet
  <2> QED BY <2>1, <2>2
<1>7. Len(deferred') = 0 /\ RowSet(NoInput) = {} /\ Distinct(NoInput)
  BY <1>1, Values, RowsOf DEF Distinct
<1>8. Shape'
  BY <1>1, <1>2, <1>3, <1>6, <1>7, Values, EmptySeq DEF IInv, Shape
<1>9. \A r \in Rows : Flushed'[r] = Flushed[r] BY <1>1, <1>8, FlushedNext
<1>10. Phases'
  <2>1. ASSUME NEW r \in DOMAIN given' PROVE given'[r] \in Cell
    <3>1. r \in Rows /\ Flushed[r] \in Cell BY <1>1, <1>2, <1>3
    <3>2. [Flushed[r] EXCEPT !.extra = None] \in Cell BY <3>1, Values DEF Cell
    <3> QED BY <1>1, <3>2
  <2>2. clock \in Nat /\ running.pay.id <= clock BY Constants DEF IInv, Shape, Phases
  <2>3. running'.pay.id <= clock' /\ prefilled'.pay.id <= clock' BY <1>1, <2>2, Values
  <2>4. pc' = "forward" /\ deferred' = <<>> /\ prefilled' = NoInput /\ clock' < MaxClock /\ cur'.pay = NoPay
    BY <1>1, <1>6
  <2> QED BY <2>1, <2>3, <2>4 DEF Phases
<1>11. Identity'
  <2>1. /\ NewIdx # 0 /\ NewIdx # running.idx BY NewTensor DEF IInv
  <2>2. running.idx = 0 => running.rows = <<>> BY DEF IInv, Identity, Inputs3
  <2>3. /\ running'.idx = 0 => running'.rows = <<>>
        /\ running'.idx # NewIdx /\ Distinct(running')
    BY <1>1, <1>2, <1>7, <2>1, <2>2, Values
  <2>4. Apart(running', cur') BY <1>1, <1>5, <1>6, <1>7 DEF Apart
  <2> QED BY <1>1, <1>6, <1>7, <2>1, <2>3, <2>4, Values DEF Identity, Inputs3, SameRows, Apart
<1>12. Recorded' BY <1>7 DEF Recorded
<1>13. Stocked'
  <2>1. RowSet(running') \cup RowSet(prefilled') \subseteq RowSet(running) \cup RowSet(prefilled)
    BY <1>1, <1>7
  <2>2. \A r \in RowSet(running) \cup RowSet(prefilled) : Flushed[r].bonus.ver > 0 BY DEF IInv, Stocked
  <2>3. RowSet(running) \cup RowSet(prefilled) \subseteq Rows BY <1>1, <1>2, <1>7
  <2> QED BY <1>9, <2>1, <2>2, <2>3 DEF Stocked
<1> QED BY <1>1, <1>8, <1>9, <1>10, <1>11, <1>12, <1>13 DEF IInv

-----------------------------------------------------------------------------
(* Forward and stash.                                                      *)

LEMMA ForwardStep ==
  ASSUME IInv, NEW kind \in {"graph", "eager", "skipped"}, Forward(kind)
  PROVE  IInv' /\ deferred = <<>> /\ \A r \in Rows : Flushed'[r] = Flushed[r]
<1> DEFINE v == clock + 1
           vals == [i \in DOMAIN cur.rows |-> Val(v, cur.rows[i])]
           extra == IF kind = "graph" THEN <<>> ELSE vals
<1>1. /\ pc = "forward" /\ clock' = v /\ pc' = "stash"
      /\ graphOut' = [i \in DOMAIN graphOut |->
                        IF kind # "graph" THEN graphOut[i]
                        ELSE IF i \in DOMAIN vals THEN vals[i] ELSE Val(v, NoRow)]
      /\ cur' = [cur EXCEPT !.pay = [id |-> v, kind |-> kind, bonus |-> vals, extra |-> extra]]
      /\ UNCHANGED <<buf, deferred, running, prefilled, given>>
  BY DEF Forward
<1>2. /\ clock \in Nat /\ clock < MaxClock /\ MaxClock \in Nat /\ deferred = <<>> /\ prefilled = NoInput
  BY <1>1, Constants DEF IInv, Phases, Shape
<1>3. cur \in Inputting /\ Distinct(cur) BY DEF IInv, Shape, Identity, Inputs3
<1>4. /\ DOMAIN cur.rows = 1..Len(cur.rows) /\ Len(cur.rows) \in Nat
      /\ \A i \in DOMAIN cur.rows : cur.rows[i] \in Rows
  BY <1>3, RowsOf
<1>5. vals \in Seq(Value) /\ Len(vals) = Len(cur.rows) /\ DOMAIN vals = 1..Len(cur.rows)
  <2>1. vals \in [1..Len(cur.rows) -> Value] BY <1>2, <1>4, Values
  <2>2. vals \in Seq(Value) BY <1>4, <2>1, SeqDef
  <2>3. Len(vals) \in Nat /\ DOMAIN vals = 1..Len(vals) BY <2>2, LenProperties
  <2> QED BY <1>4, <2>1, <2>2, <2>3
<1>6. \A i \in DOMAIN cur.rows : vals[i] = Val(v, cur.rows[i]) OBVIOUS
<1> HIDE DEF vals
<1>7. /\ cur' \in Inputting /\ cur'.rows = cur.rows /\ cur'.idx = cur.idx
      /\ cur'.pay = [id |-> v, kind |-> kind, bonus |-> vals, extra |-> extra]
  <2>1. extra \in Seq(Value) BY <1>5, EmptySeq
  <2>2. [id |-> v, kind |-> kind, bonus |-> vals, extra |-> extra] \in Payloads
    BY <1>2, <1>5, <2>1 DEF Payloads
  <2> QED BY <1>1, <1>3, <2>2 DEF Inputting
<1>8. graphOut' \in [1..Cardinality(Rows) -> [ver : Nat, row : Rows \cup {NoRow}]]
  <2>1. DOMAIN graphOut = 1..Cardinality(Rows) BY DEF IInv, Shape
  <2>2. ASSUME NEW i \in 1..Cardinality(Rows)
        PROVE  (IF kind # "graph" THEN graphOut[i]
                ELSE IF i \in DOMAIN vals THEN vals[i] ELSE Val(v, NoRow))
                  \in [ver : Nat, row : Rows \cup {NoRow}]
    <3>1. graphOut[i] \in [ver : Nat, row : Rows \cup {NoRow}] BY DEF IInv, Shape
    <3>2. Val(v, NoRow) \in [ver : Nat, row : Rows \cup {NoRow}] BY <1>2 DEF Val
    <3>3. ASSUME i \in DOMAIN vals PROVE vals[i] \in [ver : Nat, row : Rows \cup {NoRow}]
      <4>1. i \in DOMAIN cur.rows BY <1>4, <1>5, <3>3
      <4>2. vals[i] = Val(v, cur.rows[i]) /\ cur.rows[i] \in Rows BY <1>4, <1>6, <4>1
      <4> QED BY <1>2, <4>2 DEF Val
    <3> QED BY <3>1, <3>2, <3>3
  <2> QED BY <1>1, <2>1, <2>2
<1>9. Fresh(cur)'
  <2>1. \A i \in DOMAIN cur.rows : Extra(cur.pay)'[i] = Val(v, cur.rows[i])
    <3>1. CASE kind = "graph"
      <4>1. Extra(cur.pay)' = SubSeq(graphOut', 1, Len(vals)) BY <1>7, <3>1 DEF Extra
      <4>2. Len(cur.rows) <= Cardinality(Rows) BY <1>3, FewRows
      <4>3. \A i \in 1..Len(cur.rows) : graphOut'[i] = vals[i]
        <5>1. DOMAIN graphOut = 1..Cardinality(Rows) /\ Cardinality(Rows) \in Nat
          BY Constants DEF IInv, Shape
        <5>2. \A i \in 1..Len(cur.rows) : i \in DOMAIN graphOut BY <1>4, <4>2, <5>1
        <5> QED BY <1>1, <1>5, <3>1, <5>2
      <4>4. \A i \in 1..Len(cur.rows) : SubSeq(graphOut', 1, Len(vals))[i] = graphOut'[i]
        <5> DEFINE n == Len(cur.rows)
                   g == graphOut'
        <5>1. n \in Int /\ 1 \in Int BY <1>4
        <5>2. \A i \in 1..n : g[i] \in Value
          <6>1. \A i \in 1..n : vals[i] \in Value BY <1>5, ElementOfSeq
          <6> QED BY <4>3, <6>1
        <5> HIDE DEF n, g
        <5>3. \A i \in 1..n - 1 + 1 : SubSeq(g, 1, n)[i] = g[1 + i - 1]
          BY <5>1, <5>2, SubSeqProperties
        <5>4. n - 1 + 1 = n /\ \A i \in 1..n : 1 + i - 1 = i BY <5>1
        <5>5. \A i \in 1..n : SubSeq(g, 1, n)[i] = g[i] BY <5>3, <5>4
        <5> QED BY <1>5, <5>5 DEF n, g
      <4> QED BY <1>4, <1>6, <4>1, <4>3, <4>4
    <3>2. CASE kind # "graph"
      <4>1. Extra(cur.pay)' = vals BY <1>7, <3>2 DEF Extra
      <4> QED BY <1>6, <4>1
    <3> QED BY <3>1, <3>2
  <2>2. ASSUME NEW i \in DOMAIN cur.rows
        PROVE  Inputs(cur.pay, i)' = Left(v, cur.rows[i])
    <3>1. Inputs(cur.pay, i)' = [bonus |-> vals[i], extra |-> Extra(cur.pay)'[i]] BY <1>7 DEF Inputs
    <3> QED BY <1>6, <2>1, <3>1 DEF Left
  <2>3. v \in 1..v BY <1>2
  <2> QED BY <1>1, <1>5, <1>7, <2>2, <2>3 DEF Fresh
<1>10. Shape'
  <2>1. clock' \in 0..MaxClock BY <1>1, <1>2
  <2> QED BY <1>1, <1>2, <1>7, <1>8, <2>1 DEF IInv, Shape
<1>11. \A r \in Rows : Flushed'[r] = Flushed[r]
  <2>1. Flushed' = buf' BY <1>1, <1>2, <1>10, FlushedNext
  <2>2. Flushed = buf BY <1>2, Flush DEF IInv
  <2> QED BY <1>1, <2>1, <2>2
<1>12. Phases'
  <2>1. running.pay.id \in Nat /\ running.pay.id <= clock BY RowsOf DEF IInv, Shape, Phases
  <2>2. running.pay.id < v /\ running.pay.id <= v /\ 0 <= v BY <1>2, <2>1
  <2>3. \A r \in DOMAIN given : given[r] \in Cell BY DEF IInv, Phases
  <2> QED BY <1>1, <1>2, <1>7, <1>9, <2>2, <2>3, Values DEF Phases
<1>13. Identity'
  <2>1. RowSet(cur') = RowSet(cur) BY <1>7 DEF RowSet
  <2>2. Distinct(cur') BY <1>3, <1>7 DEF Distinct
  <2> QED BY <1>1, <1>7, <2>1, <2>2 DEF IInv, Identity, Inputs3, SameRows, Apart
<1>14. Recorded' /\ Stocked'
  <2>1. Len(deferred') = 0 BY <1>1, <1>2
  <2>2. RowSet(running) \cup RowSet(prefilled) \subseteq Rows BY RowsOf DEF IInv, Shape
  <2> QED BY <1>1, <1>11, <2>1, <2>2 DEF IInv, Recorded, Stocked
<1> QED BY <1>2, <1>10, <1>11, <1>12, <1>13, <1>14 DEF IInv

LEMMA StashStep ==
  ASSUME IInv, Stash
  PROVE  /\ IInv' /\ cur \in Inputting /\ RowSet(cur) \subseteq Rows
         /\ RowSet(running') \cup RowSet(prefilled') = RowSet(running) \cup RowSet(cur)
         /\ prefilled = NoInput /\ RowSet(cur) \cap RowSet(running) = {}
         /\ clock \in 1..MaxClock /\ given' = [r \in {} |-> Idle]
         /\ \A r \in Rows : Flushed'[r] = IF r \in RowSet(cur) THEN Left(clock, r) ELSE Flushed[r]
<1>1. cur \in Inputting /\ Distinct(cur) /\ RowSet(cur) \subseteq Rows
  BY RowsOf DEF IInv, Shape, Identity, Inputs3
<1>2. /\ pc = "stash" /\ deferred = <<>> /\ prefilled = NoInput /\ pc' = "schedule"
      /\ UNCHANGED <<graphOut, clock>> /\ cur' = NoInput /\ given' = [r \in {} |-> Idle]
      /\ IF running = NoInput THEN running' = cur /\ prefilled' = prefilled
                              ELSE prefilled' = cur /\ running' = running
  BY DEF Stash, IInv, Phases
<1>3. Flushed = buf BY <1>2, Flush DEF IInv
<1>4. /\ [idx |-> cur.idx, rows |-> cur.rows, pay |-> cur.pay] = cur BY <1>1 DEF Inputting
<1>5. \/ buf' = buf /\ deferred' = <<cur>>
      \/ buf' = StashNow(buf, cur) /\ deferred' = <<>>
  BY <1>3, <1>4 DEF Stash
<1>6. /\ Fresh(cur) /\ cur.pay.id = clock /\ running.pay.id < clock /\ clock \in 1..MaxClock
      /\ running.pay.id \in Nat
  <2>1. Fresh(cur) /\ cur.pay.id = clock /\ running.pay.id < clock BY <1>2 DEF IInv, Phases
  <2>2. clock \in 1..clock BY <2>1 DEF Fresh
  <2> QED BY <2>1, <2>2, Constants, RowsOf DEF IInv, Shape
<1>7. RowSet(NoInput) = {} /\ Distinct(NoInput) /\ NoInput \in Inputting
  BY Values, RowsOf DEF Distinct
<1>8. \/ running' = cur /\ prefilled' = NoInput /\ running = NoInput
      \/ running' = running /\ prefilled' = cur /\ running # NoInput
  BY <1>2
<1>9. \A r \in Rows : StashNow(buf, cur)[r] = IF r \in RowSet(cur) THEN Left(clock, r) ELSE buf[r]
  BY <1>1, <1>6, Scatter
<1>10. Shape'
  <2>1. ASSUME buf' = buf, deferred' = <<cur>>
        PROVE  buf' \in [Rows -> Cell] /\ deferred' \in Seq(Inputting) /\ Len(deferred') <= 1
    BY <1>1, <2>1 DEF IInv, Shape
  <2>2. ASSUME buf' = StashNow(buf, cur), deferred' = <<>>
        PROVE  buf' \in [Rows -> Cell] /\ deferred' \in Seq(Inputting) /\ Len(deferred') <= 1
    <3>1. \A r \in Rows : StashNow(buf, cur)[r] \in Cell
      <4>1. clock \in Nat BY <1>6
      <4> QED BY <1>9, <4>1, Values DEF IInv, Shape
    <3>2. StashNow(buf, cur) = [r \in Rows |-> StashNow(buf, cur)[r]] BY DEF StashNow
    <3>3. StashNow(buf, cur) \in [Rows -> Cell] BY <3>1, <3>2
    <3> QED BY <2>2, <3>3, EmptySeq
  <2>3. running' \in Inputting /\ prefilled' \in Inputting /\ cur' \in Inputting
    BY <1>1, <1>2, <1>7, <1>8 DEF IInv, Shape
  <2> QED BY <1>2, <1>5, <2>1, <2>2, <2>3 DEF IInv, Shape
<1>11. Recorded'
  <2>1. CASE deferred' = <<>> BY <2>1 DEF Recorded
  <2>2. CASE deferred' = <<cur>>
    <3>1. deferred'[1] = cur BY <2>2
    <3>2. Fresh(deferred[1])'
      BY <1>2, <1>6, <3>1 DEF Fresh, Inputs, Extra
    <3>3. Distinct(deferred'[1]) /\ (cur.idx = 0 => cur.rows = <<>>)
      BY <1>1, <3>1 DEF IInv, Identity, Inputs3
    <3>4. ASSUME NEW a \in {running', prefilled'}
          PROVE  SameRows(cur, a) /\ SamePay(cur, a)
      <4>1. CASE a = cur BY <4>1 DEF SameRows, SamePay
      <4>2. CASE a = NoInput BY <1>6, <3>3, <4>2, Values DEF SameRows, SamePay
      <4>3. CASE a = running
        <5>1. SameRows(running, cur) BY DEF IInv, Identity
        <5>2. cur.pay.id # running.pay.id BY <1>6
        <5> QED BY <4>3, <5>1, <5>2 DEF SameRows, SamePay
      <4> QED BY <1>8, <4>1, <4>2, <4>3
    <3> QED BY <3>1, <3>2, <3>3, <3>4 DEF Recorded
  <2> QED BY <1>5, <2>1, <2>2
<1>12. \A r \in Rows : Flushed'[r] = IF r \in RowSet(cur) THEN Left(clock, r) ELSE Flushed[r]
  <2>1. CASE buf' = StashNow(buf, cur) /\ deferred' = <<>>
    BY <1>3, <1>9, <1>10, <2>1, FlushedNext
  <2>2. CASE buf' = buf /\ deferred' = <<cur>>
    <3>3. \A r \in Rows : FlushedRow(r)' BY <1>10, <1>11, FlushedRowsNext DEF AllFlushed
    <3>4. deferred'[1] = cur /\ Len(deferred') = 1 BY <2>2
    <3> QED BY <1>3, <1>6, <2>2, <3>3, <3>4 DEF FlushedRow, Held1
  <2> QED BY <1>5, <2>1, <2>2
<1>13. Phases'
  <2>1. running'.pay.id <= clock /\ prefilled'.pay.id <= clock BY <1>6, <1>8, Values
  <2> QED BY <1>2, <2>1 DEF Phases
<1>14. Apart(running, cur) /\ (cur.idx = 0 => cur.rows = <<>>)
       /\ (running.idx = 0 => running.rows = <<>>) /\ SameRows(running, cur) /\ Distinct(running)
  BY DEF IInv, Identity, Inputs3
<1>15. Identity'
  <2>1. CASE running' = cur /\ prefilled' = NoInput
    BY <1>1, <1>2, <1>7, <1>14, <2>1, Values DEF Identity, Inputs3, SameRows, Apart
  <2>2. CASE running' = running /\ prefilled' = cur
    BY <1>1, <1>2, <1>7, <1>14, <2>2, Values DEF Identity, Inputs3, SameRows, Apart
  <2> QED BY <1>8, <2>1, <2>2
<1>16. RowSet(running') \cup RowSet(prefilled') = RowSet(running) \cup RowSet(cur)
  BY <1>7, <1>8
<1>17. Stocked'
  <2>1. ASSUME NEW r \in RowSet(running) \cup RowSet(cur) PROVE Flushed'[r].bonus.ver > 0
    <3>0. r \in Rows BY <1>1, RowsOf DEF IInv, Shape
    <3>1. CASE r \in RowSet(cur)
      <4>1. clock \in Nat /\ clock > 0 BY <1>6
      <4> QED BY <1>12, <3>0, <3>1, <4>1, Values
    <3>2. CASE r \notin RowSet(cur)
      BY <1>12, <3>0, <3>2 DEF IInv, Stocked
    <3> QED BY <3>1, <3>2
  <2> QED BY <1>16, <2>1 DEF Stocked
<1> QED BY <1>1, <1>2, <1>6, <1>10, <1>11, <1>12, <1>13, <1>14, <1>15, <1>16, <1>17 DEF IInv, Apart

-----------------------------------------------------------------------------
(* Between forwards.                                                       *)

LEMMA StashBonusStep ==
  ASSUME IInv, NEW S \in SUBSET Rows, StashBonus(S)
  PROVE  /\ IInv' /\ S \subseteq RowSet(running) \cup RowSet(prefilled) /\ clock + 1 \in 1..MaxClock
         /\ \A r \in Rows : Flushed'[r] = IF r \in S THEN [Flushed[r] EXCEPT !.bonus = Val(clock + 1, r)]
                                          ELSE Flushed[r]
<1>1. /\ pc = "schedule" /\ clock < MaxClock /\ S \subseteq Live /\ clock' = clock + 1
      /\ buf' = [r \in Rows |-> IF r \in S THEN [Flushed[r] EXCEPT !.bonus = Val(clock + 1, r)]
                                ELSE Flushed[r]]
      /\ deferred' = <<>> /\ UNCHANGED <<graphOut, running, prefilled, cur, pc, given>>
  BY DEF StashBonus
<1>2. /\ clock \in Nat /\ clock + 1 \in 1..MaxClock /\ clock' \in 0..MaxClock
  BY <1>1, Constants DEF IInv, Shape
<1>3. cur = NoInput /\ RowSet(NoInput) = {} BY <1>1, Values, RowsOf DEF IInv, Phases
<1>4. Flushed \in [Rows -> Cell] BY FlushedRows DEF IInv
<1>5. ASSUME NEW r \in Rows
      PROVE  /\ [Flushed[r] EXCEPT !.bonus = Val(clock + 1, r)] \in Cell
             /\ [Flushed[r] EXCEPT !.bonus = Val(clock + 1, r)].bonus.ver > 0
  <2>1. Flushed[r] \in Cell /\ Val(clock + 1, r) \in Value BY <1>2, <1>4, Values
  <2>2. [Flushed[r] EXCEPT !.bonus = Val(clock + 1, r)] \in Cell
        /\ [Flushed[r] EXCEPT !.bonus = Val(clock + 1, r)].bonus = Val(clock + 1, r)
    BY <2>1 DEF Cell
  <2>3. Val(clock + 1, r).ver = clock + 1 /\ clock + 1 > 0 BY <1>2 DEF Val
  <2> QED BY <2>2, <2>3
<1>6. Shape'
  <2>1. buf' \in [Rows -> Cell] BY <1>1, <1>4, <1>5
  <2> QED BY <1>1, <1>2, <2>1, EmptySeq DEF IInv, Shape
<1>7. Flushed' = buf' BY <1>1, <1>6, FlushedNext
<1>8. Phases'
  <2>1. running.pay.id \in Nat /\ prefilled.pay.id \in Nat /\ running.pay.id <= clock /\ prefilled.pay.id <= clock
    BY RowsOf DEF IInv, Shape, Phases
  <2>2. running'.pay.id <= clock' /\ prefilled'.pay.id <= clock' BY <1>1, <1>2, <2>1
  <2> QED BY <1>1, <2>2 DEF IInv, Phases
<1>9. Identity' BY <1>1 DEF IInv, Identity, Inputs3
<1>10. Recorded' BY <1>1 DEF Recorded
<1>11. S \subseteq RowSet(running) \cup RowSet(prefilled) BY <1>1, <1>3 DEF Live
<1>12. Stocked'
  <2>1. ASSUME NEW r \in RowSet(running) \cup RowSet(prefilled) PROVE Flushed'[r].bonus.ver > 0
    <3>1. r \in Rows BY RowsOf DEF IInv, Shape
    <3>2. CASE r \in S
      <4>1. Flushed'[r] = [Flushed[r] EXCEPT !.bonus = Val(clock + 1, r)] BY <1>1, <1>7, <3>1, <3>2
      <4> QED BY <1>5, <3>1, <4>1
    <3>3. CASE r \notin S
      <4>1. Flushed'[r] = Flushed[r] BY <1>1, <1>7, <3>1, <3>3
      <4> QED BY <4>1 DEF IInv, Stocked
    <3> QED BY <3>2, <3>3
  <2> QED BY <1>1, <2>1 DEF Stocked
<1> QED BY <1>1, <1>2, <1>6, <1>7, <1>8, <1>9, <1>10, <1>11, <1>12 DEF IInv

\* While stashes and buffers stay, so does what a flush would write.
LEMMA FlushedStays ==
  ASSUME Shape, Recorded, Shape', Recorded', UNCHANGED <<buf, deferred>>
  PROVE  \A r \in Rows : Flushed'[r] = Flushed[r]
<1>1. \A r \in Rows : FlushedRow(r) BY FlushedRows
<1>2. \A r \in Rows : FlushedRow(r)' BY FlushedRowsNext DEF AllFlushed
<1> QED BY <1>1, <1>2 DEF FlushedRow, Held1

\* A recorded stash stays recorded when the batches get other indices.
LEMMA RecordedStays ==
  ASSUME Shape, Recorded, UNCHANGED <<deferred, graphOut, clock>>,
         Len(deferred) = 1 => \A a \in {running', prefilled'} :
                                SameRows(deferred[1], a) /\ SamePay(deferred[1], a)
  PROVE  Recorded'
<1> SUFFICES ASSUME Len(deferred) = 1 PROVE Recorded' BY DEF Recorded
<1>1. Fresh(deferred[1])' BY DEF Recorded, Fresh, Inputs, Extra
<1> QED BY <1>1 DEF Recorded

LEMMA FilterStep ==
  ASSUME IInv, NEW keep \in Keeps(running), Filter(keep)
  PROVE  /\ IInv' /\ \A r \in Rows : Flushed'[r] = Flushed[r]
         /\ RowSet(running') \subseteq RowSet(running)
         /\ UNCHANGED <<prefilled, given>> /\ Apart(running, prefilled)
<1>1. /\ pc = "schedule" /\ UNCHANGED <<buf, deferred, graphOut, prefilled, cur, pc, clock, given>>
      /\ running' = IF keep = <<>> THEN NoInput
                    ELSE [running EXCEPT !.idx = NewIdx,
                                         !.rows = [i \in DOMAIN keep |-> running.rows[keep[i]]]]
  BY DEF Filter
<1>2. /\ running \in Inputting /\ Distinct(running) /\ Apart(running, prefilled) /\ Apart(running, cur)
      /\ Apart(prefilled, cur) /\ running.rows \in [DOMAIN running.rows -> Rows]
      /\ cur = NoInput /\ (prefilled.idx = 0 => prefilled.rows = <<>>) /\ Distinct(prefilled)
  BY <1>1, RowsOf DEF IInv, Shape, Identity, Inputs3, Phases
<1>3. RowSet(NoInput) = {} /\ Distinct(NoInput) /\ NoInput \in Inputting
  BY Values, RowsOf DEF Distinct
<1>4. NewIdx \in Nat /\ NewIdx # prefilled.idx /\ NewIdx # 0
      /\ (Len(deferred) = 1 => NewIdx # deferred[1].idx)
  BY NewTensor DEF IInv
\* What is kept.
<1>5. PICK n \in 0..Len(running.rows) - 1 :
        keep \in {k \in [1..n -> DOMAIN running.rows] : \A i, j \in 1..n : i < j => k[i] < k[j]}
  BY DEF Keeps
<1> DEFINE kept == [i \in DOMAIN keep |-> running.rows[keep[i]]]
<1>6. /\ kept \in Seq(Rows) /\ Range(kept) \subseteq RowSet(running)
      /\ \A i, j \in DOMAIN kept : kept[i] = kept[j] => i = j
  <2>1. n \in Nat /\ keep \in [1..n -> DOMAIN running.rows] /\ DOMAIN keep = 1..n
        /\ \A i, j \in 1..n : i < j => keep[i] < keep[j]
    BY <1>2, <1>5, RowsOf
  <2>2. kept \in [1..n -> Rows] BY <1>2, <2>1
  <2>3. kept \in Seq(Rows) BY <2>1, <2>2, SeqDef
  <2>4. Range(kept) \subseteq RowSet(running) BY <1>2, <2>1, RowsOf DEF Range
  <2>5. ASSUME NEW i \in 1..n, NEW j \in 1..n, kept[i] = kept[j] PROVE i = j
    <3>1. keep[i] \in DOMAIN running.rows /\ keep[j] \in DOMAIN running.rows BY <2>1
    <3>2. keep[i] = keep[j] BY <1>2, <2>1, <2>5, <3>1 DEF Distinct
    <3>3. keep[i] \in Int BY <1>2, <3>1, RowsOf
    <3>4. ~(keep[i] < keep[j]) /\ ~(keep[j] < keep[i]) BY <3>2, <3>3
    <3>5. ~(i < j) /\ ~(j < i) BY <2>1, <3>4
    <3> QED BY <2>1, <3>5
  <2> QED BY <2>1, <2>3, <2>4, <2>5
<1> HIDE DEF kept
<1>7. \/ running' = NoInput
      \/ /\ running' = [running EXCEPT !.idx = NewIdx, !.rows = kept]
         /\ running' \in Inputting /\ running'.idx = NewIdx /\ running'.rows = kept
         /\ running'.pay = running.pay
  <2>1. [running EXCEPT !.idx = NewIdx, !.rows = kept] \in Inputting
        /\ [running EXCEPT !.idx = NewIdx, !.rows = kept].idx = NewIdx
        /\ [running EXCEPT !.idx = NewIdx, !.rows = kept].rows = kept
        /\ [running EXCEPT !.idx = NewIdx, !.rows = kept].pay = running.pay
    BY <1>2, <1>4, <1>6 DEF Inputting
  <2>2. running' = NoInput \/ running' = [running EXCEPT !.idx = NewIdx, !.rows = kept]
    BY <1>1 DEF kept
  <2> QED BY <2>1, <2>2
<1>8. Shape' BY <1>1, <1>3, <1>7 DEF IInv, Shape
<1>9. RowSet(running') \subseteq RowSet(running) /\ Distinct(running')
      /\ (running'.idx = 0 => running'.rows = <<>>)
  <2>1. CASE running' = NoInput BY <1>3, <2>1, Values
  <2>2. CASE running' # NoInput BY <1>4, <1>6, <1>7, <2>2 DEF RowSet, Distinct
  <2> QED BY <2>1, <2>2
<1>10. Phases'
  <2>1. running.pay.id <= clock /\ prefilled.pay.id <= clock /\ clock \in Nat /\ given = [r \in {} |-> Idle]
    BY <1>1, Constants DEF IInv, Phases, Shape
  <2>2. running'.pay.id <= clock BY <1>7, <2>1, Values
  <2> QED BY <1>1, <1>2, <2>1, <2>2 DEF Phases
<1>11. Identity'
  <2>1. SameRows(running', prefilled) /\ SameRows(running', cur)
    BY <1>2, <1>4, <1>7, <1>9, Values DEF SameRows
  <2>2. Apart(running', prefilled) /\ Apart(running', cur) BY <1>2, <1>9 DEF Apart
  <2> QED BY <1>1, <1>2, <1>9, <2>1, <2>2 DEF IInv, Identity, Inputs3
<1>12. Recorded'
  <2>1. ASSUME Len(deferred) = 1, NEW a \in {running', prefilled'}
        PROVE  SameRows(deferred[1], a) /\ SamePay(deferred[1], a)
    <3>1. /\ SamePay(deferred[1], running) /\ SameRows(deferred[1], prefilled)
          /\ SamePay(deferred[1], prefilled) /\ (deferred[1].idx = 0 => deferred[1].rows = <<>>)
          /\ deferred[1].pay.id # 0
      BY <2>1 DEF IInv, Recorded, Fresh
    <3>2. CASE a = prefilled BY <3>1, <3>2
    <3>3. CASE a = NoInput BY <3>1, <3>3, Values DEF SameRows, SamePay
    <3>4. CASE a = running' /\ a # NoInput
      BY <1>4, <1>7, <2>1, <3>1, <3>4 DEF SameRows, SamePay
    <3> QED BY <1>1, <2>1, <3>2, <3>3, <3>4
  <2> QED BY <1>1, <2>1, RecordedStays DEF IInv
<1>13. \A r \in Rows : Flushed'[r] = Flushed[r] BY <1>1, <1>8, <1>12, FlushedStays DEF IInv
<1>14. Stocked'
  <2>1. RowSet(running) \cup RowSet(prefilled) \subseteq Rows BY RowsOf DEF IInv, Shape
  <2> QED BY <1>1, <1>9, <1>13, <2>1 DEF IInv, Stocked
<1> QED BY <1>1, <1>2, <1>8, <1>9, <1>10, <1>11, <1>12, <1>13, <1>14 DEF IInv

LEMMA MergeStep ==
  ASSUME IInv, Merge
  PROVE  /\ IInv' /\ \A r \in Rows : Flushed'[r] = Flushed[r]
         /\ RowSet(running') = RowSet(running) \cup RowSet(prefilled) /\ RowSet(prefilled') = {}
         /\ given' = given
<1>1. /\ pc = "schedule" /\ UNCHANGED <<buf, deferred, graphOut, cur, pc, clock, given>>
      /\ running' = IF running = NoInput THEN prefilled
                    ELSE [running EXCEPT !.idx = NewIdx, !.rows = running.rows \o prefilled.rows]
      /\ prefilled' = NoInput
  BY DEF Merge
<1>2. /\ running \in Inputting /\ Distinct(running) /\ prefilled \in Inputting /\ Distinct(prefilled)
      /\ Apart(running, prefilled) /\ Apart(running, cur) /\ Apart(prefilled, cur)
      /\ cur = NoInput /\ (prefilled.idx = 0 => prefilled.rows = <<>>)
      /\ (running.idx = 0 => running.rows = <<>>)
  BY <1>1 DEF IInv, Shape, Identity, Inputs3, Phases
<1>3. RowSet(NoInput) = {} /\ Distinct(NoInput) /\ NoInput \in Inputting
  BY Values, RowsOf DEF Distinct
<1>4. NewIdx \in Nat /\ NewIdx # 0 /\ (Len(deferred) = 1 => NewIdx # deferred[1].idx)
  BY NewTensor DEF IInv
<1> DEFINE both == running.rows \o prefilled.rows
<1>5. /\ both \in Seq(Rows) /\ Range(both) = RowSet(running) \cup RowSet(prefilled)
      /\ \A i, j \in DOMAIN both : both[i] = both[j] => i = j
  <2>1. running.rows \in Seq(Rows) /\ prefilled.rows \in Seq(Rows) BY <1>2, RowsOf
  <2>2. Range(running.rows) \cap Range(prefilled.rows) = {} BY <1>2 DEF Apart, RowSet
  <2>3. /\ \A i, j \in DOMAIN running.rows : running.rows[i] = running.rows[j] => i = j
        /\ \A i, j \in DOMAIN prefilled.rows : prefilled.rows[i] = prefilled.rows[j] => i = j
    BY <1>2 DEF Distinct
  <2> QED BY <2>1, <2>2, <2>3, Joined DEF RowSet
<1> HIDE DEF both
<1>6. \/ running = NoInput /\ running' = prefilled
      \/ /\ running' \in Inputting /\ running'.idx = NewIdx /\ running'.rows = both
         /\ running'.pay = running.pay
  <2>1. [running EXCEPT !.idx = NewIdx, !.rows = both] \in Inputting
        /\ [running EXCEPT !.idx = NewIdx, !.rows = both].idx = NewIdx
        /\ [running EXCEPT !.idx = NewIdx, !.rows = both].rows = both
        /\ [running EXCEPT !.idx = NewIdx, !.rows = both].pay = running.pay
    BY <1>2, <1>4, <1>5 DEF Inputting
  <2> QED BY <1>1, <2>1 DEF both
<1>7. Shape' BY <1>1, <1>2, <1>3, <1>6 DEF IInv, Shape
<1>8. RowSet(running') = RowSet(running) \cup RowSet(prefilled) /\ Distinct(running')
      /\ (running'.idx = 0 => running'.rows = <<>>)
  <2>1. CASE running = NoInput /\ running' = prefilled BY <1>2, <1>3, <2>1
  <2>2. CASE running'.idx = NewIdx /\ running'.rows = both BY <1>4, <1>5, <2>2 DEF RowSet, Distinct
  <2> QED BY <1>6, <2>1, <2>2
<1>9. Phases'
  <2>1. running.pay.id <= clock /\ prefilled.pay.id <= clock /\ clock \in Nat /\ given = [r \in {} |-> Idle]
    BY <1>1, Constants DEF IInv, Phases, Shape
  <2>2. running'.pay.id <= clock /\ prefilled'.pay.id <= clock
    <3>1. 0 <= clock BY <2>1
    <3> QED BY <1>1, <1>6, <2>1, <3>1, Values
  <2> QED BY <1>1, <1>2, <2>1, <2>2 DEF Phases
<1>10. Identity'
  <2>1. SameRows(running', NoInput) BY <1>8, Values DEF SameRows
  <2> QED BY <1>1, <1>2, <1>3, <1>8, <2>1, Values DEF Identity, Inputs3, Apart
<1>11. Recorded'
  <2>1. ASSUME Len(deferred) = 1, NEW a \in {running', prefilled'}
        PROVE  SameRows(deferred[1], a) /\ SamePay(deferred[1], a)
    <3>1. /\ SamePay(deferred[1], running) /\ SameRows(deferred[1], prefilled)
          /\ SamePay(deferred[1], prefilled) /\ (deferred[1].idx = 0 => deferred[1].rows = <<>>)
          /\ deferred[1].pay.id # 0
      BY <2>1 DEF IInv, Recorded, Fresh
    <3>2. CASE a = prefilled BY <3>1, <3>2
    <3>3. CASE a = NoInput BY <3>1, <3>3, Values DEF SameRows, SamePay
    <3>4. CASE a.idx = NewIdx /\ a.pay = running.pay
      BY <1>4, <2>1, <3>1, <3>4 DEF SameRows, SamePay
    <3> QED BY <1>1, <1>6, <2>1, <3>2, <3>3, <3>4
  <2> QED BY <1>1, <2>1, RecordedStays DEF IInv
<1>12. \A r \in Rows : Flushed'[r] = Flushed[r] BY <1>1, <1>7, <1>11, FlushedStays DEF IInv
<1>13. Stocked'
  <2>1. RowSet(running) \cup RowSet(prefilled) \subseteq Rows BY RowsOf DEF IInv, Shape
  <2> QED BY <1>1, <1>3, <1>8, <1>12, <2>1 DEF IInv, Stocked
<1> QED BY <1>1, <1>3, <1>7, <1>8, <1>9, <1>10, <1>11, <1>12, <1>13 DEF IInv

LEMMA Invariance == IInv /\ [Next]_vars => IInv'
<1> SUFFICES ASSUME IInv, [Next]_vars PROVE IInv' OBVIOUS
<1>1. ASSUME ResolveDecode PROVE IInv' BY <1>1, ResolveDecodeStep
<1>2. ASSUME NEW S \in SUBSET Free, NEW new \in SetToSeqs(S), NEW mixed \in BOOLEAN,
             ResolvePrefill(new, mixed)
      PROVE  IInv'
  BY <1>2, ResolvePrefillStep
<1>3. ASSUME NEW kind \in {"graph", "eager", "skipped"}, Forward(kind) PROVE IInv'
  BY <1>3, ForwardStep
<1>4. ASSUME Stash PROVE IInv' BY <1>4, StashStep
<1>5. ASSUME NEW S \in SUBSET Rows, StashBonus(S) PROVE IInv' BY <1>5, StashBonusStep
<1>6. ASSUME NEW keep \in Keeps(running), Filter(keep) PROVE IInv' BY <1>6, FilterStep
<1>7. ASSUME Merge PROVE IInv' BY <1>7, MergeStep
<1>8. ASSUME UNCHANGED vars PROVE IInv'
  <2>1. Shape' /\ Phases' /\ Identity'
    <3>1. Fresh(cur) => Fresh(cur)' BY <1>8 DEF vars, Fresh, Inputs, Extra
    <3> QED BY <1>8, <3>1 DEF IInv, vars, Shape, Phases, Identity, Inputs3
  <2>2. Recorded'
    BY <1>8, RecordedStays DEF IInv, vars, Recorded
  <2>3. \A r \in Rows : Flushed'[r] = Flushed[r] BY <1>8, <2>1, <2>2, FlushedStays DEF IInv, vars
  <2>4. Stocked'
    <3>1. RowSet(running) \cup RowSet(prefilled) \subseteq Rows BY RowsOf DEF IInv, Shape
    <3> QED BY <1>8, <2>3, <3>1 DEF IInv, Stocked, vars
  <2> QED BY <2>1, <2>2, <2>4 DEF IInv
<1> QED BY <1>1, <1>2, <1>3, <1>4, <1>5, <1>6, <1>7, <1>8 DEF Next

LEMMA AlwaysIInv == Spec => []IInv
BY InitInv, Invariance, PTL DEF Spec

-----------------------------------------------------------------------------
(* FutureMap implements SpecRelay.                                         *)

Awaited == RowSet(running) \cup RowSet(prefilled)

LEMMA WaitingNow ==
  ASSUME IInv
  PROVE  /\ \A r \in Rows : Waiting(r) = IF r \in Awaited THEN Flushed[r] ELSE Idle
         /\ \A r \in Awaited : r \in Rows /\ Waiting(r) # Idle
<1>1. \A r \in Rows : Waiting(r) = IF r \in Awaited THEN Flushed[r] ELSE Idle
  BY WaitingFlushed DEF IInv, Waits, Awaited
<1>2. \A r \in Awaited : r \in Rows /\ Flushed[r].bonus.ver > 0
  BY RowsOf DEF IInv, Shape, Stocked, Awaited
<1>3. ~(0 > 0) OBVIOUS
<1> QED BY <1>1, <1>2, <1>3, Values

LEMMA WaitsNext == Shape' /\ Recorded' => Waits'
BY WaitingFlushed, PTL

LEMMA WaitingNext ==
  ASSUME IInv'
  PROVE  \A r \in Rows : Waiting(r)' = IF r \in Awaited' THEN Flushed'[r] ELSE Idle
BY WaitsNext DEF IInv, Waits, Awaited

\* The names of SpecRelay's own definitions.
LEMMA RelayNames ==
  Relay!Idle = Idle /\ Relay!None = None /\ \A v, r : Relay!Val(v, r) = Val(v, r)
BY DEF Relay!Idle, Idle, Relay!None, None, Relay!Val, Val

LEMMA RelayStarts == Init => Relay!RelayInit
<1> SUFFICES ASSUME Init PROVE Relay!RelayInit OBVIOUS
<1>1. Awaited = {} BY Values, RowsOf DEF Init, Awaited
<1>2. \A r \in Rows : Waiting(r) = Idle BY <1>1, InitInv, WaitingNow
<1> QED BY <1>2, RelayNames DEF Init, Relay!RelayInit

LEMMA TakeStep ==
  ASSUME IInv, IInv', NEW S \in SUBSET Awaited, NEW T,
         given' = [r \in S |-> IF r \in T THEN [Waiting(r) EXCEPT !.extra = None] ELSE Waiting(r)],
         \A r \in Rows : Waiting(r)' = IF r \in S THEN Idle ELSE Waiting(r)
  PROVE  Relay!Take(S, T)
<1>1. \A r \in S : r \in Rows /\ Waiting(r) # Idle BY WaitingNow
<1> QED BY <1>1, RelayNames DEF Relay!Take

LEMMA RelayStep == IInv /\ IInv' /\ [Next]_vars => [Relay!RelayNext]_(Relay!relayVars)
<1> DEFINE Done == [Relay!RelayNext]_(Relay!relayVars)
<1> SUFFICES ASSUME IInv, IInv', [Next]_vars PROVE Done OBVIOUS
<1>1. /\ \A r \in Rows : Waiting(r) = IF r \in Awaited THEN Flushed[r] ELSE Idle
      /\ \A r \in Awaited : r \in Rows /\ Waiting(r) # Idle
      /\ \A r \in Rows : Waiting(r)' = IF r \in Awaited' THEN Flushed'[r] ELSE Idle
  BY WaitingNow, WaitingNext
<1>2. RowSet(NoInput) = {} BY Values, RowsOf
\* A step that leaves what waits alone, and hands out nothing, is a stutter.
<1>3. ASSUME given' = given, \A r \in Rows : Waiting(r)' = Waiting(r) PROVE Done
  BY <1>3 DEF Relay!relayVars
<1>4. ASSUME ResolveDecode PROVE Done
  <2>1. /\ given' = [r \in RowSet(running) |-> Flushed[r]]
        /\ prefilled = NoInput /\ prefilled' = NoInput /\ running' = NoInput
    BY <1>4, ResolveDecodeStep DEF ResolveDecode
  <2>2. Awaited = RowSet(running) /\ Awaited' = {} BY <1>2, <2>1 DEF Awaited
  <2>3. given' = [r \in RowSet(running) |->
                    IF r \in {} THEN [Waiting(r) EXCEPT !.extra = None] ELSE Waiting(r)]
    BY <1>1, <2>1, <2>2
  <2>4. Relay!Take(RowSet(running), {}) BY <1>1, <2>2, <2>3, TakeStep
  <2>5. RowSet(running) \in SUBSET Rows BY <1>1, <2>2
  <2> QED BY <2>4, <2>5 DEF Relay!RelayNext
<1>5. ASSUME NEW S \in SUBSET Free, NEW new \in SetToSeqs(S), NEW mixed \in BOOLEAN,
             ResolvePrefill(new, mixed)
      PROVE  Done
  <2> DEFINE Gone == IF mixed THEN RowSet(running) ELSE {}
  <2>1. /\ given' = [r \in Gone |-> [Flushed[r] EXCEPT !.extra = None]]
        /\ \A r \in Rows : Flushed'[r] = Flushed[r]
        /\ prefilled = NoInput /\ prefilled' = NoInput
        /\ running' = IF mixed THEN NoInput ELSE running
    BY <1>5, ResolvePrefillStep DEF ResolvePrefill
  <2>2. Awaited = RowSet(running) /\ Awaited' = RowSet(running) \ Gone
    BY <1>2, <2>1 DEF Awaited
  <2>3. Gone \in SUBSET Awaited BY <2>2
  <2> HIDE DEF Gone
  <2>4. given' = [r \in Gone |-> IF r \in Gone THEN [Waiting(r) EXCEPT !.extra = None] ELSE Waiting(r)]
    BY <1>1, <2>1, <2>3
  <2>5. \A r \in Rows : Waiting(r)' = IF r \in Gone THEN Idle ELSE Waiting(r)
    BY <1>1, <2>1, <2>2
  <2>6. Relay!Take(Gone, Gone) BY <2>3, <2>4, <2>5, TakeStep
  <2>7. Gone \in SUBSET Rows BY <1>1, <2>3
  <2> QED BY <2>6, <2>7 DEF Relay!RelayNext
<1>6. ASSUME NEW kind \in {"graph", "eager", "skipped"}, Forward(kind) PROVE Done
  <2>1. \A r \in Rows : Flushed'[r] = Flushed[r] BY <1>6, ForwardStep
  <2>2. given' = given /\ Awaited' = Awaited BY <1>6 DEF Forward, Awaited
  <2> QED BY <1>1, <1>3, <2>1, <2>2
<1>7. ASSUME Stash PROVE Done
  <2>1. /\ RowSet(cur) \subseteq Rows /\ prefilled = NoInput
        /\ Awaited' = RowSet(running) \cup RowSet(cur)
        /\ RowSet(cur) \cap RowSet(running) = {} /\ clock \in 1..MaxClock
        /\ given' = [r \in {} |-> Idle]
        /\ \A r \in Rows : Flushed'[r] = IF r \in RowSet(cur) THEN Left(clock, r) ELSE Flushed[r]
    BY <1>7, StashStep DEF Awaited
  <2>2. Awaited = RowSet(running) BY <1>2, <2>1 DEF Awaited
  <2>3. \A r \in RowSet(cur) : Waiting(r) = Idle BY <1>1, <2>1, <2>2
  <2>4. \A r \in Rows : Waiting(r)' = IF r \in RowSet(cur) THEN Left(clock, r) ELSE Waiting(r)
    BY <1>1, <2>1, <2>2
  <2>5. Relay!Leave(RowSet(cur), clock)
    BY <2>1, <2>3, <2>4, RelayNames DEF Relay!Leave, Left
  <2>6. clock \in Relay!Versions BY <2>1 DEF Relay!Versions
  <2> QED BY <2>1, <2>5, <2>6 DEF Relay!RelayNext
<1>8. ASSUME NEW S \in SUBSET Rows, StashBonus(S) PROVE Done
  <2>1. /\ S \subseteq Awaited /\ clock + 1 \in 1..MaxClock
        /\ \A r \in Rows : Flushed'[r] = IF r \in S THEN [Flushed[r] EXCEPT !.bonus = Val(clock + 1, r)]
                                         ELSE Flushed[r]
    BY <1>8, StashBonusStep DEF Awaited
  <2>2. given' = given /\ Awaited' = Awaited BY <1>8 DEF StashBonus, Awaited
  <2>3. \A r \in Rows : Waiting(r)' = IF r \in S THEN [Waiting(r) EXCEPT !.bonus = Val(clock + 1, r)]
                                      ELSE Waiting(r)
    BY <1>1, <2>1, <2>2
  <2>4. Relay!LeaveBonus(S, clock + 1)
    BY <1>1, <2>1, <2>2, <2>3, RelayNames DEF Relay!LeaveBonus
  <2>5. clock + 1 \in Relay!Versions BY <2>1 DEF Relay!Versions
  <2> QED BY <2>4, <2>5 DEF Relay!RelayNext
<1>9. ASSUME NEW keep \in Keeps(running), Filter(keep) PROVE Done
  <2> DEFINE Gone == RowSet(running) \ RowSet(running')
  <2>1. /\ \A r \in Rows : Flushed'[r] = Flushed[r]
        /\ RowSet(running') \subseteq RowSet(running)
        /\ UNCHANGED <<prefilled, given>> /\ RowSet(running) \cap RowSet(prefilled) = {}
    BY <1>9, FilterStep DEF Apart
  <2>2. Awaited' = RowSet(running') \cup RowSet(prefilled) /\ Awaited = RowSet(running) \cup RowSet(prefilled)
    BY <2>1 DEF Awaited
  <2>3. Awaited' = Awaited \ Gone BY <2>1, <2>2
  <2>4. Gone \in SUBSET Rows BY <1>1, <2>2
  <2> HIDE DEF Gone
  <2>5. \A r \in Rows : Waiting(r)' = IF r \in Gone THEN Idle ELSE Waiting(r)
    BY <1>1, <2>1, <2>3
  <2>6. Relay!Forget(Gone) BY <2>1, <2>5, RelayNames DEF Relay!Forget
  <2> QED BY <2>4, <2>6 DEF Relay!RelayNext
<1>10. ASSUME Merge PROVE Done
  <2>1. /\ \A r \in Rows : Flushed'[r] = Flushed[r]
        /\ Awaited' = Awaited /\ given' = given
    BY <1>10, MergeStep DEF Awaited
  <2> QED BY <1>1, <1>3, <2>1
<1>11. ASSUME UNCHANGED vars PROVE Done
  <2>1. \A r \in Rows : Flushed'[r] = Flushed[r] BY <1>11, FlushedStays DEF IInv, vars
  <2>2. given' = given /\ Awaited' = Awaited BY <1>11 DEF vars, Awaited
  <2> QED BY <1>1, <1>3, <2>1, <2>2
<1> HIDE DEF Done
<1> QED BY <1>4, <1>5, <1>6, <1>7, <1>8, <1>9, <1>10, <1>11 DEF Next

\* Every row is given, once and unchanged, what its last forward left for it,
\* whatever is elided, deferred, filtered or merged in between: the relay of
\* overlap_utils.py implements SpecRelay.
THEOREM RelayImplemented == Spec => KeepsPromise
<1>1. Spec => Relay!RelayInit /\ [][Relay!RelayNext]_(Relay!relayVars)
  BY AlwaysIInv, RelayStarts, RelayStep, PTL DEF Spec
<1> QED BY <1>1 DEF KeepsPromise, Relay!RelaySpec

\* The relay's state keeps its types.
THEOREM RelayTypes == Spec => []TypeOK
<1>1. IInv => TypeOK
  <2> SUFFICES ASSUME IInv PROVE TypeOK OBVIOUS
  <2>1. ASSUME NEW i \in DOMAIN deferred PROVE RowSet(deferred[i]) \subseteq Rows
    BY ElementOfSeq, LenProperties, RowsOf DEF IInv, Shape
  <2>2. Live \subseteq Rows BY RowsOf DEF IInv, Shape, Live
  <2>3. clock \in Nat BY Constants DEF IInv, Shape
  <2> QED BY <2>1, <2>2, <2>3 DEF IInv, Shape, Phases, TypeOK
<1> QED BY <1>1, AlwaysIInv, PTL

\* What an elided resolve keeps is what the scatter into the buffers and the
\* gather out of them would have returned.
THEOREM ElisionSound == Spec => []ElisionExact
<1>1. IInv => ElisionExact BY Elision DEF ElisionExact
<1> QED BY <1>1, AlwaysIInv, PTL

\* No forward overwrites a static output that a recorded stash points into.
THEOREM OutputsKept == Spec => NoClobber
<1>1. IInv /\ [Next]_vars =>
        [graphOut' # graphOut => \A i \in DOMAIN deferred : deferred[i].pay.kind # "graph"]_vars
  <2> SUFFICES ASSUME IInv, Next, graphOut' # graphOut PROVE deferred = <<>>
    OBVIOUS
  <2>1. PICK kind \in {"graph", "eager", "skipped"} : Forward(kind)
    BY DEF Next, ResolveDecode, ResolvePrefill, Stash, StashBonus, Filter, Merge
  <2> QED BY <2>1, ForwardStep
<1> QED BY <1>1, AlwaysIInv, PTL DEF Spec, NoClobber

-----------------------------------------------------------------------------
(* LensRelay: nothing in the relay orders two streams but the waits.  The   *)
(* invariant says, for every two operations that may not be swapped, that a *)
(* wait still stands before the later of them as long as the earlier is to  *)
(* be executed; what the buffer holds when an operation comes up follows.   *)

\* What a stream has still to execute, by place, as events and waits count them.
todo == [s \in Streams |-> [p \in ran[s] + 1 .. ran[s] + Len(queue[s]) |-> queue[s][p - ran[s]]]]
Sch  == todo["schedule"]
Fwd  == todo["forward"]
Cpy  == todo["fwd_prepare_d2h"]

\* Stream t comes to its place p only when s has executed the one at q.
Barred(t, p, s, q) ==
  \E w \in DOMAIN todo[t] : /\ w < p
                       /\ todo[t][w].do = "wait" /\ todo[t][w].on = s /\ todo[t][w].at >= q

\* A publish still to be executed, and one of row r.
Publishing(p)      == p \in DOMAIN Fwd /\ Fwd[p].do = "publish"
PublishingRow(p, r) == Publishing(p) /\ r \in Fwd[p].rows

WaitOps == [do : {"wait"}, on : Streams, at : Nat]
Working == [do : {"gather", "poison", "copy", "publish"}, k : Forwards, rows : SUBSET PoolRows]
Syncing == step \in {"synchronize", "synchronize tails"}

LensShape ==
  /\ needs_cpu \in NeedsCpu
  /\ queue \in [Streams -> Seq(WaitOps \cup Working)]
  /\ ran \in [Streams -> Nat]
  /\ lens_buf \in Lengths /\ pinned \in Lengths
  /\ lens \in [Forwards -> Lengths] /\ lens_cpu \in [Forwards -> Lengths]
  /\ event \in Nat
  /\ step \in {"idle", "synchronize", "synchronize tails", "launch"}
  /\ batch \subseteq PoolRows /\ live \subseteq PoolRows
  /\ launched \in 0..MaxForward /\ (step # "idle" => launched < MaxForward)
  /\ last \in [PoolRows -> 0..MaxForward] /\ want \in [Forwards -> [PoolRows -> 0..MaxForward]]

\* What each stream is given to do.
Roles ==
  /\ \A p \in DOMAIN Sch : Sch[p].do \in {"wait", "gather", "poison"}
  /\ \A p \in DOMAIN Fwd : Fwd[p].do \in {"wait", "gather", "publish"}
  /\ \A p \in DOMAIN Cpy : Cpy[p].do \in {"wait", "copy"}
  /\ \A s, t \in Streams : \A p \in DOMAIN todo[s] :
       todo[s][p].do = "wait" /\ todo[s][p].on = t => todo[s][p].at <= Given(t)

\* At most two publishes are outstanding, the event after the second; only that
\* one while a forward is prepared.
Published ==
  /\ event <= Given("forward")
  /\ event > ran["forward"] =>
       Fwd[event] = Op("publish", launched, {r \in PoolRows : last[r] = launched})
  /\ \A p \in DOMAIN Fwd : Publishing(p) =>
       /\ p <= event
       /\ p < event => /\ Fwd[p].k = launched - 1 /\ step = "idle"
                       /\ \A r \in Fwd[p].rows : last[r] >= launched - 1
  /\ \A r \in PoolRows : last[r] <= launched

\* A row with no publish outstanding holds its last forward's length, unless the
\* forward being prepared has consumed it.
Latest ==
  \A r \in PoolRows : (\A p \in DOMAIN Fwd : ~PublishingRow(p, r)) =>
                    lens_buf[r] = last[r] \/ (step = "launch" /\ r \in batch)

\* The schedule stream's operations for forward k come after the publishes
\* before k and before all the others.
Scheduled ==
  \A q \in DOMAIN Sch : Sch[q].do # "wait" =>
    LET k == Sch[q].k IN
    /\ k <= launched + 1
    /\ k = launched + 1 => /\ Sch[q].rows \subseteq batch
                           /\ step \in {"synchronize", "launch"}
                           /\ Sch[q].do = "poison" => step = "launch"
    /\ k <= launched => \E p \in DOMAIN Fwd : /\ Publishing(p) /\ Fwd[p].k = k
                                               /\ Sch[q].rows \subseteq Fwd[p].rows
    /\ \A p \in DOMAIN Fwd : Publishing(p) =>
         IF Fwd[p].k >= k THEN Barred("forward", p, "schedule", q)
                         ELSE Barred("schedule", q, "forward", p)
    /\ Sch[q].do = "gather" =>
         \A o \in DOMAIN Sch : o < q /\ Sch[o].do = "poison" => Sch[o].k < k

\* The same of the gathers of mixed forwards, on the forward stream itself.
Mixed ==
  \A q \in DOMAIN Fwd : Fwd[q].do = "gather" =>
    LET k == Fwd[q].k IN
    /\ k <= launched + 1
    /\ k = launched + 1 => step \in {"synchronize tails", "launch"}
    /\ k <= launched => \E p \in DOMAIN Fwd : Publishing(p) /\ Fwd[p].k = k
    /\ \A p \in DOMAIN Fwd : Publishing(p) => (p < q <=> Fwd[p].k < k)
    /\ \A o \in DOMAIN Sch : Sch[o].do # "wait" => Sch[o].k # k

\* A gather still to be executed will find what it is to take.
WillTake(s, q) ==
  LET k == todo[s][q].k
      R == todo[s][q].rows
  IN  /\ \A r \in PoolRows \ R : want[k][r] = 0
      /\ \A r \in R : (\A p \in DOMAIN Fwd : PublishingRow(p, r) => Fwd[p].k >= k) =>
                        lens_buf[r] = want[k][r]
      /\ \A p \in DOMAIN Fwd : \A r \in R :
           PublishingRow(p, r) /\ Fwd[p].k < k => want[k][r] = Fwd[p].k
Gathering == \A s \in {"schedule", "forward"} : \A q \in DOMAIN todo[s] : todo[s][q].do = "gather" => WillTake(s, q)
Taken ==
  \A k \in Forwards :
    \/ lens[k] = want[k]
    \/ \E s \in {"schedule", "forward"} : \E q \in DOMAIN todo[s] : todo[s][q].do = "gather" /\ todo[s][q].k = k

\* The copy to the host reads the buffer after the last publish.
Copying ==
  /\ DOMAIN Cpy # {} => Syncing
  /\ Syncing =>
       /\ live \subseteq batch
       /\ want[launched + 1] = Only(last, live)
       /\ \A c \in DOMAIN Cpy : Cpy[c].do = "copy" =>
            Barred("fwd_prepare_d2h", c, "forward", event) \/ ran["forward"] >= event
       /\ (\A c \in DOMAIN Cpy : Cpy[c].do # "copy") =>
            ran["forward"] >= event /\ \A r \in live : pinned[r] = last[r]
  /\ \A k \in Forwards : k > launched + 1 \/ (k = launched + 1 /\ step = "idle") =>
       lens_cpu[k] = NoLengths

LensInv ==
  /\ LensShape /\ Roles /\ Published /\ Latest /\ Scheduled /\ Mixed /\ Gathering /\ Taken
  /\ Copying /\ MirrorExact

-----------------------------------------------------------------------------
(* Lemmas.                                                                 *)

LEMMA Todo ==
  ASSUME LensShape, NEW s \in Streams
  PROVE  /\ Given(s) \in Nat /\ ran[s] \in Nat
         /\ DOMAIN todo[s] = ran[s] + 1 .. Given(s)
         /\ \A p \in DOMAIN todo[s] : /\ todo[s][p] = queue[s][p - ran[s]]
                                     /\ todo[s][p] \in WaitOps \cup Working
<1>1. queue[s] \in Seq(WaitOps \cup Working) /\ ran[s] \in Nat  BY DEF LensShape
<1>2. Len(queue[s]) \in Nat  BY <1>1, LenProperties
<1>3. todo[s] = [p \in ran[s] + 1 .. ran[s] + Len(queue[s]) |-> queue[s][p - ran[s]]]  BY DEF todo
<1>4. ASSUME NEW p \in ran[s] + 1 .. ran[s] + Len(queue[s])
      PROVE  queue[s][p - ran[s]] \in WaitOps \cup Working
  <2>1. p - ran[s] \in 1..Len(queue[s])  BY <1>1, <1>2
  <2> QED  BY <1>1, <2>1, ElementOfSeq
<1> HIDE DEF todo
<1> QED  BY <1>1, <1>2, <1>3, <1>4 DEF Given

\* What appending operations to the streams leaves, and adds.
LEMMA Pushed ==
  ASSUME LensShape, NEW add \in [Streams -> Seq(WaitOps \cup Working)],
         queue' = [s \in Streams |-> queue[s] \o add[s]], ran' = ran,
         NEW s \in Streams
  PROVE  /\ queue'[s] \in Seq(WaitOps \cup Working)
         /\ Given(s)' = Given(s) + Len(add[s])
         /\ DOMAIN todo'[s] = ran[s] + 1 .. Given(s) + Len(add[s])
         /\ \A p \in DOMAIN todo[s] : p \in DOMAIN todo'[s] /\ todo'[s][p] = todo[s][p]
         /\ \A i \in 1..Len(add[s]) : todo'[s][Given(s) + i] = add[s][i]
<1>1. queue[s] \in Seq(WaitOps \cup Working) /\ ran[s] \in Nat /\ add[s] \in Seq(WaitOps \cup Working)
  BY DEF LensShape
<1>2. Len(queue[s]) \in Nat /\ Len(add[s]) \in Nat  BY <1>1, LenProperties
<1>3. queue'[s] = queue[s] \o add[s]  OBVIOUS
<1>4. /\ queue'[s] \in Seq(WaitOps \cup Working)
      /\ Len(queue'[s]) = Len(queue[s]) + Len(add[s])
      /\ \A i \in 1..Len(queue[s]) : queue'[s][i] = queue[s][i]
      /\ \A i \in 1..Len(add[s]) : queue'[s][Len(queue[s]) + i] = add[s][i]
  BY <1>1, <1>2, <1>3, ConcatProperties
<1>5. todo'[s] = [p \in ran[s] + 1 .. ran[s] + Len(queue'[s]) |-> queue'[s][p - ran[s]]]  BY DEF todo
<1>6. todo[s] = [p \in ran[s] + 1 .. ran[s] + Len(queue[s]) |-> queue[s][p - ran[s]]]  BY DEF todo
<1>7. Given(s) = ran[s] + Len(queue[s]) /\ Given(s)' = ran[s] + Len(queue'[s])  BY DEF Given
<1>8. ASSUME NEW p \in DOMAIN todo[s]
      PROVE  p \in DOMAIN todo'[s] /\ todo'[s][p] = todo[s][p]
  <2>1. p \in ran[s] + 1 .. ran[s] + Len(queue[s]) /\ p - ran[s] \in 1..Len(queue[s])
    BY <1>1, <1>2, <1>6
  <2>2. p \in ran[s] + 1 .. ran[s] + Len(queue'[s])  BY <2>1, <1>1, <1>2, <1>4
  <2> QED  BY <2>1, <2>2, <1>4, <1>5, <1>6
<1>9. ASSUME NEW i \in 1..Len(add[s])
      PROVE  todo'[s][Given(s) + i] = add[s][i]
  <2>1. Given(s) + i \in ran[s] + 1 .. ran[s] + Len(queue'[s])  BY <1>1, <1>2, <1>4, <1>7
  <2>2. (Given(s) + i) - ran[s] = Len(queue[s]) + i  BY <1>1, <1>2, <1>7
  <2> QED  BY <2>1, <2>2, <1>4, <1>5
<1>10. Given(s)' = Given(s) + Len(add[s])  BY <1>1, <1>2, <1>4, <1>7
<1>11. DOMAIN todo'[s] = ran[s] + 1 .. Given(s) + Len(add[s])
  <2>1. ran[s] + Len(queue'[s]) = Given(s) + Len(add[s])  BY <1>7, <1>10
  <2> QED  BY <1>5, <2>1
<1> QED  BY <1>4, <1>8, <1>9, <1>10, <1>11

\* What executing an operation leaves.
LEMMA Popped ==
  ASSUME LensShape, NEW u \in Streams, Run(u), NEW s \in Streams
  PROVE  /\ queue'[s] \in Seq(WaitOps \cup Working)
         /\ Given(s)' = Given(s)
         /\ ran'[s] = IF s = u THEN ran[s] + 1 ELSE ran[s]
         /\ DOMAIN todo'[s] = IF s = u THEN DOMAIN todo[s] \ {ran[s] + 1} ELSE DOMAIN todo[s]
         /\ \A p \in DOMAIN todo'[s] : todo'[s][p] = todo[s][p]
         /\ ran[u] + 1 \in DOMAIN todo[u]
         /\ Execute(todo[u][ran[u] + 1])
<1>1. /\ queue[s] \in Seq(WaitOps \cup Working) /\ ran[s] \in Nat
      /\ queue[u] \in Seq(WaitOps \cup Working) /\ ran[u] \in Nat
  BY DEF LensShape
<1>2. /\ queue[u] # <<>> /\ Execute(Head(queue[u]))
      /\ queue' = [queue EXCEPT ![u] = Tail(@)]
      /\ ran' = [ran EXCEPT ![u] = @ + 1]
      /\ DOMAIN queue = Streams /\ DOMAIN ran = Streams
  BY DEF Run, LensShape
<1>3. Len(queue[s]) \in Nat /\ Len(queue[u]) \in Nat \ {0}  BY <1>1, <1>2, LenProperties, EmptySeq
<1>4. Head(queue[u]) = queue[u][1]  BY <1>1, <1>2, HeadTailProperties
<1>5. todo[u] = [p \in ran[u] + 1 .. ran[u] + Len(queue[u]) |-> queue[u][p - ran[u]]]  BY DEF todo
<1>6. todo[s] = [p \in ran[s] + 1 .. ran[s] + Len(queue[s]) |-> queue[s][p - ran[s]]]  BY DEF todo
<1>7. todo'[s] = [p \in ran'[s] + 1 .. ran'[s] + Len(queue'[s]) |-> queue'[s][p - ran'[s]]]  BY DEF todo
<1>8. ran[u] + 1 \in DOMAIN todo[u] /\ todo[u][ran[u] + 1] = Head(queue[u])
  <2>1. ran[u] + 1 \in ran[u] + 1 .. ran[u] + Len(queue[u]) /\ (ran[u] + 1) - ran[u] = 1  BY <1>1, <1>3
  <2> QED  BY <2>1, <1>4, <1>5
<1>9. Given(s) = ran[s] + Len(queue[s]) /\ Given(s)' = ran'[s] + Len(queue'[s])  BY DEF Given
<1>10. CASE s = u
  <2>1. queue'[s] = Tail(queue[s]) /\ ran'[s] = ran[s] + 1  BY <1>2, <1>10
  <2>2. /\ Len(queue'[s]) = Len(queue[s]) - 1 /\ queue'[s] \in Seq(WaitOps \cup Working)
        /\ \A i \in 1..Len(queue'[s]) : queue'[s][i] = queue[s][i + 1]
    BY <2>1, <1>1, <1>2, <1>10, HeadTailProperties
  <2>3. ran'[s] + 1 .. ran'[s] + Len(queue'[s]) = (ran[s] + 1 .. ran[s] + Len(queue[s])) \ {ran[s] + 1}
    BY <2>1, <2>2, <1>1, <1>3
  <2>4. ASSUME NEW p \in ran'[s] + 1 .. ran'[s] + Len(queue'[s])
        PROVE  queue'[s][p - ran'[s]] = queue[s][p - ran[s]]
    <3> DEFINE a == ran[s]
               n == Len(queue'[s])
    <3>1. a \in Nat /\ n \in Nat /\ p \in a + 2 .. a + 1 + n  BY <2>1, <2>2, <1>1, <1>3
    <3> HIDE DEF a, n
    <3>2. p - (a + 1) \in 1..n /\ (p - (a + 1)) + 1 = p - a  BY <3>1
    <3>3. p - ran'[s] \in 1..Len(queue'[s]) /\ (p - ran'[s]) + 1 = p - ran[s]  BY <3>2, <2>1 DEF a, n
    <3> QED  BY <3>3, <2>2
  <2>5. DOMAIN todo[s] = ran[s] + 1 .. ran[s] + Len(queue[s])  BY <1>6
  <2>6. DOMAIN todo'[s] = DOMAIN todo[s] \ {ran[s] + 1}  BY <2>3, <2>5, <1>7
  <2>7. \A p \in DOMAIN todo'[s] : todo'[s][p] = todo[s][p]  BY <2>4, <2>3, <1>6, <1>7
  <2>8. Given(s)' = Given(s)  BY <2>1, <2>2, <1>9, <1>1, <1>3
  <2> QED  BY <1>2, <1>8, <1>10, <2>1, <2>2, <2>6, <2>7, <2>8
<1>11. CASE s # u
  <2>1. queue'[s] = queue[s] /\ ran'[s] = ran[s]  BY <1>2, <1>11
  <2> QED  BY <2>1, <1>1, <1>2, <1>6, <1>7, <1>8, <1>9, <1>11
<1> QED  BY <1>10, <1>11

LEMMA StreamNames ==
  /\ Streams = {"schedule", "forward", "fwd_prepare_d2h"}
  /\ "schedule" # "forward" /\ "schedule" # "fwd_prepare_d2h" /\ "forward" # "fwd_prepare_d2h"
BY DEF Streams

\* An operation that is held back is not the next of its stream, and stays held
\* back until the other is executed.
LEMMA BarredNotNext ==
  ASSUME LensShape, NEW t \in Streams, NEW s, NEW q, NEW p \in DOMAIN todo[t], Barred(t, p, s, q)
  PROVE  p # ran[t] + 1
<1>1. PICK w \in DOMAIN todo[t] : w < p  BY DEF Barred
<1>2. DOMAIN todo[t] = ran[t] + 1 .. Given(t) /\ ran[t] \in Nat /\ Given(t) \in Nat  BY Todo
<1> QED  BY <1>1, <1>2

LEMMA BarredStays ==
  ASSUME LensShape, NEW u \in Streams, Run(u), NEW t \in Streams, NEW s \in Streams,
         NEW p, NEW q \in DOMAIN todo'[s], Barred(t, p, s, q)
  PROVE  Barred(t, p, s, q)'
<1>1. PICK w \in DOMAIN todo[t] : /\ w < p /\ todo[t][w].do = "wait" /\ todo[t][w].on = s
                                 /\ todo[t][w].at >= q
  BY DEF Barred
<1>2. /\ DOMAIN todo'[t] = IF t = u THEN DOMAIN todo[t] \ {ran[t] + 1} ELSE DOMAIN todo[t]
      /\ \A x \in DOMAIN todo'[t] : todo'[t][x] = todo[t][x]
      /\ Execute(todo[u][ran[u] + 1])
  BY Popped
<1>3. w \in DOMAIN todo'[t]
  <2>1. SUFFICES ASSUME t = u, w = ran[u] + 1 PROVE FALSE  BY <1>2
  <2>2. ran[s] >= todo[t][w].at  BY <1>1, <1>2, <2>1 DEF Execute
  <2>3. q \in DOMAIN todo[s]  BY Popped
  <2>4. ran[s] \in Nat /\ DOMAIN todo[s] = ran[s] + 1 .. Given(s)  BY Todo
  <2>5. todo[t][w].at \in Nat  BY <1>1, Todo DEF WaitOps, Working
  <2> QED  BY <1>1, <2>2, <2>3, <2>4, <2>5
<1>4. todo'[t][w] = todo[t][w]  BY <1>2, <1>3
<1> QED  BY <1>1, <1>3, <1>4 DEF Barred

-----------------------------------------------------------------------------
(* The streams.                                                            *)

LEMMA Kinds ==
  ASSUME LensShape, NEW s \in Streams, NEW p \in DOMAIN todo[s]
  PROVE  /\ p \in Nat /\ p > ran[s] /\ p <= Given(s)
         /\ todo[s][p].do = "wait" => todo[s][p] \in WaitOps
         /\ todo[s][p].do # "wait" => /\ todo[s][p].k \in Forwards /\ todo[s][p].k \in Nat
                                     /\ todo[s][p].rows \in SUBSET PoolRows
                                     /\ todo[s][p].do \in {"gather", "poison", "copy", "publish"}
<1>1. todo[s][p] \in WaitOps \cup Working  BY Todo
<1>2. p \in ran[s] + 1 .. Given(s) /\ ran[s] \in Nat /\ Given(s) \in Nat  BY Todo
<1>3. todo[s][p] \in WaitOps => todo[s][p].do = "wait"  BY DEF WaitOps
<1>4. todo[s][p] \in Working => todo[s][p].do # "wait"  BY DEF Working
<1>5. todo[s][p] \in Working => /\ todo[s][p].k \in Forwards /\ todo[s][p].rows \in SUBSET PoolRows
                               /\ todo[s][p].do \in {"gather", "poison", "copy", "publish"}
  BY DEF Working
<1>6. \A k \in Forwards : k \in Nat  BY DEF Forwards
<1> QED  BY <1>1, <1>2, <1>3, <1>4, <1>5, <1>6

\* A gather that comes up finds what it is to take.
LEMMA GatherTakes ==
  ASSUME LensInv, NEW s \in {"schedule", "forward"}, ran[s] + 1 \in DOMAIN todo[s],
         todo[s][ran[s] + 1].do = "gather"
  PROVE  Only(lens_buf, todo[s][ran[s] + 1].rows) = want[todo[s][ran[s] + 1].k]
<1> DEFINE h == ran[s] + 1
           k == todo[s][h].k
           R == todo[s][h].rows
<1> USE DEF LensInv
<1>1. s \in Streams  BY StreamNames
<1>2. k \in Forwards /\ R \in SUBSET PoolRows /\ DOMAIN todo[s] = h..Given(s) /\ ran[s] \in Nat /\ Given(s) \in Nat
  <2>1. todo[s][h] \in WaitOps \cup Working  BY <1>1, Todo
  <2>2. todo[s][h] \in Working  BY <2>1 DEF WaitOps
  <2> QED  BY <2>2, <1>1, Todo DEF Working
<1>3. WillTake(s, h)  BY DEF Gathering
<1>4. ASSUME NEW p \in DOMAIN Fwd, Publishing(p), Fwd[p].k < k
      PROVE  FALSE
  <2>1. CASE s = "schedule"
    <3>1. ~(Fwd[p].k >= k)
      <4>1. Fwd[p] \in Working  BY <1>4, Todo, StreamNames DEF WaitOps, Publishing, Fwd
      <4> QED  BY <4>1, <1>2, <1>4 DEF Working, Forwards
    <3>2. Barred("schedule", h, "forward", p)
      BY <2>1, <1>4, <3>1 DEF Scheduled, Sch
    <3> QED  BY <2>1, <3>2, <1>1, BarredNotNext
  <2>2. CASE s = "forward"
    <3>1. p < h  BY <2>2, <1>4 DEF Mixed, Fwd
    <3>2. p \in h..Given(s)  BY <1>2, <2>2 DEF Fwd
    <3> QED  BY <3>1, <3>2, <1>2
  <2> QED  BY <2>1, <2>2
<1>5. \A p \in DOMAIN Fwd : \A r \in R : PublishingRow(p, r) => Fwd[p].k >= k
  <2>1. ASSUME NEW p \in DOMAIN Fwd, Publishing(p) PROVE Fwd[p].k >= k
    <3>1. Fwd[p] \in Working  BY <2>1, Todo, StreamNames DEF WaitOps, Publishing, Fwd
    <3> QED  BY <3>1, <1>2, <1>4, <2>1 DEF Working, Forwards
  <2> QED  BY <2>1 DEF PublishingRow
<1>6. \A r \in R : lens_buf[r] = want[k][r]  BY <1>3, <1>5 DEF WillTake
<1>7. \A r \in PoolRows \ R : want[k][r] = 0  BY <1>3 DEF WillTake
<1>8. want[k] \in [PoolRows -> 0..MaxForward]  BY <1>2 DEF LensShape
<1> QED  BY <1>6, <1>7, <1>8 DEF Only

LEMMA RunStep ==
  ASSUME LensInv, NEW u \in Streams, Run(u)
  PROVE  LensInv'
<1> DEFINE h == ran[u] + 1
           o == todo[u][h]
<1> USE StreamNames
<1>s. LensShape /\ Roles  BY DEF LensInv
<1>1. /\ h \in DOMAIN todo[u] /\ Execute(o)
      /\ \A s \in Streams :
           /\ queue'[s] \in Seq(WaitOps \cup Working)
           /\ Given(s)' = Given(s)
           /\ ran'[s] = IF s = u THEN ran[s] + 1 ELSE ran[s]
           /\ DOMAIN todo'[s] = IF s = u THEN DOMAIN todo[s] \ {h} ELSE DOMAIN todo[s]
           /\ \A p \in DOMAIN todo'[s] : todo'[s][p] = todo[s][p]
  BY <1>s, Popped
<1>2. UNCHANGED <<needs_cpu, lens_cpu, event, step, batch, launched, live, last, want>>  BY DEF Run
<1>3. /\ ran[u] \in Nat /\ h \in Nat
      /\ \A s \in Streams : /\ ran[s] \in Nat /\ Given(s) \in Nat
                            /\ DOMAIN todo[s] = ran[s] + 1 .. Given(s)
  BY <1>s, Todo
<1>4. /\ DOMAIN Sch' \subseteq DOMAIN Sch /\ \A q \in DOMAIN Sch' : Sch'[q] = Sch[q]
      /\ DOMAIN Fwd' \subseteq DOMAIN Fwd /\ \A q \in DOMAIN Fwd' : Fwd'[q] = Fwd[q]
      /\ DOMAIN Cpy' \subseteq DOMAIN Cpy /\ \A q \in DOMAIN Cpy' : Cpy'[q] = Cpy[q]
  BY <1>1 DEF Sch, Fwd, Cpy
<1>5. /\ o.do = "wait" => ran[o.on] >= o.at
      /\ o.do = "publish" => u = "forward" /\ lens_buf' = [r \in PoolRows |-> IF r \in o.rows THEN o.k ELSE lens_buf[r]]
      /\ o.do = "poison" => u = "schedule" /\ lens_buf' = [r \in PoolRows |-> IF r \in o.rows THEN Poison ELSE lens_buf[r]]
      /\ o.do \notin {"publish", "poison"} => lens_buf' = lens_buf
      /\ o.do = "copy" => u = "fwd_prepare_d2h" /\ pinned' = lens_buf
      /\ o.do # "copy" => pinned' = pinned
      /\ o.do = "gather" => /\ u \in {"schedule", "forward"}
                            /\ lens' = [lens EXCEPT ![o.k] = Only(lens_buf, o.rows)]
      /\ o.do # "gather" => lens' = lens
  BY <1>s, <1>1 DEF Execute, Roles, Sch, Fwd, Cpy
<1>6. o.do # "wait" => o.k \in Forwards /\ o.k \in Nat /\ o.rows \in SUBSET PoolRows
  BY <1>s, <1>1, Kinds
<1>7. ASSUME NEW p
      PROVE  /\ Publishing(p)' => Publishing(p) /\ Fwd'[p] = Fwd[p]
             /\ Publishing(p) /\ p \notin DOMAIN Fwd' => u = "forward" /\ p = h /\ o = Fwd[p] /\ o.do = "publish"
             /\ Publishing(p) /\ p \in DOMAIN Fwd' => Publishing(p)'
  BY <1>1, <1>4 DEF Publishing, Fwd
<1>8. ASSUME NEW p, Publishing(p)
      PROVE  p \in DOMAIN Fwd /\ Fwd[p].k \in Nat /\ Fwd[p].k \in Forwards /\ p \in Nat /\ p > ran["forward"]
  BY <1>s, <1>8, Kinds DEF Publishing, Fwd
<1>9. ASSUME NEW p \in DOMAIN Fwd, NEW r \in PoolRows
      PROVE  /\ p \in DOMAIN Fwd' => (PublishingRow(p, r)' <=> PublishingRow(p, r))
             /\ o.do # "publish" /\ PublishingRow(p, r) => p \in DOMAIN Fwd'
  BY <1>4, <1>7 DEF PublishingRow
<1>10. \A k \in Forwards : launched \in Nat /\ k \in Nat  <2>1. launched \in 0..MaxForward  BY <1>s DEF LensShape
  <2> QED  BY <2>1 DEF Forwards
<1> HIDE DEF h, o
<1>11. LensShape'
  <2>1. lens_buf' \in Lengths
    BY <1>s, <1>5, <1>6 DEF LensShape, Lengths
  <2>2. pinned' \in Lengths  BY <1>s, <1>5 DEF LensShape
  <2>3. lens' \in [Forwards -> Lengths]
    <3>1. CASE o.do = "gather"
      <4>1. Only(lens_buf, o.rows) \in Lengths  BY <1>s DEF Only, LensShape, Lengths
      <4> QED  BY <4>1, <3>1, <1>s, <1>5 DEF LensShape
    <3>2. CASE o.do # "gather"  BY <3>2, <1>s, <1>5 DEF LensShape
    <3> QED  BY <3>1, <3>2
  <2>4. queue' \in [Streams -> Seq(WaitOps \cup Working)]
    <3>1. queue' = [queue EXCEPT ![u] = Tail(@)] /\ queue \in [Streams -> Seq(WaitOps \cup Working)]
      BY <1>s DEF Run, LensShape
    <3>2. queue'[u] = Tail(queue[u]) /\ queue'[u] \in Seq(WaitOps \cup Working)  BY <3>1, <1>1
    <3> QED  BY <3>1, <3>2
  <2>5. ran' \in [Streams -> Nat]
    <3>1. ran' = [ran EXCEPT ![u] = @ + 1] /\ ran \in [Streams -> Nat]  BY <1>s DEF Run, LensShape
    <3> QED  BY <3>1
  <2> QED  BY <2>1, <2>2, <2>3, <2>4, <2>5, <1>2, <1>s DEF LensShape, Lengths
<1>12. Roles'
  <2>1. ASSUME NEW s \in Streams, NEW t \in Streams, NEW p \in DOMAIN todo'[s],
               todo'[s][p].do = "wait", todo'[s][p].on = t
        PROVE  todo'[s][p].at <= Given(t)'
    <3>1. p \in DOMAIN todo[s] /\ todo'[s][p] = todo[s][p]  BY <1>1
    <3>2. todo[s][p].at <= Given(t)  BY <3>1, <2>1, <1>s DEF Roles
    <3> QED  BY <3>1, <3>2, <1>1
  <2> QED  BY <2>1, <1>4, <1>s DEF Roles
<1>13. Published'
  <2>1. event \in Nat /\ Published  BY <1>s DEF LensShape, LensInv
  <2>2. ASSUME event > ran'["forward"]
        PROVE  Fwd'[event] = Op("publish", launched, {r \in PoolRows : last[r] = launched})
    <3>1. event > ran["forward"] /\ event \in DOMAIN todo["forward"] /\ event \in DOMAIN todo'["forward"]
      <4>1. event <= Given("forward") /\ Given("forward") \in Nat /\ ran["forward"] \in Nat  BY <2>1, <1>3 DEF Published
      <4>2. CASE u = "forward"
        <5>1. event > h /\ h = ran["forward"] + 1  BY <4>2, <2>2, <1>1 DEF h
        <5>2. event \in ran["forward"] + 1 .. Given("forward") /\ event # h  BY <5>1, <4>1, <2>1
        <5> QED  BY <5>1, <5>2, <4>1, <4>2, <1>1, <1>3
      <4>3. CASE u # "forward"
        <5>1. event > ran["forward"]  BY <4>3, <2>2, <1>1
        <5>2. event \in ran["forward"] + 1 .. Given("forward")  BY <5>1, <4>1, <2>1
        <5> QED  BY <5>1, <5>2, <4>3, <1>1, <1>3
      <4> QED  BY <4>2, <4>3
    <3> QED  BY <3>1, <2>1, <1>4 DEF Published, Fwd
  <2> QED  BY <2>1, <2>2, <1>1, <1>2, <1>4, <1>7 DEF Published
<1>14. Latest'
  <2> SUFFICES ASSUME NEW r \in PoolRows, \A p \in DOMAIN Fwd' : ~PublishingRow(p, r)'
               PROVE  lens_buf'[r] = last[r] \/ (step = "launch" /\ r \in batch)
    BY <1>2 DEF Latest
  <2>1. Latest /\ Published /\ Scheduled  BY DEF LensInv
  <2>2. lens_buf \in Lengths /\ DOMAIN lens_buf = PoolRows  BY <1>s DEF LensShape, Lengths
  <2>3. CASE o.do \notin {"publish", "poison"}
    <3>1. \A p \in DOMAIN Fwd : ~PublishingRow(p, r)  BY <1>9, <2>3
    <3> QED  BY <3>1, <2>1, <2>3, <1>5 DEF Latest
  <2>4. CASE o.do = "publish"
    <3>1. u = "forward" /\ h \in DOMAIN Fwd /\ o = Fwd[h] /\ Publishing(h)
      BY <1>1, <1>5, <2>4 DEF Publishing, Fwd, o
    <3>2. CASE r \notin o.rows
      <4>1. \A p \in DOMAIN Fwd : ~PublishingRow(p, r)
        BY <3>1, <3>2, <1>7, <1>9 DEF PublishingRow
      <4> QED  BY <4>1, <2>1, <2>4, <3>2, <1>5 DEF Latest
    <3>3. CASE r \in o.rows
      <4>1. lens_buf'[r] = o.k  BY <3>3, <2>4, <1>5
      <4>2. CASE h = event
        <5>1. event > ran["forward"]  BY <3>1, <4>2, <1>8
        <5> QED  BY <5>1, <4>1, <4>2, <3>1, <3>3, <2>1 DEF Published, Op
      <4>3. CASE h # event
        <5>1. h <= event /\ event \in Nat /\ h \in Nat  BY <3>1, <2>1, <1>3, <1>s DEF Published, LensShape
        <5>2. h < event /\ o.k = launched - 1 /\ last[r] >= launched - 1
          BY <5>1, <4>3, <3>1, <3>3, <2>1 DEF Published
        <5>3. last[r] # launched
          <6> SUFFICES ASSUME last[r] = launched PROVE FALSE  OBVIOUS
          <6>1. event > ran["forward"] /\ event \in DOMAIN todo["forward"]
            BY <5>1, <5>2, <3>1, <2>1, <1>3 DEF Published, h
          <6>2. Fwd[event].do = "publish" /\ r \in Fwd[event].rows  BY <6>1, <2>1 DEF Published, Op
          <6>3. PublishingRow(event, r)  BY <6>1, <6>2 DEF PublishingRow, Publishing, Fwd
          <6>4. event \in DOMAIN Fwd /\ event \in DOMAIN Fwd'  BY <6>1, <4>3, <1>1, <3>1 DEF Fwd
          <6> QED  BY <6>3, <6>4, <1>9
        <5>4. last[r] <= launched /\ last[r] \in Nat /\ launched \in Nat
          <6>1. last[r] \in 0..MaxForward /\ launched \in 0..MaxForward  BY <1>s DEF LensShape
          <6> QED  BY <6>1, <2>1 DEF Published
        <5> QED  BY <4>1, <5>2, <5>3, <5>4
      <4> QED  BY <4>2, <4>3
    <3> QED  BY <3>2, <3>3
  <2>5. CASE o.do = "poison"
    <3>1. \A p \in DOMAIN Fwd : ~PublishingRow(p, r)  BY <1>9, <2>5
    <3>2. CASE r \notin o.rows  BY <3>1, <3>2, <2>1, <2>5, <1>5 DEF Latest
    <3>3. CASE r \in o.rows
      <4>1. u = "schedule" /\ h \in DOMAIN Sch /\ o = Sch[h]  BY <1>1, <1>5, <2>5 DEF Sch, o
      <4>2. ~(o.k <= launched)  BY <4>1, <2>5, <3>1, <3>3, <2>1 DEF Scheduled, PublishingRow
      <4>3. o.k <= launched + 1  BY <4>1, <2>5, <2>1 DEF Scheduled
      <4>4. o.k = launched + 1  BY <4>2, <4>3, <1>6, <1>10, <2>5
      <4> QED  BY <4>4, <4>1, <3>3, <2>5, <2>1 DEF Scheduled
    <3> QED  BY <3>2, <3>3
  <2> QED  BY <2>3, <2>4, <2>5
<1>15. Scheduled'
  <2> SUFFICES ASSUME NEW q \in DOMAIN Sch', Sch'[q].do # "wait"
               PROVE  LET k == Sch'[q].k IN
    /\ k <= launched + 1
    /\ k = launched + 1 => /\ Sch'[q].rows \subseteq batch
                           /\ step \in {"synchronize", "launch"}
                           /\ Sch'[q].do = "poison" => step = "launch"
    /\ k <= launched => \E p \in DOMAIN Fwd' : /\ Publishing(p)' /\ Fwd'[p].k = k
                                               /\ Sch'[q].rows \subseteq Fwd'[p].rows
    /\ \A p \in DOMAIN Fwd' : Publishing(p)' =>
         IF Fwd'[p].k >= k THEN Barred("forward", p, "schedule", q)'
                          ELSE Barred("schedule", q, "forward", p)'
    /\ Sch'[q].do = "gather" =>
         \A x \in DOMAIN Sch' : x < q /\ Sch'[x].do = "poison" => Sch'[x].k < k
    BY <1>2 DEF Scheduled
  <2>1. q \in DOMAIN Sch /\ Sch'[q] = Sch[q] /\ Scheduled  BY <1>4 DEF LensInv
  <2> DEFINE k == Sch[q].k
  <2>2. k \in Nat  BY <2>1, <1>s, Kinds DEF Sch
  <2>3. ASSUME k <= launched
        PROVE  \E p \in DOMAIN Fwd' : /\ Publishing(p)' /\ Fwd'[p].k = k
                                      /\ Sch'[q].rows \subseteq Fwd'[p].rows
    <3>1. PICK p \in DOMAIN Fwd : Publishing(p) /\ Fwd[p].k = k /\ Sch[q].rows \subseteq Fwd[p].rows
      BY <2>1, <2>3 DEF Scheduled
    <3>2. Barred("forward", p, "schedule", q)  BY <2>1, <2>2, <3>1 DEF Scheduled
    <3>3. p # ran["forward"] + 1  BY <3>2, <1>s, BarredNotNext DEF Fwd
    <3>4. p \in DOMAIN Fwd'  BY <3>1, <3>3, <1>7 DEF h
    <3> QED  BY <3>1, <3>4, <1>4, <1>7, <2>1
  <2>4. ASSUME NEW p \in DOMAIN Fwd', Publishing(p)'
        PROVE  IF Fwd'[p].k >= k THEN Barred("forward", p, "schedule", q)'
                                 ELSE Barred("schedule", q, "forward", p)'
    <3>1. Publishing(p) /\ Fwd'[p] = Fwd[p] /\ p \in DOMAIN Fwd  BY <1>4, <1>7, <2>4
    <3>2. q \in DOMAIN todo'["schedule"] /\ p \in DOMAIN todo'["forward"]  BY DEF Sch, Fwd
    <3>3. Barred("forward", p, "schedule", q) => Barred("forward", p, "schedule", q)'
      BY <3>2, <1>s, BarredStays
    <3>4. Barred("schedule", q, "forward", p) => Barred("schedule", q, "forward", p)'
      BY <3>2, <1>s, BarredStays
    <3> QED  BY <3>1, <3>3, <3>4, <2>1 DEF Scheduled
  <2>5. ASSUME Sch[q].do = "gather"
        PROVE  \A x \in DOMAIN Sch' : x < q /\ Sch'[x].do = "poison" => Sch'[x].k < k
    BY <2>1, <2>5, <1>4 DEF Scheduled
  <2>6. /\ k <= launched + 1
        /\ k = launched + 1 => /\ Sch[q].rows \subseteq batch
                               /\ step \in {"synchronize", "launch"}
                               /\ Sch[q].do = "poison" => step = "launch"
    BY <2>1 DEF Scheduled
  <2> QED  BY <2>1, <2>3, <2>4, <2>5, <2>6
<1>16. Mixed'
  <2> SUFFICES ASSUME NEW q \in DOMAIN Fwd', Fwd'[q].do = "gather"
               PROVE  LET k == Fwd'[q].k IN
    /\ k <= launched + 1
    /\ k = launched + 1 => step \in {"synchronize tails", "launch"}
    /\ k <= launched => \E p \in DOMAIN Fwd' : Publishing(p)' /\ Fwd'[p].k = k
    /\ \A p \in DOMAIN Fwd' : Publishing(p)' => (p < q <=> Fwd'[p].k < k)
    /\ \A x \in DOMAIN Sch' : Sch'[x].do # "wait" => Sch'[x].k # k
    BY <1>2 DEF Mixed
  <2> DEFINE k == Fwd[q].k
  <2>1. q \in DOMAIN Fwd /\ Fwd'[q] = Fwd[q] /\ Fwd[q].do = "gather" /\ Mixed  BY <1>4 DEF LensInv
  <2>7. /\ k <= launched + 1
        /\ k = launched + 1 => step \in {"synchronize tails", "launch"}
        /\ k <= launched => \E p \in DOMAIN Fwd : Publishing(p) /\ Fwd[p].k = k
        /\ \A p \in DOMAIN Fwd : Publishing(p) => (p < q <=> Fwd[p].k < k)
        /\ \A x \in DOMAIN Sch : Sch[x].do # "wait" => Sch[x].k # k
    BY <2>1 DEF Mixed
  <2>2. k \in Nat /\ q \in Nat /\ q > ran["forward"] /\ (u = "forward" => q # h)
    BY <2>1, <1>s, <1>1, Kinds DEF Fwd
  <2>3. ASSUME k <= launched
        PROVE  \E p \in DOMAIN Fwd' : Publishing(p)' /\ Fwd'[p].k = k
    <3>1. PICK p \in DOMAIN Fwd : Publishing(p) /\ Fwd[p].k = k  BY <2>7, <2>3
    <3>2. ~(p < q)
      <4>1. ~(Fwd[p].k < k)  BY <2>2, <3>1
      <4> QED  BY <4>1, <2>7, <3>1
    <3>3. p # q  BY <3>1, <2>1 DEF Publishing
    <3>4. u = "forward" => p # h
      <4>1. p > q /\ p \in Nat  BY <3>2, <3>3, <3>1, <2>2, <1>8
      <4> QED  BY <4>1, <2>2, <1>3 DEF h
    <3>5. p \in DOMAIN Fwd'  BY <3>1, <3>4, <1>7
    <3> QED  BY <3>1, <3>5, <1>4, <1>7
  <2>4. \A p \in DOMAIN Fwd' : Publishing(p)' => (p < q <=> Fwd'[p].k < k)
    BY <2>7, <1>4, <1>7
  <2>5. \A x \in DOMAIN Sch' : Sch'[x].do # "wait" => Sch'[x].k # k  BY <2>7, <1>4
  <2> QED  BY <2>1, <2>7, <2>3, <2>4, <2>5
<1>17. Gathering'
  <2> SUFFICES ASSUME NEW s \in {"schedule", "forward"}, NEW q \in DOMAIN todo'[s], todo'[s][q].do = "gather"
               PROVE  WillTake(s, q)'
    BY DEF Gathering
  <2> DEFINE k == todo[s][q].k
             R == todo[s][q].rows
  <2>1. /\ s \in Streams /\ q \in DOMAIN todo[s] /\ todo'[s][q] = todo[s][q] /\ todo[s][q].do = "gather"
        /\ s = u => q # h
    BY <1>1
  <2>2. k \in Nat /\ k \in Forwards /\ R \in SUBSET PoolRows /\ q > ran[s] /\ q \in Nat  BY <2>1, <1>s, Kinds
  <2>3. WillTake(s, q)  BY <2>1 DEF LensInv, Gathering
  <2>4. /\ \A r \in PoolRows \ R : want[k][r] = 0
        /\ \A r \in R : (\A p \in DOMAIN Fwd : PublishingRow(p, r) => Fwd[p].k >= k) =>
                          lens_buf[r] = want[k][r]
        /\ \A p \in DOMAIN Fwd : \A r \in R :
             PublishingRow(p, r) /\ Fwd[p].k < k => want[k][r] = Fwd[p].k
    BY <2>3 DEF WillTake
  <2>5. s = "schedule" => /\ q \in DOMAIN Sch /\ Sch[q] = todo[s][q]
                          /\ k <= launched + 1
                          /\ \A p \in DOMAIN Fwd : Publishing(p) =>
                               IF Fwd[p].k >= k THEN Barred("forward", p, "schedule", q)
                                                ELSE Barred("schedule", q, "forward", p)
                          /\ \A x \in DOMAIN Sch : x < q /\ Sch[x].do = "poison" => Sch[x].k < k
    BY <2>1 DEF LensInv, Scheduled, Sch
  <2>6. s = "forward" => /\ q \in DOMAIN Fwd /\ Fwd[q] = todo[s][q]
                         /\ k <= launched + 1
                         /\ k <= launched => \E p \in DOMAIN Fwd : Publishing(p) /\ Fwd[p].k = k
                         /\ \A p \in DOMAIN Fwd : Publishing(p) => (p < q <=> Fwd[p].k < k)
                         /\ \A x \in DOMAIN Sch : Sch[x].do # "wait" => Sch[x].k # k
    BY <2>1 DEF LensInv, Mixed, Fwd
  <2>7. ASSUME NEW r \in R, \A p \in DOMAIN Fwd' : PublishingRow(p, r)' => Fwd'[p].k >= k
        PROVE  lens_buf'[r] = want[k][r]
    <3>1. r \in PoolRows /\ DOMAIN lens_buf = PoolRows  BY <2>2, <1>s DEF LensShape, Lengths
    <3>2. \A p \in DOMAIN Fwd : PublishingRow(p, r) /\ p \in DOMAIN Fwd' => Fwd[p].k >= k
      BY <2>7, <3>1, <1>4, <1>9
    <3>3. CASE o.do # "publish" /\ (o.do = "poison" => r \notin o.rows)
      <4>1. lens_buf'[r] = lens_buf[r]  BY <3>1, <3>3, <1>5
      <4>2. \A p \in DOMAIN Fwd : PublishingRow(p, r) => Fwd[p].k >= k  BY <3>1, <3>2, <3>3, <1>9
      <4> QED  BY <4>1, <4>2, <2>4
    <3>4. CASE o.do = "publish"
      <4>1. u = "forward" /\ h \in DOMAIN Fwd /\ o = Fwd[h] /\ Publishing(h) /\ h = ran["forward"] + 1
        BY <1>1, <1>5, <3>4 DEF Publishing, Fwd, o, h
      <4>2. o.k < k
        <5> SUFFICES ASSUME o.k >= k PROVE FALSE  BY <2>2, <1>6, <3>4
        <5>1. CASE s = "schedule"
          <6>1. Barred("forward", h, "schedule", q)  BY <5>1, <4>1, <2>5
          <6> QED  BY <6>1, <4>1, <1>s, BarredNotNext DEF Fwd
        <5>2. CASE s = "forward"
          <6>1. h < q  BY <5>2, <4>1, <2>1, <2>2, <1>3
          <6> QED  BY <6>1, <5>2, <4>1, <2>2, <2>6, <1>6, <3>4
        <5> QED  BY <5>1, <5>2
      <4>3. CASE r \in o.rows
        <5>1. PublishingRow(h, r)  BY <4>1, <4>3 DEF PublishingRow
        <5>2. want[k][r] = o.k  BY <5>1, <4>1, <4>2, <2>4
        <5> QED  BY <5>2, <4>3, <3>1, <3>4, <1>5
      <4>4. CASE r \notin o.rows
        <5>1. ~PublishingRow(h, r)  BY <4>1, <4>4 DEF PublishingRow
        <5>2. \A p \in DOMAIN Fwd : PublishingRow(p, r) => Fwd[p].k >= k
          BY <5>1, <3>2, <1>7 DEF PublishingRow
        <5> QED  BY <5>2, <4>4, <3>1, <3>4, <1>5, <2>4
      <4> QED  BY <4>3, <4>4
    <3>5. CASE o.do = "poison" /\ r \in o.rows
      <4>1. u = "schedule" /\ h \in DOMAIN Sch /\ o = Sch[h] /\ h = ran["schedule"] + 1
        BY <1>1, <1>5, <3>5 DEF Sch, o, h
      <4>2. /\ o.k <= launched + 1 /\ o.k \in Nat
            /\ o.k <= launched => \E p \in DOMAIN Fwd : Publishing(p) /\ Fwd[p].k = o.k /\ o.rows \subseteq Fwd[p].rows
            /\ \A p \in DOMAIN Fwd : Publishing(p) =>
                 IF Fwd[p].k >= o.k THEN Barred("forward", p, "schedule", h)
                                    ELSE Barred("schedule", h, "forward", p)
        BY <4>1, <3>5, <1>6 DEF LensInv, Scheduled
      <4>3. ~(o.k < k)
        <5> SUFFICES ASSUME o.k < k PROVE FALSE  OBVIOUS
        <5>1. o.k <= launched  BY <5>1, <2>2, <2>5, <2>6, <4>2, <1>10
        <5>2. PICK p \in DOMAIN Fwd : Publishing(p) /\ Fwd[p].k = o.k /\ o.rows \subseteq Fwd[p].rows
          BY <5>1, <4>2
        <5>3. PublishingRow(p, r) /\ p \in DOMAIN Fwd'  BY <5>2, <3>1, <3>5, <1>9 DEF PublishingRow
        <5>4. Fwd[p].k >= k  BY <5>3, <3>2
        <5> QED  BY <5>2, <5>4, <4>2, <2>2
      <4>4. CASE s = "schedule"
        <5>1. h < q /\ h \in DOMAIN Sch  BY <4>4, <4>1, <2>1, <2>2, <1>3
        <5> QED  BY <5>1, <4>1, <4>3, <4>4, <3>5, <2>5
      <4>5. CASE s = "forward"
        <5>1. o.k # k /\ k <= launched + 1  BY <4>1, <4>5, <3>5, <2>6
        <5>2. k < o.k /\ k <= launched  BY <5>1, <4>2, <4>3, <2>2, <1>10
        <5>3. PICK p \in DOMAIN Fwd : Publishing(p) /\ Fwd[p].k = k  BY <5>2, <4>5, <2>6
        <5>4. Barred("schedule", h, "forward", p)  BY <5>2, <5>3, <4>2, <2>2
        <5> QED  BY <5>4, <4>1, <1>s, BarredNotNext DEF Sch
      <4> QED  BY <4>4, <4>5
    <3> QED  BY <3>3, <3>4, <3>5
  <2>8. \A p \in DOMAIN Fwd' : \A r \in R :
          PublishingRow(p, r)' /\ Fwd'[p].k < k => want[k][r] = Fwd'[p].k
    BY <2>2, <2>4, <1>4, <1>9
  <2> QED  BY <2>1, <2>4, <2>7, <2>8, <1>2 DEF WillTake
<1>18. Taken'
  <2> SUFFICES ASSUME NEW k \in Forwards
               PROVE  \/ lens'[k] = want[k]
                      \/ \E s \in {"schedule", "forward"} : \E q \in DOMAIN todo'[s] :
                           todo'[s][q].do = "gather" /\ todo'[s][q].k = k
    BY <1>2 DEF Taken
  <2>1. o.do = "gather" => lens'[o.k] = want[o.k]
    <3> SUFFICES ASSUME o.do = "gather" PROVE lens'[o.k] = want[o.k]  OBVIOUS
    <3>1. u \in {"schedule", "forward"} /\ lens' = [lens EXCEPT ![o.k] = Only(lens_buf, o.rows)]  BY <1>5
    <3>2. Only(lens_buf, o.rows) = want[o.k]  BY <3>1, <1>1, GatherTakes DEF o, h
    <3>3. DOMAIN lens = Forwards /\ o.k \in Forwards  BY <1>s, <1>6 DEF LensShape
    <3> QED  BY <3>1, <3>2, <3>3
  <2>2. CASE lens[k] = want[k]
    <3>1. lens'[k] = lens[k] \/ (o.do = "gather" /\ k = o.k)  BY <1>5, <1>s DEF LensShape
    <3> QED  BY <3>1, <2>1, <2>2
  <2>3. CASE \E s \in {"schedule", "forward"} : \E q \in DOMAIN todo[s] :
               todo[s][q].do = "gather" /\ todo[s][q].k = k
    <3> PICK s \in {"schedule", "forward"} : \E q \in DOMAIN todo[s] : todo[s][q].do = "gather" /\ todo[s][q].k = k
      BY <2>3
    <3>1. PICK q \in DOMAIN todo[s] : todo[s][q].do = "gather" /\ todo[s][q].k = k  OBVIOUS
    <3>2. CASE s = u /\ q = h  BY <3>1, <3>2, <2>1 DEF o
    <3>3. CASE ~(s = u /\ q = h)
      <4>1. s \in Streams /\ q \in DOMAIN todo'[s] /\ todo'[s][q] = todo[s][q]  BY <3>1, <3>3, <1>1
      <4> QED  BY <4>1, <3>1
    <3> QED  BY <3>2, <3>3
  <2>4. Taken  BY DEF LensInv
  <2> QED  BY <2>2, <2>3, <2>4 DEF Taken
<1>19. Copying'
  <2>1. Copying /\ Published /\ Latest /\ Scheduled  BY DEF LensInv
  <2>2. event \in Nat /\ step \in {"idle", "synchronize", "synchronize tails", "launch"} /\ live \subseteq PoolRows
    BY <1>s DEF LensShape
  <2>a. /\ event \in Nat /\ ran["forward"] \in Nat /\ Given("forward") \in Nat /\ event <= Given("forward")
        /\ DOMAIN todo["forward"] = ran["forward"] + 1 .. Given("forward")
        /\ ran'["forward"] = IF u = "forward" THEN ran["forward"] + 1 ELSE ran["forward"]
        /\ u = "forward" => h = ran["forward"] + 1
    BY <1>1, <1>3, <2>1, <2>2 DEF Published, h
  <2>3. ASSUME Syncing, NEW c \in DOMAIN Cpy', Cpy'[c].do = "copy"
        PROVE  Barred("fwd_prepare_d2h", c, "forward", event)' \/ ran'["forward"] >= event
    <3>1. c \in DOMAIN Cpy /\ Cpy[c].do = "copy"  BY <2>3, <1>4
    <3>2. Barred("fwd_prepare_d2h", c, "forward", event) \/ ran["forward"] >= event
      BY <3>1, <2>1, <2>3 DEF Copying
    <3>3. CASE ran'["forward"] >= event  BY <3>3
    <3>4. CASE ~(ran'["forward"] >= event)
      <4>1. ~(ran["forward"] >= event)  BY <3>4, <2>a
      <4>2. Barred("fwd_prepare_d2h", c, "forward", event)  BY <4>1, <3>2
      <4>3. event \in DOMAIN todo'["forward"]
        <5>1. event \in ran["forward"] + 1 .. Given("forward")  BY <4>1, <2>a
        <5>2. u = "forward" => event # h  BY <2>a, <3>4
        <5> QED  BY <5>1, <5>2, <2>a, <1>1
      <4> QED  BY <4>2, <4>3, <1>s, <1>2, BarredStays
    <3> QED  BY <3>3, <3>4
  <2>4. ASSUME Syncing, \A c \in DOMAIN Cpy' : Cpy'[c].do # "copy"
        PROVE  ran'["forward"] >= event /\ \A r \in live : pinned'[r] = last[r]
    <3>1. CASE \A c \in DOMAIN Cpy : Cpy[c].do # "copy"
      <4>1. ran["forward"] >= event /\ \A r \in live : pinned[r] = last[r]  BY <3>1, <2>1, <2>4 DEF Copying
      <4>2. o.do # "copy"  BY <3>1, <1>1, <1>5 DEF Cpy, o
      <4>3. ran'["forward"] >= event  BY <4>1, <2>a
      <4>4. pinned' = pinned  BY <4>2, <1>5
      <4> QED  BY <4>1, <4>3, <4>4
    <3>2. ASSUME NEW c \in DOMAIN Cpy, Cpy[c].do = "copy"
          PROVE  ran'["forward"] >= event /\ \A r \in live : pinned'[r] = last[r]
      <4>1. u = "fwd_prepare_d2h" /\ c = h /\ o.do = "copy"
        BY <3>2, <2>4, <1>1 DEF Cpy, o
      <4>2. ~Barred("fwd_prepare_d2h", c, "forward", event)  BY <4>1, <3>2, <1>s, BarredNotNext DEF Cpy, h
      <4>3. ran["forward"] >= event /\ ran'["forward"] = ran["forward"]  BY <4>1, <4>2, <3>2, <2>1, <2>4, <1>1 DEF Copying
      <4>4. \A p \in DOMAIN Fwd : ~Publishing(p)
        <5> SUFFICES ASSUME NEW p \in DOMAIN Fwd, Publishing(p) PROVE FALSE  OBVIOUS
        <5>1. p <= event /\ p > ran["forward"] /\ p \in Nat  BY <2>1, <1>8 DEF Published
        <5> QED  BY <5>1, <4>3, <2>a
      <4>5. step # "launch"  BY <2>4 DEF Syncing
      <4>6. \A r \in live : lens_buf[r] = last[r]  BY <4>4, <4>5, <2>1, <2>2 DEF Latest, PublishingRow
      <4>7. pinned' = lens_buf  BY <4>1, <1>5
      <4> QED  BY <4>3, <4>6, <4>7
    <3> QED  BY <3>1, <3>2
  <2>5. Syncing' = Syncing  BY <1>2 DEF Syncing
  <2>6. Only(last, live)' = Only(last, live)  BY <1>2 DEF Only
  <2>7. Syncing => live \subseteq batch /\ want[launched + 1] = Only(last, live)  BY <2>1 DEF Copying
  <2>8. DOMAIN Cpy' # {} => Syncing  BY <2>1, <1>4 DEF Copying
  <2>9. \A k \in Forwards : k > launched + 1 \/ (k = launched + 1 /\ step = "idle") => lens_cpu[k] = NoLengths
    BY <2>1 DEF Copying
  <2>10. lens_cpu' = lens_cpu /\ want' = want /\ launched' = launched /\ step' = step /\ batch' = batch
         /\ live' = live /\ event' = event /\ last' = last
    BY <1>2
  <2>11. NoLengths' = NoLengths  BY DEF NoLengths
  <2>12. (\A c \in DOMAIN Cpy : Cpy[c].do = "copy" =>
            Barred("fwd_prepare_d2h", c, "forward", event) \/ ran["forward"] >= event)' \/ ~Syncing
    BY <2>3, <2>10
  <2> QED  BY <2>4, <2>5, <2>6, <2>7, <2>8, <2>9, <2>10, <2>11, <2>12 DEF Copying
<1>20. MirrorExact'
  <2>1. MirrorExact  BY DEF LensInv
  <2> QED  BY <2>1, <1>2 DEF MirrorExact, NoLengths
<1> QED  BY <1>11, <1>12, <1>13, <1>14, <1>15, <1>16, <1>17, <1>18, <1>19, <1>20 DEF LensInv

-----------------------------------------------------------------------------
(* The scheduler thread.                                                   *)

LEMMA Prepared ==
  ASSUME LensInv, CanPrepare
  PROVE  /\ step = "idle" /\ launched < MaxForward /\ launched + 1 \in Forwards /\ launched \in Nat
         /\ \A p \in DOMAIN Fwd : Publishing(p) => p = event /\ Fwd[p].k = launched
         /\ \A q \in DOMAIN Sch : Sch[q].do # "wait" => Sch[q].k \in Nat /\ Sch[q].k <= launched
         /\ \A q \in DOMAIN Fwd : Fwd[q].do = "gather" => Fwd[q].k \in Nat /\ Fwd[q].k <= launched
         /\ \A r \in PoolRows : (\A p \in DOMAIN Fwd : ~PublishingRow(p, r)) => lens_buf[r] = last[r]
         /\ \A p \in DOMAIN Fwd : \A r \in PoolRows : PublishingRow(p, r) => last[r] = Fwd[p].k
         /\ DOMAIN Cpy = {}
<1> USE StreamNames
<1>1. step = "idle" /\ launched < MaxForward  BY DEF CanPrepare
<1>2. LensShape /\ Published /\ Scheduled /\ Mixed /\ Latest /\ Copying  BY DEF LensInv
<1>3. launched \in Nat /\ launched \in 0..MaxForward /\ event \in Nat /\ MaxForward \in Nat
  <2>1. launched \in 0..MaxForward /\ event \in Nat  BY <1>2 DEF LensShape
  <2>2. MaxForward \in Nat  BY LensAssumption
  <2> QED  BY <2>1, <2>2
<1>4. launched + 1 \in Forwards  BY <1>1, <1>3 DEF Forwards
<1>5. ASSUME NEW p \in DOMAIN Fwd, Publishing(p)
      PROVE  p = event /\ Fwd[p].k = launched /\ \A r \in PoolRows : PublishingRow(p, r) => last[r] = launched
  <2>1. /\ p \in Nat /\ p > ran["forward"] /\ p <= Given("forward") /\ Fwd[p].k \in Nat
        /\ ran["forward"] \in Nat /\ Given("forward") \in Nat
        /\ Fwd[p] = queue["forward"][p - ran["forward"]]
    BY <1>2, <1>5, Kinds, Todo DEF Fwd, Publishing
  <2>2. p - ran["forward"] \in 1..Len(queue["forward"])
    <3>1. queue["forward"] \in Seq(WaitOps \cup Working)  BY <1>2 DEF LensShape
    <3>2. Len(queue["forward"]) \in Nat  BY <3>1, LenProperties
    <3> QED  BY <2>1, <3>2 DEF Given
  <2>3. Fwd[p].k >= launched  BY <1>5, <2>1, <2>2 DEF CanPrepare, Publishing
  <2>4. ~(p < event)
    <3>1. p < event => Fwd[p].k = launched - 1  BY <1>2, <1>5 DEF Published
    <3> QED  BY <3>1, <2>1, <2>3, <1>3
  <2>5. p = event  BY <2>1, <2>4, <1>2, <1>3, <1>5 DEF Published
  <2>6. Fwd[p] = Op("publish", launched, {r \in PoolRows : last[r] = launched})  BY <1>2, <2>1, <2>5 DEF Published
  <2> QED  BY <2>5, <2>6 DEF Op, PublishingRow
<1>6. ASSUME NEW q \in DOMAIN Sch, Sch[q].do # "wait"
      PROVE  Sch[q].k \in Nat /\ Sch[q].k <= launched
  <2>1. Sch[q].k \in Nat  BY <1>2, <1>6, Kinds DEF Sch
  <2>2. Sch[q].k <= launched + 1 /\ Sch[q].k # launched + 1  BY <1>1, <1>2, <1>6 DEF Scheduled
  <2> QED  BY <2>1, <2>2, <1>3
<1>7. ASSUME NEW q \in DOMAIN Fwd, Fwd[q].do = "gather"
      PROVE  Fwd[q].k \in Nat /\ Fwd[q].k <= launched
  <2>1. Fwd[q].k \in Nat  BY <1>2, <1>7, Kinds DEF Fwd
  <2>2. Fwd[q].k <= launched + 1 /\ Fwd[q].k # launched + 1  BY <1>1, <1>2, <1>7 DEF Mixed
  <2> QED  BY <2>1, <2>2, <1>3
<1>8. \A r \in PoolRows : (\A p \in DOMAIN Fwd : ~PublishingRow(p, r)) => lens_buf[r] = last[r]
  BY <1>1, <1>2 DEF Latest
<1>9. DOMAIN Cpy = {}  BY <1>1, <1>2 DEF Copying, Syncing
<1> QED  BY <1>1, <1>3, <1>4, <1>5, <1>6, <1>7, <1>8, <1>9 DEF PublishingRow

\* What appending leaves.
Grown == \A s \in Streams :
           /\ ran'[s] = ran[s]
           /\ Given(s)' >= Given(s) /\ Given(s)' \in Nat
           /\ \A p \in DOMAIN todo[s] : p \in DOMAIN todo'[s] /\ todo'[s][p] = todo[s][p]

LEMMA BarredGrown ==
  ASSUME Grown, NEW t \in Streams, NEW p, NEW s, NEW q, Barred(t, p, s, q)
  PROVE  Barred(t, p, s, q)'
<1>1. PICK w \in DOMAIN todo[t] : /\ w < p /\ todo[t][w].do = "wait" /\ todo[t][w].on = s
                                 /\ todo[t][w].at >= q
  BY DEF Barred
<1>2. w \in DOMAIN todo'[t] /\ todo'[t][w] = todo[t][w]  BY DEF Grown
<1> QED  BY <1>1, <1>2 DEF Barred

LEMMA QueueSame == queue' = queue /\ ran' = ran => todo' = todo
BY DEF todo
LEMMA GivenSame == ASSUME queue' = queue, ran' = ran, NEW s PROVE Given(s)' = Given(s)
BY DEF Given

LEMMA ReleaseStep ==
  ASSUME LensInv, NEW r \in PoolRows, Release(r)
  PROVE  LensInv'
<1>1. step = "idle" /\ live' = live \ {r}  BY DEF Release
<1>2. UNCHANGED <<needs_cpu, queue, ran, lens_buf, pinned, lens, lens_cpu, event, step, batch, launched, last, want>>
  BY DEF Release
<1>3. todo' = todo /\ Sch' = Sch /\ Fwd' = Fwd /\ Cpy' = Cpy /\ \A s : Given(s)' = Given(s)
  BY <1>2, QueueSame, GivenSame DEF Sch, Fwd, Cpy
<1>4. LensShape'  BY <1>1, <1>2 DEF LensInv, LensShape, Lengths
<1>5. Roles'  BY <1>3 DEF LensInv, Roles
<1>6. Published'  BY <1>2, <1>3 DEF LensInv, Published, Publishing
<1>7. Latest'  BY <1>2, <1>3 DEF LensInv, Latest, PublishingRow, Publishing
<1>8. Scheduled'  BY <1>2, <1>3 DEF LensInv, Scheduled, Publishing, Barred
<1>9. Mixed'  BY <1>2, <1>3 DEF LensInv, Mixed, Publishing
<1>10. Gathering'  BY <1>2, <1>3 DEF LensInv, Gathering, WillTake, PublishingRow, Publishing
<1>11. Taken'  BY <1>2, <1>3 DEF LensInv, Taken
<1>12. Copying'  BY <1>1, <1>2, <1>3 DEF LensInv, Copying, Syncing, NoLengths
<1>13. MirrorExact'  BY <1>2 DEF LensInv, MirrorExact, NoLengths
<1> QED  BY <1>4, <1>5, <1>6, <1>7, <1>8, <1>9, <1>10, <1>11, <1>12, <1>13 DEF LensInv

LEMMA PrefillStep ==
  ASSUME LensInv, NEW r \in PoolRows, Prefill(r)
  PROVE  LensInv'
<1>1. CanPrepare /\ batch' = {r} /\ step' = "launch"  BY DEF Prefill
<1>2. UNCHANGED <<needs_cpu, queue, ran, lens_buf, pinned, lens, lens_cpu, event, launched, live, last, want>>
  BY DEF Prefill
<1>3. todo' = todo /\ Sch' = Sch /\ Fwd' = Fwd /\ Cpy' = Cpy /\ \A s : Given(s)' = Given(s)
  BY <1>2, QueueSame, GivenSame DEF Sch, Fwd, Cpy
<1>p. /\ step = "idle" /\ launched < MaxForward /\ launched \in Nat
      /\ \A p \in DOMAIN Fwd : Publishing(p) => p = event /\ Fwd[p].k = launched
      /\ \A q \in DOMAIN Sch : Sch[q].do # "wait" => Sch[q].k \in Nat /\ Sch[q].k <= launched
      /\ \A q \in DOMAIN Fwd : Fwd[q].do = "gather" => Fwd[q].k \in Nat /\ Fwd[q].k <= launched
      /\ \A x \in PoolRows : (\A p \in DOMAIN Fwd : ~PublishingRow(p, x)) => lens_buf[x] = last[x]
      /\ DOMAIN Cpy = {}
  BY <1>1, Prepared
<1>e. event \in Nat  BY DEF LensInv, LensShape
<1>4. LensShape'  BY <1>1, <1>2, <1>p DEF LensInv, LensShape, Lengths
<1>5. Roles'  BY <1>3 DEF LensInv, Roles
<1>6. Published'
  <2>1. \A p \in DOMAIN Fwd : Publishing(p) => p <= event /\ ~(p < event)  BY <1>p, <1>e
  <2> QED  BY <1>2, <1>3, <2>1 DEF LensInv, Published, Publishing
<1>7. Latest'  BY <1>2, <1>3, <1>p DEF Latest, PublishingRow, Publishing
<1>8. Scheduled'
  <2>1. \A q \in DOMAIN Sch : Sch[q].do # "wait" => Sch[q].k # launched + 1  BY <1>p
  <2> QED  BY <1>2, <1>3, <2>1 DEF LensInv, Scheduled, Publishing, Barred
<1>9. Mixed'
  <2>1. \A q \in DOMAIN Fwd : Fwd[q].do = "gather" => Fwd[q].k # launched + 1  BY <1>p
  <2> QED  BY <1>2, <1>3, <2>1 DEF LensInv, Mixed, Publishing
<1>10. Gathering'  BY <1>2, <1>3 DEF LensInv, Gathering, WillTake, PublishingRow, Publishing
<1>11. Taken'  BY <1>2, <1>3 DEF LensInv, Taken
<1>12. Copying'  BY <1>1, <1>2, <1>3, <1>p DEF LensInv, Copying, Syncing, NoLengths
<1>13. MirrorExact'  BY <1>2 DEF LensInv, MirrorExact, NoLengths
<1> QED  BY <1>4, <1>5, <1>6, <1>7, <1>8, <1>9, <1>10, <1>11, <1>12, <1>13 DEF LensInv

LEMMA Growing ==
  ASSUME LensShape, NEW add \in [Streams -> Seq(WaitOps \cup Working)],
         queue' = [s \in Streams |-> queue[s] \o add[s]], ran' = ran
  PROVE  /\ Grown
         /\ \A s \in Streams :
              /\ Given(s)' = Given(s) + Len(add[s])
              /\ Len(add[s]) \in Nat /\ Given(s) \in Nat /\ Given(s)' \in Nat
              /\ \A p \in DOMAIN todo[s] : p <= Given(s)
              /\ \A p \in DOMAIN todo'[s] : p \in DOMAIN todo[s] \/ p \in Given(s) + 1 .. Given(s) + Len(add[s])
              /\ \A i \in 1..Len(add[s]) : Given(s) + i \in DOMAIN todo'[s] /\ todo'[s][Given(s) + i] = add[s][i]
         /\ queue' \in [Streams -> Seq(WaitOps \cup Working)]
<1>1. ASSUME NEW s \in Streams
      PROVE  /\ ran'[s] = ran[s]
             /\ queue'[s] \in Seq(WaitOps \cup Working)
             /\ Given(s)' = Given(s) + Len(add[s])
             /\ DOMAIN todo'[s] = ran[s] + 1 .. Given(s) + Len(add[s])
             /\ \A p \in DOMAIN todo[s] : p \in DOMAIN todo'[s] /\ todo'[s][p] = todo[s][p]
             /\ \A i \in 1..Len(add[s]) : todo'[s][Given(s) + i] = add[s][i]
             /\ Given(s) \in Nat /\ ran[s] \in Nat /\ Len(add[s]) \in Nat /\ Given(s) >= ran[s]
             /\ DOMAIN todo[s] = ran[s] + 1 .. Given(s)
  <2>1. add[s] \in Seq(WaitOps \cup Working) /\ Len(add[s]) \in Nat  BY LenProperties
  <2>2. Given(s) \in Nat /\ ran[s] \in Nat /\ DOMAIN todo[s] = ran[s] + 1 .. Given(s)  BY Todo
  <2>3. Given(s) >= ran[s]
    <3>1. queue[s] \in Seq(WaitOps \cup Working)  BY DEF LensShape
    <3>2. Len(queue[s]) \in Nat  BY <3>1, LenProperties
    <3> QED  BY <2>2, <3>2 DEF Given
  <2> QED  BY <2>1, <2>2, <2>3, Pushed
<1>2. ASSUME NEW s \in Streams
      PROVE  /\ Given(s)' >= Given(s) /\ Given(s)' \in Nat
             /\ \A p \in DOMAIN todo[s] : p <= Given(s)
             /\ \A p \in DOMAIN todo'[s] : p \in DOMAIN todo[s] \/ p \in Given(s) + 1 .. Given(s) + Len(add[s])
             /\ \A i \in 1..Len(add[s]) : Given(s) + i \in DOMAIN todo'[s]
  <2> DEFINE g == Given(s)
             a == ran[s]
             n == Len(add[s])
             D == DOMAIN todo[s]
             N == DOMAIN todo'[s]
  <2>1. g \in Nat /\ a \in Nat /\ n \in Nat /\ g >= a /\ D = a + 1 .. g /\ N = a + 1 .. g + n
        /\ Given(s)' = g + n
    BY <1>1
  <2> HIDE DEF g, a, n, D, N
  <2>2. /\ g + n >= g /\ g + n \in Nat
        /\ \A p \in D : p <= g
        /\ \A p \in N : p \in D \/ p \in g + 1 .. g + n
        /\ \A i \in 1..n : g + i \in N
    BY <2>1
  <2> QED  BY <2>1, <2>2 DEF g, a, n, D, N
<1> QED  BY <1>1, <1>2 DEF Grown

LEMMA LaunchStep ==
  ASSUME LensInv, Launch
  PROVE  LensInv'
<1> USE StreamNames
<1> DEFINE k == launched + 1
           g == Given("forward")
           wait == WaitFor("schedule", Given("schedule"))
           pub == Op("publish", k, batch)
           add == [s \in Streams |-> IF s = "forward" THEN <<wait, pub>> ELSE <<>>]
<1>s. LensShape  BY DEF LensInv
<1>1. /\ step = "launch" /\ step' = "idle" /\ launched' = k /\ batch' = {} /\ live' = live \cup batch
      /\ event' = Given("forward") + 2
      /\ last' = [r \in PoolRows |-> IF r \in batch THEN k ELSE last[r]]
      /\ queue' = [queue EXCEPT !["forward"] = @ \o <<wait, pub>>]
  BY DEF Launch, PublishPlace
<1>2. UNCHANGED <<needs_cpu, ran, lens_buf, pinned, lens, lens_cpu, want>>  BY DEF Launch
<1>3. launched \in 0..MaxForward /\ launched < MaxForward /\ batch \in SUBSET PoolRows /\ live \in SUBSET PoolRows
      /\ last \in [PoolRows -> 0..MaxForward]
  BY <1>s, <1>1 DEF LensShape
<1>4. k \in Forwards /\ k \in Nat /\ launched \in Nat /\ k \in 0..MaxForward
  BY <1>3, LensAssumption DEF Forwards
<1>5. wait \in WaitOps /\ pub \in Working
  BY <1>s, <1>3, <1>4, Todo DEF WaitFor, Op, WaitOps, Working
<1> HIDE DEF wait, pub, k
<1>6. add \in [Streams -> Seq(WaitOps \cup Working)]  BY <1>5
<1>7. queue' = [s \in Streams |-> queue[s] \o add[s]]
  <2>1. \A s \in Streams : queue[s] \o <<>> = queue[s]
    <3>1. \A s \in Streams : queue[s] \in Seq(WaitOps \cup Working)  BY <1>s DEF LensShape
    <3> QED  BY <3>1, ConcatEmptySeq
  <2>2. DOMAIN queue = Streams  BY <1>s DEF LensShape
  <2> QED  BY <1>1, <2>1, <2>2
<1>8. add["forward"] = <<wait, pub>> /\ \A s \in Streams : s # "forward" => add[s] = <<>>  OBVIOUS
<1> HIDE DEF add
<1>9. /\ Grown
      /\ \A s \in Streams :
           /\ Given(s)' = Given(s) + Len(add[s])
           /\ Len(add[s]) \in Nat /\ Given(s) \in Nat /\ Given(s)' \in Nat
           /\ \A p \in DOMAIN todo[s] : p <= Given(s)
           /\ \A p \in DOMAIN todo'[s] : p \in DOMAIN todo[s] \/ p \in Given(s) + 1 .. Given(s) + Len(add[s])
           /\ \A i \in 1..Len(add[s]) : Given(s) + i \in DOMAIN todo'[s] /\ todo'[s][Given(s) + i] = add[s][i]
      /\ queue' \in [Streams -> Seq(WaitOps \cup Working)]
  BY <1>s, <1>2, <1>6, <1>7, Growing
<1>10. /\ g \in Nat /\ Given("forward")' = g + 2
       /\ g + 1 \in DOMAIN Fwd' /\ Fwd'[g + 1] = wait
       /\ g + 2 \in DOMAIN Fwd' /\ Fwd'[g + 2] = pub
       /\ \A p \in DOMAIN Fwd : p \in DOMAIN Fwd' /\ Fwd'[p] = Fwd[p] /\ p \in Nat /\ p <= g
       /\ \A p \in DOMAIN Fwd' : p \in DOMAIN Fwd \/ p = g + 1 \/ p = g + 2
  <2>1. Len(add["forward"]) = 2 /\ add["forward"][1] = wait /\ add["forward"][2] = pub  BY <1>8
  <2>2. /\ Given("forward")' = g + 2 /\ g \in Nat
        /\ \A p \in DOMAIN todo["forward"] : p <= g
        /\ \A p \in DOMAIN todo'["forward"] : p \in DOMAIN todo["forward"] \/ p \in g + 1 .. g + 2
        /\ \A i \in 1..2 : g + i \in DOMAIN todo'["forward"] /\ todo'["forward"][g + i] = add["forward"][i]
    BY <1>9, <2>1
  <2>3. \A p \in g + 1 .. g + 2 : p = g + 1 \/ p = g + 2  BY <2>2
  <2>4. 1 \in 1..2 /\ 2 \in 1..2  OBVIOUS
  <2>5. \A p \in DOMAIN todo["forward"] : p \in Nat  BY <1>s, Kinds
  <2> QED  BY <2>1, <2>2, <2>3, <2>4, <2>5, <1>9 DEF Fwd, Grown
<1>11. ASSUME NEW s \in Streams, s # "forward"
       PROVE  /\ DOMAIN todo'[s] = DOMAIN todo[s] /\ Given(s)' = Given(s)
              /\ \A p \in DOMAIN todo[s] : todo'[s][p] = todo[s][p]
  <2>1. Len(add[s]) = 0  BY <1>8, <1>11
  <2>2. /\ Given(s)' = Given(s) + 0 /\ Given(s) \in Nat
        /\ \A p \in DOMAIN todo'[s] : p \in DOMAIN todo[s] \/ p \in Given(s) + 1 .. Given(s) + 0
    BY <1>9, <2>1
  <2>3. Given(s) + 1 .. Given(s) + 0 = {}  BY <2>2
  <2>4. \A p \in DOMAIN todo[s] : p \in DOMAIN todo'[s] /\ todo'[s][p] = todo[s][p]  BY <1>9 DEF Grown
  <2>5. Given(s)' = Given(s)  BY <2>2
  <2> QED  BY <2>2, <2>3, <2>4, <2>5
<1>12. /\ DOMAIN Sch' = DOMAIN Sch /\ \A q \in DOMAIN Sch : Sch'[q] = Sch[q]
       /\ DOMAIN Cpy' = DOMAIN Cpy
       /\ \A q \in DOMAIN Cpy : Cpy'[q] = Cpy[q]
  BY <1>11 DEF Sch, Cpy
<1>13. /\ wait.do = "wait" /\ wait.on = "schedule" /\ wait.at = Given("schedule")
       /\ pub.do = "publish" /\ pub.k = k /\ pub.rows = batch /\ k = launched + 1
  BY DEF wait, pub, WaitFor, Op, k
<1>14. ASSUME NEW p \in DOMAIN Fwd'
       PROVE  /\ Publishing(p)' => p = g + 2 \/ (p \in DOMAIN Fwd /\ Publishing(p))
              /\ Fwd'[p].do = "gather" => p \in DOMAIN Fwd /\ Fwd[p].do = "gather"
              /\ p \in DOMAIN Fwd /\ Publishing(p) => Publishing(p)'
  BY <1>10, <1>13 DEF Publishing
<1>n. PICK n \in Nat : n = g + 2  BY <1>10
<1>15. n \in DOMAIN Fwd' /\ Fwd'[n] = pub /\ Publishing(n)'  BY <1>n, <1>10, <1>13 DEF Publishing
<1> HIDE DEF g
<1>16. ASSUME NEW p \in DOMAIN Fwd, Publishing(p)
       PROVE  p = event /\ Fwd[p].k = launched /\ \A r \in Fwd[p].rows : last[r] = launched
  <2>1. Published /\ event \in Nat  BY <1>s DEF LensInv, LensShape
  <2>2. p \in Nat /\ p > ran["forward"]  BY <1>s, <1>16, Kinds DEF Fwd
  <2>3. p = event  BY <2>1, <2>2, <1>1, <1>16 DEF Published
  <2> QED  BY <2>1, <2>2, <2>3 DEF Published, Op
<1>17. LensShape'
  <2>1. last' \in [PoolRows -> 0..MaxForward]  BY <1>1, <1>3, <1>4
  <2>2. event' \in Nat  BY <1>1, <1>10 DEF g
  <2>3. batch' \subseteq PoolRows /\ live' \subseteq PoolRows /\ launched' \in 0..MaxForward /\ step' = "idle"
    BY <1>1, <1>3, <1>4
  <2> QED  BY <2>1, <2>2, <2>3, <1>2, <1>9, <1>s DEF LensShape, Lengths
<1>18. Roles'
  <2>1. Roles  BY DEF LensInv
  <2>2. ASSUME NEW s \in Streams, NEW t \in Streams, NEW p \in DOMAIN todo'[s],
               todo'[s][p].do = "wait", todo'[s][p].on = t
        PROVE  todo'[s][p].at <= Given(t)'
    <3>1. CASE p \in DOMAIN todo[s]
      <4>1. todo'[s][p] = todo[s][p] /\ Given(t)' >= Given(t) /\ Given(t) \in Nat /\ Given(t)' \in Nat
        BY <3>1, <1>9 DEF Grown
      <4>2. todo[s][p].at \in Nat  BY <3>1, <4>1, <2>2, <1>s, Kinds DEF WaitOps
      <4>3. todo[s][p].at <= Given(t)  BY <3>1, <4>1, <2>1, <2>2 DEF Roles
      <4> QED  BY <4>1, <4>2, <4>3
    <3>2. CASE p \notin DOMAIN todo[s]
      <4>1. s = "forward" /\ p = g + 1  BY <3>2, <1>10, <1>11, <1>13, <2>2 DEF Fwd
      <4>2. todo'[s][p] = wait  BY <4>1, <1>10 DEF Fwd
      <4>3. t = "schedule" /\ Given(t)' = Given(t) /\ Given(t) \in Nat  BY <4>2, <1>9, <1>11, <1>13, <2>2
      <4> QED  BY <4>2, <4>3, <1>13
    <3> QED  BY <3>1, <3>2
  <2>3. \A p \in DOMAIN Fwd' : Fwd'[p].do \in {"wait", "gather", "publish"}
    BY <2>1, <1>10, <1>13 DEF Roles
  <2> QED  BY <2>1, <2>2, <2>3, <1>12 DEF Roles
<1>19. Published'
  <2>1. \A r \in PoolRows : last[r] <= launched /\ last[r] \in Nat
    <3>1. \A r \in PoolRows : last[r] \in 0..MaxForward  BY <1>3
    <3>2. \A r \in PoolRows : last[r] <= launched  BY DEF LensInv, Published
    <3>3. \A i \in 0..MaxForward : i \in Nat  OBVIOUS
    <3> QED  BY <3>1, <3>2, <3>3
  <2>2. {r \in PoolRows : last'[r] = launched'} = batch  BY <2>1, <1>1, <1>3, <1>4 DEF k
  <2>3. event' = g + 2  BY <1>1 DEF g
  <2>4. Fwd'[event'] = Op("publish", launched', {r \in PoolRows : last'[r] = launched'})
    BY <2>2, <2>3, <1>1, <1>10 DEF pub
  <2>5. ASSUME NEW p \in DOMAIN Fwd', Publishing(p)'
        PROVE  /\ p <= event'
               /\ p < event' => /\ Fwd'[p].k = launched' - 1
                                /\ \A r \in Fwd'[p].rows : last'[r] >= launched' - 1
    <3>1. CASE p = g + 2  BY <3>1, <2>3, <1>10
    <3>2. CASE p \in DOMAIN Fwd /\ Publishing(p)
      <4>1. p <= g /\ p \in Nat /\ Fwd'[p] = Fwd[p]  BY <3>2, <1>10
      <4>2. Fwd[p].k = launched /\ \A r \in Fwd[p].rows : last[r] = launched /\ r \in PoolRows
        <5>1. Fwd[p].rows \in SUBSET PoolRows  BY <3>2, <1>s, Kinds DEF Fwd, Publishing
        <5> QED  BY <5>1, <3>2, <1>16
      <4>3. launched' - 1 = launched  BY <1>1, <1>4 DEF k
      <4>4. \A r \in Fwd[p].rows : last'[r] >= launched  BY <4>2, <1>1, <1>4 DEF k
      <4> QED  BY <4>1, <4>2, <4>3, <4>4, <2>3, <1>10
    <3> QED  BY <3>1, <3>2, <2>5, <1>14
  <2>6. \A r \in PoolRows : last'[r] <= launched'  BY <2>1, <1>1, <1>4 DEF k
  <2>7. event' <= Given("forward")'  BY <2>3, <1>10
  <2> QED  BY <2>4, <2>5, <2>6, <2>7, <1>1 DEF Published
<1>20. Latest'
  <2> SUFFICES ASSUME NEW r \in PoolRows, \A p \in DOMAIN Fwd' : ~PublishingRow(p, r)'
               PROVE  lens_buf'[r] = last'[r]
    BY DEF Latest
  <2>1. r \notin batch  BY <1>13, <1>15 DEF PublishingRow
  <2>2. \A p \in DOMAIN Fwd : ~PublishingRow(p, r)  BY <1>10, <1>14 DEF PublishingRow
  <2> QED  BY <2>1, <2>2, <1>1, <1>2 DEF LensInv, Latest
<1>21. Scheduled'
  <2> SUFFICES ASSUME NEW q \in DOMAIN Sch, Sch[q].do # "wait"
               PROVE  LET x == Sch[q].k IN
    /\ x <= launched' + 1
    /\ x # launched' + 1
    /\ \E p \in DOMAIN Fwd' : Publishing(p)' /\ Fwd'[p].k = x /\ Sch[q].rows \subseteq Fwd'[p].rows
    /\ \A p \in DOMAIN Fwd' : Publishing(p)' =>
         IF Fwd'[p].k >= x THEN Barred("forward", p, "schedule", q)'
                           ELSE Barred("schedule", q, "forward", p)'
    /\ Sch[q].do = "gather" =>
         \A o \in DOMAIN Sch : o < q /\ Sch[o].do = "poison" => Sch[o].k < x
    BY <1>12 DEF Scheduled
  <2> DEFINE x == Sch[q].k
  <2>1. x \in Nat /\ q \in Nat /\ q <= Given("schedule")  BY <1>s, Kinds DEF Sch
  <2>2. /\ x <= launched + 1
        /\ x = launched + 1 => Sch[q].rows \subseteq batch
        /\ x <= launched => \E p \in DOMAIN Fwd : Publishing(p) /\ Fwd[p].k = x /\ Sch[q].rows \subseteq Fwd[p].rows
        /\ \A p \in DOMAIN Fwd : Publishing(p) =>
             IF Fwd[p].k >= x THEN Barred("forward", p, "schedule", q)
                              ELSE Barred("schedule", q, "forward", p)
        /\ Sch[q].do = "gather" =>
             \A o \in DOMAIN Sch : o < q /\ Sch[o].do = "poison" => Sch[o].k < x
    BY DEF LensInv, Scheduled
  <2>3. x <= launched' + 1 /\ x # launched' + 1  BY <2>1, <2>2, <1>1, <1>4 DEF k
  <2>4. \E p \in DOMAIN Fwd' : Publishing(p)' /\ Fwd'[p].k = x /\ Sch[q].rows \subseteq Fwd'[p].rows
    <3>1. CASE x = launched + 1  BY <3>1, <2>2, <1>13, <1>15
    <3>2. CASE x # launched + 1
      <4>1. x <= launched  BY <3>2, <2>1, <2>2, <1>4
      <4>2. PICK p \in DOMAIN Fwd : Publishing(p) /\ Fwd[p].k = x /\ Sch[q].rows \subseteq Fwd[p].rows
        BY <4>1, <2>2
      <4> QED  BY <4>2, <1>10, <1>14
    <3> QED  BY <3>1, <3>2
  <2>5. ASSUME NEW p \in DOMAIN Fwd', Publishing(p)'
        PROVE  IF Fwd'[p].k >= x THEN Barred("forward", p, "schedule", q)'
                                 ELSE Barred("schedule", q, "forward", p)'
    <3>1. CASE p \in DOMAIN Fwd /\ Publishing(p)
      <4>1. Fwd'[p] = Fwd[p]  BY <3>1, <1>10
      <4>2. Barred("forward", p, "schedule", q) => Barred("forward", p, "schedule", q)'  BY <1>9, BarredGrown
      <4>3. Barred("schedule", q, "forward", p) => Barred("schedule", q, "forward", p)'  BY <1>9, BarredGrown
      <4> QED  BY <3>1, <4>1, <4>2, <4>3, <2>2
    <3>2. CASE p = g + 2
      <4>1. Fwd'[p].k >= x  BY <3>2, <2>1, <2>2, <1>4, <1>10, <1>13
      <4>2. g + 1 < p /\ g + 1 \in DOMAIN todo'["forward"] /\ todo'["forward"][g + 1] = wait
        BY <3>2, <1>10 DEF Fwd
      <4>3. Barred("forward", p, "schedule", q)'  BY <4>2, <2>1, <1>13 DEF Barred
      <4> QED  BY <4>1, <4>3
    <3> QED  BY <3>1, <3>2, <2>5, <1>14
  <2> QED  BY <2>2, <2>3, <2>4, <2>5
<1>22. Mixed'
  <2> SUFFICES ASSUME NEW q \in DOMAIN Fwd', Fwd'[q].do = "gather"
               PROVE  LET x == Fwd'[q].k IN
    /\ x <= launched' + 1
    /\ x # launched' + 1
    /\ \E p \in DOMAIN Fwd' : Publishing(p)' /\ Fwd'[p].k = x
    /\ \A p \in DOMAIN Fwd' : Publishing(p)' => (p < q <=> Fwd'[p].k < x)
    /\ \A o \in DOMAIN Sch' : Sch'[o].do # "wait" => Sch'[o].k # x
    BY DEF Mixed
  <2> DEFINE x == Fwd[q].k
  <2>1. q \in DOMAIN Fwd /\ Fwd[q].do = "gather" /\ Fwd'[q] = Fwd[q]  BY <1>10, <1>14
  <2>2. x \in Nat /\ q \in Nat /\ q <= g  BY <2>1, <1>s, <1>10, Kinds DEF Fwd
  <2>3. /\ x <= launched + 1
        /\ x <= launched => \E p \in DOMAIN Fwd : Publishing(p) /\ Fwd[p].k = x
        /\ \A p \in DOMAIN Fwd : Publishing(p) => (p < q <=> Fwd[p].k < x)
        /\ \A o \in DOMAIN Sch : Sch[o].do # "wait" => Sch[o].k # x
    BY <2>1 DEF LensInv, Mixed
  <2>4. x <= launched' + 1 /\ x # launched' + 1  BY <2>2, <2>3, <1>1, <1>4 DEF k
  <2>5. \E p \in DOMAIN Fwd' : Publishing(p)' /\ Fwd'[p].k = x
    <3>1. CASE x = launched + 1  BY <3>1, <1>13, <1>15
    <3>2. CASE x # launched + 1
      <4>1. x <= launched  BY <3>2, <2>2, <2>3, <1>4
      <4>2. PICK p \in DOMAIN Fwd : Publishing(p) /\ Fwd[p].k = x  BY <4>1, <2>3
      <4> QED  BY <4>2, <1>10, <1>14
    <3> QED  BY <3>1, <3>2
  <2>6. ASSUME NEW p \in DOMAIN Fwd', Publishing(p)'
        PROVE  p < q <=> Fwd'[p].k < x
    <3>1. CASE p \in DOMAIN Fwd /\ Publishing(p)  BY <3>1, <2>3, <1>10
    <3>2. CASE p = g + 2
      <4>1. ~(p < q)  BY <3>2, <2>2, <1>10
      <4>2. ~(Fwd'[p].k < x)  BY <3>2, <2>2, <2>3, <1>4, <1>10, <1>13
      <4> QED  BY <4>1, <4>2
    <3> QED  BY <3>1, <3>2, <2>6, <1>14
  <2> QED  BY <2>1, <2>3, <2>4, <2>5, <2>6, <1>12
<1>23. Gathering'
  <2> SUFFICES ASSUME NEW s \in {"schedule", "forward"}, NEW q \in DOMAIN todo'[s], todo'[s][q].do = "gather"
               PROVE  WillTake(s, q)'
    BY DEF Gathering
  <2>1. q \in DOMAIN todo[s] /\ todo'[s][q] = todo[s][q] /\ todo[s][q].do = "gather"
    BY <1>10, <1>11, <1>14 DEF Fwd
  <2> DEFINE x == todo[s][q].k
             R == todo[s][q].rows
  <2>2. x \in Nat /\ R \in SUBSET PoolRows  BY <2>1, <1>s, Kinds
  <2>3. WillTake(s, q)  BY <2>1 DEF LensInv, Gathering
  <2>4. x <= launched + 1  BY <2>1 DEF LensInv, Scheduled, Mixed, Sch, Fwd
  <2>5. \A r \in R : (\A p \in DOMAIN Fwd' : PublishingRow(p, r)' => Fwd'[p].k >= x) =>
                       lens_buf[r] = want[x][r]
    <3>1. \A p \in DOMAIN Fwd : \A r \in R : PublishingRow(p, r) => PublishingRow(p, r)'
      BY <1>10, <1>14 DEF PublishingRow
    <3> QED  BY <3>1, <2>3, <1>10 DEF WillTake
  <2>6. \A p \in DOMAIN Fwd' : \A r \in R : PublishingRow(p, r)' /\ Fwd'[p].k < x => want[x][r] = Fwd'[p].k
    <3> SUFFICES ASSUME NEW p \in DOMAIN Fwd', NEW r \in R, PublishingRow(p, r)', Fwd'[p].k < x
                 PROVE  want[x][r] = Fwd'[p].k
      OBVIOUS
    <3>1. Publishing(p)'  BY DEF PublishingRow
    <3>2. p # g + 2  BY <2>2, <2>4, <1>4, <1>10, <1>13
    <3>3. p \in DOMAIN Fwd /\ Publishing(p) /\ Fwd'[p] = Fwd[p]  BY <3>1, <3>2, <1>10, <1>14
    <3> QED  BY <3>3, <2>3 DEF WillTake, PublishingRow
  <2> QED  BY <2>1, <2>3, <2>5, <2>6, <1>2 DEF WillTake
<1>24. Taken'
  <2>1. Taken  BY DEF LensInv
  <2>2. ASSUME NEW s \in {"schedule", "forward"}, NEW q \in DOMAIN todo[s]
        PROVE  q \in DOMAIN todo'[s] /\ todo'[s][q] = todo[s][q]
    BY <1>9 DEF Grown
  <2> QED  BY <2>1, <2>2, <1>2 DEF Taken
<1>25. Copying'
  <2>1. ~Syncing /\ ~Syncing' /\ DOMAIN Cpy' = {}  BY <1>1, <1>12 DEF LensInv, Copying, Syncing
  <2>2. \A x \in Forwards : x > launched' + 1 \/ (x = launched' + 1 /\ step' = "idle") => lens_cpu'[x] = NoLengths
    <3>1. \A x \in Forwards : x >= launched' + 1 => x > launched + 1
      BY <1>1, <1>4 DEF k, Forwards
    <3>2. \A x \in Forwards : x > launched + 1 => lens_cpu[x] = NoLengths  BY DEF LensInv, Copying
    <3>3. \A x \in Forwards : x \in Nat  BY DEF Forwards
    <3> QED  BY <3>1, <3>2, <3>3, <1>1, <1>2, <1>4
  <2> QED  BY <2>1, <2>2 DEF Copying, NoLengths
<1>26. MirrorExact'  BY <1>2 DEF LensInv, MirrorExact, NoLengths
<1> QED  BY <1>17, <1>18, <1>19, <1>20, <1>21, <1>22, <1>23, <1>24, <1>25, <1>26 DEF LensInv

\* Preparing a forward: what Resolve and ResolveMixed share.
LEMMA Preparing ==
  ASSUME LensInv, CanPrepare, Grown,
         UNCHANGED <<ran, lens_buf, pinned, lens, lens_cpu, event, launched, live, last>>,
         want' = [want EXCEPT ![launched + 1] = Only(last, live)],
         step' # "idle", live \subseteq batch',
         \A p \in DOMAIN Fwd' : p \notin DOMAIN Fwd => Fwd'[p].do # "publish",
         \A s \in {"schedule", "forward"} : \A q \in DOMAIN todo'[s] :
           q \notin DOMAIN todo[s] /\ todo'[s][q].do = "gather" =>
             todo'[s][q].k = launched + 1 /\ todo'[s][q].rows = live,
         \E s \in {"schedule", "forward"} : \E q \in DOMAIN todo'[s] :
           todo'[s][q].do = "gather" /\ todo'[s][q].k = launched + 1,
         Syncing' \/ DOMAIN Cpy' = {},
         (\E c \in DOMAIN Cpy' : Cpy'[c].do = "copy") \/ ~Syncing',
         \A c \in DOMAIN Cpy' : Cpy'[c].do = "copy" =>
           Barred("fwd_prepare_d2h", c, "forward", event)'
  PROVE  Published' /\ Latest' /\ Gathering' /\ Taken' /\ Copying' /\ MirrorExact'
<1> USE StreamNames
<1>s. LensShape  BY DEF LensInv
<1>p. /\ step = "idle" /\ launched < MaxForward /\ launched + 1 \in Forwards /\ launched \in Nat
      /\ \A p \in DOMAIN Fwd : Publishing(p) => p = event /\ Fwd[p].k = launched
      /\ \A q \in DOMAIN Sch : Sch[q].do # "wait" => Sch[q].k \in Nat /\ Sch[q].k <= launched
      /\ \A q \in DOMAIN Fwd : Fwd[q].do = "gather" => Fwd[q].k \in Nat /\ Fwd[q].k <= launched
      /\ \A r \in PoolRows : (\A p \in DOMAIN Fwd : ~PublishingRow(p, r)) => lens_buf[r] = last[r]
      /\ \A p \in DOMAIN Fwd : \A r \in PoolRows : PublishingRow(p, r) => last[r] = Fwd[p].k
      /\ DOMAIN Cpy = {}
  BY Prepared
<1>1. /\ event \in Nat /\ last \in [PoolRows -> 0..MaxForward] /\ live \in SUBSET PoolRows
      /\ want \in [Forwards -> [PoolRows -> 0..MaxForward]]
  BY <1>s DEF LensShape
<1>2. /\ DOMAIN Fwd \subseteq DOMAIN Fwd' /\ \A p \in DOMAIN Fwd : Fwd'[p] = Fwd[p]
      /\ \A s \in Streams : \A p \in DOMAIN todo[s] : p \in DOMAIN todo'[s] /\ todo'[s][p] = todo[s][p]
      /\ Given("forward")' >= Given("forward")
  BY DEF Grown, Fwd
<1>3. ASSUME NEW p
      PROVE  Publishing(p)' <=> Publishing(p)
  BY <1>2 DEF Publishing
<1>4. ASSUME NEW p, NEW r
      PROVE  PublishingRow(p, r)' <=> PublishingRow(p, r)
  BY <1>2, <1>3 DEF PublishingRow, Publishing
<1>5. /\ want'[launched + 1] = Only(last, live)
      /\ \A k \in Forwards : k # launched + 1 => want'[k] = want[k]
  BY <1>p, <1>1
<1>6. Published'
  <2>1. event > ran["forward"] =>
          Fwd'[event] = Op("publish", launched, {r \in PoolRows : last[r] = launched})
    <3> SUFFICES ASSUME event > ran["forward"]
                 PROVE  Fwd'[event] = Op("publish", launched, {r \in PoolRows : last[r] = launched})
      OBVIOUS
    <3>1. /\ event <= Given("forward")
          /\ Fwd[event] = Op("publish", launched, {r \in PoolRows : last[r] = launched})
      BY DEF LensInv, Published
    <3>2. ran["forward"] \in Nat /\ Given("forward") \in Nat /\ DOMAIN todo["forward"] = ran["forward"] + 1 .. Given("forward")
      BY <1>s, Todo
    <3>3. event \in DOMAIN Fwd  BY <3>1, <3>2, <1>1 DEF Fwd
    <3> QED  BY <3>1, <3>3, <1>2
  <2>2. \A p \in DOMAIN Fwd' : Publishing(p)' => p <= event /\ ~(p < event)
    <3>1. \A p : Publishing(p)' => p = event  BY <1>3, <1>p DEF Publishing
    <3> QED  BY <3>1, <1>1
  <2>3. event <= Given("forward")'
    <3>1. event <= Given("forward")  BY DEF LensInv, Published
    <3>2. Given("forward") \in Nat  BY <1>s, Todo
    <3>3. Given("forward")' \in Nat  BY DEF Grown
    <3> QED  BY <3>1, <3>2, <3>3, <1>1, <1>2
  <2>4. \A r \in PoolRows : last[r] <= launched  BY DEF LensInv, Published
  <2> QED  BY <2>1, <2>2, <2>3, <2>4 DEF Published
<1>7. Latest'  BY <1>p, <1>2, <1>4 DEF Latest
<1>8. Gathering'
  <2> SUFFICES ASSUME NEW s \in {"schedule", "forward"}, NEW q \in DOMAIN todo'[s], todo'[s][q].do = "gather"
               PROVE  WillTake(s, q)'
    BY DEF Gathering
  <2> DEFINE k == todo'[s][q].k
             R == todo'[s][q].rows
  <2>1. CASE q \in DOMAIN todo[s]
    <3>1. todo'[s][q] = todo[s][q]  BY <2>1, <1>2
    <3>2. WillTake(s, q)  BY <2>1, <3>1 DEF LensInv, Gathering
    <3>3. k \in Forwards /\ R \in SUBSET PoolRows  BY <2>1, <3>1, <1>s, Kinds
    <3>4. k \in Nat /\ k <= launched  BY <2>1, <3>1, <1>p DEF Sch, Fwd
    <3>5. want'[k] = want[k]  BY <3>3, <3>4, <1>p, <1>5
    <3>6. \A r \in PoolRows \ R : want'[k][r] = 0  BY <3>1, <3>2, <3>5 DEF WillTake
    <3>7. \A r \in R : (\A p \in DOMAIN Fwd' : PublishingRow(p, r)' => Fwd'[p].k >= k) => lens_buf[r] = want'[k][r]
      <4> SUFFICES ASSUME NEW r \in R, \A p \in DOMAIN Fwd' : PublishingRow(p, r)' => Fwd'[p].k >= k
                   PROVE  lens_buf[r] = want'[k][r]
        OBVIOUS
      <4>1. \A p \in DOMAIN Fwd : PublishingRow(p, r) => Fwd[p].k >= k  BY <1>2, <1>4
      <4> QED  BY <4>1, <3>1, <3>2, <3>5 DEF WillTake
    <3>8. \A p \in DOMAIN Fwd' : \A r \in R : PublishingRow(p, r)' /\ Fwd'[p].k < k => want'[k][r] = Fwd'[p].k
      <4> SUFFICES ASSUME NEW p \in DOMAIN Fwd', NEW r \in R, PublishingRow(p, r)', Fwd'[p].k < k
                   PROVE  want'[k][r] = Fwd'[p].k
        OBVIOUS
      <4>1. PublishingRow(p, r)  BY <1>4
      <4>2. p \in DOMAIN Fwd /\ Fwd'[p] = Fwd[p]  BY <4>1, <1>2 DEF PublishingRow, Publishing
      <4> QED  BY <4>1, <4>2, <3>1, <3>2, <3>5 DEF WillTake
    <3> QED  BY <3>6, <3>7, <3>8 DEF WillTake
  <2>2. CASE q \notin DOMAIN todo[s]
    <3>1. k = launched + 1 /\ R = live  BY <2>2
    <3>2. want'[k] = Only(last, live)  BY <3>1, <1>5
    <3>3. \A r \in PoolRows : want'[k][r] = IF r \in live THEN last[r] ELSE 0  BY <3>2 DEF Only
    <3>4. \A r \in PoolRows \ R : want'[k][r] = 0  BY <3>1, <3>3
    <3>5. \A r \in R : (\A p \in DOMAIN Fwd' : PublishingRow(p, r)' => Fwd'[p].k >= k) => lens_buf[r] = want'[k][r]
      <4> SUFFICES ASSUME NEW r \in R, \A p \in DOMAIN Fwd' : PublishingRow(p, r)' => Fwd'[p].k >= k
                   PROVE  lens_buf[r] = want'[k][r]
        OBVIOUS
      <4>1. ASSUME NEW p \in DOMAIN Fwd, PublishingRow(p, r) PROVE FALSE
        <5>1. Fwd[p].k >= k  BY <4>1, <1>2, <1>4
        <5>2. Fwd[p].k = launched  BY <4>1, <1>p DEF PublishingRow
        <5> QED  BY <5>1, <5>2, <3>1, <1>p
      <4>2. r \in PoolRows  BY <3>1, <1>1
      <4>3. lens_buf[r] = last[r]  BY <4>1, <4>2, <1>p
      <4> QED  BY <4>2, <4>3, <3>1, <3>3
    <3>6. \A p \in DOMAIN Fwd' : \A r \in R : PublishingRow(p, r)' /\ Fwd'[p].k < k => want'[k][r] = Fwd'[p].k
      <4> SUFFICES ASSUME NEW p \in DOMAIN Fwd', NEW r \in R, PublishingRow(p, r)'
                   PROVE  want'[k][r] = Fwd'[p].k
        OBVIOUS
      <4>1. PublishingRow(p, r)  BY <1>4
      <4>2. p \in DOMAIN Fwd /\ Fwd'[p] = Fwd[p]  BY <4>1, <1>2 DEF PublishingRow, Publishing
      <4>3. r \in PoolRows  BY <3>1, <1>1
      <4>4. last[r] = Fwd[p].k  BY <4>1, <4>2, <4>3, <1>p
      <4> QED  BY <4>2, <4>3, <4>4, <3>1, <3>3
    <3> QED  BY <3>4, <3>5, <3>6 DEF WillTake
  <2> QED  BY <2>1, <2>2
<1>9. Taken'
  <2> SUFFICES ASSUME NEW k \in Forwards
               PROVE  \/ lens[k] = want'[k]
                      \/ \E s \in {"schedule", "forward"} : \E q \in DOMAIN todo'[s] :
                           todo'[s][q].do = "gather" /\ todo'[s][q].k = k
    BY DEF Taken
  <2>1. CASE k = launched + 1  BY <2>1
  <2>2. CASE k # launched + 1
    <3>1. want'[k] = want[k]  BY <2>2, <1>5
    <3>2. \A s \in {"schedule", "forward"} : \A q \in DOMAIN todo[s] :
            q \in DOMAIN todo'[s] /\ todo'[s][q] = todo[s][q]
      BY <1>2
    <3> QED  BY <3>1, <3>2 DEF LensInv, Taken
  <2> QED  BY <2>1, <2>2
<1>10. Copying'
  <2>1. \A k \in Forwards : k > launched + 1 => lens_cpu[k] = NoLengths  BY DEF LensInv, Copying
  <2>2. (Only(last, live))' = Only(last, live) /\ NoLengths' = NoLengths  BY DEF Only, NoLengths
  <2>3. (\A c \in DOMAIN Cpy : Cpy[c].do = "copy" =>
            Barred("fwd_prepare_d2h", c, "forward", event) \/ ran["forward"] >= event)'
    OBVIOUS
  <2> QED  BY <2>1, <2>2, <2>3, <1>5 DEF Copying
<1>11. MirrorExact'
  <2>1. lens_cpu[launched + 1] = NoLengths  BY <1>p DEF LensInv, Copying
  <2>2. NoLengths' = NoLengths  BY DEF NoLengths
  <2> QED  BY <2>1, <2>2, <1>5 DEF LensInv, MirrorExact
<1> QED  BY <1>6, <1>7, <1>8, <1>9, <1>10, <1>11

LEMMA Chain ==
  ASSUME NEW Q \in Seq(WaitOps \cup Working), NEW a \in WaitOps \cup Working, NEW b \in WaitOps \cup Working
  PROVE  /\ (Q \o <<a>>) \o <<b>> = Q \o <<a, b>>
         /\ \A c \in WaitOps \cup Working : ((Q \o <<a>>) \o <<b>>) \o <<c>> = Q \o <<a, b, c>>
<1> DEFINE T == WaitOps \cup Working
<1> HIDE DEF T
<1>0. Q \in Seq(T) /\ a \in T /\ b \in T  BY DEF T
<1>1. <<a>> \in Seq(T) /\ <<b>> \in Seq(T) /\ <<a, b>> \in Seq(T)  BY <1>0
<1>2. (Q \o <<a>>) \o <<b>> = Q \o (<<a>> \o <<b>>)  BY <1>0, <1>1, ConcatAssociative
<1>3. <<a>> \o <<b>> = <<a, b>>
  <2>1. /\ <<a>> \o <<b>> \in Seq(T) /\ Len(<<a>> \o <<b>>) = 2
        /\ (<<a>> \o <<b>>)[1] = a /\ (<<a>> \o <<b>>)[2] = b
    BY <1>1, ConcatProperties
  <2>2. \A i \in 1..2 : i = 1 \/ i = 2  OBVIOUS
  <2>3. \A i \in 1..2 : (<<a>> \o <<b>>)[i] = <<a, b>>[i]  BY <2>1, <2>2
  <2> QED  BY <1>1, <2>1, <2>3, SeqEqual
<1>4. ASSUME NEW c \in T PROVE (Q \o <<a, b>>) \o <<c>> = Q \o <<a, b, c>>
  <2>1. <<c>> \in Seq(T) /\ <<a, b, c>> \in Seq(T)  BY <1>0
  <2>2. (Q \o <<a, b>>) \o <<c>> = Q \o (<<a, b>> \o <<c>>)  BY <1>0, <1>1, <2>1, ConcatAssociative
  <2>3. /\ <<a, b>> \o <<c>> \in Seq(T) /\ Len(<<a, b>> \o <<c>>) = 3
        /\ \A i \in 1..2 : (<<a, b>> \o <<c>>)[i] = <<a, b>>[i]
        /\ \A i \in 1..1 : (<<a, b>> \o <<c>>)[2 + i] = <<c>>[i]
    BY <1>1, <2>1, ConcatProperties
  <2>4. \A i \in 1..3 : i = 1 \/ i = 2 \/ i = 3  OBVIOUS
  <2>5. 1 \in 1..2 /\ 2 \in 1..2 /\ 1 \in 1..1 /\ 2 + 1 = 3  OBVIOUS
  <2>6. \A i \in 1..3 : (<<a, b>> \o <<c>>)[i] = <<a, b, c>>[i]  BY <2>3, <2>4, <2>5
  <2>7. <<a, b>> \o <<c>> = <<a, b, c>>  BY <2>1, <2>3, <2>6, SeqEqual
  <2> QED  BY <2>2, <2>7
<1> QED  BY <1>2, <1>3, <1>4 DEF T

LEMMA ResolveStep ==
  ASSUME LensInv, Resolve
  PROVE  LensInv'
<1> USE StreamNames
<1> DEFINE k == launched + 1
           w == WaitFor("forward", event)
           gth == Op("gather", k, live)
           psn == Op("poison", k, live)
           cpy == Op("copy", k, PoolRows)
           g == Given("schedule")
           d == Given("fwd_prepare_d2h")
           add == [s \in Streams |->
                     CASE s = "schedule" -> IF PoisonEarly THEN <<w, gth, psn>> ELSE <<w, gth>>
                       [] s = "fwd_prepare_d2h" -> IF needs_cpu THEN <<w, cpy>> ELSE <<>>
                       [] s = "forward" -> <<>>]
<1>s. LensShape  BY DEF LensInv
<1>1. /\ CanPrepare /\ batch' = live /\ step' = IF needs_cpu THEN "synchronize" ELSE "launch"
      /\ want' = [want EXCEPT ![k] = Only(last, live)]
      /\ UNCHANGED <<needs_cpu, ran, lens_buf, pinned, lens, lens_cpu, event, launched, live, last>>
  BY DEF Resolve
<1>p. /\ step = "idle" /\ launched < MaxForward /\ k \in Forwards /\ launched \in Nat
      /\ \A p \in DOMAIN Fwd : Publishing(p) => p = event /\ Fwd[p].k = launched
      /\ \A q \in DOMAIN Sch : Sch[q].do # "wait" => Sch[q].k \in Nat /\ Sch[q].k <= launched
      /\ \A q \in DOMAIN Fwd : Fwd[q].do = "gather" => Fwd[q].k \in Nat /\ Fwd[q].k <= launched
      /\ DOMAIN Cpy = {}
  BY <1>1, Prepared
<1>2. event \in Nat /\ live \in SUBSET PoolRows /\ last \in [PoolRows -> 0..MaxForward]
      /\ needs_cpu \in BOOLEAN /\ needs_cpu \in NeedsCpu
  BY <1>s, LensAssumption DEF LensShape
<1>3. w \in WaitOps /\ gth \in Working /\ psn \in Working /\ cpy \in Working
  BY <1>p, <1>2 DEF WaitFor, Op, WaitOps, Working
<1>4. queue' = [queue EXCEPT
       !["schedule"] = ((@ \o <<w>>) \o <<gth>>) \o (IF PoisonEarly THEN <<psn>> ELSE <<>>),
       !["fwd_prepare_d2h"] = IF needs_cpu THEN (@ \o <<w>>) \o <<cpy>> ELSE @]
  BY DEF Resolve, GatherFence, CopyFence
<1> HIDE DEF w, gth, psn, cpy
<1>5. add \in [Streams -> Seq(WaitOps \cup Working)]
  <2>1. <<w, gth, psn>> \in Seq(WaitOps \cup Working) /\ <<w, gth>> \in Seq(WaitOps \cup Working)
        /\ <<w, cpy>> \in Seq(WaitOps \cup Working) /\ <<>> \in Seq(WaitOps \cup Working)
    BY <1>3
  <2> QED  BY <2>1
<1>6. queue' = [s \in Streams |-> queue[s] \o add[s]]
  <2>1. \A s \in Streams : queue[s] \in Seq(WaitOps \cup Working)  BY <1>s DEF LensShape
  <2>2. DOMAIN queue = Streams  BY <1>s DEF LensShape
  <2>3. DOMAIN queue' = Streams  BY <1>4, <2>2
  <2>8. /\ queue["schedule"] \in Seq(WaitOps \cup Working) /\ w \in WaitOps \cup Working
        /\ gth \in WaitOps \cup Working /\ psn \in WaitOps \cup Working
    BY <2>1, <1>3
  <2>9. /\ (queue["schedule"] \o <<w>>) \o <<gth>> = queue["schedule"] \o <<w, gth>>
        /\ ((queue["schedule"] \o <<w>>) \o <<gth>>) \o <<psn>> = queue["schedule"] \o <<w, gth, psn>>
    BY <2>8, Chain
  <2>4. queue'["schedule"] = queue["schedule"] \o add["schedule"]
    <3>1. CASE PoisonEarly
      <4>1. add["schedule"] = <<w, gth, psn>>  BY <3>1
      <4>2. queue'["schedule"] = ((queue["schedule"] \o <<w>>) \o <<gth>>) \o <<psn>>  BY <3>1, <1>4, <2>2
      <4> QED  BY <4>1, <4>2, <2>9
    <3>2. CASE ~PoisonEarly
      <4>1. add["schedule"] = <<w, gth>>  BY <3>2
      <4>2. queue'["schedule"] = ((queue["schedule"] \o <<w>>) \o <<gth>>) \o <<>>  BY <3>2, <1>4, <2>2
      <4>3. (queue["schedule"] \o <<w>>) \o <<gth>> = queue["schedule"] \o <<w, gth>>
        BY <2>9
      <4>4. queue["schedule"] \o <<w, gth>> \in Seq(WaitOps \cup Working)
        BY <2>1, <1>3, ConcatProperties
      <4> QED  BY <4>1, <4>2, <4>3, <4>4, ConcatEmptySeq
    <3> QED  BY <3>1, <3>2
  <2>5. queue'["fwd_prepare_d2h"] = queue["fwd_prepare_d2h"] \o add["fwd_prepare_d2h"]
    <3>1. CASE needs_cpu
      <4>1. add["fwd_prepare_d2h"] = <<w, cpy>>  BY <3>1
      <4>2. queue'["fwd_prepare_d2h"] = (queue["fwd_prepare_d2h"] \o <<w>>) \o <<cpy>>  BY <3>1, <1>4, <2>2
      <4> QED  BY <4>1, <4>2, <2>1, <1>3, Chain
    <3>2. CASE ~needs_cpu
      <4>1. add["fwd_prepare_d2h"] = <<>>  BY <3>2
      <4>2. queue'["fwd_prepare_d2h"] = queue["fwd_prepare_d2h"]  BY <3>2, <1>4, <2>2
      <4> QED  BY <4>1, <4>2, <2>1, ConcatEmptySeq
    <3> QED  BY <3>1, <3>2
  <2>6. queue'["forward"] = queue["forward"] \o add["forward"]
    <3>1. add["forward"] = <<>> /\ queue'["forward"] = queue["forward"]  BY <1>4, <2>2
    <3> QED  BY <3>1, <2>1, ConcatEmptySeq
  <2>7. queue' = [s \in Streams |-> queue'[s]]  BY <1>4, <2>3
  <2> HIDE DEF add
  <2> QED  BY <2>4, <2>5, <2>6, <2>7
<1>7. /\ add["schedule"] = IF PoisonEarly THEN <<w, gth, psn>> ELSE <<w, gth>>
      /\ add["fwd_prepare_d2h"] = IF needs_cpu THEN <<w, cpy>> ELSE <<>>
      /\ add["forward"] = <<>>
  OBVIOUS
<1> HIDE DEF add
<1>8. /\ Grown
      /\ \A s \in Streams :
           /\ Given(s)' = Given(s) + Len(add[s])
           /\ Len(add[s]) \in Nat /\ Given(s) \in Nat /\ Given(s)' \in Nat
           /\ \A p \in DOMAIN todo[s] : p <= Given(s)
           /\ \A p \in DOMAIN todo'[s] : p \in DOMAIN todo[s] \/ p \in Given(s) + 1 .. Given(s) + Len(add[s])
           /\ \A i \in 1..Len(add[s]) : Given(s) + i \in DOMAIN todo'[s] /\ todo'[s][Given(s) + i] = add[s][i]
      /\ queue' \in [Streams -> Seq(WaitOps \cup Working)]
  BY <1>s, <1>1, <1>5, <1>6, Growing
<1>9. /\ g \in Nat
      /\ g + 1 \in DOMAIN Sch' /\ Sch'[g + 1] = w
      /\ g + 2 \in DOMAIN Sch' /\ Sch'[g + 2] = gth
      /\ PoisonEarly => Sch'[g + 3] = psn
      /\ \A q \in DOMAIN Sch : q \in DOMAIN Sch' /\ Sch'[q] = Sch[q] /\ q \in Nat /\ q <= g
      /\ \A q \in DOMAIN Sch' : q \in DOMAIN Sch \/ q = g + 1 \/ q = g + 2 \/ (PoisonEarly /\ q = g + 3)
  <2> DEFINE n == Len(add["schedule"])
  <2>1. /\ n = IF PoisonEarly THEN 3 ELSE 2
        /\ add["schedule"][1] = w /\ add["schedule"][2] = gth
        /\ PoisonEarly => add["schedule"][3] = psn
    BY <1>7
  <2>2. /\ g \in Nat /\ n \in Nat
        /\ \A q \in DOMAIN todo["schedule"] : q <= g
        /\ \A q \in DOMAIN todo'["schedule"] : q \in DOMAIN todo["schedule"] \/ q \in g + 1 .. g + n
        /\ \A i \in 1..n : g + i \in DOMAIN todo'["schedule"] /\ todo'["schedule"][g + i] = add["schedule"][i]
    BY <1>8
  <2> HIDE DEF n
  <2>3. \A q \in g + 1 .. g + n : q = g + 1 \/ q = g + 2 \/ (PoisonEarly /\ q = g + 3)
    BY <2>1, <2>2
  <2>4. 1 \in 1..n /\ 2 \in 1..n /\ (PoisonEarly => 3 \in 1..n)  BY <2>1
  <2>5. \A q \in DOMAIN todo["schedule"] : q \in Nat  BY <1>s, Kinds
  <2>6. \A q \in DOMAIN todo["schedule"] : q \in DOMAIN todo'["schedule"] /\ todo'["schedule"][q] = todo["schedule"][q]
    BY <1>8 DEF Grown
  <2> QED  BY <2>1, <2>2, <2>3, <2>4, <2>5, <2>6 DEF Sch
<1>10. /\ d \in Nat
       /\ needs_cpu => /\ d + 1 \in DOMAIN Cpy' /\ Cpy'[d + 1] = w
                       /\ d + 2 \in DOMAIN Cpy' /\ Cpy'[d + 2] = cpy
       /\ \A c \in DOMAIN Cpy' : needs_cpu /\ (c = d + 1 \/ c = d + 2)
  <2> DEFINE n == Len(add["fwd_prepare_d2h"])
  <2>1. /\ n = IF needs_cpu THEN 2 ELSE 0
        /\ needs_cpu => add["fwd_prepare_d2h"][1] = w /\ add["fwd_prepare_d2h"][2] = cpy
    BY <1>7
  <2>2. /\ d \in Nat /\ n \in Nat
        /\ \A q \in DOMAIN todo'["fwd_prepare_d2h"] : q \in DOMAIN todo["fwd_prepare_d2h"] \/ q \in d + 1 .. d + n
        /\ \A i \in 1..n : d + i \in DOMAIN todo'["fwd_prepare_d2h"]
                           /\ todo'["fwd_prepare_d2h"][d + i] = add["fwd_prepare_d2h"][i]
    BY <1>8
  <2> HIDE DEF n
  <2>3. \A q \in d + 1 .. d + n : needs_cpu /\ (q = d + 1 \/ q = d + 2)  BY <2>1, <2>2, <1>2
  <2>4. needs_cpu => 1 \in 1..n /\ 2 \in 1..n  BY <2>1
  <2>5. DOMAIN todo["fwd_prepare_d2h"] = {}  BY <1>p DEF Cpy
  <2> QED  BY <2>1, <2>2, <2>3, <2>4, <2>5 DEF Cpy
<1>11. DOMAIN Fwd' = DOMAIN Fwd /\ \A q \in DOMAIN Fwd : Fwd'[q] = Fwd[q]
  <2>1. Len(add["forward"]) = 0  BY <1>7
  <2>2. /\ Given("forward") \in Nat
        /\ \A p \in DOMAIN todo'["forward"] : p \in DOMAIN todo["forward"] \/ p \in Given("forward") + 1 .. Given("forward") + 0
    BY <1>8, <2>1
  <2>3. Given("forward") + 1 .. Given("forward") + 0 = {}  BY <2>2
  <2> QED  BY <2>2, <2>3, <1>8 DEF Grown, Fwd
<1>12. /\ w.do = "wait" /\ w.on = "forward" /\ w.at = event
       /\ gth.do = "gather" /\ gth.k = k /\ gth.rows = live
       /\ psn.do = "poison" /\ psn.k = k /\ psn.rows = live
       /\ cpy.do = "copy" /\ k = launched + 1 /\ k \in Nat
  BY <1>p DEF w, gth, psn, cpy, WaitFor, Op
<1>13. PoisonEarly => ~needs_cpu  BY DEF PoisonEarly
<1> HIDE DEF k, g, d
<1>14. Published' /\ Latest' /\ Gathering' /\ Taken' /\ Copying' /\ MirrorExact'
  <2>1. \A s \in {"schedule", "forward"} : \A q \in DOMAIN todo'[s] :
           q \notin DOMAIN todo[s] /\ todo'[s][q].do = "gather" =>
             todo'[s][q].k = launched + 1 /\ todo'[s][q].rows = live
    BY <1>9, <1>11, <1>12 DEF Sch, Fwd
  <2>2. g + 2 \in DOMAIN todo'["schedule"] /\ todo'["schedule"][g + 2] = gth  BY <1>9 DEF Sch
  <2>3. \E s \in {"schedule", "forward"} : \E q \in DOMAIN todo'[s] :
           todo'[s][q].do = "gather" /\ todo'[s][q].k = launched + 1
    BY <2>2, <1>12
  <2>4. Syncing' <=> needs_cpu  BY <1>1, <1>2 DEF Syncing
  <2>5. Syncing' \/ DOMAIN Cpy' = {}  BY <2>4, <1>10
  <2>6. needs_cpu => d + 2 \in DOMAIN Cpy' /\ Cpy'[d + 2].do = "copy"  BY <1>10, <1>12
  <2>7. \A c \in DOMAIN Cpy' : Cpy'[c].do = "copy" => Barred("fwd_prepare_d2h", c, "forward", event)'
    <3> SUFFICES ASSUME NEW c \in DOMAIN Cpy', Cpy'[c].do = "copy"
                 PROVE  Barred("fwd_prepare_d2h", c, "forward", event)'
      OBVIOUS
    <3>1. c = d + 2  BY <1>10, <1>12
    <3>2. d + 1 < c /\ d + 1 \in DOMAIN todo'["fwd_prepare_d2h"] /\ todo'["fwd_prepare_d2h"][d + 1] = w
      BY <3>1, <1>10 DEF Cpy
    <3> QED  BY <3>2, <1>1, <1>2, <1>12 DEF Barred
  <2>8. (\E c \in DOMAIN Cpy' : Cpy'[c].do = "copy") \/ ~Syncing'
    BY <2>4, <2>6
  <2> QED  BY <1>1, <1>8, <1>11, <1>12, <2>1, <2>3, <2>5, <2>7, <2>8, Preparing
<1>15. LensShape'
  <2>1. Only(last, live) \in [PoolRows -> 0..MaxForward]  BY <1>2, LensAssumption DEF Only
  <2>2. want' \in [Forwards -> [PoolRows -> 0..MaxForward]]  BY <2>1, <1>1, <1>s DEF LensShape
  <2>3. step' \in {"synchronize", "launch"} /\ batch' \subseteq PoolRows  BY <1>1, <1>2
  <2> QED  BY <2>2, <2>3, <1>1, <1>8, <1>p, <1>s DEF LensShape, Lengths
<1>16. Roles'
  <2>1. Roles  BY DEF LensInv
  <2>2. ASSUME NEW s \in Streams, NEW t \in Streams, NEW p \in DOMAIN todo'[s],
               todo'[s][p].do = "wait", todo'[s][p].on = t
        PROVE  todo'[s][p].at <= Given(t)'
    <3>0. Given(t)' >= Given(t) /\ Given(t) \in Nat /\ Given(t)' \in Nat  BY <1>8 DEF Grown
    <3>1. CASE p \in DOMAIN todo[s]
      <4>1. todo'[s][p] = todo[s][p]  BY <3>1, <1>8 DEF Grown
      <4>2. todo[s][p].at \in Nat  BY <3>1, <4>1, <2>2, <1>s, Kinds DEF WaitOps
      <4>3. todo[s][p].at <= Given(t)  BY <3>1, <4>1, <2>1, <2>2 DEF Roles
      <4> QED  BY <4>1, <4>2, <4>3, <3>0
    <3>2. CASE p \notin DOMAIN todo[s]
      <4>1. todo'[s][p] = w  BY <3>2, <1>9, <1>10, <1>11, <1>12, <2>2 DEF Sch, Fwd, Cpy
      <4>2. event <= Given("forward")  BY DEF LensInv, Published
      <4> QED  BY <4>1, <4>2, <1>2, <1>12, <2>2, <3>0
    <3> QED  BY <3>1, <3>2
  <2>3. \A q \in DOMAIN Sch' : Sch'[q].do \in {"wait", "gather", "poison"}
    BY <2>1, <1>9, <1>12 DEF Roles
  <2>4. \A c \in DOMAIN Cpy' : Cpy'[c].do \in {"wait", "copy"}  BY <1>10, <1>12
  <2> QED  BY <2>1, <2>2, <2>3, <2>4, <1>11 DEF Roles
<1>17. Scheduled'
  <2> SUFFICES ASSUME NEW q \in DOMAIN Sch', Sch'[q].do # "wait"
               PROVE  LET x == Sch'[q].k IN
    /\ x <= launched + 1
    /\ x = launched + 1 => /\ Sch'[q].rows \subseteq batch'
                           /\ step' \in {"synchronize", "launch"}
                           /\ Sch'[q].do = "poison" => step' = "launch"
    /\ x <= launched => \E p \in DOMAIN Fwd' : /\ Publishing(p)' /\ Fwd'[p].k = x
                                               /\ Sch'[q].rows \subseteq Fwd'[p].rows
    /\ \A p \in DOMAIN Fwd' : Publishing(p)' =>
         IF Fwd'[p].k >= x THEN Barred("forward", p, "schedule", q)'
                           ELSE Barred("schedule", q, "forward", p)'
    /\ Sch'[q].do = "gather" =>
         \A o \in DOMAIN Sch' : o < q /\ Sch'[o].do = "poison" => Sch'[o].k < x
    BY <1>1 DEF Scheduled
  <2> DEFINE x == Sch'[q].k
  <2>p. \A p : Publishing(p)' <=> Publishing(p)  BY <1>11 DEF Publishing
  <2>1. CASE q \in DOMAIN Sch
    <3>1. Sch'[q] = Sch[q] /\ x \in Nat /\ x <= launched /\ x # launched + 1 /\ x <= launched + 1
      BY <2>1, <1>9, <1>p
    <3>2. /\ x <= launched => \E p \in DOMAIN Fwd : /\ Publishing(p) /\ Fwd[p].k = x
                                                    /\ Sch[q].rows \subseteq Fwd[p].rows
          /\ \A p \in DOMAIN Fwd : Publishing(p) =>
               IF Fwd[p].k >= x THEN Barred("forward", p, "schedule", q)
                                ELSE Barred("schedule", q, "forward", p)
          /\ Sch[q].do = "gather" =>
               \A o \in DOMAIN Sch : o < q /\ Sch[o].do = "poison" => Sch[o].k < x
      BY <2>1, <3>1 DEF LensInv, Scheduled
    <3>3. \A p \in DOMAIN Fwd : /\ Barred("forward", p, "schedule", q) => Barred("forward", p, "schedule", q)'
                                /\ Barred("schedule", q, "forward", p) => Barred("schedule", q, "forward", p)'
      BY <1>8, BarredGrown
    <3>4. Sch'[q].do = "gather" => \A o \in DOMAIN Sch' : o < q /\ Sch'[o].do = "poison" => Sch'[o].k < x
      <4>1. \A o \in DOMAIN Sch' : o < q => o \in DOMAIN Sch  BY <2>1, <1>9
      <4> QED  BY <4>1, <3>1, <3>2, <1>9
    <3>5. \A p \in DOMAIN Fwd' : Publishing(p)' =>
         IF Fwd'[p].k >= x THEN Barred("forward", p, "schedule", q)'
                           ELSE Barred("schedule", q, "forward", p)'
      BY <3>2, <3>3, <2>p, <1>11
    <3> QED  BY <3>1, <3>2, <3>4, <3>5, <2>p, <1>11
  <2>2. CASE q \notin DOMAIN Sch
    <3>1. /\ x = k /\ Sch'[q].rows = live /\ q > g + 1 /\ q \in Nat
          /\ Sch'[q].do = "poison" => PoisonEarly
          /\ Sch'[q].do = "gather" => q = g + 2
      BY <2>2, <1>9, <1>12
    <3>2. step' \in {"synchronize", "launch"} /\ (Sch'[q].do = "poison" => step' = "launch")
      BY <3>1, <1>1, <1>13
    <3>3. ASSUME NEW p \in DOMAIN Fwd', Publishing(p)'
          PROVE  IF Fwd'[p].k >= x THEN Barred("forward", p, "schedule", q)'
                                   ELSE Barred("schedule", q, "forward", p)'
      <4>1. p = event /\ Fwd'[p].k = launched  BY <3>3, <2>p, <1>11, <1>p
      <4>2. ~(Fwd'[p].k >= x)  BY <4>1, <3>1, <1>12, <1>p
      <4>3. g + 1 < q /\ g + 1 \in DOMAIN todo'["schedule"] /\ todo'["schedule"][g + 1] = w
        BY <3>1, <1>9 DEF Sch
      <4>4. w.at >= p  BY <4>1, <1>2, <1>12
      <4>5. Barred("schedule", q, "forward", p)'  BY <4>3, <4>4, <1>12 DEF Barred
      <4> QED  BY <4>2, <4>5
    <3>4. Sch'[q].do = "gather" => \A o \in DOMAIN Sch' : o < q /\ Sch'[o].do = "poison" => Sch'[o].k < x
      <4> SUFFICES ASSUME Sch'[q].do = "gather", NEW o \in DOMAIN Sch', o < q, Sch'[o].do = "poison"
                   PROVE  Sch'[o].k < x
        OBVIOUS
      <4>1. o \in DOMAIN Sch  BY <3>1, <1>9, <1>12
      <4>2. Sch'[o] = Sch[o] /\ Sch[o].k \in Nat /\ Sch[o].k <= launched  BY <4>1, <1>9, <1>p
      <4> QED  BY <4>2, <3>1, <1>12, <1>p
    <3>5. x = launched + 1 /\ ~(x <= launched)  BY <3>1, <1>12, <1>p
    <3>6. Sch'[q].rows \subseteq batch'  BY <3>1, <1>1
    <3>7. x <= launched + 1  BY <3>5, <1>p
    <3> QED  BY <3>2, <3>3, <3>4, <3>5, <3>6, <3>7
  <2> QED  BY <2>1, <2>2
<1>18. Mixed'
  <2> SUFFICES ASSUME NEW q \in DOMAIN Fwd, Fwd[q].do = "gather"
               PROVE  LET x == Fwd[q].k IN
    /\ x <= launched + 1
    /\ x # launched + 1
    /\ x <= launched => \E p \in DOMAIN Fwd' : Publishing(p)' /\ Fwd'[p].k = x
    /\ \A p \in DOMAIN Fwd' : Publishing(p)' => (p < q <=> Fwd'[p].k < x)
    /\ \A o \in DOMAIN Sch' : Sch'[o].do # "wait" => Sch'[o].k # x
    BY <1>1, <1>11 DEF Mixed
  <2> DEFINE x == Fwd[q].k
  <2>p. \A p : Publishing(p)' <=> Publishing(p)  BY <1>11 DEF Publishing
  <2>1. x \in Nat /\ x <= launched /\ x # launched + 1 /\ x <= launched + 1  BY <1>p
  <2>2. /\ x <= launched => \E p \in DOMAIN Fwd : Publishing(p) /\ Fwd[p].k = x
        /\ \A p \in DOMAIN Fwd : Publishing(p) => (p < q <=> Fwd[p].k < x)
        /\ \A o \in DOMAIN Sch : Sch[o].do # "wait" => Sch[o].k # x
    BY DEF LensInv, Mixed
  <2>3. \A o \in DOMAIN Sch' : Sch'[o].do # "wait" => Sch'[o].k # x  BY <2>1, <2>2, <1>9, <1>12
  <2> QED  BY <2>1, <2>2, <2>3, <2>p, <1>11
<1> QED  BY <1>14, <1>15, <1>16, <1>17, <1>18 DEF LensInv

LEMMA ResolveMixedStep ==
  ASSUME LensInv, NEW r \in PoolRows, ResolveMixed(r)
  PROVE  LensInv'
<1> USE StreamNames
<1> DEFINE k == launched + 1
           v == WaitFor("schedule", Given("schedule"))
           w == WaitFor("forward", event)
           gth == Op("gather", k, live)
           cpy == Op("copy", k, PoolRows)
           g == Given("forward")
           d == Given("fwd_prepare_d2h")
           add == [s \in Streams |->
                     CASE s = "forward" -> <<v, w, gth>>
                       [] s = "fwd_prepare_d2h" -> <<w, cpy>>
                       [] s = "schedule" -> <<>>]
<1>s. LensShape  BY DEF LensInv
<1>1. /\ CanPrepare /\ batch' = live \cup {r} /\ step' = "synchronize tails"
      /\ want' = [want EXCEPT ![k] = Only(last, live)]
      /\ UNCHANGED <<needs_cpu, ran, lens_buf, pinned, lens, lens_cpu, event, launched, live, last>>
  BY DEF ResolveMixed
<1>p. /\ step = "idle" /\ launched < MaxForward /\ k \in Forwards /\ launched \in Nat
      /\ \A p \in DOMAIN Fwd : Publishing(p) => p = event /\ Fwd[p].k = launched
      /\ \A q \in DOMAIN Sch : Sch[q].do # "wait" => Sch[q].k \in Nat /\ Sch[q].k <= launched
      /\ \A q \in DOMAIN Fwd : Fwd[q].do = "gather" => Fwd[q].k \in Nat /\ Fwd[q].k <= launched
      /\ DOMAIN Cpy = {}
  BY <1>1, Prepared
<1>2. event \in Nat /\ live \in SUBSET PoolRows /\ last \in [PoolRows -> 0..MaxForward]  BY <1>s DEF LensShape
<1>3. v \in WaitOps /\ w \in WaitOps /\ gth \in Working /\ cpy \in Working
  BY <1>p, <1>2, <1>s, Todo DEF WaitFor, Op, WaitOps, Working
<1>4. queue' = [queue EXCEPT
       !["forward"] = ((@ \o <<v>>) \o <<w>>) \o <<gth>>,
       !["fwd_prepare_d2h"] = (@ \o <<w>>) \o <<cpy>>]
  BY DEF ResolveMixed, GatherFence, CopyFence
<1> HIDE DEF v, w, gth, cpy
<1>5. add \in [Streams -> Seq(WaitOps \cup Working)]
  <2>1. /\ <<v, w, gth>> \in Seq(WaitOps \cup Working) /\ <<w, cpy>> \in Seq(WaitOps \cup Working)
        /\ <<>> \in Seq(WaitOps \cup Working)
    BY <1>3
  <2> QED  BY <2>1
<1>6. queue' = [s \in Streams |-> queue[s] \o add[s]]
  <2>1. \A s \in Streams : queue[s] \in Seq(WaitOps \cup Working)  BY <1>s DEF LensShape
  <2>2. DOMAIN queue = Streams  BY <1>s DEF LensShape
  <2>3. DOMAIN queue' = Streams  BY <1>4, <2>2
  <2>8. /\ queue["forward"] \in Seq(WaitOps \cup Working) /\ queue["fwd_prepare_d2h"] \in Seq(WaitOps \cup Working)
        /\ v \in WaitOps \cup Working /\ w \in WaitOps \cup Working
        /\ gth \in WaitOps \cup Working /\ cpy \in WaitOps \cup Working
    BY <2>1, <1>3
  <2>9. /\ ((queue["forward"] \o <<v>>) \o <<w>>) \o <<gth>> = queue["forward"] \o <<v, w, gth>>
        /\ (queue["fwd_prepare_d2h"] \o <<w>>) \o <<cpy>> = queue["fwd_prepare_d2h"] \o <<w, cpy>>
    BY <2>8, Chain
  <2>4. queue'["forward"] = queue["forward"] \o add["forward"]  BY <1>4, <2>2, <2>9
  <2>5. queue'["fwd_prepare_d2h"] = queue["fwd_prepare_d2h"] \o add["fwd_prepare_d2h"]  BY <1>4, <2>2, <2>9
  <2>6. queue'["schedule"] = queue["schedule"] \o add["schedule"]
    <3>1. add["schedule"] = <<>> /\ queue'["schedule"] = queue["schedule"]  BY <1>4, <2>2
    <3> QED  BY <3>1, <2>1, ConcatEmptySeq
  <2>7. queue' = [s \in Streams |-> queue'[s]]  BY <1>4, <2>3
  <2> HIDE DEF add
  <2> QED  BY <2>4, <2>5, <2>6, <2>7
<1>7. add["forward"] = <<v, w, gth>> /\ add["fwd_prepare_d2h"] = <<w, cpy>> /\ add["schedule"] = <<>>
  OBVIOUS
<1> HIDE DEF add
<1>8. /\ Grown
      /\ \A s \in Streams :
           /\ Given(s)' = Given(s) + Len(add[s])
           /\ Len(add[s]) \in Nat /\ Given(s) \in Nat /\ Given(s)' \in Nat
           /\ \A p \in DOMAIN todo[s] : p <= Given(s)
           /\ \A p \in DOMAIN todo'[s] : p \in DOMAIN todo[s] \/ p \in Given(s) + 1 .. Given(s) + Len(add[s])
           /\ \A i \in 1..Len(add[s]) : Given(s) + i \in DOMAIN todo'[s] /\ todo'[s][Given(s) + i] = add[s][i]
      /\ queue' \in [Streams -> Seq(WaitOps \cup Working)]
  BY <1>s, <1>1, <1>5, <1>6, Growing
<1>9. /\ g \in Nat
      /\ g + 1 \in DOMAIN Fwd' /\ Fwd'[g + 1] = v
      /\ g + 2 \in DOMAIN Fwd' /\ Fwd'[g + 2] = w
      /\ g + 3 \in DOMAIN Fwd' /\ Fwd'[g + 3] = gth
      /\ \A q \in DOMAIN Fwd : q \in DOMAIN Fwd' /\ Fwd'[q] = Fwd[q] /\ q \in Nat /\ q <= g
      /\ \A q \in DOMAIN Fwd' : q \in DOMAIN Fwd \/ q = g + 1 \/ q = g + 2 \/ q = g + 3
  <2>1. /\ Len(add["forward"]) = 3
        /\ add["forward"][1] = v /\ add["forward"][2] = w /\ add["forward"][3] = gth
    BY <1>7
  <2>2. /\ g \in Nat
        /\ \A q \in DOMAIN todo["forward"] : q <= g
        /\ \A q \in DOMAIN todo'["forward"] : q \in DOMAIN todo["forward"] \/ q \in g + 1 .. g + 3
        /\ \A i \in 1..3 : g + i \in DOMAIN todo'["forward"] /\ todo'["forward"][g + i] = add["forward"][i]
    BY <1>8, <2>1
  <2>3. \A q \in g + 1 .. g + 3 : q = g + 1 \/ q = g + 2 \/ q = g + 3  BY <2>2
  <2>4. 1 \in 1..3 /\ 2 \in 1..3 /\ 3 \in 1..3  OBVIOUS
  <2>5. \A q \in DOMAIN todo["forward"] : q \in Nat  BY <1>s, Kinds
  <2>6. \A q \in DOMAIN todo["forward"] : q \in DOMAIN todo'["forward"] /\ todo'["forward"][q] = todo["forward"][q]
    BY <1>8 DEF Grown
  <2> QED  BY <2>1, <2>2, <2>3, <2>4, <2>5, <2>6 DEF Fwd
<1>10. /\ d \in Nat
       /\ d + 1 \in DOMAIN Cpy' /\ Cpy'[d + 1] = w
       /\ d + 2 \in DOMAIN Cpy' /\ Cpy'[d + 2] = cpy
       /\ \A c \in DOMAIN Cpy' : c = d + 1 \/ c = d + 2
  <2>1. /\ Len(add["fwd_prepare_d2h"]) = 2
        /\ add["fwd_prepare_d2h"][1] = w /\ add["fwd_prepare_d2h"][2] = cpy
    BY <1>7
  <2>2. /\ d \in Nat
        /\ \A q \in DOMAIN todo'["fwd_prepare_d2h"] : q \in DOMAIN todo["fwd_prepare_d2h"] \/ q \in d + 1 .. d + 2
        /\ \A i \in 1..2 : d + i \in DOMAIN todo'["fwd_prepare_d2h"]
                           /\ todo'["fwd_prepare_d2h"][d + i] = add["fwd_prepare_d2h"][i]
    BY <1>8, <2>1
  <2>3. \A q \in d + 1 .. d + 2 : q = d + 1 \/ q = d + 2  BY <2>2
  <2>4. 1 \in 1..2 /\ 2 \in 1..2  OBVIOUS
  <2>5. DOMAIN todo["fwd_prepare_d2h"] = {}  BY <1>p DEF Cpy
  <2> QED  BY <2>1, <2>2, <2>3, <2>4, <2>5 DEF Cpy
<1>11. DOMAIN Sch' = DOMAIN Sch /\ \A q \in DOMAIN Sch : Sch'[q] = Sch[q]
  <2>1. Len(add["schedule"]) = 0  BY <1>7
  <2>2. /\ Given("schedule") \in Nat
        /\ \A p \in DOMAIN todo'["schedule"] : p \in DOMAIN todo["schedule"] \/ p \in Given("schedule") + 1 .. Given("schedule") + 0
    BY <1>8, <2>1
  <2>3. Given("schedule") + 1 .. Given("schedule") + 0 = {}  BY <2>2
  <2> QED  BY <2>2, <2>3, <1>8 DEF Grown, Sch
<1>12. /\ v.do = "wait" /\ v.on = "schedule" /\ v.at = Given("schedule")
       /\ w.do = "wait" /\ w.on = "forward" /\ w.at = event
       /\ gth.do = "gather" /\ gth.k = k /\ gth.rows = live
       /\ cpy.do = "copy" /\ k = launched + 1 /\ k \in Nat
  BY <1>p DEF v, w, gth, cpy, WaitFor, Op
<1> HIDE DEF k, g, d
<1>14. Published' /\ Latest' /\ Gathering' /\ Taken' /\ Copying' /\ MirrorExact'
  <2>1. \A s \in {"schedule", "forward"} : \A q \in DOMAIN todo'[s] :
           q \notin DOMAIN todo[s] /\ todo'[s][q].do = "gather" =>
             todo'[s][q].k = launched + 1 /\ todo'[s][q].rows = live
    BY <1>9, <1>11, <1>12 DEF Sch, Fwd
  <2>2. g + 3 \in DOMAIN todo'["forward"] /\ todo'["forward"][g + 3] = gth  BY <1>9 DEF Fwd
  <2>3. \E s \in {"schedule", "forward"} : \E q \in DOMAIN todo'[s] :
           todo'[s][q].do = "gather" /\ todo'[s][q].k = launched + 1
    BY <2>2, <1>12
  <2>4. Syncing'  BY <1>1 DEF Syncing
  <2>6. \E c \in DOMAIN Cpy' : Cpy'[c].do = "copy"  BY <1>10, <1>12
  <2>7. \A c \in DOMAIN Cpy' : Cpy'[c].do = "copy" => Barred("fwd_prepare_d2h", c, "forward", event)'
    <3> SUFFICES ASSUME NEW c \in DOMAIN Cpy', Cpy'[c].do = "copy"
                 PROVE  Barred("fwd_prepare_d2h", c, "forward", event)'
      OBVIOUS
    <3>1. c = d + 2  BY <1>10, <1>12
    <3>2. d + 1 < c /\ d + 1 \in DOMAIN todo'["fwd_prepare_d2h"] /\ todo'["fwd_prepare_d2h"][d + 1] = w
      BY <3>1, <1>10 DEF Cpy
    <3>3. event' = event  BY <1>1
    <3>4. w.at = event  BY DEF w, WaitFor
    <3>5. event >= event  BY <1>2
    <3>6. w.at >= event'  BY <3>3, <3>4, <3>5
    <3> QED  BY <3>2, <3>6, <1>12 DEF Barred
  <2>8. \A p \in DOMAIN Fwd' : p \notin DOMAIN Fwd => Fwd'[p].do # "publish"  BY <1>9, <1>12
  <2> QED  BY <1>1, <1>8, <1>12, <2>1, <2>3, <2>4, <2>6, <2>7, <2>8, Preparing
<1>15. LensShape'
  <2>1. Only(last, live) \in [PoolRows -> 0..MaxForward]  BY <1>2, LensAssumption DEF Only
  <2>2. want' \in [Forwards -> [PoolRows -> 0..MaxForward]]  BY <2>1, <1>1, <1>s DEF LensShape
  <2>3. step' = "synchronize tails" /\ batch' \subseteq PoolRows  BY <1>1, <1>2
  <2> QED  BY <2>2, <2>3, <1>1, <1>8, <1>p, <1>s DEF LensShape, Lengths
<1>16. Roles'
  <2>1. Roles  BY DEF LensInv
  <2>2. ASSUME NEW s \in Streams, NEW t \in Streams, NEW p \in DOMAIN todo'[s],
               todo'[s][p].do = "wait", todo'[s][p].on = t
        PROVE  todo'[s][p].at <= Given(t)'
    <3>0. Given(t)' >= Given(t) /\ Given(t) \in Nat /\ Given(t)' \in Nat  BY <1>8 DEF Grown
    <3>1. CASE p \in DOMAIN todo[s]
      <4>1. todo'[s][p] = todo[s][p]  BY <3>1, <1>8 DEF Grown
      <4>2. todo[s][p].at \in Nat  BY <3>1, <4>1, <2>2, <1>s, Kinds DEF WaitOps
      <4>3. todo[s][p].at <= Given(t)  BY <3>1, <4>1, <2>1, <2>2 DEF Roles
      <4> QED  BY <4>1, <4>2, <4>3, <3>0
    <3>2. CASE p \notin DOMAIN todo[s]
      <4>1. todo'[s][p] = w \/ todo'[s][p] = v  BY <3>2, <1>9, <1>10, <1>11, <1>12, <2>2 DEF Sch, Fwd, Cpy
      <4>2. event <= Given("forward")  BY DEF LensInv, Published
      <4> QED  BY <4>1, <4>2, <1>2, <1>12, <2>2, <3>0
    <3> QED  BY <3>1, <3>2
  <2>3. \A q \in DOMAIN Fwd' : Fwd'[q].do \in {"wait", "gather", "publish"}
    BY <2>1, <1>9, <1>12 DEF Roles
  <2>4. \A c \in DOMAIN Cpy' : Cpy'[c].do \in {"wait", "copy"}  BY <1>10, <1>12
  <2> QED  BY <2>1, <2>2, <2>3, <2>4, <1>11 DEF Roles
<1>q. \A p : Publishing(p)' <=> Publishing(p)  BY <1>9, <1>12 DEF Publishing
<1>17. Scheduled'
  <2> SUFFICES ASSUME NEW q \in DOMAIN Sch, Sch[q].do # "wait"
               PROVE  LET x == Sch[q].k IN
    /\ x <= launched + 1
    /\ x = launched + 1 => /\ Sch[q].rows \subseteq batch'
                           /\ step' \in {"synchronize", "launch"}
                           /\ Sch[q].do = "poison" => step' = "launch"
    /\ x <= launched => \E p \in DOMAIN Fwd' : /\ Publishing(p)' /\ Fwd'[p].k = x
                                               /\ Sch[q].rows \subseteq Fwd'[p].rows
    /\ \A p \in DOMAIN Fwd' : Publishing(p)' =>
         IF Fwd'[p].k >= x THEN Barred("forward", p, "schedule", q)'
                           ELSE Barred("schedule", q, "forward", p)'
    /\ Sch[q].do = "gather" =>
         \A o \in DOMAIN Sch : o < q /\ Sch[o].do = "poison" => Sch[o].k < x
    <3>1. launched' = launched  BY <1>1
    <3> QED  BY <3>1, <1>11 DEF Scheduled
  <2> DEFINE x == Sch[q].k
  <2>1. x \in Nat /\ x <= launched /\ x # launched + 1 /\ x <= launched + 1  BY <1>p
  <2>2. /\ x <= launched => \E p \in DOMAIN Fwd : /\ Publishing(p) /\ Fwd[p].k = x
                                                  /\ Sch[q].rows \subseteq Fwd[p].rows
        /\ \A p \in DOMAIN Fwd : Publishing(p) =>
             IF Fwd[p].k >= x THEN Barred("forward", p, "schedule", q)
                              ELSE Barred("schedule", q, "forward", p)
        /\ Sch[q].do = "gather" =>
             \A o \in DOMAIN Sch : o < q /\ Sch[o].do = "poison" => Sch[o].k < x
    BY DEF LensInv, Scheduled
  <2>3. \A p : /\ Barred("forward", p, "schedule", q) => Barred("forward", p, "schedule", q)'
               /\ Barred("schedule", q, "forward", p) => Barred("schedule", q, "forward", p)'
    BY <1>8, BarredGrown
  <2>4. \A p : Publishing(p)' => p \in DOMAIN Fwd /\ Fwd'[p] = Fwd[p]  BY <1>q, <1>9 DEF Publishing
  <2>5. \A p \in DOMAIN Fwd' : Publishing(p)' =>
         IF Fwd'[p].k >= x THEN Barred("forward", p, "schedule", q)'
                           ELSE Barred("schedule", q, "forward", p)'
    BY <2>2, <2>3, <2>4, <1>q
  <2>6. x <= launched => \E p \in DOMAIN Fwd' : /\ Publishing(p)' /\ Fwd'[p].k = x
                                               /\ Sch[q].rows \subseteq Fwd'[p].rows
    BY <2>2, <1>q, <1>9
  <2> QED  BY <2>1, <2>2, <2>5, <2>6
<1>18. Mixed'
  <2> SUFFICES ASSUME NEW q \in DOMAIN Fwd', Fwd'[q].do = "gather"
               PROVE  LET x == Fwd'[q].k IN
    /\ x <= launched + 1
    /\ x <= launched => \E p \in DOMAIN Fwd' : Publishing(p)' /\ Fwd'[p].k = x
    /\ \A p \in DOMAIN Fwd' : Publishing(p)' => (p < q <=> Fwd'[p].k < x)
    /\ \A o \in DOMAIN Sch : Sch[o].do # "wait" => Sch[o].k # x
    BY <1>1, <1>11 DEF Mixed
  <2> DEFINE x == Fwd'[q].k
  <2>p. \A p : Publishing(p)' => /\ p \in DOMAIN Fwd /\ Fwd'[p] = Fwd[p] /\ Publishing(p)
                                 /\ p <= g /\ p \in Nat /\ Fwd[p].k = launched
    BY <1>q, <1>9, <1>p DEF Publishing
  <2>1. CASE q \in DOMAIN Fwd
    <3>1. Fwd'[q] = Fwd[q] /\ x \in Nat /\ x <= launched /\ x <= launched + 1  BY <2>1, <1>9, <1>p
    <3>2. /\ x <= launched => \E p \in DOMAIN Fwd : Publishing(p) /\ Fwd[p].k = x
          /\ \A p \in DOMAIN Fwd : Publishing(p) => (p < q <=> Fwd[p].k < x)
          /\ \A o \in DOMAIN Sch : Sch[o].do # "wait" => Sch[o].k # x
      BY <2>1, <3>1 DEF LensInv, Mixed
    <3>3. x <= launched => \E p \in DOMAIN Fwd' : Publishing(p)' /\ Fwd'[p].k = x
      BY <3>2, <1>q, <1>9
    <3> QED  BY <3>1, <3>2, <3>3, <2>p
  <2>2. CASE q \notin DOMAIN Fwd
    <3>1. q = g + 3 /\ x = launched + 1  BY <2>2, <1>9, <1>12
    <3>2. x <= launched + 1 /\ ~(x <= launched)  BY <3>1, <1>p
    <3>3. \A p : Publishing(p)' => p < q /\ Fwd'[p].k < x  BY <2>p, <3>1, <1>9, <1>p
    <3>4. \A o \in DOMAIN Sch : Sch[o].do # "wait" => Sch[o].k # x  BY <3>1, <1>p
    <3> QED  BY <3>2, <3>3, <3>4
  <2> QED  BY <2>1, <2>2
<1> QED  BY <1>14, <1>15, <1>16, <1>17, <1>18 DEF LensInv

LEMMA SynchronizedStep ==
  ASSUME LensInv, Synchronized
  PROVE  LensInv'
<1> USE StreamNames
<1> DEFINE k == launched + 1
           late == step = "synchronize" /\ PoisonLate
           psn == Op("poison", k, live)
           g == Given("schedule")
           add == [s \in Streams |-> IF late /\ s = "schedule" THEN <<psn>> ELSE <<>>]
<1>s. LensShape  BY DEF LensInv
<1>1. /\ Syncing /\ queue["fwd_prepare_d2h"] = <<>> /\ step' = "launch"
      /\ lens_cpu' = [lens_cpu EXCEPT ![k] = Only(pinned, live)]
      /\ queue' = IF late THEN [queue EXCEPT !["schedule"] = Append(@, psn)] ELSE queue
      /\ UNCHANGED <<needs_cpu, ran, lens_buf, pinned, lens, event, batch, launched, live, last, want>>
  BY DEF Synchronized, Syncing
<1>2. /\ event \in Nat /\ live \in SUBSET PoolRows /\ launched \in Nat /\ k \in Forwards /\ k \in Nat
      /\ launched < MaxForward
  <2>1. event \in Nat /\ live \in SUBSET PoolRows /\ launched \in 0..MaxForward /\ launched < MaxForward
    BY <1>s, <1>1 DEF LensShape, Syncing
  <2> QED  BY <2>1, LensAssumption DEF Forwards
<1>3. psn \in Working  BY <1>2 DEF Op, Working
<1>4. DOMAIN Cpy = {}
  <2>1. Given("fwd_prepare_d2h") = ran["fwd_prepare_d2h"]
    <3>1. Len(queue["fwd_prepare_d2h"]) = 0 /\ ran["fwd_prepare_d2h"] \in Nat  BY <1>1, <1>s DEF LensShape
    <3> QED  BY <3>1 DEF Given
  <2>2. DOMAIN Cpy = ran["fwd_prepare_d2h"] + 1 .. ran["fwd_prepare_d2h"] /\ ran["fwd_prepare_d2h"] \in Nat
    BY <2>1, <1>s, Todo DEF Cpy
  <2> QED  BY <2>2
<1>5. /\ live \subseteq batch /\ want[k] = Only(last, live)
      /\ ran["forward"] >= event /\ \A r \in live : pinned[r] = last[r]
  BY <1>1, <1>4 DEF LensInv, Copying
<1>6. \A p : ~Publishing(p)
  <2> SUFFICES ASSUME NEW p, Publishing(p) PROVE FALSE  OBVIOUS
  <2>1. p \in DOMAIN Fwd /\ p \in Nat /\ p > ran["forward"]  BY <1>s, Kinds DEF Publishing, Fwd
  <2>2. p <= event  BY <2>1 DEF LensInv, Published
  <2>3. ran["forward"] \in Nat  BY <1>s DEF LensShape
  <2> QED  BY <2>1, <2>2, <2>3, <1>2, <1>5
<1> HIDE DEF psn
<1>7. add \in [Streams -> Seq(WaitOps \cup Working)]
  <2>1. <<psn>> \in Seq(WaitOps \cup Working) /\ <<>> \in Seq(WaitOps \cup Working)  BY <1>3
  <2> QED  BY <2>1
<1>8. queue' = [s \in Streams |-> queue[s] \o add[s]]
  <2>1. \A s \in Streams : queue[s] \in Seq(WaitOps \cup Working)  BY <1>s DEF LensShape
  <2>2. DOMAIN queue = Streams  BY <1>s DEF LensShape
  <2>3. \A s \in Streams : queue[s] \o <<>> = queue[s]  BY <2>1, ConcatEmptySeq
  <2>4. Append(queue["schedule"], psn) = queue["schedule"] \o <<psn>>
    <3>1. queue["schedule"] \in Seq(WaitOps \cup Working) /\ psn \in WaitOps \cup Working  BY <2>1, <1>3
    <3> QED  BY <3>1, AppendIsConcat
  <2>5. \A s \in Streams : queue'[s] = queue[s] \o add[s]
    <3>1. CASE late
      <4>1. queue' = [queue EXCEPT !["schedule"] = Append(@, psn)]  BY <3>1, <1>1
      <4>2. add["schedule"] = <<psn>> /\ \A s \in Streams : s # "schedule" => add[s] = <<>>  BY <3>1
      <4> HIDE DEF add, late
      <4> QED  BY <4>1, <4>2, <2>2, <2>3, <2>4
    <3>2. CASE ~late
      <4>1. queue' = queue /\ \A s \in Streams : add[s] = <<>>  BY <3>2, <1>1
      <4> HIDE DEF add, late
      <4> QED  BY <4>1, <2>3
    <3> QED  BY <3>1, <3>2
  <2>6. queue' = [s \in Streams |-> queue'[s]]
    <3>1. queue = [s \in Streams |-> queue[s]]  BY <1>s DEF LensShape
    <3>2. CASE late
      <4>1. queue' = [queue EXCEPT !["schedule"] = Append(@, psn)]  BY <3>2, <1>1
      <4> HIDE DEF add, late
      <4> QED  BY <4>1, <2>2
    <3>3. CASE ~late
      <4>1. queue' = queue  BY <3>3, <1>1
      <4> QED  BY <4>1, <3>1
    <3> QED  BY <3>2, <3>3
  <2> HIDE DEF add, late
  <2> QED  BY <2>5, <2>6
<1>9. /\ add["schedule"] = IF late THEN <<psn>> ELSE <<>>
      /\ \A s \in Streams : s # "schedule" => add[s] = <<>>
  OBVIOUS
<1> HIDE DEF add
<1>10. /\ Grown
       /\ \A s \in Streams :
            /\ Given(s)' = Given(s) + Len(add[s])
            /\ Len(add[s]) \in Nat /\ Given(s) \in Nat /\ Given(s)' \in Nat
            /\ \A p \in DOMAIN todo[s] : p <= Given(s)
            /\ \A p \in DOMAIN todo'[s] : p \in DOMAIN todo[s] \/ p \in Given(s) + 1 .. Given(s) + Len(add[s])
            /\ \A i \in 1..Len(add[s]) : Given(s) + i \in DOMAIN todo'[s] /\ todo'[s][Given(s) + i] = add[s][i]
       /\ queue' \in [Streams -> Seq(WaitOps \cup Working)]
  BY <1>s, <1>1, <1>7, <1>8, Growing
<1>11. ASSUME NEW s \in Streams, s # "schedule"
       PROVE  DOMAIN todo'[s] = DOMAIN todo[s] /\ \A p \in DOMAIN todo[s] : todo'[s][p] = todo[s][p]
  <2>1. Len(add[s]) = 0  BY <1>9, <1>11
  <2>2. /\ Given(s) \in Nat
        /\ \A p \in DOMAIN todo'[s] : p \in DOMAIN todo[s] \/ p \in Given(s) + 1 .. Given(s) + 0
    BY <1>10, <2>1
  <2>3. Given(s) + 1 .. Given(s) + 0 = {}  BY <2>2
  <2>4. \A p \in DOMAIN todo[s] : p \in DOMAIN todo'[s] /\ todo'[s][p] = todo[s][p]  BY <1>10 DEF Grown
  <2> QED  BY <2>2, <2>3, <2>4
<1>12. /\ g \in Nat
       /\ \A q \in DOMAIN Sch : q \in DOMAIN Sch' /\ Sch'[q] = Sch[q] /\ q \in Nat /\ q <= g
       /\ \A q \in DOMAIN Sch' : q \in DOMAIN Sch \/ (late /\ q = g + 1 /\ Sch'[q] = psn)
  <2>1. Len(add["schedule"]) = (IF late THEN 1 ELSE 0) /\ (late => add["schedule"][1] = psn)  BY <1>9
  <2>2. /\ g \in Nat
        /\ \A q \in DOMAIN todo["schedule"] : q <= g
        /\ \A q \in DOMAIN todo'["schedule"] :
             q \in DOMAIN todo["schedule"] \/ q \in g + 1 .. g + Len(add["schedule"])
        /\ \A i \in 1..Len(add["schedule"]) : todo'["schedule"][g + i] = add["schedule"][i]
    BY <1>10
  <2>3. \A q \in g + 1 .. g + Len(add["schedule"]) : late /\ q = g + 1  BY <2>1, <2>2
  <2>4. late => 1 \in 1..Len(add["schedule"])  BY <2>1
  <2>5. \A q \in DOMAIN todo["schedule"] : q \in Nat  BY <1>s, Kinds
  <2>6. \A q \in DOMAIN todo["schedule"] : q \in DOMAIN todo'["schedule"] /\ todo'["schedule"][q] = todo["schedule"][q]
    BY <1>10 DEF Grown
  <2>7. late => todo'["schedule"][g + 1] = psn  BY <2>1, <2>2, <2>4
  <2> QED  BY <2>2, <2>3, <2>5, <2>6, <2>7 DEF Sch
<1>13. /\ DOMAIN Fwd' = DOMAIN Fwd /\ \A q \in DOMAIN Fwd : Fwd'[q] = Fwd[q]
       /\ DOMAIN Cpy' = {}
  BY <1>4, <1>11 DEF Fwd, Cpy
<1>14. psn.do = "poison" /\ psn.k = k /\ psn.rows = live /\ k = launched + 1  BY DEF psn, Op
<1>15. /\ \A p : ~Publishing(p)'
       /\ \A p, r : ~PublishingRow(p, r) /\ ~PublishingRow(p, r)'
  BY <1>6, <1>13 DEF PublishingRow, Publishing
<1>16. late => step = "synchronize"  OBVIOUS
<1> HIDE DEF k, g, late
<1>17. LensShape'
  <2>1. Only(pinned, live) \in Lengths
    <3>1. pinned \in Lengths  BY <1>s DEF LensShape
    <3> QED  BY <3>1 DEF Only, Lengths
  <2>2. lens_cpu' \in [Forwards -> Lengths]  BY <2>1, <1>1, <1>2, <1>s DEF LensShape
  <2> QED  BY <2>2, <1>1, <1>2, <1>10, <1>s DEF LensShape, Lengths
<1>18. Roles'
  <2>1. Roles  BY DEF LensInv
  <2>2. ASSUME NEW s \in Streams, NEW t \in Streams, NEW p \in DOMAIN todo'[s],
               todo'[s][p].do = "wait", todo'[s][p].on = t
        PROVE  todo'[s][p].at <= Given(t)'
    <3>1. p \in DOMAIN todo[s] /\ todo'[s][p] = todo[s][p]  BY <2>2, <1>11, <1>12, <1>14 DEF Sch
    <3>2. Given(t)' >= Given(t) /\ Given(t) \in Nat /\ Given(t)' \in Nat  BY <1>10 DEF Grown
    <3>3. todo[s][p].at \in Nat  BY <3>1, <2>2, <1>s, Kinds DEF WaitOps
    <3>4. todo[s][p].at <= Given(t)  BY <3>1, <2>1, <2>2 DEF Roles
    <3> QED  BY <3>1, <3>2, <3>3, <3>4
  <2>3. \A q \in DOMAIN Sch' : Sch'[q].do \in {"wait", "gather", "poison"}
    BY <2>1, <1>12, <1>14 DEF Roles
  <2> QED  BY <2>1, <2>2, <2>3, <1>13 DEF Roles
<1>19. Published'
  <2>1. ~(event > ran["forward"])
    <3>1. ran["forward"] \in Nat  BY <1>s DEF LensShape
    <3> QED  BY <3>1, <1>2, <1>5
  <2>2. event <= Given("forward")'
    <3>1. event <= Given("forward")  BY DEF LensInv, Published
    <3>2. Given("forward")' >= Given("forward") /\ Given("forward") \in Nat /\ Given("forward")' \in Nat
      BY <1>10 DEF Grown
    <3> QED  BY <3>1, <3>2, <1>2
  <2>3. \A r \in PoolRows : last[r] <= launched  BY DEF LensInv, Published
  <2> QED  BY <2>1, <2>2, <2>3, <1>1, <1>15 DEF Published
<1>20. Latest'
  <2>1. \A r \in PoolRows : lens_buf[r] = last[r]  BY <1>1, <1>15 DEF LensInv, Latest, Syncing
  <2> QED  BY <2>1, <1>1 DEF Latest
<1>21. Scheduled'
  <2> SUFFICES ASSUME NEW q \in DOMAIN Sch', Sch'[q].do # "wait"
               PROVE  LET x == Sch'[q].k IN
    /\ x <= launched + 1
    /\ ~(x <= launched)
    /\ Sch'[q].rows \subseteq batch
    /\ Sch'[q].do = "gather" =>
         \A o \in DOMAIN Sch' : o < q /\ Sch'[o].do = "poison" => Sch'[o].k < x
    BY <1>1, <1>15 DEF Scheduled
  <2>1. CASE q \in DOMAIN Sch
    <3>1. Sch'[q] = Sch[q] /\ Sch[q].k \in Nat /\ q \in Nat /\ q <= g  BY <2>1, <1>12, <1>s, Kinds DEF Sch
    <3>2. /\ Sch[q].k <= launched + 1
          /\ Sch[q].k = launched + 1 => Sch[q].rows \subseteq batch
          /\ ~(Sch[q].k <= launched)
          /\ Sch[q].do = "gather" =>
               \A o \in DOMAIN Sch : o < q /\ Sch[o].do = "poison" => Sch[o].k < Sch[q].k
      BY <2>1, <3>1, <1>6 DEF LensInv, Scheduled
    <3>3. \A o \in DOMAIN Sch' : o < q => o \in DOMAIN Sch /\ Sch'[o] = Sch[o]  BY <3>1, <1>12
    <3>4. Sch[q].k = launched + 1  BY <3>1, <3>2, <1>2
    <3> QED  BY <3>1, <3>2, <3>3, <3>4
  <2>2. CASE q \notin DOMAIN Sch
    <3>1. Sch'[q] = psn  BY <2>2, <1>12
    <3> QED  BY <3>1, <1>2, <1>5, <1>14
  <2> QED  BY <2>1, <2>2
<1>22. Mixed'
  <2> SUFFICES ASSUME NEW q \in DOMAIN Fwd, Fwd[q].do = "gather"
               PROVE  LET x == Fwd[q].k IN
    /\ x <= launched + 1
    /\ ~(x <= launched)
    /\ \A o \in DOMAIN Sch' : Sch'[o].do # "wait" => Sch'[o].k # x
    BY <1>1, <1>13, <1>15 DEF Mixed
  <2>1. Fwd[q].k \in Nat  BY <1>s, Kinds DEF Fwd
  <2>2. /\ Fwd[q].k <= launched + 1
        /\ Fwd[q].k = launched + 1 => step \in {"synchronize tails", "launch"}
        /\ ~(Fwd[q].k <= launched)
        /\ \A o \in DOMAIN Sch : Sch[o].do # "wait" => Sch[o].k # Fwd[q].k
    BY <1>6 DEF LensInv, Mixed
  <2>3. Fwd[q].k = launched + 1
    <3>1. Fwd[q].k <= launched + 1 /\ ~(Fwd[q].k <= launched)  BY <2>2
    <3>2. launched \in Nat  BY <1>2
    <3> QED  BY <2>1, <3>1, <3>2
  <2>4. ~late  BY <2>2, <2>3, <1>16
  <2>5. \A o \in DOMAIN Sch' : o \in DOMAIN Sch /\ Sch'[o] = Sch[o]  BY <2>4, <1>12
  <2> QED  BY <2>2, <2>5
<1>23. Gathering'
  <2> SUFFICES ASSUME NEW s \in {"schedule", "forward"}, NEW q \in DOMAIN todo'[s], todo'[s][q].do = "gather"
               PROVE  WillTake(s, q)'
    BY DEF Gathering
  <2>1. q \in DOMAIN todo[s] /\ todo'[s][q] = todo[s][q]  BY <1>12, <1>13, <1>14 DEF Sch, Fwd
  <2>2. WillTake(s, q)  BY <2>1 DEF LensInv, Gathering
  <2> QED  BY <2>1, <2>2, <1>1, <1>15 DEF WillTake
<1>24. Taken'
  <2>1. \A s \in {"schedule", "forward"} : \A q \in DOMAIN todo[s] :
          q \in DOMAIN todo'[s] /\ todo'[s][q] = todo[s][q]
    BY <1>10 DEF Grown
  <2> QED  BY <2>1, <1>1 DEF LensInv, Taken
<1>25. Copying'
  <2>1. \A x \in Forwards : x > launched + 1 => lens_cpu'[x] = NoLengths
    <3>1. \A x \in Forwards : x > launched + 1 => lens_cpu[x] = NoLengths  BY DEF LensInv, Copying
    <3>2. \A x \in Forwards : x > launched + 1 => x # k  BY <1>14, <1>2
    <3> QED  BY <3>1, <3>2, <1>1
  <2>2. ~Syncing'  BY <1>1 DEF Syncing
  <2> QED  BY <2>1, <2>2, <1>1, <1>13 DEF Copying, NoLengths
<1>26. MirrorExact'
  <2>1. Only(pinned, live) = Only(last, live)  BY <1>2, <1>5 DEF Only
  <2>2. \A x \in Forwards : x # k => lens_cpu'[x] = lens_cpu[x]  BY <1>1
  <2>3. lens_cpu'[k] = want[k]
    <3>1. DOMAIN lens_cpu = Forwards  BY <1>s DEF LensShape
    <3> QED  BY <3>1, <2>1, <1>1, <1>2, <1>5
  <2> QED  BY <2>2, <2>3, <1>1 DEF LensInv, MirrorExact, NoLengths
<1> QED  BY <1>17, <1>18, <1>19, <1>20, <1>21, <1>22, <1>23, <1>24, <1>25, <1>26 DEF LensInv

-----------------------------------------------------------------------------
(* The specification.                                                      *)

LEMMA LensInitInv == LensInit => LensInv
<1> SUFFICES ASSUME LensInit PROVE LensInv  OBVIOUS
<1> USE StreamNames
<1>1. /\ queue = [s \in Streams |-> <<>>] /\ ran = [s \in Streams |-> 0]
      /\ needs_cpu \in NeedsCpu /\ lens_buf = NoLengths /\ pinned = NoLengths
      /\ lens = [k \in Forwards |-> NoLengths] /\ lens_cpu = [k \in Forwards |-> NoLengths]
      /\ event = 0 /\ step = "idle" /\ batch = {} /\ launched = 0 /\ live = {} /\ last = NoLengths
      /\ want = [k \in Forwards |-> NoLengths]
  BY DEF LensInit
<1>2. MaxForward \in Nat  BY LensAssumption
<1>3. NoLengths \in Lengths /\ NoLengths \in [PoolRows -> 0..MaxForward]
  BY <1>2 DEF NoLengths, Lengths
<1>4. LensShape
  <2>1. queue \in [Streams -> Seq(WaitOps \cup Working)] /\ ran \in [Streams -> Nat]  BY <1>1
  <2>2. /\ lens \in [Forwards -> Lengths] /\ lens_cpu \in [Forwards -> Lengths]
        /\ want \in [Forwards -> [PoolRows -> 0..MaxForward]]
    BY <1>1, <1>3
  <2>3. launched \in 0..MaxForward  BY <1>1, <1>2
  <2> QED  BY <1>1, <1>3, <2>1, <2>2, <2>3 DEF LensShape
<1>5. \A s \in Streams : DOMAIN todo[s] = {} /\ Given(s) = 0 /\ ran[s] = 0
  <2> SUFFICES ASSUME NEW s \in Streams PROVE DOMAIN todo[s] = {} /\ Given(s) = 0 /\ ran[s] = 0
    OBVIOUS
  <2>1. queue[s] = <<>> /\ ran[s] = 0  BY <1>1
  <2>2. Given(s) = 0  BY <2>1 DEF Given
  <2>3. DOMAIN todo[s] = 0 + 1 .. 0  BY <1>4, <2>1, <2>2, Todo
  <2> QED  BY <2>1, <2>2, <2>3
<1>6. DOMAIN Sch = {} /\ DOMAIN Fwd = {} /\ DOMAIN Cpy = {}  BY <1>5 DEF Sch, Fwd, Cpy
<1>7. Roles  BY <1>5, <1>6 DEF Roles
<1>8. Published  BY <1>1, <1>5, <1>6 DEF Published, NoLengths
<1>9. Latest  BY <1>1 DEF Latest
<1>10. Scheduled /\ Mixed  BY <1>6 DEF Scheduled, Mixed
<1>11. Gathering  BY <1>5 DEF Gathering
<1>12. Taken  BY <1>1 DEF Taken
<1>13. Copying  BY <1>1, <1>6 DEF Copying, Syncing
<1>14. MirrorExact  BY <1>1 DEF MirrorExact
<1> QED  BY <1>4, <1>7, <1>8, <1>9, <1>10, <1>11, <1>12, <1>13, <1>14 DEF LensInv

LEMMA StutterStep ==
  ASSUME LensInv, UNCHANGED lens_vars
  PROVE  LensInv'
<1>1. UNCHANGED <<needs_cpu, queue, ran, lens_buf, pinned, lens, lens_cpu, event, step, batch,
                 launched, live, last, want>>
  BY DEF lens_vars
<1>2. todo' = todo /\ Sch' = Sch /\ Fwd' = Fwd /\ Cpy' = Cpy /\ \A s : Given(s)' = Given(s)
  BY <1>1, QueueSame, GivenSame DEF Sch, Fwd, Cpy
<1>3. LensShape'  BY <1>1 DEF LensInv, LensShape, Lengths
<1>4. Roles' /\ Taken'  BY <1>1, <1>2 DEF LensInv, Roles, Taken
<1>5. Published' /\ Latest'  BY <1>1, <1>2 DEF LensInv, Published, Latest, PublishingRow, Publishing
<1>6. Scheduled'  BY <1>1, <1>2 DEF LensInv, Scheduled, Publishing, Barred
<1>7. Mixed'  BY <1>1, <1>2 DEF LensInv, Mixed, Publishing
<1>8. Gathering'  BY <1>1, <1>2 DEF LensInv, Gathering, WillTake, PublishingRow, Publishing
<1>9. Copying'
  <2>1. Only(last, live)' = Only(last, live) /\ NoLengths' = NoLengths  BY <1>1 DEF Only, NoLengths
  <2> QED  BY <1>1, <1>2, <2>1 DEF LensInv, Copying, Syncing, Barred
<1>10. MirrorExact'  BY <1>1 DEF LensInv, MirrorExact, NoLengths
<1> QED  BY <1>3, <1>4, <1>5, <1>6, <1>7, <1>8, <1>9, <1>10 DEF LensInv

LEMMA LensInvariance == LensInv /\ [LensNext]_lens_vars => LensInv'
<1> SUFFICES ASSUME LensInv, [LensNext]_lens_vars PROVE LensInv'  OBVIOUS
<1>1. CASE Resolve  BY <1>1, ResolveStep
<1>2. CASE Synchronized  BY <1>2, SynchronizedStep
<1>3. CASE Launch  BY <1>3, LaunchStep
<1>4. ASSUME NEW r \in PoolRows, ResolveMixed(r) \/ Prefill(r) \/ Release(r) PROVE LensInv'
  BY <1>4, ResolveMixedStep, PrefillStep, ReleaseStep
<1>5. ASSUME NEW s \in Streams, Run(s) PROVE LensInv'  BY <1>5, RunStep
<1>6. CASE UNCHANGED lens_vars  BY <1>6, StutterStep
<1> QED  BY <1>1, <1>2, <1>3, <1>4, <1>5, <1>6 DEF LensNext

LEMMA AlwaysLensInv == LensSpec => []LensInv
BY LensInitInv, LensInvariance, PTL DEF LensSpec

\* The next operation of a stream, as an operation still to be executed.
LEMMA Next1 ==
  ASSUME LensShape, NEW s \in Streams, queue[s] # <<>>
  PROVE  ran[s] + 1 \in DOMAIN todo[s] /\ todo[s][ran[s] + 1] = Head(queue[s])
<1>1. queue[s] \in Seq(WaitOps \cup Working) /\ ran[s] \in Nat  BY DEF LensShape
<1>2. Len(queue[s]) \in Nat \ {0} /\ Head(queue[s]) = queue[s][1]
  BY <1>1, LenProperties, EmptySeq, HeadTailProperties
<1>3. Given(s) = ran[s] + Len(queue[s])  BY DEF Given
<1>4. /\ DOMAIN todo[s] = ran[s] + 1 .. Given(s)
      /\ \A p \in DOMAIN todo[s] : todo[s][p] = queue[s][p - ran[s]]
  BY Todo
<1>5. ran[s] + 1 \in ran[s] + 1 .. ran[s] + Len(queue[s]) /\ (ran[s] + 1) - ran[s] = 1  BY <1>1, <1>2
<1> QED  BY <1>2, <1>3, <1>4, <1>5

\* The streams, the buffers and the scheduler's state keep their types: a wait
\* is for work the other stream has been given, and the event lies on the
\* forward stream.
THEOREM LensTypeCorrect == LensSpec => []LensTypes
<1>1. ASSUME LensInv PROVE LensTypes
  <2>1. LensShape /\ Roles /\ Published  BY <1>1 DEF LensInv
  <2>2. ASSUME NEW s \in Streams, NEW i \in 1..Len(queue[s])
        PROVE  LET op == queue[s][i] IN
               IF op.do = "wait" THEN op.on \in Streams /\ op.at \in 1..Given(op.on) \cup {0}
               ELSE /\ op.do \in {"gather", "poison", "copy", "publish"}
                    /\ op.k \in Forwards /\ op.rows \subseteq PoolRows
    <3> DEFINE p == ran[s] + i
    <3>1. queue[s] \in Seq(WaitOps \cup Working) /\ ran[s] \in Nat  BY <2>1 DEF LensShape
    <3>2. Len(queue[s]) \in Nat  BY <3>1, LenProperties
    <3>3. Given(s) = ran[s] + Len(queue[s])  BY DEF Given
    <3>4. p \in ran[s] + 1 .. ran[s] + Len(queue[s]) /\ p - ran[s] = i  BY <3>1, <3>2
    <3>5. p \in DOMAIN todo[s] /\ todo[s][p] = queue[s][i]  BY <2>1, <3>3, <3>4, Todo
    <3> HIDE DEF p
    <3>6. CASE queue[s][i].do = "wait"
      <4>1. queue[s][i].on \in Streams /\ queue[s][i].at \in Nat
        BY <2>1, <3>5, <3>6, Kinds DEF WaitOps
      <4>2. queue[s][i].at <= Given(queue[s][i].on)  BY <2>1, <3>5, <3>6, <4>1 DEF Roles
      <4>3. Given(queue[s][i].on) \in Nat  BY <2>1, <4>1, Todo
      <4> QED  BY <3>6, <4>1, <4>2, <4>3
    <3>7. CASE queue[s][i].do # "wait"  BY <2>1, <3>5, <3>7, Kinds
    <3> QED  BY <3>6, <3>7
  <2>3. event \in 0..Given("forward")
    <3>1. event \in Nat /\ event <= Given("forward")  BY <2>1 DEF LensShape, Published
    <3>2. Given("forward") \in Nat  BY <2>1, StreamNames, Todo
    <3> QED  BY <3>1, <3>2
  <2> QED  BY <2>1, <2>2, <2>3 DEF LensTypes, LensShape
<1> QED  BY <1>1, AlwaysLensInv, PTL

\* What resolve_seq_lens_cpu and resolve_mixed_spec_tails gather on the device is
\* what the rows' previous forwards published, for any number of rows, forwards
\* and interleavings of the streams.
THEOREM Gathered == LensSpec => []GatherExact
<1>1. ASSUME LensInv PROVE GatherExact
  <2> SUFFICES ASSUME NEW s \in Streams, NEW k \in Forwards, queue[s] # <<>>,
                      Head(queue[s]).do = "publish", Head(queue[s]).k = k
               PROVE  lens[k] = want[k]
    BY DEF GatherExact
  <2> USE StreamNames
  <2> DEFINE h == ran[s] + 1
  <2>1. LensShape /\ Roles /\ Scheduled /\ Mixed /\ Taken  BY <1>1 DEF LensInv
  <2>2. h \in DOMAIN todo[s] /\ todo[s][h].do = "publish" /\ todo[s][h].k = k  BY <2>1, Next1
  <2>3. s = "forward" /\ h \in DOMAIN Fwd /\ Publishing(h) /\ Fwd[h].k = k /\ h = ran["forward"] + 1
    BY <2>1, <2>2 DEF Roles, Sch, Fwd, Cpy, Publishing
  <2>4. k \in Nat  BY DEF Forwards
  <2> HIDE DEF h
  <2>5. ASSUME NEW q \in DOMAIN Sch, Sch[q].do = "gather", Sch[q].k = k PROVE FALSE
    <3>1. Barred("forward", h, "schedule", q)  BY <2>1, <2>3, <2>4, <2>5 DEF Scheduled
    <3> QED  BY <2>1, <2>3, <3>1, BarredNotNext DEF Fwd
  <2>6. ASSUME NEW q \in DOMAIN Fwd, Fwd[q].do = "gather", Fwd[q].k = k PROVE FALSE
    <3>1. q \in Nat /\ q > ran["forward"] /\ ran["forward"] \in Nat  BY <2>1, Kinds, Todo DEF Fwd
    <3>2. q # h  BY <2>3, <2>6 DEF Publishing
    <3>3. h < q  BY <2>3, <3>1, <3>2
    <3>4. ~(k < k)  BY <2>4
    <3>5. h < q <=> Fwd[h].k < Fwd[q].k  BY <2>1, <2>3, <2>6 DEF Mixed
    <3> QED  BY <2>3, <2>6, <3>3, <3>4, <3>5
  <2> QED  BY <2>1, <2>5, <2>6 DEF Taken, Sch, Fwd
<1> QED  BY <1>1, AlwaysLensInv, PTL

\* So is what the host reads of them after the synchronization.
THEOREM Mirrored == LensSpec => []MirrorExact
<1>1. LensInv => MirrorExact  BY DEF LensInv
<1> QED  BY <1>1, AlwaysLensInv, PTL

\* No two streams come to touch the same row of the buffer, one of them writing,
\* without a wait between the two.
THEOREM RaceFree == LensSpec => []NoRace
<1>1. ASSUME LensInv PROVE NoRace
  <2> SUFFICES ASSUME NEW s \in Streams, NEW t \in Streams, s # t, queue[s] # <<>>, queue[t] # <<>>,
                      Writes(Head(queue[s])) # {},
                      Reads(Head(queue[t])) # {} \/ Writes(Head(queue[t])) # {}
               PROVE  FALSE
    BY DEF NoRace
  <2> USE StreamNames
  <2> DEFINE h == ran[s] + 1
             g == ran[t] + 1
             a == todo[s][h]
             b == todo[t][g]
  <2>1. LensShape /\ Roles /\ Published /\ Scheduled /\ Mixed /\ Copying  BY <1>1 DEF LensInv
  <2>2. /\ h \in DOMAIN todo[s] /\ a = Head(queue[s]) /\ a.do \in {"publish", "poison"}
        /\ g \in DOMAIN todo[t] /\ b = Head(queue[t]) /\ b.do \in {"publish", "poison", "gather", "copy"}
    BY <2>1, Next1 DEF Writes, Reads
  <2> HIDE DEF h, g
  <2>3. ASSUME NEW p \in DOMAIN todo["forward"], NEW q \in DOMAIN todo["schedule"],
               p = ran["forward"] + 1, q = ran["schedule"] + 1,
               Publishing(p), Sch[q].do # "wait"
        PROVE  FALSE
    <3>1. Barred("forward", p, "schedule", q) \/ Barred("schedule", q, "forward", p)
      BY <2>1, <2>3 DEF Scheduled, Fwd, Sch
    <3> QED  BY <2>1, <2>3, <3>1, BarredNotNext
  <2>4. ASSUME t = "fwd_prepare_d2h", NEW p \in DOMAIN Fwd, Publishing(p) PROVE FALSE
    <3>1. g \in DOMAIN Cpy /\ Cpy[g].do = "copy" /\ g = ran["fwd_prepare_d2h"] + 1
      BY <2>1, <2>2, <2>4 DEF Roles, Cpy, g
    <3>2. ~Barred("fwd_prepare_d2h", g, "forward", event)  BY <2>1, <3>1, BarredNotNext DEF Cpy
    <3>3. ran["forward"] >= event  BY <2>1, <3>1, <3>2 DEF Copying
    <3>4. p <= event  BY <2>1, <2>4 DEF Published
    <3>5. p \in Nat /\ p > ran["forward"]  BY <2>1, Kinds DEF Fwd
    <3>6. event \in Nat /\ ran["forward"] \in Nat  BY <2>1 DEF LensShape
    <3> QED  BY <3>3, <3>4, <3>5, <3>6
  <2>5. CASE a.do = "publish"
    <3>1. s = "forward" /\ h \in DOMAIN Fwd /\ Publishing(h)
      BY <2>1, <2>2, <2>5 DEF Roles, Sch, Fwd, Cpy, Publishing
    <3>2. CASE t = "schedule"  BY <3>1, <3>2, <2>2, <2>3 DEF h, g, Fwd, Sch
    <3>3. CASE t = "fwd_prepare_d2h"  BY <3>1, <3>3, <2>4
    <3> QED  BY <3>1, <3>2, <3>3
  <2>6. CASE a.do = "poison"
    <3>1. s = "schedule" /\ h \in DOMAIN Sch /\ Sch[h].do = "poison" /\ h = ran["schedule"] + 1
      BY <2>1, <2>2, <2>6 DEF Roles, Sch, Fwd, Cpy, h
    <3> DEFINE j == Sch[h].k
    <3>2. /\ j <= launched + 1
          /\ j = launched + 1 => step = "launch"
          /\ j <= launched => \E p \in DOMAIN Fwd : Publishing(p) /\ Fwd[p].k = j
          /\ \A p \in DOMAIN Fwd : Publishing(p) =>
               IF Fwd[p].k >= j THEN Barred("forward", p, "schedule", h)
                                ELSE Barred("schedule", h, "forward", p)
      BY <2>1, <3>1 DEF Scheduled
    <3>3. j \in Nat  BY <2>1, <3>1, Kinds DEF Sch
    <3>4. launched \in Nat
      <4>1. launched \in 0..MaxForward  BY <2>1 DEF LensShape
      <4> QED  BY <4>1, LensAssumption
    <3> HIDE DEF j
    <3>5. CASE t = "forward" /\ b.do = "publish"
      <4>1. Publishing(g)  BY <3>5, <2>2 DEF Publishing, Fwd
      <4> QED  BY <4>1, <3>1, <3>5, <2>2, <2>3 DEF h, g, Sch
    <3>6. CASE t = "forward" /\ b.do # "publish"
      <4> DEFINE k == Fwd[g].k
      <4>1. g \in DOMAIN Fwd /\ Fwd[g].do = "gather" /\ g = ran["forward"] + 1 /\ ran["forward"] \in Nat
        BY <3>6, <2>1, <2>2, Todo DEF Roles, Fwd, g
      <4>2. /\ k <= launched + 1
            /\ k <= launched => \E p \in DOMAIN Fwd : Publishing(p) /\ Fwd[p].k = k
            /\ \A p \in DOMAIN Fwd : Publishing(p) => (p < g <=> Fwd[p].k < k)
            /\ j # k
        BY <2>1, <3>1, <4>1 DEF Mixed, j
      <4>3. k \in Nat  BY <2>1, <4>1, Kinds DEF Fwd
      <4> HIDE DEF k
      <4>4. CASE j < k
        <5>1. j <= launched
          <6>1. k <= launched + 1  BY <4>2
          <6> QED  BY <6>1, <4>3, <4>4, <3>3, <3>4
        <5>2. PICK p \in DOMAIN Fwd : Publishing(p) /\ Fwd[p].k = j  BY <5>1, <3>2
        <5>3. p < g  BY <5>2, <4>2, <4>4
        <5>4. p \in Nat /\ p > ran["forward"]  BY <2>1, Kinds DEF Fwd
        <5> QED  BY <5>3, <5>4, <4>1
      <4>5. CASE k < j
        <5>1. k <= launched
          <6>1. j <= launched + 1  BY <3>2
          <6> QED  BY <6>1, <4>3, <4>5, <3>3, <3>4
        <5>2. PICK p \in DOMAIN Fwd : Publishing(p) /\ Fwd[p].k = k  BY <5>1, <4>2
        <5>3. ~(k >= j)  BY <4>3, <4>5, <3>3
        <5>4. Barred("schedule", h, "forward", p)  BY <5>2, <5>3, <3>2
        <5> QED  BY <5>4, <3>1, <2>1, BarredNotNext DEF Sch
      <4>6. j # k  BY <4>2
      <4> QED  BY <4>3, <4>4, <4>5, <4>6, <3>3
    <3>7. CASE t = "fwd_prepare_d2h"
      <4>1. g \in DOMAIN Cpy  BY <3>7, <2>2 DEF Cpy
      <4>2. step # "launch"  BY <4>1, <2>1 DEF Copying, Syncing
      <4>3. j <= launched
        <5>1. j <= launched + 1 /\ j # launched + 1  BY <3>2, <4>2
        <5> QED  BY <5>1, <3>3, <3>4
      <4>4. PICK p \in DOMAIN Fwd : Publishing(p)  BY <4>3, <3>2
      <4> QED  BY <4>4, <3>7, <2>4
    <3> QED  BY <3>1, <3>5, <3>6, <3>7
  <2> QED  BY <2>2, <2>5, <2>6
<1> QED  BY <1>1, AlwaysLensInv, PTL
==============================================================================
