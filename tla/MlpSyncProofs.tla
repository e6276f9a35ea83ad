--------------------------- MODULE MlpSyncProofs ---------------------------
(* Data-parallel ranks run the same forwards, with one geometry, rows that   *)
(* match their tokens, exact masks and results of their own, for any number  *)
(* of ranks and any servers.                                                 *)
(*                                                                           *)
(* None of this is inductive. A rank that has left a forward is one ahead of *)
(* a rank that has not: StepInv counts positions so that it is not, and says *)
(* where in what is left of a round the target model runs. IInv adds what    *)
(* the ranks' padding rests on: that the same counts get the same answer,    *)
(* what a padded batch holds, and what a forward leaves for the next one,    *)
(* down to how far the hidden states of a target may be padded.              *)
EXTENDS MlpSync, FiniteSetTheorems, SequenceTheorems, WellFoundedInduction, TLAPS

Kinds == {"target", "draft", "verify", "extend", "prefill"}
PcTypes == pc \in [Ranks -> {"ready", "inside", "computed", "raised"}]
TodoTypes == todo \in [Ranks -> Seq(Kinds)]

\* The forwards that are left of a rank's round when it is done with its current one.
Left(r) == Len(todo[r]) - (IF pc[r] = "computed" THEN 1 ELSE 0)
InStep == \A r, q \in Ranks : Left(r) = Left(q)
Busy == \A r \in Ranks : pc[r] \in {"inside", "computed"} => todo[r] # <<>>
\* The target runs last but one, or all the time without a draft model.
TargetAt(s) == \A i \in 1..Len(s) : OnTarget(s[i]) <=> (server.spec => i = Len(s) - 1)
Shaped == \A r \in Ranks : TargetAt(todo[r])

StepInv == server \in Servers /\ PcTypes /\ TodoTypes /\ InStep /\ Busy /\ Shaped

-----------------------------------------------------------------------------

\* The two counts of draft forwards, of decoding and of idle ranks, are one.
LEMMA DraftCount ==
  ASSUME NEW s \in Nat \ {0}
  PROVE  Cardinality({i \in 0..(s - 1) : i # s - 1}) = s - 1
<1>1. {i \in 0..(s - 1) : i # s - 1} = 0..(s - 2)
  OBVIOUS
<1>2. Cardinality(0..(s - 2)) = s - 1
  <2>1. Cardinality(0..(s - 2)) = IF 0 > s - 2 THEN 0 ELSE (s - 2) - 0 + 1
    BY FS_Interval
  <2> QED
    BY <2>1
<1> QED
  BY <1>1, <1>2

\* Draft forwards, then one of the target and one more of the draft model.
LEMMA EndingShape ==
  ASSUME server.spec, NEW drafts \in Seq(Kinds), \A i \in 1..Len(drafts) : drafts[i] = "draft",
         NEW a \in {"target", "verify"}, NEW b \in {"prefill", "extend"}
  PROVE  /\ drafts \o <<a, b>> \in Seq(Kinds) /\ Len(drafts \o <<a, b>>) = Len(drafts) + 2
         /\ TargetAt(drafts \o <<a, b>>)
<1>1. <<a, b>> \in Seq(Kinds) /\ Len(<<a, b>>) = 2
  BY DEF Kinds
<1>2. drafts \o <<a, b>> \in Seq(Kinds) /\ Len(drafts \o <<a, b>>) = Len(drafts) + 2
  BY <1>1
<1>3. ASSUME NEW i \in 1..(Len(drafts) + 2)
      PROVE  OnTarget((drafts \o <<a, b>>)[i]) <=> i = Len(drafts) + 1
  <2> DEFINE k == (drafts \o <<a, b>>)[i]
  <2>1. CASE i <= Len(drafts)
    <3>1. k = "draft"
      BY <1>1, <2>1
    <3> QED
      BY <2>1, <3>1 DEF OnTarget
  <2>2. CASE i = Len(drafts) + 1
    <3>1. k = a
      BY <1>1, <2>2
    <3> QED
      BY <2>2, <3>1 DEF OnTarget
  <2>3. CASE i = Len(drafts) + 2
    <3>1. k = b
      BY <1>1, <2>3
    <3>2. k \notin {"target", "verify"} /\ i # Len(drafts) + 1
      BY <2>3, <3>1
    <3> QED
      BY <3>2 DEF OnTarget
  <2>4. i <= Len(drafts) \/ i = Len(drafts) + 1 \/ i = Len(drafts) + 2
    OBVIOUS
  <2> QED
    BY <2>1, <2>2, <2>3, <2>4
<1>4. TargetAt(drafts \o <<a, b>>)
  BY <1>2, <1>3 DEF TargetAt
<1> QED
  BY <1>2, <1>4

\* Every round of a speculative server that drafts is as long on every rank,
\* and has its target forward last but one.
LEMMA CoordinatedShape ==
  ASSUME server \in Servers, server.spec, NEW mode
  PROVE  /\ Coordinated(mode) \in Seq(Kinds)
         /\ Len(Coordinated(mode)) = server.steps + 1
         /\ TargetAt(Coordinated(mode))
<1>1. server.steps \in Nat \ {0}
  BY MlpSyncAssumption DEF MlpSyncAssumption
<1>2. Cardinality({i \in 0..(server.steps - 1) : i # server.steps - 1}) = server.steps - 1
  BY <1>1, DraftCount
<1>3. DraftForward = DraftForwardIdle
  BY <1>2 DEF DraftForward, DraftForwardIdle
<1>4. /\ DraftForwardIdle \in Seq(Kinds) /\ Len(DraftForwardIdle) = server.steps - 1
      /\ \A i \in 1..Len(DraftForwardIdle) : DraftForwardIdle[i] = "draft"
  <2>1. server.steps - 1 \in Nat
    BY <1>1
  <2> QED
    BY <2>1 DEF DraftForwardIdle, Times, Kinds
<1>5. PICK a \in {"target", "verify"}, b \in {"prefill", "extend"} :
        Coordinated(mode) = DraftForwardIdle \o <<a, b>>
  BY <1>3 DEF Coordinated, PrefillBatch
<1>6. /\ Coordinated(mode) \in Seq(Kinds) /\ TargetAt(Coordinated(mode))
      /\ Len(Coordinated(mode)) = Len(DraftForwardIdle) + 2
  BY <1>4, <1>5, EndingShape
<1> QED
  BY <1>1, <1>4, <1>6

\* What a round asks of a rank is a round of the right shape, and as long on
\* all ranks.
LEMMA RoundShape ==
  ASSUME server \in Servers, NEW rd, rd.extend \in BOOLEAN, rd.mixed \in BOOLEAN, NEW mode, NEW other
  PROVE  /\ ForwardsOf(mode, rd) \in Seq(Kinds)
         /\ Len(ForwardsOf(mode, rd)) = Len(ForwardsOf(other, rd))
         /\ TargetAt(ForwardsOf(mode, rd))
<1>1. server.spec \in BOOLEAN
  BY MlpSyncAssumption DEF MlpSyncAssumption
<1>2. CASE ~server.spec
  <2>1. ForwardsOf(mode, rd) = <<"target">> /\ ForwardsOf(other, rd) = <<"target">>
    BY <1>2 DEF ForwardsOf
  <2>2. <<"target">> \in Seq(Kinds) /\ TargetAt(<<"target">>)
    BY <1>2 DEF Kinds, TargetAt, OnTarget
  <2> QED
    BY <2>1, <2>2
<1>3. CASE server.spec /\ rd.extend /\ ~rd.mixed
  <2>1. ForwardsOf(mode, rd) = <<"target", "prefill">> /\ ForwardsOf(other, rd) = <<"target", "prefill">>
    BY <1>3 DEF ForwardsOf, PrefillBatch
  <2>2. <<"target", "prefill">> \in Seq(Kinds) /\ TargetAt(<<"target", "prefill">>)
    BY <1>3 DEF Kinds, TargetAt, OnTarget
  <2> QED
    BY <2>1, <2>2
<1>4. CASE server.spec /\ (rd.mixed \/ ~rd.extend)
  <2>1. ForwardsOf(mode, rd) = Coordinated(mode) /\ ForwardsOf(other, rd) = Coordinated(other)
    BY <1>4 DEF ForwardsOf
  <2> QED
    BY <2>1, <1>4, CoordinatedShape
<1> QED
  BY <1>1, <1>2, <1>3, <1>4

-----------------------------------------------------------------------------

LEMMA InitHolds == Init => StepInv
  BY DEF Init, StepInv, PcTypes, TodoTypes, InStep, Left, Busy, Shaped, TargetAt

LEMMA StartRoundKeeps == StepInv /\ StartRound => StepInv'
<1> SUFFICES ASSUME StepInv, StartRound PROVE StepInv'
  OBVIOUS
<1>1. PICK w \in [Ranks -> Batches], graph \in BOOLEAN :
        LET extend == "EXTEND" \in Modes(w)
            rd == [extend |-> extend,
                   mixed |-> server.spec /\ extend /\ "DECODE" \in Modes(w), graph |-> graph]
        IN todo' = [r \in Ranks |-> ForwardsOf(w[r].mode, rd)]
  BY DEF StartRound
<1> DEFINE extend == "EXTEND" \in Modes(w)
           rd == [extend |-> extend,
                  mixed |-> server.spec /\ extend /\ "DECODE" \in Modes(w), graph |-> graph]
<1>2. rd.extend \in BOOLEAN /\ rd.mixed \in BOOLEAN
  BY MlpSyncAssumption DEF MlpSyncAssumption, StepInv
<1>3. todo' = [r \in Ranks |-> ForwardsOf(w[r].mode, rd)]
  BY <1>1
<1> HIDE DEF rd
<1>4. server' = server /\ pc' = pc /\ \A r \in Ranks : pc[r] = "ready"
  BY DEF StartRound
<1>5. ASSUME NEW r \in Ranks, NEW q \in Ranks
      PROVE  /\ todo'[r] \in Seq(Kinds) /\ TargetAt(todo'[r])
             /\ Len(todo'[r]) = Len(todo'[q])
  BY <1>2, <1>3, RoundShape DEF StepInv
<1>6. TodoTypes'
  BY <1>3, <1>5 DEF TodoTypes
<1>7. InStep'
  BY <1>4, <1>5 DEF InStep, Left
<1>8. Shaped'
  BY <1>4, <1>5 DEF Shaped, TargetAt
<1> QED
  BY <1>4, <1>6, <1>7, <1>8 DEF StepInv, PcTypes, Busy

LEMMA PrepareKeeps == ASSUME NEW r \in Ranks PROVE StepInv /\ Prepare(r) => StepInv'
<1> SUFFICES ASSUME StepInv, Prepare(r) PROVE StepInv'
  OBVIOUS
<1>1. /\ server' = server /\ todo' = todo
      /\ pc[r] = "ready" /\ todo[r] # <<>>
      /\ pc' = [pc EXCEPT ![r] = "raised"] \/ pc' = [pc EXCEPT ![r] = "inside"]
  BY DEF Prepare
<1>2. PcTypes' /\ Busy'
  BY <1>1 DEF StepInv, PcTypes, Busy
<1>3. InStep'
  <2>1. \A q \in Ranks : pc'[q] = "computed" <=> pc[q] = "computed"
    BY <1>1 DEF StepInv, PcTypes
  <2> QED
    BY <1>1, <2>1 DEF StepInv, InStep, Left
<1>4. TodoTypes' /\ Shaped'
  BY <1>1 DEF StepInv, TodoTypes, Shaped, TargetAt
<1> QED
  BY <1>1, <1>2, <1>3, <1>4 DEF StepInv

LEMMA ForwardKeeps == StepInv /\ Forward => StepInv'
<1> SUFFICES ASSUME StepInv, Forward PROVE StepInv'
  OBVIOUS
<1>1. /\ server' = server /\ todo' = todo /\ pc' = [r \in Ranks |-> "computed"]
      /\ \A r \in Ranks : pc[r] = "inside"
  BY DEF Forward
<1>2. PcTypes' /\ Busy'
  BY <1>1 DEF StepInv, PcTypes, Busy
<1>3. InStep'
  <2>1. \A r \in Ranks : Left(r) = Len(todo[r]) /\ Left(r)' = Len(todo[r]) - 1
    BY <1>1 DEF Left, StepInv, TodoTypes
  <2> QED
    BY <2>1 DEF StepInv, InStep
<1>4. TodoTypes' /\ Shaped'
  BY <1>1 DEF StepInv, TodoTypes, Shaped, TargetAt
<1> QED
  BY <1>1, <1>2, <1>3, <1>4 DEF StepInv

LEMMA PostForwardKeeps == ASSUME NEW r \in Ranks PROVE StepInv /\ PostForward(r) => StepInv'
<1> SUFFICES ASSUME StepInv, PostForward(r) PROVE StepInv'
  OBVIOUS
<1>1. /\ server' = server /\ pc[r] = "computed"
      /\ pc' = [pc EXCEPT ![r] = "ready"] /\ todo' = [todo EXCEPT ![r] = Tail(@)]
  BY DEF PostForward
<1>2. todo[r] \in Seq(Kinds) /\ todo[r] # <<>>
  BY <1>1 DEF StepInv, TodoTypes, Busy
<1>3. /\ Tail(todo[r]) \in Seq(Kinds) /\ Len(Tail(todo[r])) = Len(todo[r]) - 1
      /\ \A i \in 1..Len(Tail(todo[r])) : Tail(todo[r])[i] = todo[r][i + 1]
  BY <1>2
<1>4. /\ pc'[r] = "ready" /\ todo'[r] = Tail(todo[r])
      /\ \A q \in Ranks : q # r => pc'[q] = pc[q] /\ todo'[q] = todo[q]
  BY <1>1 DEF StepInv, PcTypes, TodoTypes
<1>5. PcTypes' /\ TodoTypes'
  BY <1>1, <1>3 DEF StepInv, PcTypes, TodoTypes
<1>6. Busy'
  BY <1>4 DEF StepInv, Busy
<1>7. InStep'
  <2>1. Left(r)' = Left(r)
    <3>1. Len(todo[r]) \in Nat /\ Left(r) = Len(todo[r]) - 1
      BY <1>1, <1>2 DEF Left
    <3>2. Left(r)' = Len(todo'[r]) - 0
      BY <1>4 DEF Left
    <3> QED
      BY <1>3, <1>4, <3>1, <3>2
  <2>2. \A q \in Ranks : q # r => Left(q)' = Left(q)
    BY <1>4 DEF Left
  <2> QED
    BY <2>1, <2>2 DEF StepInv, InStep
<1>8. Shaped'
  <2>1. TargetAt(Tail(todo[r]))
    BY <1>2, <1>3 DEF StepInv, Shaped, TargetAt
  <2> QED
    BY <1>1, <1>4, <2>1 DEF StepInv, Shaped, TargetAt
<1> QED
  BY <1>1, <1>5, <1>6, <1>7, <1>8 DEF StepInv

LEMMA StepsKept == Spec => []StepInv
<1>1. StepInv /\ [Next]_vars => StepInv'
  <2> SUFFICES ASSUME StepInv, [Next]_vars PROVE StepInv'
    OBVIOUS
  <2>1. CASE StartRound
    BY <2>1, StartRoundKeeps
  <2>2. CASE Forward
    BY <2>2, ForwardKeeps
  <2>3. ASSUME NEW r \in Ranks, Prepare(r) PROVE StepInv'
    BY <2>3, PrepareKeeps
  <2>4. ASSUME NEW r \in Ranks, PostForward(r) PROVE StepInv'
    BY <2>4, PostForwardKeeps
  <2>5. CASE UNCHANGED vars
    BY <2>5 DEF vars, StepInv, PcTypes, TodoTypes, InStep, Left, Busy, Shaped, TargetAt
  <2> QED
    BY <2>1, <2>2, <2>3, <2>4, <2>5 DEF Next
<1> QED
  BY <1>1, InitHolds, PTL DEF Spec

\* The ranks of any server enter the same forwards: whoever waits inside one is
\* met there by all others, on the same model, however many ranks there are and
\* whatever they serve (_draft_forward_idle,
\* _forward_dp_spec_prefill_coordination).
THEOREM ForwardsMatch == Spec => []Lockstep
<1>1. StepInv => Lockstep
  <2> SUFFICES ASSUME StepInv, NEW r \in Ranks, NEW q \in Ranks, Inside(r)
               PROVE  /\ todo[q] # <<>>
                      /\ Inside(q) => /\ Len(todo[r]) = Len(todo[q])
                                      /\ OnTarget(Forwarding(r)) <=> OnTarget(Forwarding(q))
    BY DEF Lockstep
  <2>1. /\ todo[r] \in Seq(Kinds) /\ todo[q] \in Seq(Kinds) /\ todo[r] # <<>>
        /\ Left(r) = Len(todo[r]) /\ Left(q) = Left(r)
    BY DEF StepInv, TodoTypes, Busy, InStep, Left, Inside
  <2>2. todo[q] # <<>>
    <3>1. Len(todo[r]) > 0 /\ Len(todo[q]) \in Nat
      BY <2>1
    <3>2. Left(q) <= Len(todo[q])
      <4>1. CASE pc[q] = "computed"
        BY <3>1, <4>1 DEF Left
      <4>2. CASE pc[q] # "computed"
        BY <3>1, <4>2 DEF Left
      <4> QED
        BY <4>1, <4>2
    <3>3. Len(todo[q]) > 0
      BY <2>1, <3>1, <3>2
    <3> QED
      BY <3>3
  <2>3. ASSUME Inside(q)
        PROVE  Len(todo[r]) = Len(todo[q]) /\ (OnTarget(Forwarding(r)) <=> OnTarget(Forwarding(q)))
    <3>1. Len(todo[q]) = Len(todo[r])
      BY <2>1, <2>3 DEF Left, Inside
    <3>2. /\ 1 \in 1..Len(todo[r]) /\ 1 \in 1..Len(todo[q])
          /\ Forwarding(r) = todo[r][1] /\ Forwarding(q) = todo[q][1]
      BY <2>1, <2>2 DEF Forwarding
    <3> QED
      BY <3>1, <3>2 DEF StepInv, Shaped, TargetAt
  <2> QED
    BY <2>2, <2>3
<1> QED
  BY <1>1, StepsKept, PTL

-----------------------------------------------------------------------------
(* Numbers and sequences                                                     *)

Pairs == Nat \X Nat

\* A set of naturals with a member has a smallest one.
LEMMA Smallest ==
  ASSUME NEW S \in SUBSET Nat, S # {}
  PROVE  \E x \in S : \A y \in S : x <= y
<1>1. PICK x \in S : \A y \in S : ~ (<<y, x>> \in OpToRel(<, Nat))
  BY WFMin, NatLessThanWellFounded
<1>2. \A y \in S : x <= y
  <2> SUFFICES ASSUME NEW y \in S, y < x
               PROVE  FALSE
    OBVIOUS
  <2>1. <<y, x>> \in {ss \in Nat \X Nat : ss[1] < ss[2]}
    OBVIOUS
  <2> QED
    BY <1>1, <2>1 DEF OpToRel
<1> QED
  BY <1>2

\* The larger and the smaller of two numbers.
LEMMA OfTwo ==
  ASSUME NEW a \in Int, NEW b \in Int
  PROVE  /\ Max({a, b}) = (IF a <= b THEN b ELSE a)
         /\ Min({a, b}) = (IF a <= b THEN a ELSE b)
<1>1. Max({a, b}) = (IF a <= b THEN b ELSE a)
  BY DEF Max
<1>2. Min({a, b}) = (IF a <= b THEN a ELSE b)
  BY DEF Min
<1> QED
  BY <1>1, <1>2

\* The largest of three numbers.
LEMMA OfThree ==
  ASSUME NEW a \in Int, NEW b \in Int, NEW c \in Int
  PROVE  /\ Max({a, b, c}) \in {a, b, c}
         /\ a <= Max({a, b, c}) /\ b <= Max({a, b, c}) /\ c <= Max({a, b, c})
<1>1. \E x \in {a, b, c} : \A y \in {a, b, c} : x >= y
  OBVIOUS
<1>2. Max({a, b, c}) \in {a, b, c} /\ \A y \in {a, b, c} : Max({a, b, c}) >= y
  BY <1>1 DEF Max
<1> QED
  BY <1>2

\* A multiple of w, and what is less than w besides it.
LEMMA Divided ==
  ASSUME NEW q \in Nat, NEW w \in Nat \ {0}, NEW x \in 0..(w - 1)
  PROVE  (q * w + x) \div w = q /\ (q * w + x) % w = x
<1> DEFINE n == q * w + x
           d == n \div w
<1>0. n \in Nat
  OBVIOUS
<1>1. d \in Nat /\ n % w \in 0..(w - 1) /\ n = w * d + (n % w)
  BY <1>0
<1>2. CASE d <= q - 1
  <2>1. w * d <= w * (q - 1) /\ w * (q - 1) = w * q - w
    BY <1>1, <1>2
  <2> QED
    BY <1>1, <2>1
<1>3. CASE q + 1 <= d
  <2>1. w * (q + 1) <= w * d /\ w * (q + 1) = w * q + w
    BY <1>1, <1>3
  <2> QED
    BY <1>1, <2>1
<1>4. CASE d = q
  BY <1>1, <1>4
<1> QED
  BY <1>1, <1>2, <1>3, <1>4

\* As many rows of w tokens as n tokens make do not exceed them, and are at
\* least those that fit.
LEMMA RowsFit ==
  ASSUME NEW n \in Nat, NEW w \in Nat \ {0}
  PROVE  /\ n \div w \in Nat /\ (n \div w) * w <= n
         /\ \A m \in Nat : m * w <= n => m <= n \div w
<1> DEFINE d == n \div w
<1>1. d \in Nat /\ n % w \in 0..(w - 1) /\ n = w * d + (n % w)
  OBVIOUS
<1>2. d * w <= n
  <2> HIDE DEF d
  <2> QED
    BY <1>1
<1>3. ASSUME NEW m \in Nat, m * w <= n PROVE m <= d
  <2> SUFFICES ASSUME d + 1 <= m PROVE FALSE
    BY <1>1
  <2> HIDE DEF d
  <2>1. w * (d + 1) <= w * m /\ w * (d + 1) = w * d + w
    BY <1>1
  <2> QED
    BY <1>1, <1>3, <2>1
<1> QED
  BY <1>1, <1>2, <1>3

\* Rounding up to a multiple.
LEMMA Ceiled ==
  ASSUME NEW n \in Nat, NEW k \in Nat \ {0}
  PROVE  /\ CeilAlign(n, k) \in Nat /\ n <= CeilAlign(n, k)
         /\ CeilAlign(n, k) % k = 0
         /\ CeilAlign(CeilAlign(n, k), k) = CeilAlign(n, k)
<1> DEFINE d == (n + k - 1) \div k
<1>0. n + k - 1 \in Nat
  OBVIOUS
<1>1. d \in Nat /\ (n + k - 1) % k \in 0..(k - 1) /\ n + k - 1 = k * d + ((n + k - 1) % k)
  BY <1>0
<1>2. CeilAlign(n, k) = d * k
  BY DEF CeilAlign
<1> HIDE DEF d
<1>3. d * k \in Nat /\ n <= d * k
  BY <1>1
<1>4. (d * k) % k = 0
  <2>1. 0 \in 0..(k - 1) /\ d * k + 0 = d * k
    BY <1>3
  <2>2. (d * k + 0) % k = 0
    BY <1>1, <2>1, Divided
  <2> QED
    BY <2>1, <2>2
<1>5. CeilAlign(d * k, k) = d * k
  <2>0. k - 1 \in 0..(k - 1)
    OBVIOUS
  <2>1. (d * k + (k - 1)) \div k = d
    BY <1>1, <2>0, Divided
  <2>2. d * k + k - 1 = d * k + (k - 1)
    BY <1>3
  <2> QED
    BY <2>1, <2>2 DEF CeilAlign
<1> QED
  BY <1>2, <1>3, <1>4, <1>5

\* The first n of a sequence.
LEMMA Taken ==
  ASSUME NEW S, NEW s \in Seq(S), NEW n \in Nat
  PROVE  /\ Take(s, n) \in Seq(S)
         /\ Len(Take(s, n)) = (IF n <= Len(s) THEN n ELSE Len(s))
         /\ \A i \in 1..Len(Take(s, n)) : Take(s, n)[i] = s[i]
         /\ n >= Len(s) => Take(s, n) = s
<1> DEFINE m == IF n <= Len(s) THEN n ELSE Len(s)
<1>1. Take(s, n) = SubSeq(s, 1, m)
  <2>1. Min({n, Len(s)}) = m
    <3>1. n \in Int /\ Len(s) \in Int
      OBVIOUS
    <3> QED
      BY <3>1, OfTwo, Zenon
  <2> QED
    BY <2>1 DEF Take
<1>2. m \in Nat /\ m <= Len(s)
  OBVIOUS
<1> HIDE DEF m
<1>3. /\ SubSeq(s, 1, m) \in Seq(S) /\ Len(SubSeq(s, 1, m)) = m
      /\ \A i \in 1..m : SubSeq(s, 1, m)[i] = s[i]
  BY <1>2
<1>4. ASSUME n >= Len(s) PROVE Take(s, n) = s
  <2>1. m = Len(s)
    BY <1>4 DEF m
  <2> QED
    BY <1>1, <2>1, SubSeqFull
<1> QED
  BY <1>1, <1>3, <1>4 DEF m

\* A sequence padded to a size.
LEMMA PadLands ==
  ASSUME NEW S, NEW s \in Seq(S), NEW v \in S, NEW size \in Nat, Len(s) <= size
  PROVE  /\ Pad(s, size, v) \in Seq(S) /\ Len(Pad(s, size, v)) = size
         /\ \A i \in 1..size : Pad(s, size, v)[i] = (IF i <= Len(s) THEN s[i] ELSE v)
<1> DEFINE t == [i \in 1..(size - Len(s)) |-> v]
<1>1. t \in Seq(S) /\ Len(t) = size - Len(s) /\ \A i \in 1..(size - Len(s)) : t[i] = v
  OBVIOUS
<1>2. Pad(s, size, v) = s \o t
  BY DEF Pad
<1> HIDE DEF t
<1>3. /\ s \o t \in Seq(S) /\ Len(s \o t) = Len(s) + Len(t)
      /\ \A i \in 1..(Len(s) + Len(t)) : (s \o t)[i] = IF i <= Len(s) THEN s[i] ELSE t[i - Len(s)]
  BY <1>1, ConcatProperties
<1>4. ASSUME NEW i \in 1..size
      PROVE  (s \o t)[i] = IF i <= Len(s) THEN s[i] ELSE v
  <2>1. i \in 1..(Len(s) + Len(t))
    BY <1>1
  <2>2. ~(i <= Len(s)) => i - Len(s) \in 1..(size - Len(s))
    OBVIOUS
  <2> QED
    BY <1>1, <1>3, <2>1, <2>2
<1> QED
  BY <1>1, <1>2, <1>3, <1>4

\* Cutting off the padding gives the sequence back, and cutting off a part of
\* it a padded sequence.
LEMMA PadTaken ==
  ASSUME NEW S, NEW s \in Seq(S), NEW v \in S, NEW size \in Nat, Len(s) <= size
  PROVE  /\ Take(Pad(s, size, v), Len(s)) = s
         /\ Pad(s, Len(s), v) = s
         /\ \A n \in Nat : n >= Len(s) =>
              /\ Len(s) <= Len(Take(Pad(s, size, v), n)) /\ Len(Take(Pad(s, size, v), n)) <= size
              /\ Len(Take(Pad(s, size, v), n)) <= n
              /\ Take(Pad(s, size, v), n) = Pad(s, Len(Take(Pad(s, size, v), n)), v)
<1> DEFINE p == Pad(s, size, v)
<1>1. /\ p \in Seq(S) /\ Len(p) = size
      /\ \A i \in 1..size : p[i] = (IF i <= Len(s) THEN s[i] ELSE v)
  BY PadLands
<1> HIDE DEF p
<1>2. ASSUME NEW n \in Nat, n >= Len(s)
      PROVE  /\ Len(s) <= Len(Take(p, n)) /\ Len(Take(p, n)) <= size /\ Len(Take(p, n)) <= n
             /\ Take(p, n) = Pad(s, Len(Take(p, n)), v)
  <2> DEFINE t == Take(p, n)
             m == Len(t)
  <2>1. /\ t \in Seq(S) /\ m = (IF n <= size THEN n ELSE size) /\ \A i \in 1..m : t[i] = p[i]
    BY <1>1, Taken
  <2>2. m \in Nat /\ Len(s) <= m /\ m <= size /\ m <= n
    BY <1>2, <2>1
  <2> HIDE DEF t, m
  <2>3. /\ Pad(s, m, v) \in Seq(S) /\ Len(Pad(s, m, v)) = m
        /\ \A i \in 1..m : Pad(s, m, v)[i] = (IF i <= Len(s) THEN s[i] ELSE v)
    <3>1. m \in Nat /\ Len(s) <= m
      BY <2>2
    <3> HIDE <1>1, <1>2, <2>1
    <3> QED
      BY <3>1, PadLands
  <2>4. \A i \in 1..m : t[i] = Pad(s, m, v)[i]
    BY <1>1, <2>1, <2>2, <2>3
  <2>5. Len(t) = m
    BY DEF m
  <2>6. t = Pad(s, m, v)
    BY <2>1, <2>3, <2>4, <2>5, SeqEqual
  <2> QED
    BY <2>2, <2>6 DEF t, m
<1>3. Pad(s, Len(s), v) = s
  <2>1. /\ Pad(s, Len(s), v) \in Seq(S) /\ Len(Pad(s, Len(s), v)) = Len(s)
        /\ \A i \in 1..Len(s) : Pad(s, Len(s), v)[i] = s[i]
    BY PadLands
  <2> QED
    BY <2>1, SeqEqual
<1>4. Take(p, Len(s)) = s
  <2>1. /\ Take(p, Len(s)) \in Seq(S) /\ Len(Take(p, Len(s))) = Len(s)
        /\ \A i \in 1..Len(s) : Take(p, Len(s))[i] = p[i]
    BY <1>1, Taken
  <2>2. \A i \in 1..Len(s) : Take(p, Len(s))[i] = s[i]
    BY <1>1, <2>1
  <2> QED
    BY <2>1, <2>2, SeqEqual
<1> QED
  BY <1>2, <1>3, <1>4 DEF p

-----------------------------------------------------------------------------
(* Sums of lengths, and the tokens they count                                *)

Cells(lens) == UNION {{i} \X (1..lens[i]) : i \in DOMAIN lens}

LEMMA CellsAre ==
  ASSUME NEW lens, NEW c
  PROVE  c \in Cells(lens) <=> \E i \in DOMAIN lens : \E k \in 1..lens[i] : c = <<i, k>>
BY DEF Cells

Begins(part, lens, n) == DOMAIN part = 1..n /\ \A i \in 1..n : part[i] = lens[i]
LEMMA CellsOf ==
  ASSUME NEW part, NEW lens, NEW n, Begins(part, lens, n), NEW c
  PROVE  c \in Cells(part) <=> \E i \in 1..n : \E k \in 1..lens[i] : c = <<i, k>>
<1>1. c \in Cells(part) <=> \E i \in DOMAIN part : \E k \in 1..part[i] : c = <<i, k>>
  BY CellsAre
<1>2. DOMAIN part = 1..n /\ \A i \in 1..n : part[i] = lens[i]
  BY DEF Begins
<1>3. ASSUME NEW i \in 1..n, NEW k \in 1..lens[i], c = <<i, k>>
      PROVE  c \in Cells(part)
  <2>1. i \in DOMAIN part /\ k \in 1..part[i]
    BY <1>2
  <2> QED
    BY <1>1, <1>3, <2>1
<1>4. ASSUME c \in Cells(part)
      PROVE  \E i \in 1..n : \E k \in 1..lens[i] : c = <<i, k>>
  <2>1. PICK i \in DOMAIN part : \E k \in 1..part[i] : c = <<i, k>>
    BY <1>1, <1>4
  <2>2. i \in 1..n /\ part[i] = lens[i]
    BY <1>2
  <2> QED
    BY <2>1, <2>2
<1> QED
  BY <1>3, <1>4

LEMMA CountTo ==
  ASSUME NEW n \in Nat
  PROVE  IsFiniteSet(1..n) /\ Cardinality(1..n) = n
<1>1. 1 \in Int /\ n \in Int
  OBVIOUS
<1>2. IsFiniteSet(1..n) /\ Cardinality(1..n) = IF 1 > n THEN 0 ELSE n - 1 + 1
  BY <1>1, FS_Interval
<1> QED
  BY <1>2

\* The rows before row i.
Before(lens, i) == Take(lens, i - 1)

LEMMA BeforeIs ==
  ASSUME NEW lens \in Seq(Nat), NEW i \in 1..(Len(lens) + 1)
  PROVE  /\ DOMAIN Before(lens, i) = 1..(i - 1)
         /\ \A x \in 1..(i - 1) : Before(lens, i)[x] = lens[x]
<1>1. i - 1 \in Nat /\ i - 1 <= Len(lens)
  OBVIOUS
<1>2. /\ Take(lens, i - 1) \in Seq(Nat) /\ Len(Take(lens, i - 1)) = i - 1
      /\ \A x \in 1..(i - 1) : Take(lens, i - 1)[x] = lens[x]
  BY <1>1, Taken
<1> QED
  BY <1>2 DEF Before

\* With row i, the tokens of the rows before it become more by its own.
LEMMA CellsGrow ==
  ASSUME NEW lens \in Seq(Nat), NEW i \in 1..Len(lens)
  PROVE  /\ Cells(Before(lens, i + 1)) = Cells(Before(lens, i)) \cup ({i} \X (1..lens[i]))
         /\ Cells(Before(lens, i)) \cap ({i} \X (1..lens[i])) = {}
<1>1. Begins(Before(lens, i), lens, i - 1) /\ Begins(Before(lens, i + 1), lens, i)
  <2>1. i \in 1..(Len(lens) + 1) /\ i + 1 \in 1..(Len(lens) + 1) /\ (i + 1) - 1 = i
    OBVIOUS
  <2>2. /\ DOMAIN Before(lens, i) = 1..(i - 1)
        /\ \A x \in 1..(i - 1) : Before(lens, i)[x] = lens[x]
    BY <2>1, BeforeIs
  <2>3. /\ DOMAIN Before(lens, i + 1) = 1..((i + 1) - 1)
        /\ \A x \in 1..((i + 1) - 1) : Before(lens, i + 1)[x] = lens[x]
    BY <2>1, BeforeIs
  <2> QED
    BY <2>1, <2>2, <2>3 DEF Begins
<1>2. ASSUME NEW c
      PROVE  c \in Cells(Before(lens, i + 1)) <=> c \in Cells(Before(lens, i)) \cup ({i} \X (1..lens[i]))
  <2>1. c \in Cells(Before(lens, i + 1)) <=> \E x \in 1..i : \E k \in 1..lens[x] : c = <<x, k>>
    BY <1>1, CellsOf
  <2>2. c \in Cells(Before(lens, i)) <=> \E x \in 1..(i - 1) : \E k \in 1..lens[x] : c = <<x, k>>
    <3> DEFINE n == i - 1
    <3>1. Begins(Before(lens, i), lens, n)
      BY <1>1
    <3> HIDE DEF n
    <3>2. c \in Cells(Before(lens, i)) <=> \E x \in 1..n : \E k \in 1..lens[x] : c = <<x, k>>
      BY <3>1, CellsOf
    <3> QED
      BY <3>2 DEF n
  <2>3. c \in {i} \X (1..lens[i]) <=> \E k \in 1..lens[i] : c = <<i, k>>
    OBVIOUS
  <2>4. \A x : x \in 1..i <=> x \in 1..(i - 1) \/ x = i
    OBVIOUS
  <2> QED
    BY <2>1, <2>2, <2>3, <2>4
<1>3. ASSUME NEW c \in Cells(Before(lens, i)), c \in {i} \X (1..lens[i])
      PROVE  FALSE
  <2>1. PICK x \in 1..(i - 1) : \E k \in 1..lens[x] : c = <<x, k>>
    <3>1. c \in Cells(Before(lens, i)) <=> \E x \in 1..(i - 1) : \E k \in 1..lens[x] : c = <<x, k>>
      BY <1>1, CellsOf
    <3> QED
      BY <3>1
  <2>2. c[1] = x /\ c[1] = i
    BY <1>3, <2>1
  <2> QED
    BY <2>2
<1> QED
  BY <1>2, <1>3

\* Where a row starts: nothing is before the first, and the next one starts
\* when it is through.
LEMMA CellsCount ==
  ASSUME NEW lens \in Seq(Nat)
  PROVE  \A i \in 1..(Len(lens) + 1) : IsFiniteSet(Cells(Before(lens, i)))
<1> DEFINE Bad == {i \in 1..(Len(lens) + 1) : ~IsFiniteSet(Cells(Before(lens, i)))}
<1>1. Bad \in SUBSET Nat
  OBVIOUS
<1>2. CASE Bad = {}
  BY <1>2
<1>3. CASE Bad # {}
  <2>1. PICK i \in Bad : \A y \in Bad : i <= y
    BY <1>1, <1>3, Smallest
  <2>2. CASE i = 1
    <3>1. DOMAIN Before(lens, 1) = {}
      <4>1. 1 \in 1..(Len(lens) + 1) /\ 1..(1 - 1) = {}
        OBVIOUS
      <4> QED
        BY <4>1, BeforeIs
    <3>2. Cells(Before(lens, 1)) = {}
      BY <3>1, CellsAre
    <3> QED
      BY <2>2, <3>2, FS_EmptySet
  <2>3. CASE i # 1
    <3>1. i - 1 \in 1..Len(lens) /\ i - 1 \in 1..(Len(lens) + 1) /\ (i - 1) + 1 = i /\ i - 1 < i
      BY <2>3
    <3>2. IsFiniteSet(Cells(Before(lens, i - 1)))
      BY <2>1, <3>1
    <3>3. IsFiniteSet({i - 1} \X (1..lens[i - 1]))
      <4>1. IsFiniteSet(1..lens[i - 1])
        BY <3>1, CountTo
      <4> QED
        BY <4>1, FS_Singleton, FS_Product
    <3>4. Cells(Before(lens, (i - 1) + 1)) = Cells(Before(lens, i - 1)) \cup ({i - 1} \X (1..lens[i - 1]))
      BY <3>1, CellsGrow
    <3>5. IsFiniteSet(Cells(Before(lens, i - 1)) \cup ({i - 1} \X (1..lens[i - 1])))
      BY <3>2, <3>3, FS_Union
    <3> QED
      BY <3>1, <3>4, <3>5
  <2> QED
    BY <2>2, <2>3
<1> QED
  BY <1>2, <1>3

LEMMA StartIs == ASSUME NEW lens, NEW i PROVE Start(lens, i) = Cardinality(Cells(Before(lens, i)))
BY DEF Start, Total, Cells, Before

\* The first row starts at nothing, each other one where the row before it
\* ends, and the last one ends at the sum.
LEMMA Starts ==
  ASSUME NEW lens \in Seq(Nat)
  PROVE  /\ \A i \in 1..(Len(lens) + 1) : Start(lens, i) \in Nat
         /\ Start(lens, 1) = 0
         /\ \A i \in 1..Len(lens) : Start(lens, i + 1) = Start(lens, i) + lens[i]
         /\ Start(lens, Len(lens) + 1) = Total(lens)
<1>1. \A i \in 1..(Len(lens) + 1) : Start(lens, i) \in Nat
  BY StartIs, CellsCount, FS_CardinalityType
<1>2. Start(lens, 1) = 0
  <2>1. DOMAIN Before(lens, 1) = {}
    <3>1. 1 \in 1..(Len(lens) + 1) /\ 1..(1 - 1) = {}
      OBVIOUS
    <3> QED
      BY <3>1, BeforeIs
  <2>2. Cells(Before(lens, 1)) = {}
    BY <2>1, CellsAre
  <2> QED
    BY <2>2, StartIs, FS_EmptySet
<1>3. ASSUME NEW i \in 1..Len(lens)
      PROVE  Start(lens, i + 1) = Start(lens, i) + lens[i]
  <2> DEFINE A == Cells(Before(lens, i))
             B == {i} \X (1..lens[i])
  <2>1. IsFiniteSet(A) /\ i \in 1..(Len(lens) + 1)
    BY CellsCount
  <2>2. IsFiniteSet(B) /\ Cardinality(B) = lens[i]
    <3>1. lens[i] \in Nat
      OBVIOUS
    <3>2. IsFiniteSet(1..lens[i]) /\ Cardinality(1..lens[i]) = lens[i]
      BY <3>1, CountTo
    <3>3. IsFiniteSet({i}) /\ Cardinality({i}) = 1
      BY FS_Singleton
    <3>4. IsFiniteSet({i} \X (1..lens[i])) /\ Cardinality({i} \X (1..lens[i])) = 1 * lens[i]
      BY <3>2, <3>3, FS_Product
    <3> QED
      BY <3>1, <3>4
  <2>3. Cells(Before(lens, i + 1)) = A \cup B /\ A \cap B = {}
    BY CellsGrow
  <2> HIDE DEF A, B
  <2>4. Cardinality(A \cup B) = Cardinality(A) + Cardinality(B) - Cardinality(A \cap B)
    BY <2>1, <2>2, FS_Union
  <2>5. Cardinality(A \cap B) = 0
    BY <2>3, FS_EmptySet
  <2>6. Cardinality(A) \in Nat /\ lens[i] \in Nat
    BY <2>1, FS_CardinalityType
  <2>7. Start(lens, i) = Cardinality(A) /\ Start(lens, i + 1) = Cardinality(A \cup B)
    BY <2>3, StartIs DEF A
  <2> QED
    BY <2>2, <2>4, <2>5, <2>6, <2>7
<1>4. Start(lens, Len(lens) + 1) = Total(lens)
  <2>1. Len(lens) + 1 - 1 = Len(lens) /\ Len(lens) >= Len(lens) /\ Len(lens) \in Nat
    OBVIOUS
  <2>2. Take(lens, Len(lens) + 1 - 1) = lens
    BY <2>1, Taken
  <2> QED
    BY <2>2 DEF Start
<1> QED
  BY <1>1, <1>2, <1>3, <1>4

\* Rows start in order.
LEMMA StartsInOrder ==
  ASSUME NEW lens \in Seq(Nat), NEW i \in 1..(Len(lens) + 1), NEW j \in i..(Len(lens) + 1)
  PROVE  Start(lens, i) <= Start(lens, j)
<1> DEFINE Bad == {x \in i..(Len(lens) + 1) : ~(Start(lens, i) <= Start(lens, x))}
<1>1. Bad \in SUBSET Nat
  OBVIOUS
<1>2. CASE Bad = {}
  BY <1>2
<1>3. CASE Bad # {}
  <2>1. PICK x \in Bad : \A y \in Bad : x <= y
    BY <1>1, <1>3, Smallest
  <2>2. x \in i..(Len(lens) + 1) /\ ~(Start(lens, i) <= Start(lens, x))
    BY <2>1
  <2>3. x # i
    <3>1. Start(lens, i) \in Nat
      BY Starts
    <3> QED
      BY <2>2, <3>1
  <2>4. x - 1 \in i..(Len(lens) + 1) /\ x - 1 \in 1..Len(lens) /\ (x - 1) + 1 = x /\ x - 1 < x
    BY <2>2, <2>3
  <2>5. Start(lens, i) <= Start(lens, x - 1)
    BY <2>1, <2>4
  <2>6. /\ Start(lens, x) = Start(lens, x - 1) + lens[x - 1] /\ lens[x - 1] \in Nat
        /\ Start(lens, x - 1) \in Nat /\ Start(lens, i) \in Nat
    <3>1. Start(lens, (x - 1) + 1) = Start(lens, x - 1) + lens[x - 1]
      BY <2>4, Starts
    <3>2. x - 1 \in 1..(Len(lens) + 1)
      BY <2>4
    <3>3. Start(lens, x - 1) \in Nat /\ Start(lens, i) \in Nat
      BY <3>2, Starts
    <3> QED
      BY <2>4, <3>1, <3>3
  <2> QED
    BY <2>2, <2>5, <2>6
<1> QED
  BY <1>2, <1>3

\* A place is in one row only.
LEMMA RowOf ==
  ASSUME NEW lens \in Seq(Nat), NEW j \in Nat, NEW i \in 1..Len(lens),
         Start(lens, i) < j, j <= Start(lens, i + 1)
  PROVE  RowAt(lens, j) = i
<1>1. DOMAIN lens = 1..Len(lens)
  OBVIOUS
<1>2. ASSUME NEW x \in 1..Len(lens), Start(lens, x) < j, j <= Start(lens, x + 1)
      PROVE  x = i
  <2>0. /\ Start(lens, i) \in Nat /\ Start(lens, x) \in Nat
        /\ Start(lens, i + 1) \in Nat /\ Start(lens, x + 1) \in Nat
    <3>1. /\ i \in 1..(Len(lens) + 1) /\ x \in 1..(Len(lens) + 1)
          /\ i + 1 \in 1..(Len(lens) + 1) /\ x + 1 \in 1..(Len(lens) + 1)
      OBVIOUS
    <3> QED
      BY <3>1, Starts
  <2>1. CASE x < i
    <3>1. x + 1 \in 1..(Len(lens) + 1) /\ i \in (x + 1)..(Len(lens) + 1)
      BY <2>1
    <3>2. Start(lens, x + 1) <= Start(lens, i)
      BY <3>1, StartsInOrder
    <3> QED
      BY <1>2, <2>0, <3>2
  <2>2. CASE i < x
    <3>1. i + 1 \in 1..(Len(lens) + 1) /\ x \in (i + 1)..(Len(lens) + 1)
      BY <2>2
    <3>2. Start(lens, i + 1) <= Start(lens, x)
      BY <3>1, StartsInOrder
    <3> QED
      BY <1>2, <2>0, <3>2
  <2> QED
    BY <2>1, <2>2
<1> QED
  BY <1>1, <1>2 DEF RowAt

\* Every place up to the sum is in a row.
LEMMA RowFound ==
  ASSUME NEW lens \in Seq(Nat), NEW j \in 1..Total(lens)
  PROVE  /\ RowAt(lens, j) \in 1..Len(lens)
         /\ Start(lens, RowAt(lens, j)) < j /\ j <= Start(lens, RowAt(lens, j) + 1)
<1> DEFINE Later == {i \in 1..(Len(lens) + 1) : j <= Start(lens, i)}
<1>1. Len(lens) + 1 \in Later
  BY Starts
<1>2. PICK i \in Later : \A y \in Later : i <= y
  <2>1. Later \in SUBSET Nat
    OBVIOUS
  <2> QED
    BY <1>1, <2>1, Smallest
<1>3. i # 1
  BY Starts
<1>4. i - 1 \in 1..Len(lens) /\ (i - 1) + 1 = i /\ i - 1 \in 1..(Len(lens) + 1) /\ i - 1 < i
  BY <1>3
<1>5. ~(j <= Start(lens, i - 1))
  BY <1>2, <1>4
<1>6. Start(lens, i - 1) < j /\ j <= Start(lens, (i - 1) + 1)
  <2>1. Start(lens, i - 1) \in Nat
    BY <1>4, Starts
  <2> QED
    BY <1>4, <1>5, <2>1
<1>7. RowAt(lens, j) = i - 1
  <2>1. j \in Nat
    OBVIOUS
  <2> QED
    BY <1>4, <1>6, <2>1, RowOf
<1> QED
  BY <1>4, <1>6, <1>7

\* The tokens of a rank: row after row, each with its tokens in order, and
\* none of them padding.
LEMMA Tokens ==
  ASSUME NEW lens \in Seq(Nat)
  PROVE  /\ Total(lens) \in Nat
         /\ TokensOf(lens) \in Seq(Pairs) /\ Len(TokensOf(lens)) = Total(lens)
         /\ \A j \in 1..Total(lens) : TokensOf(lens)[j] # PadToken
         /\ \A i \in 1..Len(lens), j \in Nat :
              Start(lens, i) < j /\ j <= Start(lens, i + 1) =>
                j \in 1..Total(lens) /\ TokensOf(lens)[j] = <<i, j - Start(lens, i)>>
<1>1. Total(lens) \in Nat
  <2>1. Len(lens) + 1 \in 1..(Len(lens) + 1)
    OBVIOUS
  <2> QED
    BY <2>1, Starts
<1>2. ASSUME NEW j \in 1..Total(lens)
      PROVE  <<RowAt(lens, j), j - Start(lens, RowAt(lens, j))>> \in Pairs
  <2>1. /\ RowAt(lens, j) \in 1..Len(lens) /\ Start(lens, RowAt(lens, j)) < j
    BY RowFound
  <2>2. Start(lens, RowAt(lens, j)) \in Nat
    BY <2>1, Starts
  <2> QED
    BY <1>1, <2>1, <2>2 DEF Pairs
<1>3. /\ TokensOf(lens) \in Seq(Pairs) /\ Len(TokensOf(lens)) = Total(lens)
      /\ \A j \in 1..Total(lens) : TokensOf(lens)[j] = <<RowAt(lens, j), j - Start(lens, RowAt(lens, j))>>
  <2> DEFINE t == [j \in 1..Total(lens) |-> <<RowAt(lens, j), j - Start(lens, RowAt(lens, j))>>]
  <2>1. t \in [1..Total(lens) -> Pairs]
    BY <1>2
  <2>2. TokensOf(lens) = t
    BY DEF TokensOf
  <2>3. \A j \in 1..Total(lens) : t[j] = <<RowAt(lens, j), j - Start(lens, RowAt(lens, j))>>
    OBVIOUS
  <2> HIDE DEF t
  <2>4. t \in Seq(Pairs) /\ Len(t) = Total(lens)
    BY <1>1, <2>1
  <2> QED
    BY <2>2, <2>3, <2>4
<1>4. ASSUME NEW j \in 1..Total(lens) PROVE TokensOf(lens)[j] # PadToken
  <2>1. RowAt(lens, j) # 0
    BY RowFound
  <2> QED
    BY <1>3, <2>1 DEF PadToken
<1>5. ASSUME NEW i \in 1..Len(lens), NEW j \in Nat, Start(lens, i) < j, j <= Start(lens, i + 1)
      PROVE  j \in 1..Total(lens) /\ TokensOf(lens)[j] = <<i, j - Start(lens, i)>>
  <2>1. RowAt(lens, j) = i
    BY <1>5, RowOf
  <2>2. Start(lens, i + 1) <= Total(lens) /\ Start(lens, i) \in Nat /\ Start(lens, i + 1) \in Nat
    <3>1. /\ i \in 1..(Len(lens) + 1) /\ i + 1 \in 1..(Len(lens) + 1)
          /\ Len(lens) + 1 \in (i + 1)..(Len(lens) + 1)
      OBVIOUS
    <3>2. Start(lens, i + 1) <= Start(lens, Len(lens) + 1)
      BY <3>1, StartsInOrder
    <3> QED
      BY <3>1, <3>2, Starts
  <2>3. j \in 1..Total(lens)
    BY <1>1, <1>5, <2>2
  <2> QED
    BY <1>3, <2>1, <2>3
<1> QED
  BY <1>1, <1>3, <1>4, <1>5

\* Rows of one length start at multiples of it.
LEMMA EvenStarts ==
  ASSUME NEW lens \in Seq(Nat), NEW w \in Nat, \A i \in 1..Len(lens) : lens[i] = w
  PROVE  /\ \A i \in 1..(Len(lens) + 1) : Start(lens, i) = (i - 1) * w
         /\ Total(lens) = Len(lens) * w
<1> DEFINE Bad == {i \in 1..(Len(lens) + 1) : Start(lens, i) # (i - 1) * w}
<1>1. Bad \in SUBSET Nat
  OBVIOUS
<1>2. CASE Bad = {}
  <2>1. \A i \in 1..(Len(lens) + 1) : Start(lens, i) = (i - 1) * w
    BY <1>2
  <2>2. Len(lens) + 1 \in 1..(Len(lens) + 1) /\ Len(lens) + 1 - 1 = Len(lens)
    OBVIOUS
  <2>3. Start(lens, Len(lens) + 1) = (Len(lens) + 1 - 1) * w
    BY <2>1, <2>2
  <2> QED
    BY <2>1, <2>2, <2>3, Starts
<1>3. CASE Bad # {}
  <2>1. PICK i \in Bad : \A y \in Bad : i <= y
    BY <1>1, <1>3, Smallest
  <2>2. i # 1
    <3>1. (1 - 1) * w = 0
      OBVIOUS
    <3> QED
      BY <2>1, <3>1, Starts
  <2>3. i - 1 \in 1..Len(lens) /\ i - 1 \in 1..(Len(lens) + 1) /\ (i - 1) + 1 = i /\ i - 1 < i /\ i \in Nat
    BY <2>1, <2>2
  <2>4. Start(lens, i - 1) = ((i - 1) - 1) * w
    BY <2>1, <2>3
  <2>5. Start(lens, (i - 1) + 1) = Start(lens, i - 1) + lens[i - 1]
    BY <2>3, Starts
  <2>6. Start(lens, i) = (i - 1 - 1) * w + w
    BY <2>3, <2>4, <2>5
  <2>7. (i - 1 - 1) * w + w = (i - 1) * w
    BY <2>3
  <2> QED
    BY <2>1, <2>6, <2>7
<1> QED
  BY <1>2, <1>3

-----------------------------------------------------------------------------
(* The invariant                                                             *)

Full(r) == ForwardsOf(work[r].mode, round)
RoundOK ==
  /\ work \in [Ranks -> Batches]
  /\ round.extend = ("EXTEND" \in Modes(work))
  /\ round.mixed = (server.spec /\ "EXTEND" \in Modes(work) /\ "DECODE" \in Modes(work))
  /\ round.graph \in BOOLEAN
\* What a rank has yet to run is the end of its round.
Suffix ==
  \A r \in Ranks :
    /\ Len(todo[r]) <= Len(Full(r))
    /\ \A i \in 1..Len(todo[r]) : todo[r][i] = Full(r)[Len(Full(r)) - Len(todo[r]) + i]

\* In a round, the same counts get the same answer.
AnswersAgree ==
  /\ \A c \in chosen : DOMAIN c = {"counts", "answer"} /\ c.answer \in {"MAX_LEN", "SUM_LEN"}
  /\ \A c, d \in chosen : c.counts = d.counts => c.answer = d.answer
\* The aligned counts of a forward that is not a later draft step.
Gathered(k) == [q \in Ranks |-> CeilAlign(GlobalNumTokens(q, k)[q], AttnTp)]
\* What such a forward pads them to.
Settled(k, c) ==
  \E d \in chosen : d.counts = Gathered(k) /\ c = PaddedCounts(PaddingMode(d.answer, d.counts), d.counts)
\* A draft step that shares the batch of the step before starts from what
\* that one padded.
Again(r) == Head(todo[r]) = "draft" /\ Len(todo[r]) < Len(Full(r))
Basis(r, al) ==
  IF Again(r) THEN Settled("draft", al) ELSE \E k \in Kinds : k = Head(todo[r]) /\ al = Gathered(k)
Geometry(r) ==
  \E c \in chosen :
    /\ Basis(r, c.counts)
    /\ fb[r].padding = PaddingMode(c.answer, c.counts)
    /\ fb[r].counts = PaddedCounts(fb[r].padding, c.counts)
    /\ fb[r].buffer = BufferLen(fb[r].padding, c.counts)

Fields == {"mode", "orig", "spec", "bs", "origBs", "origTokens", "ids", "pos", "loc", "hid", "hidBackup",
           "locBackup", "rows", "pool", "top", "ext", "sum", "real", "counts", "padding", "buffer"}
WidthOf(sp) == IF sp = NoSpec THEN 1 ELSE sp.width
\* The rows of a batch in an extend are its own or a made-up one that fills the
\* rank; in other forwards, as many of one width as the size holds.
Rowed(b, lens, size) ==
  \/ b.mode = "EXTEND" /\ b.ext = lens /\ b.bs = Len(lens) /\ Len(lens) > 0
  \/ b.mode = "EXTEND" /\ Len(lens) = 0 /\ b.ext = <<size>> /\ b.bs = 1
  \/ /\ b.mode # "EXTEND" /\ b.bs = size \div WidthOf(b.spec)
     /\ \A i \in 1..Len(lens) : lens[i] = WidthOf(b.spec)
     /\ b.ext = IF b.mode = "DRAFT_EXTEND_V2" THEN [i \in 1..b.bs |-> WidthOf(b.spec)] ELSE <<>>
\* A batch b of kind k with these rows, padded to a size.
Fills(b, k, lens, size) ==
  /\ DOMAIN b = Fields
  /\ size \in Nat /\ b.bs \in Nat /\ Total(lens) <= size /\ Len(lens) <= b.bs
  /\ b.spec = SpecOf(k) /\ b.origBs = Len(lens) /\ b.origTokens = Total(lens)
  /\ b.ids = Pad(TokensOf(lens), size, PadToken) /\ b.pos = b.ids /\ b.loc = b.ids
  /\ IsDraftInput(b.spec) => b.hid = b.ids
  /\ b.rows = Pad([i \in DOMAIN lens |-> i], b.bs, PadRow) /\ b.pool = b.rows
  /\ Rowed(b, lens, size)
  /\ k # "draft" => b.real = Total(lens)
  /\ k \notin {"target", "prefill"} => b.mode # "EXTEND"
  /\ k = "draft" => /\ b.hidBackup = TokensOf(lens) /\ b.orig = "NONE"
                    /\ b.top \in Seq(Nat) /\ Len(b.top) <= b.bs
Moded(b, mode) ==
  /\ mode = IF b.orig # "NONE" THEN b.orig ELSE b.mode
  /\ mode = "EXTEND" => b.mode = "EXTEND"
  /\ round.extend /\ b.padding = "MAX_LEN" => b.mode = "EXTEND"
Padded(r) ==
  \E k \in Kinds :
    /\ k = Head(todo[r])
    /\ Fills(fb[r], k, RowLens(r, k), fb[r].counts[r])
    /\ Moded(fb[r], ModeOf(r, k))
    /\ ModeOf(r, k) = "EXTEND" => fb[r].sum \in Nat /\ fb[r].sum >= Total(RowLens(r, k))

\* What a forward leaves behind.
Outputs(r, k, lens) ==
  LET rowwise == k = "prefill" \/ (k = "target" /\ work[r].mode = "EXTEND")
  IN /\ out[r].logits = IF rowwise THEN [i \in DOMAIN lens |-> <<i, lens[i]>>] ELSE TokensOf(lens)
     /\ k # "target" => out[r].hidden = out[r].logits
     /\ k = "target" /\ server.spec =>
          \E n \in Nat, c \in [Ranks -> Nat] :
            /\ Total(lens) <= n /\ n <= c[r] /\ Settled("target", c)
            /\ out[r].hidden = Pad(TokensOf(lens), n, PadToken) /\ n = Len(out[r].hidden)
Leftover(b, r, k, lens) ==
  /\ k \in {"target", "draft"} =>
       b.pos = TokensOf(lens) /\ b.rows = [i \in DOMAIN lens |-> i] /\ b.pool = b.rows
  /\ b.mode = ModeOf(r, k) /\ b.bs = Len(lens)
  /\ k = "draft" =>
       /\ DOMAIN b = Fields /\ b.spec = SpecOf(k) /\ b.ext = <<>> /\ b.orig = "NONE"
       /\ b.top \in Seq(Nat) /\ Len(b.top) <= b.counts[r] \div server.topk
       /\ Settled("draft", b.counts)
Kept(r) ==
  \E k \in Kinds :
    k = out[r].kind /\ Outputs(r, k, RowLens(r, k)) /\ Leftover(fb[r], r, k, RowLens(r, k))
RankOK(r) ==
  /\ pc[r] # "raised"
  /\ pc[r] \in {"inside", "computed"} => Geometry(r) /\ Padded(r)
  /\ pc[r] = "computed" => out[r] = Results(r)
  /\ pc[r] = "ready" /\ out[r].kind # "NONE" => Kept(r)
  /\ pc[r] = "ready" /\ todo[r] # <<>> =>
       out[r].kind = IF Len(todo[r]) < Len(Full(r)) THEN Full(r)[Len(Full(r)) - Len(todo[r])] ELSE "NONE"

Tables == DOMAIN fb = Ranks /\ DOMAIN out = Ranks
IInv == StepInv /\ Tables /\ RoundOK /\ Suffix /\ AnswersAgree /\ \A r \in Ranks : RankOK(r)

-----------------------------------------------------------------------------
(* Batches and their rows                                                    *)

LEMMA ServerTypes ==
  ASSUME server \in Servers
  PROVE  /\ server.spec \in BOOLEAN /\ server.topk \in Nat \ {0} /\ server.steps \in Nat \ {0}
         /\ server.width \in Nat \ {0} /\ AttnTp \in Nat \ {0} /\ DpSize \in Nat \ {0}
         /\ Ranks # {}
<1>1. 1 \in Ranks
  BY MlpSyncAssumption DEF MlpSyncAssumption, Ranks
<1> QED
  BY <1>1, MlpSyncAssumption DEF MlpSyncAssumption

Lens == {l \in Seq(Nat) : \A i \in 1..Len(l) : l[i] >= 1}
DecodeBatches == {Batch("DECODE", [i \in 1..n |-> 1], 0) : n \in 1..MaxRows}
ExtendBatches ==
  {Batch("EXTEND", l, p) : l \in UNION {[1..n -> 1..MaxExtend] : n \in 1..MaxRows}, p \in 0..MaxPrefix}
LEMMA BatchTypes ==
  ASSUME NEW b \in Batches
  PROVE  /\ b.mode \in {"IDLE", "DECODE", "EXTEND"} /\ b.prefix \in Nat /\ b.len \in Lens
         /\ b.mode = "IDLE" <=> b.len = <<>>
         /\ b.mode = "IDLE" <=> Len(b.len) = 0
         /\ b.mode = "DECODE" => \A i \in 1..Len(b.len) : b.len[i] = 1
<1>0. {MaxRows, MaxExtend, MaxPrefix} \subseteq Nat
  BY MlpSyncAssumption DEF MlpSyncAssumption
<1>1. CASE b = IdleBatch
  <2>1. b.mode = "IDLE" /\ b.prefix = 0 /\ b.len = <<>>
    BY <1>1 DEF IdleBatch, Batch
  <2>2. <<>> \in Lens /\ Len(<<>>) = 0
    BY DEF Lens
  <2> QED
    BY <2>1, <2>2
<1>2. CASE b \in DecodeBatches
  <2>1. PICK n \in 1..MaxRows : b = Batch("DECODE", [i \in 1..n |-> 1], 0)
    BY <1>2 DEF DecodeBatches
  <2> DEFINE l == [i \in 1..n |-> 1]
  <2>2. n \in Nat \ {0}
    BY <1>0
  <2>3. l \in Seq(Nat) /\ Len(l) = n /\ \A i \in 1..n : l[i] = 1
    BY <2>2
  <2>4. b.mode = "DECODE" /\ b.prefix = 0 /\ b.len = l
    BY <2>1 DEF Batch
  <2> HIDE DEF l
  <2>5. l \in Lens /\ l # <<>>
    BY <2>2, <2>3 DEF Lens
  <2> QED
    BY <2>2, <2>3, <2>4, <2>5
<1>3. CASE b \in ExtendBatches
  <2>1. PICK l \in UNION {[1..n -> 1..MaxExtend] : n \in 1..MaxRows}, p \in 0..MaxPrefix :
          b = Batch("EXTEND", l, p)
    BY <1>3 DEF ExtendBatches
  <2>2. PICK n \in 1..MaxRows : l \in [1..n -> 1..MaxExtend]
    BY <2>1
  <2>3. n \in Nat \ {0} /\ p \in Nat
    BY <1>0
  <2>4. l \in Seq(Nat) /\ Len(l) = n /\ \A i \in 1..n : l[i] >= 1
    BY <1>0, <2>2, <2>3
  <2>5. b.mode = "EXTEND" /\ b.prefix = p /\ b.len = l
    BY <2>1 DEF Batch
  <2>6. l \in Lens /\ l # <<>>
    BY <2>3, <2>4 DEF Lens
  <2> QED
    BY <2>3, <2>4, <2>5, <2>6
<1>4. Batches = {IdleBatch} \union DecodeBatches \union ExtendBatches
  BY DEF Batches, DecodeBatches, ExtendBatches
<1> QED
  BY <1>1, <1>2, <1>3, <1>4

\* Which forwards a rank runs in what round.
Meets(r, k) ==
  \/ ~server.spec /\ k = "target"
  \/ server.spec /\ round.extend /\ ~round.mixed /\ k \in {"target", "prefill"} /\ work[r].mode # "DECODE"
  \/ server.spec /\ ~round.extend /\ k \in {"draft", "verify", "extend"} /\ work[r].mode # "EXTEND"
  \/ server.spec /\ round.mixed /\ work[r].mode = "EXTEND" /\ k \in {"draft", "target", "prefill"}
  \/ server.spec /\ round.mixed /\ work[r].mode # "EXTEND" /\ k \in {"draft", "verify", "extend"}

LEMMA RoundTypes ==
  ASSUME server \in Servers, RoundOK
  PROVE  /\ round.extend \in BOOLEAN /\ round.mixed \in BOOLEAN /\ round.graph \in BOOLEAN
         /\ round.mixed => round.extend /\ server.spec
         /\ \A r \in Ranks :
              /\ work[r] \in Batches
              /\ ~round.extend => work[r].mode # "EXTEND"
              /\ server.spec /\ round.extend /\ ~round.mixed => work[r].mode # "DECODE"
<1>1. server.spec \in BOOLEAN
  BY ServerTypes
<1>2. ASSUME NEW r \in Ranks
      PROVE  /\ work[r] \in Batches
             /\ ~round.extend => work[r].mode # "EXTEND"
             /\ server.spec /\ round.extend /\ ~round.mixed => work[r].mode # "DECODE"
  <2>1. work[r].mode \in Modes(work)
    BY DEF Modes
  <2> QED
    BY <2>1 DEF RoundOK
<1> QED
  BY <1>1, <1>2 DEF RoundOK

\* The drafts come first, then one forward of the target and one more of the
\* draft model; each last one follows the target forward that it takes the
\* hidden states of.
LEMMA RoundOf ==
  ASSUME server \in Servers, RoundOK, NEW r \in Ranks
  PROVE  /\ Full(r) \in Seq(Kinds) /\ Len(Full(r)) \in Nat \ {0}
         /\ \A i \in 1..Len(Full(r)) :
              /\ Meets(r, Full(r)[i])
              /\ Full(r)[i] = "draft" <=> i < Len(Full(r)) - 1
              /\ Full(r)[i] \in {"prefill", "extend"} =>
                   /\ i > 1
                   /\ Full(r)[i - 1] = IF Full(r)[i] = "prefill" THEN "target" ELSE "verify"
<1>1. server.spec \in BOOLEAN /\ server.steps \in Nat \ {0}
  BY ServerTypes
<1>2. CASE ~server.spec
  <2>1. Full(r) = <<"target">>
    BY <1>2 DEF Full, ForwardsOf
  <2>2. Meets(r, "target")
    BY <1>2 DEF Meets
  <2>3. <<"target">> \in Seq(Kinds) /\ Len(<<"target">>) = 1 /\ <<"target">>[1] = "target"
    BY DEF Kinds
  <2>4. \A i \in 1..1 : i = 1
    OBVIOUS
  <2> QED
    BY <2>1, <2>2, <2>3, <2>4
<1>3. CASE server.spec /\ round.extend /\ ~round.mixed
  <2>1. Full(r) = <<"target", "prefill">>
    BY <1>3 DEF Full, ForwardsOf, PrefillBatch
  <2>2. Meets(r, "target") /\ Meets(r, "prefill")
    BY <1>3, RoundTypes DEF Meets
  <2>3. /\ <<"target", "prefill">> \in Seq(Kinds) /\ Len(<<"target", "prefill">>) = 2
        /\ <<"target", "prefill">>[1] = "target" /\ <<"target", "prefill">>[2] = "prefill"
    BY DEF Kinds
  <2>4. \A i \in 1..2 : i = 1 \/ i = 2
    OBVIOUS
  <2> QED
    BY <2>1, <2>2, <2>3, <2>4
<1>4. CASE server.spec /\ (round.mixed \/ ~round.extend)
  <2> DEFINE m == server.steps - 1
             d == Times("draft", m)
  <2>1. DraftForward = d /\ DraftForwardIdle = d
    BY <1>1, DraftCount DEF DraftForward, DraftForwardIdle
  <2>2. m \in Nat /\ d \in Seq(Kinds) /\ Len(d) = m /\ \A i \in 1..m : d[i] = "draft"
    <3>1. m \in Nat
      BY <1>1
    <3> HIDE DEF m
    <3> QED
      BY <3>1 DEF Times, Kinds
  <2> HIDE DEF d, m
  <2> DEFINE a == IF work[r].mode = "EXTEND" THEN "target" ELSE "verify"
             b == IF work[r].mode = "EXTEND" THEN "prefill" ELSE "extend"
  <2>3. /\ (a = "target" /\ b = "prefill") \/ (a = "verify" /\ b = "extend")
        /\ Full(r) = d \o <<a, b>>
        /\ a = "target" <=> work[r].mode = "EXTEND"
    <3>1. Full(r) = Coordinated(work[r].mode)
      BY <1>4 DEF Full, ForwardsOf
    <3>2. CASE work[r].mode = "EXTEND"
      <4>1. Full(r) = d \o <<"target", "prefill">>
        BY <2>1, <3>1, <3>2, Zenon DEF Coordinated, PrefillBatch
      <4> QED
        BY <3>2, <4>1
    <3>3. CASE work[r].mode # "EXTEND"
      <4>1. Full(r) = d \o <<"verify", "extend">>
        <5>1. Full(r) = (IF work[r].mode = "IDLE" THEN DraftForwardIdle ELSE DraftForward) \o <<"verify", "extend">>
          BY <3>1, <3>3, Zenon DEF Coordinated
        <5> QED
          BY <2>1, <5>1, Zenon
      <4> QED
        BY <3>3, <4>1
    <3> QED
      BY <3>2, <3>3
  <2> HIDE DEF a, b
  <2>4. <<a, b>> \in Seq(Kinds) /\ Len(<<a, b>>) = 2 /\ <<a, b>>[1] = a /\ <<a, b>>[2] = b
    BY <2>3 DEF Kinds
  <2>5. /\ Full(r) \in Seq(Kinds) /\ Len(Full(r)) = m + 2
        /\ \A i \in 1..(m + 2) : Full(r)[i] = IF i <= m THEN d[i] ELSE <<a, b>>[i - m]
    BY <2>2, <2>3, <2>4, ConcatProperties
  <2>6. ASSUME NEW i \in 1..(m + 2)
        PROVE  Full(r)[i] = IF i <= m THEN "draft" ELSE IF i = m + 1 THEN a ELSE b
    <3>1. i <= m => d[i] = "draft"
      BY <2>2
    <3>2. ~(i <= m) => IF i = m + 1 THEN i - m = 1 ELSE i - m = 2
      BY <2>2
    <3> QED
      BY <2>4, <2>5, <3>1, <3>2
  <2>7. Meets(r, "draft") /\ Meets(r, a) /\ Meets(r, b)
    BY <1>4, <2>3, RoundTypes DEF Meets
  <2>8. ASSUME NEW i \in 1..(m + 2)
        PROVE  /\ Meets(r, Full(r)[i])
               /\ Full(r)[i] = "draft" <=> i < m + 1
               /\ Full(r)[i] \in {"prefill", "extend"} =>
                    /\ i > 1
                    /\ Full(r)[i - 1] = IF Full(r)[i] = "prefill" THEN "target" ELSE "verify"
    <3>1. CASE i <= m
      BY <2>2, <2>6, <2>7, <3>1
    <3>2. CASE i = m + 1
      <4>1. Full(r)[i] = a /\ a # "draft" /\ a \notin {"prefill", "extend"}
        BY <2>2, <2>3, <2>6, <3>2
      <4> QED
        BY <2>2, <2>7, <3>2, <4>1
    <3>3. CASE i = m + 2
      <4>1. Full(r)[i] = b /\ b # "draft"
        BY <2>2, <2>3, <2>6, <3>3
      <4>2. i - 1 \in 1..(m + 2) /\ i - 1 = m + 1 /\ i > 1 /\ ~(i < m + 1)
        BY <2>2, <3>3
      <4>3. Full(r)[i - 1] = a
        BY <2>2, <2>6, <4>2
      <4> QED
        BY <2>3, <2>7, <4>1, <4>2, <4>3
    <3> QED
      BY <2>2, <3>1, <3>2, <3>3
  <2> QED
    BY <2>2, <2>5, <2>8
<1> QED
  BY <1>1, <1>2, <1>3, <1>4, RoundTypes

LEMMA SpecIs ==
  ASSUME server \in Servers, NEW k \in Kinds
  PROVE  /\ k = "target" => SpecOf(k) = NoSpec
         /\ k # "target" => SpecOf(k).type \in {"DRAFT", "VERIFY", "DRAFT_EXTEND"} /\ SpecOf(k) # NoSpec
         /\ k = "draft" => SpecOf(k).type = "DRAFT" /\ SpecOf(k).width = server.topk
         /\ k = "verify" => SpecOf(k).type = "VERIFY" /\ SpecOf(k).width = server.width
         /\ k = "extend" => SpecOf(k).type = "DRAFT_EXTEND" /\ SpecOf(k).width = server.width
         /\ k = "prefill" => SpecOf(k).type = "DRAFT_EXTEND" /\ SpecOf(k).width = 1
         /\ WidthOf(SpecOf(k)) \in Nat \ {0} /\ Scale(SpecOf(k)) = WidthOf(SpecOf(k))
         /\ k # "target" => WidthOf(SpecOf(k)) = SpecOf(k).width
         /\ IsDraftInput(SpecOf(k)) <=> k \in {"draft", "extend", "prefill"}
         /\ OnTarget(k) <=> k \in {"target", "verify"}
BY ServerTypes DEF Kinds, SpecOf, NoSpec, WidthOf, Scale, IsDraftInput, OnTarget

\* The rows of a forward: those of the batch, unless the rank idles, each with
\* its own tokens where it prefills and with the width of its kind elsewhere.
LEMMA RowsOf ==
  ASSUME server \in Servers, RoundOK, NEW r \in Ranks, NEW k \in Kinds
  PROVE  /\ RowLens(r, k) \in Lens
         /\ Idles(r, k) <=> Len(RowLens(r, k)) = 0
         /\ ~Idles(r, k) => /\ Len(RowLens(r, k)) = Len(work[r].len)
                            /\ k \in {"target", "prefill"} => RowLens(r, k) = work[r].len
         /\ k \notin {"target", "prefill"} =>
              \A i \in 1..Len(RowLens(r, k)) : RowLens(r, k)[i] = SpecOf(k).width
<1> DEFINE len == work[r].len
<1>1. /\ len \in Seq(Nat) /\ \A i \in 1..Len(len) : len[i] >= 1
      /\ work[r].mode = "IDLE" <=> Len(len) = 0
  BY RoundTypes, BatchTypes DEF Lens
<1> HIDE DEF len
<1>2. CASE Idles(r, k)
  <2>1. RowLens(r, k) = <<>>
    BY <1>2 DEF RowLens
  <2>2. <<>> \in Lens /\ Len(<<>>) = 0
    BY DEF Lens
  <2> QED
    BY <1>2, <2>1, <2>2
<1>3. CASE ~Idles(r, k) /\ k \in {"target", "prefill"}
  <2>1. RowLens(r, k) = [i \in DOMAIN len |-> len[i]]
    BY <1>3 DEF RowLens, len
  <2>2. [i \in DOMAIN len |-> len[i]] = len
    BY <1>1
  <2>3. Len(len) # 0
    BY <1>1, <1>3 DEF Idles
  <2> QED
    BY <1>1, <1>3, <2>1, <2>2, <2>3 DEF Lens, len
<1>4. CASE ~Idles(r, k) /\ k \notin {"target", "prefill"}
  <2> DEFINE w == SpecOf(k).width
             l == [i \in 1..Len(len) |-> w]
  <2>1. w \in Nat \ {0}
    BY <1>4, SpecIs, ServerTypes DEF Kinds
  <2>2. RowLens(r, k) = l
    BY <1>1, <1>4 DEF RowLens, len
  <2> HIDE DEF w
  <2>3. l \in Seq(Nat) /\ Len(l) = Len(len) /\ \A i \in 1..Len(l) : l[i] = w
    BY <1>1, <2>1
  <2>4. Len(len) # 0
    BY <1>1, <1>4 DEF Idles
  <2> HIDE DEF l
  <2>5. l \in Lens
    BY <2>1, <2>3 DEF Lens
  <2> QED
    BY <1>4, <2>2, <2>3, <2>4, <2>5 DEF w, len
<1> QED
  BY <1>2, <1>3, <1>4

\* Without rows there are no tokens.
LEMMA NoRows ==
  ASSUME NEW lens \in Seq(Nat), Len(lens) = 0
  PROVE  Total(lens) = 0
<1>1. Len(lens) + 1 = 1
  OBVIOUS
<1> QED
  BY <1>1, Starts

\* What the ranks gather for a forward is how many tokens each will run.
LEMMA CountsOwn ==
  ASSUME server \in Servers, RoundOK, NEW r \in Ranks, NEW q \in Ranks, NEW k \in Kinds, Meets(r, k)
  PROVE  GlobalNumTokens(q, k)[r] = Total(RowLens(r, k))
<1> DEFINE len == work[r].len
           lens == RowLens(r, k)
           n == Len(len)
<1>1. /\ len \in Seq(Nat) /\ n \in Nat /\ work[r].mode \in {"IDLE", "DECODE", "EXTEND"}
      /\ work[r].mode = "IDLE" <=> n = 0
      /\ work[r].mode = "DECODE" => \A i \in 1..n : len[i] = 1
  BY RoundTypes, BatchTypes DEF Lens
<1>2. /\ lens \in Seq(Nat)
      /\ Idles(r, k) <=> Len(lens) = 0
      /\ ~Idles(r, k) => /\ Len(lens) = n
                         /\ k \in {"target", "prefill"} => lens = len
      /\ k \notin {"target", "prefill"} => \A i \in 1..Len(lens) : lens[i] = SpecOf(k).width
  BY RowsOf DEF Lens
<1>3. /\ GlobalNumTokens(q, k)[r] = IF round.mixed THEN PlanCount(r, k) ELSE SyncCount(r) * Scale(SpecOf(k))
  BY DEF GlobalNumTokens
<1>4. SpecOf(k).width \in Nat /\ Scale(SpecOf(k)) \in Nat \ {0} /\ Scale(SpecOf(k)) = WidthOf(SpecOf(k))
  BY SpecIs, ServerTypes DEF Kinds, SpecOf, NoSpec
<1> HIDE DEF len, lens, n
<1>5. n = Len(len)
  BY DEF n
<1>6. Len(lens) = 0 => Total(lens) = 0
  BY <1>2, NoRows
<1>7. n = 0 => Total(len) = 0
  BY <1>1, <1>5, NoRows
<1>8. CASE Idles(r, k)
  <2>1. Total(lens) = 0
    BY <1>2, <1>6, <1>8
  <2>2. work[r].mode = "IDLE" \/ (k = "draft" /\ work[r].mode = "EXTEND")
    BY <1>8 DEF Idles
  <2>3. CASE round.mixed
    <3>1. work[r].mode # "DECODE" /\ (k # "draft" => Total(len) = 0)
      BY <1>1, <1>7, <2>2
    <3>2. PlanCount(r, k) = IF k = "draft" THEN 0 ELSE Total(len)
      BY <3>1 DEF PlanCount, len
    <3> QED
      BY <1>3, <2>1, <2>3, <3>1, <3>2 DEF lens
  <2>4. CASE ~round.mixed
    <3>1. work[r].mode = "IDLE"
      BY <2>2, <2>4, RoundTypes DEF Meets
    <3>2. SyncCount(r) = 0
      BY <1>1, <1>7, <3>1 DEF SyncCount, len, n
    <3>3. 0 * Scale(SpecOf(k)) = 0
      BY <1>4
    <3> QED
      BY <1>3, <2>1, <2>4, <3>2, <3>3 DEF lens
  <2> QED
    BY <2>3, <2>4
<1>9. CASE ~Idles(r, k) /\ k \in {"target", "prefill"}
  <2>1. lens = len /\ work[r].mode # "IDLE" /\ WidthOf(SpecOf(k)) = 1
    BY <1>2, <1>9, SpecIs DEF Idles, WidthOf
  <2>2. CASE round.mixed
    <3>1. work[r].mode = "EXTEND"
      BY <1>9, <2>2, RoundTypes DEF Meets
    <3>2. PlanCount(r, k) = Total(len)
      BY <1>9, <3>1 DEF PlanCount, len
    <3> QED
      BY <1>3, <2>1, <2>2, <3>2 DEF lens
  <2>3. CASE ~round.mixed
    <3>1. Total(len) \in Nat
      BY <1>1, Tokens
    <3>2. SyncCount(r) = Total(len)
      <4>1. CASE round.extend
        BY <4>1 DEF SyncCount, len
      <4>2. CASE ~round.extend
        <5>1. work[r].mode = "DECODE"
          BY <1>1, <2>1, <4>2, RoundTypes
        <5>2. Total(len) = Len(len) * 1
          BY <1>1, <1>5, <5>1, EvenStarts
        <5> QED
          BY <1>1, <1>5, <4>2, <5>2 DEF SyncCount, len
      <4> QED
        BY <4>1, <4>2
    <3>3. SyncCount(r) * Scale(SpecOf(k)) = Total(len)
      BY <1>4, <2>1, <3>1, <3>2
    <3> QED
      BY <1>3, <2>1, <2>3, <3>3 DEF lens
  <2> QED
    BY <2>2, <2>3
<1>10. CASE ~Idles(r, k) /\ k \notin {"target", "prefill"}
  <2>1. Total(lens) = n * SpecOf(k).width
    <3> DEFINE w == SpecOf(k).width
    <3>1. Len(lens) = n /\ \A i \in 1..Len(lens) : lens[i] = w
      BY <1>2, <1>10
    <3>2. w \in Nat
      BY <1>4
    <3> HIDE DEF w
    <3>3. Total(lens) = Len(lens) * w
      BY <1>2, <3>1, <3>2, EvenStarts
    <3> QED
      BY <3>1, <3>3 DEF w
  <2>2. work[r].mode = "DECODE"
    BY <1>1, <1>10, RoundTypes DEF Meets, Idles
  <2>3. CASE round.mixed
    <3>1. PlanCount(r, k) = n * (IF k = "draft" THEN server.topk ELSE server.width)
      BY <2>2 DEF PlanCount, len, n
    <3>2. SpecOf(k).width = IF k = "draft" THEN server.topk ELSE server.width
      BY <1>10, SpecIs DEF Kinds
    <3> QED
      BY <1>3, <2>1, <2>3, <3>1, <3>2 DEF lens
  <2>4. CASE ~round.mixed
    <3>1. ~round.extend
      BY <1>10, <2>4, RoundTypes DEF Meets
    <3>2. SyncCount(r) = n
      BY <3>1 DEF SyncCount, len, n
    <3>3. Scale(SpecOf(k)) = SpecOf(k).width
      BY <1>10, SpecIs
    <3> QED
      BY <1>3, <2>1, <2>4, <3>2, <3>3 DEF lens
  <2> QED
    BY <2>3, <2>4
<1> QED
  BY <1>8, <1>9, <1>10

-----------------------------------------------------------------------------
(* The counts that the ranks gather and pad                                  *)

\* Where a rank is in its round.
LEMMA Position ==
  ASSUME server \in Servers, RoundOK, TodoTypes, Suffix, NEW r \in Ranks, todo[r] # <<>>
  PROVE  /\ Head(todo[r]) \in Kinds /\ Meets(r, Head(todo[r]))
         /\ Head(todo[r]) = "draft" <=> Len(todo[r]) > 2
         /\ Len(todo[r]) \in 1..Len(Full(r)) /\ Len(Full(r)) \in Nat
         /\ Head(todo[r]) = todo[r][1]
         /\ Head(todo[r]) \in {"prefill", "extend"} =>
              /\ Len(todo[r]) < Len(Full(r))
              /\ Full(r)[Len(Full(r)) - Len(todo[r])] = IF Head(todo[r]) = "prefill" THEN "target" ELSE "verify"
         /\ Again(r) => Full(r)[Len(Full(r)) - Len(todo[r])] = "draft"
<1> DEFINE f == Full(r)
           n == Len(f)
           m == Len(todo[r])
           p == n - m + 1
<1>1. /\ todo[r] \in Seq(Kinds) /\ m \in Nat \ {0} /\ Head(todo[r]) = todo[r][1] /\ todo[r][1] \in Kinds
  BY DEF TodoTypes
<1>2. /\ n \in Nat \ {0}
      /\ \A i \in 1..n :
           /\ Meets(r, f[i])
           /\ f[i] = "draft" <=> i < n - 1
           /\ f[i] \in {"prefill", "extend"} =>
                i > 1 /\ f[i - 1] = IF f[i] = "prefill" THEN "target" ELSE "verify"
  BY RoundOf
<1>3. m <= n /\ todo[r][1] = f[n - m + 1]
  <2>1. 1 \in 1..Len(todo[r])
    BY <1>1
  <2> QED
    BY <2>1, Zenon DEF Suffix
<1>4. Again(r) <=> (Head(todo[r]) = "draft" /\ m < n)
  BY DEF Again
<1> HIDE DEF f, m, n
<1>5. p \in 1..n /\ p - 1 = n - m /\ (p < n - 1 <=> m > 2) /\ (p > 1 <=> m < n)
  BY <1>1, <1>2, <1>3
<1>6. ASSUME Again(r) PROVE f[n - m] = "draft"
  <2>1. m > 2 /\ m < n
    BY <1>1, <1>2, <1>3, <1>4, <1>5, <1>6
  <2>2. n - m \in 1..n /\ n - m < n - 1
    BY <1>1, <1>2, <2>1
  <2> QED
    BY <1>2, <2>2
<1>7. /\ Meets(r, f[p])
      /\ f[p] = "draft" <=> m > 2
      /\ f[p] \in {"prefill", "extend"} =>
           m < n /\ f[n - m] = IF f[p] = "prefill" THEN "target" ELSE "verify"
  BY <1>2, <1>5
<1>8. /\ Head(todo[r]) \in Kinds /\ Meets(r, Head(todo[r]))
      /\ Head(todo[r]) = "draft" <=> m > 2
      /\ m \in 1..n /\ n \in Nat
      /\ Head(todo[r]) = todo[r][1]
      /\ Head(todo[r]) \in {"prefill", "extend"} =>
           m < n /\ f[n - m] = IF Head(todo[r]) = "prefill" THEN "target" ELSE "verify"
  <2>1. Head(todo[r]) = f[p]
    BY <1>1, <1>3
  <2>2. m \in 1..n /\ n \in Nat
    BY <1>1, <1>2, <1>3
  <2> QED
    BY <1>1, <1>7, <2>1, <2>2
<1> QED
  BY <1>6, <1>8 DEF f, m, n

\* All rounds are as long.
LEMMA FullLengths ==
  ASSUME server \in Servers, RoundOK, NEW r \in Ranks, NEW q \in Ranks
  PROVE  Len(Full(r)) = Len(Full(q))
<1>1. round.extend \in BOOLEAN /\ round.mixed \in BOOLEAN
  BY RoundTypes
<1> QED
  BY <1>1, RoundShape DEF Full

LEMMA CountTypes ==
  ASSUME server \in Servers, RoundOK, NEW r \in Ranks, NEW k \in Kinds
  PROVE  GlobalNumTokens(r, k) \in [Ranks -> Nat]
<1> SUFFICES ASSUME NEW q \in Ranks
             PROVE  (IF round.mixed THEN PlanCount(q, k) ELSE SyncCount(q) * Scale(SpecOf(k))) \in Nat
  BY DEF GlobalNumTokens
<1> DEFINE n == Len(work[q].len)
           t == Total(work[q].len)
<1>1. n \in Nat /\ t \in Nat
  <2>1. work[q].len \in Seq(Nat)
    BY RoundTypes, BatchTypes DEF Lens
  <2> QED
    BY <2>1, Tokens
<1> HIDE DEF n, t
<1>2. server.topk \in Nat /\ server.width \in Nat /\ Scale(SpecOf(k)) \in Nat
  BY SpecIs, ServerTypes
<1>3. SyncCount(q) \in Nat
  BY <1>1 DEF SyncCount, n, t
<1>4. SyncCount(q) * Scale(SpecOf(k)) \in Nat
  BY <1>2, <1>3
<1>5. PlanCount(q, k) \in Nat
  <2>1. n * server.topk \in Nat /\ n * server.width \in Nat
    BY <1>1, <1>2
  <2> QED
    BY <1>1, <2>1 DEF PlanCount, n, t
<1> QED
  BY <1>4, <1>5

\* Ranks that meet in a forward gather the same counts, though one may verify
\* where another prefills.
LEMMA SameCounts ==
  ASSUME server \in Servers, RoundOK, NEW r \in Ranks, NEW q \in Ranks, NEW k \in Kinds, NEW m \in Kinds,
         Meets(r, k), Meets(q, m), k = "draft" <=> m = "draft"
  PROVE  GlobalNumTokens(r, k) = GlobalNumTokens(q, m)
<1>1. CASE round.mixed
  <2>1. \A x \in Ranks : PlanCount(x, k) = PlanCount(x, m)
    BY DEF PlanCount
  <2> QED
    BY <1>1, <2>1 DEF GlobalNumTokens
<1>2. CASE ~round.mixed
  <2>1. Scale(SpecOf(k)) = Scale(SpecOf(m))
    <3>1. \/ k = m
          \/ k \in {"target", "prefill"} /\ m \in {"target", "prefill"}
          \/ k \in {"verify", "extend"} /\ m \in {"verify", "extend"}
      BY <1>2 DEF Meets
    <3> QED
      BY <3>1, SpecIs DEF WidthOf
  <2> QED
    BY <1>2, <2>1 DEF GlobalNumTokens
<1> QED
  BY <1>1, <1>2

\* The widest count is one of the counts.
LEMMA WidestIs ==
  ASSUME server \in Servers, NEW c \in [Ranks -> Nat]
  PROVE  /\ Widest(c) \in Nat
         /\ \E q \in Ranks : Widest(c) = c[q]
         /\ \A q \in Ranks : c[q] <= Widest(c)
<1> DEFINE Most(q, i) == q <= i /\ \A p \in 1..i : c[p] <= c[q]
           Bad == {i \in Ranks : ~ \E q \in Ranks : Most(q, i)}
<1>1. DpSize \in Nat \ {0} /\ Ranks = 1..DpSize
  BY ServerTypes DEF Ranks
<1>2. Bad = {}
  <2> SUFFICES ASSUME Bad # {} PROVE FALSE
    OBVIOUS
  <2>1. PICK i \in Bad : \A y \in Bad : i <= y
    <3>1. Bad \in SUBSET Nat
      BY <1>1
    <3> QED
      BY <3>1, Smallest
  <2>2. CASE i = 1
    <3>1. Most(1, 1)
      BY <1>1
    <3> QED
      BY <1>1, <2>1, <2>2, <3>1
  <2>3. CASE i # 1
    <3>1. i - 1 \in Ranks /\ i - 1 < i /\ i \in Nat
      BY <1>1, <2>1, <2>3
    <3>2. PICK q \in Ranks : Most(q, i - 1)
      <4>1. i - 1 \notin Bad
        <5> HIDE DEF Bad
        <5> QED
          BY <2>1, <3>1
      <4> QED
        BY <3>1, <4>1
    <3>3. \A p \in 1..i : p \in 1..(i - 1) \/ p = i
      BY <1>1, <2>1
    <3>4. Most(IF c[i] <= c[q] THEN q ELSE i, i)
      BY <1>1, <2>1, <3>2, <3>3
    <3> QED
      BY <2>1, <3>4
  <2> QED
    BY <2>2, <2>3
<1>3. PICK q \in Ranks : \A p \in Ranks : c[p] <= c[q]
  <2>1. DpSize \in Ranks
    BY <1>1
  <2> QED
    BY <1>1, <1>2, <2>1
<1>4. \E x \in {c[p] : p \in Ranks} : \A y \in {c[p] : p \in Ranks} : x >= y
  BY <1>3
<1>5. /\ Widest(c) \in {c[p] : p \in Ranks}
      /\ \A y \in {c[p] : p \in Ranks} : Widest(c) >= y
  BY <1>4 DEF Widest, Max
<1> QED
  BY <1>5

\* Counts that attention-TP ranks can split evenly, which need no more rounding.
Even(c) == c \in [Ranks -> Nat] /\ \A q \in Ranks : c[q] % AttnTp = 0 /\ CeilAlign(c[q], AttnTp) = c[q]

\* Padding keeps them so, cuts none, leaves the widest one, and makes a buffer
\* of exactly the lengths of all ranks.
LEMMA PaddedEven ==
  ASSUME server \in Servers, NEW c, Even(c), NEW mode
  PROVE  /\ Even(PaddedCounts(mode, c))
         /\ \A q \in Ranks : c[q] <= PaddedCounts(mode, c)[q]
         /\ Widest(PaddedCounts(mode, c)) = Widest(c)
         /\ BufferLen(mode, c) = Total(PaddedCounts(mode, c))
<1> DEFINE w == Widest(c)
           d == [q \in Ranks |-> w]
<1>0. c \in [Ranks -> Nat]
  BY DEF Even
<1>1. /\ w \in Nat
      /\ \E q \in Ranks : w = c[q]
      /\ \A q \in Ranks : c[q] <= w
  BY <1>0, WidestIs
<1>2. CASE mode # "MAX_LEN"
  <2>1. \A q \in Ranks : c[q] <= c[q]
    BY <1>0
  <2>2. PaddedCounts(mode, c) = c /\ BufferLen(mode, c) = Total(c)
    BY <1>2 DEF PaddedCounts, BufferLen
  <2> QED
    BY <2>1, <2>2
<1>3. CASE mode = "MAX_LEN"
  <2>1. PaddedCounts(mode, c) = d /\ BufferLen(mode, c) = w * DpSize
    BY <1>3 DEF PaddedCounts, BufferLen
  <2>2. w % AttnTp = 0 /\ CeilAlign(w, AttnTp) = w
    BY <1>1 DEF Even
  <2> HIDE DEF w
  <2>3. d \in [Ranks -> Nat] /\ \A q \in Ranks : d[q] = w
    BY <1>1
  <2>4. Ranks # {} /\ DpSize \in Nat
    BY ServerTypes
  <2> HIDE DEF d
  <2>5. Even(d)
    BY <2>2, <2>3 DEF Even
  <2>6. Widest(d) = w
    <3>1. \E q \in Ranks : Widest(d) = d[q]
      BY <2>3, WidestIs
    <3> QED
      BY <2>3, <3>1
  <2>7. Total(d) = w * DpSize
    <3>1. d \in Seq(Nat) /\ Len(d) = DpSize /\ \A i \in 1..Len(d) : d[i] = w
      BY <2>3, <2>4 DEF Ranks
    <3>2. Total(d) = Len(d) * w
      BY <1>1, <3>1, EvenStarts
    <3> QED
      BY <1>1, <2>4, <3>1, <3>2
  <2>8. \A q \in Ranks : c[q] <= d[q]
    BY <1>1, <2>3 DEF w
  <2> QED
    BY <2>1, <2>5, <2>6, <2>7, <2>8 DEF w
<1> QED
  BY <1>2, <1>3

LEMMA GatheredEven ==
  ASSUME server \in Servers, RoundOK, NEW k \in Kinds
  PROVE  /\ Even(Gathered(k))
         /\ \A r \in Ranks : Meets(r, k) =>
              /\ Total(RowLens(r, k)) <= Gathered(k)[r]
              /\ Gathered(k) = [q \in Ranks |-> CeilAlign(GlobalNumTokens(r, k)[q], AttnTp)]
<1>0. AttnTp \in Nat \ {0}
  BY ServerTypes
<1>1. \A q \in Ranks : GlobalNumTokens(q, k)[q] \in Nat
  BY CountTypes
<1>2. \A q \in Ranks :
        /\ Gathered(k)[q] = CeilAlign(GlobalNumTokens(q, k)[q], AttnTp)
        /\ CeilAlign(GlobalNumTokens(q, k)[q], AttnTp) \in Nat
        /\ GlobalNumTokens(q, k)[q] <= CeilAlign(GlobalNumTokens(q, k)[q], AttnTp)
        /\ CeilAlign(GlobalNumTokens(q, k)[q], AttnTp) % AttnTp = 0
        /\ CeilAlign(CeilAlign(GlobalNumTokens(q, k)[q], AttnTp), AttnTp)
             = CeilAlign(GlobalNumTokens(q, k)[q], AttnTp)
  BY <1>0, <1>1, Ceiled DEF Gathered
<1>3. Even(Gathered(k))
  <2>1. Gathered(k) \in [Ranks -> Nat]
    BY <1>2 DEF Gathered
  <2> QED
    BY <1>2, <2>1 DEF Even
<1>4. ASSUME NEW r \in Ranks, Meets(r, k)
      PROVE  /\ Total(RowLens(r, k)) <= Gathered(k)[r]
             /\ Gathered(k) = [q \in Ranks |-> CeilAlign(GlobalNumTokens(r, k)[q], AttnTp)]
  <2>1. Total(RowLens(r, k)) <= Gathered(k)[r]
    BY <1>2, <1>4, CountsOwn
  <2>2. \A q \in Ranks : GlobalNumTokens(q, k)[q] = GlobalNumTokens(r, k)[q]
    <3>1. \A q \in Ranks : GlobalNumTokens(q, k)[q] = GlobalNumTokens(r, k)[q]
      BY DEF GlobalNumTokens
    <3> QED
      BY <3>1
  <2> QED
    BY <2>1, <2>2 DEF Gathered
<1> QED
  BY <1>3, <1>4

\* What a kind of forward pads to is the same wherever it is found.
LEMMA SettledOnce ==
  ASSUME AnswersAgree, NEW k, NEW c, NEW d, Settled(k, c), Settled(k, d)
  PROVE  c = d
<1>1. PICK x \in chosen : x.counts = Gathered(k) /\ c = PaddedCounts(PaddingMode(x.answer, x.counts), x.counts)
  BY DEF Settled
<1>2. PICK y \in chosen : y.counts = Gathered(k) /\ d = PaddedCounts(PaddingMode(y.answer, y.counts), y.counts)
  BY DEF Settled
<1>3. x.answer = y.answer
  BY <1>1, <1>2 DEF AnswersAgree
<1> QED
  BY <1>1, <1>2, <1>3

LEMMA SettledEven ==
  ASSUME server \in Servers, RoundOK, NEW k \in Kinds, NEW c, Settled(k, c)
  PROVE  Even(c) /\ \A q \in Ranks : Gathered(k)[q] <= c[q]
<1>1. PICK x \in chosen : x.counts = Gathered(k) /\ c = PaddedCounts(PaddingMode(x.answer, x.counts), x.counts)
  BY DEF Settled
<1>2. Even(Gathered(k))
  BY GatheredEven
<1> QED
  BY <1>1, <1>2, PaddedEven

LEMMA BasisEven ==
  ASSUME server \in Servers, RoundOK, TodoTypes, Suffix, NEW r \in Ranks, todo[r] # <<>>,
         NEW c, Basis(r, c)
  PROVE  Even(c) /\ Total(RowLens(r, Head(todo[r]))) <= c[r]
<1> DEFINE k == Head(todo[r])
<1>1. k \in Kinds /\ Meets(r, k)
  BY Position
<1>2. Even(Gathered(k)) /\ Total(RowLens(r, k)) <= Gathered(k)[r]
  BY <1>1, GatheredEven
<1>3. CASE Again(r)
  <2>1. k = "draft" /\ Settled(k, c)
    BY <1>3 DEF Again, Basis
  <2>2. Even(c) /\ Gathered(k)[r] <= c[r]
    BY <1>1, <2>1, SettledEven
  <2>3. Total(RowLens(r, k)) \in Nat
    BY <1>1, RowsOf, Tokens DEF Lens
  <2>4. c[r] \in Nat /\ Gathered(k)[r] \in Nat
    BY <1>2, <2>2 DEF Even
  <2> QED
    BY <1>2, <2>2, <2>3, <2>4
<1>4. CASE ~Again(r)
  BY <1>2, <1>4 DEF Basis
<1> QED
  BY <1>3, <1>4

\* A batch that went through the padding has the geometry of its counts.
LEMMA GeometryIs ==
  ASSUME server \in Servers, RoundOK, TodoTypes, Suffix, NEW r \in Ranks, todo[r] # <<>>, Geometry(r)
  PROVE  /\ Even(fb[r].counts) /\ fb[r].counts[r] \in Nat
         /\ Total(RowLens(r, Head(todo[r]))) <= fb[r].counts[r]
         /\ fb[r].buffer = Total(fb[r].counts)
         /\ fb[r].padding = "MAX_LEN" => \A q \in Ranks : fb[r].counts[q] = fb[r].counts[r]
         /\ PrefillGraph(fb[r].counts) /\ ~round.mixed => fb[r].padding = "MAX_LEN"
<1> DEFINE t == Total(RowLens(r, Head(todo[r])))
<1>1. PICK c \in chosen :
        /\ Basis(r, c.counts)
        /\ fb[r].padding = PaddingMode(c.answer, c.counts)
        /\ fb[r].counts = PaddedCounts(fb[r].padding, c.counts)
        /\ fb[r].buffer = BufferLen(fb[r].padding, c.counts)
  BY DEF Geometry
<1>2. Even(c.counts) /\ t <= c.counts[r]
  BY <1>1, BasisEven
<1>3. /\ Even(fb[r].counts)
      /\ c.counts[r] <= fb[r].counts[r]
      /\ Widest(fb[r].counts) = Widest(c.counts)
      /\ fb[r].buffer = Total(fb[r].counts)
  BY <1>1, <1>2, PaddedEven
<1>4. t <= fb[r].counts[r] /\ fb[r].counts[r] \in Nat
  <2>1. t \in Nat
    BY Position, RowsOf, Tokens DEF Lens
  <2>2. c.counts[r] \in Nat /\ fb[r].counts[r] \in Nat
    BY <1>2, <1>3 DEF Even
  <2> QED
    BY <1>2, <1>3, <2>1, <2>2
<1>5. fb[r].padding = "MAX_LEN" => \A q \in Ranks : fb[r].counts[q] = fb[r].counts[r]
  BY <1>1 DEF PaddedCounts
<1>6. ASSUME PrefillGraph(fb[r].counts), ~round.mixed
      PROVE  fb[r].padding = "MAX_LEN"
  <2>1. PrefillGraph(c.counts)
    BY <1>3, <1>6 DEF PrefillGraph
  <2> QED
    BY <1>1, <1>6, <2>1 DEF PaddingMode
<1> QED
  BY <1>3, <1>4, <1>5, <1>6

\* Two ranks that are as far in the round reckon with the same counts.
LEMMA GeometriesMeet ==
  ASSUME IInv, NEW r \in Ranks, NEW q \in Ranks, todo[r] # <<>>, todo[q] # <<>>,
         Len(todo[r]) = Len(todo[q]), Geometry(r), Geometry(q)
  PROVE  /\ fb[r].counts = fb[q].counts
         /\ fb[r].padding = fb[q].padding /\ fb[r].buffer = fb[q].buffer
<1> DEFINE k == Head(todo[r])
           m == Head(todo[q])
<1>0. server \in Servers /\ RoundOK /\ TodoTypes /\ Suffix /\ AnswersAgree
  BY DEF IInv, StepInv
<1>1. /\ k \in Kinds /\ Meets(r, k) /\ m \in Kinds /\ Meets(q, m)
      /\ k = "draft" <=> m = "draft"
  BY <1>0, Position
<1>2. Again(r) <=> Again(q)
  BY <1>0, <1>1, FullLengths DEF Again
<1>3. PICK c \in chosen :
        /\ Basis(r, c.counts)
        /\ fb[r].padding = PaddingMode(c.answer, c.counts)
        /\ fb[r].counts = PaddedCounts(fb[r].padding, c.counts)
        /\ fb[r].buffer = BufferLen(fb[r].padding, c.counts)
  BY DEF Geometry
<1>4. PICK d \in chosen :
        /\ Basis(q, d.counts)
        /\ fb[q].padding = PaddingMode(d.answer, d.counts)
        /\ fb[q].counts = PaddedCounts(fb[q].padding, d.counts)
        /\ fb[q].buffer = BufferLen(fb[q].padding, d.counts)
  BY DEF Geometry
<1>5. c.counts = d.counts
  <2>1. CASE Again(r)
    <3>1. Settled("draft", c.counts) /\ Settled("draft", d.counts)
      BY <1>2, <1>3, <1>4, <2>1 DEF Basis
    <3> QED
      BY <1>0, <3>1, SettledOnce
  <2>2. CASE ~Again(r)
    <3>1. c.counts = Gathered(k) /\ d.counts = Gathered(m)
      BY <1>2, <1>3, <1>4, <2>2 DEF Basis
    <3>2. GlobalNumTokens(r, k) = GlobalNumTokens(q, m)
      BY <1>0, <1>1, SameCounts
    <3>3. /\ Gathered(k) = [x \in Ranks |-> CeilAlign(GlobalNumTokens(r, k)[x], AttnTp)]
          /\ Gathered(m) = [x \in Ranks |-> CeilAlign(GlobalNumTokens(q, m)[x], AttnTp)]
      BY <1>0, <1>1, GatheredEven
    <3> QED
      BY <3>1, <3>2, <3>3
  <2> QED
    BY <2>1, <2>2
<1>6. c.answer = d.answer
  BY <1>0, <1>5 DEF AnswersAgree
<1> QED
  BY <1>3, <1>4, <1>5, <1>6

LEMMA PadsNat ==
  ASSUME NEW s \in Seq(Nat), NEW n \in Nat, Len(s) <= n, NEW v \in Nat
  PROVE  /\ Pad(s, n, v) \in Seq(Nat) /\ Len(Pad(s, n, v)) = n
         /\ \A i \in 1..n : Pad(s, n, v)[i] = (IF i <= Len(s) THEN s[i] ELSE v)
         /\ n = Len(s) => Pad(s, n, v) = s
<1>1. PICK R : R = Nat
  OBVIOUS
<1>2. s \in Seq(R) /\ v \in R
  BY <1>1
<1>3. /\ Pad(s, n, v) \in Seq(R) /\ Len(Pad(s, n, v)) = n
      /\ \A i \in 1..n : Pad(s, n, v)[i] = (IF i <= Len(s) THEN s[i] ELSE v)
  <2> HIDE <1>1
  <2> QED
    BY <1>2, PadLands
<1>4. ASSUME n = Len(s) PROVE Pad(s, n, v) = s
  <2>1. \A i \in 1..Len(s) : Pad(s, n, v)[i] = s[i]
    BY <1>3, <1>4
  <2> QED
    BY <1>2, <1>3, <1>4, <2>1, SeqEqual
<1> QED
  BY <1>1, <1>3, <1>4

LEMMA PadsRows ==
  ASSUME NEW s \in Seq(Nat), NEW n \in Nat, Len(s) <= n
  PROVE  /\ Pad(s, n, PadRow) \in Seq(Nat) /\ Len(Pad(s, n, PadRow)) = n
         /\ \A i \in 1..n : Pad(s, n, PadRow)[i] = (IF i <= Len(s) THEN s[i] ELSE PadRow)
         /\ n = Len(s) => Pad(s, n, PadRow) = s
<1>1. PICK v \in Nat : v = PadRow
  BY DEF PadRow
<1>2. /\ Pad(s, n, v) \in Seq(Nat) /\ Len(Pad(s, n, v)) = n
      /\ \A i \in 1..n : Pad(s, n, v)[i] = (IF i <= Len(s) THEN s[i] ELSE v)
      /\ n = Len(s) => Pad(s, n, v) = s
  BY PadsNat
<1> QED
  BY <1>1, <1>2

\* One row that needs no padding, and one made of padding.
LEMMA PadsOne ==
  ASSUME NEW s \in Seq(Nat), NEW v \in Nat
  PROVE  /\ Len(s) = 1 => Pad(s, 1, v) = s
         /\ Len(s) = 0 => Pad(s, 1, v) = <<v>>
<1>1. PICK n \in Nat : n = 1
  OBVIOUS
<1>2. ASSUME Len(s) = 1 PROVE Pad(s, 1, v) = s
  <2>1. Len(s) <= n /\ n = Len(s)
    BY <1>1, <1>2
  <2>2. Pad(s, n, v) = s
    BY <2>1, PadsNat
  <2> QED
    BY <1>1, <2>2
<1>3. ASSUME Len(s) = 0 PROVE Pad(s, 1, v) = <<v>>
  <2>1. Len(s) <= n
    BY <1>1, <1>3
  <2>2. /\ Pad(s, n, v) \in Seq(Nat) /\ Len(Pad(s, n, v)) = n
        /\ \A i \in 1..n : Pad(s, n, v)[i] = (IF i <= Len(s) THEN s[i] ELSE v)
    <3> HIDE <1>1
    <3> QED
      BY <2>1, PadsNat
  <2>3. Pad(s, n, v)[1] = v
    BY <1>1, <1>3, <2>2
  <2> DEFINE p == Pad(s, n, v)
  <2>4. p \in Seq(Nat) /\ Len(p) = 1 /\ p[1] = v
    BY <1>1, <2>2, <2>3
  <2> HIDE DEF p
  <2>5. <<v>> \in Seq(Nat) /\ Len(<<v>>) = 1 /\ \A i \in 1..1 : p[i] = <<v>>[i]
    BY <2>4
  <2>6. p = <<v>>
    BY <2>4, <2>5, SeqEqual
  <2> QED
    BY <1>1, <2>6 DEF p
<1> QED
  BY <1>2, <1>3

\* How long the tensors of a padded batch are.
LEMMA FilledLengths ==
  ASSUME NEW b, NEW k, NEW lens \in Seq(Nat), NEW size, Fills(b, k, lens, size)
  PROVE  /\ b.ids \in Seq(Pairs) /\ Len(b.ids) = size
         /\ b.pos = b.ids /\ b.loc = b.ids
         /\ \A j \in 1..size : b.ids[j] = (IF j <= Total(lens) THEN TokensOf(lens)[j] ELSE PadToken)
         /\ b.rows = b.pool /\ b.pool \in Seq(Nat) /\ Len(b.pool) = b.bs
         /\ \A i \in 1..b.bs : b.pool[i] = (IF i <= Len(lens) THEN i ELSE PadRow)
<1> DEFINE own == TokensOf(lens)
           ids == [i \in DOMAIN lens |-> i]
<1>1. own \in Seq(Pairs) /\ Len(own) = Total(lens) /\ Total(lens) \in Nat
  BY Tokens
<1>2. size \in Nat /\ b.bs \in Nat /\ Total(lens) <= size /\ Len(lens) <= b.bs
  BY DEF Fills
<1>3. PadToken \in Pairs /\ PadRow \in Nat
  BY DEF Pairs, PadToken, PadRow
<1>4. b.ids = Pad(own, size, PadToken) /\ b.pos = b.ids /\ b.loc = b.ids
  BY DEF Fills
<1>5. b.rows = Pad(ids, b.bs, PadRow) /\ b.pool = b.rows
  BY DEF Fills
<1>6. ids \in Seq(Nat) /\ Len(ids) = Len(lens) /\ \A i \in 1..Len(lens) : ids[i] = i
  OBVIOUS
<1> HIDE DEF own, ids
<1>7. /\ Pad(own, size, PadToken) \in Seq(Pairs) /\ Len(Pad(own, size, PadToken)) = size
      /\ \A i \in 1..size : Pad(own, size, PadToken)[i] = (IF i <= Len(own) THEN own[i] ELSE PadToken)
  BY <1>1, <1>2, <1>3, PadLands
<1>8. /\ Pad(ids, b.bs, PadRow) \in Seq(Nat) /\ Len(Pad(ids, b.bs, PadRow)) = b.bs
      /\ \A i \in 1..b.bs : Pad(ids, b.bs, PadRow)[i] = (IF i <= Len(ids) THEN ids[i] ELSE PadRow)
  BY <1>2, <1>6, PadsRows
<1>9. \A j \in 1..size : b.ids[j] = (IF j <= Total(lens) THEN own[j] ELSE PadToken)
  BY <1>1, <1>4, <1>7
<1>10. \A i \in 1..b.bs : b.pool[i] = (IF i <= Len(lens) THEN i ELSE PadRow)
  BY <1>2, <1>5, <1>6, <1>8
<1> QED
  BY <1>4, <1>5, <1>7, <1>8, <1>9, <1>10 DEF own

-----------------------------------------------------------------------------
(* The batch that a rank brings to its next forward                          *)

LEMMA NoTokens ==
  ASSUME NEW lens \in Seq(Nat), Len(lens) = 0
  PROVE  Total(lens) = 0 /\ TokensOf(lens) = <<>>
<1>1. Total(lens) = 0
  BY NoRows
<1>2. TokensOf(lens) \in Seq(Pairs) /\ Len(TokensOf(lens)) = 0
  BY <1>1, Tokens
<1> QED
  BY <1>1, <1>2

\* A batch of kind k before it is padded.
Begun(b, k, lens, mode) ==
  /\ DOMAIN b = Fields
  /\ b.mode = mode /\ b.orig = "NONE" /\ b.spec = SpecOf(k) /\ b.bs = Len(lens)
  /\ b.pos = TokensOf(lens)
  /\ b.rows = [i \in DOMAIN lens |-> i] /\ b.pool = b.rows
  /\ b.ext = IF mode \in {"EXTEND", "DRAFT_EXTEND_V2"} THEN lens ELSE <<>>
  /\ b.top \in Seq(Nat)
  /\ k # "draft" => b.real = Total(lens) /\ b.top = <<>>
  /\ mode = "EXTEND" => b.sum \in Nat /\ b.sum >= Total(lens)

LEMMA InitNewIs ==
  ASSUME server \in Servers, RoundOK, NEW r \in Ranks, NEW k \in Kinds, Meets(r, k)
  PROVE  /\ Begun(InitNew(r, k), k, RowLens(r, k), ModeOf(r, k))
         /\ Aligned(InitNew(r, k)) = Gathered(k)
         /\ k = "draft" => InitNew(r, k).top = [i \in DOMAIN RowLens(r, k) |-> i]
         /\ k # "draft" => InitNew(r, k).ids = TokensOf(RowLens(r, k)) /\ InitNew(r, k).loc = TokensOf(RowLens(r, k))
         /\ k \in {"prefill", "extend"} => InitNew(r, k).hid = out[r].hidden
<1> DEFINE lens == RowLens(r, k)
           own == TokensOf(lens)
           rows == [i \in DOMAIN lens |-> i]
           mode == ModeOf(r, k)
           b == InitNew(r, k)
<1>1. lens \in Seq(Nat) /\ Total(lens) \in Nat /\ Len(own) = Total(lens)
  BY RowsOf, Tokens DEF Lens
<1>2. rows \in Seq(Nat) /\ Len(rows) = Len(lens) /\ OwnRows(r, k) = rows /\ OwnTokens(r, k) = own
  BY <1>1 DEF OwnRows, OwnTokens
<1>3. <<>> \in Seq(Nat) /\ work[r].prefix \in Nat
  BY RoundTypes, BatchTypes
<1>4. /\ DOMAIN b = Fields
      /\ b.mode = mode /\ b.orig = "NONE" /\ b.spec = SpecOf(k) /\ b.bs = Len(rows)
      /\ b.pos = own /\ b.loc = own /\ b.rows = rows /\ b.pool = rows
      /\ b.ext = IF mode \in {"EXTEND", "DRAFT_EXTEND_V2"} THEN lens ELSE <<>>
      /\ b.top = IF k = "draft" THEN rows ELSE <<>>
      /\ b.real = IF k = "draft" THEN 0 ELSE Len(own)
      /\ b.ids = IF k = "draft" THEN <<>> ELSE own
      /\ b.sum = Total(lens) + Len(rows) * work[r].prefix
      /\ b.counts = GlobalNumTokens(r, k)
      /\ k \in {"prefill", "extend"} => b.hid = out[r].hidden
  <2> HIDE DEF lens, own, rows, mode
  <2>1. b = [mode |-> mode, orig |-> "NONE", spec |-> SpecOf(k), bs |-> Len(rows), origBs |-> 0, origTokens |-> 0,
             ids |-> IF k = "draft" THEN <<>> ELSE own, pos |-> own, loc |-> own,
             hid |-> CASE k = "draft" -> own
                       [] k \in {"prefill", "extend"} -> out[r].hidden
                       [] OnTarget(k) -> <<>>,
             hidBackup |-> <<>>, locBackup |-> <<>>,
             rows |-> rows, pool |-> rows, top |-> IF k = "draft" THEN rows ELSE <<>>,
             ext |-> IF mode \in {"EXTEND", "DRAFT_EXTEND_V2"} THEN lens ELSE <<>>,
             sum |-> Total(lens) + Len(rows) * work[r].prefix,
             real |-> IF k = "draft" THEN 0 ELSE Len(own),
             counts |-> GlobalNumTokens(r, k), padding |-> "NONE", buffer |-> 0]
    BY <1>2, Zenon DEF InitNew, mode, lens
  <2>2. k \in {"prefill", "extend"} =>
          (CASE k = "draft" -> own [] k \in {"prefill", "extend"} -> out[r].hidden [] OnTarget(k) -> <<>>)
            = out[r].hidden
    BY DEF OnTarget
  <2> HIDE DEF b
  <2>3. DOMAIN b = Fields
    BY <2>1, Zenon DEF Fields
  <2> QED
    BY <2>1, <2>2, <2>3
<1>5. b.sum \in Nat /\ b.sum >= Total(lens)
  <2> DEFINE p == work[r].prefix
             m == Len(rows)
             t == Total(lens)
  <2>1. p \in Nat /\ m \in Nat /\ t \in Nat
    BY <1>1, <1>2, <1>3
  <2>2. b.sum = t + m * p
    BY <1>4
  <2> HIDE DEF p, m, t
  <2>3. m * p \in Nat
    BY <2>1
  <2> QED
    BY <2>1, <2>2, <2>3 DEF t
<1>6. Aligned(b) = Gathered(k)
  <2>1. Gathered(k) = [q \in Ranks |-> CeilAlign(GlobalNumTokens(r, k)[q], AttnTp)]
    BY GatheredEven
  <2> QED
    BY <1>4, <2>1 DEF Aligned
<1> HIDE DEF b, rows, own, mode
<1>7. Begun(b, k, lens, mode)
  BY <1>1, <1>2, <1>3, <1>4, <1>5 DEF Begun, rows, own
<1> QED
  BY <1>4, <1>6, <1>7 DEF b, rows, own, mode

StepOf(b, x) == [b EXCEPT !.ids = x, !.loc = x, !.hid = x]
LEMMA Stepped ==
  ASSUME NEW b, NEW lens, NEW mode, Begun(b, "draft", lens, mode), NEW x, NEW c, c = StepOf(b, x)
  PROVE  /\ Begun(c, "draft", lens, mode)
         /\ c.ids = x /\ c.loc = x /\ c.hid = x
         /\ c.top = b.top /\ c.counts = b.counts
<1>1. DOMAIN b = Fields
  BY DEF Begun
<1>2. /\ DOMAIN c = Fields
      /\ c.ids = x /\ c.loc = x /\ c.hid = x
      /\ c.mode = b.mode /\ c.orig = b.orig /\ c.spec = b.spec /\ c.bs = b.bs /\ c.pos = b.pos
      /\ c.rows = b.rows /\ c.pool = b.pool /\ c.ext = b.ext /\ c.top = b.top /\ c.real = b.real
      /\ c.sum = b.sum /\ c.counts = b.counts
  BY <1>1 DEF Fields, StepOf
<1>3. Begun(c, "draft", lens, mode)
  BY <1>2 DEF Begun
<1> QED
  BY <1>2, <1>3

\* A later step of a draft comes with what the step before it left.
LEMMA DraftLeft ==
  ASSUME server \in Servers, RoundOK, NEW r \in Ranks, out[r].kind = "draft", Kept(r)
  PROVE  /\ Begun(fb[r], "draft", RowLens(r, "draft"), ModeOf(r, "draft"))
         /\ Len(fb[r].top) <= fb[r].counts[r] \div server.topk
         /\ Settled("draft", fb[r].counts)
         /\ out[r].logits = TokensOf(RowLens(r, "draft")) /\ out[r].hidden = TokensOf(RowLens(r, "draft"))
<1> DEFINE lens == RowLens(r, "draft")
           b == fb[r]
<1>1. Outputs(r, "draft", lens) /\ Leftover(b, r, "draft", lens)
  BY DEF Kept
<1>2. out[r].logits = TokensOf(lens) /\ out[r].hidden = TokensOf(lens)
  BY <1>1 DEF Outputs
<1>3. ModeOf(r, "draft") \in {"IDLE", "DECODE"}
  BY DEF ModeOf
<1> HIDE DEF b, lens
<1>4. Begun(b, "draft", lens, ModeOf(r, "draft"))
  BY <1>1, <1>3 DEF Leftover, Begun
<1> QED
  BY <1>1, <1>2, <1>4 DEF Leftover, b, lens

\* The hidden states that a prefill takes from the target: the rank's own, with
\* some padding behind them that is within what the target padded to.
FromTarget(h, r, lens) ==
  \E n \in Nat, c \in [Ranks -> Nat] :
    Total(lens) <= n /\ n <= c[r] /\ Settled("target", c) /\ h = Pad(TokensOf(lens), n, PadToken)

LEMMA NextBatchIs ==
  ASSUME IInv, NEW r \in Ranks, pc[r] = "ready", todo[r] # <<>>, NEW k, k = Head(todo[r])
  PROVE  /\ Begun(NextBatch(r), k, RowLens(r, k), ModeOf(r, k))
         /\ NextBatch(r).ids = TokensOf(RowLens(r, k)) /\ NextBatch(r).loc = TokensOf(RowLens(r, k))
         /\ k \in {"draft", "extend"} => NextBatch(r).hid = TokensOf(RowLens(r, k))
         /\ k = "prefill" => FromTarget(NextBatch(r).hid, r, RowLens(r, k))
         /\ k = "draft" =>
              Len(NextBatch(r).top) <= IF Again(r) THEN fb[r].counts[r] \div server.topk ELSE Len(RowLens(r, k))
         /\ Again(r) => NextBatch(r).counts = fb[r].counts /\ Settled("draft", fb[r].counts)
         /\ ~Again(r) => Aligned(NextBatch(r)) = Gathered(k)
<1> DEFINE lens == RowLens(r, k)
           own == TokensOf(lens)
           mode == ModeOf(r, k)
           b == NextBatch(r)
<1>0. server \in Servers /\ RoundOK /\ TodoTypes /\ Suffix /\ RankOK(r)
  BY DEF IInv, StepInv
<1>1. /\ k \in Kinds /\ Meets(r, k)
      /\ Len(todo[r]) \in 1..Len(Full(r)) /\ Len(Full(r)) \in Nat
      /\ k \in {"prefill", "extend"} =>
           /\ Len(todo[r]) < Len(Full(r))
           /\ Full(r)[Len(Full(r)) - Len(todo[r])] = IF k = "prefill" THEN "target" ELSE "verify"
      /\ Again(r) => Full(r)[Len(Full(r)) - Len(todo[r])] = "draft"
  BY <1>0, Position
<1>2. /\ out[r].kind = IF Len(todo[r]) < Len(Full(r)) THEN Full(r)[Len(Full(r)) - Len(todo[r])] ELSE "NONE"
      /\ out[r].kind # "NONE" => Kept(r)
  BY <1>0 DEF RankOK
<1>3. Again(r) <=> (k = "draft" /\ Len(todo[r]) < Len(Full(r)))
  BY DEF Again
<1>4. lens \in Seq(Nat) /\ (Idles(r, k) <=> Len(lens) = 0)
  BY <1>0, <1>1, RowsOf DEF Lens
<1>5. /\ Begun(InitNew(r, k), k, lens, mode)
      /\ Aligned(InitNew(r, k)) = Gathered(k)
      /\ k = "draft" => InitNew(r, k).top = [i \in DOMAIN lens |-> i]
      /\ k # "draft" => InitNew(r, k).ids = own /\ InitNew(r, k).loc = own
      /\ k \in {"prefill", "extend"} => InitNew(r, k).hid = out[r].hidden
  BY <1>0, <1>1, InitNewIs
<1>6. CASE k # "draft"
  <2>1. b = InitNew(r, k)
    BY <1>6 DEF NextBatch
  <2>2. ASSUME k = "extend" PROVE out[r].hidden = own
    <3>1. out[r].kind = "verify" /\ Kept(r)
      BY <1>1, <1>2, <2>2
    <3>2. Outputs(r, "verify", RowLens(r, "verify"))
      BY <3>1 DEF Kept
    <3>3. out[r].hidden = TokensOf(RowLens(r, "verify"))
      BY <3>2 DEF Outputs
    <3>4. RowLens(r, "verify") = RowLens(r, "extend")
      BY DEF RowLens, Idles, SpecOf
    <3> QED
      BY <2>2, <3>3, <3>4
  <2>3. ASSUME k = "prefill" PROVE FromTarget(out[r].hidden, r, lens)
    <3>1. out[r].kind = "target" /\ Kept(r)
      BY <1>1, <1>2, <2>3
    <3>2. Outputs(r, "target", RowLens(r, "target"))
      BY <3>1 DEF Kept
    <3>3. RowLens(r, "target") = lens
      BY <2>3 DEF RowLens, Idles
    <3>4. server.spec
      BY <1>1, <2>3 DEF Meets
    <3>5. \E n \in Nat, c \in [Ranks -> Nat] :
            /\ Total(lens) <= n /\ n <= c[r] /\ Settled("target", c)
            /\ out[r].hidden = Pad(TokensOf(lens), n, PadToken) /\ n = Len(out[r].hidden)
      BY <3>2, <3>3, <3>4 DEF Outputs
    <3> QED
      BY <3>5 DEF FromTarget
  <2> HIDE DEF lens, own, mode, b
  <2> QED
    BY <1>3, <1>5, <1>6, <2>1, <2>2, <2>3 DEF lens, own, mode, b
<1>7. CASE k = "draft"
  <2> DEFINE c == IF Continues(r) THEN fb[r] ELSE InitNew(r, "draft")
             x == IF Continues(r) THEN out[r].logits ELSE own
             z == IF Continues(r) THEN out[r].hidden ELSE own
  <2>1. Continues(r) <=> Again(r)
    BY <1>1, <1>2, <1>3, <1>7 DEF Continues
  <2>2. Again(r) => /\ Begun(fb[r], k, lens, mode)
                    /\ Len(fb[r].top) <= fb[r].counts[r] \div server.topk
                    /\ Settled("draft", fb[r].counts)
                    /\ out[r].logits = own /\ out[r].hidden = own
    <3> SUFFICES ASSUME Again(r)
                 PROVE  /\ Begun(fb[r], "draft", RowLens(r, "draft"), ModeOf(r, "draft"))
                        /\ Len(fb[r].top) <= fb[r].counts[r] \div server.topk
                        /\ Settled("draft", fb[r].counts)
                        /\ out[r].logits = TokensOf(RowLens(r, "draft"))
                        /\ out[r].hidden = TokensOf(RowLens(r, "draft"))
      BY <1>7
    <3>1. out[r].kind = "draft" /\ Kept(r)
      BY <1>1, <1>2, <1>3
    <3> QED
      BY <1>0, <3>1, DraftLeft
  <2>3. b = IF c.mode = "IDLE" THEN [c EXCEPT !.ids = <<>>, !.loc = <<>>, !.hid = <<>>]
            ELSE [c EXCEPT !.ids = x, !.loc = own, !.hid = z]
    BY <1>7, Zenon DEF NextBatch, DraftStep, OwnTokens
  <2>4. Begun(c, "draft", lens, mode) /\ x = own /\ z = own
    BY <1>5, <1>7, <2>1, <2>2
  <2>5. Len(c.top) <= (IF Again(r) THEN fb[r].counts[r] \div server.topk ELSE Len(lens))
    <3>1. CASE Again(r)
      BY <2>1, <2>2, <3>1
    <3>2. CASE ~Again(r)
      <4>1. c.top = [i \in DOMAIN lens |-> i]
        BY <1>5, <1>7, <2>1, <3>2
      <4>2. Len([i \in DOMAIN lens |-> i]) = Len(lens) /\ Len(lens) \in Nat
        BY <1>4
      <4> QED
        BY <3>2, <4>1, <4>2
    <3> QED
      BY <3>1, <3>2
  <2>6. ~Again(r) => c = InitNew(r, k)
    BY <1>7, <2>1
  <2>7. Again(r) => c = fb[r]
    BY <2>1
  <2> HIDE DEF c, x, z
  <2>8. /\ Begun(b, "draft", lens, mode)
        /\ b.ids = own /\ b.loc = own /\ b.hid = own
        /\ b.top = c.top /\ b.counts = c.counts
    <3>1. c.mode = "IDLE" => own = <<>>
      <4>1. c.mode = "IDLE" => Idles(r, k)
        BY <1>7, <2>4 DEF Begun, ModeOf
      <4> QED
        BY <1>4, <4>1, NoTokens
    <3>2. b = StepOf(c, own)
      BY <2>3, <2>4, <3>1 DEF StepOf
    <3> HIDE DEF own, lens, mode, b
    <3> QED
      BY <2>4, <3>2, Stepped
  <2>9. ~Again(r) => Aligned(b) = Gathered(k)
    BY <1>5, <2>6, <2>8 DEF Aligned
  <2> HIDE DEF lens, own, mode, b
  <2> QED
    BY <1>7, <2>2, <2>5, <2>7, <2>8, <2>9 DEF lens, own, mode, b
<1> QED
  BY <1>6, <1>7

-----------------------------------------------------------------------------
(* The batch padded                                                          *)

\* Which mode a rank is in; except in an extend, its rows are of one width.
LEMMA ModeIs ==
  ASSUME server \in Servers, RoundOK, NEW r \in Ranks, NEW k \in Kinds
  PROVE  /\ ModeOf(r, k) \in {"IDLE", "DECODE", "EXTEND", "TARGET_VERIFY", "DRAFT_EXTEND_V2"}
         /\ ModeOf(r, k) = "IDLE" <=> Len(RowLens(r, k)) = 0
         /\ k = "target" => ModeOf(r, k) = work[r].mode
         /\ ModeOf(r, k) # "IDLE" =>
              /\ k = "draft" => ModeOf(r, k) = "DECODE"
              /\ k = "verify" => ModeOf(r, k) = "TARGET_VERIFY"
              /\ k = "extend" => ModeOf(r, k) = "DRAFT_EXTEND_V2"
              /\ k = "prefill" => ModeOf(r, k) = "EXTEND"
              /\ k = "target" => ModeOf(r, k) \in {"DECODE", "EXTEND"}
         /\ ModeOf(r, k) # "EXTEND" =>
              \A i \in 1..Len(RowLens(r, k)) : RowLens(r, k)[i] = WidthOf(SpecOf(k))
<1> DEFINE lens == RowLens(r, k)
           mode == ModeOf(r, k)
<1>1. /\ work[r].mode \in {"IDLE", "DECODE", "EXTEND"}
      /\ work[r].mode = "DECODE" => \A i \in 1..Len(work[r].len) : work[r].len[i] = 1
  BY RoundTypes, BatchTypes
<1>2. /\ Idles(r, k) <=> Len(lens) = 0
      /\ ~Idles(r, k) => (k \in {"target", "prefill"} => lens = work[r].len)
      /\ k \notin {"target", "prefill"} => \A i \in 1..Len(lens) : lens[i] = SpecOf(k).width
  BY RowsOf
<1>3. /\ mode \in {"IDLE", "DECODE", "EXTEND", "TARGET_VERIFY", "DRAFT_EXTEND_V2"}
      /\ mode = "IDLE" <=> Idles(r, k)
      /\ k = "target" => mode = work[r].mode
      /\ mode # "IDLE" =>
           /\ k = "draft" => mode = "DECODE"
           /\ k = "verify" => mode = "TARGET_VERIFY"
           /\ k = "extend" => mode = "DRAFT_EXTEND_V2"
           /\ k = "prefill" => mode = "EXTEND"
           /\ k = "target" => mode \in {"DECODE", "EXTEND"}
  BY <1>1 DEF ModeOf, Idles, Kinds
<1> HIDE DEF lens, mode
<1>4. ASSUME mode # "EXTEND" PROVE \A i \in 1..Len(lens) : lens[i] = WidthOf(SpecOf(k))
  <2>1. CASE mode = "IDLE"
    BY <1>2, <1>3, <2>1
  <2>2. CASE mode # "IDLE" /\ k = "target"
    <3>1. mode = "DECODE" /\ lens = work[r].len /\ WidthOf(SpecOf(k)) = 1
      BY <1>2, <1>3, <1>4, <2>2, SpecIs DEF WidthOf
    <3> QED
      BY <1>1, <1>3, <2>2, <3>1
  <2>3. CASE mode # "IDLE" /\ k # "target"
    <3>1. k \notin {"target", "prefill"}
      BY <1>3, <1>4, <2>3
    <3> QED
      BY <1>2, <2>3, <3>1, SpecIs
  <2> QED
    BY <2>1, <2>2, <2>3
<1> QED
  BY <1>2, <1>3, <1>4 DEF lens, mode

\* The shape of a batch before its tensors are padded to n tokens.
Shapes(x, b, k, lens, mode, n, maxLen) ==
  /\ DOMAIN x = Fields
  /\ x.origBs = Len(lens) /\ x.spec = SpecOf(k)
  /\ x.ids = b.ids /\ x.pos = b.pos /\ x.loc = b.loc /\ x.hid = b.hid /\ x.top = b.top
  /\ x.pool = [i \in DOMAIN lens |-> i]
  /\ x.rows = x.pool \/ (Len(lens) = 0 /\ x.rows = <<PadRow>> /\ x.bs = 1)
  /\ x.bs \in Nat /\ Len(lens) <= x.bs
  /\ mode = IF x.orig # "NONE" THEN x.orig ELSE x.mode
  /\ mode = "EXTEND" => x.mode = "EXTEND" /\ x.sum \in Nat /\ x.sum >= Total(lens)
  /\ round.extend /\ maxLen => x.mode = "EXTEND"
  /\ k # "draft" => x.real = Total(lens)
  /\ k \notin {"target", "prefill"} => x.mode # "EXTEND"
  /\ k = "draft" => x.orig = "NONE"
  /\ x.mode = "DRAFT_EXTEND_V2" => k # "target" /\ Len(lens) > 0
  /\ \/ x.mode = "EXTEND" /\ x.ext = lens /\ x.bs = Len(lens) /\ Len(lens) > 0
     \/ x.mode = "EXTEND" /\ Len(lens) = 0 /\ x.ext = <<n>> /\ x.bs = 1
     \/ /\ x.mode # "EXTEND" /\ x.bs = n \div WidthOf(SpecOf(k))
        /\ \A i \in 1..Len(lens) : lens[i] = WidthOf(SpecOf(k))
        /\ x.ext = IF x.mode = "DRAFT_EXTEND_V2" THEN lens ELSE <<>>

LEMMA ReshapeIs ==
  ASSUME server \in Servers, RoundOK, NEW r \in Ranks, NEW k \in Kinds, Meets(r, k),
         NEW b, NEW lens, lens = RowLens(r, k), NEW mode, mode = ModeOf(r, k), Begun(b, k, lens, mode),
         NEW n \in Nat, Total(lens) <= n, NEW maxLen \in BOOLEAN, round.mixed => ~maxLen
  PROVE  Shapes(Reshape([b EXCEPT !.origBs = b.bs], n, maxLen), b, k, lens, mode, n, maxLen)
<1> DEFINE c == [b EXCEPT !.origBs = b.bs]
           rows == [i \in DOMAIN lens |-> i]
           w == WidthOf(SpecOf(k))
           x == Reshape(c, n, maxLen)
<1>1. /\ mode \in {"IDLE", "DECODE", "EXTEND", "TARGET_VERIFY", "DRAFT_EXTEND_V2"}
      /\ mode = "IDLE" <=> Len(lens) = 0
      /\ mode # "IDLE" =>
           /\ k = "draft" => mode = "DECODE"
           /\ k = "verify" => mode = "TARGET_VERIFY"
           /\ k = "extend" => mode = "DRAFT_EXTEND_V2"
           /\ k = "prefill" => mode = "EXTEND"
           /\ k = "target" => mode \in {"DECODE", "EXTEND"}
      /\ mode # "EXTEND" => \A i \in 1..Len(lens) : lens[i] = w
  BY ModeIs
<1>2. /\ DOMAIN b = Fields
      /\ b.mode = mode /\ b.orig = "NONE" /\ b.spec = SpecOf(k) /\ b.bs = Len(lens)
      /\ b.rows = rows /\ b.pool = rows
      /\ b.ext = IF mode \in {"EXTEND", "DRAFT_EXTEND_V2"} THEN lens ELSE <<>>
      /\ k # "draft" => b.real = Total(lens)
      /\ mode = "EXTEND" => b.sum \in Nat /\ b.sum >= Total(lens)
  BY DEF Begun
<1>3. /\ DOMAIN c = Fields
      /\ c.mode = mode /\ c.orig = "NONE" /\ c.spec = SpecOf(k) /\ c.bs = Len(lens) /\ c.origBs = Len(lens)
      /\ c.rows = rows /\ c.pool = rows
      /\ c.ext = b.ext /\ c.real = b.real /\ c.sum = b.sum
      /\ c.ids = b.ids /\ c.pos = b.pos /\ c.loc = b.loc /\ c.hid = b.hid /\ c.top = b.top
  BY <1>2 DEF Fields
<1>4. lens \in Seq(Nat) /\ Len(lens) \in Nat /\ Total(lens) \in Nat
  BY RowsOf, Tokens DEF Lens
<1>5. rows = <<>> <=> Len(lens) = 0
  <2>1. rows \in Seq(Nat) /\ Len(rows) = Len(lens)
    BY <1>4
  <2> HIDE DEF rows
  <2> QED
    BY <1>4, <2>1
<1>6. w \in Nat \ {0} /\ Unscale(n, SpecOf(k)) = n \div w
  <2>1. w \in Nat \ {0}
    BY SpecIs
  <2>2. n \div 1 = n
    OBVIOUS
  <2> QED
    BY <2>1, <2>2 DEF Unscale, WidthOf
<1>7. mode # "EXTEND" => n \div w \in Nat /\ Len(lens) <= n \div w
  <2> HIDE DEF w
  <2> SUFFICES ASSUME mode # "EXTEND" PROVE n \div w \in Nat /\ Len(lens) <= n \div w
    OBVIOUS
  <2>1. Total(lens) = Len(lens) * w
    BY <1>1, <1>4, <1>6, EvenStarts
  <2>2. Len(lens) * w <= n
    BY <2>1
  <2> QED
    BY <1>4, <1>6, <2>2, RowsFit
<1>8. (SpecOf(k).type = "VERIFY" <=> k = "verify") /\ server.hybrid \in BOOLEAN
  BY SpecIs, MlpSyncAssumption DEF MlpSyncAssumption, NoSpec, Kinds
<1>9. /\ round.extend /\ maxLen /\ mode # "EXTEND" =>
           /\ k \in {"target", "prefill"}
           /\ Len(lens) # 0 => mode = "DECODE" /\ w = 1
      /\ k = "verify" => ~(round.extend /\ maxLen)
  <2>1. k = "target" => w = 1
    BY SpecIs DEF WidthOf
  <2> QED
    BY <1>1, <2>1, RoundTypes DEF Meets
<1> HIDE DEF c, rows, w
<1>10. CASE mode = "EXTEND"
  <2>1. x = c
    BY <1>3, <1>10, Zenon DEF Reshape
  <2>2. k \in {"target", "prefill"} /\ Len(lens) > 0
    BY <1>1, <1>4, <1>10 DEF Kinds
  <2> HIDE DEF x
  <2>3. Shapes(x, b, k, lens, mode, n, maxLen)
    BY <1>2, <1>3, <1>4, <1>10, <2>1, <2>2 DEF Shapes, rows
  <2> QED
    BY <2>3 DEF x, c
<1>11. CASE mode # "EXTEND" /\ server.hybrid /\ k = "verify"
  <2>1. x = [c EXCEPT !.orig = IF c.mode = "IDLE" THEN "IDLE" ELSE c.orig,
                      !.mode = IF c.mode = "IDLE" THEN "TARGET_VERIFY" ELSE c.mode,
                      !.bs = Unscale(n, c.spec)]
    BY <1>3, <1>8, <1>11, Zenon DEF Reshape
  <2> HIDE DEF x
  <2>2. /\ DOMAIN x = Fields
        /\ x.orig = (IF mode = "IDLE" THEN "IDLE" ELSE "NONE")
        /\ x.mode = (IF mode = "IDLE" THEN "TARGET_VERIFY" ELSE mode)
        /\ x.bs = n \div w
        /\ x.spec = c.spec /\ x.origBs = c.origBs /\ x.rows = c.rows /\ x.pool = c.pool
        /\ x.ext = c.ext /\ x.real = c.real /\ x.ids = c.ids /\ x.pos = c.pos /\ x.loc = c.loc
        /\ x.hid = c.hid /\ x.top = c.top
    BY <1>3, <1>6, <2>1 DEF Fields
  <2>3. x.mode = "TARGET_VERIFY" /\ mode = IF x.orig # "NONE" THEN x.orig ELSE x.mode
    BY <1>1, <1>11, <2>2
  <2>4. x.ext = <<>>
    BY <1>1, <1>2, <1>3, <1>11, <2>2
  <2>5. Shapes(x, b, k, lens, mode, n, maxLen)
    BY <1>1, <1>2, <1>3, <1>4, <1>7, <1>9, <1>11, <2>2, <2>3, <2>4 DEF Shapes, rows, w
  <2> QED
    BY <2>5 DEF x, c
<1>12. CASE mode # "EXTEND" /\ ~(server.hybrid /\ k = "verify") /\ ~(round.extend /\ maxLen)
  <2>1. x = [c EXCEPT !.bs = Unscale(n, c.spec)]
    BY <1>3, <1>8, <1>12, Zenon DEF Reshape
  <2> HIDE DEF x
  <2>2. /\ DOMAIN x = Fields
        /\ x.bs = n \div w
        /\ x.orig = c.orig /\ x.mode = c.mode
        /\ x.spec = c.spec /\ x.origBs = c.origBs /\ x.rows = c.rows /\ x.pool = c.pool
        /\ x.ext = c.ext /\ x.real = c.real /\ x.ids = c.ids /\ x.pos = c.pos /\ x.loc = c.loc
        /\ x.hid = c.hid /\ x.top = c.top
    BY <1>3, <1>6, <2>1 DEF Fields
  <2>3. mode = "DRAFT_EXTEND_V2" => k # "target" /\ Len(lens) > 0
    BY <1>1, <1>4
  <2>4. Shapes(x, b, k, lens, mode, n, maxLen)
    BY <1>1, <1>2, <1>3, <1>4, <1>7, <1>12, <2>2, <2>3 DEF Shapes, rows, w
  <2> QED
    BY <2>4 DEF x, c
<1>13. CASE mode # "EXTEND" /\ round.extend /\ maxLen /\ Len(lens) = 0
  <2>1. k \in {"target", "prefill"} /\ mode = "IDLE" /\ k # "verify" /\ rows = <<>> /\ Total(lens) = 0
    BY <1>1, <1>4, <1>5, <1>9, <1>13, NoRows
  <2>2. x = [[c EXCEPT !.orig = c.mode, !.mode = "EXTEND"]
               EXCEPT !.ext = <<n>>, !.rows = <<PadRow>>, !.sum = n, !.bs = 1,
                      !.real = IF [c EXCEPT !.orig = c.mode, !.mode = "EXTEND"].orig = "IDLE" THEN 0 ELSE n]
    BY <1>3, <1>8, <1>13, <2>1, Zenon DEF Reshape, DummyExtend
  <2> HIDE DEF x
  <2>3. /\ DOMAIN x = Fields
        /\ x.orig = mode /\ x.mode = "EXTEND"
        /\ x.ext = <<n>> /\ x.rows = <<PadRow>> /\ x.bs = 1 /\ x.real = 0
        /\ x.spec = c.spec /\ x.origBs = c.origBs /\ x.pool = c.pool
        /\ x.ids = c.ids /\ x.pos = c.pos /\ x.loc = c.loc /\ x.hid = c.hid /\ x.top = c.top
    BY <1>3, <2>1, <2>2 DEF Fields
  <2>4. Shapes(x, b, k, lens, mode, n, maxLen)
    BY <1>2, <1>3, <1>4, <1>13, <2>1, <2>3 DEF Shapes, rows
  <2> QED
    BY <2>4 DEF x, c
<1>14. CASE mode # "EXTEND" /\ round.extend /\ maxLen /\ Len(lens) # 0
  <2>1. /\ k \in {"target", "prefill"} /\ mode = "DECODE" /\ k # "verify" /\ rows # <<>>
        /\ \A i \in 1..Len(lens) : lens[i] = 1
    BY <1>1, <1>5, <1>9, <1>14
  <2>2. x = [[c EXCEPT !.orig = c.mode, !.mode = "EXTEND"] EXCEPT !.ext = [i \in DOMAIN c.rows |-> 1]]
    <3>1. [c EXCEPT !.orig = c.mode, !.mode = "EXTEND"].rows = c.rows
      BY <1>3 DEF Fields
    <3>2. x = [[c EXCEPT !.orig = c.mode, !.mode = "EXTEND"]
                 EXCEPT !.ext = [i \in DOMAIN c.rows |-> 1]]
      BY <1>3, <1>8, <1>14, <2>1, <3>1, Zenon DEF Reshape, DummyExtend
    <3> QED
      BY <3>2
  <2>3. [i \in DOMAIN c.rows |-> 1] = lens
    <3>1. DOMAIN c.rows = 1..Len(lens)
      BY <1>3, <1>4 DEF rows
    <3> QED
      BY <1>4, <2>1, <3>1
  <2> HIDE DEF x
  <2>4. /\ DOMAIN x = Fields
        /\ x.orig = mode /\ x.mode = "EXTEND" /\ x.ext = lens
        /\ x.rows = c.rows /\ x.bs = c.bs /\ x.real = c.real
        /\ x.spec = c.spec /\ x.origBs = c.origBs /\ x.pool = c.pool
        /\ x.ids = c.ids /\ x.pos = c.pos /\ x.loc = c.loc /\ x.hid = c.hid /\ x.top = c.top
    BY <1>3, <2>2, <2>3 DEF Fields
  <2>5. Shapes(x, b, k, lens, mode, n, maxLen)
    BY <1>2, <1>3, <1>4, <1>14, <2>1, <2>4 DEF Shapes, rows
  <2> QED
    BY <2>5 DEF x, c
<1> QED
  BY <1>8, <1>10, <1>11, <1>12, <1>13, <1>14 DEF x, c

\* Padding what was padded.
LEMMA PadPad ==
  ASSUME NEW S, NEW s \in Seq(S), NEW v \in S, NEW m \in Nat, Len(s) <= m, NEW n \in Nat, m <= n
  PROVE  Pad(Pad(s, m, v), n, v) = Pad(s, n, v)
<1> DEFINE p == Pad(s, m, v)
<1>1. /\ p \in Seq(S) /\ Len(p) = m
      /\ \A i \in 1..m : p[i] = (IF i <= Len(s) THEN s[i] ELSE v)
  BY PadLands
<1>2. Len(s) <= n /\ Len(p) <= n /\ Len(s) \in Nat
  BY <1>1
<1>3. /\ Pad(s, n, v) \in Seq(S) /\ Len(Pad(s, n, v)) = n
      /\ \A i \in 1..n : Pad(s, n, v)[i] = (IF i <= Len(s) THEN s[i] ELSE v)
  BY <1>2, PadLands
<1> HIDE DEF p
<1>4. /\ Pad(p, n, v) \in Seq(S) /\ Len(Pad(p, n, v)) = n
      /\ \A i \in 1..n : Pad(p, n, v)[i] = (IF i <= Len(p) THEN p[i] ELSE v)
  <2>1. p \in Seq(S) /\ Len(p) <= n
    BY <1>1, <1>2
  <2> HIDE <1>1, <1>2, <1>3
  <2> QED
    BY <2>1, PadLands
<1>5. \A i \in 1..n : Pad(p, n, v)[i] = Pad(s, n, v)[i]
  BY <1>1, <1>2, <1>3, <1>4
<1>6. Pad(p, n, v) = Pad(s, n, v)
  BY <1>3, <1>4, <1>5, SeqEqual
<1> QED
  BY <1>6 DEF p

\* The tokens that a batch brings, before it is padded to n.
Brings(x, k, lens, n) ==
  /\ x.ids = TokensOf(lens) /\ x.pos = TokensOf(lens) /\ x.loc = TokensOf(lens)
  /\ IsDraftInput(x.spec) =>
       \E m \in Nat : Total(lens) <= m /\ m <= n /\ x.hid = Pad(TokensOf(lens), m, PadToken)
  /\ k = "draft" => x.hid = TokensOf(lens)
  /\ x.top \in Seq(Nat) /\ Len(x.top) <= x.bs

\* Nothing is longer than what it is padded to.
LEMMA NoOverflow ==
  ASSUME NEW lens \in Seq(Nat), NEW n \in Nat, Total(lens) <= n,
         NEW x, NEW b, NEW k, NEW mode, NEW maxLen, Shapes(x, b, k, lens, mode, n, maxLen),
         Brings(x, k, lens, n)
  PROVE  ~Overflows(x, n)
<1> DEFINE own == TokensOf(lens)
           t == Total(lens)
<1>1. own \in Seq(Pairs) /\ Len(own) = t /\ t \in Nat /\ t <= n
  BY Tokens
<1>2. Max({Len(x.ids), Len(x.pos), Len(x.loc)}) <= n
  <2>1. Len(x.ids) = t /\ Len(x.pos) = t /\ Len(x.loc) = t
    BY <1>1 DEF Brings
  <2> HIDE DEF t
  <2>2. Max({Len(x.ids), Len(x.pos), Len(x.loc)}) \in {Len(x.ids), Len(x.pos), Len(x.loc)}
    <3>1. Len(x.ids) \in Int /\ Len(x.pos) \in Int /\ Len(x.loc) \in Int
      BY <1>1, <2>1
    <3> QED
      BY <3>1, OfThree
  <2> QED
    BY <1>1, <2>1, <2>2
<1>3. Max({Len(x.rows), Len(x.pool), Len(x.ext)}) <= x.bs
  <2>0. Len([i \in DOMAIN lens |-> i]) = Len(lens) /\ Len(lens) \in Nat
    OBVIOUS
  <2>1. x.bs \in Nat /\ Len(lens) <= x.bs /\ Len(x.pool) = Len(lens)
    BY <2>0 DEF Shapes
  <2>2. Len(x.rows) \in Nat /\ Len(x.rows) <= x.bs
    <3>1. CASE x.rows = x.pool
      BY <2>0, <2>1, <3>1
    <3>2. CASE x.rows = <<PadRow>> /\ x.bs = 1
      BY <3>2
    <3> QED
      BY <3>1, <3>2 DEF Shapes
  <2>3. Len(x.ext) \in Nat /\ Len(x.ext) <= x.bs
    <3>1. CASE x.ext = lens
      BY <2>0, <2>1, <3>1
    <3>2. CASE x.ext = <<n>> /\ x.bs = 1
      BY <3>2
    <3>3. CASE x.ext = <<>>
      BY <2>1, <3>3
    <3>4. x.ext = lens \/ (x.ext = <<n>> /\ x.bs = 1) \/ x.ext = <<>>
      BY DEF Shapes
    <3> QED
      BY <3>1, <3>2, <3>3, <3>4
  <2>4. Max({Len(x.rows), Len(x.pool), Len(x.ext)}) \in {Len(x.rows), Len(x.pool), Len(x.ext)}
    <3>1. Len(x.rows) \in Int /\ Len(x.pool) \in Int /\ Len(x.ext) \in Int
      BY <2>0, <2>1, <2>2, <2>3
    <3> QED
      BY <3>1, OfThree
  <2> QED
    BY <2>1, <2>2, <2>3, <2>4
<1>4. ASSUME IsDraftInput(x.spec) PROVE ~(Len(x.top) > x.bs \/ Len(x.hid) > n)
  <2>1. PICK m \in Nat : t <= m /\ m <= n /\ x.hid = Pad(own, m, PadToken)
    BY <1>4 DEF Brings
  <2>2. PadToken \in Pairs
    BY DEF PadToken, Pairs
  <2>3. Len(x.hid) = m
    BY <1>1, <2>1, <2>2, PadLands
  <2>4. Len(x.top) \in Nat /\ Len(x.top) <= x.bs /\ x.bs \in Nat
    BY DEF Brings, Shapes
  <2> QED
    BY <2>1, <2>3, <2>4
<1>5. Max({Len(x.ids), Len(x.pos), Len(x.loc)}) \in Int /\ Max({Len(x.rows), Len(x.pool), Len(x.ext)}) \in Int
      /\ x.bs \in Nat
  <2>1. Len(x.ids) \in Int /\ Len(x.pos) \in Int /\ Len(x.loc) \in Int
    BY <1>1 DEF Brings
  <2>2. Len([i \in DOMAIN lens |-> i]) \in Int /\ Len(lens) \in Int /\ Len(<<n>>) \in Int /\ Len(<<>>) \in Int
        /\ Len(<<PadRow>>) \in Int
    OBVIOUS
  <2>3. Len(x.rows) \in Int /\ Len(x.pool) \in Int /\ Len(x.ext) \in Int
    BY <2>2 DEF Shapes
  <2>4. Max({Len(x.ids), Len(x.pos), Len(x.loc)}) \in {Len(x.ids), Len(x.pos), Len(x.loc)}
    BY <2>1, OfThree
  <2>5. Max({Len(x.rows), Len(x.pool), Len(x.ext)}) \in {Len(x.rows), Len(x.pool), Len(x.ext)}
    BY <2>3, OfThree
  <2> QED
    BY <2>1, <2>3, <2>4, <2>5 DEF Shapes
<1> QED
  BY <1>2, <1>3, <1>4, <1>5 DEF Overflows

\* A batch with its rows and tokens padded.
Sized(x, n, counts, padding, buffer) ==
  [PadInputsToSize(x, n) EXCEPT !.counts = counts, !.padding = padding, !.buffer = buffer]

LEMMA SizedFields ==
  ASSUME NEW x, DOMAIN x = Fields, NEW n, NEW counts, NEW padding, NEW buffer,
         NEW z, z = Sized(x, n, counts, padding, buffer)
  PROVE  /\ DOMAIN z = Fields
         /\ z.counts = counts /\ z.padding = padding /\ z.buffer = buffer
         /\ z.mode = x.mode /\ z.orig = x.orig /\ z.spec = x.spec /\ z.bs = x.bs
         /\ z.origBs = x.origBs /\ z.real = x.real /\ z.origTokens = Len(x.pos)
         /\ z.ids = Pad(x.ids, n, PadToken) /\ z.pos = Pad(x.pos, n, PadToken) /\ z.loc = Pad(x.loc, n, PadToken)
         /\ z.sum = x.sum + (x.bs - Len(x.rows))
         /\ z.rows = Pad(x.rows, x.bs, PadRow) /\ z.pool = Pad(x.pool, x.bs, PadRow)
         /\ z.ext = IF x.ext = <<>> THEN <<>>
                    ELSE Pad(x.ext, x.bs, IF x.mode = "DRAFT_EXTEND_V2" THEN x.spec.width ELSE 0)
         /\ IsDraftInput(x.spec) =>
              /\ z.hid = Pad(x.hid, n, PadToken) /\ z.hidBackup = x.hid
              /\ z.top = IF x.top = <<>> THEN <<>> ELSE Pad(x.top, x.bs, PadRow)
         /\ ~IsDraftInput(x.spec) => z.top = x.top
<1> DEFINE dummyLen == IF x.mode = "DRAFT_EXTEND_V2" THEN x.spec.width ELSE 0
           e == IF x.ext = <<>> THEN <<>> ELSE Pad(x.ext, x.bs, dummyLen)
           y == [x EXCEPT !.origTokens = Len(x.pos),
                     !.ids = Pad(@, n, PadToken), !.pos = Pad(@, n, PadToken), !.loc = Pad(@, n, PadToken),
                     !.sum = @ + (x.bs - Len(x.rows)),
                     !.rows = Pad(@, x.bs, PadRow), !.pool = Pad(@, x.bs, PadRow),
                     !.ext = IF @ = <<>> THEN @ ELSE Pad(@, x.bs, dummyLen)]
           d == [y EXCEPT !.locBackup = y.loc, !.hidBackup = x.hid,
                    !.top = IF @ = <<>> THEN @ ELSE Pad(@, x.bs, PadRow),
                    !.hid = Pad(@, n, PadToken)]
           p == PadInputsToSize(x, n)
<1>1. p = IF IsDraftInput(x.spec) THEN d ELSE y
  BY Zenon DEF PadInputsToSize
<1>2. /\ DOMAIN y = Fields
      /\ y.mode = x.mode /\ y.orig = x.orig /\ y.spec = x.spec /\ y.bs = x.bs
      /\ y.origBs = x.origBs /\ y.real = x.real /\ y.origTokens = Len(x.pos)
      /\ y.ids = Pad(x.ids, n, PadToken) /\ y.pos = Pad(x.pos, n, PadToken) /\ y.loc = Pad(x.loc, n, PadToken)
      /\ y.sum = x.sum + (x.bs - Len(x.rows))
      /\ y.rows = Pad(x.rows, x.bs, PadRow) /\ y.pool = Pad(x.pool, x.bs, PadRow)
      /\ y.ext = e /\ y.top = x.top /\ y.hid = x.hid
  <2> HIDE DEF dummyLen
  <2>1. y.ext = (IF x.ext = <<>> THEN x.ext ELSE Pad(x.ext, x.bs, dummyLen))
    BY DEF Fields
  <2>2. y.ext = e
    BY <2>1
  <2> HIDE DEF e
  <2> QED
    BY <2>2 DEF Fields
<1> HIDE DEF y
<1>3. /\ DOMAIN d = Fields
      /\ d.mode = y.mode /\ d.orig = y.orig /\ d.spec = y.spec /\ d.bs = y.bs
      /\ d.origBs = y.origBs /\ d.real = y.real /\ d.origTokens = y.origTokens
      /\ d.ids = y.ids /\ d.pos = y.pos /\ d.loc = y.loc
      /\ d.sum = y.sum /\ d.rows = y.rows /\ d.pool = y.pool /\ d.ext = y.ext
      /\ d.top = (IF y.top = <<>> THEN y.top ELSE Pad(y.top, x.bs, PadRow))
      /\ d.hid = Pad(y.hid, n, PadToken) /\ d.hidBackup = x.hid
  BY <1>2 DEF Fields
<1> HIDE DEF d, e
<1>4. /\ DOMAIN p = Fields
      /\ p.mode = x.mode /\ p.orig = x.orig /\ p.spec = x.spec /\ p.bs = x.bs
      /\ p.origBs = x.origBs /\ p.real = x.real /\ p.origTokens = Len(x.pos)
      /\ p.ids = Pad(x.ids, n, PadToken) /\ p.pos = Pad(x.pos, n, PadToken) /\ p.loc = Pad(x.loc, n, PadToken)
      /\ p.sum = x.sum + (x.bs - Len(x.rows))
      /\ p.rows = Pad(x.rows, x.bs, PadRow) /\ p.pool = Pad(x.pool, x.bs, PadRow)
      /\ p.ext = e
      /\ IsDraftInput(x.spec) =>
           /\ p.hid = Pad(x.hid, n, PadToken) /\ p.hidBackup = x.hid
           /\ p.top = IF x.top = <<>> THEN <<>> ELSE Pad(x.top, x.bs, PadRow)
      /\ ~IsDraftInput(x.spec) => p.top = x.top
  BY <1>1, <1>2, <1>3
<1> HIDE DEF p
<1>5. z = [p EXCEPT !.counts = counts, !.padding = padding, !.buffer = buffer]
  BY DEF Sized, p
<1>6. /\ DOMAIN z = Fields
      /\ z.counts = counts /\ z.padding = padding /\ z.buffer = buffer
      /\ z.mode = p.mode /\ z.orig = p.orig /\ z.spec = p.spec /\ z.bs = p.bs
      /\ z.origBs = p.origBs /\ z.real = p.real /\ z.origTokens = p.origTokens
      /\ z.ids = p.ids /\ z.pos = p.pos /\ z.loc = p.loc /\ z.sum = p.sum
      /\ z.rows = p.rows /\ z.pool = p.pool /\ z.ext = p.ext
      /\ z.hid = p.hid /\ z.hidBackup = p.hidBackup /\ z.top = p.top
  BY <1>4, <1>5 DEF Fields
<1> QED
  BY <1>4, <1>6 DEF e

\* Padding gives a batch the rows and tokens of its size.
LEMMA SizedFills ==
  ASSUME server \in Servers, NEW k \in Kinds, NEW lens \in Seq(Nat), NEW n \in Nat, Total(lens) <= n,
         NEW x, NEW b, NEW mode, NEW maxLen, Shapes(x, b, k, lens, mode, n, maxLen), Brings(x, k, lens, n),
         NEW counts, NEW padding, NEW buffer, NEW z, z = Sized(x, n, counts, padding, buffer)
  PROVE  /\ Fills(z, k, lens, n)
         /\ mode = (IF z.orig # "NONE" THEN z.orig ELSE z.mode)
         /\ mode = "EXTEND" => z.mode = "EXTEND" /\ z.sum \in Nat /\ z.sum >= Total(lens)
         /\ round.extend /\ maxLen => z.mode = "EXTEND"
         /\ z.counts = counts /\ z.padding = padding /\ z.buffer = buffer
<1> DEFINE own == TokensOf(lens)
           rows == [i \in DOMAIN lens |-> i]
           w == WidthOf(SpecOf(k))
           fill == IF x.mode = "DRAFT_EXTEND_V2" THEN x.spec.width ELSE 0
<1>1. /\ own \in Seq(Pairs) /\ Len(own) = Total(lens) /\ Total(lens) \in Nat
      /\ rows \in Seq(Nat) /\ Len(rows) = Len(lens) /\ Len(lens) \in Nat
      /\ PadToken \in Pairs
  BY Tokens DEF PadToken, Pairs
<1>2. /\ w \in Nat \ {0}
      /\ k # "target" => w = SpecOf(k).width
      /\ IsDraftInput(SpecOf(k)) <=> k \in {"draft", "extend", "prefill"}
  BY SpecIs
<1>3. DOMAIN x = Fields /\ x.spec = SpecOf(k) /\ x.bs \in Nat /\ Len(lens) <= x.bs /\ x.pool = rows
  BY DEF Shapes
<1>4. /\ DOMAIN z = Fields
      /\ z.counts = counts /\ z.padding = padding /\ z.buffer = buffer
      /\ z.mode = x.mode /\ z.orig = x.orig /\ z.spec = x.spec /\ z.bs = x.bs
      /\ z.origBs = x.origBs /\ z.real = x.real /\ z.origTokens = Len(x.pos)
      /\ z.ids = Pad(x.ids, n, PadToken) /\ z.pos = Pad(x.pos, n, PadToken) /\ z.loc = Pad(x.loc, n, PadToken)
      /\ z.sum = x.sum + (x.bs - Len(x.rows))
      /\ z.rows = Pad(x.rows, x.bs, PadRow) /\ z.pool = Pad(x.pool, x.bs, PadRow)
      /\ z.ext = IF x.ext = <<>> THEN <<>> ELSE Pad(x.ext, x.bs, fill)
      /\ IsDraftInput(x.spec) =>
           /\ z.hid = Pad(x.hid, n, PadToken) /\ z.hidBackup = x.hid
           /\ z.top = IF x.top = <<>> THEN <<>> ELSE Pad(x.top, x.bs, PadRow)
  BY <1>3, SizedFields
<1> HIDE DEF own, rows, w
<1>5. z.ids = Pad(own, n, PadToken) /\ z.pos = z.ids /\ z.loc = z.ids /\ z.origTokens = Total(lens)
  BY <1>1, <1>4 DEF Brings, own
<1>6. ASSUME IsDraftInput(z.spec) PROVE z.hid = z.ids
  <2>1. PICK m \in Nat : Total(lens) <= m /\ m <= n /\ x.hid = Pad(own, m, PadToken)
    BY <1>4, <1>6 DEF Brings, own
  <2>2. Pad(Pad(own, m, PadToken), n, PadToken) = Pad(own, n, PadToken)
    BY <1>1, <2>1, PadPad
  <2> QED
    BY <1>4, <1>5, <1>6, <2>1, <2>2
<1>7. z.pool = Pad(rows, z.bs, PadRow)
  BY <1>3, <1>4
<1>8. z.rows = z.pool
  <2>1. CASE x.rows = x.pool
    BY <1>4, <2>1
  <2>2. CASE Len(lens) = 0 /\ x.rows = <<PadRow>> /\ x.bs = 1
    <3>1. PICK v \in Nat : v = PadRow
      BY DEF PadRow
    <3>2. Pad(<<v>>, 1, v) = <<v>>
      <4>0. <<v>> \in Seq(Nat) /\ Len(<<v>>) = 1
        BY <3>1
      <4>1. PICK s \in Seq(Nat) : s = <<v>> /\ Len(s) = 1
        BY <4>0
      <4>2. Pad(s, 1, v) = s
        BY <4>1, PadsOne
      <4> QED
        BY <4>1, <4>2
    <3>3. Pad(rows, 1, v) = <<v>>
      BY <1>1, <2>2, PadsOne
    <3> QED
      BY <1>3, <1>4, <2>2, <3>1, <3>2, <3>3
  <2> QED
    BY <2>1, <2>2 DEF Shapes
<1>9. ASSUME mode = "EXTEND" PROVE z.mode = "EXTEND" /\ z.sum \in Nat /\ z.sum >= Total(lens)
  <2>1. x.mode = "EXTEND" /\ x.sum \in Nat /\ x.sum >= Total(lens)
    BY <1>9 DEF Shapes
  <2>2. Len(x.rows) \in Nat /\ Len(x.rows) <= x.bs
    <3>1. CASE x.rows = x.pool
      BY <1>1, <1>3, <3>1
    <3>2. CASE x.rows = <<PadRow>> /\ x.bs = 1
      BY <3>2
    <3> QED
      BY <3>1, <3>2 DEF Shapes
  <2> QED
    BY <1>1, <1>3, <1>4, <2>1, <2>2
<1>10. Rowed(z, lens, n)
  <2>1. CASE x.mode = "EXTEND" /\ x.ext = lens /\ x.bs = Len(lens) /\ Len(lens) > 0
    <3>1. fill = 0 /\ lens # <<>>
      BY <2>1
    <3>2. Pad(lens, Len(lens), 0) = lens
      BY <1>1, PadsNat
    <3> QED
      BY <1>4, <2>1, <3>1, <3>2 DEF Rowed
  <2>2. CASE x.mode = "EXTEND" /\ Len(lens) = 0 /\ x.ext = <<n>> /\ x.bs = 1
    <3>1. fill = 0 /\ <<n>> # <<>> /\ <<n>> \in Seq(Nat) /\ Len(<<n>>) = 1
      BY <2>2
    <3>2. Pad(<<n>>, 1, 0) = <<n>>
      <4>1. PICK s \in Seq(Nat) : s = <<n>> /\ Len(s) = 1
        BY <3>1
      <4>2. Pad(s, 1, 0) = s
        <5>1. PICK v \in Nat : v = 0
          OBVIOUS
        <5>2. Pad(s, 1, v) = s
          BY <4>1, PadsOne
        <5> QED
          BY <5>1, <5>2
      <4> QED
        BY <4>1, <4>2
    <3> QED
      BY <1>4, <2>2, <3>1, <3>2 DEF Rowed
  <2>3. CASE /\ x.mode # "EXTEND" /\ x.bs = n \div w
             /\ \A i \in 1..Len(lens) : lens[i] = w
             /\ x.ext = IF x.mode = "DRAFT_EXTEND_V2" THEN lens ELSE <<>>
    <3>1. CASE x.mode = "DRAFT_EXTEND_V2"
      <4>1. k # "target" /\ Len(lens) > 0 /\ lens # <<>>
        BY <3>1 DEF Shapes
      <4>2. fill = w
        BY <1>2, <1>3, <3>1, <4>1
      <4> DEFINE m == x.bs
                 e == [i \in 1..m |-> w]
      <4>3. m \in Nat /\ Len(lens) <= m
        BY <1>3
      <4> HIDE DEF m
      <4>4. e \in Seq(Nat) /\ Len(e) = m /\ \A i \in 1..m : e[i] = w
        BY <1>2, <4>3
      <4>5. /\ Pad(lens, m, w) \in Seq(Nat) /\ Len(Pad(lens, m, w)) = m
            /\ \A i \in 1..m : Pad(lens, m, w)[i] = (IF i <= Len(lens) THEN lens[i] ELSE w)
        BY <1>2, <4>3, PadsNat
      <4>6. \A i \in 1..m : Pad(lens, m, w)[i] = e[i]
        BY <1>1, <2>3, <4>4, <4>5
      <4> HIDE DEF e
      <4>7. Pad(lens, m, w) = e
        BY <4>4, <4>5, <4>6, SeqEqual
      <4>8. z.ext = [i \in 1..z.bs |-> w]
        BY <1>4, <2>3, <3>1, <4>1, <4>2, <4>7 DEF m, e
      <4> QED
        BY <1>3, <1>4, <2>3, <3>1, <4>8 DEF Rowed, w
    <3>2. CASE x.mode # "DRAFT_EXTEND_V2"
      BY <1>3, <1>4, <2>3, <3>2 DEF Rowed, w
    <3> QED
      BY <3>1, <3>2
  <2> QED
    BY <2>1, <2>2, <2>3 DEF Shapes, w
<1>11. ASSUME k = "draft"
       PROVE  z.hidBackup = own /\ z.orig = "NONE" /\ z.top \in Seq(Nat) /\ Len(z.top) <= z.bs
  <2>1. IsDraftInput(x.spec)
    BY <1>2, <1>3, <1>11
  <2>2. x.top \in Seq(Nat) /\ Len(x.top) <= x.bs /\ x.hid = own /\ x.orig = "NONE"
    BY <1>11 DEF Brings, Shapes, own
  <2>3. CASE x.top = <<>>
    <3>1. z.top = <<>>
      BY <1>4, <2>1, <2>3
    <3> QED
      BY <1>4, <2>1, <2>2, <2>3, <3>1
  <2>4. CASE x.top # <<>>
    <3> DEFINE s == x.top
               m == x.bs
    <3>1. s \in Seq(Nat) /\ m \in Nat /\ Len(s) <= m
      BY <1>3, <2>2
    <3> HIDE DEF s, m
    <3>2. Pad(s, m, PadRow) \in Seq(Nat) /\ Len(Pad(s, m, PadRow)) = m
      BY <3>1, PadsRows
    <3>3. z.top = Pad(s, m, PadRow)
      BY <1>4, <2>1, <2>4 DEF s, m
    <3> QED
      BY <1>3, <1>4, <2>1, <2>2, <3>2, <3>3 DEF m
  <2> QED
    BY <2>3, <2>4
<1>12. Fills(z, k, lens, n)
  <2>1. z.origBs = Len(lens) /\ (k # "draft" => z.real = Total(lens))
        /\ (k \notin {"target", "prefill"} => z.mode # "EXTEND")
    BY <1>4 DEF Shapes
  <2> QED
    BY <1>3, <1>4, <1>5, <1>6, <1>7, <1>8, <1>10, <1>11, <2>1 DEF Fills, own, rows
<1>13. /\ mode = (IF z.orig # "NONE" THEN z.orig ELSE z.mode)
       /\ round.extend /\ maxLen => z.mode = "EXTEND"
  BY <1>4 DEF Shapes
<1> QED
  BY <1>4, <1>9, <1>12, <1>13

-----------------------------------------------------------------------------
(* What a step of one rank leaves as it is on the others                     *)

LEMMA Unmoved ==
  ASSUME UNCHANGED <<server, round, work>>
  PROVE  /\ \A r : Full(r)' = Full(r)
         /\ \A r, k : RowLens(r, k)' = RowLens(r, k) /\ ModeOf(r, k)' = ModeOf(r, k)
         /\ \A k : SpecOf(k)' = SpecOf(k) /\ Gathered(k)' = Gathered(k)
         /\ \A a, c : PaddingMode(a, c)' = PaddingMode(a, c)
<1>0. server' = server /\ round' = round /\ work' = work
  OBVIOUS
<1>1. \A k : SpecOf(k)' = SpecOf(k)
  BY <1>0 DEF SpecOf
<1>2. \A r : Full(r)' = Full(r)
  BY <1>0 DEF Full, ForwardsOf, Coordinated, DraftForward, DraftForwardIdle
<1>4. \A r, k : RowLens(r, k)' = RowLens(r, k) /\ ModeOf(r, k)' = ModeOf(r, k)
  <2>1. \A r, k : RowLens(r, k)' = RowLens(r, k)
    BY <1>0, <1>1 DEF RowLens, Idles
  <2>2. \A r, k : ModeOf(r, k)' = ModeOf(r, k)
    BY <1>0 DEF ModeOf, Idles
  <2> QED
    BY <2>1, <2>2
<1>5. \A q : SyncCount(q)' = SyncCount(q)
  BY <1>0 DEF SyncCount
<1>6. \A q, k : PlanCount(q, k)' = PlanCount(q, k)
  BY <1>0 DEF PlanCount
<1>7. \A r, k : GlobalNumTokens(r, k)' = GlobalNumTokens(r, k)
  BY <1>0, <1>1, <1>5, <1>6 DEF GlobalNumTokens
<1>8. \A k : Gathered(k)' = Gathered(k)
  BY <1>7 DEF Gathered
<1>9. \A c : PrefillGraph(c)' <=> PrefillGraph(c)
  BY <1>0 DEF PrefillGraph
<1>10. \A a, c : ElasticKeepsCounts(a, c)' <=> ElasticKeepsCounts(a, c)
  BY <1>0 DEF ElasticKeepsCounts
<1>11. \A a, c : PaddingMode(a, c)' = PaddingMode(a, c)
  BY <1>0, <1>9, <1>10 DEF PaddingMode
<1> QED
  BY <1>1, <1>2, <1>4, <1>8, <1>11

LEMMA SettledStays ==
  ASSUME UNCHANGED <<server, round, work>>, chosen \subseteq chosen', NEW k, NEW c, Settled(k, c)
  PROVE  Settled(k, c)'
<1>1. PICK d \in chosen : d.counts = Gathered(k) /\ c = PaddedCounts(PaddingMode(d.answer, d.counts), d.counts)
  BY DEF Settled
<1>2. /\ d \in chosen' /\ d.counts = Gathered(k)'
      /\ c = PaddedCounts(PaddingMode(d.answer, d.counts)', d.counts)
  BY <1>1, Unmoved
<1> QED
  BY <1>2 DEF Settled

LEMMA GeometryStays ==
  ASSUME UNCHANGED <<server, round, work>>, chosen \subseteq chosen', NEW r \in Ranks,
         todo'[r] = todo[r], fb'[r] = fb[r], Geometry(r)
  PROVE  Geometry(r)'
<1>1. PICK c \in chosen :
        /\ Basis(r, c.counts)
        /\ fb[r].padding = PaddingMode(c.answer, c.counts)
        /\ fb[r].counts = PaddedCounts(fb[r].padding, c.counts)
        /\ fb[r].buffer = BufferLen(fb[r].padding, c.counts)
  BY DEF Geometry
<1>2. Again(r)' <=> Again(r)
  BY Unmoved DEF Again
<1>3. Basis(r, c.counts)'
  <2>1. CASE Again(r)
    <3>1. Settled("draft", c.counts)
      BY <1>1, <2>1 DEF Basis
    <3>2. Settled("draft", c.counts)'
      BY <3>1, SettledStays
    <3> QED
      BY <1>2, <2>1, <3>2 DEF Basis
  <2>2. CASE ~Again(r)
    <3>1. PICK k \in Kinds : k = Head(todo[r]) /\ c.counts = Gathered(k)
      BY <1>1, <2>2 DEF Basis
    <3>2. k = Head(todo'[r]) /\ c.counts = Gathered(k)'
      BY <3>1, Unmoved
    <3> QED
      BY <1>2, <2>2, <3>2 DEF Basis
  <2> QED
    BY <2>1, <2>2
<1>4. c \in chosen' /\ fb'[r].padding = PaddingMode(c.answer, c.counts)'
  BY <1>1, Unmoved
<1> QED
  BY <1>1, <1>3, <1>4 DEF Geometry

LEMMA FillsStays ==
  ASSUME UNCHANGED <<server, round, work>>, NEW b, NEW k, NEW lens, NEW size, Fills(b, k, lens, size)
  PROVE  Fills(b, k, lens, size)'
BY Unmoved DEF Fills

LEMMA KeptStays ==
  ASSUME UNCHANGED <<server, round, work>>, chosen \subseteq chosen', NEW r \in Ranks,
         fb'[r] = fb[r], out'[r] = out[r], Kept(r)
  PROVE  Kept(r)'
<1>1. PICK k \in Kinds :
        k = out[r].kind /\ Outputs(r, k, RowLens(r, k)) /\ Leftover(fb[r], r, k, RowLens(r, k))
  BY DEF Kept
<1>2. RowLens(r, k)' = RowLens(r, k) /\ ModeOf(r, k)' = ModeOf(r, k) /\ SpecOf(k)' = SpecOf(k)
  BY Unmoved
<1>3. PICK lens : lens = RowLens(r, k)
  OBVIOUS
<1>4. \A c : Settled("target", c) => Settled("target", c)'
  BY SettledStays
<1>5. \A c : Settled("draft", c) => Settled("draft", c)'
  BY SettledStays
<1>6. Outputs(r, k, lens)'
  BY <1>1, <1>3, <1>4 DEF Outputs
<1>7. PICK b : b = fb[r]
  OBVIOUS
<1>8. Leftover(b, r, k, lens)'
  BY <1>1, <1>2, <1>3, <1>5, <1>7 DEF Leftover
<1> QED
  BY <1>1, <1>2, <1>3, <1>6, <1>7, <1>8 DEF Kept

LEMMA PaddedStays ==
  ASSUME UNCHANGED <<server, round, work>>, NEW r \in Ranks, todo'[r] = todo[r], fb'[r] = fb[r], Padded(r)
  PROVE  Padded(r)'
<1>1. PICK k \in Kinds :
        /\ k = Head(todo[r])
        /\ Fills(fb[r], k, RowLens(r, k), fb[r].counts[r])
        /\ Moded(fb[r], ModeOf(r, k))
        /\ ModeOf(r, k) = "EXTEND" => fb[r].sum \in Nat /\ fb[r].sum >= Total(RowLens(r, k))
  BY DEF Padded
<1>2. PICK b : b = fb[r]
  OBVIOUS
<1>3. PICK lens : lens = RowLens(r, k)
  OBVIOUS
<1>4. PICK mode : mode = ModeOf(r, k)
  OBVIOUS
<1>5. RowLens(r, k)' = lens /\ ModeOf(r, k)' = mode
  BY <1>3, <1>4, Unmoved
<1>6. Fills(b, k, lens, b.counts[r])'
  BY <1>1, <1>2, <1>3, FillsStays
<1>7. Moded(b, mode)'
  BY <1>1, <1>2, <1>4 DEF Moded
<1> QED
  BY <1>1, <1>2, <1>3, <1>4, <1>5, <1>6, <1>7 DEF Padded

LEMMA RankStays ==
  ASSUME UNCHANGED <<server, round, work>>, chosen \subseteq chosen', NEW r \in Ranks,
         pc'[r] = pc[r], todo'[r] = todo[r], fb'[r] = fb[r], out'[r] = out[r], RankOK(r)
  PROVE  RankOK(r)'
<1>1. pc[r] \in {"inside", "computed"} => Geometry(r)' /\ Padded(r)'
  BY GeometryStays, PaddedStays DEF RankOK
<1>2. pc[r] = "computed" => out'[r] = Results(r)'
  <2>1. Results(r)' = Results(r)
    BY DEF Results
  <2> QED
    BY <2>1 DEF RankOK
<1>3. pc[r] = "ready" /\ out[r].kind # "NONE" => Kept(r)'
  BY KeptStays DEF RankOK
<1>4. pc[r] = "ready" /\ todo[r] # <<>> =>
        out'[r].kind = IF Len(todo'[r]) < Len(Full(r)') THEN Full(r)'[Len(Full(r)') - Len(todo'[r])] ELSE "NONE"
  <2>1. Full(r)' = Full(r)
    BY Unmoved
  <2> QED
    BY <2>1 DEF RankOK
<1> QED
  BY <1>1, <1>2, <1>3, <1>4 DEF RankOK

LEMMA RoundStays ==
  ASSUME UNCHANGED <<server, round, work>>, RoundOK
  PROVE  RoundOK'
BY DEF RoundOK, Modes

-----------------------------------------------------------------------------
(* The steps                                                                 *)

LEMMA PrepareHolds ==
  ASSUME IInv, NEW r \in Ranks, Prepare(r)
  PROVE  Tables' /\ RoundOK' /\ Suffix' /\ AnswersAgree' /\ \A q \in Ranks : RankOK(q)'
<1>1. PICK k \in Kinds : k = Head(todo[r]) /\ Meets(r, k)
  BY Position DEF IInv, StepInv, Prepare
<1> DEFINE b == NextBatch(r)
           al == Aligned(b)
           lens == RowLens(r, k)
           own == TokensOf(lens)
           mode == ModeOf(r, k)
<1>2. PICK answer \in {"MAX_LEN", "SUM_LEN"} :
        LET padding == PaddingMode(answer, al)
            counts == PaddedCounts(padding, al)
            shaped == Reshape([b EXCEPT !.origBs = b.bs], counts[r], padding = "MAX_LEN")
        IN /\ \A c \in chosen : c.counts = al => c.answer = answer
           /\ chosen' = chosen \union {[counts |-> al, answer |-> answer]}
           /\ IF Overflows(shaped, counts[r])
              THEN pc' = [pc EXCEPT ![r] = "raised"] /\ UNCHANGED fb
              ELSE /\ pc' = [pc EXCEPT ![r] = "inside"]
                   /\ fb' = [fb EXCEPT ![r] = [PadInputsToSize(shaped, counts[r]) EXCEPT
                                                 !.counts = counts, !.padding = padding,
                                                 !.buffer = BufferLen(padding, al)]]
  BY Zenon DEF Prepare
<1> DEFINE padding == PaddingMode(answer, al)
           counts == PaddedCounts(padding, al)
           n == counts[r]
           shaped == Reshape([b EXCEPT !.origBs = b.bs], n, padding = "MAX_LEN")
<1>3. /\ \A c \in chosen : c.counts = al => c.answer = answer
      /\ chosen' = chosen \union {[counts |-> al, answer |-> answer]}
      /\ IF Overflows(shaped, n)
         THEN pc' = [pc EXCEPT ![r] = "raised"] /\ UNCHANGED fb
         ELSE /\ pc' = [pc EXCEPT ![r] = "inside"]
              /\ fb' = [fb EXCEPT ![r] = Sized(shaped, n, counts, padding, BufferLen(padding, al))]
  BY <1>2, Zenon DEF Sized
<1>4. UNCHANGED <<server, round, work>> /\ todo' = todo /\ out' = out /\ pc[r] = "ready" /\ todo[r] # <<>>
  BY DEF Prepare
<1>5. /\ server \in Servers /\ PcTypes /\ TodoTypes /\ Tables /\ RoundOK /\ Suffix /\ AnswersAgree
      /\ \A q \in Ranks : RankOK(q)
  BY DEF IInv, StepInv
<1>6. lens \in Seq(Nat) /\ Total(lens) \in Nat /\ Len(own) = Total(lens) /\ own \in Seq(Pairs)
  BY <1>1, <1>5, RowsOf, Tokens DEF Lens
<1>7. /\ Begun(b, k, lens, mode)
      /\ b.ids = own /\ b.loc = own
      /\ k \in {"draft", "extend"} => b.hid = own
      /\ k = "prefill" => FromTarget(b.hid, r, lens)
      /\ k = "draft" => Len(b.top) <= IF Again(r) THEN fb[r].counts[r] \div server.topk ELSE Len(lens)
      /\ Again(r) => b.counts = fb[r].counts /\ Settled("draft", fb[r].counts)
      /\ ~Again(r) => al = Gathered(k)
  BY <1>1, <1>4, NextBatchIs
<1> HIDE DEF b, al, lens, own, mode, padding, counts, n, shaped
<1>8. /\ Basis(r, al)
      /\ Again(r) => al = fb[r].counts
  <2>1. CASE Again(r)
    <3>1. Even(fb[r].counts)
      <4>1. "draft" \in Kinds
        BY DEF Kinds
      <4> QED
        BY <1>5, <1>7, <2>1, <4>1, SettledEven
    <3>2. al = [q \in Ranks |-> CeilAlign(fb[r].counts[q], AttnTp)]
      BY <1>7, <2>1 DEF Aligned, al
    <3>3. al = fb[r].counts
      BY <3>1, <3>2 DEF Even
    <3> QED
      BY <1>7, <2>1, <3>3 DEF Basis
  <2>2. CASE ~Again(r)
    BY <1>1, <1>7, <2>2 DEF Basis
  <2> QED
    BY <2>1, <2>2
<1>9. Even(al) /\ Total(lens) <= al[r]
  BY <1>1, <1>4, <1>5, <1>8, BasisEven DEF lens
<1>10. Even(counts) /\ al[r] <= n /\ n \in Nat /\ al[r] \in Nat /\ Total(lens) <= n
  <2>1. Even(counts) /\ \A q \in Ranks : al[q] <= counts[q]
    BY <1>5, <1>9, PaddedEven DEF counts
  <2>2. n \in Nat /\ al[r] \in Nat /\ al[r] <= n
    BY <1>9, <2>1 DEF Even, n
  <2> QED
    BY <1>6, <1>9, <2>1, <2>2
<1>11. round.mixed => padding # "MAX_LEN"
  BY DEF PaddingMode, padding
<1>0. PICK maxLen \in BOOLEAN : maxLen = (padding = "MAX_LEN")
  OBVIOUS
<1>12. Shapes(shaped, b, k, lens, mode, n, maxLen)
  <2>1. Shapes(Reshape([b EXCEPT !.origBs = b.bs], n, maxLen), b, k, lens, mode, n, maxLen)
    BY <1>0, <1>1, <1>5, <1>7, <1>10, <1>11, ReshapeIs DEF lens, mode
  <2> QED
    BY <1>0, <2>1 DEF shaped
<1>13. Brings(shaped, k, lens, n)
  <2>1. /\ shaped.ids = own /\ shaped.pos = own /\ shaped.loc = own
        /\ shaped.hid = b.hid /\ shaped.top = b.top /\ shaped.spec = SpecOf(k)
        /\ shaped.bs \in Nat /\ Len(lens) <= shaped.bs
    BY <1>7, <1>12 DEF Shapes, Begun, own
  <2>2. IsDraftInput(SpecOf(k)) <=> k \in {"draft", "extend", "prefill"}
    BY <1>1, <1>5, SpecIs
  <2>3. ASSUME k \in {"draft", "extend", "prefill"}
        PROVE  \E m \in Nat : Total(lens) <= m /\ m <= n /\ b.hid = Pad(own, m, PadToken)
    <3>1. CASE k \in {"draft", "extend"}
      <4>1. Pad(own, Len(own), PadToken) = own
        <5>1. PadToken \in Pairs /\ Len(own) \in Nat /\ Len(own) <= Len(own)
          BY <1>6 DEF PadToken, Pairs
        <5> QED
          BY <1>6, <5>1, PadTaken
      <4> QED
        BY <1>6, <1>7, <1>10, <3>1, <4>1
    <3>2. CASE k = "prefill"
      <4>1. PICK m \in Nat, c \in [Ranks -> Nat] :
              Total(lens) <= m /\ m <= c[r] /\ Settled("target", c) /\ b.hid = Pad(own, m, PadToken)
        BY <1>7, <3>2 DEF FromTarget, own
      <4>2. c = counts
        <5>1. PICK d \in chosen :
                d.counts = Gathered("target") /\ c = PaddedCounts(PaddingMode(d.answer, d.counts), d.counts)
          BY <4>1 DEF Settled
        <5>2. ~Again(r)
          BY <1>1, <3>2 DEF Again
        <5>3. Gathered("target") = Gathered("prefill")
          <6>1. Meets(r, "target") /\ Meets(r, "prefill") /\ "target" \in Kinds /\ "prefill" \in Kinds
            <7>1. Meets(r, "prefill")
              BY <1>1, <3>2
            <7> QED
              BY <7>1 DEF Meets, Kinds
          <6>2. GlobalNumTokens(r, "target") = GlobalNumTokens(r, "prefill")
            BY <1>5, <6>1, SameCounts
          <6> QED
            BY <1>5, <6>1, <6>2, GatheredEven
        <5>4. d.counts = al
          BY <1>7, <3>2, <5>1, <5>2, <5>3
        <5>5. d.answer = answer
          BY <1>3, <5>1, <5>4
        <5> QED
          BY <5>1, <5>4, <5>5 DEF counts, padding
      <4> QED
        BY <4>1, <4>2 DEF n
    <3> QED
      BY <2>3, <3>1, <3>2
  <2>4. b.top \in Seq(Nat) /\ Len(b.top) <= shaped.bs
    <3>1. b.top \in Seq(Nat) /\ Len(b.top) \in Nat
      BY <1>7 DEF Begun
    <3>2. CASE k # "draft"
      <4>1. b.top = <<>>
        BY <1>7, <3>2 DEF Begun
      <4> QED
        BY <2>1, <3>1, <4>1
    <3>3. CASE k = "draft" /\ ~Again(r)
      <4>1. Len(b.top) <= Len(lens) /\ Len(lens) \in Nat
        BY <1>6, <1>7, <3>3
      <4> QED
        BY <2>1, <3>1, <4>1
    <3>4. CASE k = "draft" /\ Again(r)
      <4> DEFINE w == server.topk
      <4>1. Len(b.top) <= al[r] \div w
        BY <1>7, <1>8, <3>4
      <4>2. w \in Nat \ {0} /\ WidthOf(SpecOf(k)) = w
        BY <1>5, <3>4, SpecIs, ServerTypes DEF Kinds
      <4>3. shaped.bs = n \div w
        BY <1>12, <3>4, <4>2 DEF Shapes
      <4> HIDE DEF w
      <4>4. al[r] \div w \in Nat /\ (al[r] \div w) * w <= al[r]
        BY <1>10, <4>2, RowsFit
      <4>5. (al[r] \div w) * w <= n
        <5> DEFINE x == (al[r] \div w) * w
        <5>1. x \in Nat /\ x <= al[r]
          BY <4>2, <4>4
        <5> HIDE DEF x
        <5>2. x <= n
          BY <1>10, <5>1
        <5> QED
          BY <5>2 DEF x
      <4>6. al[r] \div w <= n \div w /\ n \div w \in Nat
        BY <1>10, <4>2, <4>4, <4>5, RowsFit
      <4> QED
        BY <3>1, <4>1, <4>3, <4>4, <4>6
    <3> QED
      BY <3>2, <3>3, <3>4
  <2>5. k = "draft" => b.hid = own
    BY <1>7
  <2> QED
    BY <2>1, <2>2, <2>3, <2>4, <2>5 DEF Brings, own
<1>14. ~Overflows(shaped, n)
  BY <1>6, <1>10, <1>12, <1>13, NoOverflow
<1> DEFINE z == Sized(shaped, n, counts, padding, BufferLen(padding, al))
<1>15. pc' = [pc EXCEPT ![r] = "inside"] /\ fb' = [fb EXCEPT ![r] = z]
  BY <1>3, <1>14
<1>16. /\ Fills(z, k, lens, n)
       /\ mode = (IF z.orig # "NONE" THEN z.orig ELSE z.mode)
       /\ mode = "EXTEND" => z.mode = "EXTEND" /\ z.sum \in Nat /\ z.sum >= Total(lens)
       /\ round.extend /\ padding = "MAX_LEN" => z.mode = "EXTEND"
       /\ z.counts = counts /\ z.padding = padding /\ z.buffer = BufferLen(padding, al)
  <2> DEFINE buffer == BufferLen(padding, al)
  <2>1. z = Sized(shaped, n, counts, padding, buffer)
    OBVIOUS
  <2>2. server \in Servers /\ n \in Nat /\ Total(lens) <= n
    BY <1>5, <1>10
  <2> HIDE DEF z, buffer
  <2>3. /\ Fills(z, k, lens, n)
        /\ mode = (IF z.orig # "NONE" THEN z.orig ELSE z.mode)
        /\ mode = "EXTEND" => z.mode = "EXTEND" /\ z.sum \in Nat /\ z.sum >= Total(lens)
        /\ round.extend /\ maxLen => z.mode = "EXTEND"
        /\ z.counts = counts /\ z.padding = padding /\ z.buffer = buffer
    BY <1>6, <1>12, <1>13, <2>1, <2>2, SizedFills
  <2> QED
    BY <1>0, <2>3 DEF buffer
<1> HIDE DEF z
<1>17. /\ pc'[r] = "inside" /\ fb'[r] = z
       /\ \A q \in Ranks : q # r => pc'[q] = pc[q] /\ fb'[q] = fb[q]
       /\ DOMAIN fb' = Ranks
  BY <1>5, <1>15 DEF PcTypes, Tables
<1>18. PICK d \in chosen' : d = [counts |-> al, answer |-> answer]
  BY <1>3
<1>19. chosen \subseteq chosen' /\ \A c \in chosen' : c \in chosen \/ c = d
  BY <1>3, <1>18
<1>20. AnswersAgree'
  <2>1. DOMAIN d = {"counts", "answer"} /\ d.answer = answer /\ d.counts = al
    BY <1>18
  <2>2. \A c \in chosen' : DOMAIN c = {"counts", "answer"} /\ c.answer \in {"MAX_LEN", "SUM_LEN"}
    BY <1>5, <1>19, <2>1 DEF AnswersAgree
  <2>3. \A c, e \in chosen' : c.counts = e.counts => c.answer = e.answer
    BY <1>3, <1>5, <1>19, <2>1 DEF AnswersAgree
  <2> QED
    BY <2>2, <2>3 DEF AnswersAgree
<1>21. ASSUME NEW q \in Ranks, q # r PROVE RankOK(q)'
  BY <1>4, <1>5, <1>17, <1>19, <1>21, RankStays
<1>22. PICK e : e = al
  OBVIOUS
<1>23. PICK y : y = z
  OBVIOUS
<1>24. PICK p : p = padding
  OBVIOUS
<1>25. /\ d.counts = e /\ d.answer = answer
       /\ p = PaddingMode(d.answer, d.counts)
       /\ y.padding = p /\ y.counts = PaddedCounts(p, d.counts) /\ y.buffer = BufferLen(p, d.counts)
       /\ fb'[r] = y
  BY <1>16, <1>17, <1>18, <1>22, <1>23, <1>24 DEF padding, counts
<1>26. Geometry(r)'
  <2>1. Again(r)' <=> Again(r)
    BY <1>4, Unmoved DEF Again
  <2>2. Basis(r, e)'
    <3>1. CASE Again(r)
      <4>1. Settled("draft", e)
        BY <1>8, <1>22, <3>1 DEF Basis
      <4>2. Settled("draft", e)'
        BY <1>4, <1>19, <4>1, SettledStays
      <4> QED
        BY <2>1, <3>1, <4>2 DEF Basis
    <3>2. CASE ~Again(r)
      <4>1. e = Gathered(k)'
        BY <1>4, <1>7, <1>22, <3>2, Unmoved
      <4> QED
        BY <1>1, <1>4, <2>1, <3>2, <4>1 DEF Basis
    <3> QED
      BY <3>1, <3>2
  <2>3. PaddingMode(d.answer, d.counts)' = p
    BY <1>4, <1>25, Unmoved
  <2> QED
    BY <1>25, <2>2, <2>3 DEF Geometry
<1>27. PICK l : l = lens
  OBVIOUS
<1>28. PICK m : m = mode
  OBVIOUS
<1>29. RowLens(r, k)' = l /\ ModeOf(r, k)' = m
  BY <1>4, <1>27, <1>28, Unmoved DEF lens, mode
<1>30. Padded(r)'
  <2>1. PICK j : j = y.counts[r]
    OBVIOUS
  <2>2. j = n
    BY <1>16, <1>23, <2>1 DEF n
  <2>3. Fills(y, k, l, j)
    BY <1>16, <1>23, <1>27, <2>2
  <2>4. Fills(y, k, l, j)'
    BY <1>4, <2>3, FillsStays
  <2>5. Moded(y, m)'
    BY <1>4, <1>16, <1>23, <1>28 DEF Moded
  <2>6. m = "EXTEND" => y.sum \in Nat /\ y.sum >= Total(l)
    BY <1>16, <1>23, <1>27, <1>28
  <2> QED
    BY <1>1, <1>4, <1>25, <1>29, <2>1, <2>4, <2>5, <2>6 DEF Padded
<1>31. RankOK(r)'
  BY <1>17, <1>26, <1>30 DEF RankOK
<1>32. Tables' /\ RoundOK' /\ Suffix'
  <2>1. \A q \in Ranks : Full(q)' = Full(q)
    BY <1>4, Unmoved
  <2>2. Suffix'
    BY <1>4, <1>5, <2>1 DEF Suffix
  <2> QED
    BY <1>4, <1>5, <1>17, <2>2, RoundStays DEF Tables
<1> QED
  BY <1>20, <1>21, <1>31, <1>32

LEMMA InitStands == Init => IInv
<1> SUFFICES ASSUME Init PROVE IInv
  OBVIOUS
<1>1. /\ server \in Servers /\ round = NoRound /\ chosen = {}
      /\ work = [r \in Ranks |-> IdleBatch] /\ todo = [r \in Ranks |-> <<>>]
      /\ pc = [r \in Ranks |-> "ready"]
      /\ fb = [r \in Ranks |-> NoBatch] /\ out = [r \in Ranks |-> NoResult]
  BY DEF Init
<1>2. RoundOK
  <2>1. IdleBatch \in Batches /\ IdleBatch.mode = "IDLE"
    BY DEF Batches, IdleBatch, Batch
  <2>2. Modes(work) \subseteq {"IDLE"}
    BY <1>1, <2>1 DEF Modes
  <2>3. "EXTEND" \notin Modes(work)
    BY <2>2
  <2>4. round.extend = FALSE /\ round.mixed = FALSE /\ round.graph = FALSE
    BY <1>1 DEF NoRound
  <2> QED
    <3>1. work \in [Ranks -> Batches]
      BY <1>1, <2>1
    <3>2. round.extend = ("EXTEND" \in Modes(work))
      <4>1. ("EXTEND" \in Modes(work)) = FALSE
        BY <2>3
      <4>2. round.extend = FALSE
        BY <2>4
      <4> QED
        BY <4>1, <4>2, Zenon
    <3>3. round.mixed = (server.spec /\ "EXTEND" \in Modes(work) /\ "DECODE" \in Modes(work))
      BY <2>3, <2>4
    <3>4. round.graph \in BOOLEAN
      BY <2>4
    <3> QED
      BY <3>1, <3>2, <3>3, <3>4 DEF RoundOK
<1>3. Suffix
  <2> SUFFICES ASSUME NEW r \in Ranks
               PROVE  /\ Len(todo[r]) <= Len(Full(r))
                      /\ \A i \in 1..Len(todo[r]) : todo[r][i] = Full(r)[Len(Full(r)) - Len(todo[r]) + i]
    BY DEF Suffix
  <2>1. Len(todo[r]) = 0
    BY <1>1
  <2>2. Len(Full(r)) \in Nat
    BY <1>1, <1>2, RoundOf
  <2> QED
    BY <2>1, <2>2
<1>4. AnswersAgree /\ Tables
  BY <1>1 DEF AnswersAgree, Tables
<1>5. \A r \in Ranks : RankOK(r)
  <2>1. \A r \in Ranks : pc[r] = "ready" /\ todo[r] = <<>> /\ out[r].kind = "NONE"
    BY <1>1 DEF NoResult
  <2> QED
    BY <2>1 DEF RankOK
<1> QED
  BY <1>2, <1>3, <1>4, <1>5, InitHolds DEF IInv

LEMMA StartRoundHolds ==
  ASSUME IInv, StartRound
  PROVE  Tables' /\ RoundOK' /\ Suffix' /\ AnswersAgree' /\ \A q \in Ranks : RankOK(q)'
<1>1. PICK w \in [Ranks -> Batches], graph \in BOOLEAN :
        LET extend == "EXTEND" \in Modes(w)
            heterogeneous == extend /\ "DECODE" \in Modes(w)
            rd == [extend |-> extend, mixed |-> server.spec /\ heterogeneous, graph |-> graph]
        IN work' = w /\ round' = rd /\ todo' = [r \in Ranks |-> ForwardsOf(w[r].mode, rd)]
  BY DEF StartRound
<1> DEFINE rd == [extend |-> "EXTEND" \in Modes(w),
                  mixed |-> server.spec /\ "EXTEND" \in Modes(w) /\ "DECODE" \in Modes(w), graph |-> graph]
<1>2. work' = w /\ round' = rd /\ todo' = [r \in Ranks |-> ForwardsOf(w[r].mode, rd)]
  BY <1>1
<1>3. rd.extend = ("EXTEND" \in Modes(w))
  OBVIOUS
<1>4. rd.mixed = (server.spec /\ "EXTEND" \in Modes(w) /\ "DECODE" \in Modes(w))
  OBVIOUS
<1>5. rd.graph = graph
  OBVIOUS
<1> HIDE DEF rd
<1>6. /\ server' = server /\ pc' = pc /\ chosen' = {} /\ \A r \in Ranks : pc[r] = "ready"
      /\ fb' = [r \in Ranks |-> NoBatch] /\ out' = [r \in Ranks |-> NoResult]
  BY DEF StartRound
<1>7. RoundOK'
  <2>1. Modes(work)' = Modes(w)
    BY <1>2 DEF Modes
  <2> QED
    BY <1>2, <1>3, <1>4, <1>5, <1>6, <2>1 DEF RoundOK
<1>8. ASSUME NEW r \in Ranks PROVE todo'[r] = Full(r)' /\ Len(todo'[r]) \in Nat
  <2>1. todo'[r] = ForwardsOf(w[r].mode, rd)
    BY <1>2
  <2>2. Full(r)' = ForwardsOf(w[r].mode, rd)
    BY <1>2, <1>6 DEF Full, ForwardsOf, Coordinated, DraftForward, DraftForwardIdle
  <2>3. StepInv'
    BY StartRoundKeeps DEF IInv
  <2>4. todo'[r] \in Seq(Kinds)
    BY <2>3 DEF StepInv, TodoTypes
  <2> QED
    BY <2>1, <2>2, <2>4
<1>9. Suffix'
  <2> SUFFICES ASSUME NEW r \in Ranks
               PROVE  /\ Len(todo'[r]) <= Len(Full(r)')
                      /\ \A i \in 1..Len(todo'[r]) :
                           todo'[r][i] = Full(r)'[Len(Full(r)') - Len(todo'[r]) + i]
    BY DEF Suffix
  <2>1. todo'[r] = Full(r)' /\ Len(todo'[r]) \in Nat
    BY <1>8
  <2>2. \A i \in 1..Len(todo'[r]) : Len(todo'[r]) - Len(todo'[r]) + i = i
    BY <2>1
  <2> QED
    BY <2>1, <2>2
<1>10. AnswersAgree' /\ Tables'
  BY <1>6 DEF AnswersAgree, Tables
<1>11. ASSUME NEW r \in Ranks PROVE RankOK(r)'
  <2>1. pc'[r] = "ready" /\ out'[r].kind = "NONE"
    BY <1>6 DEF NoResult
  <2>2. ~(Len(todo'[r]) < Len(Full(r)'))
    BY <1>8
  <2> QED
    BY <2>1, <2>2 DEF RankOK
<1> QED
  BY <1>7, <1>9, <1>10, <1>11

LEMMA ForwardHolds ==
  ASSUME IInv, Forward
  PROVE  Tables' /\ RoundOK' /\ Suffix' /\ AnswersAgree' /\ \A q \in Ranks : RankOK(q)'
<1>1. /\ UNCHANGED <<server, round, work>> /\ todo' = todo /\ fb' = fb /\ chosen' = chosen
      /\ pc' = [r \in Ranks |-> "computed"] /\ out' = [r \in Ranks |-> Results(r)]
      /\ \A r \in Ranks : pc[r] = "inside"
  BY DEF Forward
<1>2. Tables /\ RoundOK /\ Suffix /\ AnswersAgree /\ \A q \in Ranks : RankOK(q)
  BY DEF IInv
<1>3. ASSUME NEW r \in Ranks PROVE RankOK(r)'
  <2>1. Geometry(r)' /\ Padded(r)'
    BY <1>1, <1>2, GeometryStays, PaddedStays DEF RankOK
  <2>2. out'[r] = Results(r)'
    <3>1. Results(r)' = Results(r)
      BY <1>1 DEF Results
    <3> QED
      BY <1>1, <3>1
  <2>3. pc'[r] = "computed"
    BY <1>1
  <2> QED
    BY <2>1, <2>2, <2>3 DEF RankOK
<1>4. \A q \in Ranks : Full(q)' = Full(q)
  BY <1>1, Unmoved
<1>5. Tables'
  BY <1>1, <1>2 DEF Tables
<1>6. RoundOK'
  BY <1>1, <1>2, RoundStays
<1>7. Suffix'
  BY <1>1, <1>2, <1>4 DEF Suffix
<1>8. AnswersAgree'
  BY <1>1, <1>2 DEF AnswersAgree
<1> QED
  BY <1>3, <1>5, <1>6, <1>7, <1>8

-----------------------------------------------------------------------------
(* What is left of a forward                                                 *)

LEMMA RowsTaken ==
  ASSUME NEW s \in Seq(Nat), NEW n \in Nat, Len(s) <= n
  PROVE  Take(Pad(s, n, PadRow), Len(s)) = s
<1>1. PICK R : R = Nat
  OBVIOUS
<1>2. s \in Seq(R) /\ PadRow \in R
  BY <1>1 DEF PadRow
<1> HIDE <1>1
<1> QED
  BY <1>2, PadTaken

\* Rows with tokens are at most as many as their tokens.
LEMMA RowsBelow ==
  ASSUME NEW lens \in Lens
  PROVE  Len(lens) <= Total(lens)
<1> DEFINE Bad == {i \in 1..(Len(lens) + 1) : ~(i - 1 <= Start(lens, i))}
<1>0. lens \in Seq(Nat) /\ \A i \in 1..Len(lens) : lens[i] >= 1
  BY DEF Lens
<1>1. Bad \in SUBSET Nat
  OBVIOUS
<1>2. CASE Bad = {}
  <2>1. Len(lens) + 1 \in 1..(Len(lens) + 1) /\ Len(lens) + 1 - 1 = Len(lens)
    BY <1>0
  <2>2. Len(lens) + 1 - 1 <= Start(lens, Len(lens) + 1)
    BY <1>2, <2>1
  <2> QED
    BY <1>0, <2>1, <2>2, Starts
<1>3. CASE Bad # {}
  <2>1. PICK i \in Bad : \A y \in Bad : i <= y
    BY <1>1, <1>3, Smallest
  <2>2. i # 1
    BY <1>0, <2>1, Starts
  <2>3. i - 1 \in 1..Len(lens) /\ i - 1 \in 1..(Len(lens) + 1) /\ (i - 1) + 1 = i /\ i - 1 < i /\ i \in Nat
    BY <1>0, <2>1, <2>2
  <2>4. i - 1 - 1 <= Start(lens, i - 1) /\ Start(lens, i - 1) \in Nat
    BY <1>0, <2>1, <2>3, Starts
  <2>5. Start(lens, (i - 1) + 1) = Start(lens, i - 1) + lens[i - 1]
    BY <1>0, <2>3, Starts
  <2>6. lens[i - 1] \in Nat /\ lens[i - 1] >= 1
    BY <1>0, <2>3
  <2>7. i - 1 <= Start(lens, i)
    BY <2>3, <2>4, <2>5, <2>6
  <2> QED
    BY <2>1, <2>7
<1> QED
  BY <1>2, <1>3

\* The last token of every row.
Lasts(lens) == [i \in DOMAIN lens |-> <<i, lens[i]>>]

LEMMA LastsAre ==
  ASSUME NEW lens \in Lens
  PROVE  /\ Lasts(lens) \in Seq(Pairs) /\ Len(Lasts(lens)) = Len(lens)
         /\ \A i \in 1..Len(lens) :
              /\ Lasts(lens)[i] = <<i, lens[i]>> /\ lens[i] # 0
              /\ Start(lens, i + 1) \in 1..Total(lens)
              /\ TokensOf(lens)[Start(lens, i + 1)] = <<i, lens[i]>>
<1>0. lens \in Seq(Nat) /\ \A i \in 1..Len(lens) : lens[i] >= 1
  BY DEF Lens
<1>1. /\ Lasts(lens) \in Seq(Pairs) /\ Len(Lasts(lens)) = Len(lens)
      /\ \A i \in 1..Len(lens) : Lasts(lens)[i] = <<i, lens[i]>>
  <2>1. Lasts(lens) = [i \in 1..Len(lens) |-> <<i, lens[i]>>]
    BY <1>0 DEF Lasts
  <2>2. \A i \in 1..Len(lens) : <<i, lens[i]>> \in Pairs
    BY <1>0 DEF Pairs
  <2>3. Len(lens) \in Nat
    BY <1>0
  <2> HIDE <1>0
  <2> QED
    BY <2>1, <2>2, <2>3
<1>2. ASSUME NEW i \in 1..Len(lens)
      PROVE  /\ lens[i] # 0
             /\ Start(lens, i + 1) \in 1..Total(lens)
             /\ TokensOf(lens)[Start(lens, i + 1)] = <<i, lens[i]>>
  <2> DEFINE s == Start(lens, i)
             e == Start(lens, i + 1)
  <2>1. s \in Nat /\ e \in Nat /\ e = s + lens[i]
    <3>1. i \in 1..(Len(lens) + 1) /\ i + 1 \in 1..(Len(lens) + 1)
      BY <1>0
    <3> QED
      BY <1>0, <3>1, Starts
  <2>2. lens[i] \in Nat /\ lens[i] >= 1
    BY <1>0
  <2>3. s < e /\ e <= e
    BY <2>1, <2>2
  <2>4. e \in 1..Total(lens) /\ TokensOf(lens)[e] = <<i, e - s>>
    BY <1>0, <2>1, <2>3, Tokens
  <2>5. e - s = lens[i]
    BY <2>1, <2>2
  <2> QED
    BY <2>2, <2>4, <2>5
<1> QED
  BY <1>1, <1>2

\* A batch with a token for every row has only last tokens.
LEMMA LastsOfOne ==
  ASSUME NEW lens \in Lens, \A i \in 1..Len(lens) : lens[i] = 1
  PROVE  TokensOf(lens) = Lasts(lens) /\ Total(lens) = Len(lens)
<1>0. lens \in Seq(Nat)
  BY DEF Lens
<1>1. Total(lens) = Len(lens) /\ \A i \in 1..(Len(lens) + 1) : Start(lens, i) = i - 1
  <2>1. PICK w \in Nat : w = 1
    OBVIOUS
  <2>2. \A i \in 1..Len(lens) : lens[i] = w
    BY <2>1
  <2>3. /\ \A i \in 1..(Len(lens) + 1) : Start(lens, i) = (i - 1) * w
        /\ Total(lens) = Len(lens) * w
    BY <1>0, <2>2, EvenStarts
  <2> QED
    BY <1>0, <2>1, <2>3
<1>2. TokensOf(lens) \in Seq(Pairs) /\ Len(TokensOf(lens)) = Len(lens)
  BY <1>0, <1>1, Tokens
<1>3. ASSUME NEW i \in 1..Len(lens) PROVE TokensOf(lens)[i] = Lasts(lens)[i]
  <2>1. i + 1 \in 1..(Len(lens) + 1) /\ i + 1 - 1 = i
    BY <1>0
  <2>2. Start(lens, i + 1) = i
    BY <1>1, <2>1
  <2> QED
    BY <2>2, LastsAre
<1> QED
  BY <1>1, <1>2, <1>3, LastsAre, SeqEqual

\* An extend whose rows are the rank's own keeps the last token of each.
LEMMA LastTokensAre ==
  ASSUME NEW lens \in Lens, NEW b, NEW k, NEW size, Fills(b, k, lens, size),
         b.ext = lens, b.bs = Len(lens)
  PROVE  LastTokens(b) = Lasts(lens)
<1>0. lens \in Seq(Nat)
  BY DEF Lens
<1>1. /\ b.pos = b.ids /\ b.pool \in Seq(Nat) /\ Len(b.pool) = Len(lens)
      /\ \A j \in 1..size : b.ids[j] = (IF j <= Total(lens) THEN TokensOf(lens)[j] ELSE PadToken)
      /\ size \in Nat /\ Total(lens) <= size
  <2>1. b.pos = b.ids /\ Len(b.pool) = b.bs
    BY <1>0, FilledLengths
  <2>3. b.pool \in Seq(Nat)
    BY <1>0, FilledLengths
  <2>4. \A j \in 1..size : b.ids[j] = (IF j <= Total(lens) THEN TokensOf(lens)[j] ELSE PadToken)
    BY <1>0, FilledLengths
  <2>2. size \in Nat /\ Total(lens) <= size
    BY DEF Fills
  <2> QED
    BY <2>1, <2>2, <2>3, <2>4
<1>2. DOMAIN b.pool = DOMAIN lens /\ DOMAIN lens = 1..Len(lens)
  BY <1>0, <1>1
<1>3. ASSUME NEW i \in 1..Len(lens)
      PROVE  (IF b.ext[i] = 0 THEN PadToken ELSE b.pos[Total(Take(b.ext, i))]) = <<i, lens[i]>>
  <2>1. Total(Take(lens, i)) = Start(lens, i + 1)
    <3>1. i + 1 - 1 = i
      BY <1>0
    <3> QED
      BY <3>1 DEF Start
  <2>2. /\ lens[i] # 0 /\ Start(lens, i + 1) \in 1..Total(lens)
        /\ TokensOf(lens)[Start(lens, i + 1)] = <<i, lens[i]>>
    BY LastsAre
  <2>3. Total(lens) \in Nat
    BY <1>0, Tokens
  <2>4. Start(lens, i + 1) \in 1..size /\ Start(lens, i + 1) <= Total(lens)
    BY <1>1, <2>2, <2>3
  <2>5. b.pos[Start(lens, i + 1)] = <<i, lens[i]>>
    BY <1>1, <2>2, <2>4
  <2> QED
    BY <2>1, <2>2, <2>5
<1> QED
  BY <1>2, <1>3 DEF LastTokens, Lasts

\* The mode and size of a batch from before it was padded.
LEMMA RestoredIs ==
  ASSUME NEW b, DOMAIN b = Fields, NEW mode, mode = (IF b.orig # "NONE" THEN b.orig ELSE b.mode),
         NEW c, c = Restored(b)
  PROVE  /\ DOMAIN c = Fields
         /\ c.mode = mode /\ c.bs = b.origBs
         /\ c.orig = b.orig /\ c.spec = b.spec /\ c.origTokens = b.origTokens /\ c.pos = b.pos
         /\ c.rows = b.rows /\ c.pool = b.pool /\ c.ext = b.ext /\ c.sum = b.sum /\ c.top = b.top
         /\ c.hidBackup = b.hidBackup /\ c.counts = b.counts
<1>1. c = [b EXCEPT !.mode = mode, !.bs = b.origBs]
  <2>1. (IF b.orig # "NONE" THEN b.orig ELSE b.mode) = mode
    OBVIOUS
  <2> QED
    BY <2>1 DEF Restored
<1> QED
  BY <1>1 DEF Fields

\* Which modes a kind of forward has on a rank with these rows.
Fitting(k, mode, lens) ==
  /\ mode \in {"IDLE", "DECODE", "EXTEND", "TARGET_VERIFY", "DRAFT_EXTEND_V2"}
  /\ mode = "IDLE" <=> Len(lens) = 0
  /\ mode # "IDLE" =>
       /\ k = "draft" => mode = "DECODE"
       /\ k = "verify" => mode = "TARGET_VERIFY"
       /\ k = "extend" => mode = "DRAFT_EXTEND_V2"
       /\ k = "prefill" => mode = "EXTEND"
       /\ k = "target" => mode \in {"DECODE", "EXTEND"}
  /\ mode # "EXTEND" => \A i \in 1..Len(lens) : lens[i] = WidthOf(SpecOf(k))

\* How many results are kept: those of the rank's own tokens, or in an extend
\* of its own rows; the target of an extend may keep more than its tokens.
Keeps(m, k, mode, lens) ==
  /\ m \in Nat
  /\ mode # "EXTEND" => m = Total(lens)
  /\ mode = "EXTEND" /\ k # "target" => m = Len(lens)
  /\ mode = "EXTEND" /\ k = "target" => m >= Total(lens)

LEMMA KeptAre ==
  ASSUME server \in Servers, NEW k \in Kinds, NEW lens \in Lens, NEW mode, Fitting(k, mode, lens),
         NEW c, c.mode = mode, c.bs = Len(lens), c.spec = SpecOf(k),
         mode = "EXTEND" => c.sum \in Nat /\ c.sum >= Total(lens),
         k = "draft" => c.hidBackup = TokensOf(lens)
  PROVE  Keeps(KeptResults(c), k, mode, lens)
<1> DEFINE w == WidthOf(SpecOf(k))
<1>0. lens \in Seq(Nat) /\ Len(lens) \in Nat
  BY DEF Lens
<1>1. Total(lens) \in Nat /\ Len(TokensOf(lens)) = Total(lens)
  BY <1>0, Tokens
<1>2. /\ k = "target" => SpecOf(k) = NoSpec /\ w = 1
      /\ k # "target" => SpecOf(k) # NoSpec /\ SpecOf(k).width = w
      /\ k = "draft" => SpecOf(k).type = "DRAFT"
      /\ k = "verify" => SpecOf(k).type = "VERIFY"
      /\ k = "extend" => SpecOf(k).type = "DRAFT_EXTEND"
      /\ k = "prefill" => SpecOf(k).type = "DRAFT_EXTEND"
      /\ w \in Nat \ {0}
  <2>1. SpecOf(k) = NoSpec => w = 1
    BY DEF WidthOf
  <2> HIDE DEF w
  <2> QED
    BY <2>1, SpecIs DEF w
<1>3. mode # "EXTEND" => Total(lens) = Len(lens) * w
  <2> HIDE DEF w
  <2>1. mode # "EXTEND" => \A i \in 1..Len(lens) : lens[i] = w
    BY DEF Fitting, w
  <2>2. w \in Nat
    BY <1>2
  <2> QED
    BY <1>0, <2>1, <2>2, EvenStarts
<1>4. Len(lens) = 0 => Total(lens) = 0
  BY <1>0, NoRows
<1> HIDE DEF w
<1> DEFINE m == KeptResults(c)
<1>5. CASE k = "target"
  <2>1. m = IF mode = "EXTEND" THEN c.sum ELSE c.bs
    <3>1. mode \in {"IDLE", "DECODE", "EXTEND"}
      BY <1>5 DEF Fitting
    <3>2. c.spec = NoSpec /\ c.spec.type = "NONE"
      BY <1>2, <1>5 DEF NoSpec
    <3> QED
      BY <3>1, <3>2, Zenon DEF KeptResults
  <2> HIDE DEF m
  <2>2. mode # "EXTEND" => Total(lens) = Len(lens)
    BY <1>0, <1>2, <1>3, <1>5
  <2>3. mode # "EXTEND" => m = Len(lens)
    BY <2>1
  <2>4. mode = "EXTEND" => m \in Nat /\ m >= Total(lens)
    BY <2>1
  <2> QED
    BY <1>0, <1>1, <1>5, <2>2, <2>3, <2>4 DEF Keeps, m
<1>6. CASE k = "draft"
  <2>1. mode \in {"IDLE", "DECODE"}
    BY <1>6 DEF Fitting
  <2>2. mode = "DECODE" => m = Len(TokensOf(lens))
    BY <1>2, <1>6 DEF KeptResults, NoSpec
  <2>3. mode = "IDLE" => m = Len(lens)
    BY <1>2, <1>6 DEF KeptResults, NoSpec
  <2> HIDE DEF m
  <2>4. m = Total(lens)
    BY <1>1, <1>4, <2>1, <2>2, <2>3 DEF Fitting
  <2> QED
    BY <1>1, <2>1, <2>4 DEF Keeps, m
<1>7. CASE k \in {"verify", "extend"}
  <2>1. mode \in {"IDLE", "TARGET_VERIFY", "DRAFT_EXTEND_V2"}
    BY <1>7 DEF Fitting
  <2>2. mode # "IDLE" => m = Len(lens) * w
    <3>1. mode # "IDLE" => m = c.bs * c.spec.width
      BY <1>2, <1>7, <2>1 DEF KeptResults, NoSpec
    <3> HIDE DEF m
    <3> QED
      BY <1>2, <1>7, <3>1
  <2>3. mode = "IDLE" => m = Len(lens)
    BY <1>2, <1>7 DEF KeptResults, NoSpec
  <2> HIDE DEF m
  <2>4. m = Total(lens)
    <3>1. CASE mode = "IDLE"
      BY <1>4, <2>3, <3>1 DEF Fitting
    <3>2. CASE mode # "IDLE"
      BY <1>3, <2>1, <2>2, <3>2
    <3> QED
      BY <3>1, <3>2
  <2> QED
    BY <1>1, <2>1, <2>4 DEF Keeps, m
<1>8. CASE k = "prefill"
  <2>1. mode \in {"IDLE", "EXTEND"}
    BY <1>8 DEF Fitting
  <2>2. m = Len(lens)
    BY <1>2, <1>8, <2>1 DEF KeptResults, NoSpec
  <2> HIDE DEF m
  <2>3. mode = "IDLE" => m = Total(lens)
    BY <1>4, <2>2 DEF Fitting
  <2> QED
    BY <1>0, <1>8, <2>1, <2>2, <2>3 DEF Keeps, m
<1> QED
  BY <1>5, <1>6, <1>7, <1>8 DEF Kinds, m

\* The results of a padded batch, cut to those that are kept, are the rank's
\* own: in an extend the last token of every row, elsewhere every token.
Logits(b) == IF b.mode = "EXTEND" THEN LastTokens(b) ELSE b.pos

LEMMA NoneTaken ==
  ASSUME NEW n \in Nat, NEW s, DOMAIN s = 1..n, s = [i \in 1..n |-> s[i]]
  PROVE  Take(s, 0) = <<>>
<1> DEFINE S == {s[i] : i \in 1..n}
<1>1. s \in Seq(S)
  <2>1. s \in [1..n -> S]
    <3>1. \A i \in 1..n : s[i] \in S
      OBVIOUS
    <3> HIDE DEF S
    <3> QED
      BY <3>1
  <2> HIDE DEF S
  <2> QED
    BY <2>1
<1> HIDE DEF S
<1>2. PICK z \in Nat : z = 0
  OBVIOUS
<1>3. /\ Take(s, z) \in Seq(S)
      /\ Len(Take(s, z)) = (IF z <= Len(s) THEN z ELSE Len(s))
  <2> HIDE <1>2
  <2> QED
    BY <1>1, Taken
<1>4. Take(s, z) \in Seq(S) /\ Len(Take(s, z)) = 0
  BY <1>1, <1>2, <1>3
<1>5. Take(s, z) = <<>>
  <2> DEFINE t == Take(s, z)
  <2>1. t \in Seq(S) /\ Len(t) = 0
    BY <1>4
  <2> HIDE DEF t
  <2>2. t = <<>>
    BY <2>1
  <2> QED
    BY <2>2 DEF t
<1> QED
  BY <1>2, <1>5

LEMMA LogitsAre ==
  ASSUME server \in Servers, NEW k \in Kinds, NEW lens \in Lens, NEW mode, Fitting(k, mode, lens),
         NEW b, NEW size, Fills(b, k, lens, size), Moded(b, mode), NEW m, Keeps(m, k, mode, lens)
  PROVE  /\ mode = "EXTEND" => Take(Logits(b), m) = Lasts(lens)
         /\ mode # "EXTEND" => Take(Logits(b), m) = TokensOf(lens)
         /\ Len(lens) = 0 => Lasts(lens) = TokensOf(lens)
<1> DEFINE own == TokensOf(lens)
           last == Lasts(lens)
<1>0. lens \in Seq(Nat) /\ Len(lens) \in Nat
  BY DEF Lens
<1>1. own \in Seq(Pairs) /\ Len(own) = Total(lens) /\ Total(lens) \in Nat
  BY <1>0, Tokens
<1>2. last \in Seq(Pairs) /\ Len(last) = Len(lens) /\ Len(lens) <= Total(lens)
  BY LastsAre, RowsBelow
<1>3. Rowed(b, lens, size) /\ m \in Nat
  BY DEF Fills, Keeps
<1>4. ASSUME Len(lens) = 0 PROVE last = <<>> /\ own = <<>>
  <2>1. own = <<>>
    BY <1>0, <1>4, NoTokens
  <2> HIDE DEF last
  <2> QED
    BY <1>2, <1>4, <2>1
<1> HIDE DEF own, last
<1>5. CASE mode = "EXTEND"
  <2>1. b.mode = "EXTEND" /\ Len(lens) > 0
    BY <1>0, <1>5 DEF Moded, Fitting
  <2>2. b.ext = lens /\ b.bs = Len(lens)
    BY <1>3, <2>1 DEF Rowed
  <2>3. LastTokens(b) = last
    BY <2>2, LastTokensAre DEF last
  <2>4. m >= Len(last)
    BY <1>0, <1>1, <1>2, <1>3, <1>5 DEF Keeps
  <2>5. Take(last, m) = last
    BY <1>2, <1>3, <2>4, Taken
  <2> QED
    BY <1>4, <1>5, <2>1, <2>3, <2>5 DEF Logits, own, last
<1>6. CASE mode # "EXTEND" /\ b.mode # "EXTEND"
  <2>1. b.pos = Pad(own, size, PadToken) /\ Len(own) <= size /\ size \in Nat
    BY <1>1 DEF Fills, own
  <2>2. PadToken \in Pairs
    BY DEF PadToken, Pairs
  <2>3. Take(Pad(own, size, PadToken), Len(own)) = own
    BY <1>1, <2>1, <2>2, PadTaken
  <2>4. m = Len(own)
    BY <1>1, <1>6 DEF Keeps
  <2> QED
    BY <1>4, <1>6, <2>1, <2>3, <2>4 DEF Logits, own, last
<1>7. CASE mode # "EXTEND" /\ b.mode = "EXTEND" /\ Len(lens) = 0
  <2>1. m = 0
    BY <1>0, <1>7, NoRows DEF Keeps
  <2>2. PICK s : s = LastTokens(b)
    OBVIOUS
  <2>3. b.bs = 1 /\ b.pool \in Seq(Nat) /\ Len(b.pool) = b.bs
    <3>1. b.bs = 1
      BY <1>3, <1>7 DEF Rowed
    <3>2. b.pool \in Seq(Nat)
      BY <1>0, FilledLengths
    <3>3. Len(b.pool) = b.bs
      BY <1>0, FilledLengths
    <3> QED
      BY <3>1, <3>2, <3>3
  <2>4. PICK n \in Nat : n = 1
    OBVIOUS
  <2>5. DOMAIN b.pool = 1..n
    BY <2>3, <2>4
  <2>6. DOMAIN s = 1..n /\ s = [i \in 1..n |-> s[i]]
    BY <2>2, <2>5 DEF LastTokens
  <2>7. Take(s, 0) = <<>>
    <3> HIDE <2>2, <2>4
    <3> QED
      BY <2>6, NoneTaken
  <2> QED
    BY <1>4, <1>7, <2>1, <2>2, <2>7 DEF Logits, own, last
<1>8. CASE mode # "EXTEND" /\ b.mode = "EXTEND" /\ Len(lens) > 0
  <2>1. b.ext = lens /\ b.bs = Len(lens)
    BY <1>3, <1>8 DEF Rowed
  <2>2. LastTokens(b) = last
    BY <2>1, LastTokensAre DEF last
  <2>3. k \in {"target", "prefill"}
    BY <1>8 DEF Fills
  <2>4. WidthOf(SpecOf(k)) = 1
    <3>1. k = "target" => SpecOf(k) = NoSpec
      BY SpecIs
    <3>2. k = "prefill" => SpecOf(k).width = 1
      BY SpecIs
    <3> QED
      BY <2>3, <3>1, <3>2 DEF WidthOf
  <2>5. \A i \in 1..Len(lens) : lens[i] = 1
    BY <1>8, <2>4 DEF Fitting
  <2>6. own = last /\ Total(lens) = Len(lens)
    BY <2>5, LastsOfOne DEF own, last
  <2>7. m = Len(last)
    BY <1>2, <1>8, <2>6 DEF Keeps
  <2>8. Take(last, m) = last
    BY <1>2, <1>3, <2>7, Taken
  <2> QED
    BY <1>4, <1>8, <2>2, <2>6, <2>8 DEF Logits, own, last
<1> QED
  BY <1>0, <1>5, <1>6, <1>7, <1>8

\* The hidden states that a target leaves: the rank's own, perhaps with padding.
LEMMA HiddenAre ==
  ASSUME server \in Servers, NEW k \in Kinds, NEW lens \in Lens, NEW mode,
         NEW b, NEW size, Fills(b, k, lens, size), NEW m, Keeps(m, k, mode, lens), k = "target"
  PROVE  LET h == Take(b.pos, m)
         IN /\ Len(h) \in Nat /\ Total(lens) <= Len(h) /\ Len(h) <= size
            /\ h = Pad(TokensOf(lens), Len(h), PadToken)
<1> DEFINE own == TokensOf(lens)
<1>0. lens \in Seq(Nat)
  BY DEF Lens
<1>1. own \in Seq(Pairs) /\ Len(own) = Total(lens) /\ Total(lens) \in Nat /\ PadToken \in Pairs
  BY <1>0, Tokens DEF PadToken, Pairs
<1>2. b.pos = Pad(own, size, PadToken) /\ Len(own) <= size /\ size \in Nat
  BY <1>1 DEF Fills
<1>3. m \in Nat /\ m >= Len(own)
  BY <1>1 DEF Keeps
<1> HIDE DEF own
<1> DEFINE p == Pad(own, size, PadToken)
<1>4. p \in Seq(Pairs) /\ Len(p) = size
  BY <1>1, <1>2, PadLands
<1>5. \A n \in Nat : n >= Len(own) =>
        /\ Len(own) <= Len(Take(p, n)) /\ Len(Take(p, n)) <= size
        /\ Take(p, n) = Pad(own, Len(Take(p, n)), PadToken)
  BY <1>1, <1>2, PadTaken
<1> HIDE DEF p
<1>6. Take(p, m) \in Seq(Pairs)
  BY <1>3, <1>4, Taken
<1>7. /\ Len(own) <= Len(Take(p, m)) /\ Len(Take(p, m)) <= size
      /\ Take(p, m) = Pad(own, Len(Take(p, m)), PadToken)
  BY <1>3, <1>5
<1> DEFINE h == Take(p, m)
<1>8. b.pos = p
  BY <1>2 DEF p
<1>9. Len(h) \in Nat
  BY <1>6
<1> QED
  BY <1>1, <1>7, <1>8, <1>9 DEF own

LEMMA UnpadIs ==
  ASSUME NEW c, DOMAIN c = Fields, NEW n, NEW u, u = Unpad(c, n)
  PROVE  /\ DOMAIN u = Fields
         /\ u.pos = Take(c.pos, n) /\ u.rows = Take(c.rows, c.bs) /\ u.pool = Take(c.pool, c.bs)
         /\ u.mode = c.mode /\ u.bs = c.bs /\ u.orig = c.orig /\ u.spec = c.spec
         /\ u.ext = c.ext /\ u.top = c.top /\ u.counts = c.counts
BY DEF Unpad, Fields

LEMMA RestoreSpecIs ==
  ASSUME NEW c, DOMAIN c = Fields, NEW u, u = RestoreSpec(c)
  PROVE  /\ DOMAIN u = Fields
         /\ u.pos = c.pos /\ u.rows = c.rows /\ u.pool = c.pool
         /\ u.mode = c.mode /\ u.bs = c.bs /\ u.orig = c.orig /\ u.spec = c.spec
         /\ u.ext = c.ext /\ u.top = c.top /\ u.counts = c.counts
BY DEF RestoreSpec, Fields

\* Cutting the inputs back restores mode and size; a target or draft batch gets
\* its own tokens and rows back.
LEMMA SlicedIs ==
  ASSUME server \in Servers, NEW k \in Kinds, NEW lens \in Lens, NEW mode, Fitting(k, mode, lens),
         NEW b, NEW size, Fills(b, k, lens, size), Moded(b, mode),
         NEW u, u = RestoreSpec(SliceInputs(Restored(b)))
  PROVE  /\ DOMAIN u = Fields
         /\ u.mode = mode /\ u.bs = Len(lens) /\ u.spec = SpecOf(k) /\ u.counts = b.counts
         /\ k \in {"target", "draft"} =>
              /\ u.pos = TokensOf(lens) /\ u.rows = [i \in DOMAIN lens |-> i] /\ u.pool = u.rows
              /\ u.orig = b.orig /\ u.ext = b.ext /\ u.top = b.top
<1> DEFINE own == TokensOf(lens)
           rows == [i \in DOMAIN lens |-> i]
<1>0. lens \in Seq(Nat) /\ Len(lens) \in Nat
  BY DEF Lens
<1>1. own \in Seq(Pairs) /\ Len(own) = Total(lens) /\ Total(lens) \in Nat /\ PadToken \in Pairs
  BY <1>0, Tokens DEF PadToken, Pairs
<1>2. rows \in Seq(Nat) /\ Len(rows) = Len(lens)
  BY <1>0
<1>3. PICK c : c = Restored(b)
  OBVIOUS
<1>4. /\ DOMAIN c = Fields
      /\ c.mode = mode /\ c.bs = b.origBs
      /\ c.orig = b.orig /\ c.spec = b.spec /\ c.origTokens = b.origTokens /\ c.pos = b.pos
      /\ c.rows = b.rows /\ c.pool = b.pool /\ c.ext = b.ext /\ c.top = b.top
      /\ c.hidBackup = b.hidBackup /\ c.counts = b.counts
  <2>1. DOMAIN b = Fields
    BY DEF Fills
  <2>2. mode = (IF b.orig # "NONE" THEN b.orig ELSE b.mode)
    BY DEF Moded
  <2> QED
    BY <1>3, <2>1, <2>2, RestoredIs
<1>5. /\ b.origBs = Len(lens) /\ b.origTokens = Total(lens) /\ b.spec = SpecOf(k)
      /\ b.pos = Pad(own, size, PadToken) /\ Len(own) <= size /\ size \in Nat
      /\ b.rows = Pad(rows, b.bs, PadRow) /\ b.pool = Pad(rows, b.bs, PadRow)
      /\ b.bs \in Nat /\ Len(rows) <= b.bs
      /\ k = "draft" => b.hidBackup = own
  BY <1>1, <1>2 DEF Fills
<1>6. /\ Take(b.pos, Total(lens)) = own
      /\ Take(b.rows, Len(lens)) = rows /\ Take(b.pool, Len(lens)) = rows
  <2> HIDE DEF own, rows
  <2>1. Take(Pad(own, size, PadToken), Len(own)) = own
    BY <1>1, <1>5, PadTaken
  <2>2. PICK n \in Nat : n = b.bs
    BY <1>5
  <2>3. Take(Pad(rows, n, PadRow), Len(rows)) = rows
    BY <1>2, <1>5, <2>2, RowsTaken
  <2> QED
    BY <1>1, <1>2, <1>5, <2>1, <2>2, <2>3
<1>7. /\ k = "target" => SpecOf(k) = NoSpec
      /\ k # "target" => SpecOf(k) # NoSpec
      /\ k = "draft" => SpecOf(k).type = "DRAFT"
      /\ k = "verify" => SpecOf(k).type = "VERIFY"
      /\ k \in {"extend", "prefill"} => SpecOf(k).type = "DRAFT_EXTEND"
  BY SpecIs
<1> HIDE DEF own, rows
<1>8. PICK d : d = SliceInputs(c)
  OBVIOUS
<1>9. ASSUME k \in {"target", "draft"} PROVE d = Unpad(c, Total(lens))
  <2>1. CASE k = "target"
    <3>1. mode \in {"IDLE", "DECODE", "EXTEND"} /\ c.spec = NoSpec /\ c.spec.type = "NONE"
      BY <1>4, <1>5, <1>7, <2>1 DEF Fitting, NoSpec
    <3>2. d = Unpad(c, c.origTokens)
      BY <1>4, <1>8, <3>1, Zenon DEF SliceInputs
    <3> QED
      BY <1>4, <1>5, <3>2
  <2>2. CASE k = "draft" /\ mode = "DECODE"
    <3>1. c.spec.type = "DRAFT" /\ c.spec # NoSpec /\ c.mode = "DECODE"
      BY <1>4, <1>5, <1>7, <2>2
    <3>2. d = Unpad(c, Len(c.hidBackup))
      BY <1>8, <3>1 DEF SliceInputs
    <3> QED
      BY <1>1, <1>4, <1>5, <2>2, <3>2
  <2>3. CASE k = "draft" /\ mode = "IDLE"
    <3>1. c.spec.type = "DRAFT" /\ c.spec # NoSpec /\ c.mode = "IDLE"
      BY <1>4, <1>5, <1>7, <2>3
    <3>2. d = Unpad(c, c.bs)
      BY <1>8, <3>1 DEF SliceInputs
    <3>3. c.bs = Total(lens)
      BY <1>0, <1>4, <1>5, <2>3, NoRows DEF Fitting
    <3> QED
      BY <3>2, <3>3
  <2>4. k = "draft" => mode \in {"IDLE", "DECODE"}
    BY DEF Fitting
  <2> QED
    BY <1>9, <2>1, <2>2, <2>3, <2>4
<1>10. ASSUME k \notin {"target", "draft"}
       PROVE  DOMAIN d = Fields /\ d.mode = c.mode /\ d.bs = c.bs /\ d.spec = c.spec /\ d.counts = c.counts
  <2>1. CASE k = "verify" /\ mode = "IDLE"
    <3>1. c.spec.type = "VERIFY" /\ c.spec # NoSpec /\ c.mode = "IDLE"
      BY <1>4, <1>5, <1>7, <2>1
    <3>2. d = Unpad(c, c.bs)
      BY <1>8, <3>1 DEF SliceInputs
    <3> QED
      BY <1>4, <3>2, UnpadIs
  <2>2. CASE k = "verify" /\ mode = "TARGET_VERIFY"
    <3>1. c.spec.type = "VERIFY" /\ c.spec # NoSpec /\ c.mode = "TARGET_VERIFY"
      BY <1>4, <1>5, <1>7, <2>2
    <3>2. d = c
      BY <1>8, <3>1 DEF SliceInputs
    <3> QED
      BY <1>4, <3>2
  <2>3. CASE k \in {"extend", "prefill"}
    <3>1. c.spec.type = "DRAFT_EXTEND" /\ c.spec # NoSpec
      BY <1>4, <1>5, <1>7, <2>3
    <3>2. c.mode # "TARGET_VERIFY"
      BY <1>4, <2>3 DEF Fitting
    <3>3. d = c \/ d = [c EXCEPT !.ext = Take(@, c.bs)]
      BY <1>8, <3>1, <3>2 DEF SliceInputs
    <3> QED
      BY <1>4, <3>3 DEF Fields
  <2>4. k = "verify" => mode \in {"IDLE", "TARGET_VERIFY"}
    BY DEF Fitting
  <2> QED
    BY <1>10, <2>1, <2>2, <2>3, <2>4 DEF Kinds
<1>11. CASE k \in {"target", "draft"}
  <2>1. PICK n : n = Total(lens)
    OBVIOUS
  <2>2. d = Unpad(c, n)
    BY <1>9, <1>11, <2>1
  <2>3. /\ DOMAIN d = Fields
        /\ d.pos = Take(c.pos, n) /\ d.rows = Take(c.rows, c.bs) /\ d.pool = Take(c.pool, c.bs)
        /\ d.mode = c.mode /\ d.bs = c.bs /\ d.orig = c.orig /\ d.spec = c.spec
        /\ d.ext = c.ext /\ d.top = c.top /\ d.counts = c.counts
    BY <1>4, <2>2, UnpadIs
  <2>4. u = RestoreSpec(d)
    BY <1>3, <1>8
  <2>5. /\ DOMAIN u = Fields
        /\ u.pos = d.pos /\ u.rows = d.rows /\ u.pool = d.pool
        /\ u.mode = d.mode /\ u.bs = d.bs /\ u.orig = d.orig /\ u.spec = d.spec
        /\ u.ext = d.ext /\ u.top = d.top /\ u.counts = d.counts
    BY <2>3, <2>4, RestoreSpecIs
  <2> QED
    BY <1>4, <1>5, <1>6, <2>1, <2>3, <2>5 DEF own, rows
<1>12. CASE k \notin {"target", "draft"}
  <2>1. u = RestoreSpec(d)
    BY <1>3, <1>8
  <2>2. DOMAIN u = Fields /\ u.mode = d.mode /\ u.bs = d.bs /\ u.spec = d.spec /\ u.counts = d.counts
    BY <1>10, <1>12, <2>1, RestoreSpecIs
  <2> QED
    BY <1>4, <1>5, <1>10, <1>12, <2>2
<1> QED
  BY <1>11, <1>12

\* What a forward of a kind padded to is what that kind pads to in this round,
\* also for a draft step that pads again what the step before padded.
LEMMA Settles ==
  ASSUME server \in Servers, RoundOK, AnswersAgree, NEW r \in Ranks, Geometry(r),
         NEW k \in Kinds, k = Head(todo[r])
  PROVE  Settled(k, fb[r].counts)
<1>1. PICK c \in chosen :
        /\ Basis(r, c.counts)
        /\ fb[r].padding = PaddingMode(c.answer, c.counts)
        /\ fb[r].counts = PaddedCounts(fb[r].padding, c.counts)
  BY DEF Geometry
<1>2. CASE ~Again(r)
  <2>1. c.counts = Gathered(k)
    BY <1>1, <1>2 DEF Basis
  <2> QED
    BY <1>1, <2>1 DEF Settled
<1>3. CASE Again(r)
  <2>1. k = "draft" /\ Settled(k, c.counts)
    BY <1>1, <1>3 DEF Basis, Again
  <2>2. PICK d \in chosen :
          d.counts = Gathered(k) /\ c.counts = PaddedCounts(PaddingMode(d.answer, d.counts), d.counts)
    BY <2>1 DEF Settled
  <2>3. Even(d.counts)
    BY <2>2, GatheredEven
  <2>4. CASE PaddingMode(d.answer, d.counts) = "MAX_LEN"
    <3> DEFINE w == Widest(d.counts)
    <3>1. c.counts = [q \in Ranks |-> w]
      BY <2>2, <2>4 DEF PaddedCounts
    <3>2. Widest(c.counts) = w
      BY <2>2, <2>3, PaddedEven
    <3>3. fb[r].counts = c.counts
      BY <1>1, <3>1, <3>2 DEF PaddedCounts
    <3> QED
      BY <2>1, <3>3
  <2>5. CASE PaddingMode(d.answer, d.counts) # "MAX_LEN"
    <3>1. c.counts = d.counts
      BY <2>2, <2>5 DEF PaddedCounts
    <3>2. c.answer = d.answer
      BY <3>1 DEF AnswersAgree
    <3>3. fb[r].counts = c.counts
      BY <1>1, <2>5, <3>1, <3>2 DEF PaddedCounts
    <3> QED
      BY <2>1, <3>3
  <2> QED
    BY <2>4, <2>5
<1> QED
  BY <1>2, <1>3

Cut(o, r, m) == [o EXCEPT ![r].logits = Take(@, m), ![r].hidden = Take(@, m)]
LEMMA CutIs ==
  ASSUME NEW o, NEW r \in Ranks, DOMAIN o = Ranks, NEW k, NEW l, NEW h, NEW m,
         o[r] = [kind |-> k, logits |-> l, hidden |-> h], NEW p, p = Cut(o, r, m)
  PROVE  /\ DOMAIN p = Ranks
         /\ p[r].kind = k /\ p[r].logits = Take(l, m) /\ p[r].hidden = Take(h, m)
         /\ \A q \in Ranks : q # r => p[q] = o[q]
BY DEF Cut

LEMMA PostForwardHolds ==
  ASSUME IInv, NEW r \in Ranks, PostForward(r)
  PROVE  Tables' /\ RoundOK' /\ Suffix' /\ AnswersAgree' /\ \A q \in Ranks : RankOK(q)'
<1>1. /\ UNCHANGED <<server, round, work>> /\ chosen' = chosen
      /\ pc[r] = "computed" /\ pc' = [pc EXCEPT ![r] = "ready"] /\ todo' = [todo EXCEPT ![r] = Tail(@)]
      /\ fb' = [fb EXCEPT ![r] = RestoreSpec(SliceInputs(Restored(fb[r])))]
      /\ out' = Cut(out, r, KeptResults(Restored(fb[r])))
  BY Zenon DEF PostForward, Cut
<1>2. /\ server \in Servers /\ PcTypes /\ TodoTypes /\ Tables /\ RoundOK /\ Suffix /\ AnswersAgree
      /\ \A q \in Ranks : RankOK(q)
  BY DEF IInv, StepInv
<1>3. todo[r] # <<>>
  BY <1>1 DEF IInv, StepInv, Busy
<1>4. Geometry(r) /\ Padded(r) /\ out[r] = Results(r)
  BY <1>1, <1>2 DEF RankOK
<1>5. PICK k \in Kinds :
        /\ k = Head(todo[r])
        /\ Fills(fb[r], k, RowLens(r, k), fb[r].counts[r])
        /\ Moded(fb[r], ModeOf(r, k))
        /\ ModeOf(r, k) = "EXTEND" => fb[r].sum \in Nat /\ fb[r].sum >= Total(RowLens(r, k))
  BY <1>4 DEF Padded
<1>6. PICK lens : lens = RowLens(r, k)
  OBVIOUS
<1>7. PICK mode : mode = ModeOf(r, k)
  OBVIOUS
<1>8. PICK b : b = fb[r]
  OBVIOUS
<1>9. PICK size : size = b.counts[r]
  OBVIOUS
<1>10. PICK u : u = RestoreSpec(SliceInputs(Restored(b)))
  OBVIOUS
<1>11. PICK m : m = KeptResults(Restored(b))
  OBVIOUS
<1>12. PICK h : h = (IF OnTarget(k) /\ server.spec THEN b.pos ELSE Logits(b))
  OBVIOUS
<1>13. /\ lens \in Lens /\ Fitting(k, mode, lens) /\ Fills(b, k, lens, size) /\ Moded(b, mode)
       /\ mode = "EXTEND" => b.sum \in Nat /\ b.sum >= Total(lens)
       /\ k = "target" => mode = work[r].mode
  <2>1. lens \in Lens
    BY <1>2, <1>6, RowsOf
  <2>2. Fitting(k, mode, lens) /\ (k = "target" => mode = work[r].mode)
    BY <1>2, <1>6, <1>7, ModeIs DEF Fitting
  <2> QED
    BY <1>5, <1>6, <1>7, <1>8, <1>9, <2>1, <2>2
<1>14. lens \in Seq(Nat) /\ Total(lens) \in Nat
  BY <1>13, Tokens DEF Lens
<1>15. Keeps(m, k, mode, lens)
  <2>1. PICK c : c = Restored(b)
    OBVIOUS
  <2>2. /\ DOMAIN b = Fields /\ mode = (IF b.orig # "NONE" THEN b.orig ELSE b.mode)
        /\ b.origBs = Len(lens) /\ b.spec = SpecOf(k)
        /\ k = "draft" => b.hidBackup = TokensOf(lens)
    BY <1>13 DEF Fills, Moded
  <2>3. c.mode = mode /\ c.bs = b.origBs /\ c.spec = b.spec /\ c.sum = b.sum /\ c.hidBackup = b.hidBackup
    BY <2>1, <2>2, RestoredIs
  <2>4. c.bs = Len(lens) /\ c.spec = SpecOf(k) /\ (k = "draft" => c.hidBackup = TokensOf(lens))
    BY <2>2, <2>3
  <2>5. mode = "EXTEND" => c.sum \in Nat /\ c.sum >= Total(lens)
    BY <1>13, <2>3
  <2>6. Keeps(KeptResults(c), k, mode, lens)
    BY <1>2, <1>13, <2>3, <2>4, <2>5, KeptAre
  <2> QED
    BY <1>11, <2>1, <2>6
<1>16. /\ mode = "EXTEND" => Take(Logits(b), m) = Lasts(lens)
       /\ mode # "EXTEND" => Take(Logits(b), m) = TokensOf(lens)
       /\ Len(lens) = 0 => Lasts(lens) = TokensOf(lens)
  BY <1>2, <1>13, <1>15, LogitsAre
<1>17. out[r] = [kind |-> k, logits |-> Logits(b), hidden |-> h]
  BY <1>4, <1>5, <1>8, <1>12, Zenon DEF Results, Logits
<1>18. /\ DOMAIN out' = Ranks
       /\ out'[r].kind = k /\ out'[r].logits = Take(Logits(b), m) /\ out'[r].hidden = Take(h, m)
       /\ \A q \in Ranks : q # r => out'[q] = out[q]
  <2>1. out' = Cut(out, r, m) /\ DOMAIN out = Ranks
    BY <1>1, <1>2, <1>8, <1>11 DEF Tables
  <2> QED
    BY <1>17, <2>1, CutIs
<1>19. /\ DOMAIN fb' = Ranks /\ fb'[r] = u /\ pc'[r] = "ready" /\ todo'[r] = Tail(todo[r])
       /\ \A q \in Ranks : q # r => pc'[q] = pc[q] /\ fb'[q] = fb[q] /\ todo'[q] = todo[q]
  BY <1>1, <1>2, <1>8, <1>10 DEF PcTypes, TodoTypes, Tables
<1>20. Settled(k, b.counts) /\ Even(b.counts)
  <2>1. Settled(k, fb[r].counts)
    BY <1>2, <1>4, <1>5, Settles
  <2>2. Even(fb[r].counts)
    BY <1>2, <1>3, <1>4, GeometryIs
  <2> QED
    BY <1>8, <2>1, <2>2
<1>21. Settled(k, b.counts)'
  <2>1. PICK c : c = b.counts
    OBVIOUS
  <2>2. Settled(k, c)
    BY <1>20, <2>1
  <2>3. Settled(k, c)'
    BY <1>1, <2>2, SettledStays
  <2> QED
    BY <2>1, <2>3
<1>22. RowLens(r, k)' = lens /\ ModeOf(r, k)' = mode /\ SpecOf(k)' = SpecOf(k)
  BY <1>1, <1>6, <1>7, Unmoved
<1>23. Outputs(r, k, lens)'
  <2> DEFINE rowwise == k = "prefill" \/ (k = "target" /\ work[r].mode = "EXTEND")
  <2>1. out'[r].logits = IF rowwise THEN Lasts(lens) ELSE TokensOf(lens)
    <3>1. CASE mode = "EXTEND"
      <4>1. rowwise
        BY <1>13, <3>1 DEF Fitting, Kinds
      <4> QED
        BY <1>16, <1>18, <3>1, <4>1
    <3>2. CASE mode # "EXTEND"
      <4>1. rowwise => Len(lens) = 0
        BY <1>13, <3>2 DEF Fitting
      <4> HIDE DEF rowwise
      <4> QED
        BY <1>16, <1>18, <3>2, <4>1
    <3> QED
      BY <3>1, <3>2
  <2>2. k # "target" => out'[r].hidden = out'[r].logits
    <3>1. CASE k = "verify"
      <4>1. b.mode # "EXTEND"
        BY <1>13, <3>1 DEF Fills
      <4> QED
        BY <1>12, <1>18, <4>1 DEF Logits
    <3>2. CASE k \notin {"target", "verify"}
      BY <1>12, <1>18, <3>2 DEF OnTarget
    <3> QED
      BY <3>1, <3>2
  <2>3. ASSUME k = "target", server.spec
        PROVE  \E n \in Nat, c \in [Ranks -> Nat] :
                 /\ Total(lens) <= n /\ n <= c[r] /\ Settled("target", c)'
                 /\ out'[r].hidden = Pad(TokensOf(lens), n, PadToken) /\ n = Len(out'[r].hidden)
    <3>1. h = b.pos
      BY <1>12, <2>3 DEF OnTarget
    <3> DEFINE t == Take(b.pos, m)
    <3>2. Len(t) \in Nat /\ Total(lens) <= Len(t) /\ Len(t) <= size /\ t = Pad(TokensOf(lens), Len(t), PadToken)
      BY <1>2, <1>13, <1>15, <2>3, HiddenAre
    <3>3. out'[r].hidden = t
      BY <1>18, <3>1
    <3>4. b.counts \in [Ranks -> Nat]
      BY <1>20 DEF Even
    <3>5. Settled("target", b.counts)'
      BY <1>21, <2>3
    <3> HIDE DEF t
    <3> QED
      BY <1>9, <3>2, <3>3, <3>4, <3>5
  <2>4. work' = work /\ server' = server
    BY <1>1
  <2> QED
    BY <2>1, <2>2, <2>3, <2>4 DEF Outputs, Lasts
<1>24. Leftover(u, r, k, lens)'
  <2>1. /\ DOMAIN u = Fields
        /\ u.mode = mode /\ u.bs = Len(lens) /\ u.spec = SpecOf(k) /\ u.counts = b.counts
        /\ k \in {"target", "draft"} =>
             /\ u.pos = TokensOf(lens) /\ u.rows = [i \in DOMAIN lens |-> i] /\ u.pool = u.rows
             /\ u.orig = b.orig /\ u.ext = b.ext /\ u.top = b.top
    BY <1>2, <1>10, <1>13, SlicedIs
  <2>2. ASSUME k = "draft"
        PROVE  /\ u.ext = <<>> /\ u.orig = "NONE"
               /\ u.top \in Seq(Nat) /\ Len(u.top) <= u.counts[r] \div server.topk
    <3>1. /\ b.mode # "EXTEND" /\ b.orig = "NONE" /\ b.mode = mode
          /\ b.top \in Seq(Nat) /\ Len(b.top) <= b.bs
      BY <1>13, <2>2 DEF Fills, Moded
    <3>2. mode # "DRAFT_EXTEND_V2"
      BY <1>13, <2>2 DEF Fitting
    <3>3. b.ext = <<>> /\ b.bs = size \div WidthOf(b.spec)
      <4>1. Rowed(b, lens, size)
        BY <1>13 DEF Fills
      <4> QED
        BY <3>1, <3>2, <4>1 DEF Rowed
    <3>4. WidthOf(b.spec) = server.topk
      <4>1. b.spec = SpecOf(k)
        BY <1>13 DEF Fills
      <4>2. WidthOf(SpecOf(k)) = SpecOf(k).width /\ SpecOf(k).width = server.topk
        BY <1>2, <2>2, SpecIs
      <4> QED
        BY <4>1, <4>2
    <3> QED
      BY <1>9, <2>1, <2>2, <3>1, <3>3, <3>4
  <2>3. k = "draft" => Settled("draft", u.counts)'
    <3>1. PICK c : c = b.counts
      OBVIOUS
    <3>2. u.counts = c
      BY <2>1, <3>1
    <3>3. Settled(k, c)'
      BY <1>21, <3>1
    <3> QED
      BY <3>2, <3>3
  <2>4. server' = server
    BY <1>1
  <2> QED
    BY <1>22, <2>1, <2>2, <2>3, <2>4 DEF Leftover
<1>25. Kept(r)'
  BY <1>18, <1>19, <1>22, <1>23, <1>24 DEF Kept
<1>26. /\ Len(todo'[r]) = Len(todo[r]) - 1 /\ Len(todo[r]) \in 1..Len(Full(r)) /\ Len(Full(r)) \in Nat
       /\ Full(r)' = Full(r)
       /\ Full(r)[Len(Full(r)) - Len(todo'[r])] = k
       /\ \A i \in 1..Len(todo'[r]) : todo'[r][i] = Full(r)[Len(Full(r)) - Len(todo'[r]) + i]
  <2> DEFINE n == Len(Full(r))
             l == Len(todo[r])
  <2>1. todo[r] \in Seq(Kinds) /\ l \in 1..n /\ n \in Nat /\ todo[r][1] = k
    BY <1>2, <1>3, <1>5, Position DEF TodoTypes
  <2>2. Len(Tail(todo[r])) = l - 1 /\ \A i \in 1..(l - 1) : Tail(todo[r])[i] = todo[r][i + 1]
    BY <1>3, <2>1
  <2>3. \A i \in 1..l : todo[r][i] = Full(r)[n - l + i]
    BY <1>2 DEF Suffix
  <2> HIDE DEF n, l
  <2>4. \A i \in 1..(l - 1) : i + 1 \in 1..l /\ n - l + (i + 1) = n - (l - 1) + i
    BY <2>1
  <2>5. 1 \in 1..l /\ n - l + 1 = n - (l - 1)
    BY <2>1
  <2>6. Full(r)[n - (l - 1)] = k
    BY <2>1, <2>3, <2>5
  <2>7. \A i \in 1..(l - 1) : Tail(todo[r])[i] = Full(r)[n - (l - 1) + i]
    BY <2>2, <2>3, <2>4
  <2>8. Full(r)' = Full(r)
    BY <1>1, Unmoved
  <2> QED
    BY <1>19, <2>1, <2>2, <2>6, <2>7, <2>8 DEF n, l
<1>27. RankOK(r)'
  <2>1. Len(todo'[r]) < Len(Full(r)')
    BY <1>26
  <2> QED
    BY <1>18, <1>19, <1>25, <1>26, <2>1 DEF RankOK
<1>28. ASSUME NEW q \in Ranks, q # r PROVE RankOK(q)'
  BY <1>1, <1>2, <1>18, <1>19, <1>28, RankStays
<1>29. Suffix'
  <2>1. \A q \in Ranks : Full(q)' = Full(q)
    BY <1>1, Unmoved
  <2>2. Len(todo'[r]) <= Len(Full(r))
    BY <1>26
  <2>3. ASSUME NEW q \in Ranks
        PROVE  /\ Len(todo'[q]) <= Len(Full(q))
               /\ \A i \in 1..Len(todo'[q]) : todo'[q][i] = Full(q)[Len(Full(q)) - Len(todo'[q]) + i]
    <3>1. CASE q = r
      BY <1>26, <2>2, <3>1
    <3>2. CASE q # r
      <4>1. todo'[q] = todo[q]
        BY <1>19, <3>2
      <4> QED
        BY <1>2, <4>1 DEF Suffix
    <3> QED
      BY <3>1, <3>2
  <2> QED
    BY <2>1, <2>3 DEF Suffix
<1>30. Tables'
  BY <1>1, <1>2, <1>18, <1>19 DEF Tables
<1>31. RoundOK'
  BY <1>1, <1>2, RoundStays
<1>32. AnswersAgree'
  BY <1>1, <1>2 DEF AnswersAgree
<1> QED
  BY <1>27, <1>28, <1>29, <1>30, <1>31, <1>32

LEMMA Invariance == Spec => []IInv
<1>1. ASSUME IInv, [Next]_vars PROVE IInv'
  <2>1. StepInv'
    <3>1. CASE StartRound
      BY <1>1, <3>1, StartRoundKeeps DEF IInv
    <3>2. CASE Forward
      BY <1>1, <3>2, ForwardKeeps DEF IInv
    <3>3. ASSUME NEW r \in Ranks, Prepare(r) PROVE StepInv'
      BY <1>1, <3>3, PrepareKeeps DEF IInv
    <3>4. ASSUME NEW r \in Ranks, PostForward(r) PROVE StepInv'
      BY <1>1, <3>4, PostForwardKeeps DEF IInv
    <3>5. CASE UNCHANGED vars
      BY <1>1, <3>5 DEF IInv, vars, StepInv, PcTypes, TodoTypes, InStep, Left, Busy, Shaped, TargetAt
    <3> QED
      BY <1>1, <3>1, <3>2, <3>3, <3>4, <3>5 DEF Next
  <2>2. Tables' /\ RoundOK' /\ Suffix' /\ AnswersAgree' /\ \A q \in Ranks : RankOK(q)'
    <3>1. CASE StartRound
      BY <1>1, <3>1, StartRoundHolds
    <3>2. CASE Forward
      BY <1>1, <3>2, ForwardHolds
    <3>3. ASSUME NEW r \in Ranks, Prepare(r)
          PROVE  Tables' /\ RoundOK' /\ Suffix' /\ AnswersAgree' /\ \A q \in Ranks : RankOK(q)'
      BY <1>1, <3>3, PrepareHolds
    <3>4. ASSUME NEW r \in Ranks, PostForward(r)
          PROVE  Tables' /\ RoundOK' /\ Suffix' /\ AnswersAgree' /\ \A q \in Ranks : RankOK(q)'
      BY <1>1, <3>4, PostForwardHolds
    <3>5. CASE UNCHANGED vars
      <4>1. /\ UNCHANGED <<server, round, work>> /\ todo' = todo /\ pc' = pc /\ fb' = fb /\ out' = out
            /\ chosen' = chosen
        BY <3>5 DEF vars
      <4>2. Tables /\ RoundOK /\ Suffix /\ AnswersAgree /\ \A q \in Ranks : RankOK(q)
        BY <1>1 DEF IInv
      <4>3. ASSUME NEW q \in Ranks PROVE RankOK(q)' /\ Full(q)' = Full(q)
        BY <4>1, <4>2, RankStays, Unmoved
      <4>4. Tables' /\ AnswersAgree'
        BY <4>1, <4>2 DEF Tables, AnswersAgree
      <4>5. RoundOK'
        BY <4>1, <4>2, RoundStays
      <4>6. Suffix'
        BY <4>1, <4>2, <4>3 DEF Suffix
      <4> QED
        BY <4>3, <4>4, <4>5, <4>6
    <3> QED
      BY <1>1, <3>1, <3>2, <3>3, <3>4, <3>5 DEF Next
  <2> QED
    BY <2>1, <2>2 DEF IInv
<1> QED
  BY <1>1, InitStands, PTL DEF Spec

-----------------------------------------------------------------------------
(* What the invariant says                                                   *)

\* A rank inside a forward has a batch of that forward.
LEMMA InsideIs ==
  ASSUME IInv, NEW r \in Ranks, Inside(r)
  PROVE  /\ todo[r] # <<>> /\ Geometry(r)
         /\ \E k \in Kinds, lens \in Lens, size \in Nat :
              /\ k = Forwarding(r) /\ lens = RowLens(r, k) /\ size = fb[r].counts[r]
              /\ Fills(fb[r], k, lens, size) /\ Moded(fb[r], ModeOf(r, k))
<1>1. /\ server \in Servers /\ RoundOK /\ TodoTypes /\ Suffix /\ todo[r] # <<>>
      /\ Geometry(r) /\ Padded(r)
  BY DEF IInv, StepInv, Busy, RankOK, Inside
<1>2. PICK k \in Kinds :
        k = Head(todo[r]) /\ Fills(fb[r], k, RowLens(r, k), fb[r].counts[r]) /\ Moded(fb[r], ModeOf(r, k))
  BY <1>1 DEF Padded
<1>3. RowLens(r, k) \in Lens
  BY <1>1, RowsOf
<1>4. fb[r].counts[r] \in Nat
  BY <1>2 DEF Fills
<1> QED
  BY <1>1, <1>2, <1>3, <1>4 DEF Forwarding

\* Ranks that pad on their own, each by its own view of the counts, agree on
\* the padding mode, on everybody's length and on the buffer, and make their
\* tensors as long as the others expect and as attention-TP ranks can split:
\* the collectives of every forward match, however many ranks there are and
\* whatever they serve (prepare_mlp_sync_batch).
THEOREM GeometryShared == Spec => []SameGeometry
<1>1. IInv => SameGeometry
  <2> SUFFICES ASSUME IInv, NEW r \in Ranks, Inside(r)
               PROVE  /\ \A q \in Ranks : Inside(q) =>
                           /\ fb[r].counts = fb[q].counts
                           /\ fb[r].padding = fb[q].padding /\ fb[r].buffer = fb[q].buffer
                           /\ Len(fb[r].ids) = fb[q].counts[r]
                      /\ {Len(fb[r].pos), Len(fb[r].loc)} = {Len(fb[r].ids)}
                      /\ Len(fb[r].ids) % AttnTp = 0
                      /\ fb[r].buffer = Total(fb[r].counts)
                      /\ round.extend /\ fb[r].padding = "MAX_LEN" =>
                           fb[r].mode = "EXTEND" /\ \A q \in Ranks : fb[r].counts[q] = fb[r].counts[r]
                      /\ PrefillGraph(fb[r].counts) /\ ~round.mixed => fb[r].padding = "MAX_LEN"
    BY DEF SameGeometry
  <2>1. /\ server \in Servers /\ RoundOK /\ TodoTypes /\ Suffix
    BY DEF IInv, StepInv
  <2>2. /\ todo[r] # <<>> /\ Geometry(r)
        /\ \E k \in Kinds, lens \in Lens, size \in Nat :
             /\ k = Forwarding(r) /\ lens = RowLens(r, k) /\ size = fb[r].counts[r]
             /\ Fills(fb[r], k, lens, size) /\ Moded(fb[r], ModeOf(r, k))
    BY InsideIs
  <2>3. PICK k \in Kinds, lens \in Lens, size \in Nat :
             /\ size = fb[r].counts[r]
             /\ Fills(fb[r], k, lens, size) /\ Moded(fb[r], ModeOf(r, k))
    BY <2>2
  <2>4. /\ Even(fb[r].counts)
        /\ fb[r].buffer = Total(fb[r].counts)
        /\ fb[r].padding = "MAX_LEN" => \A q \in Ranks : fb[r].counts[q] = fb[r].counts[r]
        /\ PrefillGraph(fb[r].counts) /\ ~round.mixed => fb[r].padding = "MAX_LEN"
    BY <2>1, <2>2, GeometryIs
  <2>5. Len(fb[r].ids) = size /\ fb[r].pos = fb[r].ids /\ fb[r].loc = fb[r].ids
    <3>1. PICK b : b = fb[r]
      OBVIOUS
    <3>2. Fills(b, k, lens, size) /\ lens \in Seq(Nat)
      BY <2>3, <3>1 DEF Lens
    <3>3. Len(b.ids) = size /\ b.pos = b.ids /\ b.loc = b.ids
      BY <3>2, FilledLengths
    <3> QED
      BY <3>1, <3>3
  <2>6. ASSUME NEW q \in Ranks, Inside(q)
        PROVE  /\ fb[r].counts = fb[q].counts
               /\ fb[r].padding = fb[q].padding /\ fb[r].buffer = fb[q].buffer
    <3>1. todo[q] # <<>> /\ Geometry(q)
      BY <2>6, InsideIs
    <3>2. Len(todo[r]) = Len(todo[q])
      <4>1. todo[r] \in Seq(Kinds) /\ todo[q] \in Seq(Kinds) /\ Left(r) = Left(q)
        BY DEF IInv, StepInv, TodoTypes, InStep
      <4>2. Left(r) = Len(todo[r]) - 0 /\ Left(q) = Len(todo[q]) - 0
        BY <2>6 DEF Left, Inside
      <4>3. Len(todo[r]) \in Nat /\ Len(todo[q]) \in Nat
        BY <4>1
      <4>4. Len(todo[r]) - 0 = Len(todo[r]) /\ Len(todo[q]) - 0 = Len(todo[q])
        BY <4>3
      <4>5. Left(r) = Len(todo[r]) /\ Left(q) = Len(todo[q])
        BY <4>2, <4>4
      <4>6. Left(r) = Left(q)
        BY <4>1
      <4> QED
        BY <4>5, <4>6, Zenon
    <3> QED
      BY <2>2, <3>1, <3>2, GeometriesMeet
  <2>7. Len(fb[r].ids) % AttnTp = 0
    BY <2>3, <2>4, <2>5 DEF Even
  <2>8. round.extend /\ fb[r].padding = "MAX_LEN" => fb[r].mode = "EXTEND"
    BY <2>3 DEF Moded
  <2>9. {Len(fb[r].pos), Len(fb[r].loc)} = {Len(fb[r].ids)}
    BY <2>5
  <2> QED
    BY <2>3, <2>4, <2>5, <2>6, <2>7, <2>8, <2>9
<1> QED
  BY <1>1, Invariance, PTL

\* How many tokens a row of a padded batch has.
RowWidth(b) ==
  [i \in DOMAIN b.pool |-> IF b.ext # <<>> THEN b.ext[i] ELSE IF b.spec = NoSpec THEN 1 ELSE b.spec.width]
Owned(b, width) ==
  /\ Total(width) <= Len(b.ids)
  /\ \A i \in DOMAIN b.pool, j \in DOMAIN b.ids :
       Start(width, i) < j /\ j <= Start(width, i + 1) => b.ids[j][1] = b.pool[i]
  /\ \A j \in DOMAIN b.ids : j > Total(width) => b.ids[j] = PadToken

LEMMA RowsOwn ==
  ASSUME server \in Servers, NEW k \in Kinds, NEW lens \in Lens, NEW size \in Nat,
         NEW b, Fills(b, k, lens, size)
  PROVE  Owned(b, RowWidth(b))
<1> DEFINE width == RowWidth(b)
           T == Total(lens)
<1>0. lens \in Seq(Nat) /\ Len(lens) \in Nat
  BY DEF Lens
<1>1. Len(b.ids) = size /\ Len(b.pool) = b.bs
  <2>1. Len(b.ids) = size
    BY <1>0, FilledLengths
  <2>2. Len(b.pool) = b.bs
    BY <1>0, FilledLengths
  <2> QED
    BY <2>1, <2>2
<1>2. b.ids \in Seq(Pairs) /\ b.pool \in Seq(Nat)
  <2>1. b.ids \in Seq(Pairs)
    BY <1>0, FilledLengths
  <2>2. b.pool \in Seq(Nat)
    BY <1>0, FilledLengths
  <2> QED
    BY <2>1, <2>2
<1>3. \A j \in 1..size : b.ids[j] = (IF j <= T THEN TokensOf(lens)[j] ELSE PadToken)
  BY <1>0, FilledLengths
<1>4. \A i \in 1..b.bs : b.pool[i] = (IF i <= Len(lens) THEN i ELSE PadRow)
  BY <1>0, FilledLengths
<1>5. b.bs \in Nat /\ T <= size /\ T \in Nat /\ Len(lens) <= b.bs /\ Rowed(b, lens, size)
  BY <1>0, Tokens DEF Fills
<1>6. DOMAIN b.pool = 1..b.bs /\ DOMAIN b.ids = 1..size
  BY <1>1, <1>2, <1>5
<1>7. PadToken[1] = 0 /\ PadRow = 0
  BY DEF PadToken, PadRow
<1>8. ASSUME NEW i \in 1..Len(lens), NEW j \in 1..size, Start(lens, i) < j, j <= Start(lens, i + 1)
      PROVE  b.ids[j][1] = b.pool[i]
  <2>1. j \in Nat
    OBVIOUS
  <2>2. j \in 1..T /\ TokensOf(lens)[j] = <<i, j - Start(lens, i)>>
    BY <1>0, <1>8, <2>1, Tokens
  <2>3. b.ids[j] = <<i, j - Start(lens, i)>>
    BY <1>3, <1>5, <2>2
  <2>4. b.pool[i] = i
    BY <1>0, <1>4, <1>5
  <2> QED
    BY <2>3, <2>4
<1>9. width = [i \in 1..b.bs |-> IF b.ext # <<>> THEN b.ext[i] ELSE IF b.spec = NoSpec THEN 1 ELSE b.spec.width]
  BY <1>6 DEF RowWidth
<1> HIDE DEF width, T
<1>10. CASE b.mode = "EXTEND" /\ b.ext = lens /\ b.bs = Len(lens) /\ Len(lens) > 0
  <2>1. width = lens
    <3>1. b.ext # <<>>
      BY <1>0, <1>10
    <3>2. width = [i \in 1..Len(lens) |-> lens[i]]
      BY <1>9, <1>10, <3>1
    <3> QED
      BY <1>0, <3>2
  <2>2. Total(width) = T
    BY <2>1 DEF T
  <2>3. \A j \in 1..size : j > T => b.ids[j] = PadToken
    BY <1>3, <1>5
  <2> QED
    BY <1>1, <1>5, <1>6, <1>8, <1>10, <2>1, <2>2, <2>3 DEF Owned, width
<1>11. CASE b.mode = "EXTEND" /\ Len(lens) = 0 /\ b.ext = <<size>> /\ b.bs = 1
  <2>1. width \in Seq(Nat) /\ Len(width) = 1 /\ \A i \in 1..Len(width) : width[i] = size
    <3>1. b.ext # <<>> /\ b.ext[1] = size
      BY <1>11
    <3>2. width = [i \in 1..1 |-> b.ext[i]]
      BY <1>9, <1>11, <3>1
    <3> QED
      BY <3>1, <3>2
  <2>2. Total(width) = Len(width) * size
    BY <2>1, EvenStarts
  <2>3. Total(width) = size
    BY <2>1, <2>2
  <2>4. T = 0
    BY <1>0, <1>11, NoRows DEF T
  <2>5. \A j \in 1..size : b.ids[j] = PadToken
    BY <1>3, <2>4
  <2>6. \A i \in 1..1 : b.pool[i] = 0
    BY <1>4, <1>7, <1>11
  <2>7. \A i \in 1..1, j \in 1..size : b.ids[j][1] = b.pool[i]
    BY <1>7, <2>5, <2>6
  <2> QED
    BY <1>1, <1>6, <1>11, <2>3, <2>5, <2>7 DEF Owned, width
<1>12. ASSUME /\ b.mode # "EXTEND" /\ b.bs = size \div WidthOf(b.spec)
              /\ \A i \in 1..Len(lens) : lens[i] = WidthOf(b.spec)
              /\ b.ext = IF b.mode = "DRAFT_EXTEND_V2" THEN [i \in 1..b.bs |-> WidthOf(b.spec)] ELSE <<>>
       PROVE  Owned(b, RowWidth(b))
  <2> DEFINE w == WidthOf(b.spec)
  <2>1. w \in Nat \ {0}
    <3>1. b.spec = SpecOf(k)
      BY DEF Fills
    <3> QED
      BY <3>1, SpecIs
  <2>2. width \in Seq(Nat) /\ Len(width) = b.bs /\ \A i \in 1..Len(width) : width[i] = w
    <3>1. ASSUME NEW i \in 1..b.bs
          PROVE  (IF b.ext # <<>> THEN b.ext[i] ELSE IF b.spec = NoSpec THEN 1 ELSE b.spec.width) = w
      <4>1. CASE b.ext # <<>>
        <5>1. b.ext = [x \in 1..b.bs |-> w]
          BY <1>12, <4>1
        <5> HIDE DEF w
        <5>2. b.ext[i] = w
          BY <5>1
        <5> QED
          BY <4>1, <5>2
      <4>2. CASE b.ext = <<>>
        BY <4>2 DEF WidthOf
      <4> QED
        BY <4>1, <4>2
    <3> HIDE DEF w
    <3>2. width = [i \in 1..b.bs |-> w]
      BY <1>9, <3>1
    <3> QED
      BY <1>5, <2>1, <3>2
  <2> HIDE DEF w
  <2>3. /\ \A i \in 1..(Len(width) + 1) : Start(width, i) = (i - 1) * w
        /\ Total(width) = Len(width) * w
    BY <2>1, <2>2, EvenStarts
  <2>4. /\ \A i \in 1..(Len(lens) + 1) : Start(lens, i) = (i - 1) * w
        /\ T = Len(lens) * w
    <3>1. \A i \in 1..Len(lens) : lens[i] = w
      BY <1>12 DEF w
    <3> QED
      BY <1>0, <2>1, <3>1, EvenStarts DEF T
  <2>5. b.bs * w <= size /\ b.bs * w \in Nat
    <3>1. b.bs = size \div w
      BY <1>12 DEF w
    <3>2. (size \div w) * w <= size
      BY <2>1, RowsFit
    <3> QED
      BY <1>5, <2>1, <3>1, <3>2
  <2>6. \A i \in Nat : i >= Len(lens) => i * w >= T
    BY <1>0, <2>1, <2>4
  <2>7. b.bs * w >= T
    BY <1>5, <2>6
  <2>8. Total(width) = b.bs * w
    BY <2>2, <2>3
  <2>9. \A j \in 1..size : j > Total(width) => b.ids[j] = PadToken
    BY <1>3, <1>5, <2>5, <2>7, <2>8
  <2>10. ASSUME NEW i \in 1..b.bs, NEW j \in 1..size, Start(width, i) < j, j <= Start(width, i + 1)
         PROVE  b.ids[j][1] = b.pool[i]
    <3>1. Start(width, i) = (i - 1) * w /\ Start(width, i + 1) = (i + 1 - 1) * w
      <4>1. i \in 1..(Len(width) + 1) /\ i + 1 \in 1..(Len(width) + 1)
        BY <1>5, <2>2
      <4> QED
        BY <2>3, <4>1
    <3>2. CASE i <= Len(lens)
      <4>1. i \in 1..Len(lens) /\ i \in 1..(Len(lens) + 1) /\ i + 1 \in 1..(Len(lens) + 1)
        BY <1>0, <1>5, <3>2
      <4>2. Start(lens, i) = (i - 1) * w /\ Start(lens, i + 1) = (i + 1 - 1) * w
        BY <2>4, <4>1
      <4>3. Start(lens, i) < j /\ j <= Start(lens, i + 1)
        BY <2>10, <3>1, <4>2
      <4> QED
        BY <1>8, <4>1, <4>3
    <3>3. CASE ~(i <= Len(lens))
      <4>1. i - 1 \in Nat /\ i - 1 >= Len(lens)
        BY <1>0, <1>5, <3>3
      <4>2. (i - 1) * w >= T /\ (i - 1) * w \in Nat
        <5>1. PICK x \in Nat : x = i - 1
          BY <4>1
        <5>2. x * w >= T
          <6>1. x >= Len(lens)
            BY <4>1, <5>1
          <6> QED
            BY <2>6, <6>1
        <5>3. x * w \in Nat
          BY <2>1
        <5> QED
          BY <5>1, <5>2, <5>3
      <4>3. j > T
        <5> DEFINE s == (i - 1) * w
        <5>1. s >= T /\ s \in Nat /\ s < j
          BY <2>10, <3>1, <4>2
        <5> HIDE DEF s
        <5> QED
          BY <1>5, <5>1
      <4>4. b.ids[j] = PadToken
        BY <1>3, <1>5, <4>3
      <4>5. b.pool[i] = 0
        BY <1>4, <1>7, <3>3
      <4> QED
        BY <1>7, <4>4, <4>5
    <3> QED
      BY <3>2, <3>3
  <2> QED
    BY <1>1, <1>6, <2>5, <2>8, <2>9, <2>10 DEF Owned, width
<1> QED
  BY <1>5, <1>10, <1>11, <1>12 DEF Rowed

\* In a padded batch every row owns as many tokens as its kind of forward has,
\* in order, with the positions, cache slots and hidden states that belong to
\* them, and what no row owns is padding; no tensor is longer than what it is
\* padded to, over the draft steps that share a batch and for the hidden states
\* that the target hands to the draft model (_pad_inputs_to_size).
THEOREM RowsKept == Spec => []RowsMatchTokens
<1>1. IInv => RowsMatchTokens
  <2> SUFFICES ASSUME IInv, NEW r \in Ranks
               PROVE  /\ pc[r] # "raised"
                      /\ Inside(r) =>
                           LET b == fb[r] k == Forwarding(r)
                               width == [i \in DOMAIN b.pool |->
                                           IF b.ext # <<>> THEN b.ext[i]
                                           ELSE IF b.spec = NoSpec THEN 1 ELSE b.spec.width]
                           IN /\ b.ids = Pad(OwnTokens(r, k), Len(b.ids), PadToken)
                              /\ b.pos = b.ids /\ b.loc = b.ids
                              /\ IsDraftInput(b.spec) => b.hid = b.ids
                              /\ b.rows = b.pool /\ Len(b.pool) = b.bs
                              /\ Total(width) <= Len(b.ids)
                              /\ \A i \in DOMAIN b.pool, j \in DOMAIN b.ids :
                                   Start(width, i) < j /\ j <= Start(width, i + 1) => b.ids[j][1] = b.pool[i]
                              /\ \A j \in DOMAIN b.ids : j > Total(width) => b.ids[j] = PadToken
    BY DEF RowsMatchTokens
  <2>1. pc[r] # "raised" /\ server \in Servers
    BY DEF IInv, RankOK, StepInv
  <2>2. ASSUME Inside(r), NEW b, b = fb[r], NEW k, k = Forwarding(r)
        PROVE  /\ b.ids = Pad(OwnTokens(r, k), Len(b.ids), PadToken)
               /\ b.pos = b.ids /\ b.loc = b.ids
               /\ IsDraftInput(b.spec) => b.hid = b.ids
               /\ b.rows = b.pool /\ Len(b.pool) = b.bs
               /\ Owned(b, RowWidth(b))
    <3>1. PICK lens \in Lens, size \in Nat :
            k \in Kinds /\ lens = RowLens(r, k) /\ Fills(b, k, lens, size)
      BY <2>2, InsideIs
    <3>2. lens \in Seq(Nat)
      BY DEF Lens
    <3>3. Len(b.ids) = size /\ b.pos = b.ids /\ b.loc = b.ids
      BY <3>1, <3>2, FilledLengths
    <3>4. b.rows = b.pool /\ Len(b.pool) = b.bs
      BY <3>1, <3>2, FilledLengths
    <3>5. b.ids = Pad(TokensOf(lens), size, PadToken) /\ (IsDraftInput(b.spec) => b.hid = b.ids)
      BY <3>1 DEF Fills
    <3>6. Owned(b, RowWidth(b))
      BY <2>1, <3>1, RowsOwn
    <3> QED
      BY <3>1, <3>3, <3>4, <3>5, <3>6 DEF OwnTokens
  <2>3. ASSUME Inside(r), NEW b, b = fb[r], NEW k, k = Forwarding(r),
               NEW width, width = RowWidth(b)
        PROVE  /\ b.ids = Pad(OwnTokens(r, k), Len(b.ids), PadToken)
               /\ b.pos = b.ids /\ b.loc = b.ids
               /\ IsDraftInput(b.spec) => b.hid = b.ids
               /\ b.rows = b.pool /\ Len(b.pool) = b.bs
               /\ Total(width) <= Len(b.ids)
               /\ \A i \in DOMAIN b.pool, j \in DOMAIN b.ids :
                    Start(width, i) < j /\ j <= Start(width, i + 1) => b.ids[j][1] = b.pool[i]
               /\ \A j \in DOMAIN b.ids : j > Total(width) => b.ids[j] = PadToken
    BY <2>2, <2>3, Zenon DEF Owned
  <2> QED
    BY <2>1, <2>3, Zenon DEF RowWidth
<1> QED
  BY <1>1, Invariance, PTL

\* Of n tokens, no attention-TP rank's slice begins before or ends after them.
LEMMA SlicesFit ==
  ASSUME NEW n \in Nat, NEW a \in Nat \ {0}, NEW t \in 0..(a - 1), NEW j \in 1..(n \div a)
  PROVE  (n \div a) * t \in Nat /\ (n \div a) * t + j \in 1..n
<1> DEFINE d == n \div a
<1>1. d \in Nat /\ d * a <= n
  BY RowsFit
<1>2. j \in Nat \ {0} /\ j <= d /\ t \in Nat /\ t + 1 <= a
  BY <1>1
<1> HIDE DEF d
<1>3. d * (t + 1) <= d * a /\ d * (t + 1) = d * t + d /\ d * t \in Nat
  BY <1>1, <1>2
<1> DEFINE x == d * t
           y == d * a
<1>4. x \in Nat /\ x + d <= y /\ y <= n /\ y \in Nat
  BY <1>1, <1>3
<1> HIDE DEF x, y
<1>5. x + j \in 1..n
  BY <1>1, <1>2, <1>4
<1> QED
  BY <1>3, <1>5 DEF x, d

\* The smaller of a length and of what is left beyond an offset.
LEMMA ShareIs ==
  ASSUME NEW real \in Nat, NEW offset \in Nat, NEW len \in Nat, NEW j \in 1..len
  PROVE  j <= Min({Max({real - offset, 0}), len}) <=> offset + j <= real
<1> DEFINE d == real - offset
           x == Max({d, 0})
           y == Min({x, len})
<1>1. d \in Int
  OBVIOUS
<1>2. x = (IF d <= 0 THEN 0 ELSE d)
  <2>1. PICK z \in Int : z = 0
    OBVIOUS
  <2> HIDE DEF d
  <2>2. Max({d, z}) = (IF d <= z THEN z ELSE d)
    <3> HIDE <2>1
    <3> QED
      BY <1>1, OfTwo, Zenon
  <2> QED
    BY <2>1, <2>2
<1>3. x \in Int
  BY <1>1, <1>2
<1>4. y = (IF x <= len THEN x ELSE len)
  <2> HIDE DEF x
  <2>1. len \in Int
    OBVIOUS
  <2> QED
    BY <1>3, <2>1, OfTwo, Zenon
<1> HIDE DEF x, y
<1>5. j <= y <=> offset + j <= real
  BY <1>2, <1>3, <1>4
<1> QED
  BY <1>5 DEF x, y

TokensAt(b, lens, size) ==
  \A j \in 1..size : b.ids[j] = (IF j <= Total(lens) THEN TokensOf(lens)[j] ELSE PadToken)
LEMMA FilledTokens ==
  ASSUME NEW b, NEW k, NEW lens \in Seq(Nat), NEW size, Fills(b, k, lens, size)
  PROVE  TokensAt(b, lens, size)
<1>1. \A j \in 1..size : b.ids[j] = (IF j <= Total(lens) THEN TokensOf(lens)[j] ELSE PadToken)
  BY FilledLengths
<1> QED
  BY <1>1 DEF TokensAt

\* The count that masks padding out of the experts covers, on every
\* attention-TP rank, exactly the real tokens of its slice, whether or not the
\* sequence is sharded (compute_local_num_token_non_padded).
THEOREM MasksExact == Spec => []MaskExact
<1>1. IInv => MaskExact
  <2> SUFFICES ASSUME IInv, NEW r \in Ranks, Inside(r), Forwarding(r) # "draft",
                      NEW sharded \in BOOLEAN, NEW t \in 0..(AttnTp - 1)
               PROVE  LET s == ShardBounds(Len(fb[r].ids), sharded, t)
                          real == LocalNonPadded(fb[r], Len(fb[r].ids), sharded, t)
                      IN \A j \in 1..s.len : j <= real <=> fb[r].ids[s.offset + j] # PadToken
    BY DEF MaskExact
  <2>1. PICK b : b = fb[r]
    OBVIOUS
  <2>2. PICK k \in Kinds, lens \in Lens, n \in Nat :
          k = Forwarding(r) /\ Fills(b, k, lens, n)
    BY <2>1, InsideIs
  <2>3. lens \in Seq(Nat) /\ AttnTp \in Nat \ {0}
    BY MlpSyncAssumption DEF Lens, MlpSyncAssumption
  <2>4. Len(b.ids) = n
    BY <2>2, <2>3, FilledLengths
  <2>5. \A j \in 1..n : b.ids[j] = (IF j <= Total(lens) THEN TokensOf(lens)[j] ELSE PadToken)
    <3>1. TokensAt(b, lens, n)
      BY <2>2, <2>3, FilledTokens
    <3> QED
      BY <3>1 DEF TokensAt
  <2>6. b.real = Total(lens) /\ Total(lens) \in Nat
    BY <2>2, <2>3, Tokens DEF Fills
  <2>7. \A j \in 1..Total(lens) : TokensOf(lens)[j] # PadToken
    BY <2>3, Tokens
  <2>8. ASSUME NEW len \in Nat, NEW offset \in Nat, NEW j \in 1..len, offset + j \in 1..n
        PROVE  j <= Min({Max({b.real - offset, 0}), len}) <=> b.ids[offset + j] # PadToken
    <3>1. PICK real \in Nat : real = b.real
      BY <2>6
    <3>2. j <= Min({Max({real - offset, 0}), len}) <=> offset + j <= real
      <4> HIDE <3>1
      <4> QED
        BY ShareIs
    <3>3. PICK x \in 1..n : x = offset + j
      BY <2>8
    <3>4. x <= real <=> b.ids[x] # PadToken
      BY <2>5, <2>6, <2>7, <3>1
    <3> QED
      BY <3>1, <3>2, <3>3, <3>4
  <2> DEFINE s == ShardBounds(n, sharded, t)
  <2>9. ASSUME NEW j \in 1..s.len
        PROVE  j <= LocalNonPadded(b, n, sharded, t) <=> b.ids[s.offset + j] # PadToken
    <3>1. CASE sharded
      <4>1. s = [len |-> n \div AttnTp, offset |-> (n \div AttnTp) * t]
        BY <3>1 DEF ShardBounds
      <4>2. PICK len : len = n \div AttnTp
        OBVIOUS
      <4>3. PICK offset : offset = (n \div AttnTp) * t
        OBVIOUS
      <4>4. s.len = len /\ s.offset = offset
        BY <4>1, <4>2, <4>3
      <4>5. len \in Nat
        BY <2>3, <4>2, RowsFit
      <4>6. j \in 1..(n \div AttnTp)
        BY <4>2, <4>4
      <4>7. offset \in Nat /\ offset + j \in 1..n
        <5>1. (n \div AttnTp) * t \in Nat /\ (n \div AttnTp) * t + j \in 1..n
          BY <2>3, <4>6, SlicesFit
        <5> QED
          BY <4>3, <5>1
      <4>8. LocalNonPadded(b, n, sharded, t) = Min({Max({b.real - offset, 0}), len})
        BY <4>4 DEF LocalNonPadded
      <4>9. j \in 1..len
        BY <4>4
      <4> HIDE <4>2, <4>3
      <4>10. j <= Min({Max({b.real - offset, 0}), len}) <=> b.ids[offset + j] # PadToken
        BY <2>8, <4>5, <4>7, <4>9
      <4> QED
        BY <4>4, <4>8, <4>10
    <3>2. CASE ~sharded
      <4>1. s = [len |-> n, offset |-> 0]
        BY <3>2 DEF ShardBounds
      <4>2. PICK offset \in Nat : offset = 0
        OBVIOUS
      <4>3. s.len = n /\ s.offset = offset
        BY <4>1, <4>2
      <4>4. j \in 1..n /\ offset + j \in 1..n
        BY <4>2, <4>3
      <4>5. LocalNonPadded(b, n, sharded, t) = Min({Max({b.real - offset, 0}), n})
        BY <4>3 DEF LocalNonPadded
      <4> HIDE <4>2
      <4>6. j <= Min({Max({b.real - offset, 0}), n}) <=> b.ids[offset + j] # PadToken
        BY <2>8, <4>4
      <4> QED
        BY <4>3, <4>5, <4>6
    <3> QED
      BY <3>1, <3>2
  <2> QED
    BY <2>1, <2>4, <2>9
<1> QED
  BY <1>1, Invariance, PTL

\* What is left after a forward is the rank's own, in order and without
\* padding: its logits, the hidden states of draft, verify and extend forwards,
\* and the inputs that the next draft step or the sampler uses again
\* (post_forward_mlp_sync_batch).
THEOREM ResultsOwn == Spec => []OwnResults
<1>1. IInv => OwnResults
  <2> SUFFICES ASSUME IInv, NEW r \in Ranks, pc[r] = "ready", out[r].kind # "NONE"
               PROVE  LET k == out[r].kind
                          own == OwnTokens(r, k)
                          lens == RowLens(r, k)
                          last == [i \in DOMAIN lens |-> <<i, lens[i]>>]
                          rowwise == k = "prefill" \/ (k = "target" /\ work[r].mode = "EXTEND")
                      IN /\ out[r].logits = IF rowwise THEN last ELSE own
                         /\ k # "target" => out[r].hidden = out[r].logits
                         /\ k = "target" /\ server.spec =>
                              out[r].hidden = Pad(own, Len(out[r].hidden), PadToken)
                         /\ k \in {"target", "draft"} =>
                              fb[r].pos = own /\ fb[r].rows = OwnRows(r, k) /\ fb[r].pool = OwnRows(r, k)
                         /\ fb[r].mode = ModeOf(r, k) /\ fb[r].bs = Len(lens)
    BY DEF OwnResults
  <2>1. Kept(r)
    BY DEF IInv, RankOK
  <2>2. PICK k \in Kinds :
          k = out[r].kind /\ Outputs(r, k, RowLens(r, k)) /\ Leftover(fb[r], r, k, RowLens(r, k))
    BY <2>1 DEF Kept
  <2> DEFINE lens == RowLens(r, k)
             rowwise == k = "prefill" \/ (k = "target" /\ work[r].mode = "EXTEND")
  <2>3. /\ out[r].logits = IF rowwise THEN [i \in DOMAIN lens |-> <<i, lens[i]>>] ELSE OwnTokens(r, k)
        /\ k # "target" => out[r].hidden = out[r].logits
    BY <2>2, Zenon DEF Outputs, OwnTokens
  <2>4. k = "target" /\ server.spec =>
          out[r].hidden = Pad(OwnTokens(r, k), Len(out[r].hidden), PadToken)
    BY <2>2 DEF Outputs, OwnTokens
  <2>5. /\ k \in {"target", "draft"} =>
             fb[r].pos = OwnTokens(r, k) /\ fb[r].rows = OwnRows(r, k) /\ fb[r].pool = OwnRows(r, k)
        /\ fb[r].mode = ModeOf(r, k) /\ fb[r].bs = Len(lens)
    BY <2>2 DEF Leftover, OwnTokens, OwnRows
  <2> QED
    BY <2>2, <2>3, <2>4, <2>5, Zenon
<1> QED
  BY <1>1, Invariance, PTL
=============================================================================
