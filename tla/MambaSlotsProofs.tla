-------------------------- MODULE MambaSlotsProofs --------------------------
(***************************************************************************)
(* Proofs about MambaSlots: its types, that no state slot is leaked or     *)
(* owned twice and, in the second part, that every recurrent state a slot  *)
(* holds is the one its label says, for any number of slots and requests,  *)
(* with and without overlap.                                               *)
(***************************************************************************)
EXTENDS MambaSlots, FiniteSetTheorems, TLAPS

\* A row without a request has no slots; a request has all of them, and the
\* device mapping agrees with its own record of the track slots.
RowInv(r) ==
  /\ kv[r].phase = "free" => kv[r] = NoKv
  /\ kv[r].phase # "free" =>
       /\ kv[r].main \in Slots
       /\ \A i \in Idx : kv[r].pp[i] \in Slots
       /\ mapping[r] = kv[r].pp
       /\ kv[r].id \in 1..MaxId

SlotInv == TypeOK /\ SlotsConserved /\ \A r \in Reqs : RowInv(r)

-----------------------------------------------------------------------------
(* Lemmas.                                                                 *)

\* The indices of a ping-pong buffer, and the other one of each.
LEMMA IdxType ==
  /\ Idx \subseteq {0, 1} /\ 0 \in Idx
  /\ \A i \in Idx : Other(i) \in Idx
  /\ IsFiniteSet(Idx)
  /\ Cardinality(Idx) = IF overlap THEN 2 ELSE 1
<1>1. CASE overlap
  <2>1. Idx = {0} \cup {1} BY <1>1 DEF Idx
  <2>2. IsFiniteSet({0}) /\ Cardinality({0}) = 1 BY FS_Singleton
  <2>4. IsFiniteSet({0} \cup {1}) /\ Cardinality({0} \cup {1}) = 2
    BY <2>2, FS_AddElement
  <2>3. /\ Idx \subseteq {0, 1} /\ 0 \in Idx
        /\ \A i \in Idx : Other(i) \in Idx
    BY <1>1 DEF Idx, Other
  <2> QED BY <1>1, <2>1, <2>4, <2>3
<1>2. CASE ~overlap
  <2>1. Idx = {0} BY <1>2 DEF Idx
  <2>2. IsFiniteSet({0}) /\ Cardinality({0}) = 1 BY FS_Singleton
  <2>3. /\ Idx \subseteq {0, 1} /\ 0 \in Idx
        /\ \A i \in Idx : Other(i) \in Idx
    BY <1>2 DEF Idx, Other
  <2> QED BY <1>2, <2>1, <2>2, <2>3
<1> QED BY <1>1, <1>2

\* The kind of server, and with it the size of a buffer, never changes.
LEMMA Fixed ==
  ASSUME overlap' = overlap
  PROVE  /\ Idx' = Idx /\ NoBuffer' = NoBuffer /\ NoKv' = NoKv /\ Kv' = Kv
<1>1. Idx' = Idx BY DEF Idx
<1> QED BY <1>1 DEF NoBuffer, NoKv, Kv

\* Taking a slot from a set that is not empty.
LEMMA PickIn ==
  \A S : IsFiniteSet(S) /\ Cardinality(S) > 0 =>
          /\ Pick(S) \in S /\ IsFiniteSet(S \ {Pick(S)})
          /\ Cardinality(S \ {Pick(S)}) = Cardinality(S) - 1
<1> SUFFICES ASSUME NEW S, IsFiniteSet(S), Cardinality(S) > 0
             PROVE  /\ Pick(S) \in S /\ IsFiniteSet(S \ {Pick(S)})
                    /\ Cardinality(S \ {Pick(S)}) = Cardinality(S) - 1
  OBVIOUS
<1>1. S # {} BY FS_EmptySet
<1>2. Pick(S) \in S BY <1>1 DEF Pick
<1> QED BY <1>2, FS_RemoveElement

\* What admission takes: different free slots.
LEMMA Taken ==
  ASSUME TypeOK, Cardinality(free) > Cardinality(Idx)
  PROVE  LET main == Pick(free)
             pp0  == Pick(free \ {main})
             pp1  == Pick(free \ {main, pp0}) IN
         /\ main \in free /\ pp0 \in free /\ pp0 # main
         /\ overlap => pp1 \in free /\ pp1 # main /\ pp1 # pp0
<1> DEFINE main == Pick(free)
           pp0  == Pick(free \ {main})
           pp1  == Pick(free \ {main, pp0})
<1>1. IsFiniteSet(free)
  <2>1. IsFiniteSet(1..NumSlots) BY MambaAssumption, FS_Interval
  <2> QED BY <2>1, FS_Subset DEF TypeOK, Slots
<1>2. Cardinality(free) \in Nat BY <1>1, FS_CardinalityType
<1>3. Cardinality(free) > 1 /\ (overlap => Cardinality(free) > 2) BY <1>2, IdxType
<1>4. /\ main \in free /\ IsFiniteSet(free \ {main})
      /\ Cardinality(free \ {main}) = Cardinality(free) - 1
  BY <1>1, <1>2, <1>3, PickIn
<1>5. /\ pp0 \in free \ {main} /\ IsFiniteSet((free \ {main}) \ {pp0})
      /\ Cardinality((free \ {main}) \ {pp0}) = Cardinality(free) - 2
  <2>1. Cardinality(free \ {main}) > 0 BY <1>2, <1>3, <1>4
  <2>2. /\ pp0 \in free \ {main} /\ IsFiniteSet((free \ {main}) \ {pp0})
        /\ Cardinality((free \ {main}) \ {pp0}) = Cardinality(free \ {main}) - 1
    <3> HIDE DEF main
    <3> QED BY <1>4, <2>1, PickIn
  <2> HIDE DEF main, pp0
  <2> QED BY <1>2, <1>4, <2>2
<1>6. overlap => pp1 \in free \ {main, pp0}
  <2>1. (free \ {main}) \ {pp0} = free \ {main, pp0} OBVIOUS
  <2>2. overlap => Cardinality(free \ {main, pp0}) > 0 BY <1>2, <1>3, <1>5, <2>1
  <2> HIDE DEF main, pp0
  <2> QED BY <1>5, <2>1, <2>2, PickIn
<1> QED BY <1>4, <1>5, <1>6

\* Lengths and boundaries are natural numbers.
LEMMA BoundaryType ==
  ASSUME NEW n \in Nat PROVE Boundary(n) \in Nat
<1>1. n \div Interval \in Nat BY MambaAssumption
<1> QED BY <1>1, MambaAssumption DEF Boundary

LEMMA BoundaryInt ==
  ASSUME NEW n \in Int PROVE Boundary(n) \in Int
<1>1. n \div Interval \in Int BY MambaAssumption
<1> QED BY <1>1, MambaAssumption DEF Boundary

\* Learning a new length changes neither the slots nor the phase of a request.
LEMMA TurnedType ==
  ASSUME NEW q \in Kv, NEW post \in Nat
  PROVE  /\ Turned(q, post) \in Kv
         /\ Turned(q, post).main = q.main /\ Turned(q, post).pp = q.pp
         /\ Turned(q, post).phase = q.phase /\ Turned(q, post).id = q.id
<1>1. Boundary(post) \in Nat BY BoundaryType
<1>2. Other(q.next) \in Idx BY IdxType DEF Kv
<1> QED BY <1>1, <1>2 DEF Turned, Kv

\* A step that moves no slot and changes no row's mapping conserves.
LEMMA NothingMoved ==
  ASSUME SlotInv, UNCHANGED <<overlap, free, mapping, cached>>,
         \A r \in Reqs : /\ kv'[r].main = kv[r].main /\ kv'[r].pp = kv[r].pp
                         /\ (kv'[r].phase = "free") <=> (kv[r].phase = "free")
                         /\ kv[r].phase = "free" => kv'[r] = kv[r]
                         /\ kv'[r].id = kv[r].id
  PROVE  SlotsConserved' /\ \A r \in Reqs : RowInv(r)'
<1>f. /\ overlap' = overlap
      /\ Idx' = Idx /\ NoBuffer' = NoBuffer /\ NoKv' = NoKv /\ Kv' = Kv
  BY Fixed
<1>1. \A r \in Reqs : Own(r)' = Own(r) BY <1>f DEF Own
<1>2. SlotsConserved' BY <1>f, <1>1 DEF SlotInv, SlotsConserved
<1>3. \A r \in Reqs : RowInv(r)' BY <1>f DEF SlotInv, RowInv
<1> QED BY <1>2, <1>3

\* The initial state.
LEMMA InitInv == Init => SlotInv
<1> SUFFICES ASSUME Init PROVE SlotInv OBVIOUS
<1>1. NoKv \in Kv /\ Zero \in Content /\ NoLabel \in Label /\ NoBuffer \in [Idx -> {NoSlot}]
  BY IdxType, MambaAssumption
     DEF NoKv, Kv, Zero, Content, NoLabel, Label, State, NoBuffer
<1>2. TypeOK BY <1>1, MambaAssumption DEF Init, TypeOK, NoBuffer
<1>3. \A r \in Reqs : RowInv(r) BY DEF Init, RowInv, NoKv
<1>4. \A r \in Reqs : Own(r) \subseteq {NoSlot} BY DEF Init, Own, NoKv, NoBuffer
<1>5. NoSlot \notin Slots BY DEF NoSlot, Slots
<1>6. SlotsConserved
  <2>1. \A s \in Slots : cached[s] = NoLabel /\ s \in free BY DEF Init
  <2>2. \A r \in Reqs : kv[r].phase = "free" BY DEF Init, NoKv
  <2> QED BY <1>4, <1>5, <2>1, <2>2 DEF SlotsConserved
<1> QED BY <1>2, <1>3, <1>6 DEF SlotInv

-----------------------------------------------------------------------------
(* One lemma per action.                                                   *)

\* Admission takes slots that were free.
LEMMA AdmitStep ==
  ASSUME SlotInv, NEW r \in Reqs, NEW src \in Slots \cup {NoSlot}, Admit(r, src)
  PROVE  SlotInv'
<1> DEFINE main == Pick(free)
           pp0  == Pick(free \ {main})
           pp1  == Pick(free \ {main, pp0})
           pp   == [i \in Idx |-> IF i = 0 THEN pp0 ELSE pp1]
           new  == {main} \cup {pp[i] : i \in Idx}
<1>f. /\ overlap' = overlap
      /\ Idx' = Idx /\ NoBuffer' = NoBuffer /\ NoKv' = NoKv /\ Kv' = Kv
  BY Fixed DEF Admit
<1>0. TypeOK /\ SlotsConserved /\ \A q \in Reqs : RowInv(q) BY DEF SlotInv
<1>1. /\ main \in free /\ \A i \in Idx : pp[i] \in free /\ pp[i] # main
      /\ \A i, j \in Idx : i # j => pp[i] # pp[j]
  <2>1. Cardinality(free) > Cardinality(Idx) BY DEF Admit
  <2>2. /\ main \in free /\ pp0 \in free /\ pp0 # main
        /\ overlap => pp1 \in free /\ pp1 # main /\ pp1 # pp0
    BY <1>0, <2>1, Taken
  <2>3. \A i \in Idx : i = 0 \/ (i = 1 /\ overlap) BY DEF Idx
  <2> HIDE DEF main, pp0, pp1
  <2> QED BY <2>2, <2>3
<1>2. pp \in [Idx -> Slots] /\ main \in Slots BY <1>0, <1>1 DEF TypeOK
<1>3. /\ free' = free \ new /\ mapping' = [mapping EXCEPT ![r] = pp]
      /\ cached' = cached /\ gpu' = gpu /\ flight' = flight /\ ids' = ids + 1 /\ ids < MaxId
      /\ now' = [now EXCEPT ![r] = IF src = NoSlot THEN Zero ELSE cached[src]]
      /\ kv[r].phase = "free" /\ (src # NoSlot => cached[src] # NoLabel)
  BY DEF Admit
<1>4. kv' = [kv EXCEPT ![r] =
        [phase |-> "prefill", id |-> ids + 1, main |-> main, pp |-> pp, next |-> 0,
         last |-> Other(0), tracked |-> 0,
         len |-> IF src = NoSlot THEN 0 ELSE cached[src].len, cow |-> src]]
  BY DEF Admit
<1> HIDE DEF main, pp
<1>5. \A q \in Reqs : q # r => kv'[q] = kv[q] /\ mapping'[q] = mapping[q]
  BY <1>0, <1>3, <1>4 DEF TypeOK
<1>6. /\ kv'[r].phase = "prefill" /\ kv'[r].main = main /\ kv'[r].pp = pp
      /\ mapping'[r] = pp /\ kv'[r].id \in 1..MaxId
  BY <1>0, <1>3, <1>4, MambaAssumption DEF TypeOK
<1>7. TypeOK'
  <2>1. (IF src = NoSlot THEN 0 ELSE cached[src].len) \in Nat
        /\ (IF src = NoSlot THEN Zero ELSE cached[src]) \in Content
    <3>1. CASE src = NoSlot BY <3>1, MambaAssumption DEF Zero, State, Content
    <3>2. CASE src # NoSlot
      <4>1. cached[src] \in [id : 0..MaxId, len : Nat]
        BY <1>0, <1>3, <3>2 DEF TypeOK, Label
      <4> QED BY <3>2, <4>1 DEF Content
    <3> QED BY <3>1, <3>2
  <2>2. Other(0) \in Idx /\ 0 \in Idx BY IdxType
  <2>3. ids + 1 \in 0..MaxId BY <1>0, <1>3, MambaAssumption DEF TypeOK
  <2>4. kv' \in [Reqs -> Kv]
    BY <1>0, <1>2, <1>4, <2>1, <2>2, <2>3 DEF TypeOK, Kv
  <2>5. now' \in [Reqs -> Content] BY <1>0, <1>3, <2>1 DEF TypeOK
  <2>6. mapping' \in [Reqs -> [Idx -> Slots \cup {NoSlot}]]
    BY <1>0, <1>2, <1>3 DEF TypeOK
  <2> QED BY <1>f, <1>0, <1>3, <2>3, <2>4, <2>5, <2>6 DEF TypeOK
<1>8. \A q \in Reqs : RowInv(q)'
  BY <1>f, <1>0, <1>2, <1>5, <1>6 DEF RowInv
<1>9. SlotsConserved'
  <2>1. Own(r)' = new BY <1>f, <1>6 DEF Own
  <2>2. \A q \in Reqs : q # r => Own(q)' = Own(q) BY <1>f, <1>5 DEF Own
  <2>3. \A s \in Slots : s \notin Own(r)
    <3>1. kv[r] = NoKv BY <1>0, <1>3 DEF RowInv
    <3> QED BY <3>1 DEF Own, NoKv, NoBuffer, NoSlot, Slots
  <2>4. new \subseteq free BY <1>1
  <2>5. \A s \in Slots :
          /\ s \in free' \/ cached'[s] # NoLabel \/ \E q \in Reqs : s \in Own(q)'
          /\ s \in free' => cached'[s] = NoLabel
          /\ \A q \in Reqs : s \in Own(q)' =>
               /\ s \notin free' /\ cached'[s] = NoLabel
               /\ \A p \in Reqs : s \in Own(p)' => p = q
    <3> HIDE DEF new
    <3> QED BY <1>0, <1>3, <2>1, <2>2, <2>3, <2>4 DEF SlotsConserved
  <2>6. \A q \in Reqs : kv'[q].phase # "free" =>
          \A i, j \in Idx : /\ kv'[q].pp[i] # kv'[q].main
                            /\ i # j => kv'[q].pp[i] # kv'[q].pp[j]
    BY <1>0, <1>1, <1>5, <1>6 DEF SlotsConserved
  <2> QED BY <1>f, <2>5, <2>6 DEF SlotsConserved
<1> QED BY <1>7, <1>8, <1>9 DEF SlotInv

\* A prefill chunk moves no slot.
LEMMA PrefillStep ==
  ASSUME SlotInv, NEW r \in Reqs, NEW n \in Chunks, NEW final \in BOOLEAN,
         Prefill(r, n, final)
  PROVE  SlotInv'
<1> DEFINE q     == kv[r]
           pre   == q.len
           start == IF q.cow # NoSlot THEN gpu[q.cow] ELSE IF pre = 0 THEN Zero ELSE gpu[q.main]
           cross == Crosses(pre, pre + n)
           held  == [gpu EXCEPT ![q.main] = State(q.id, start.len + n)]
<1>f. /\ overlap' = overlap
      /\ Idx' = Idx /\ NoBuffer' = NoBuffer /\ NoKv' = NoKv /\ Kv' = Kv
  BY Fixed DEF Prefill
<1>0. TypeOK /\ RowInv(r) BY DEF SlotInv
<1>1. q \in Kv /\ q.phase = "prefill" /\ pre \in Nat /\ n \in Nat
      /\ q.main \in Slots /\ mapping[r] = q.pp
  BY <1>0, MambaAssumption DEF Prefill, TypeOK, Kv, RowInv
<1>2. start \in Content
  <2>1. Zero \in Content BY MambaAssumption DEF Zero, State, Content
  <2> QED BY <1>0, <1>1, <2>1 DEF TypeOK, Kv
<1>3. Boundary(pre + n) \in Nat BY <1>1, BoundaryType
<1>4. /\ gpu' = IF cross
                THEN [held EXCEPT ![mapping[r][q.next]] =
                        State(q.id, start.len + (Boundary(pre + n) - pre))]
                ELSE held
      /\ now' = [now EXCEPT ![r] = State(q.id, pre + n)]
      /\ kv' = [kv EXCEPT ![r] =
              [Turned(q, pre + n) EXCEPT
                 !.phase = IF final THEN "decode" ELSE "prefill", !.cow = NoSlot]]
      /\ UNCHANGED <<overlap, free, mapping, cached, flight, ids>>
  BY DEF Prefill
<1> HIDE DEF start, cross
<1>5. gpu' \in [Slots -> Content]
  <2>1. /\ State(q.id, start.len + n) \in Content
        /\ State(q.id, start.len + (Boundary(pre + n) - pre)) \in Content
    BY <1>1, <1>2, <1>3 DEF State, Content, Kv
  <2>2. held \in [Slots -> Content] BY <1>0, <2>1 DEF TypeOK
  <2> QED BY <1>4, <2>1, <2>2
<1>6. /\ Turned(q, pre + n) \in Kv
      /\ Turned(q, pre + n).main = q.main /\ Turned(q, pre + n).pp = q.pp
      /\ Turned(q, pre + n).id = q.id
  <2>1. q \in Kv /\ pre + n \in Nat BY <1>1
  <2> HIDE DEF q, pre
  <2> QED BY <2>1, TurnedType
<1>7. now' \in [Reqs -> Content]
  <2>1. State(q.id, pre + n) \in Content BY <1>1 DEF State, Content, Kv
  <2> QED BY <1>0, <1>4, <2>1 DEF TypeOK
<1>8. kv' \in [Reqs -> Kv]
  <2> DEFINE e == [Turned(q, pre + n) EXCEPT
                     !.phase = IF final THEN "decode" ELSE "prefill", !.cow = NoSlot]
  <2>1. e \in Kv
    <3> HIDE DEF q, pre
    <3> QED BY <1>6 DEF Kv
  <2> HIDE DEF e
  <2>2. kv' = [kv EXCEPT ![r] = e] BY <1>4 DEF e
  <2> QED BY <1>0, <2>1, <2>2 DEF TypeOK
<1>9. TypeOK' BY <1>f, <1>0, <1>4, <1>5, <1>7, <1>8 DEF TypeOK
<1>10. \A p \in Reqs : /\ kv'[p].main = kv[p].main /\ kv'[p].pp = kv[p].pp
                       /\ (kv'[p].phase = "free") <=> (kv[p].phase = "free")
                       /\ kv[p].phase = "free" => kv'[p] = kv[p]
                       /\ kv'[p].id = kv[p].id
  <2>1. \A p \in Reqs : p # r => kv'[p] = kv[p] BY <1>0, <1>4 DEF TypeOK
  <2>2. /\ kv'[r].main = q.main /\ kv'[r].pp = q.pp /\ kv'[r].id = q.id
        /\ kv'[r].phase = IF final THEN "decode" ELSE "prefill"
    <3>1. kv'[r] = [Turned(q, pre + n) EXCEPT
                      !.phase = IF final THEN "decode" ELSE "prefill", !.cow = NoSlot]
      BY <1>0, <1>4 DEF TypeOK
    <3> HIDE DEF q, pre
    <3> QED BY <1>6, <3>1 DEF Kv
  <2> QED BY <1>1, <2>1, <2>2
<1>11. SlotsConserved' /\ \A p \in Reqs : RowInv(p)'
  BY <1>4, <1>10, NothingMoved
<1> QED BY <1>9, <1>11 DEF SlotInv

\* A verify moves no slot.
LEMMA VerifyStep ==
  ASSUME SlotInv, NEW S \in SUBSET Reqs, NEW al \in [S -> 1..Width], Verify(al)
  PROVE  SlotInv'
<1> DEFINE B == DOMAIN al
<1>a. B \subseteq Reqs /\ al \in [B -> 1..Width] OBVIOUS
<1>f. /\ overlap' = overlap
      /\ Idx' = Idx /\ NoBuffer' = NoBuffer /\ NoKv' = NoKv /\ Kv' = Kv
  BY Fixed DEF Verify
<1>0. TypeOK /\ \A r \in Reqs : RowInv(r) BY DEF SlotInv
<1>1. /\ UNCHANGED <<overlap, free, kv, mapping, cached, ids>>
      /\ flight' = Append(flight, [r \in B |-> [id |-> kv[r].id, al |-> al[r]]])
      /\ now' = [r \in Reqs |-> IF r \in B THEN State(kv[r].id, now[r].len + al[r]) ELSE now[r]]
      /\ \A r \in B : kv[r].phase = "decode"
  BY DEF Verify
<1>2. \A r \in B : al[r] \in 1..Width /\ al[r] \in Int BY <1>a
<1>3. gpu' \in [Slots -> Content]
  <2> DEFINE step(r) == TrackStep(now[r].len, al[r])
             after(r, t) == State(kv[r].id, gpu[kv[r].main].len + t + 1)
  <2>1. \A r \in B : kv[r].main \in Slots
    BY <1>0 DEF RowInv, Verify
  <2>2. \A r \in B : \A t \in Int : after(r, t) \in Content
    BY <1>0, <2>1, SMTT(30) DEF TypeOK, State, Content, Kv
  <2>3. \A r \in B : step(r) \in Int /\ CommitStep(al[r]) \in Int
    <3>1. \A r \in B : now[r].len \in Int BY <1>0 DEF TypeOK, Content
    <3>2. \A r \in B : TrackStep(now[r].len, al[r]) \in Int
      <4> TAKE r \in B
      <4>1. now[r].len \in Int /\ now[r].len + al[r] \in Int BY <1>2, <3>1
      <4>2. Boundary(now[r].len + al[r]) \in Int BY <4>1, BoundaryInt
      <4> QED BY <4>1, <4>2 DEF TrackStep
    <3> QED BY <1>2, <3>2 DEF CommitStep
  <2>4. gpu' = [s \in Slots |->
               IF \E r \in B : step(r) >= 0 /\ mapping[r][kv[r].next] = s
               THEN LET r == CHOOSE r \in B : mapping[r][kv[r].next] = s
                    IN  after(r, step(r))
               ELSE IF \E r \in B : kv[r].main = s
               THEN LET r == CHOOSE r \in B : kv[r].main = s
                    IN  after(r, CommitStep(al[r]))
               ELSE gpu[s]]
    BY DEF Verify
  <2>5. ASSUME NEW s \in Slots PROVE gpu'[s] \in Content
    <3> DEFINE t == CHOOSE r \in B : mapping[r][kv[r].next] = s
               m == CHOOSE r \in B : kv[r].main = s
    <3>1. CASE \E r \in B : step(r) >= 0 /\ mapping[r][kv[r].next] = s
      <4>1. t \in B BY <3>1
      <4>2. gpu'[s] = after(t, step(t)) BY <2>4, <3>1
      <4> HIDE DEF t, step, after
      <4> QED BY <2>2, <2>3, <4>1, <4>2
    <3>2. CASE /\ ~\E r \in B : step(r) >= 0 /\ mapping[r][kv[r].next] = s
               /\ \E r \in B : kv[r].main = s
      <4>1. m \in B BY <3>2
      <4>2. gpu'[s] = after(m, CommitStep(al[m])) BY <2>4, <3>2
      <4> HIDE DEF m, step, after
      <4> QED BY <2>2, <2>3, <4>1, <4>2
    <3>3. CASE /\ ~\E r \in B : step(r) >= 0 /\ mapping[r][kv[r].next] = s
               /\ ~\E r \in B : kv[r].main = s
      <4>1. gpu'[s] = gpu[s] BY <2>4, <3>3
      <4> QED BY <1>0, <4>1 DEF TypeOK
    <3> QED BY <3>1, <3>2, <3>3
  <2> QED BY <2>4, <2>5
<1>4. now' \in [Reqs -> Content]
  BY <1>0, <1>1, <1>2 DEF TypeOK, State, Content, Kv
<1>5. flight' \in Seq(Result)
  <2>1. [r \in B |-> [id |-> kv[r].id, al |-> al[r]]] \in [B -> [id : 1..MaxId, al : 1..Width]]
    BY <1>0, <1>1, <1>2 DEF RowInv
  <2>2. [r \in B |-> [id |-> kv[r].id, al |-> al[r]]] \in Result BY <2>1 DEF Result
  <2> QED BY <1>0, <1>1, <2>2 DEF TypeOK
<1>6. TypeOK' BY <1>f, <1>0, <1>1, <1>3, <1>4, <1>5 DEF TypeOK
<1>7. SlotsConserved' /\ \A r \in Reqs : RowInv(r)' BY <1>1, NothingMoved
<1> QED BY <1>6, <1>7 DEF SlotInv

\* Processing a result moves no slot.
LEMMA ProcessStep ==
  ASSUME SlotInv, Process PROVE SlotInv'
<1> DEFINE res     == Head(flight)
           mine(r) == r \in DOMAIN res /\ kv[r].id = res[r].id
<1>f. /\ overlap' = overlap
      /\ Idx' = Idx /\ NoBuffer' = NoBuffer /\ NoKv' = NoKv /\ Kv' = Kv
  BY Fixed DEF Process
<1>0. TypeOK BY DEF SlotInv
<1>1. /\ flight # <<>> /\ flight' = Tail(flight)
      /\ UNCHANGED <<overlap, free, mapping, cached, gpu, now, ids>>
      /\ kv' = [r \in Reqs |->
                  IF mine(r) THEN Turned(kv[r], kv[r].len + res[r].al) ELSE kv[r]]
  BY DEF Process
<1>2. res \in Result /\ flight' \in Seq(Result) BY <1>0, <1>1 DEF TypeOK
<1>3. ASSUME NEW r \in Reqs
      PROVE  /\ kv'[r] \in Kv
             /\ kv'[r].main = kv[r].main /\ kv'[r].pp = kv[r].pp
             /\ kv'[r].phase = kv[r].phase /\ kv'[r].id = kv[r].id
             /\ kv[r].phase = "free" => kv'[r] = kv[r]
  <2>1. kv[r] \in Kv /\ kv[r].len \in Nat BY <1>0 DEF TypeOK, Kv
  <2>2. CASE ~mine(r) BY <1>1, <2>1, <2>2
  <2>3. CASE mine(r)
    <3>1. res[r].al \in Nat /\ res[r].id \in 1..MaxId BY <1>2, <2>3 DEF Result
    <3>2. kv'[r] = Turned(kv[r], kv[r].len + res[r].al) BY <1>1, <2>3
    <3>3. kv[r].len + res[r].al \in Nat BY <2>1, <3>1
    <3>4. kv[r].phase # "free"
      <4>1. kv[r].id # 0 BY <2>3, <3>1
      <4> QED BY <4>1 DEF SlotInv, RowInv, NoKv
    <3> HIDE DEF res
    <3> QED BY <2>1, <3>2, <3>3, <3>4, TurnedType
  <2> QED BY <2>2, <2>3
<1>4. TypeOK'
  <2>1. kv' \in [Reqs -> Kv] BY <1>1, <1>3
  <2> QED BY <1>f, <1>0, <1>1, <1>2, <2>1 DEF TypeOK
<1>5. SlotsConserved' /\ \A r \in Reqs : RowInv(r)' BY <1>1, <1>3, NothingMoved
<1> QED BY <1>4, <1>5 DEF SlotInv

\* A donation swaps a free slot for the one donated.
LEMMA DonateStep ==
  ASSUME SlotInv, NEW r \in Reqs, NEW exists \in BOOLEAN, Donate(r, exists)
  PROVE  SlotInv'
<1> DEFINE q   == kv[r]
           new == Pick(free)
           pp  == [q.pp EXCEPT ![q.last] = new]
           old == q.pp[q.last]
<1>f. /\ overlap' = overlap
      /\ Idx' = Idx /\ NoBuffer' = NoBuffer /\ NoKv' = NoKv /\ Kv' = Kv
  BY Fixed DEF Donate
<1>0. TypeOK /\ SlotsConserved /\ \A p \in Reqs : RowInv(p) BY DEF SlotInv
<1>1. /\ q.phase # "free" /\ q.tracked > 0 /\ free # {}
      /\ free' = IF exists THEN (free \ {new}) \cup {old} ELSE free \ {new}
      /\ cached' = IF exists THEN cached
                   ELSE [cached EXCEPT ![old] = State(q.id, q.tracked)]
      /\ kv' = [kv EXCEPT ![r] = [q EXCEPT !.pp = pp, !.tracked = 0]]
      /\ mapping' = Synced(mapping, r, pp)
      /\ UNCHANGED <<overlap, gpu, now, flight, ids>>
  BY DEF Donate
<1>2. new \in free BY <1>1 DEF Pick
<1>3. q \in Kv /\ q.main \in Slots /\ (\A i \in Idx : q.pp[i] \in Slots)
      /\ q.last \in Idx /\ q.id \in 1..MaxId /\ q.pp \in [Idx -> Slots \cup {NoSlot}] /\ mapping[r] = q.pp
  BY <1>0, <1>1 DEF TypeOK, RowInv, Kv
<1>4. /\ new \in Slots /\ old \in Slots /\ pp \in [Idx -> Slots]
      /\ pp[q.last] = new /\ \A i \in Idx : i # q.last => pp[i] = q.pp[i]
  BY <1>0, <1>2, <1>3 DEF TypeOK
<1>5. /\ State(q.id, q.tracked) \in Label /\ State(q.id, q.tracked) # NoLabel
  BY <1>1, <1>3 DEF Kv, Label, State, NoLabel
<1> HIDE DEF q, new, old, pp
<1>6. \A p \in Reqs : p # r => kv'[p] = kv[p] /\ mapping'[p] = mapping[p]
  BY <1>0, <1>1 DEF TypeOK, Synced
<1>7. /\ kv'[r].main = q.main /\ kv'[r].pp = pp /\ kv'[r].id = q.id
      /\ kv'[r].phase = q.phase /\ mapping'[r] = pp
  <2>1. kv'[r] = [q EXCEPT !.pp = pp, !.tracked = 0] BY <1>0, <1>1 DEF TypeOK
  <2>2. mapping'[r] = pp BY <1>0, <1>1 DEF TypeOK, Synced
  <2> HIDE DEF pp
  <2> QED BY <1>3, <2>1, <2>2 DEF Kv
<1>8. TypeOK'
  <2>1. free' \subseteq Slots BY <1>0, <1>1, <1>4 DEF TypeOK
  <2>2. kv' \in [Reqs -> Kv]
    <3> DEFINE e == [q EXCEPT !.pp = pp, !.tracked = 0]
    <3>1. e \in Kv BY <1>3, <1>4 DEF Kv
    <3>2. kv' = [kv EXCEPT ![r] = e] BY <1>1
    <3> HIDE DEF e
    <3> QED BY <1>0, <3>1, <3>2 DEF TypeOK
  <2>3. mapping' \in [Reqs -> [Idx -> Slots \cup {NoSlot}]]
    BY <1>0, <1>1, <1>4 DEF TypeOK, Synced
  <2>4. cached' \in [Slots -> Label] BY <1>0, <1>1, <1>5 DEF TypeOK
  <2> QED BY <1>f, <1>0, <1>1, <2>1, <2>2, <2>3, <2>4 DEF TypeOK
<1>9. \A p \in Reqs : RowInv(p)'
  <2>1. RowInv(r)' BY <1>f, <1>1, <1>3, <1>4, <1>7 DEF RowInv, q
  <2>2. \A p \in Reqs : p # r => RowInv(p)' BY <1>f, <1>0, <1>6 DEF RowInv
  <2> QED BY <2>1, <2>2
<1>10. SlotsConserved'
  <2>1. \A i \in Idx : /\ q.pp[i] # q.main
                       /\ \A j \in Idx : i # j => q.pp[i] # q.pp[j]
    BY <1>0, <1>1 DEF SlotsConserved, q
  <2>2. Own(r) = {q.main} \cup {q.pp[i] : i \in Idx} BY DEF Own, q
  <2>3. Own(r)' = {q.main} \cup {pp[i] : i \in Idx} BY <1>f, <1>7 DEF Own
  <2>4. old \in Own(r) /\ new \notin Own(r)
    BY <1>0, <1>2, <1>3, <1>4, <2>2 DEF SlotsConserved, old
  <2>5. Own(r)' = (Own(r) \ {old}) \cup {new}
    BY <1>3, <1>4, <2>1, <2>2, <2>3 DEF old
  <2>6. \A p \in Reqs : p # r => Own(p)' = Own(p) BY <1>f, <1>6 DEF Own
  <2>7. /\ cached' = IF exists THEN cached ELSE [cached EXCEPT ![old] = State(q.id, q.tracked)]
        /\ cached \in [Slots -> Label]
    BY <1>0, <1>1 DEF TypeOK
  <2>8. \A s \in Slots : /\ s # old => cached'[s] = cached[s]
                         /\ s = old => (cached'[s] = NoLabel <=> exists)
    BY <1>0, <1>4, <1>5, <2>4, <2>7 DEF SlotsConserved
  <2>9. ASSUME NEW s \in Slots
        PROVE  /\ s \in free' \/ cached'[s] # NoLabel \/ \E p \in Reqs : s \in Own(p)'
               /\ s \in free' => cached'[s] = NoLabel
               /\ \A p \in Reqs : s \in Own(p)' =>
                    /\ s \notin free' /\ cached'[s] = NoLabel
                    /\ \A t \in Reqs : s \in Own(t)' => t = p
    <3>1. CASE s = old BY <1>0, <1>1, <1>2, <1>4, <2>4, <2>5, <2>6, <2>8, <3>1 DEF SlotsConserved
    <3>2. CASE s = new BY <1>0, <1>1, <1>2, <1>4, <2>4, <2>5, <2>6, <2>8, <3>2 DEF SlotsConserved
    <3>3. CASE s # old /\ s # new
      BY <1>0, <1>1, <2>5, <2>6, <2>8, <3>3 DEF SlotsConserved
    <3> QED BY <3>1, <3>2, <3>3
  <2>10. \A p \in Reqs : kv'[p].phase # "free" =>
           \A i, j \in Idx : /\ kv'[p].pp[i] # kv'[p].main
                             /\ i # j => kv'[p].pp[i] # kv'[p].pp[j]
    <3>1. \A i, j \in Idx : pp[i] # q.main /\ (i # j => pp[i] # pp[j])
      BY <1>4, <2>1, <2>2, <2>4
    <3> QED BY <1>0, <1>6, <1>7, <3>1 DEF SlotsConserved
  <2> QED BY <1>f, <2>9, <2>10 DEF SlotsConserved
<1> QED BY <1>8, <1>9, <1>10 DEF SlotInv

\* A request that ends gives back every slot, except a track slot it leaves
\* with the prefix cache.
LEMMA FinishStep ==
  ASSUME SlotInv, NEW r \in Reqs, NEW keep \in BOOLEAN, Finish(r, keep)
  PROVE  SlotInv'
<1> DEFINE q    == kv[r]
           left == q.pp[q.last]
           back == {q.main} \cup Freed(q.pp, IF keep THEN q.last ELSE -1)
<1>f. /\ overlap' = overlap
      /\ Idx' = Idx /\ NoBuffer' = NoBuffer /\ NoKv' = NoKv /\ Kv' = Kv
  BY Fixed DEF Finish
<1>0. TypeOK /\ SlotsConserved /\ \A p \in Reqs : RowInv(p) BY DEF SlotInv
<1>1. q.phase # "free" /\ (keep => q.tracked > 0) BY DEF Finish
<1>2. q \in Kv /\ q.main \in Slots /\ (\A i \in Idx : q.pp[i] \in Slots)
      /\ q.last \in Idx /\ mapping[r] = q.pp
  BY <1>0, <1>1 DEF TypeOK, RowInv, Kv
<1>3. /\ free' = free \cup back
      /\ cached' = IF keep THEN [cached EXCEPT ![left] = State(q.id, q.tracked)]
                   ELSE cached
      /\ kv' = [kv EXCEPT ![r] = NoKv] /\ now' = [now EXCEPT ![r] = Zero]
      /\ UNCHANGED <<overlap, mapping, gpu, flight, ids>>
  BY <1>2 DEF Finish
<1>4. keep => State(q.id, q.tracked) \in Label /\ State(q.id, q.tracked) # NoLabel
  BY <1>1, <1>2 DEF Kv, Label, State, NoLabel
<1>5. left \in Slots /\ back \subseteq Slots BY <1>2 DEF Freed
<1>6. \A p \in Reqs : p # r => kv'[p] = kv[p] BY <1>0, <1>3 DEF TypeOK
<1>7. kv'[r] = NoKv BY <1>0, <1>3 DEF TypeOK
<1>8. TypeOK'
  <2>1. NoKv \in Kv /\ Zero \in Content
    BY IdxType, MambaAssumption DEF NoKv, Kv, Zero, Content, State, NoBuffer
  <2>2. free' \subseteq Slots BY <1>0, <1>3, <1>5 DEF TypeOK
  <2> HIDE DEF q, left, back
  <2>3. cached' \in [Slots -> Label] BY <1>0, <1>3, <1>4 DEF TypeOK
  <2>4. kv' \in [Reqs -> Kv] /\ now' \in [Reqs -> Content]
    BY <1>0, <1>3, <2>1 DEF TypeOK
  <2> QED BY <1>f, <1>0, <1>3, <2>2, <2>3, <2>4 DEF TypeOK
<1>9. \A p \in Reqs : RowInv(p)'
  BY <1>f, <1>0, <1>3, <1>6, <1>7 DEF RowInv, NoKv
<1>10. SlotsConserved'
  <2>1. \A i \in Idx : /\ q.pp[i] # q.main
                       /\ \A j \in Idx : i # j => q.pp[i] # q.pp[j]
    BY <1>0, <1>1 DEF SlotsConserved
  <2>2. Own(r) = {q.main} \cup {q.pp[i] : i \in Idx} BY DEF Own
  <2>3. \A s \in Slots : s \notin Own(r)'
    BY <1>f, <1>7 DEF Own, NoKv, NoBuffer, NoSlot, Slots
  <2>4. back = IF keep THEN Own(r) \ {left} ELSE Own(r)
    <3>1. CASE keep
      <4>1. Freed(q.pp, q.last) = {q.pp[i] : i \in Idx} \ {left}
        BY <1>2, <2>1 DEF Freed
      <4> QED BY <1>2, <2>1, <2>2, <3>1, <4>1
    <3>2. CASE ~keep
      <4>1. Idx \ {-1} = Idx BY IdxType
      <4> QED BY <2>2, <3>2, <4>1 DEF Freed
    <3> QED BY <3>1, <3>2
  <2>5. left \in Own(r) BY <1>2, <2>2
  <2>6. \A p \in Reqs : p # r => Own(p)' = Own(p) BY <1>f, <1>6 DEF Own
  <2>7. \A s \in Slots : /\ s # left => cached'[s] = cached[s]
                         /\ s = left => (cached'[s] # NoLabel <=> keep)
    BY <1>0, <1>3, <1>4, <1>5, <2>5 DEF SlotsConserved, TypeOK
  <2> HIDE DEF q, left, back
  <2>8. ASSUME NEW s \in Slots
        PROVE  /\ s \in free' \/ cached'[s] # NoLabel \/ \E p \in Reqs : s \in Own(p)'
               /\ s \in free' => cached'[s] = NoLabel
               /\ \A p \in Reqs : s \in Own(p)' =>
                    /\ s \notin free' /\ cached'[s] = NoLabel
                    /\ \A t \in Reqs : s \in Own(t)' => t = p
    <3>1. CASE s \in Own(r)
      BY <1>0, <1>3, <2>3, <2>4, <2>5, <2>6, <2>7, <3>1 DEF SlotsConserved
    <3>2. CASE s \notin Own(r)
      BY <1>0, <1>3, <2>3, <2>4, <2>5, <2>6, <2>7, <3>2 DEF SlotsConserved
    <3> QED BY <3>1, <3>2
  <2>9. \A p \in Reqs : kv'[p].phase # "free" =>
           \A i, j \in Idx : /\ kv'[p].pp[i] # kv'[p].main
                             /\ i # j => kv'[p].pp[i] # kv'[p].pp[j]
    BY <1>0, <1>6, <1>7 DEF SlotsConserved, NoKv
  <2> QED BY <1>f, <2>8, <2>9 DEF SlotsConserved
<1> QED BY <1>8, <1>9, <1>10 DEF SlotInv

\* An eviction frees a slot of the prefix cache.
LEMMA EvictStep ==
  ASSUME SlotInv, NEW s \in Slots, Evict(s) PROVE SlotInv'
<1>f. /\ overlap' = overlap
      /\ Idx' = Idx /\ NoBuffer' = NoBuffer /\ NoKv' = NoKv /\ Kv' = Kv
  BY Fixed DEF Evict
<1>0. TypeOK /\ SlotsConserved /\ \A p \in Reqs : RowInv(p) BY DEF SlotInv
<1>1. /\ cached[s] # NoLabel /\ free' = free \cup {s}
      /\ cached' = [cached EXCEPT ![s] = NoLabel]
      /\ UNCHANGED <<overlap, kv, mapping, gpu, now, flight, ids>>
  BY DEF Evict
<1>2. NoLabel \in Label BY DEF Label
<1>3. TypeOK' BY <1>f, <1>0, <1>1, <1>2 DEF TypeOK
<1>4. \A p \in Reqs : RowInv(p)' BY <1>f, <1>0, <1>1 DEF RowInv
<1>5. \A p \in Reqs : Own(p)' = Own(p) BY <1>f, <1>1 DEF Own
<1>6. cached'[s] = NoLabel /\ \A t \in Slots : t # s => cached'[t] = cached[t]
  BY <1>0, <1>1 DEF TypeOK
<1>7. SlotsConserved' BY <1>f, <1>0, <1>1, <1>5, <1>6 DEF SlotsConserved
<1> QED BY <1>3, <1>4, <1>7 DEF SlotInv

\* A flush of an idle server makes every slot free.
LEMMA ClearStep ==
  ASSUME SlotInv, Clear PROVE SlotInv'
<1>f. /\ overlap' = overlap
      /\ Idx' = Idx /\ NoBuffer' = NoBuffer /\ NoKv' = NoKv /\ Kv' = Kv
  BY Fixed DEF Clear
<1>0. TypeOK /\ SlotsConserved /\ \A p \in Reqs : RowInv(p) BY DEF SlotInv
<1>1. /\ \A p \in Reqs : kv[p].phase = "free"
      /\ free' = Slots /\ cached' = [s \in Slots |-> NoLabel]
      /\ mapping' = [p \in Reqs |-> NoBuffer]
      /\ UNCHANGED <<overlap, kv, gpu, now, flight, ids>>
  BY DEF Clear
<1>2. NoLabel \in Label /\ NoBuffer \in [Idx -> Slots \cup {NoSlot}]
  BY DEF Label, NoBuffer
<1>3. TypeOK' BY <1>f, <1>0, <1>1, <1>2 DEF TypeOK
<1>4. \A p \in Reqs : RowInv(p)' BY <1>f, <1>0, <1>1 DEF RowInv
<1>5. \A p \in Reqs : \A s \in Slots : s \notin Own(p)'
  <2>1. \A p \in Reqs : kv'[p] = NoKv BY <1>0, <1>1 DEF RowInv
  <2> QED BY <1>f, <2>1 DEF Own, NoKv, NoBuffer, NoSlot, Slots
<1>6. SlotsConserved' BY <1>1, <1>5 DEF SlotsConserved
<1> QED BY <1>3, <1>4, <1>6 DEF SlotInv

-----------------------------------------------------------------------------
(* The theorems.                                                           *)

\* Every step keeps the invariant.
LEMMA SlotStep == SlotInv /\ [Next]_vars => SlotInv'
<1> SUFFICES ASSUME SlotInv, [Next]_vars PROVE SlotInv' OBVIOUS
<1>1. ASSUME NEW r \in Reqs, NEW src \in Slots \cup {NoSlot}, Admit(r, src)
      PROVE  SlotInv'
  BY <1>1, AdmitStep
<1>2. ASSUME NEW r \in Reqs, NEW n \in Chunks, NEW final \in BOOLEAN,
             Prefill(r, n, final)
      PROVE  SlotInv'
  BY <1>2, PrefillStep
<1>3. ASSUME NEW B \in SUBSET Reqs, NEW al \in [B -> 1..Width], Verify(al)
      PROVE  SlotInv'
  BY <1>3, VerifyStep
<1>4. CASE Process BY <1>4, ProcessStep
<1>5. ASSUME NEW r \in Reqs, NEW b \in BOOLEAN, Donate(r, b) PROVE SlotInv'
  BY <1>5, DonateStep
<1>6. ASSUME NEW r \in Reqs, NEW b \in BOOLEAN, Finish(r, b) PROVE SlotInv'
  BY <1>6, FinishStep
<1>7. ASSUME NEW s \in Slots, Evict(s) PROVE SlotInv' BY <1>7, EvictStep
<1>8. CASE Clear BY <1>8, ClearStep
<1>9. CASE UNCHANGED vars
  <2>1. Idx' = Idx /\ NoBuffer' = NoBuffer /\ NoKv' = NoKv /\ Kv' = Kv
    BY <1>9, Fixed DEF vars
  <2> QED BY <1>9, <2>1 DEF vars, SlotInv, TypeOK, SlotsConserved, Own, RowInv
<1> QED BY <1>1, <1>2, <1>3, <1>4, <1>5, <1>6, <1>7, <1>8, <1>9 DEF Next

\* The pool's state keeps its types: the buffer's indices stay inside the
\* buffer and every slot named is one of the pool's, whatever is admitted,
\* verified late, donated, finished, evicted or flushed.
THEOREM SlotTypes == Spec => []TypeOK
<1>1. SlotInv => TypeOK BY DEF SlotInv
<1> QED BY <1>1, InitInv, SlotStep, PTL DEF Spec

\* HybridReqToTokenPool never leaks a state slot nor gives one to two owners,
\* for any pool size, number of requests and interval, with and without overlap.
THEOREM Conserved == Spec => []SlotsConserved
<1>1. SlotInv => SlotsConserved BY DEF SlotInv
<1> QED BY <1>1, InitInv, SlotStep, PTL DEF Spec

-----------------------------------------------------------------------------
(***************************************************************************)
(* Main, tracked and cached states are exact, for any number of slots and  *)
(* requests and with results learnt up to two forwards late.               *)
(*                                                                         *)
(* None of the three is inductive: they speak of what the scheduler knows, *)
(* while the forwards in flight have moved the states on.  ExactInv says   *)
(* for every row what each result in flight will teach the scheduler, and  *)
(* where the snapshots it does not know of yet already lie.                *)
(***************************************************************************)

\* The tokens that result i in flight has for the request in row r.
Pending(i, r) ==
  IF i \in DOMAIN flight /\ r \in DOMAIN flight[i] /\ flight[i][r].id = kv[r].id
  THEN flight[i][r].al ELSE 0
\* The request's length after the oldest result.
Mid(r) == kv[r].len + Pending(1, r)
Running(r) == kv[r].phase # "free"

Bounded == Len(flight) <= (IF overlap THEN 2 ELSE 1)
\* Identities are given once; a result is of a request past its prefill.
Idents ==
  /\ \A r \in Reqs : kv[r].id <= ids
  /\ \A s \in Slots : cached[s].id <= ids
  /\ \A i \in DOMAIN flight : \A r \in Reqs : r \in DOMAIN flight[i] =>
       /\ flight[i][r].id <= ids
       /\ flight[i][r].id = kv[r].id => kv[r].phase = "decode"

Lengths(r) == Running(r) => now[r].len = Mid(r) + Pending(2, r)
Copying(r) ==
  kv[r].cow # NoSlot =>
    kv[r].phase = "prefill" /\ cached[kv[r].cow] = now[r] /\ now[r] # NoLabel
Begun(r) ==
  Running(r) /\ kv[r].cow = NoSlot /\ (kv[r].phase = "decode" \/ kv[r].len > 0)
    => now[r].id = kv[r].id
Turning(r) == Running(r) /\ overlap => kv[r].last = 1 - kv[r].next
Main(r) == Running(r) /\ kv[r].id = now[r].id => gpu[kv[r].main] = now[r]
\* A window in flight that crosses a multiple has left its snapshot in the slot
\* the scheduler will turn to; the last one it knows of is where it was, unless
\* there is no second slot.
Snap(r) ==
  Running(r) =>
    /\ Crosses(kv[r].len, Mid(r)) =>
         gpu[kv[r].pp[kv[r].next]] = State(kv[r].id, Boundary(Mid(r)))
    /\ Crosses(Mid(r), now[r].len) =>
         gpu[kv[r].pp[kv[r].next]] = State(kv[r].id, Boundary(now[r].len))
    /\ kv[r].tracked > 0 /\ (overlap \/ ~Crosses(kv[r].len, now[r].len)) =>
         gpu[kv[r].pp[kv[r].last]] = State(kv[r].id, kv[r].tracked)

Row(r) == Lengths(r) /\ Copying(r) /\ Begun(r) /\ Turning(r) /\ Main(r) /\ Snap(r)
ExactInv == SlotInv /\ Bounded /\ Idents /\ CachedExact /\ \A r \in Reqs : Row(r)

-----------------------------------------------------------------------------
(* Multiples of the interval.                                              *)

\* Quotient and remainder.
LEMMA Division ==
  ASSUME NEW n \in Nat
  PROVE  /\ n \div Interval \in Nat /\ Boundary(n) \in Nat
         /\ Boundary(n) <= n /\ n < Boundary(n) + Interval
<1>1. /\ n \div Interval \in Nat /\ n % Interval \in 0..(Interval - 1)
      /\ n = Interval * (n \div Interval) + (n % Interval)
  BY MambaAssumption
<1>2. Boundary(n) = Interval * (n \div Interval)
  BY <1>1, MambaAssumption DEF Boundary
<1> QED
  BY <1>1, <1>2, BoundaryType, MambaAssumption

\* Boundaries are as far apart as multiples.
LEMMA Multiples ==
  ASSUME NEW m \in Nat, NEW n \in Nat, m <= n, Crosses(m, n)
  PROVE  Boundary(m) + Interval <= Boundary(n)
<1> DEFINE a == m \div Interval
           b == n \div Interval
<1>1. /\ a \in Nat /\ b \in Nat /\ Boundary(m) = a * Interval /\ Boundary(n) = b * Interval
      /\ a # b /\ Interval \in Nat \ {0}
  BY Division, MambaAssumption DEF Boundary, Crosses
<1>2. a * Interval <= m /\ n < b * Interval + Interval
  BY <1>1, Division
<1>3. a < b
  <2>1. ASSUME b < a PROVE FALSE
    <3>1. PICK d \in Nat : a = b + 1 + d
      BY <1>1, <2>1
    <3>2. a * Interval = b * Interval + Interval + d * Interval
      BY <1>1, <3>1
    <3>3. d * Interval \in Nat /\ b * Interval \in Nat
      BY <1>1, <3>1
    <3> HIDE DEF a, b
    <3> QED
      BY <1>1, <1>2, <3>2, <3>3
  <2> QED
    BY <1>1, <2>1
<1>4. PICK d \in Nat : b = a + 1 + d
  <2>1. b - a - 1 \in Nat /\ b = a + 1 + (b - a - 1)
    BY <1>1, <1>3
  <2> QED
    BY <2>1
<1>5. b * Interval = a * Interval + Interval + d * Interval /\ d * Interval \in Nat
  BY <1>1, <1>4
<1>6. a * Interval \in Nat
  BY <1>1
<1> HIDE DEF a, b
<1> QED
  BY <1>1, <1>5, <1>6

\* A run of tokens that crosses a multiple has it behind its first token.
LEMMA Crossing ==
  ASSUME NEW m \in Nat, NEW n \in Nat, m <= n, Crosses(m, n)
  PROVE  m < Boundary(n) /\ Boundary(n) <= n
<1>1. Boundary(m) + Interval <= Boundary(n)
  BY Multiples
<1>2. m < Boundary(m) + Interval /\ Boundary(m) \in Nat /\ Boundary(n) \in Nat /\ Boundary(n) <= n
  BY Division
<1> QED
  BY <1>1, <1>2, MambaAssumption

\* Of two consecutive windows at most one crosses.
LEMMA OneCrossing ==
  ASSUME NEW m \in Nat, NEW a \in 0..Width, NEW b \in 0..Width,
         Crosses(m, m + a), Crosses(m + a, m + a + b)
  PROVE  FALSE
<1>1. m + a \in Nat /\ m + a + b \in Nat /\ m <= m + a /\ m + a <= m + a + b
  BY MambaAssumption
<1>2. m < Boundary(m + a) /\ Boundary(m + a) + Interval <= Boundary(m + a + b)
  BY <1>1, Crossing, Multiples
<1>3. Boundary(m + a + b) <= m + a + b /\ Boundary(m + a) \in Nat /\ Boundary(m + a + b) \in Nat
  BY <1>1, Division
<1> QED
  BY <1>1, <1>2, <1>3, IntervalAssumption, MambaAssumption

-----------------------------------------------------------------------------
(* What a row and its neighbours own, and what is known of its results.    *)

\* A result has no more tokens than a window.
LEMMA PendingType ==
  ASSUME TypeOK, NEW r \in Reqs, NEW i \in Nat
  PROVE  Pending(i, r) \in 0..Width
<1>1. CASE i \in DOMAIN flight /\ r \in DOMAIN flight[i] /\ flight[i][r].id = kv[r].id
  <2>1. flight[i] \in Result
    BY <1>1 DEF TypeOK
  <2>2. flight[i][r].al \in 1..Width
    BY <1>1, <2>1 DEF Result
  <2> QED
    BY <1>1, <2>2, MambaAssumption DEF Pending
<1>2. CASE ~(i \in DOMAIN flight /\ r \in DOMAIN flight[i] /\ flight[i][r].id = kv[r].id)
  BY <1>2, MambaAssumption DEF Pending
<1> QED
  BY <1>1, <1>2

\* Only requests that decode have results in flight.
LEMMA NoResults ==
  ASSUME Idents, NEW r \in Reqs, kv[r].phase # "decode" \/ flight = <<>>, NEW i
  PROVE  Pending(i, r) = 0
  BY DEF Idents, Pending

\* A running request's slots: real, its own, and different.
LEMMA Holds ==
  ASSUME SlotInv, NEW r \in Reqs, Running(r)
  PROVE  /\ kv[r] \in Kv /\ mapping[r] = kv[r].pp /\ kv[r].id \in 1..MaxId
         /\ kv[r].next \in Idx /\ kv[r].last \in Idx
         /\ kv[r].main \in Slots /\ kv[r].main \in Own(r)
         /\ \A i \in Idx : /\ kv[r].pp[i] \in Slots /\ kv[r].pp[i] \in Own(r)
                           /\ kv[r].pp[i] # kv[r].main
         /\ \A i, j \in Idx : i # j => kv[r].pp[i] # kv[r].pp[j]
<1>1. kv[r] \in Kv
  BY DEF SlotInv, TypeOK
<1> QED
  BY <1>1 DEF SlotInv, RowInv, SlotsConserved, Own, Running, Kv

\* Nobody else has them.
LEMMA Alone ==
  ASSUME SlotInv, NEW r \in Reqs, NEW s \in Slots, s \in Own(r)
  PROVE  /\ s \notin free /\ cached[s] = NoLabel
         /\ \A q \in Reqs : s \in Own(q) => q = r
  BY DEF SlotInv, SlotsConserved

\* The lengths before, between and after the results in flight.
LEMMA Numbers ==
  ASSUME TypeOK, NEW r \in Reqs, Running(r), Lengths(r)
  PROVE  /\ kv[r].len \in Nat /\ Mid(r) \in Nat /\ now[r].len \in Nat
         /\ kv[r].len <= Mid(r) /\ Mid(r) <= now[r].len
         /\ ~(Crosses(kv[r].len, Mid(r)) /\ Crosses(Mid(r), now[r].len))
<1>1. kv[r].len \in Nat
  BY DEF TypeOK, Kv
<1>2. Pending(1, r) \in 0..Width /\ Pending(2, r) \in 0..Width
  BY PendingType
<1>3. Mid(r) = kv[r].len + Pending(1, r) /\ now[r].len = kv[r].len + Pending(1, r) + Pending(2, r)
  BY DEF Mid, Lengths
<1>4. ~(Crosses(kv[r].len, Mid(r)) /\ Crosses(Mid(r), now[r].len))
  BY <1>1, <1>2, <1>3, OneCrossing
<1> QED
  BY <1>1, <1>2, <1>3, <1>4, MambaAssumption

\* Nothing is crossed by standing still.
LEMMA Still ==
  ASSUME NEW n PROVE ~Crosses(n, n)
  BY DEF Crosses

\* The record of a request whose length is learnt.
LEMMA TurnedFields ==
  ASSUME NEW q \in Kv, NEW post \in Nat
  PROVE  LET t == Turned(q, post) IN
         /\ t \in Kv /\ t.len = post /\ t.cow = q.cow /\ t.main = q.main /\ t.pp = q.pp
         /\ t.phase = q.phase /\ t.id = q.id
         /\ Crosses(q.len, post) =>
              t.tracked = Boundary(post) /\ t.last = q.next /\ t.next = Other(q.next)
         /\ ~Crosses(q.len, post) => t.tracked = q.tracked /\ t.last = q.last /\ t.next = q.next
<1>1. Turned(q, post) \in Kv
  BY TurnedType
<1> QED
  BY <1>1 DEF Turned, Kv

\* A row that a step leaves alone, with the slots it holds or copies from.
LEMMA Untouched ==
  ASSUME SlotInv, NEW r \in Reqs, Row(r), overlap' = overlap,
         kv'[r] = kv[r], now'[r] = now[r],
         Pending(1, r)' = Pending(1, r), Pending(2, r)' = Pending(2, r),
         \A s \in Slots : s \in Own(r) => gpu'[s] = gpu[s],
         kv[r].cow # NoSlot => cached'[kv[r].cow] = cached[kv[r].cow]
  PROVE  Row(r)'
<1>1. Mid(r)' = Mid(r) /\ Running(r)' = Running(r)
  BY DEF Mid, Running
<1>2. Lengths(r)'
  BY <1>1 DEF Row, Lengths
<1>3. Copying(r)'
  BY DEF Row, Copying
<1>4. Begun(r)' /\ Turning(r)'
  BY <1>1 DEF Row, Begun, Turning
<1>5. Running(r) => /\ gpu'[kv[r].main] = gpu[kv[r].main]
                    /\ gpu'[kv[r].pp[kv[r].next]] = gpu[kv[r].pp[kv[r].next]]
                    /\ gpu'[kv[r].pp[kv[r].last]] = gpu[kv[r].pp[kv[r].last]]
  BY Holds
<1>6. Main(r)'
  BY <1>1, <1>5 DEF Row, Main
<1>7. Snap(r)'
  BY <1>1, <1>5 DEF Row, Snap
<1> QED
  BY <1>2, <1>3, <1>4, <1>6, <1>7 DEF Row

\* Results in flight concern the same requests after a step that moves neither.
LEMMA SamePending ==
  ASSUME NEW r, NEW i, flight' = flight, kv'[r].id = kv[r].id
  PROVE  Pending(i, r)' = Pending(i, r)
  BY DEF Pending

LEMMA ExactInit == Init => ExactInv
<1> SUFFICES ASSUME Init PROVE ExactInv
  OBVIOUS
<1>1. SlotInv
  BY InitInv
<1>2. Bounded /\ Idents
  BY DEF Init, Bounded, Idents, NoKv, NoLabel, State
<1>3. CachedExact
  BY DEF Init, CachedExact
<1>4. ASSUME NEW r \in Reqs PROVE Row(r)
  <2>1. ~Running(r) /\ kv[r].cow = NoSlot
    BY DEF Init, Running, NoKv
  <2> QED
    BY <2>1 DEF Row, Lengths, Copying, Begun, Turning, Main, Snap
<1> QED
  BY <1>1, <1>2, <1>3, <1>4 DEF ExactInv

-----------------------------------------------------------------------------
(* One lemma per action.                                                   *)

\* A new request: its states are those of the cached prefix it will copy.
LEMMA AdmitExact ==
  ASSUME ExactInv, NEW r \in Reqs, NEW src \in Slots \cup {NoSlot}, Admit(r, src)
  PROVE  ExactInv'
<1>1. SlotInv' /\ SlotInv /\ TypeOK /\ Idents /\ CachedExact
  BY AdmitStep DEF ExactInv, SlotInv
<1>2. /\ UNCHANGED <<overlap, cached, gpu, flight>>
      /\ ids' = ids + 1 /\ ids \in Nat
      /\ now' = [now EXCEPT ![r] = IF src = NoSlot THEN Zero ELSE cached[src]]
      /\ src # NoSlot => cached[src] # NoLabel
  BY <1>1, MambaAssumption DEF Admit, TypeOK
<1>3. /\ kv'[r].phase = "prefill" /\ kv'[r].id = ids + 1 /\ kv'[r].next = 0 /\ kv'[r].last = Other(0)
      /\ kv'[r].tracked = 0 /\ kv'[r].cow = src
      /\ kv'[r].len = IF src = NoSlot THEN 0 ELSE cached[src].len
      /\ \A q \in Reqs : q # r => kv'[q] = kv[q]
  BY <1>1 DEF Admit, TypeOK
<1>4. /\ now'[r] = IF src = NoSlot THEN Zero ELSE cached[src]
      /\ \A q \in Reqs : q # r => now'[q] = now[q]
  BY <1>1, <1>2 DEF TypeOK
<1>5. \A i : Pending(i, r)' = 0
  <2>1. \A i \in DOMAIN flight : r \in DOMAIN flight[i] => flight[i][r].id \in Nat /\ flight[i][r].id <= ids
    <3> SUFFICES ASSUME NEW i \in DOMAIN flight, r \in DOMAIN flight[i]
                 PROVE  flight[i][r].id \in Nat /\ flight[i][r].id <= ids
      OBVIOUS
    <3>1. flight[i] \in Result
      BY <1>1 DEF TypeOK
    <3>2. flight[i][r].id \in 1..MaxId
      BY <3>1 DEF Result
    <3> QED
      BY <1>1, <3>2 DEF Idents
  <2>2. \A i \in DOMAIN flight : r \in DOMAIN flight[i] => flight[i][r].id # ids + 1
    BY <1>2, <2>1
  <2> QED
    BY <1>2, <1>3, <2>2 DEF Pending
<1>6. ASSUME NEW q \in Reqs, q # r PROVE Row(q)'
  <2>1. Pending(1, q)' = Pending(1, q) /\ Pending(2, q)' = Pending(2, q)
    BY <1>2, <1>3, <1>6 DEF Pending
  <2> QED
    BY <1>1, <1>2, <1>3, <1>4, <1>6, <2>1, Untouched DEF ExactInv
<1>7. Row(r)'
  <2>1. now'[r].len = kv'[r].len /\ now'[r].id \in Nat /\ now'[r].id <= ids /\ kv'[r].len \in Nat
    <3>1. CASE src = NoSlot
      BY <1>2, <1>3, <1>4, <3>1 DEF Zero, State
    <3>2. CASE src # NoSlot
      <4>1. cached[src] \in [id : 0..MaxId, len : Nat] /\ cached[src].id <= ids
        BY <1>1, <1>2, <3>2 DEF TypeOK, Label, Idents
      <4> QED
        BY <1>3, <1>4, <3>2, <4>1
    <3> QED
      BY <3>1, <3>2
  <2>2. Mid(r)' = kv'[r].len
    BY <1>5, <2>1 DEF Mid
  <2>3. Lengths(r)'
    BY <1>5, <2>1, <2>2 DEF Lengths
  <2>4. Copying(r)'
    BY <1>2, <1>3, <1>4 DEF Copying
  <2>5. Begun(r)' /\ Main(r)'
    BY <1>2, <1>3, <2>1 DEF Begun, Main
  <2>6. Turning(r)'
    BY <1>2, <1>3 DEF Turning, Other
  <2>7. Snap(r)'
    BY <1>3, <2>1, <2>2, Still DEF Snap
  <2> QED
    BY <2>3, <2>4, <2>5, <2>6, <2>7 DEF Row
<1>8. Bounded' /\ CachedExact'
  BY <1>2 DEF ExactInv, Bounded, CachedExact
<1>9. Idents'
  <2>1. \A q \in Reqs : kv'[q].id <= ids'
    <3>1. \A q \in Reqs : kv[q].id \in Nat /\ kv[q].id <= ids
      BY <1>1, MambaAssumption DEF TypeOK, Kv, Idents
    <3> QED
      BY <1>2, <1>3, <3>1
  <2>2. \A s \in Slots : cached'[s].id <= ids'
    <3>1. \A s \in Slots : cached[s].id \in Nat /\ cached[s].id <= ids
      BY <1>1, MambaAssumption DEF TypeOK, Label, NoLabel, State, Idents
    <3> QED
      BY <1>2, <3>1
  <2>3. ASSUME NEW i \in DOMAIN flight', NEW q \in Reqs, q \in DOMAIN flight'[i]
        PROVE  /\ flight'[i][q].id <= ids'
               /\ flight'[i][q].id = kv'[q].id => kv'[q].phase = "decode"
    <3>1. flight[i] \in Result
      BY <1>1, <1>2, <2>3 DEF TypeOK
    <3>2. flight[i][q].id \in 1..MaxId /\ flight[i][q].id <= ids
      BY <1>1, <1>2, <2>3, <3>1 DEF Result, Idents
    <3> QED
      BY <1>1, <1>2, <1>3, <2>3, <3>2, MambaAssumption DEF Idents
  <2> QED
    BY <2>1, <2>2, <2>3 DEF Idents
<1>10. \A q \in Reqs : Row(q)'
  BY <1>6, <1>7
<1> QED
  BY <1>1, <1>8, <1>9, <1>10 DEF ExactInv

\* A prefill chunk starts from the state of the request's tokens.
LEMMA PrefillExact ==
  ASSUME ExactInv, NEW r \in Reqs, NEW n \in Chunks, NEW final \in BOOLEAN,
         Prefill(r, n, final)
  PROVE  ExactInv'
<1> DEFINE q     == kv[r]
           pre   == q.len
           start == IF q.cow # NoSlot THEN gpu[q.cow] ELSE IF pre = 0 THEN Zero ELSE gpu[q.main]
           cross == Crosses(pre, pre + n)
           track == q.pp[q.next]
           held  == [gpu EXCEPT ![q.main] = State(q.id, start.len + n)]
           e     == [Turned(q, pre + n) EXCEPT
                       !.phase = IF final THEN "decode" ELSE "prefill", !.cow = NoSlot]
<1>1. SlotInv' /\ SlotInv /\ TypeOK /\ Idents /\ CachedExact /\ Row(r)
  BY PrefillStep DEF ExactInv, SlotInv
<1>2. q.phase = "prefill" /\ Running(r)
  BY DEF Prefill, Running
<1>3. /\ q \in Kv /\ mapping[r] = q.pp /\ q.main \in Slots /\ track \in Slots /\ track # q.main
      /\ q.main \in Own(r) /\ track \in Own(r) /\ q.next \in Idx /\ q.last \in Idx
      /\ q.pp[q.last] \in Slots /\ q.pp[q.last] # q.main
  BY <1>1, <1>2, Holds
<1>4. pre \in Nat /\ n \in Nat /\ pre + n \in Nat
  BY <1>3, MambaAssumption DEF Kv
<1>5. /\ UNCHANGED <<overlap, free, mapping, cached, flight, ids>>
      /\ now' = [now EXCEPT ![r] = State(q.id, pre + n)]
      /\ kv' = [kv EXCEPT ![r] = e]
      /\ gpu' = IF cross
                THEN [held EXCEPT ![track] = State(q.id, start.len + (Boundary(pre + n) - pre))]
                ELSE held
  BY <1>3 DEF Prefill
<1>6. \A i : Pending(i, r) = 0
  BY <1>1, <1>2, NoResults
<1>7. now[r].len = pre
  BY <1>1, <1>2, <1>4, <1>6 DEF Row, Lengths, Mid
<1>8. start.len = pre
  <2>1. CASE q.cow # NoSlot
    <3>1. q.cow \in Slots /\ cached[q.cow] = now[r] /\ now[r] # NoLabel
      BY <1>1, <1>3, <2>1 DEF Row, Copying, Kv
    <3>2. gpu[q.cow] = now[r]
      BY <1>1, <3>1 DEF CachedExact
    <3> QED
      BY <1>7, <2>1, <3>2
  <2>2. CASE q.cow = NoSlot /\ pre = 0
    BY <2>2 DEF Zero, State
  <2>3. CASE q.cow = NoSlot /\ pre # 0
    <3>1. now[r].id = q.id
      BY <1>1, <1>2, <1>4, <2>3 DEF Row, Begun
    <3>2. gpu[q.main] = now[r]
      BY <1>1, <1>2, <3>1 DEF Row, Main
    <3> QED
      BY <1>7, <2>3, <3>2
  <2> QED
    BY <2>1, <2>2, <2>3
<1>9. /\ e.len = pre + n /\ e.cow = NoSlot /\ e.main = q.main /\ e.pp = q.pp /\ e.id = q.id
      /\ e.phase = IF final THEN "decode" ELSE "prefill"
      /\ cross => e.tracked = Boundary(pre + n) /\ e.last = q.next /\ e.next = Other(q.next)
      /\ ~cross => e.tracked = q.tracked /\ e.last = q.last /\ e.next = q.next
  <2> DEFINE t == Turned(q, pre + n)
  <2>1. /\ t \in Kv /\ t.len = pre + n /\ t.main = q.main /\ t.pp = q.pp /\ t.id = q.id
        /\ cross => t.tracked = Boundary(pre + n) /\ t.last = q.next /\ t.next = Other(q.next)
        /\ ~cross => t.tracked = q.tracked /\ t.last = q.last /\ t.next = q.next
    <3> HIDE DEF q
    <3> QED
      BY <1>3, <1>4, TurnedFields
  <2>2. e = [t EXCEPT !.phase = IF final THEN "decode" ELSE "prefill", !.cow = NoSlot]
    OBVIOUS
  <2> HIDE DEF t, e, q, pre, cross
  <2> QED
    BY <2>1, <2>2 DEF Kv
<1> HIDE DEF start, cross, held, e
<1>10. kv'[r] = e /\ now'[r] = State(q.id, pre + n) /\ \A p \in Reqs : p # r => kv'[p] = kv[p] /\ now'[p] = now[p]
  BY <1>1, <1>5 DEF TypeOK
<1>11. /\ gpu'[q.main] = State(q.id, pre + n)
       /\ cross => gpu'[track] = State(q.id, Boundary(pre + n))
       /\ \A s \in Slots : s # q.main /\ (cross => s # track) => gpu'[s] = gpu[s]
  <2>1. Boundary(pre + n) \in Nat
    BY <1>4, Division
  <2>2. start.len + n = pre + n /\ start.len + (Boundary(pre + n) - pre) = Boundary(pre + n)
    BY <1>4, <1>8, <2>1
  <2>3. gpu \in [Slots -> Content]
    BY <1>1 DEF TypeOK
  <2>4. held = [gpu EXCEPT ![q.main] = State(q.id, pre + n)]
    BY <2>2 DEF held
  <2> HIDE DEF q, pre, track
  <2> QED
    BY <1>3, <1>5, <2>2, <2>3, <2>4
<1>12. \A s \in Slots : s \notin Own(r) => gpu'[s] = gpu[s]
  BY <1>3, <1>11
<1>13. \A i, p : p \in Reqs => Pending(i, p)' = Pending(i, p)
  <2>1. \A p \in Reqs : kv'[p].id = kv[p].id
    BY <1>9, <1>10
  <2> QED
    BY <1>5, <2>1, SamePending
<1>14. ASSUME NEW p \in Reqs, p # r PROVE Row(p)'
  <2>1. \A s \in Slots : s \in Own(p) => gpu'[s] = gpu[s]
    BY <1>1, <1>3, <1>12, <1>14, Alone
  <2> QED
    BY <1>1, <1>5, <1>10, <1>13, <1>14, <2>1, Untouched DEF ExactInv
<1>15. Row(r)'
  <2>1. Mid(r)' = pre + n /\ now'[r].len = pre + n /\ now'[r].id = q.id
    BY <1>4, <1>6, <1>9, <1>10, <1>13 DEF Mid, State
  <2>2. Lengths(r)'
    BY <1>4, <1>6, <1>13, <2>1 DEF Lengths
  <2>3. Copying(r)' /\ Begun(r)'
    BY <1>9, <1>10, <2>1 DEF Copying, Begun
  <2>4. Turning(r)'
    <3>1. overlap => q.last = 1 - q.next /\ q.next \in {0, 1}
      BY <1>1, <1>2, <1>3 DEF Row, Turning, Idx
    <3>2. overlap => e.last = 1 - e.next
      BY <1>9, <3>1 DEF Other
    <3> QED
      BY <1>5, <1>10, <3>2 DEF Turning
  <2>5. Main(r)'
    BY <1>9, <1>10, <1>11 DEF Main
  <2>6. Snap(r)'
    <3>1. ~Crosses(pre + n, pre + n)
      BY Still
    <3>2. ASSUME e.tracked > 0 PROVE gpu'[e.pp[e.last]] = State(e.id, e.tracked)
      <4>1. CASE cross
        BY <1>9, <1>11, <4>1
      <4>2. CASE ~cross
        <5>1. ~Crosses(q.len, now[r].len)
          BY <1>7, Still
        <5>2. gpu[q.pp[q.last]] = State(q.id, q.tracked)
          BY <1>1, <1>2, <1>9, <3>2, <4>2, <5>1 DEF Row, Snap
        <5> QED
          BY <1>3, <1>9, <1>11, <4>2, <5>2
      <4> QED
        BY <4>1, <4>2
    <3> QED
      BY <1>9, <1>10, <2>1, <3>1, <3>2 DEF Snap
  <2> QED
    BY <2>2, <2>3, <2>4, <2>5, <2>6 DEF Row
<1>16. Bounded' /\ CachedExact'
  <2>1. \A s \in Slots : cached[s] # NoLabel => gpu'[s] = gpu[s]
    BY <1>1, <1>12, Alone
  <2> QED
    BY <1>5, <2>1 DEF ExactInv, Bounded, CachedExact
<1>17. Idents'
  <2>1. \A p \in Reqs : kv'[p].id = kv[p].id
    BY <1>9, <1>10
  <2>2. \A p \in Reqs : kv[p].phase = "decode" => kv'[p].phase = "decode"
    BY <1>2, <1>10
  <2> QED
    BY <1>1, <1>5, <2>1, <2>2 DEF Idents
<1>18. \A p \in Reqs : Row(p)'
  BY <1>14, <1>15
<1> QED
  BY <1>1, <1>16, <1>17, <1>18 DEF ExactInv

\* A verify that accepts al writes slot s for row r.
Hit(r, al, s) ==
  s = kv[r].main \/ (Crosses(now[r].len, now[r].len + al[r]) /\ s = kv[r].pp[kv[r].next])

\* What a verify writes: the state after the accepted tokens into each main
\* slot, and where they cross a multiple the state there into the track slot.
LEMMA Written ==
  ASSUME ExactInv, NEW S \in SUBSET Reqs, NEW al \in [S -> 1..Width], Verify(al)
  PROVE  /\ \A r \in S :
              /\ gpu'[kv[r].main] = State(kv[r].id, now[r].len + al[r])
              /\ Crosses(now[r].len, now[r].len + al[r]) =>
                   gpu'[kv[r].pp[kv[r].next]] = State(kv[r].id, Boundary(now[r].len + al[r]))
         /\ \A s \in Slots : (\A r \in S : ~Hit(r, al, s)) => gpu'[s] = gpu[s]
<1> DEFINE m(r) == now[r].len
           n(r) == now[r].len + al[r]
           step(r) == TrackStep(m(r), al[r])
           track(r) == kv[r].pp[kv[r].next]
           after(r, t) == State(kv[r].id, gpu[kv[r].main].len + t + 1)
<1>1. SlotInv /\ TypeOK /\ \A r \in Reqs : Row(r)
  BY DEF ExactInv, SlotInv
<1>2. DOMAIN al = S /\ S \subseteq Reqs /\ \A r \in S : al[r] \in 1..Width
  OBVIOUS
<1>3. \A r \in S : kv[r].phase = "decode" /\ Running(r)
  BY <1>2 DEF Verify, Running
<1>4. \A r \in S :
        /\ mapping[r] = kv[r].pp /\ kv[r].main \in Slots /\ track(r) \in Slots /\ track(r) # kv[r].main
        /\ kv[r].main \in Own(r) /\ track(r) \in Own(r)
  BY <1>1, <1>2, <1>3, Holds
<1>5. ASSUME NEW r \in S, NEW q \in S, r # q
      PROVE  /\ kv[r].main # kv[q].main /\ kv[r].main # track(q)
             /\ track(r) # track(q)
  <2> HIDE DEF track
  <2> QED
    BY <1>1, <1>2, <1>4, <1>5, Alone
<1>6. ASSUME NEW r \in S
      PROVE  /\ m(r) \in Nat /\ n(r) \in Nat /\ m(r) <= n(r) /\ gpu[kv[r].main].len = m(r)
             /\ step(r) \in Int /\ (step(r) >= 0 <=> Crosses(m(r), n(r)))
             /\ Crosses(m(r), n(r)) => m(r) + step(r) + 1 = Boundary(n(r))
             /\ m(r) + CommitStep(al[r]) + 1 = n(r)
  <2>1. m(r) \in Nat
    BY <1>1, <1>2, <1>3, Numbers DEF Row
  <2>2. al[r] \in Nat /\ al[r] > 0
    BY <1>2, MambaAssumption
  <2>3. n(r) \in Nat /\ m(r) <= n(r)
    BY <2>1, <2>2
  <2>4. gpu[kv[r].main].len = m(r)
    <3>1. kv[r].cow = NoSlot
      BY <1>1, <1>2, <1>3 DEF Row, Copying
    <3>2. now[r].id = kv[r].id
      BY <1>1, <1>2, <1>3, <3>1 DEF Row, Begun
    <3> QED
      BY <1>1, <1>2, <1>3, <3>2 DEF Row, Main
  <2>5. m(r) + CommitStep(al[r]) + 1 = n(r)
    BY <2>1, <2>2 DEF CommitStep
  <2>6. Boundary(n(r)) \in Nat /\ (Crosses(m(r), n(r)) => m(r) < Boundary(n(r)))
    BY <2>1, <2>3, Crossing, Division
  <2>7. step(r) = IF Crosses(m(r), n(r)) THEN Boundary(n(r)) - m(r) - 1 ELSE -1
    BY DEF TrackStep
  <2>8. /\ step(r) \in Int /\ (step(r) >= 0 <=> Crosses(m(r), n(r)))
        /\ Crosses(m(r), n(r)) => m(r) + step(r) + 1 = Boundary(n(r))
    <3> HIDE DEF m, n, step
    <3>1. CASE Crosses(m(r), n(r))
      <4>1. step(r) = Boundary(n(r)) - m(r) - 1 /\ m(r) < Boundary(n(r))
        BY <2>6, <2>7, <3>1
      <4> QED
        BY <2>1, <2>6, <3>1, <4>1
    <3>2. CASE ~Crosses(m(r), n(r))
      <4>1. step(r) = -1
        BY <2>7, <3>2
      <4> QED
        BY <3>2, <4>1
    <3> QED
      BY <3>1, <3>2
  <2> HIDE DEF m, n, step
  <2> QED
    BY <2>1, <2>3, <2>4, <2>5, <2>8
<1>7. gpu' = [s \in Slots |->
               IF \E r \in S : step(r) >= 0 /\ track(r) = s
               THEN LET r == CHOOSE r \in S : track(r) = s IN after(r, step(r))
               ELSE IF \E r \in S : kv[r].main = s
               THEN LET r == CHOOSE r \in S : kv[r].main = s IN after(r, CommitStep(al[r]))
               ELSE gpu[s]]
  <2> DEFINE B == DOMAIN al
             Post(D) == [s \in Slots |->
               IF \E r \in D : step(r) >= 0 /\ mapping[r][kv[r].next] = s
               THEN LET r == CHOOSE r \in D : mapping[r][kv[r].next] = s IN after(r, step(r))
               ELSE IF \E r \in D : kv[r].main = s
               THEN LET r == CHOOSE r \in D : kv[r].main = s IN after(r, CommitStep(al[r]))
               ELSE gpu[s]]
  <2>0. gpu' = Post(B)
    BY DEF Verify
  <2>1. gpu' = Post(S)
    <3> HIDE DEF Post
    <3> QED
      BY <1>2, <2>0
  <2>2. \A r \in S : mapping[r][kv[r].next] = track(r)
    BY <1>4
  <2>3. \A s : (CHOOSE r \in S : mapping[r][kv[r].next] = s) = (CHOOSE r \in S : track(r) = s)
    <3> SUFFICES ASSUME NEW s
                 PROVE  (CHOOSE r \in S : mapping[r][kv[r].next] = s) = (CHOOSE r \in S : track(r) = s)
      OBVIOUS
    <3>1. \A r : (r \in S /\ mapping[r][kv[r].next] = s) <=> (r \in S /\ track(r) = s)
      BY <2>2
    <3> HIDE DEF track
    <3> QED
      BY <3>1
  <2> HIDE DEF step, after, track
  <2> QED
    BY <2>1, <2>2, <2>3
<1> HIDE DEF m, n, step, track, after
<1>8. ASSUME NEW r \in S
      PROVE  /\ gpu'[kv[r].main] = State(kv[r].id, n(r))
             /\ Crosses(m(r), n(r)) => gpu'[track(r)] = State(kv[r].id, Boundary(n(r)))
  <2>1. gpu'[kv[r].main] = after(r, CommitStep(al[r]))
    <3>1. ~\E q \in S : step(q) >= 0 /\ track(q) = kv[r].main
      BY <1>4, <1>5
    <3>2. (CHOOSE q \in S : kv[q].main = kv[r].main) = r
      BY <1>5
    <3> QED
      BY <1>4, <1>7, <3>1, <3>2
  <2>2. ASSUME Crosses(m(r), n(r)) PROVE gpu'[track(r)] = after(r, step(r))
    <3>1. \E q \in S : step(q) >= 0 /\ track(q) = track(r)
      BY <1>6, <2>2
    <3>2. (CHOOSE q \in S : track(q) = track(r)) = r
      BY <1>5
    <3> QED
      BY <1>4, <1>7, <3>1, <3>2
  <2> QED
    BY <1>6, <2>1, <2>2 DEF after
<1>9. ASSUME NEW s \in Slots,
             \A r \in S : s # kv[r].main /\ (Crosses(m(r), n(r)) => s # track(r))
      PROVE  gpu'[s] = gpu[s]
  BY <1>6, <1>7, <1>9
<1>10. \A r \in S :
         /\ gpu'[kv[r].main] = State(kv[r].id, now[r].len + al[r])
         /\ Crosses(now[r].len, now[r].len + al[r]) =>
              gpu'[kv[r].pp[kv[r].next]] = State(kv[r].id, Boundary(now[r].len + al[r]))
  BY <1>8 DEF m, n, track
<1>11. ASSUME NEW s \in Slots, \A r \in S : ~Hit(r, al, s)
       PROVE  gpu'[s] = gpu[s]
  <2>1. \A r \in S : s # kv[r].main /\ (Crosses(m(r), n(r)) => s # track(r))
    BY <1>11 DEF m, n, track, Hit
  <2> QED
    BY <1>9, <2>1
<1> QED
  BY <1>10, <1>11

\* A window moves each request's states on by the accepted tokens; its result
\* joins those in flight.
LEMMA VerifyExact ==
  ASSUME ExactInv, NEW S \in SUBSET Reqs, NEW al \in [S -> 1..Width], Verify(al)
  PROVE  ExactInv'
<1> DEFINE new == [r \in S |-> [id |-> kv[r].id, al |-> al[r]]]
<1>1. SlotInv' /\ SlotInv /\ TypeOK /\ Idents /\ CachedExact /\ Bounded /\ \A r \in Reqs : Row(r)
  BY VerifyStep DEF ExactInv, SlotInv
<1>2. DOMAIN al = S /\ S \subseteq Reqs /\ \A r \in S : al[r] \in 1..Width /\ al[r] \in Nat
  BY MambaAssumption
<1>3. /\ UNCHANGED <<overlap, free, kv, mapping, cached, ids>>
      /\ S = {r \in Reqs : kv[r].phase = "decode"}
      /\ Len(flight) < (IF overlap THEN 2 ELSE 1)
      /\ now' = [r \in Reqs |-> IF r \in S THEN State(kv[r].id, now[r].len + al[r]) ELSE now[r]]
      /\ flight' = Append(flight, new)
  BY <1>2 DEF Verify
<1>4. \A r \in S : kv[r].phase = "decode" /\ Running(r)
  BY <1>3 DEF Running
<1>5. /\ flight \in Seq(Result) /\ Len(flight) \in {0, 1} /\ (~overlap => Len(flight) = 0)
      /\ Len(flight') = Len(flight) + 1 /\ DOMAIN flight' = 1..(Len(flight) + 1)
      /\ \A i \in 1..Len(flight) : flight'[i] = flight[i]
      /\ flight'[Len(flight) + 1] = new
  <2>1. flight \in Seq(Result)
    BY <1>1 DEF TypeOK
  <2>2. Len(flight) \in {0, 1} /\ (~overlap => Len(flight) = 0)
    <3>1. Len(flight) \in Nat
      BY <2>1
    <3>2. CASE overlap
      <4>1. Len(flight) < 2
        BY <1>3, <3>2
      <4>2. Len(flight) = 0 \/ Len(flight) = 1
        BY <3>1, <4>1
      <4> QED
        BY <3>2, <4>2, Zenon
    <3>3. CASE ~overlap
      <4>1. Len(flight) < 1
        BY <1>3, <3>3
      <4> QED
        BY <3>1, <3>3, <4>1
    <3> QED
      BY <3>2, <3>3
  <2> HIDE DEF new
  <2> QED
    BY <1>3, <2>1, <2>2
<1>6. DOMAIN new = S /\ \A r \in S : new[r].id = kv[r].id /\ new[r].al = al[r]
  OBVIOUS
<1> HIDE DEF new
<1>7. ASSUME NEW r \in Reqs \ S
      PROVE  Pending(1, r)' = Pending(1, r) /\ Pending(2, r)' = Pending(2, r)
  <2>1. r \notin DOMAIN flight'[Len(flight) + 1]
    BY <1>5, <1>6, <1>7
  <2> QED
    BY <1>3, <1>5, <2>1 DEF Pending
<1>8. ASSUME NEW r \in S
      PROVE  /\ Len(flight) = 0 => Pending(1, r) = 0 /\ Pending(1, r)' = al[r] /\ Pending(2, r)' = 0
             /\ Len(flight) = 1 => Pending(1, r)' = Pending(1, r) /\ Pending(2, r)' = al[r]
             /\ Pending(2, r) = 0
  <2>1. r \in DOMAIN new /\ new[r].id = kv[r].id /\ new[r].al = al[r]
    BY <1>6
  <2>2. DOMAIN flight = 1..Len(flight)
    BY <1>5
  <2>3. ASSUME Len(flight) = 0
        PROVE  Pending(1, r) = 0 /\ Pending(1, r)' = al[r] /\ Pending(2, r)' = 0 /\ Pending(2, r) = 0
    BY <1>3, <1>5, <2>1, <2>2, <2>3 DEF Pending
  <2>4. ASSUME Len(flight) = 1
        PROVE  Pending(1, r)' = Pending(1, r) /\ Pending(2, r)' = al[r] /\ Pending(2, r) = 0
    BY <1>3, <1>5, <2>1, <2>2, <2>4 DEF Pending
  <2> QED
    BY <1>5, <2>3, <2>4
<1>9. ASSUME NEW r \in Reqs, r \notin S PROVE Row(r)'
  <2>1. \A s \in Slots : s \in Own(r) => gpu'[s] = gpu[s]
    <3> SUFFICES ASSUME NEW s \in Slots, s \in Own(r) PROVE gpu'[s] = gpu[s]
      OBVIOUS
    <3>1. ASSUME NEW q \in S PROVE s # kv[q].main /\ s # kv[q].pp[kv[q].next]
      <4>1. q \in Reqs /\ q # r
        BY <1>2, <1>9
      <4>2. s \notin Own(q)
        BY <1>1, <4>1, Alone
      <4>3. kv[q].main \in Own(q) /\ kv[q].pp[kv[q].next] \in Own(q)
        BY <1>1, <1>4, <4>1, Holds
      <4> QED
        BY <4>2, <4>3
    <3> QED
      BY <3>1, Written DEF Hit
  <2> QED
    BY <1>1, <1>3, <1>7, <1>9, <2>1, Untouched
<1>10. ASSUME NEW r \in S PROVE Row(r)'
  <2> DEFINE q == kv[r]
             m == now[r].len
             n == now[r].len + al[r]
             track == q.pp[q.next]
  <2>1. /\ r \in Reqs /\ Running(r) /\ Row(r) /\ kv'[r] = q /\ now'[r] = State(q.id, n) /\ Running(r)'
    BY <1>1, <1>2, <1>3, <1>4 DEF Running
  <2>2. /\ q.len \in Nat /\ Mid(r) \in Nat /\ m \in Nat /\ q.len <= Mid(r) /\ Mid(r) <= m
        /\ m = Mid(r) + Pending(2, r)
    BY <1>1, <2>1, Numbers DEF Row, Lengths
  <2>3. /\ track \in Slots /\ q.main \in Slots /\ q.next \in Idx /\ q.last \in Idx
        /\ q.pp[q.last] \in Slots /\ q.pp[q.last] # q.main /\ track # q.main
        /\ \A i, j \in Idx : i # j => q.pp[i] # q.pp[j]
    BY <1>1, <2>1, Holds
  <2>4. /\ gpu'[q.main] = State(q.id, n)
        /\ Crosses(m, n) => gpu'[track] = State(q.id, Boundary(n))
    BY Written
  <2>5. ASSUME NEW s \in Slots, s \in Own(r), s # q.main, Crosses(m, n) => s # track
        PROVE  gpu'[s] = gpu[s]
    <3>1. ASSUME NEW p \in S, p # r PROVE s # kv[p].main /\ s # kv[p].pp[kv[p].next]
      <4>1. s \notin Own(p)
        BY <1>1, <1>2, <2>1, <2>5, <3>1, Alone
      <4>2. kv[p].main \in Own(p) /\ kv[p].pp[kv[p].next] \in Own(p)
        BY <1>1, <1>2, <1>4, Holds
      <4> QED
        BY <4>1, <4>2
    <3>2. \A p \in S : ~Hit(p, al, s)
      BY <2>5, <3>1 DEF Hit
    <3> QED
      BY <3>2, Written
  <2>6. track \in Own(r) /\ q.pp[q.last] \in Own(r)
    BY <1>1, <2>1, <2>3, Holds
  <2> HIDE DEF q, m, n, track
  <2>7. n \in Nat /\ n = m + al[r] /\ now'[r].len = n /\ now'[r].id = q.id
    BY <1>2, <2>1, <2>2 DEF n, m, State
  <2>8. /\ Len(flight) = 0 => Mid(r) = q.len /\ m = q.len /\ Mid(r)' = n
        /\ Len(flight) = 1 => Mid(r)' = Mid(r) /\ Mid(r) = m
    <3>1. /\ Mid(r) = q.len + Pending(1, r) /\ Mid(r)' = q.len + Pending(1, r)'
      BY <2>1 DEF Mid, q
    <3> QED
      BY <1>2, <1>8, <2>2, <2>7, <3>1
  <2>9. Lengths(r)'
    <3>1. n = Mid(r)' + Pending(2, r)'
      BY <1>2, <1>5, <1>8, <2>2, <2>7, <2>8
    <3> QED
      BY <2>7, <3>1 DEF Lengths
  <2>10. Copying(r)' /\ Begun(r)' /\ Turning(r)'
    <3>1. q.cow = NoSlot
      BY <1>4, <2>1 DEF Row, Copying, q
    <3> QED
      BY <1>3, <2>1, <2>7, <3>1 DEF Copying, Begun, Turning, Row, q, Running
  <2>11. Main(r)'
    BY <2>1, <2>4 DEF Main, q
  <2>12. Snap(r)'
    <3>1. Crosses(q.len, Mid(r)') => gpu'[track] = State(q.id, Boundary(Mid(r)'))
      <4>1. CASE Len(flight) = 0
        BY <2>4, <2>8, <4>1
      <4>2. CASE Len(flight) = 1
        <5> SUFFICES ASSUME Crosses(q.len, Mid(r)) PROVE gpu'[track] = State(q.id, Boundary(Mid(r)))
          BY <2>8, <4>2
        <5>1. gpu[track] = State(q.id, Boundary(Mid(r)))
          BY <2>1 DEF Row, Snap, q, track
        <5>2. ~Crosses(m, n)
          <6>1. Pending(1, r) \in 0..Width /\ al[r] \in 0..Width
            BY <1>1, <1>2, <2>1, PendingType
          <6>2. Mid(r) = q.len + Pending(1, r) /\ m = Mid(r) /\ n = q.len + Pending(1, r) + al[r]
            BY <2>7, <2>8, <4>2 DEF Mid, q
          <6> QED
            BY <2>2, <6>1, <6>2, OneCrossing
        <5> QED
          BY <2>3, <2>5, <2>6, <5>1, <5>2
      <4> QED
        BY <1>5, <4>1, <4>2
    <3>2. Crosses(Mid(r)', n) => gpu'[track] = State(q.id, Boundary(n))
      BY <1>5, <2>4, <2>8, Still
    <3>3. ASSUME q.tracked > 0, overlap \/ ~Crosses(q.len, n)
          PROVE  gpu'[q.pp[q.last]] = State(q.id, q.tracked)
      <4>1. CASE overlap
        <5>1. q.last # q.next
          <6>1. q.last = 1 - q.next /\ q.next \in {0, 1}
            BY <2>1, <2>3, <4>1 DEF Row, Turning, q, Idx
          <6> QED
            BY <6>1
        <5>2. q.pp[q.last] # track
          BY <2>3, <5>1 DEF track
        <5>3. gpu[q.pp[q.last]] = State(q.id, q.tracked)
          BY <2>1, <3>3, <4>1 DEF Row, Snap, q
        <5> QED
          BY <2>3, <2>5, <2>6, <5>2, <5>3
      <4>2. CASE ~overlap
        <5>1. m = q.len
          BY <1>5, <2>8, <4>2
        <5>2. ~Crosses(m, n) /\ ~Crosses(q.len, m)
          BY <3>3, <4>2, <5>1, Still
        <5>3. gpu[q.pp[q.last]] = State(q.id, q.tracked)
          BY <2>1, <3>3, <5>2 DEF Row, Snap, q, m
        <5> QED
          BY <2>3, <2>5, <2>6, <5>2, <5>3
      <4> QED
        BY <4>1, <4>2
    <3> QED
      BY <1>3, <2>1, <2>7, <3>1, <3>2, <3>3 DEF Snap, q, track
  <2> QED
    BY <2>9, <2>10, <2>11, <2>12 DEF Row
<1>11. CachedExact'
  <2>1. ASSUME NEW s \in Slots, cached[s] # NoLabel PROVE gpu'[s] = gpu[s]
    <3>1. ASSUME NEW q \in S PROVE s # kv[q].main /\ s # kv[q].pp[kv[q].next]
      <4>1. s \notin Own(q)
        BY <1>1, <1>2, <2>1, Alone
      <4>2. kv[q].main \in Own(q) /\ kv[q].pp[kv[q].next] \in Own(q)
        BY <1>1, <1>2, <1>4, Holds
      <4> QED
        BY <4>1, <4>2
    <3> QED
      BY <3>1, Written DEF Hit
  <2> QED
    BY <1>1, <1>3, <2>1 DEF CachedExact
<1>12. Bounded'
  BY <1>3, <1>5 DEF Bounded
<1>13. Idents'
  <2>1. ASSUME NEW i \in DOMAIN flight', NEW r \in Reqs, r \in DOMAIN flight'[i]
        PROVE  /\ flight'[i][r].id <= ids
               /\ flight'[i][r].id = kv[r].id => kv[r].phase = "decode"
    <3>1. CASE i = Len(flight) + 1
      <4>1. r \in S /\ flight'[i][r].id = kv[r].id
        BY <1>5, <1>6, <2>1, <3>1
      <4> QED
        BY <1>1, <1>4, <4>1 DEF Idents
    <3>2. CASE i # Len(flight) + 1
      <4>1. i \in DOMAIN flight /\ flight'[i] = flight[i]
        BY <1>5, <3>2
      <4> QED
        BY <1>1, <2>1, <4>1 DEF Idents
    <3> QED
      BY <3>1, <3>2
  <2> QED
    BY <1>1, <1>3, <2>1 DEF Idents
<1>14. \A r \in Reqs : Row(r)'
  BY <1>9, <1>10
<1> QED
  BY <1>1, <1>11, <1>12, <1>13, <1>14 DEF ExactInv

\* The scheduler learns the oldest result: what was to come is now known.
LEMMA ProcessExact ==
  ASSUME ExactInv, Process
  PROVE  ExactInv'
<1> DEFINE res == Head(flight)
           mine(r) == r \in DOMAIN res /\ kv[r].id = res[r].id
<1>1. SlotInv' /\ SlotInv /\ TypeOK /\ Idents /\ CachedExact /\ Bounded /\ \A r \in Reqs : Row(r)
  BY ProcessStep DEF ExactInv, SlotInv
<1>2. /\ flight # <<>> /\ flight' = Tail(flight)
      /\ kv' = [r \in Reqs |-> IF mine(r) THEN Turned(kv[r], kv[r].len + res[r].al) ELSE kv[r]]
      /\ UNCHANGED <<overlap, free, mapping, cached, gpu, now, ids>>
  BY DEF Process
<1>3. flight \in Seq(Result) /\ Len(flight) \in Nat /\ Len(flight) > 0 /\ Len(flight) <= 2
  <2>1. flight \in Seq(Result) /\ Len(flight) \in Nat
    BY <1>1 DEF TypeOK
  <2>2. Len(flight) <= 2
    BY <1>1, <2>1 DEF Bounded
  <2> QED
    BY <1>2, <2>1, <2>2
<1>4. /\ res = flight[1] /\ 1 \in DOMAIN flight
      /\ DOMAIN flight' = 1..(Len(flight) - 1) /\ Len(flight') = Len(flight) - 1
      /\ \A i \in DOMAIN flight' : i + 1 \in DOMAIN flight /\ flight'[i] = flight[i + 1]
      /\ 2 \in DOMAIN flight <=> 1 \in DOMAIN flight'
      /\ 2 \notin DOMAIN flight'
  BY <1>2, <1>3
<1> HIDE DEF res
<1>5. ASSUME NEW r \in Reqs, mine(r)
      PROVE  /\ kv[r].phase = "decode" /\ Running(r)
             /\ kv'[r] = Turned(kv[r], Mid(r))
  <2>1. kv[r].phase = "decode"
    BY <1>1, <1>4, <1>5 DEF Idents
  <2>2. Pending(1, r) = res[r].al
    BY <1>4, <1>5 DEF Pending
  <2> QED
    BY <1>2, <1>5, <2>1, <2>2 DEF Mid, Running
<1>6. ASSUME NEW r \in Reqs, ~mine(r)
      PROVE  kv'[r] = kv[r] /\ Mid(r) = kv[r].len
  <2>1. Pending(1, r) = 0
    BY <1>4, <1>6 DEF Pending
  <2>2. kv[r].len \in Nat
    BY <1>1 DEF TypeOK, Kv
  <2> QED
    BY <1>2, <1>6, <2>1, <2>2 DEF Mid
<1>7. ASSUME NEW r \in Reqs
      PROVE  /\ kv'[r].phase = kv[r].phase /\ kv'[r].id = kv[r].id /\ kv'[r].cow = kv[r].cow
             /\ kv'[r].main = kv[r].main /\ kv'[r].pp = kv[r].pp /\ kv'[r].len = Mid(r)
             /\ Crosses(kv[r].len, Mid(r)) =>
                  /\ kv'[r].tracked = Boundary(Mid(r)) /\ kv'[r].last = kv[r].next
                  /\ kv'[r].next = Other(kv[r].next)
             /\ ~Crosses(kv[r].len, Mid(r)) =>
                  /\ kv'[r].tracked = kv[r].tracked /\ kv'[r].last = kv[r].last
                  /\ kv'[r].next = kv[r].next
  <2>1. CASE mine(r)
    <3>1. kv[r] \in Kv /\ Mid(r) \in Nat
      BY <1>1, <1>5, <2>1, Numbers DEF TypeOK, Row
    <3> QED
      BY <1>5, <2>1, <3>1, TurnedFields
  <2>2. CASE ~mine(r)
    BY <1>6, <2>2, Still
  <2> QED
    BY <2>1, <2>2
<1>8. ASSUME NEW r \in Reqs
      PROVE  Pending(1, r)' = Pending(2, r) /\ Pending(2, r)' = 0
  <2>1. Pending(2, r)' = 0
    BY <1>4 DEF Pending
  <2>2. Pending(1, r)' = Pending(2, r)
    BY <1>4, <1>7 DEF Pending
  <2> QED
    BY <2>1, <2>2
<1> HIDE DEF mine
<1>9. ASSUME NEW r \in Reqs, Running(r) PROVE Row(r)'
  <2>1. Row(r) /\ Running(r)' /\ kv[r] \in Kv
    BY <1>1, <1>7, <1>9 DEF Running, TypeOK
  <2>2. /\ kv[r].len \in Nat /\ Mid(r) \in Nat /\ now[r].len \in Nat
        /\ now[r].len = Mid(r) + Pending(2, r) /\ Pending(2, r) \in Nat
        /\ ~(Crosses(kv[r].len, Mid(r)) /\ Crosses(Mid(r), now[r].len))
    BY <1>1, <1>9, <2>1, Numbers, PendingType DEF Row, Lengths
  <2>3. Mid(r)' = now[r].len /\ Lengths(r)'
    <3>1. Mid(r)' = Mid(r) + Pending(2, r)
      BY <1>7, <1>8 DEF Mid
    <3> QED
      BY <1>2, <1>8, <2>2, <3>1 DEF Lengths
  <2>4. Copying(r)'
    <3>1. kv[r].cow # NoSlot => kv[r].phase = "prefill" /\ cached[kv[r].cow] = now[r] /\ now[r] # NoLabel
      BY <2>1 DEF Row, Copying
    <3> QED
      BY <1>2, <1>7, <3>1 DEF Copying
  <2>5. Begun(r)'
    <3>1. kv[r].phase = "decode" \/ kv'[r].len = kv[r].len
      BY <1>5, <1>6, <1>7
    <3> QED
      BY <1>2, <1>7, <1>9, <2>1, <3>1 DEF Row, Begun
  <2>6. Turning(r)'
    <3> SUFFICES ASSUME overlap PROVE kv'[r].last = 1 - kv'[r].next
      BY <1>2 DEF Turning
    <3>1. kv[r].last = 1 - kv[r].next /\ kv[r].next \in {0, 1}
      BY <1>1, <1>9, <2>1, Holds DEF Row, Turning, Idx
    <3>2. CASE Crosses(kv[r].len, Mid(r))
      <4>1. kv'[r].last = kv[r].next /\ kv'[r].next = 1 - kv[r].next
        BY <1>7, <3>2 DEF Other
      <4> QED
        BY <3>1, <4>1
    <3>3. CASE ~Crosses(kv[r].len, Mid(r))
      BY <1>7, <3>1, <3>3
    <3> QED
      BY <3>2, <3>3
  <2>7. Main(r)'
    BY <1>2, <1>7, <1>9, <2>1 DEF Row, Main
  <2>8. Snap(r)'
    <3>1. /\ Crosses(kv[r].len, Mid(r)) =>
               gpu[kv[r].pp[kv[r].next]] = State(kv[r].id, Boundary(Mid(r)))
          /\ Crosses(Mid(r), now[r].len) =>
               gpu[kv[r].pp[kv[r].next]] = State(kv[r].id, Boundary(now[r].len))
          /\ kv[r].tracked > 0 /\ (overlap \/ ~Crosses(kv[r].len, now[r].len)) =>
               gpu[kv[r].pp[kv[r].last]] = State(kv[r].id, kv[r].tracked)
      BY <1>9, <2>1 DEF Row, Snap
    <3>2. Crosses(Mid(r), now[r].len) =>
            gpu[kv[r].pp[kv'[r].next]] = State(kv[r].id, Boundary(now[r].len))
      BY <1>7, <2>2, <3>1
    <3>3. ASSUME kv'[r].tracked > 0, overlap \/ ~Crosses(Mid(r), now[r].len)
          PROVE  gpu[kv[r].pp[kv'[r].last]] = State(kv[r].id, kv'[r].tracked)
      <4>1. CASE Crosses(kv[r].len, Mid(r))
        BY <1>7, <3>1, <4>1
      <4>2. CASE ~Crosses(kv[r].len, Mid(r))
        <5>1. kv'[r].tracked = kv[r].tracked /\ kv'[r].last = kv[r].last
          BY <1>7, <4>2
        <5>2. overlap \/ ~Crosses(kv[r].len, now[r].len)
          <6> SUFFICES ASSUME ~overlap PROVE now[r].len = Mid(r)
            BY <4>2
          <6>1. Len(flight) <= 1
            BY <1>1 DEF Bounded
          <6>2. 2 \notin DOMAIN flight
            BY <1>3, <6>1
          <6>3. Pending(2, r) = 0
            BY <6>2 DEF Pending
          <6> QED
            BY <2>2, <6>3
        <5> QED
          BY <3>1, <3>3, <5>1, <5>2
      <4> QED
        BY <4>1, <4>2
    <3> QED
      BY <1>2, <1>7, <2>3, <3>2, <3>3, Still DEF Snap
  <2> QED
    BY <2>3, <2>4, <2>5, <2>6, <2>7, <2>8 DEF Row
<1>10. ASSUME NEW r \in Reqs, ~Running(r) PROVE Row(r)'
  <2>1. ~Running(r)' /\ Copying(r) /\ kv'[r].cow = kv[r].cow /\ kv'[r].phase = kv[r].phase
    BY <1>1, <1>7, <1>10 DEF Running, Row
  <2>2. Copying(r)'
    BY <1>2, <2>1 DEF Copying
  <2> QED
    BY <2>1, <2>2 DEF Row, Lengths, Begun, Turning, Main, Snap
<1>11. Bounded'
  BY <1>1, <1>2, <1>3, <1>4 DEF Bounded
<1>12. Idents'
  BY <1>1, <1>2, <1>4, <1>7 DEF Idents
<1>13. CachedExact'
  BY <1>1, <1>2 DEF CachedExact
<1>14. \A r \in Reqs : Row(r)'
  BY <1>9, <1>10
<1> QED
  BY <1>1, <1>11, <1>12, <1>13, <1>14 DEF ExactInv

\* The snapshot given away is the one the scheduler believes it is; a forward
\* in flight writes the other slot.
LEMMA DonateExact ==
  ASSUME ExactInv, NEW r \in Reqs, NEW exists \in BOOLEAN, Donate(r, exists)
  PROVE  ExactInv'
<1> DEFINE q   == kv[r]
           new == Pick(free)
           pp  == [q.pp EXCEPT ![q.last] = new]
           old == q.pp[q.last]
           e   == [q EXCEPT !.pp = pp, !.tracked = 0]
<1>1. SlotInv' /\ SlotInv /\ TypeOK /\ Idents /\ CachedExact /\ Bounded /\ \A p \in Reqs : Row(p)
  BY DonateStep DEF ExactInv, SlotInv
<1>2. /\ Settled /\ Running(r) /\ q.tracked > 0
      /\ cached' = IF exists THEN cached ELSE [cached EXCEPT ![old] = State(q.id, q.tracked)]
      /\ kv' = [kv EXCEPT ![r] = e]
      /\ UNCHANGED <<overlap, gpu, now, flight, ids>>
  BY DEF Donate, Running
<1>3. /\ q \in Kv /\ old \in Slots /\ old \in Own(r) /\ q.main \in Slots /\ q.next \in Idx
      /\ q.last \in Idx /\ q.pp \in [Idx -> Slots \cup {NoSlot}]
  BY <1>1, <1>2, Holds DEF Kv
<1>4. /\ kv'[r].phase = q.phase /\ kv'[r].id = q.id /\ kv'[r].cow = q.cow /\ kv'[r].main = q.main
      /\ kv'[r].len = q.len /\ kv'[r].next = q.next /\ kv'[r].last = q.last
      /\ kv'[r].tracked = 0 /\ kv'[r].pp = pp
      /\ \A p \in Reqs : p # r => kv'[p] = kv[p]
  <2>1. /\ e.phase = q.phase /\ e.id = q.id /\ e.cow = q.cow /\ e.main = q.main
        /\ e.len = q.len /\ e.next = q.next /\ e.last = q.last /\ e.tracked = 0 /\ e.pp = pp
    <3> HIDE DEF pp, q
    <3> QED
      BY <1>3 DEF Kv
  <2>2. kv'[r] = e /\ \A p \in Reqs : p # r => kv'[p] = kv[p]
    <3> HIDE DEF e
    <3> QED
      BY <1>1, <1>2 DEF TypeOK
  <2> HIDE DEF e
  <2> QED
    BY <2>1, <2>2
<1>5. q.last # q.next => pp[q.next] = q.pp[q.next]
  BY <1>3
<1> HIDE DEF pp, e, new
<1>6. ~overlap => Mid(r) = q.len /\ now[r].len = q.len
  <2> SUFFICES ASSUME ~overlap PROVE Mid(r) = q.len /\ now[r].len = q.len
    OBVIOUS
  <2>1. Pending(1, r) = 0 /\ Pending(2, r) = 0
    BY <1>1, <1>2, NoResults DEF Settled
  <2>2. q.len \in Nat
    BY <1>3 DEF Kv
  <2> QED
    BY <1>1, <1>2, <2>1, <2>2 DEF Mid, Row, Lengths
<1>7. gpu[old] = State(q.id, q.tracked)
  <2>1. overlap \/ ~Crosses(q.len, now[r].len)
    BY <1>6, Still
  <2> QED
    BY <1>1, <1>2, <2>1 DEF Row, Snap
<1>8. cached[old] = NoLabel /\ \A p \in Reqs : old \in Own(p) => p = r
  BY <1>1, <1>3, Alone
<1>9. \A s \in Slots : s # old => cached'[s] = cached[s]
  BY <1>1, <1>2 DEF TypeOK
<1>10. ASSUME NEW p \in Reqs, kv[p].cow # NoSlot
       PROVE  cached'[kv[p].cow] = cached[kv[p].cow]
  <2>1. kv[p].cow \in Slots
    BY <1>1, <1>10 DEF TypeOK, Kv
  <2>2. cached[kv[p].cow] # NoLabel
    BY <1>1, <1>10 DEF Row, Copying
  <2> QED
    BY <1>8, <1>9, <2>1, <2>2
<1>11. ASSUME NEW p \in Reqs, NEW i PROVE Pending(i, p)' = Pending(i, p)
  <2>1. kv'[p].id = kv[p].id
    BY <1>4
  <2> QED
    BY <1>2, <2>1, SamePending
<1>12. ASSUME NEW p \in Reqs, p # r PROVE Row(p)'
  BY <1>1, <1>2, <1>4, <1>10, <1>11, <1>12, Untouched
<1>13. Row(r)'
  <2>1. Mid(r)' = Mid(r) /\ Running(r)' /\ Lengths(r)'
    BY <1>1, <1>2, <1>4, <1>11 DEF Mid, Running, Lengths, Row
  <2>2. Copying(r)'
    BY <1>1, <1>2, <1>4, <1>10 DEF Row, Copying
  <2>3. Begun(r)' /\ Turning(r)' /\ Main(r)'
    BY <1>1, <1>2, <1>4 DEF Row, Begun, Turning, Main, Running
  <2>4. Snap(r)'
    <3>1. ASSUME Crosses(q.len, Mid(r)) \/ Crosses(Mid(r), now[r].len)
          PROVE  pp[q.next] = q.pp[q.next]
      <4>1. overlap
        BY <1>6, <3>1, Still
      <4>2. q.last = 1 - q.next /\ q.next \in {0, 1}
        BY <1>1, <1>2, <1>3, <4>1 DEF Row, Turning, Idx
      <4>3. q.last # q.next
        BY <4>2
      <4> QED
        BY <1>5, <4>3
    <3> QED
      BY <1>1, <1>2, <1>4, <2>1, <3>1 DEF Row, Snap
  <2> QED
    BY <2>1, <2>2, <2>3, <2>4 DEF Row
<1>14. CachedExact'
  <2>1. cached'[old] # NoLabel => cached'[old] = State(q.id, q.tracked)
    BY <1>1, <1>2, <1>3, <1>8 DEF TypeOK
  <2> QED
    BY <1>1, <1>2, <1>7, <1>9, <2>1 DEF CachedExact
<1>15. Idents'
  <2>1. \A s \in Slots : cached'[s].id <= ids
    <3>1. cached'[old] = cached[old] \/ cached'[old] = State(q.id, q.tracked)
      BY <1>1, <1>2, <1>3 DEF TypeOK
    <3>2. cached'[old].id <= ids
      BY <1>1, <1>3, <3>1 DEF Idents, State
    <3> QED
      BY <1>1, <1>9, <3>2 DEF Idents
  <2>2. \A p \in Reqs : kv'[p].id = kv[p].id /\ kv'[p].phase = kv[p].phase
    BY <1>4
  <2> QED
    BY <1>1, <1>2, <2>1, <2>2 DEF Idents
<1>16. Bounded' /\ \A p \in Reqs : Row(p)'
  BY <1>1, <1>2, <1>12, <1>13 DEF Bounded
<1> QED
  BY <1>1, <1>14, <1>15, <1>16 DEF ExactInv

\* A request that ends leaves its last snapshot behind, or nothing.
LEMMA FinishExact ==
  ASSUME ExactInv, NEW r \in Reqs, NEW keep \in BOOLEAN, Finish(r, keep)
  PROVE  ExactInv'
<1> DEFINE q   == kv[r]
           old == q.pp[q.last]
<1>1. SlotInv' /\ SlotInv /\ TypeOK /\ Idents /\ CachedExact /\ Bounded /\ \A p \in Reqs : Row(p)
  BY FinishStep DEF ExactInv, SlotInv
<1>2. /\ Settled /\ Running(r) /\ (keep => q.tracked > 0)
      /\ cached' = IF keep THEN [cached EXCEPT ![old] = State(q.id, q.tracked)] ELSE cached
      /\ kv' = [kv EXCEPT ![r] = NoKv] /\ now' = [now EXCEPT ![r] = Zero]
      /\ UNCHANGED <<overlap, gpu, flight, ids>>
  BY DEF Finish, Running
<1>3. q \in Kv /\ old \in Slots /\ old \in Own(r)
  BY <1>1, <1>2, Holds
<1>4. kv'[r] = NoKv /\ \A p \in Reqs : p # r => kv'[p] = kv[p] /\ now'[p] = now[p]
  BY <1>1, <1>2 DEF TypeOK
<1>5. keep => gpu[old] = State(q.id, q.tracked)
  <2>1. ~overlap => now[r].len = q.len
    <3> SUFFICES ASSUME ~overlap PROVE now[r].len = q.len
      OBVIOUS
    <3>1. Pending(1, r) = 0 /\ Pending(2, r) = 0
      BY <1>1, <1>2, NoResults DEF Settled
    <3>2. q.len \in Nat
      BY <1>3 DEF Kv
    <3> QED
      BY <1>1, <1>2, <3>1, <3>2 DEF Mid, Row, Lengths
  <2>2. overlap \/ ~Crosses(q.len, now[r].len)
    BY <2>1, Still
  <2> QED
    BY <1>1, <1>2, <2>2 DEF Row, Snap
<1>6. cached[old] = NoLabel
  BY <1>1, <1>3, Alone
<1>7. \A s \in Slots : s # old => cached'[s] = cached[s]
  BY <1>1, <1>2 DEF TypeOK
<1>8. ASSUME NEW p \in Reqs, p # r PROVE Row(p)'
  <2>1. kv[p].cow # NoSlot => cached'[kv[p].cow] = cached[kv[p].cow]
    <3> SUFFICES ASSUME kv[p].cow # NoSlot PROVE cached'[kv[p].cow] = cached[kv[p].cow]
      OBVIOUS
    <3>1. kv[p].cow \in Slots
      BY <1>1 DEF TypeOK, Kv
    <3>2. cached[kv[p].cow] # NoLabel
      BY <1>1 DEF Row, Copying
    <3> QED
      BY <1>6, <1>7, <3>1, <3>2
  <2>2. Pending(1, p)' = Pending(1, p) /\ Pending(2, p)' = Pending(2, p)
    BY <1>2, <1>4, <1>8 DEF Pending
  <2> QED
    BY <1>1, <1>2, <1>4, <1>8, <2>1, <2>2, Untouched
<1>9. Row(r)'
  <2>1. ~Running(r)' /\ kv'[r].cow = NoSlot
    BY <1>4 DEF Running, NoKv
  <2> QED
    BY <2>1 DEF Row, Lengths, Copying, Begun, Turning, Main, Snap
<1>10. CachedExact'
  <2>1. cached'[old] # NoLabel => keep /\ cached'[old] = State(q.id, q.tracked)
    BY <1>1, <1>2, <1>3, <1>6 DEF TypeOK
  <2> QED
    BY <1>1, <1>2, <1>5, <1>7, <2>1 DEF CachedExact
<1>11. Idents'
  <2>1. \A s \in Slots : cached'[s].id <= ids
    <3>1. cached'[old] = cached[old] \/ cached'[old] = State(q.id, q.tracked)
      BY <1>1, <1>2, <1>3 DEF TypeOK
    <3>2. cached'[old].id <= ids
      BY <1>1, <1>3, <3>1 DEF Idents, State
    <3> QED
      BY <1>1, <1>7, <3>2 DEF Idents
  <2>2. \A p \in Reqs : kv'[p].id <= ids
    <3>1. kv'[r].id = 0 /\ ids \in Nat
      BY <1>1, <1>4, MambaAssumption DEF NoKv, TypeOK
    <3> QED
      BY <1>1, <1>4, <3>1 DEF Idents
  <2>3. ASSUME NEW i \in DOMAIN flight, NEW p \in Reqs, p \in DOMAIN flight[i]
        PROVE  flight[i][p].id = kv'[p].id => kv'[p].phase = "decode"
    <3>1. flight[i] \in Result
      BY <1>1, <2>3 DEF TypeOK
    <3>2. flight[i][p].id \in 1..MaxId
      BY <2>3, <3>1 DEF Result
    <3>3. CASE p = r
      BY <1>4, <3>2, <3>3 DEF NoKv
    <3>4. CASE p # r
      BY <1>1, <1>4, <2>3, <3>4 DEF Idents
    <3> QED
      BY <3>3, <3>4
  <2> QED
    BY <1>1, <1>2, <2>1, <2>2, <2>3 DEF Idents
<1>12. Bounded' /\ \A p \in Reqs : Row(p)'
  BY <1>1, <1>2, <1>8, <1>9 DEF Bounded
<1> QED
  BY <1>1, <1>10, <1>11, <1>12 DEF ExactInv

\* An entry dropped is nobody's to copy.
LEMMA EvictExact ==
  ASSUME ExactInv, NEW s \in Slots, Evict(s)
  PROVE  ExactInv'
<1>1. SlotInv' /\ SlotInv /\ TypeOK /\ Idents /\ CachedExact /\ Bounded /\ \A p \in Reqs : Row(p)
  BY EvictStep DEF ExactInv, SlotInv
<1>2. /\ \A r \in Reqs : kv[r].cow # s
      /\ cached' = [cached EXCEPT ![s] = NoLabel]
      /\ UNCHANGED <<overlap, kv, mapping, gpu, now, flight, ids>>
  BY DEF Evict
<1>3. cached'[s] = NoLabel /\ \A t \in Slots : t # s => cached'[t] = cached[t]
  BY <1>1, <1>2 DEF TypeOK
<1>4. ASSUME NEW r \in Reqs PROVE Row(r)'
  <2>1. kv[r].cow # NoSlot => cached'[kv[r].cow] = cached[kv[r].cow]
    BY <1>1, <1>2, <1>3 DEF TypeOK, Kv
  <2>2. Pending(1, r)' = Pending(1, r) /\ Pending(2, r)' = Pending(2, r)
    BY <1>2 DEF Pending
  <2> QED
    BY <1>1, <1>2, <2>1, <2>2, Untouched
<1>5. CachedExact'
  BY <1>1, <1>2, <1>3 DEF CachedExact
<1>6. Idents'
  <2>1. \A t \in Slots : cached'[t].id <= ids
    <3>1. NoLabel.id = 0 /\ ids \in Nat
      BY <1>1, MambaAssumption DEF NoLabel, State, TypeOK
    <3> QED
      BY <1>1, <1>3, <3>1 DEF Idents
  <2> QED
    BY <1>1, <1>2, <2>1 DEF Idents
<1>7. Bounded' /\ \A r \in Reqs : Row(r)'
  BY <1>1, <1>2, <1>4 DEF Bounded
<1> QED
  BY <1>1, <1>5, <1>6, <1>7 DEF ExactInv

\* An idle server has nothing that could be wrong.
LEMMA ClearExact ==
  ASSUME ExactInv, Clear
  PROVE  ExactInv'
<1>1. SlotInv' /\ SlotInv /\ TypeOK /\ Idents /\ Bounded /\ \A p \in Reqs : Row(p)
  BY ClearStep DEF ExactInv, SlotInv
<1>2. /\ \A r \in Reqs : kv[r].phase = "free"
      /\ cached' = [s \in Slots |-> NoLabel]
      /\ UNCHANGED <<overlap, kv, gpu, now, flight, ids>>
  BY DEF Clear
<1>3. ASSUME NEW r \in Reqs PROVE Row(r)'
  <2>1. ~Running(r)' /\ kv'[r].cow = NoSlot
    BY <1>1, <1>2 DEF Running, Row, Copying
  <2> QED
    BY <2>1 DEF Row, Lengths, Copying, Begun, Turning, Main, Snap
<1>4. CachedExact'
  BY <1>2 DEF CachedExact
<1>5. Idents'
  <2>1. NoLabel.id = 0 /\ ids \in Nat
    BY <1>1, MambaAssumption DEF NoLabel, State, TypeOK
  <2> QED
    BY <1>1, <1>2, <2>1 DEF Idents
<1>6. Bounded' /\ \A r \in Reqs : Row(r)'
  BY <1>1, <1>2, <1>3 DEF Bounded
<1> QED
  BY <1>1, <1>4, <1>5, <1>6 DEF ExactInv

-----------------------------------------------------------------------------
(* The theorems.                                                           *)

\* Every step keeps the invariant.
LEMMA ExactStep == ExactInv /\ [Next]_vars => ExactInv'
<1> SUFFICES ASSUME ExactInv, [Next]_vars PROVE ExactInv'
  OBVIOUS
<1>1. ASSUME NEW r \in Reqs, NEW src \in Slots \cup {NoSlot}, Admit(r, src) PROVE ExactInv'
  BY <1>1, AdmitExact
<1>2. ASSUME NEW r \in Reqs, NEW n \in Chunks, NEW final \in BOOLEAN, Prefill(r, n, final)
      PROVE  ExactInv'
  BY <1>2, PrefillExact
<1>3. ASSUME NEW B \in SUBSET Reqs, NEW al \in [B -> 1..Width], Verify(al) PROVE ExactInv'
  BY <1>3, VerifyExact
<1>4. CASE Process
  BY <1>4, ProcessExact
<1>5. ASSUME NEW r \in Reqs, NEW b \in BOOLEAN, Donate(r, b) PROVE ExactInv'
  BY <1>5, DonateExact
<1>6. ASSUME NEW r \in Reqs, NEW b \in BOOLEAN, Finish(r, b) PROVE ExactInv'
  BY <1>6, FinishExact
<1>7. ASSUME NEW s \in Slots, Evict(s) PROVE ExactInv'
  BY <1>7, EvictExact
<1>8. CASE Clear
  BY <1>8, ClearExact
<1>9. CASE UNCHANGED vars
  <2>1. SlotInv' /\ SlotInv /\ \A r \in Reqs : Row(r)
    BY SlotStep DEF ExactInv
  <2>2. UNCHANGED <<overlap, free, kv, mapping, cached, gpu, now, flight, ids>>
    BY <1>9 DEF vars
  <2>3. ASSUME NEW r \in Reqs PROVE Row(r)'
    <3>1. Pending(1, r)' = Pending(1, r) /\ Pending(2, r)' = Pending(2, r)
      BY <2>2 DEF Pending
    <3> QED
      BY <2>1, <2>2, <3>1, Untouched
  <2>4. Bounded' /\ Idents' /\ CachedExact'
    BY <2>2 DEF ExactInv, Bounded, Idents, CachedExact
  <2> QED
    BY <2>1, <2>3, <2>4 DEF ExactInv
<1> QED
  BY <1>1, <1>2, <1>3, <1>4, <1>5, <1>6, <1>7, <1>8, <1>9 DEF Next

\* A request's main slot holds the state of exactly its committed tokens, for
\* any pool, interval, window and number of requests, though the scheduler
\* learns what was accepted up to two forwards later; so does the cached slot
\* that an admitted request has yet to copy.
THEOREM MainStates == Spec => []MainExact
<1>1. ExactInv => MainExact
  <2> SUFFICES ASSUME ExactInv, NEW r \in Reqs
               PROVE  /\ kv[r].phase # "free" /\ kv[r].id = now[r].id => gpu[kv[r].main] = now[r]
                      /\ kv[r].cow # NoSlot => gpu[kv[r].cow] = now[r]
    BY DEF MainExact
  <2>1. SlotInv /\ TypeOK /\ CachedExact /\ Row(r)
    BY DEF ExactInv, SlotInv
  <2>2. kv[r].cow # NoSlot => kv[r].cow \in Slots /\ cached[kv[r].cow] = now[r] /\ now[r] # NoLabel
    BY <2>1 DEF Row, Copying, TypeOK, Kv
  <2> QED
    BY <2>1, <2>2 DEF Row, Main, Running, CachedExact
<1> QED
  BY <1>1, ExactInit, ExactStep, PTL DEF Spec

\* The snapshot a donation would give the prefix cache is of the tokens the
\* scheduler believes, whatever it has launched since.
THEOREM TrackedStates == Spec => []TrackedExact
<1>1. ExactInv => TrackedExact
  <2> SUFFICES ASSUME ExactInv, NEW r \in Reqs, Settled, kv[r].tracked > 0
               PROVE  gpu[kv[r].pp[kv[r].last]] = State(kv[r].id, kv[r].tracked)
    BY DEF TrackedExact
  <2>1. SlotInv /\ TypeOK /\ Idents /\ Row(r)
    BY DEF ExactInv, SlotInv
  <2>2. Running(r)
    BY <2>1 DEF SlotInv, RowInv, Running, NoKv
  <2>3. overlap \/ ~Crosses(kv[r].len, now[r].len)
    <3> SUFFICES ASSUME ~overlap PROVE now[r].len = kv[r].len
      BY Still
    <3>1. Pending(1, r) = 0 /\ Pending(2, r) = 0
      BY <2>1, NoResults DEF Settled
    <3>2. kv[r].len \in Nat
      BY <2>1 DEF TypeOK, Kv
    <3> QED
      BY <2>1, <2>2, <3>1, <3>2 DEF Row, Lengths, Mid
  <2> QED
    BY <2>1, <2>2, <2>3 DEF Row, Snap
<1> QED
  BY <1>1, ExactInit, ExactStep, PTL DEF Spec

\* No forward, in flight at the donation or launched later, writes a slot that
\* the prefix cache has.
THEOREM CachedStates == Spec => []CachedExact
<1>1. ExactInv => CachedExact
  BY DEF ExactInv
<1> QED
  BY <1>1, ExactInit, ExactStep, PTL DEF Spec
=============================================================================
